------------------------------ MODULE MCTxStream ------------------------------
(* Instances of TxStream: alignments of the stream in the Tx buffer. *)
EXTENDS TxStream

\* Chunks, segments and requests straddle the end of the buffer in every way but
\* those of the next three definitions.
Straddling == {<<7, 6, 2>>, <<4, 7, 2>>, <<0, 3, 2>>, <<0, 2, 3>>}

\* A request that ends exactly at the end of the buffer.
UpToTheEnd == {<<1, 7, 1>>}

\* A request whose last chunk has bytes on both sides of the end of the buffer.
LastChunkStraddles == {<<7, 2, 3>>}

\* An access whose first part is a single full chunk.
SingleChunk == {<<6, 3, 3>>}

\* The theorems about the window and the ring are about the run, too.
ASSUME EndsApart
=============================================================================
