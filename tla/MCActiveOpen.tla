----------------------------- MODULE MCActiveOpen -----------------------------
(* Instances of ActiveOpen for TLC. *)
EXTENDS ActiveOpen

Budget(o, c, n, f, l, s) == [opens |-> o, closes |-> c, clients |-> n, fins |-> f, losses |-> l, spurious |-> s]

\* Two connections, opened and closed, one after the other; two besides that of a
\* client, more than there are sessions; one besides those of two clients, or of one
\* with a loss, or with a close by the peer; two of clients, and two closes by both
\* sides with losses; one with a loss and a retransmission that was not called for;
\* three, more than there are ports, also with a client, by which two get one port.
Workloads == {Budget(2, 2, 0, 0, 0, 0), Budget(2, 0, 1, 0, 0, 0), Budget(1, 0, 2, 0, 0, 0),
              Budget(1, 1, 1, 0, 1, 0), Budget(1, 1, 1, 1, 0, 0), Budget(0, 0, 2, 1, 0, 0),
              Budget(1, 1, 0, 1, 2, 0), Budget(1, 1, 0, 0, 1, 1), Budget(3, 0, 0, 0, 0, 0),
              Budget(3, 0, 1, 0, 0, 0)}
=============================================================================
