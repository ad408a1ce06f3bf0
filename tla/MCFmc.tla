------------------------------- MODULE MCFmc -------------------------------
(***************************************************************************)
(* Workloads of the FMC, and what its clients may rely on.                 *)
(***************************************************************************)
EXTENDS Fmc, FiniteSets

Path(v) == [t |-> "path", v |-> v, r |-> 0, last |-> FALSE]
Number(v, r) == [t |-> "path", v |-> v, r |-> r, last |-> FALSE]
Nl == [t |-> "nl", v |-> "", r |-> 0, last |-> FALSE]
Line(r, ip) == [t |-> "line", v |-> ip, r |-> r, last |-> FALSE]
Data(v) == [t |-> "data", v |-> v, r |-> 0, last |-> FALSE]

Segment(words) == [words EXCEPT ![Len(words)].last = TRUE]
Request(sess, segs) == [sess |-> sess, segs |-> [i \in DOMAIN segs |-> Segment(segs[i])]]
Get(sess, word) == Request(sess, <<<<word, Nl>>>>)
Work(reqs, eos, restarts, resets) == [reqs |-> reqs, eos |-> eos, restarts |-> restarts, resets |-> resets]
Calm(reqs) == Work(reqs, TRUE, 0, 0)

Status(n) == Get(n, Path("status"))
Rank(n, r) == Get(n, Number("rank", r))
Size(n, r) == Get(n, Number("size", r))
Routing(n, segs) == Request(n, <<<<Path("routing"), Nl>> \o Head(segs)>> \o Tail(segs))
Configure(n, segs) == Request(n, <<<<Path("configure"), Nl>> \o Head(segs)>> \o Tail(segs))

\* The ranks ascend, over the requests, too: see RacingWorks.
Table == Routing(1, <<<<Line(0, "ip10"), Line(1, "ip11"), Nl>>>>)
TableInTwo == Routing(2, <<<<Line(1, "ip21")>>, <<Line(2, "ip22"), Nl>>>>)
\* The bad line comes last: an earlier one is answered at once, and what is still to
\* come of the request becomes the beginning of the next.
TableBad == Routing(1, <<<<Line(1, "ip31"), Line(3, "ip33"), Nl>>>>)
Short == Configure(1, <<<<Data("a"), Nl>>>>)
Long == Configure(1, <<<<Data("a"), Data("b"), Data("c")>>, <<Data("d"), Nl>>>>)
InThree == Configure(2, <<<<Data("a")>>, <<Data("b")>>, <<Data("c"), Nl>>>>)

MCWorks == {
    Calm(<<Status(1), Rank(2, 1)>>),
    Work(<<Rank(1, 2), Table>>, TRUE, 1, 0),
    Calm(<<Size(1, 3), Get(2, Path("else")), Request(1, <<<<Path("status")>>>>)>>),
    Calm(<<Table, TableInTwo>>),
    Calm(<<TableBad, TableInTwo>>),
    Calm(<<Table, TableBad>>),
    Calm(<<Long, Short>>),
    Calm(<<Table, InThree>>),
    Work(<<Short>>, FALSE, 0, 0),
    Work(<<Rank(1, 1), Status(2)>>, TRUE, 0, 1)}

\* The second table names a rank below one that is in the table already.
RacingWorks == {Calm(<<Routing(1, <<<<Line(0, "ip10"), Line(2, "ip12"), Nl>>>>), TableInTwo>>)}

(***************************************************************************)
(* Properties.                                                             *)
(***************************************************************************)
F == INSTANCE SequencesExt

Asked == 1..env.asked
Answered == 1..Len(env.answers)
Words(i) == F!FlattenSeq(env.work.reqs[i].segs)
Kind(i) == Words(i)[1].v
Lines(i) == {j \in DOMAIN Words(i) : Words(i)[j].t = "line"}
Payload(i) ==
    LET data == SelectSeq(Words(i), LAMBDA w : w.t = "data")
    IN  [j \in DOMAIN data |-> data[j].v]

\* The status a request deserves.
Deserved(i) ==
    CASE "nl" \notin {w.t : w \in F!ToSet(Words(i))} -> 400
      [] Kind(i) = "else" -> 404
      [] Kind(i) \in {"rank", "size"} -> IF Words(i)[1].r \in Ranks THEN 200 ELSE 400
      [] Kind(i) = "routing" -> IF \A j \in Lines(i) : Words(i)[j].r \in Ranks THEN 200 ELSE 422
      [] Kind(i) = "configure" -> IF env.work.eos THEN 200 ELSE 500
      [] OTHER -> 200

\* Every response carries the status its request deserves and goes to the session
\* the request came from, one per request and in their order.
\* (fmc.cpp, GLOBAL_TCP_HTTP; http.cpp, parseHttpInput)
AnswerIsJust ==
    /\ Len(env.answers) <= env.asked
    /\ \A i \in Answered : env.answers[i] = <<env.work.reqs[i].sess, Deserved(i)>>

\* The words the HWICAP takes are those of the configurations asked for, without a
\* gap, a repetition or a word of anything else, and when a configuration is
\* answered with success it has taken all of them.  (fmc.cpp, fsmTcpData_RX,
\* fsmHwicap, OP_FIFO_TO_HWICAP)
ConfigurationIntact ==
    LET upto(n) == F!FlattenSeq([i \in 1..n |-> IF Kind(i) = "configure" THEN Payload(i) ELSE <<>>])
    IN  /\ F!IsPrefix(cap.words, upto(env.asked))
        /\ (Answered # {} /\ env.answers[Len(env.answers)][2] = 200) => F!IsPrefix(upto(Len(env.answers)), cap.words)

\* Every request is answered, and the FMC is then ready for the next one until all are
\* done.  (fmc.cpp: the programs and the TCP state machines they wait for)
EveryRequestAnswered == <>(Len(env.answers) = Len(env.work.reqs))

\* A table that was accepted is in force, line by line, unless a later request names
\* the rank or a configuration clears the table.
TableInForce ==
    \A i \in Answered : Kind(i) = "routing" /\ env.answers[i][2] = 200
        /\ (\A k \in Asked : k > i => Kind(k) # "configure") =>
        \A j \in Lines(i) :
            LET later == {k \in Asked : k > i /\ \E l \in Lines(k) : Words(k)[l].r = Words(i)[j].r}
            IN  later # {} \/ s.mrt[Words(i)[j].r] = Words(i)[j].v

\* A line of a refused table that nothing accepted came after: the lines in front of
\* the bad one stay in the FMC, and the NAL is not told.
LeftByRefused(r) ==
    \E i \in Answered :
        /\ env.answers[i][2] = 422 /\ \E j \in Lines(i) : Words(i)[j].r = r
        /\ \A k \in Answered : k > i => Kind(k) \notin {"routing", "configure"} \/ env.answers[k][2] # 200

\* In the end the FMC has the tables it accepted, and the NAL has the rank of the FMC
\* and its table, except for the lines of a table that was refused, also after the NAL
\* was restarted.  (fmc.cpp, OP_BUFFER_TO_ROUTING, linkCtrlFSM)
TableMirrored ==
    <>[]/\ TableInForce /\ nal.rank = s.rank
        /\ \A r \in Ranks : nal.mrt[r] = s.mrt[r] \/ LeftByRefused(r)

=============================================================================
