------------------------------ MODULE MCNalTcp ------------------------------
(* Instances of NalTcp for TLC. *)
EXTENDS NalTcp

\* Two nodes that change places, and a third rank that is not given away.
Swapped == <<<<"A", "B", "none">>, <<"B", "A", "none">>>>

Client(ip, port) == [ip |-> ip, rport |-> "eph", lport |-> port]
Msg(r, port, n) == [rank |-> r, rport |-> port, len |-> n]
Idle == [conns |-> {}, data |-> 0, msgs |-> {}, replies |-> 0, mrts |-> 0, prs |-> 0, resets |-> 0,
         timeouts |-> 0, aborts |-> 0, full |-> 0, words |-> 2]

\* Receiving: two nodes; one that changes place; one whose role is replaced, or
\* whose session is aborted; FMC, called by a host that may not.
A == Client("A", "role")
B == Client("B", "role")
Received == {
    [Idle EXCEPT !.conns = {A, B}, !.data = 2],
    [Idle EXCEPT !.conns = {A}, !.data = 3],
    [Idle EXCEPT !.conns = {A}, !.data = 2, !.mrts = 1],
    [Idle EXCEPT !.conns = {A, B}, !.data = 1, !.prs = 1],
    [Idle EXCEPT !.conns = {A}, !.data = 1, !.resets = 1],
    [Idle EXCEPT !.conns = {A, B}, !.data = 2, !.aborts = 1],
    [Idle EXCEPT !.conns = {Client("cfrm", "fmc")}, !.data = 1, !.prs = 1],
    [Idle EXCEPT !.conns = {Client("cfrm", "fmc"), Client("A", "fmc")}, !.data = 1, !.replies = 1]}

\* Sending: to two nodes that change places; repeatedly; with a reset; to a client that may
\* be gone; to ranks without a node; with a full send buffer and a timeout; of messages
\* longer than Split, whose length is known, or is not, the last one and an earlier one,
\* and one of FMC.
Sent == {
    [Idle EXCEPT !.msgs = {Msg(1, "lsn", 2), Msg(1, "lsn", 0)}],
    [Idle EXCEPT !.msgs = {Msg(1, "lsn", 2), Msg(2, "lsn", 0)}, !.mrts = 1],
    [Idle EXCEPT !.msgs = {Msg(1, "lsn", 2)}, !.data = 1, !.resets = 1],
    [Idle EXCEPT !.conns = {A}, !.data = 1, !.aborts = 1, !.msgs = {Msg(1, "eph", 0)}],
    [Idle EXCEPT !.msgs = {Msg(3, "lsn", 2), Msg(4, "lsn", 0), Msg(2, "lsn", 2)}],
    [Idle EXCEPT !.msgs = {Msg(2, "lsn", 2)}, !.data = 1, !.aborts = 1],
    [Idle EXCEPT !.msgs = {Msg(1, "lsn", 2)}, !.timeouts = 1, !.full = 1],
    [Idle EXCEPT !.msgs = {Msg(1, "lsn", 3), Msg(2, "lsn", 0)}, !.words = 3],
    [Idle EXCEPT !.conns = {Client("cfrm", "fmc")}, !.data = 1, !.replies = 1, !.words = 3]}

Workloads == Received \cup Sent
\* Four notifications of one node.
Pressed == {[Idle EXCEPT !.conns = {A}, !.data = 4]}
=============================================================================
