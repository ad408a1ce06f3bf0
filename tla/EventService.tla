---------------------------- MODULE EventService ----------------------------
(***************************************************************************)
(* What the TOE expects of the path that EventPipeline models: events that *)
(* are not ACK_EVENTs reach TXe once each and in the order in which they   *)
(* were accepted; an ACK_EVENT leaves its session owing an ACK, which the  *)
(* path pays by an ACK_EVENT of its own or lets a later segment of the     *)
(* same session carry.                                                     *)
(***************************************************************************)
EXTENDS Sequences

CONSTANTS Session, PlainEvent     \* PlainEvent: the events other than ACK_EVENT

VARIABLES
    queue,      \* events accepted and not yet handed to TXe
    owed,       \* [Session -> BOOLEAN]: an ACK is owed
    out         \* events handed over that TXe has not taken yet

vars == <<queue, owed, out>>

Init == queue = <<>> /\ owed = [s \in Session |-> FALSE] /\ out = <<>>

AcceptPlain(e) == queue' = Append(queue, e) /\ UNCHANGED <<owed, out>>
AcceptAck(s)   == owed' = [owed EXCEPT ![s] = TRUE] /\ UNCHANGED <<queue, out>>

HandOver ==
    /\ queue # <<>>
    /\ out' = Append(out, Head(queue))
    /\ queue' = Tail(queue)
    /\ UNCHANGED owed

\* The session's next event is about to be handed over: its segment carries the
\* ACK.  A reset that belongs to no session carries nobody's ACK.
Absorb(s) ==
    /\ queue # <<>> /\ Head(queue).sess = s /\ Head(queue).type # "RST"
    /\ owed[s]
    /\ owed' = [owed EXCEPT ![s] = FALSE]
    /\ UNCHANGED <<queue, out>>

PayAck(s) ==
    /\ owed[s]
    /\ out' = Append(out, [type |-> "ACK", sess |-> s])
    /\ owed' = [owed EXCEPT ![s] = FALSE]
    /\ UNCHANGED queue

Take == out # <<>> /\ out' = Tail(out) /\ UNCHANGED <<queue, owed>>

Next ==
    \/ \E e \in PlainEvent : AcceptPlain(e)
    \/ \E s \in Session : AcceptAck(s) \/ Absorb(s) \/ PayAck(s)
    \/ HandOver
    \/ Take

\* What the service may do.
Safety == Init /\ [][Next]_vars
=============================================================================
