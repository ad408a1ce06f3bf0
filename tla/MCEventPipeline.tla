-------------------------- MODULE MCEventPipeline --------------------------
(* Instances of EventPipeline for TLC. *)
EXTENDS EventPipeline

\* Two levels of delay: a second ACK shortens the delay, a third sets it to 1,
\* a fourth changes nothing.
MCAckDelays == <<3, 2>>
=============================================================================
