----------------------------- MODULE SessionLife -----------------------------
(***************************************************************************)
(* The life of a session id: the State Table and its clients composed with *)
(* the Session Lookup Controller.                                          *)
(*                                                                         *)
(* A segment takes RXe two processes.  Mdh looks the socket pair up and    *)
(* puts the id into a stream; Fsm reads the state of that id and writes    *)
(* the state the segment leads to.  Meanwhile a session that has become    *)
(* CLOSED is released by STt, deleted from the CAM by SLc and its id given *)
(* to the next connection.  Nothing ties the two together.                 *)
(***************************************************************************)
EXTENDS StateTableClients

CONSTANTS
    Tuple,           \* socket pairs
    NoTuple,         \* what a table entry holds that was never written
    SlcDepth,        \* depth of the streams of SLc
    MetaDepth        \* depth of ssMdhToFsm_Meta

VARIABLES
    simCounter, freeList, ursSim, lkpReq, lkpRep, lrh, insReq, camUpd, camRep,
    cam, urhRsp, rltInit, rltIns, rltKey, rltValid, delReq, prtClose,
    txeReq, txeRep, owner, known, slcLeft,     \* the state of SLc
    mdhKind,         \* the kind of segment Mdh has a lookup open for, or "none"
    fsmMeta,         \* ssMdhToFsm_Meta
    fsmKind          \* the kind of segment Fsm is working on

SLC == INSTANCE SessionLookup
         WITH StreamDepth <- SlcDepth, sttRel <- slcRel, left <- slcLeft,
              MaxLookups <- MaxSegments, MaxReleases <- 0, MaxReverse <- 0

slcOnly == <<simCounter, freeList, ursSim, lkpReq, lkpRep, lrh, insReq, camUpd,
             camRep, cam, urhRsp, rltInit, rltIns, rltKey, rltValid, delReq,
             prtClose, txeReq, txeRep, owner, known, slcLeft>>
sttOnly == <<sttVars, qry, rep, strReq, strRep, timClose, clientVars>>
rxeVars == <<mdhKind, fsmMeta, fsmKind>>
lifeVars == <<sttOnly, slcRel, slcOnly, rxeVars>>

Kind == {"ACK", "SYN", "FIN", "RST"}
KindNext(k, old) ==
    CASE k = "ACK" -> AckNext(old)
      [] k = "SYN" -> SynNext(old)
      [] k = "FIN" -> FinNext(old)
      [] k = "RST" -> RstNext(old)

LifeInit ==
    /\ Init /\ SLC!Init
    /\ mdhKind = "none" /\ fsmMeta = <<>> /\ fsmKind = "none"

----------------------------------------------------------------------------
\* Mdh: only a SYN may create a session.
MdhMeta(key, kind) ==
    /\ mdhKind = "none"
    /\ SLC!AskLookup("RXe", [key |-> key, allow |-> kind = "SYN"])
    /\ mdhKind' = kind
    /\ UNCHANGED <<sttOnly, fsmMeta, fsmKind>>

MdhLookup ==
    LET r == Head(lkpRep["RXe"]) IN
    /\ mdhKind # "none"
    /\ SLC!TakeReply("RXe")
    /\ IF r.hit THEN /\ Len(fsmMeta) < MetaDepth
                     /\ fsmMeta' = Append(fsmMeta, [id |-> r.id, kind |-> mdhKind])
                ELSE UNCHANGED fsmMeta
    /\ mdhKind' = "none"
    /\ UNCHANGED <<sttOnly, fsmKind>>

LifeLoad ==
    LET m == Head(fsmMeta) IN
    /\ fsmMeta # <<>>
    /\ FsmLoad(m.id)
    /\ fsmKind' = m.kind /\ fsmMeta' = Tail(fsmMeta)
    /\ UNCHANGED <<slcOnly, mdhKind>>

LifeTransition ==
    /\ Answer("rx", LAMBDA old : KindNext(fsmKind, old))
    /\ UNCHANGED <<slcOnly, rxeVars>>

\* A timer of TIm expires: there is none for a session that is CLOSED.
LifeClose(s) ==
    /\ table[s] # "CLOSED" /\ TImClose(s)
    /\ UNCHANGED <<slcOnly, rxeVars>>

LifeSTt == STt /\ UNCHANGED <<slcOnly, rxeVars>>

LifeSLc ==
    /\ SLC!Sim \/ SLC!Lrh \/ SLC!Urs \/ SLC!Cam \/ SLC!UrhForward \/ SLC!Rlt
       \/ SLC!PRtTake
    /\ UNCHANGED <<sttOnly, rxeVars>>

LifeNext ==
    \/ MdhLookup \/ LifeLoad \/ LifeTransition \/ LifeSTt \/ LifeSLc
    \/ \E key \in Tuple, kind \in Kind : MdhMeta(key, kind)
    \/ \E s \in Session : LifeClose(s)

LifeSpec == LifeInit /\ [][LifeNext]_lifeVars

----------------------------------------------------------------------------
\* "Every TCP connection is identified by a SessionId and an associated
\* 4-tuple. These data are stored in the CAM" (DOC/NTS/SLc.md): a session
\* that is not CLOSED has its entry there.
ConnectionIsInCam ==
    \A s \in Session : table[s] # "CLOSED" => \E e \in cam : e.id = s
=============================================================================
