---------------------------- MODULE SessionLookup ----------------------------
(***************************************************************************)
(* The Session Lookup Controller (SLc) of the TOE and the content          *)
(* addressable memory (CAM) it drives.                                     *)
(*                                                                         *)
(* A session id is recycled through six processes that run on their own:   *)
(*   Sim  hands the ids out of the free list and takes them back,          *)
(*   Lrh  looks a socket pair up, and inserts it under a free id on a miss,*)
(*   Urs  sends insertions and deletions to the CAM, and frees deleted ids,*)
(*   CAM  maps socket pairs to ids,                                        *)
(*   Urh  returns the replies to insertions to Lrh,                        *)
(*   Rlt  maps ids back to socket pairs, and turns a release into a        *)
(*        deletion.                                                        *)
(* Requests come from RXe and TAi (lookups), from STt (releases) and from  *)
(* TXe (reverse lookups).  An iteration of a process is one action; writes *)
(* to streams wait for room.                                               *)
(***************************************************************************)
EXTENDS Naturals, Sequences, FiniteSets

CONSTANTS
    MaxSessions,     \* TOE_MAX_SESSIONS, also the number of entries of the CAM
    Tuple,           \* the socket pairs of this instance
    NoTuple,         \* what a table entry holds that was never written
    StreamDepth,     \* depth of the streams inside SLc
    MaxLookups,      \* bound: lookups by RXe and TAi
    MaxReleases,     \* bound: release commands of STt
    MaxReverse       \* bound: reverse lookups by TXe

ASSUME LookupAssumption ==
    /\ MaxSessions \in Nat \ {0} /\ StreamDepth \in Nat \ {0}
    /\ MaxLookups \in Nat /\ MaxReleases \in Nat /\ MaxReverse \in Nat
    /\ IsFiniteSet(Tuple) /\ NoTuple \notin Tuple

Session == 0 .. MaxSessions - 1
Source  == {"RXe", "TAi"}
Query   == [key : Tuple, allow : BOOLEAN]
Reply   == [hit : BOOLEAN, id : Session]
Entry   == [key : Tuple, id : Session]
Update  == [op : {"INSERT", "DELETE"}, key : Tuple, id : Session]
UpdateOf(op, e) == [op |-> op, key |-> e.key, id |-> e.id]

VARIABLES
    simCounter,         \* sim_counter
    freeList, ursSim,   \* ssSimToLrh_FreeList, ssUrsToSim_FreeId
    lkpReq, lkpRep,     \* [Source -> Seq] lookup requests and replies
    lrh,                \* lrh_fsmState and the lookup in the pipe
    insReq,             \* ssLrhToUrs_InsertSessReq
    camUpd, camRep,     \* stream of updates to the CAM, and of its replies
    cam,                \* the set of valid entries of the CAM
    urhRsp,             \* ssUrhToLrh_SessUpdateRsp
    rltInit,            \* rlt_isInit
    rltIns,             \* ssLrhToRlt_ReverseLkpRsp
    rltKey, rltValid,   \* REVERSE_LOOKUP_TABLE, TUPLE_VALID_TABLE
    delReq,             \* ssRltToUrs_SessDeleteReq
    prtClose,           \* stream of close commands to PRt
    sttRel,             \* stream of release commands from STt
    txeReq, txeRep,     \* streams of reverse lookups of TXe
    owner, known, left  \* history: whom an id was last given to, the ids that
                        \* were given out; operations left of each kind

simVars == <<simCounter, freeList, ursSim>>
lrhVars == <<lkpReq, lkpRep, lrh>>
camVars == <<camUpd, camRep, cam, urhRsp>>
rltVars == <<rltInit, rltIns, rltKey, rltValid, delReq, prtClose>>
envVars == <<sttRel, txeReq, txeRep>>
hisVars == <<owner, known, left>>
vars == <<simVars, lrhVars, insReq, camVars, rltVars, envVars, hisVars>>

Budget  == [lkp |-> MaxLookups, rel |-> MaxReleases, rev |-> MaxReverse]
Spend(k) == left[k] > 0 /\ left' = [left EXCEPT ![k] = @ - 1]
Room(str) == Len(str) < StreamDepth     \* the stream is not full

Init ==
    /\ simCounter = 0 /\ freeList = <<>> /\ ursSim = <<>>
    /\ lkpReq = [c \in Source |-> <<>>] /\ lkpRep = [c \in Source |-> <<>>]
    /\ lrh = [pc |-> "req"]
    /\ insReq = <<>> /\ camUpd = <<>> /\ camRep = <<>> /\ cam = {} /\ urhRsp = <<>>
    /\ rltInit = FALSE /\ rltIns = <<>>
    /\ rltKey = [s \in Session |-> NoTuple]
    /\ rltValid = [s \in Session |-> FALSE]
    /\ delReq = <<>> /\ prtClose = <<>>
    /\ sttRel = <<>> /\ txeReq = <<>> /\ txeRep = <<>>
    /\ owner = [s \in Session |-> NoTuple] /\ known = {}
    /\ left = Budget

----------------------------------------------------------------------------
(***************************************************************************)
(* Session Id Manager.                                                     *)
(***************************************************************************)
SimFill ==
    /\ simCounter < MaxSessions
    /\ freeList' = Append(freeList, simCounter)
    /\ simCounter' = simCounter + 1
    /\ UNCHANGED <<ursSim, lrhVars, insReq, camVars, rltVars, envVars, hisVars>>

SimRecycle ==
    /\ simCounter = MaxSessions /\ ursSim # <<>>
    /\ freeList' = Append(freeList, Head(ursSim))
    /\ ursSim' = Tail(ursSim)
    /\ UNCHANGED <<simCounter, lrhVars, insReq, camVars, rltVars, envVars, hisVars>>

----------------------------------------------------------------------------
(***************************************************************************)
(* Lookup Reply Handler.                                                   *)
(***************************************************************************)
LrhTake(c) ==
    LET q == Head(lkpReq[c]) IN
    /\ lrh.pc = "req" /\ lkpReq[c] # <<>>
    /\ c = "RXe" => lkpReq["TAi"] = <<>>
    /\ lkpReq' = [lkpReq EXCEPT ![c] = Tail(@)]
    /\ lrh' = [pc |-> "lookup", src |-> c, key |-> q.key, allow |-> q.allow]
    /\ UNCHANGED <<simVars, lkpRep, insReq, camVars, rltVars, envVars, hisVars>>

\* The CAM answers one lookup; it takes lookups before updates.
CamLookup ==
    LET hits == {e \in cam : e.key = lrh.key} IN
    /\ lrh.pc = "lookup"
    /\ lrh' = [pc |-> "found", src |-> lrh.src, key |-> lrh.key, allow |-> lrh.allow,
               hit |-> hits # {},
               id |-> IF hits = {} THEN 0 ELSE (CHOOSE e \in hits : TRUE).id]
    /\ UNCHANGED <<simVars, lkpReq, lkpRep, insReq, camVars, rltVars, envVars, hisVars>>

\* Mutant of MayCreate: the hit flag is not looked at.
MayCreateAnyway(r) == r.allow /\ freeList # <<>>

\* A socket pair is inserted on a miss only.
MayCreate(r) == ~r.hit /\ r.allow /\ freeList # <<>>

LrhInsert ==
    LET e == [key |-> lrh.key, id |-> Head(freeList)] IN
    /\ lrh.pc = "found" /\ MayCreate(lrh)
    /\ Room(insReq)
    /\ insReq' = Append(insReq, UpdateOf("INSERT", e))
    /\ freeList' = Tail(freeList)
    /\ lrh' = [pc |-> "update", src |-> lrh.src, key |-> lrh.key]
    /\ UNCHANGED <<simCounter, ursSim, lkpReq, lkpRep, camVars, rltVars, envVars, hisVars>>

Give(c, hit, id) ==
    /\ Room(lkpRep[c])
    /\ lkpRep' = [lkpRep EXCEPT ![c] = Append(@, [hit |-> hit, id |-> id])]

LrhAnswer ==
    /\ lrh.pc = "found" /\ ~MayCreate(lrh)
    /\ Give(lrh.src, lrh.hit, lrh.id)
    /\ lrh' = [pc |-> "req"]
    /\ UNCHANGED <<simVars, lkpReq, insReq, camVars, rltVars, envVars, hisVars>>

\* The reply goes out, then the entry for the reverse table.
LrhInserted ==
    LET id == Head(urhRsp) IN
    /\ lrh.pc = "update" /\ urhRsp # <<>>
    /\ Give(lrh.src, TRUE, id)
    /\ Room(rltIns) /\ rltIns' = Append(rltIns, [key |-> lrh.key, id |-> id])
    /\ urhRsp' = Tail(urhRsp)
    /\ owner' = [owner EXCEPT ![id] = lrh.key]
    /\ lrh' = [pc |-> "req"]
    /\ UNCHANGED <<simVars, lkpReq, insReq, camUpd, camRep, cam, rltInit, rltKey,
                   rltValid, delReq, prtClose, envVars, known, left>>

----------------------------------------------------------------------------
(***************************************************************************)
(* Update Request Sender.                                                  *)
(***************************************************************************)
UrsInsert ==
    /\ insReq # <<>> /\ Room(camUpd)
    /\ camUpd' = Append(camUpd, Head(insReq))
    /\ insReq' = Tail(insReq)
    /\ UNCHANGED <<simVars, lrhVars, camRep, cam, urhRsp, rltVars, envVars, hisVars>>

\* Mutant of Recycled: the id of a deleted session is not given back.
RecycledNever(u) == <<>>

Recycled(u) == <<u.id>>

UrsDelete ==
    LET u == Head(delReq) IN
    /\ insReq = <<>> /\ delReq # <<>>
    /\ Room(camUpd) /\ camUpd' = Append(camUpd, u)
    /\ Room(ursSim) /\ ursSim' = ursSim \o Recycled(u)
    /\ delReq' = Tail(delReq)
    /\ UNCHANGED <<simCounter, freeList, lrhVars, insReq, camRep, cam, urhRsp,
                   rltInit, rltIns, rltKey, rltValid, prtClose, envVars, hisVars>>

----------------------------------------------------------------------------
(***************************************************************************)
(* CAM updates and the Update Reply Handler.                               *)
(***************************************************************************)
\* camInsert has no effect when all entries are valid; camDelete goes by key.
Updated(u) ==
    IF u.op = "DELETE" THEN {e \in cam : e.key # u.key}
    ELSE IF Cardinality(cam) < MaxSessions
         THEN cam \cup {[key |-> u.key, id |-> u.id]}
         ELSE cam

CamUpdate ==
    /\ lrh.pc # "lookup" /\ camUpd # <<>> /\ Room(camRep)
    /\ cam' = Updated(Head(camUpd))
    /\ camRep' = Append(camRep, Head(camUpd))
    /\ camUpd' = Tail(camUpd)
    /\ UNCHANGED <<simVars, lrhVars, insReq, urhRsp, rltVars, envVars, hisVars>>

\* Mutant of AwaitedByLrh: the test is the wrong way round.
AwaitedOnDelete(u) == u.op = "DELETE"

AwaitedByLrh(u) == u.op = "INSERT"

UrhForward ==
    LET u == Head(camRep) IN
    /\ camRep # <<>>
    /\ camRep' = Tail(camRep)
    /\ IF AwaitedByLrh(u) THEN Room(urhRsp) /\ urhRsp' = Append(urhRsp, u.id)
                          ELSE UNCHANGED urhRsp
    /\ UNCHANGED <<simVars, lrhVars, insReq, camUpd, cam, rltVars, envVars, hisVars>>

----------------------------------------------------------------------------
(***************************************************************************)
(* Reverse Lookup Table.                                                   *)
(***************************************************************************)
RltInitialised ==
    /\ ~rltInit /\ rltInit' = TRUE
    /\ UNCHANGED <<simVars, lrhVars, insReq, camVars, rltIns, rltKey, rltValid,
                   delReq, prtClose, envVars, hisVars>>

\* Mutant of InsertFirst: releases and reverse lookups overtake insertions.
InsertAnytime == TRUE

InsertFirst == rltIns = <<>>

RltInsert ==
    LET e == Head(rltIns) IN
    /\ rltInit /\ rltIns # <<>>
    /\ rltKey' = [rltKey EXCEPT ![e.id] = e.key]
    /\ rltValid' = [rltValid EXCEPT ![e.id] = TRUE]
    /\ rltIns' = Tail(rltIns)
    /\ UNCHANGED <<simVars, lrhVars, insReq, camVars, rltInit, delReq, prtClose,
                   envVars, hisVars>>

\* Mutant of ValidAfterRelease: the entry stays valid.
ValidStays(id) == rltValid

ValidAfterRelease(id) == [rltValid EXCEPT ![id] = FALSE]

RltRelease ==
    LET id == Head(sttRel) IN
    /\ rltInit /\ InsertFirst /\ sttRel # <<>>
    /\ IF rltValid[id]
         THEN /\ Room(prtClose) /\ prtClose' = Append(prtClose, rltKey[id])
              /\ Room(delReq)
              /\ delReq' = Append(delReq,
                             UpdateOf("DELETE", [key |-> rltKey[id], id |-> id]))
         ELSE UNCHANGED <<prtClose, delReq>>
    /\ rltValid' = ValidAfterRelease(id)
    /\ sttRel' = Tail(sttRel)
    /\ UNCHANGED <<simVars, lrhVars, insReq, camVars, rltInit, rltIns, rltKey,
                   txeReq, txeRep, hisVars>>

RltReverse ==
    LET id == Head(txeReq) IN
    /\ rltInit /\ InsertFirst /\ sttRel = <<>> /\ txeReq # <<>>
    /\ Room(txeRep)
    /\ txeRep' = Append(txeRep, rltKey[id])
    /\ txeReq' = Tail(txeReq)
    /\ UNCHANGED <<simVars, lrhVars, insReq, camVars, rltVars, sttRel, hisVars>>

----------------------------------------------------------------------------
(***************************************************************************)
(* The users of SLc.  RXe and TAi wait for the reply to a lookup before    *)
(* they send the next; STt and TXe only ever learn of ids that have been   *)
(* given out.                                                              *)
(***************************************************************************)
Waiting(c) ==
    lkpReq[c] # <<>> \/ lkpRep[c] # <<>> \/ (lrh.pc # "req" /\ lrh.src = c)

AskLookup(c, q) ==
    /\ ~Waiting(c) /\ Spend("lkp")
    /\ c = "TAi" => q.allow
    /\ lkpReq' = [lkpReq EXCEPT ![c] = Append(@, q)]
    /\ UNCHANGED <<simVars, lkpRep, lrh, insReq, camVars, rltVars, envVars, owner, known>>

TakeReply(c) ==
    LET r == Head(lkpRep[c]) IN
    /\ lkpRep[c] # <<>>
    /\ lkpRep' = [lkpRep EXCEPT ![c] = Tail(@)]
    /\ known' = IF r.hit THEN known \cup {r.id} ELSE known
    /\ UNCHANGED <<simVars, lkpReq, lrh, insReq, camVars, rltVars, envVars, owner, left>>

STtRelease(id) ==
    /\ id \in known /\ Spend("rel") /\ Room(sttRel)
    /\ sttRel' = Append(sttRel, id)
    /\ UNCHANGED <<simVars, lrhVars, insReq, camVars, rltVars, txeReq, txeRep, owner, known>>

TXeReverse(id) ==
    /\ id \in known /\ Spend("rev") /\ Room(txeReq)
    /\ txeReq' = Append(txeReq, id)
    /\ UNCHANGED <<simVars, lrhVars, insReq, camVars, rltVars, sttRel, txeRep, owner, known>>

TXeTake ==
    /\ txeRep # <<>> /\ txeRep' = Tail(txeRep)
    /\ UNCHANGED <<simVars, lrhVars, insReq, camVars, rltVars, sttRel, txeReq, hisVars>>

PRtTake ==
    /\ prtClose # <<>> /\ prtClose' = Tail(prtClose)
    /\ UNCHANGED <<simVars, lrhVars, insReq, camVars, rltInit, rltIns, rltKey, rltValid,
                   delReq, envVars, hisVars>>

----------------------------------------------------------------------------
Sim == SimFill \/ SimRecycle
Lrh == LrhTake("RXe") \/ LrhTake("TAi") \/ LrhInsert \/ LrhAnswer \/ LrhInserted
Urs == UrsInsert \/ UrsDelete
Cam == CamLookup \/ CamUpdate
Rlt == RltInitialised \/ RltInsert \/ RltRelease \/ RltReverse
Users == TakeReply("RXe") \/ TakeReply("TAi") \/ TXeTake \/ PRtTake

Next ==
    \/ Sim \/ Lrh \/ Urs \/ Cam \/ UrhForward \/ Rlt \/ Users
    \/ \E c \in Source, q \in Query : AskLookup(c, q)
    \/ \E id \in Session : STtRelease(id) \/ TXeReverse(id)

Spec == Init /\ [][Next]_vars

\* Every process is a free-running loop.
FairSpec ==
    /\ Spec
    /\ WF_vars(Sim) /\ WF_vars(Lrh) /\ WF_vars(Urs) /\ WF_vars(Cam)
    /\ WF_vars(UrhForward) /\ WF_vars(Rlt)
    /\ WF_vars(TakeReply("RXe")) /\ WF_vars(TakeReply("TAi"))
    /\ WF_vars(TXeTake) /\ WF_vars(PRtTake)

----------------------------------------------------------------------------
StreamOf(S) == {s \in Seq(S) : Len(s) <= StreamDepth}
Elements(s) == {s[i] : i \in 1 .. Len(s)}

\* The state and the streams keep their types, and no stream overflows.
TypeOK ==
    /\ simCounter \in 0 .. MaxSessions
    /\ freeList \in Seq(Session) /\ ursSim \in StreamOf(Session)
    /\ lkpReq \in [Source -> StreamOf(Query)]
    /\ lkpRep \in [Source -> StreamOf(Reply)]
    /\ lrh \in [pc : {"req"}]
         \cup [pc : {"lookup"}, src : Source, key : Tuple, allow : BOOLEAN]
         \cup [pc : {"found"}, src : Source, key : Tuple, allow : BOOLEAN,
               hit : BOOLEAN, id : Session]
         \cup [pc : {"update"}, src : Source, key : Tuple]
    /\ insReq \in StreamOf(Update) /\ camUpd \in StreamOf(Update)
    /\ camRep \in StreamOf(Update) /\ delReq \in StreamOf(Update)
    /\ cam \subseteq Entry /\ urhRsp \in StreamOf(Session)
    /\ rltInit \in BOOLEAN /\ rltIns \in StreamOf(Entry)
    /\ rltKey \in [Session -> Tuple \cup {NoTuple}]
    /\ rltValid \in [Session -> BOOLEAN]
    /\ prtClose \in StreamOf(Tuple) /\ sttRel \in StreamOf(Session)
    /\ txeReq \in StreamOf(Session) /\ txeRep \in StreamOf(Tuple)
    /\ owner \in [Session -> Tuple \cup {NoTuple}] /\ known \subseteq Session
    /\ DOMAIN left = DOMAIN Budget /\ \A k \in DOMAIN left : left[k] \in 0 .. Budget[k]

\* Where an id is: it travels from the free list over the CAM to the reverse table,
\* and back over Urs and Sim.
Slots(id) ==
    LET At(str)   == {i \in 1 .. Len(str) : str[i] = id}
        With(str) == {i \in 1 .. Len(str) : str[i].id = id}
        Ins(str)  == {i \in With(str) : str[i].op = "INSERT"}
    IN  UNION {{"Sim"} \X ({id} \cap simCounter .. MaxSessions - 1),
               {"freeList"} \X At(freeList), {"insReq"} \X With(insReq),
               {"camUpd"} \X Ins(camUpd), {"camRep"} \X Ins(camRep),
               {"urhRsp"} \X At(urhRsp), {"rltIns"} \X With(rltIns),
               {"rlt"} \X {i \in {id} : rltValid[i]},
               {"delReq"} \X With(delReq), {"ursSim"} \X At(ursSim)}

\* No session id is lost or duplicated: whatever is looked up and released,
\* released twice, or released while it is free, every id is in exactly one
\* place of the loop Sim - Lrh - Urs - CAM - Urh - Lrh - Rlt - Urs - Sim.
IdsConserved == \A id \in Session : Cardinality(Slots(id)) = 1

\* An insertion never finds the CAM full, nor its socket pair or its id in
\* it: an id is only free again once its deletion has been sent ahead of any
\* insertion that uses it.
InsertionTakesEffect ==
    LET u == Head(camUpd) IN
    camUpd # <<>> /\ u.op = "INSERT" =>
        /\ Cardinality(cam) < MaxSessions
        /\ \A e \in cam : e.key # u.key /\ e.id # u.id

\* What the reverse table holds as valid is what the CAM holds: the deletion
\* it will ask for, which goes by socket pair, removes this session's entry.
ReverseMirrorsCam ==
    \A id \in Session : rltValid[id] => [key |-> rltKey[id], id |-> id] \in cam

\* The CAM, the reverse table and the updates in flight between them agree; types
\* and depths of the streams hold, too.
CamConsistent == TypeOK /\ InsertionTakesEffect /\ ReverseMirrorsCam

\* TXe never gets the socket pair of an earlier owner of the id, even when it
\* asks as soon as the id has been given out: the segment it builds goes to
\* the peer of the connection.
ReverseIsCurrent ==
    [][txeReq # <<>> /\ txeReq' = Tail(txeReq)
         => txeRep' = Append(txeRep, owner[Head(txeReq)])]_vars

\* Every lookup is answered, whatever deletions and insertions are under way.
LookupServed == \A c \in Source : Waiting(c) ~> ~Waiting(c)

\* A valid session that is released gets its id back into the free list.
ReleasedIsFreed ==
    \A id \in Session :
        (id \in Elements(sttRel) /\ rltValid[id]) ~> (id \in Elements(freeList))
=============================================================================
