------------------------ MODULE SessionLookup_proofs ------------------------
(***************************************************************************)
(* The ids of sessions, the CAM and the reverse table of SLc stay          *)
(* consistent, for every number of sessions, every depth of the streams    *)
(* and every budget of the users.                                          *)
(***************************************************************************)
EXTENDS SessionLookup, FiniteSetTheorems, TLAPS

(***************************************************************************)
(* The ids in each place of the loop.                                      *)
(***************************************************************************)
Ids(str) == {str[i].id : i \in 1 .. Len(str)}
IdsWith(op, str) == {str[i].id : i \in {j \in 1 .. Len(str) : str[j].op = op}}

Place == {"Sim", "freeList", "insReq", "camUpd", "camRep", "urhRsp", "rltIns", "rlt",
          "delReq", "ursSim"}

Where == [p \in Place |->
    CASE p = "Sim"      -> simCounter .. MaxSessions - 1
      [] p = "freeList" -> Elements(freeList)
      [] p = "insReq"   -> Ids(insReq)
      [] p = "camUpd"   -> IdsWith("INSERT", camUpd)
      [] p = "camRep"   -> IdsWith("INSERT", camRep)
      [] p = "urhRsp"   -> Elements(urhRsp)
      [] p = "rltIns"   -> Ids(rltIns)
      [] p = "rlt"      -> {s \in Session : rltValid[s]}
      [] p = "delReq"   -> Ids(delReq)
      [] p = "ursSim"   -> Elements(ursSim)]

Partition(W) ==
    /\ \A id \in Session : \E p \in Place : id \in W[p]
    /\ \A p, q \in Place : p # q => W[p] \cap W[q] = {}

Once(str) == \A i, j \in 1 .. Len(str) : str[i] = str[j] => i = j
OnceById(str) == \A i, j \in 1 .. Len(str) : str[i].id = str[j].id => i = j

InOnePlace ==
    /\ Partition(Where)
    /\ Once(freeList) /\ Once(ursSim) /\ OnceById(rltIns) /\ OnceById(delReq)

(***************************************************************************)
(* Lrh has at most one insertion under way, in one of four stations.       *)
(***************************************************************************)
Inserts(str) == {i \in 1 .. Len(str) : str[i].op = "INSERT"}

OneInsert(str, key) == \E i \in Inserts(str) : Inserts(str) = {i} /\ str[i].key = key

Pending(n, upd, rep, m) ==
    /\ Len(insReq) = n /\ Len(urhRsp) = m
    /\ \A i \in 1 .. n : insReq[i].op = "INSERT" /\ insReq[i].key = lrh.key
    /\ IF upd THEN OneInsert(camUpd, lrh.key) ELSE Inserts(camUpd) = {}
    /\ IF rep THEN OneInsert(camRep, lrh.key) ELSE Inserts(camRep) = {}

OneInsertion ==
    IF lrh.pc = "update"
    THEN \/ Pending(1, FALSE, FALSE, 0) \/ Pending(0, TRUE, FALSE, 0)
         \/ Pending(0, FALSE, TRUE, 0)  \/ Pending(0, FALSE, FALSE, 1)
    ELSE Pending(0, FALSE, FALSE, 0)

(***************************************************************************)
(* What the CAM holds is what the reverse table, and the updates in        *)
(* flight, say; a deletion goes ahead of the next insertion of the id.     *)
(***************************************************************************)
EntryOf(u) == [key |-> u.key, id |-> u.id]

\* Entries that must be in the CAM.
Claims ==
    /\ \A s \in Session : rltValid[s] => [key |-> rltKey[s], id |-> s] \in cam
    /\ \A i \in 1 .. Len(rltIns) : rltIns[i] \in cam
    /\ \A i \in 1 .. Len(delReq) : delReq[i].op = "DELETE" /\ EntryOf(delReq[i]) \in cam
    /\ \A i \in Inserts(camRep) : EntryOf(camRep[i]) \in cam
    /\ \A i \in 1 .. Len(urhRsp) : [key |-> lrh.key, id |-> urhRsp[i]] \in cam
    /\ \A i \in 1 .. Len(camUpd) : camUpd[i].op = "DELETE" => EntryOf(camUpd[i]) \in cam

\* The places an id can be in while the CAM has it.
InCam == UNION {Where[p] : p \in {"camRep", "urhRsp", "rltIns", "rlt", "delReq"}}
Deleted == IdsWith("DELETE", camUpd)

CamOf ==
    /\ \A e, f \in cam : e.key = f.key \/ e.id = f.id => e = f
    /\ \A e \in cam : e.id \in InCam \cup Deleted
    /\ Deleted \cap InCam = {}
    /\ \A i, j \in 1 .. Len(camUpd) :
         camUpd[j].op = "DELETE" /\ camUpd[i].id = camUpd[j].id => j <= i

\* What Lrh is about to insert, or has under way, is not in the CAM.
Missed ==
    /\ lrh.pc = "found" /\ ~lrh.hit => \A e \in cam : e.key # lrh.key
    /\ \A i \in 1 .. Len(insReq) : \A e \in cam : e.key # insReq[i].key
    /\ \A i \in Inserts(camUpd) : \A e \in cam : e.key # camUpd[i].key

(***************************************************************************)
(* Who knows an id finds its owner in the reverse table, once insertions   *)
(* on their way to the table are in it.                                    *)
(***************************************************************************)
Owned(id) == owner[id] \in Tuple
Owners ==
    /\ \A s \in Session : s \notin Ids(rltIns) => rltKey[s] = owner[s]
    /\ \A i \in 1 .. Len(rltIns) : owner[rltIns[i].id] = rltIns[i].key
    /\ \A e \in cam : Owned(e.id) \/ (lrh.pc = "update" /\ e.key = lrh.key)
    /\ lrh.pc = "found" /\ lrh.hit => Owned(lrh.id)
    /\ \A c \in Source : \A i \in 1 .. Len(lkpRep[c]) : lkpRep[c][i].hit => Owned(lkpRep[c][i].id)
    /\ \A id \in known : Owned(id)
    /\ \A i \in 1 .. Len(txeReq) : Owned(txeReq[i])

SlcInv == TypeOK /\ InOnePlace /\ OneInsertion /\ Claims /\ CamOf /\ Missed /\ Owners

(***************************************************************************)
(* What appending to a stream and reading from it do to its elements.      *)
(***************************************************************************)
LEMMA Appending ==
    ASSUME NEW S, NEW str \in Seq(S), NEW e \in S
    PROVE  LET new == Append(str, e) IN
           /\ new \in Seq(S) /\ Len(new) = Len(str) + 1
           /\ \A i \in 1 .. Len(str) : new[i] = str[i]
           /\ new[Len(str) + 1] = e
           /\ Elements(new) = Elements(str) \cup {e}
           /\ Once(str) /\ e \notin Elements(str) => Once(new)
<1> DEFINE new == Append(str, e)
<1>1. /\ new \in Seq(S) /\ Len(new) = Len(str) + 1
      /\ \A i \in 1 .. Len(str) : new[i] = str[i]
      /\ new[Len(str) + 1] = e
  OBVIOUS
<1> HIDE DEF new
<1>2. 1 .. Len(new) = 1 .. Len(str) \cup {Len(str) + 1}
  BY <1>1
<1>3. Elements(new) = Elements(str) \cup {e}
  BY <1>1, <1>2 DEF Elements
<1>4. Once(str) /\ e \notin Elements(str) => Once(new)
  BY <1>1, <1>2 DEF Once, Elements
<1> QED BY <1>1, <1>3, <1>4 DEF new

\* Reading takes the first element off, and shifts the others down.
LEMMA Taking ==
    ASSUME NEW S, NEW str \in Seq(S), str # <<>>
    PROVE  /\ Head(str) \in S /\ Head(str) = str[1] /\ 1 \in 1 .. Len(str)
           /\ Tail(str) \in Seq(S) /\ Len(Tail(str)) = Len(str) - 1
           /\ \A i \in 1 .. Len(str) - 1 : Tail(str)[i] = str[i + 1] /\ i + 1 \in 1 .. Len(str)
           /\ Elements(str) = Elements(Tail(str)) \cup {Head(str)}
           /\ Once(str) => Once(Tail(str)) /\ Head(str) \notin Elements(Tail(str))
<1>1. /\ Head(str) \in S /\ Head(str) = str[1] /\ 1 \in 1 .. Len(str)
      /\ Tail(str) \in Seq(S) /\ Len(Tail(str)) = Len(str) - 1
      /\ \A i \in 1 .. Len(str) - 1 : Tail(str)[i] = str[i + 1] /\ i + 1 \in 1 .. Len(str)
  OBVIOUS
<1>2. \A i \in 1 .. Len(str) : i = 1 \/ (i - 1 \in 1 .. Len(Tail(str)) /\ Tail(str)[i - 1] = str[i])
  BY <1>1
<1>3. Elements(str) = Elements(Tail(str)) \cup {Head(str)}
  <2>1. Elements(str) \subseteq Elements(Tail(str)) \cup {Head(str)}
    BY <1>1, <1>2 DEF Elements
  <2>2. Elements(Tail(str)) \cup {Head(str)} \subseteq Elements(str)
    BY <1>1 DEF Elements
  <2> QED BY <2>1, <2>2
<1>4. Once(str) => Once(Tail(str)) /\ Head(str) \notin Elements(Tail(str))
  BY <1>1 DEF Once, Elements
<1> QED BY <1>1, <1>3, <1>4

\* The same for streams of records with an id.
LEMMA AppendingId ==
    ASSUME NEW S, NEW str \in Seq(S), NEW e \in S
    PROVE  LET new == Append(str, e) IN
           /\ Ids(new) = Ids(str) \cup {e.id}
           /\ \A op : IdsWith(op, new) = IF e.op = op THEN IdsWith(op, str) \cup {e.id} ELSE IdsWith(op, str)
           /\ OnceById(str) /\ e.id \notin Ids(str) => OnceById(new)
<1> DEFINE new == Append(str, e)
<1>1. /\ new \in Seq(S) /\ Len(new) = Len(str) + 1
      /\ \A i \in 1 .. Len(str) : new[i] = str[i]
      /\ new[Len(str) + 1] = e
  BY Appending
<1> HIDE DEF new
<1>2. 1 .. Len(new) = 1 .. Len(str) \cup {Len(str) + 1}
  BY <1>1
<1>3. Ids(new) = Ids(str) \cup {e.id}
  BY <1>1, <1>2 DEF Ids
<1>4. \A op : IdsWith(op, new) = IF e.op = op THEN IdsWith(op, str) \cup {e.id} ELSE IdsWith(op, str)
  BY <1>1, <1>2 DEF IdsWith
<1>5. OnceById(str) /\ e.id \notin Ids(str) => OnceById(new)
  BY <1>1, <1>2 DEF OnceById, Ids
<1> QED BY <1>3, <1>4, <1>5 DEF new

\* The ids of a stream lose that of the element read.
LEMMA TakingId ==
    ASSUME NEW S, NEW str \in Seq(S), str # <<>>
    PROVE  /\ Ids(str) = Ids(Tail(str)) \cup {Head(str).id}
           /\ \A op : IdsWith(op, str) = IF Head(str).op = op THEN IdsWith(op, Tail(str)) \cup {Head(str).id}
                                                           ELSE IdsWith(op, Tail(str))
           /\ OnceById(str) => OnceById(Tail(str)) /\ Head(str).id \notin Ids(Tail(str))
<1>1. /\ Head(str) = str[1] /\ 1 \in 1 .. Len(str)
      /\ Len(Tail(str)) = Len(str) - 1 /\ Len(str) \in Nat
      /\ \A i \in 1 .. Len(str) - 1 : Tail(str)[i] = str[i + 1] /\ i + 1 \in 1 .. Len(str)
  BY Taking
<1>2. \A i \in 1 .. Len(str) : i = 1 \/ (i - 1 \in 1 .. Len(Tail(str)) /\ Tail(str)[i - 1] = str[i])
  BY <1>1
<1>3. Ids(str) = Ids(Tail(str)) \cup {Head(str).id}
  <2>1. Ids(str) \subseteq Ids(Tail(str)) \cup {Head(str).id}
    BY <1>1, <1>2 DEF Ids
  <2>2. Ids(Tail(str)) \cup {Head(str).id} \subseteq Ids(str)
    BY <1>1 DEF Ids
  <2> QED BY <2>1, <2>2
<1>4. ASSUME NEW op
      PROVE  IdsWith(op, str) = IF Head(str).op = op THEN IdsWith(op, Tail(str)) \cup {Head(str).id}
                                                     ELSE IdsWith(op, Tail(str))
  <2>1. IdsWith(op, str) \subseteq IdsWith(op, Tail(str)) \cup {Head(str).id}
    BY <1>1, <1>2 DEF IdsWith
  <2>2. IdsWith(op, Tail(str)) \subseteq IdsWith(op, str)
    BY <1>1 DEF IdsWith
  <2>3. Head(str).op = op => Head(str).id \in IdsWith(op, str)
    BY <1>1 DEF IdsWith
  <2>4. Head(str).op # op => IdsWith(op, str) \subseteq IdsWith(op, Tail(str))
    BY <1>1, <1>2 DEF IdsWith
  <2> QED BY <2>1, <2>2, <2>3, <2>4
<1>5. OnceById(str) => OnceById(Tail(str)) /\ Head(str).id \notin Ids(Tail(str))
  BY <1>1 DEF OnceById, Ids
<1> QED BY <1>3, <1>4, <1>5

\* An id moves from one place to another.
LEMMA Move ==
    ASSUME NEW W, NEW V, Partition(W),
           NEW a \in Place, NEW b \in Place, a # b, NEW x \in W[a],
           V[a] = W[a] \ {x}, V[b] = W[b] \cup {x},
           \A p \in Place \ {a, b} : V[p] = W[p]
    PROVE  Partition(V)
<1> USE DEF Partition
<1>1. ASSUME NEW id \in Session PROVE \E p \in Place : id \in V[p]
  <2>1. PICK p \in Place : id \in W[p]
    OBVIOUS
  <2>2. CASE p = a /\ id = x
    BY <2>2
  <2>3. CASE ~(p = a /\ id = x)
    BY <2>1, <2>3
  <2> QED BY <2>2, <2>3
<1>2. ASSUME NEW p \in Place, NEW q \in Place, p # q PROVE V[p] \cap V[q] = {}
  <2>1. CASE p = a
    BY <2>1, <1>2
  <2>2. CASE p = b
    BY <2>2, <1>2
  <2>3. CASE p \notin {a, b}
    BY <2>3, <1>2
  <2> QED BY <2>1, <2>2, <2>3
<1> QED BY <1>1, <1>2

(***************************************************************************)
(* Types.  That TXe gets a socket pair needs the owners, and that PRt and  *)
(* Urs get one, the claims on the CAM.                                     *)
(***************************************************************************)
LEMMA StreamSteps ==
    ASSUME NEW S, NEW str \in StreamOf(S)
    PROVE  /\ str \in Seq(S) /\ <<>> \in StreamOf(S)
           /\ str # <<>> => Head(str) \in S /\ Tail(str) \in StreamOf(S)
           /\ \A e \in S : Room(str) => Append(str, e) \in StreamOf(S)
BY LookupAssumption DEF StreamOf, Room

\* The fields the state of Lrh has in each of its states.
LEMMA LrhFields ==
    ASSUME TypeOK
    PROVE  /\ lrh.pc \in {"req", "lookup", "found", "update"}
           /\ lrh.pc # "req" => lrh.src \in Source /\ lrh.key \in Tuple
           /\ lrh.pc = "lookup" => lrh.allow \in BOOLEAN
           /\ lrh.pc = "found" => lrh.allow \in BOOLEAN /\ lrh.hit \in BOOLEAN /\ lrh.id \in Session
BY DEF TypeOK

\* An update built from an entry is an update.
LEMMA UpdateType == \A op \in {"INSERT", "DELETE"}, e \in Entry : UpdateOf(op, e) \in Update
BY DEF UpdateOf, Entry, Update

\* The initial state is of the right types.
LEMMA InitType == Init => TypeOK
<1> SUFFICES ASSUME Init PROVE TypeOK
  OBVIOUS
<1>1. \A S : <<>> \in StreamOf(S)
  BY LookupAssumption DEF StreamOf
<1>2. Len(<<>>) = 0 /\ <<>> \in Seq(Session)
  OBVIOUS
<1>3. DOMAIN left = DOMAIN Budget /\ \A k \in DOMAIN left : left[k] \in 0 .. Budget[k]
  BY LookupAssumption DEF Init, Budget
<1>4. simCounter \in 0 .. MaxSessions /\ lrh \in [pc : {"req"}] /\ cam \subseteq Entry /\ known \subseteq Session
  BY LookupAssumption DEF Init
<1>5. /\ rltKey \in [Session -> Tuple \cup {NoTuple}] /\ owner \in [Session -> Tuple \cup {NoTuple}]
      /\ rltValid \in [Session -> BOOLEAN] /\ rltInit \in BOOLEAN
  BY DEF Init
<1>6. lkpReq \in [Source -> StreamOf(Query)] /\ lkpRep \in [Source -> StreamOf(Reply)]
  BY <1>1 DEF Init
<1> QED BY <1>1, <1>2, <1>3, <1>4, <1>5, <1>6 DEF Init, TypeOK

\* Sim keeps the types.
LEMMA SimType == TypeOK /\ Sim => TypeOK'
<1> SUFFICES ASSUME TypeOK, Sim PROVE TypeOK'
  OBVIOUS
<1> USE DEF simVars, lrhVars, camVars, rltVars, envVars, hisVars
<1>1. CASE SimFill
  <2>1. simCounter \in Session /\ simCounter' \in 0 .. MaxSessions
    BY <1>1, LookupAssumption DEF TypeOK, SimFill, Session
  <2> QED BY <1>1, <2>1 DEF TypeOK, SimFill
<1>2. CASE SimRecycle
  <2>1. Head(ursSim) \in Session /\ ursSim' \in StreamOf(Session)
    BY <1>2, StreamSteps DEF TypeOK, SimRecycle
  <2> QED BY <1>2, <2>1 DEF TypeOK, SimRecycle
<1> QED BY <1>1, <1>2 DEF Sim

\* Lrh and the lookups of the CAM keep the types.
LEMMA LrhType == TypeOK /\ (Lrh \/ CamLookup) => TypeOK'
<1> SUFFICES ASSUME TypeOK, Lrh \/ CamLookup PROVE TypeOK'
  OBVIOUS
<1> USE DEF simVars, lrhVars, camVars, rltVars, envVars, hisVars
<1>1. ASSUME NEW c \in Source, LrhTake(c) PROVE TypeOK'
  <2>1. Head(lkpReq[c]) \in Query /\ lkpReq' \in [Source -> StreamOf(Query)]
    BY <1>1, StreamSteps DEF TypeOK, LrhTake
  <2>2. lrh' \in [pc : {"lookup"}, src : Source, key : Tuple, allow : BOOLEAN]
    BY <1>1, <2>1 DEF LrhTake, Query
  <2> QED BY <1>1, <2>1, <2>2 DEF TypeOK, LrhTake
<1>2. CASE CamLookup
  <2> DEFINE hits == {e \in cam : e.key = lrh.key}
  <2>1. hits # {} => (CHOOSE e \in hits : TRUE) \in Entry
    BY DEF TypeOK
  <2>2. (IF hits = {} THEN 0 ELSE (CHOOSE e \in hits : TRUE).id) \in Session
    BY <2>1, LookupAssumption DEF Entry, Session
  <2>3. lrh' \in [pc : {"found"}, src : Source, key : Tuple, allow : BOOLEAN, hit : BOOLEAN, id : Session]
    <3> HIDE DEF hits
    <3> QED BY <1>2, <2>2, LrhFields DEF CamLookup, hits
  <2> QED BY <1>2, <2>3 DEF TypeOK, CamLookup
<1>3. CASE LrhInsert
  <2> DEFINE e == [key |-> lrh.key, id |-> Head(freeList)]
  <2>1. Head(freeList) \in Session /\ freeList' \in Seq(Session)
    BY <1>3, Taking DEF TypeOK, LrhInsert, MayCreate
  <2>2. e \in Entry
    BY <1>3, <2>1, LrhFields DEF LrhInsert, Entry
  <2>3. UpdateOf("INSERT", e) \in Update
    BY <2>2, UpdateType
  <2>4. insReq' \in StreamOf(Update)
    BY <1>3, <2>3, StreamSteps DEF LrhInsert, TypeOK
  <2>5. lrh' \in [pc : {"update"}, src : Source, key : Tuple]
    BY <1>3, LrhFields DEF LrhInsert
  <2> QED BY <1>3, <2>1, <2>4, <2>5 DEF TypeOK, LrhInsert
<1>4. CASE LrhAnswer
  <2>1. [hit |-> lrh.hit, id |-> lrh.id] \in Reply /\ lrh.src \in Source
    BY <1>4, LrhFields DEF LrhAnswer, Reply
  <2>2. lkpRep' \in [Source -> StreamOf(Reply)]
    BY <1>4, <2>1, StreamSteps DEF TypeOK, LrhAnswer, Give
  <2> QED BY <1>4, <2>2 DEF TypeOK, LrhAnswer
<1>5. CASE LrhInserted
  <2>1. Head(urhRsp) \in Session /\ urhRsp' \in StreamOf(Session)
    BY <1>5, StreamSteps DEF TypeOK, LrhInserted
  <2>2. /\ lrh.src \in Source /\ [hit |-> TRUE, id |-> Head(urhRsp)] \in Reply
        /\ [key |-> lrh.key, id |-> Head(urhRsp)] \in Entry
    BY <1>5, <2>1, LrhFields DEF LrhInserted, Reply, Entry
  <2>3. lkpRep' \in [Source -> StreamOf(Reply)]
    BY <1>5, <2>2, StreamSteps DEF TypeOK, LrhInserted, Give
  <2>4. rltIns' \in StreamOf(Entry)
    BY <1>5, <2>2, StreamSteps DEF TypeOK, LrhInserted
  <2>5. owner' \in [Session -> Tuple \cup {NoTuple}]
    BY <1>5, <2>1, LrhFields DEF TypeOK, LrhInserted
  <2> QED BY <1>5, <2>1, <2>3, <2>4, <2>5 DEF TypeOK, LrhInserted
<1> QED BY <1>1, <1>2, <1>3, <1>4, <1>5 DEF Lrh, Source

\* Urs, the updates of the CAM and Urh keep the types.
LEMMA UpdatingType == TypeOK /\ (Urs \/ CamUpdate \/ UrhForward) => TypeOK'
<1> SUFFICES ASSUME TypeOK, Urs \/ CamUpdate \/ UrhForward PROVE TypeOK'
  OBVIOUS
<1> USE DEF simVars, lrhVars, camVars, rltVars, envVars, hisVars
<1>1. CASE UrsInsert
  <2>1. /\ Head(insReq) \in Update /\ insReq' \in StreamOf(Update) /\ camUpd' \in StreamOf(Update)
    BY <1>1, StreamSteps DEF TypeOK, UrsInsert
  <2> QED BY <1>1, <2>1 DEF TypeOK, UrsInsert
<1>2. CASE UrsDelete
  <2>1. /\ Head(delReq) \in Update /\ delReq' \in StreamOf(Update) /\ camUpd' \in StreamOf(Update)
    BY <1>2, StreamSteps DEF TypeOK, UrsDelete
  <2>2. ursSim' = Append(ursSim, Head(delReq).id)
    BY <1>2, <2>1 DEF TypeOK, StreamOf, UrsDelete, Recycled, Update
  <2>3. Head(delReq).id \in Session /\ Room(ursSim) /\ ursSim \in StreamOf(Session)
    BY <1>2, <2>1 DEF TypeOK, UrsDelete, Update
  <2>4. ursSim' \in StreamOf(Session)
    BY <2>2, <2>3, StreamSteps
  <2> QED BY <1>2, <2>1, <2>4 DEF TypeOK, UrsDelete
<1>3. CASE CamUpdate
  <2>1. /\ Head(camUpd) \in Update /\ camUpd' \in StreamOf(Update) /\ camRep' \in StreamOf(Update)
    BY <1>3, StreamSteps DEF TypeOK, CamUpdate
  <2>2. cam' \subseteq Entry
    BY <1>3, <2>1 DEF TypeOK, CamUpdate, Updated, Entry, Update
  <2> QED BY <1>3, <2>1, <2>2 DEF TypeOK, CamUpdate
<1>4. CASE UrhForward
  <2>1. Head(camRep) \in Update /\ camRep' \in StreamOf(Update)
    BY <1>4, StreamSteps DEF TypeOK, UrhForward
  <2>2. Head(camRep).id \in Session /\ urhRsp \in StreamOf(Session)
    BY <2>1 DEF TypeOK, Update
  <2>3. urhRsp' = urhRsp \/ (Room(urhRsp) /\ urhRsp' = Append(urhRsp, Head(camRep).id))
    BY <1>4 DEF UrhForward
  <2>4. urhRsp' \in StreamOf(Session)
    BY <2>2, <2>3, StreamSteps
  <2> QED BY <1>4, <2>1, <2>4 DEF TypeOK, UrhForward
<1> QED BY <1>1, <1>2, <1>3, <1>4 DEF Urs

\* Rlt keeps the types: what is valid has a socket pair, and so has what TXe knows.
LEMMA RltType == TypeOK /\ Claims /\ Owners /\ Rlt => TypeOK'
<1> SUFFICES ASSUME TypeOK, Claims, Owners, Rlt PROVE TypeOK'
  OBVIOUS
<1> USE DEF simVars, lrhVars, camVars, rltVars, envVars, hisVars
<1>1. CASE RltInitialised
  BY <1>1 DEF TypeOK, RltInitialised
<1>2. CASE RltInsert
  <2>1. Head(rltIns) \in Entry /\ rltIns' \in StreamOf(Entry)
    BY <1>2, StreamSteps DEF TypeOK, RltInsert
  <2>2. rltKey' \in [Session -> Tuple \cup {NoTuple}] /\ rltValid' \in [Session -> BOOLEAN]
    BY <1>2, <2>1 DEF TypeOK, RltInsert, Entry
  <2> QED BY <1>2, <2>1, <2>2 DEF TypeOK, RltInsert
<1>3. CASE RltRelease
  <2> DEFINE id == Head(sttRel)
             e == [key |-> rltKey[id], id |-> id]
  <2>1. id \in Session /\ sttRel' \in StreamOf(Session)
    BY <1>3, StreamSteps DEF TypeOK, RltRelease
  <2>2. rltValid[id] => e \in Entry /\ rltKey[id] \in Tuple
    BY <2>1 DEF TypeOK, Claims, Entry
  <2>3. rltValid[id] => UpdateOf("DELETE", e) \in Update
    BY <2>2, UpdateType
  <2>4. delReq' \in StreamOf(Update) /\ prtClose' \in StreamOf(Tuple)
    <3>1. delReq \in StreamOf(Update) /\ prtClose \in StreamOf(Tuple)
      BY DEF TypeOK
    <3>2. CASE ~rltValid[id]
      BY <1>3, <3>1, <3>2 DEF RltRelease
    <3>3. CASE rltValid[id]
      <4>1. /\ Room(prtClose) /\ prtClose' = Append(prtClose, rltKey[id])
            /\ Room(delReq) /\ delReq' = Append(delReq, UpdateOf("DELETE", e))
        BY <1>3, <3>3 DEF RltRelease
      <4> HIDE DEF e, id
      <4> QED BY <2>2, <2>3, <3>1, <3>3, <4>1, StreamSteps
    <3> QED BY <3>2, <3>3
  <2>5. rltValid' \in [Session -> BOOLEAN]
    BY <1>3 DEF TypeOK, RltRelease, ValidAfterRelease
  <2> QED BY <1>3, <2>1, <2>4, <2>5 DEF TypeOK, RltRelease
<1>4. CASE RltReverse
  <2> DEFINE id == Head(txeReq)
  <2>1. id \in Session /\ txeReq' \in StreamOf(Session)
    BY <1>4, StreamSteps DEF TypeOK, RltReverse
  <2>2. Ids(rltIns) = {}
    BY <1>4 DEF RltReverse, InsertFirst, Ids
  <2>3. Owned(id)
    BY <1>4, Taking DEF TypeOK, StreamOf, RltReverse, Owners
  <2>4. rltKey[id] \in Tuple
    BY <2>1, <2>2, <2>3 DEF Owners, Owned
  <2>5. txeRep' \in StreamOf(Tuple)
    BY <1>4, <2>4, StreamSteps DEF TypeOK, RltReverse
  <2> QED BY <1>4, <2>1, <2>5 DEF TypeOK, RltReverse
<1> QED BY <1>1, <1>2, <1>3, <1>4 DEF Rlt

\* The users keep the types.
LEMMA UsersType ==
    TypeOK /\ (Users \/ (\E c \in Source, q \in Query : AskLookup(c, q))
                     \/ (\E id \in Session : STtRelease(id) \/ TXeReverse(id))) => TypeOK'
<1> SUFFICES ASSUME TypeOK,
                    Users \/ (\E c \in Source, q \in Query : AskLookup(c, q))
                          \/ (\E id \in Session : STtRelease(id) \/ TXeReverse(id))
             PROVE  TypeOK'
  OBVIOUS
<1> USE DEF simVars, lrhVars, camVars, rltVars, envVars, hisVars
<1>1. ASSUME NEW c \in Source, TakeReply(c) PROVE TypeOK'
  <2>1. Head(lkpRep[c]) \in Reply /\ lkpRep' \in [Source -> StreamOf(Reply)]
    BY <1>1, StreamSteps DEF TypeOK, TakeReply
  <2>2. known' \subseteq Session
    BY <1>1, <2>1 DEF TypeOK, TakeReply, Reply
  <2> QED BY <1>1, <2>1, <2>2 DEF TypeOK, TakeReply
<1>2. CASE TXeTake
  BY <1>2, StreamSteps DEF TypeOK, TXeTake
<1>3. CASE PRtTake
  BY <1>3, StreamSteps DEF TypeOK, PRtTake
<1>4. ASSUME NEW k \in DOMAIN left, Spend(k)
      PROVE  DOMAIN left' = DOMAIN Budget /\ \A l \in DOMAIN left' : left'[l] \in 0 .. Budget[l]
  <2>1. \A l \in DOMAIN left : Budget[l] \in Nat
    BY LookupAssumption DEF Budget, TypeOK
  <2> QED BY <1>4, <2>1 DEF TypeOK, Spend
<1>5. {"lkp", "rel", "rev"} \subseteq DOMAIN left
  BY DEF TypeOK, Budget
<1>6. ASSUME NEW c \in Source, NEW q \in Query, AskLookup(c, q) PROVE TypeOK'
  <2>1. lkpReq[c] = <<>> /\ Room(lkpReq[c])
    BY <1>6, LookupAssumption DEF AskLookup, Waiting, Room
  <2>2. lkpReq' \in [Source -> StreamOf(Query)]
    BY <1>6, <2>1, StreamSteps DEF TypeOK, AskLookup
  <2> QED BY <1>4, <1>5, <1>6, <2>2 DEF TypeOK, AskLookup
<1>7. ASSUME NEW id \in Session, STtRelease(id) PROVE TypeOK'
  <2>1. sttRel' \in StreamOf(Session)
    BY <1>7, StreamSteps DEF TypeOK, STtRelease
  <2> QED BY <1>4, <1>5, <1>7, <2>1 DEF TypeOK, STtRelease
<1>8. ASSUME NEW id \in Session, TXeReverse(id) PROVE TypeOK'
  <2>1. txeReq' \in StreamOf(Session)
    BY <1>8, StreamSteps DEF TypeOK, TXeReverse
  <2> QED BY <1>4, <1>5, <1>8, <2>1 DEF TypeOK, TXeReverse
<1> QED BY <1>1, <1>2, <1>3, <1>6, <1>7, <1>8 DEF Users, Source

\* Every step keeps the types.
LEMMA NextType == TypeOK /\ Claims /\ Owners /\ [Next]_vars => TypeOK'
<1> SUFFICES ASSUME TypeOK, Claims, Owners, [Next]_vars PROVE TypeOK'
  OBVIOUS
<1>1. CASE UNCHANGED vars
  BY <1>1 DEF TypeOK, vars, simVars, lrhVars, camVars, rltVars, envVars, hisVars
<1> QED BY <1>1, SimType, LrhType, UpdatingType, RltType, UsersType DEF Next, Cam

\* What appending and reading do to the insertions in a stream of updates.
LEMMA InsertsAppended ==
    ASSUME NEW str \in Seq(Update), NEW e \in Update
    PROVE  LET new == Append(str, e) IN
           /\ e.op # "INSERT" => /\ Inserts(str) = {} => Inserts(new) = {}
                                 /\ \A k : OneInsert(str, k) => OneInsert(new, k)
           /\ e.op = "INSERT" /\ Inserts(str) = {} => OneInsert(new, e.key)
<1> DEFINE new == Append(str, e)
<1>1. /\ Len(new) = Len(str) + 1 /\ Len(str) \in Nat
      /\ \A i \in 1 .. Len(str) : new[i] = str[i]
      /\ new[Len(str) + 1] = e
  OBVIOUS
<1> HIDE DEF new
<1>2. Inserts(new) = IF e.op = "INSERT" THEN Inserts(str) \cup {Len(str) + 1} ELSE Inserts(str)
  BY <1>1 DEF Inserts
<1>3. \A i \in Inserts(str) : new[i] = str[i]
  BY <1>1 DEF Inserts
<1> QED BY <1>1, <1>2, <1>3 DEF OneInsert, new

\* Reading an insertion leaves none behind; reading a deletion leaves it there.
LEMMA InsertsTaken ==
    ASSUME NEW str \in Seq(Update), str # <<>>
    PROVE  /\ Inserts(str) = {} => Head(str).op # "INSERT" /\ Inserts(Tail(str)) = {}
           /\ Head(str).op # "INSERT" => \A k : OneInsert(str, k) => OneInsert(Tail(str), k)
           /\ Head(str).op = "INSERT" =>
                \A k : OneInsert(str, k) => Inserts(Tail(str)) = {} /\ Head(str).key = k
<1>1. /\ Head(str) = str[1] /\ 1 \in 1 .. Len(str)
      /\ Len(Tail(str)) = Len(str) - 1 /\ Len(str) \in Nat
      /\ \A i \in 1 .. Len(str) - 1 : Tail(str)[i] = str[i + 1] /\ i + 1 \in 1 .. Len(str)
  BY Taking
<1>2. \A i \in Inserts(Tail(str)) : i + 1 \in Inserts(str) /\ i + 1 # 1
  BY <1>1 DEF Inserts
<1>3. Head(str).op = "INSERT" <=> 1 \in Inserts(str)
  BY <1>1 DEF Inserts
<1>4. Inserts(str) = {} => Head(str).op # "INSERT" /\ Inserts(Tail(str)) = {}
  BY <1>2, <1>3
<1>5. ASSUME Head(str).op # "INSERT", NEW k, OneInsert(str, k) PROVE OneInsert(Tail(str), k)
  <2>1. PICK i \in Inserts(str) : Inserts(str) = {i} /\ str[i].key = k
    BY <1>5 DEF OneInsert
  <2>2. i # 1 /\ i - 1 \in 1 .. Len(Tail(str)) /\ Tail(str)[i - 1] = str[i]
    BY <1>1, <1>3, <1>5, <2>1 DEF Inserts
  <2>3. i - 1 \in Inserts(Tail(str))
    BY <2>1, <2>2 DEF Inserts
  <2>4. \A j \in Inserts(Tail(str)) : j = i - 1
    BY <1>2, <2>1 DEF Inserts
  <2> QED BY <2>1, <2>2, <2>3, <2>4 DEF OneInsert
<1>6. ASSUME Head(str).op = "INSERT", NEW k, OneInsert(str, k)
      PROVE  Inserts(Tail(str)) = {} /\ Head(str).key = k
  BY <1>1, <1>2, <1>3, <1>6 DEF OneInsert
<1> QED BY <1>4, <1>5, <1>6

(***************************************************************************)
(* Where the insertion of Lrh is.                                          *)
(***************************************************************************)
LEMMA LrhStation == TypeOK /\ OneInsertion /\ Lrh => OneInsertion'
<1> SUFFICES ASSUME TypeOK, OneInsertion, Lrh PROVE OneInsertion'
  OBVIOUS
<1> USE DEF simVars, lrhVars, camVars, rltVars, envVars, hisVars
<1>1. ASSUME NEW c \in Source, LrhTake(c) PROVE OneInsertion'
  BY <1>1 DEF LrhTake, OneInsertion, Pending
<1>2. CASE LrhInsert
  <2> DEFINE u == UpdateOf("INSERT", [key |-> lrh.key, id |-> Head(freeList)])
  <2>1. Pending(0, FALSE, FALSE, 0)
    BY <1>2 DEF LrhInsert, OneInsertion
  <2>2. insReq = <<>> /\ insReq' = Append(insReq, u) /\ lrh'.pc = "update" /\ lrh'.key = lrh.key
    BY <1>2, <2>1 DEF LrhInsert, Pending, TypeOK, StreamOf
  <2>3. Len(insReq') = 1 /\ insReq'[1] = u /\ u.op = "INSERT" /\ u.key = lrh.key
    BY <2>2 DEF UpdateOf
  <2>4. Pending(1, FALSE, FALSE, 0)'
    BY <1>2, <2>1, <2>2, <2>3 DEF LrhInsert, Pending
  <2> QED BY <2>2, <2>4 DEF OneInsertion
<1>3. CASE LrhAnswer
  BY <1>3 DEF LrhAnswer, OneInsertion, Pending
<1>4. CASE LrhInserted
  <2>1. Len(urhRsp) # 0 /\ urhRsp \in Seq(Session)
    BY <1>4 DEF LrhInserted, TypeOK, StreamOf
  <2>2. Pending(0, FALSE, FALSE, 1)
    BY <1>4, <2>1 DEF LrhInserted, OneInsertion, Pending
  <2>3. Len(urhRsp') = 0 /\ lrh'.pc = "req"
    BY <1>4, <2>1, <2>2, Taking DEF LrhInserted, Pending
  <2> QED BY <1>4, <2>2, <2>3 DEF LrhInserted, OneInsertion, Pending
<1> QED BY <1>1, <1>2, <1>3, <1>4 DEF Lrh, Source

\* An insertion moves over Urs and the CAM to Urh and back; deletions do not disturb it.
LEMMA UpdatingStation == TypeOK /\ Claims /\ OneInsertion /\ (Urs \/ Cam \/ UrhForward) => OneInsertion'
<1> SUFFICES ASSUME TypeOK, Claims, OneInsertion, Urs \/ Cam \/ UrhForward PROVE OneInsertion'
  OBVIOUS
<1> USE DEF simVars, lrhVars, camVars, rltVars, envVars, hisVars
<1>1. CASE UrsInsert
  <2>1. insReq \in Seq(Update) /\ Len(insReq) # 0 /\ camUpd \in Seq(Update) /\ Head(insReq) \in Update
    BY <1>1, Taking DEF UrsInsert, TypeOK, StreamOf
  <2>2. Pending(1, FALSE, FALSE, 0) /\ lrh.pc = "update"
    BY <2>1 DEF OneInsertion, Pending
  <2>3. Head(insReq).op = "INSERT" /\ Head(insReq).key = lrh.key /\ Len(insReq') = 0
    BY <1>1, <2>1, <2>2, Taking DEF Pending, UrsInsert
  <2>4. OneInsert(camUpd', lrh.key)
    BY <1>1, <2>1, <2>2, <2>3, InsertsAppended DEF UrsInsert, Pending
  <2>5. Pending(0, TRUE, FALSE, 0)'
    BY <1>1, <2>2, <2>3, <2>4 DEF UrsInsert, Pending
  <2> QED BY <1>1, <2>2, <2>5 DEF UrsInsert, OneInsertion
<1>2. CASE UrsDelete
  <2>1. /\ camUpd \in Seq(Update) /\ Head(delReq) \in Update /\ Head(delReq).op = "DELETE"
    BY <1>2, Taking, SMTT(40) DEF UrsDelete, TypeOK, StreamOf, Claims
  <2>2. /\ Inserts(camUpd) = {} => Inserts(camUpd') = {}
        /\ OneInsert(camUpd, lrh.key) => OneInsert(camUpd', lrh.key)
    BY <1>2, <2>1, InsertsAppended DEF UrsDelete
  <2> QED BY <1>2, <2>2 DEF UrsDelete, OneInsertion, Pending
<1>3. CASE CamLookup
  BY <1>3 DEF CamLookup, OneInsertion, Pending
<1>4. CASE CamUpdate
  <2> DEFINE u == Head(camUpd)
  <2>1. camUpd \in Seq(Update) /\ camRep \in Seq(Update) /\ u \in Update
    BY <1>4, Taking DEF CamUpdate, TypeOK, StreamOf
  <2>2. CASE u.op = "INSERT"
    <3>1. Pending(0, TRUE, FALSE, 0) /\ lrh.pc = "update"
      BY <1>4, <2>1, <2>2, InsertsTaken DEF CamUpdate, OneInsertion, Pending
    <3>2. Inserts(camUpd') = {} /\ u.key = lrh.key
      BY <1>4, <2>1, <2>2, <3>1, InsertsTaken DEF CamUpdate, Pending
    <3>3. OneInsert(camRep', lrh.key)
      BY <1>4, <2>1, <2>2, <3>1, <3>2, InsertsAppended DEF CamUpdate, Pending
    <3>4. Pending(0, FALSE, TRUE, 0)'
      BY <1>4, <3>1, <3>2, <3>3 DEF CamUpdate, Pending
    <3> QED BY <1>4, <3>1, <3>4 DEF CamUpdate, OneInsertion
  <2>3. CASE u.op # "INSERT"
    <3>1. /\ Inserts(camUpd) = {} => Inserts(camUpd') = {}
          /\ OneInsert(camUpd, lrh.key) => OneInsert(camUpd', lrh.key)
      BY <1>4, <2>1, <2>3, InsertsTaken DEF CamUpdate
    <3>2. /\ Inserts(camRep) = {} => Inserts(camRep') = {}
          /\ OneInsert(camRep, lrh.key) => OneInsert(camRep', lrh.key)
      BY <1>4, <2>1, <2>3, InsertsAppended DEF CamUpdate
    <3> QED BY <1>4, <3>1, <3>2 DEF CamUpdate, OneInsertion, Pending
  <2> QED BY <2>2, <2>3
<1>5. CASE UrhForward
  <2> DEFINE u == Head(camRep)
  <2>1. camRep \in Seq(Update) /\ u \in Update /\ urhRsp \in Seq(Session)
    BY <1>5, Taking DEF UrhForward, TypeOK, StreamOf
  <2>2. CASE u.op = "INSERT"
    <3>1. Pending(0, FALSE, TRUE, 0) /\ lrh.pc = "update"
      BY <1>5, <2>1, <2>2, InsertsTaken DEF UrhForward, OneInsertion, Pending
    <3>2. Inserts(camRep') = {}
      BY <1>5, <2>1, <2>2, <3>1, InsertsTaken DEF UrhForward, Pending
    <3>3. Len(urhRsp') = 1
      <4>1. u.id \in Session /\ urhRsp' = Append(urhRsp, u.id)
        BY <1>5, <2>1, <2>2 DEF UrhForward, AwaitedByLrh, Update
      <4> QED BY <2>1, <3>1, <4>1 DEF Pending
    <3>4. Pending(0, FALSE, FALSE, 1)'
      BY <1>5, <3>1, <3>2, <3>3 DEF UrhForward, Pending
    <3> QED BY <1>5, <3>1, <3>4 DEF UrhForward, OneInsertion
  <2>3. CASE u.op # "INSERT"
    <3>1. /\ Inserts(camRep) = {} => Inserts(camRep') = {}
          /\ OneInsert(camRep, lrh.key) => OneInsert(camRep', lrh.key)
      BY <1>5, <2>1, <2>3, InsertsTaken DEF UrhForward
    <3> QED BY <1>5, <2>3, <3>1 DEF UrhForward, AwaitedByLrh, OneInsertion, Pending
  <2> QED BY <2>2, <2>3
<1> QED BY <1>1, <1>2, <1>3, <1>4, <1>5 DEF Urs, Cam

\* Every step keeps the insertion of Lrh in one station.
LEMMA NextStation == TypeOK /\ Claims /\ OneInsertion /\ [Next]_vars => OneInsertion'
<1> SUFFICES ASSUME TypeOK, Claims, OneInsertion, [Next]_vars PROVE OneInsertion'
  OBVIOUS
<1>1. ASSUME UNCHANGED <<lrh, insReq, camUpd, camRep, urhRsp>> PROVE OneInsertion'
  BY <1>1 DEF OneInsertion, Pending
<1>2. Sim \/ Rlt \/ Users \/ UNCHANGED vars => UNCHANGED <<lrh, insReq, camUpd, camRep, urhRsp>>
  BY DEF Sim, SimFill, SimRecycle, Rlt, RltInitialised, RltInsert, RltRelease, RltReverse,
         Users, TakeReply, TXeTake, PRtTake, vars, simVars, lrhVars, camVars, rltVars, envVars, hisVars
<1>3. (\E c \in Source, q \in Query : AskLookup(c, q)) \/ (\E id \in Session : STtRelease(id) \/ TXeReverse(id))
      => UNCHANGED <<lrh, insReq, camUpd, camRep, urhRsp>>
  BY DEF AskLookup, STtRelease, TXeReverse, simVars, lrhVars, camVars
<1> QED BY <1>1, <1>2, <1>3, LrhStation, UpdatingStation DEF Next

(***************************************************************************)
(* Every id in one place.                                                  *)
(***************************************************************************)
LEMMA WhereIs ==
    /\ Where["Sim"] = simCounter .. MaxSessions - 1   /\ Where["freeList"] = Elements(freeList)
    /\ Where["insReq"] = Ids(insReq)                  /\ Where["camUpd"] = IdsWith("INSERT", camUpd)
    /\ Where["camRep"] = IdsWith("INSERT", camRep)    /\ Where["urhRsp"] = Elements(urhRsp)
    /\ Where["rltIns"] = Ids(rltIns)                  /\ Where["rlt"] = {s \in Session : rltValid[s]}
    /\ Where["delReq"] = Ids(delReq)                  /\ Where["ursSim"] = Elements(ursSim)
BY DEF Where, Place

\* The same after a step.
LEMMA WhereIsNext ==
    /\ Where'["Sim"] = simCounter' .. MaxSessions - 1 /\ Where'["freeList"] = Elements(freeList')
    /\ Where'["insReq"] = Ids(insReq')                /\ Where'["camUpd"] = IdsWith("INSERT", camUpd')
    /\ Where'["camRep"] = IdsWith("INSERT", camRep')  /\ Where'["urhRsp"] = Elements(urhRsp')
    /\ Where'["rltIns"] = Ids(rltIns')                /\ Where'["rlt"] = {s \in Session : rltValid'[s]}
    /\ Where'["delReq"] = Ids(delReq')                /\ Where'["ursSim"] = Elements(ursSim')
BY DEF Where, Place

\* The places an id has while the CAM has it, before and after a step.
LEMMA InCamIs ==
    /\ InCam = Where["camRep"] \cup Where["urhRsp"] \cup Where["rltIns"] \cup Where["rlt"] \cup Where["delReq"]
    /\ InCam' = Where'["camRep"] \cup Where'["urhRsp"] \cup Where'["rltIns"] \cup Where'["rlt"] \cup Where'["delReq"]
BY DEF InCam

\* No id is in an insertion when no insertion is there.
LEMMA NoInserts == ASSUME NEW str, Inserts(str) = {} PROVE IdsWith("INSERT", str) = {}
BY DEF Inserts, IdsWith

\* A step that touches no place moves no id.
LEMMA SamePlaces ==
    ASSUME InOnePlace,
           UNCHANGED <<simCounter, freeList, insReq, camUpd, camRep, urhRsp, rltIns, rltValid,
                       delReq, ursSim>>
    PROVE  InOnePlace' /\ InCam' = InCam
<1>1. \A p \in Place : Where'[p] = Where[p]
  BY WhereIs, WhereIsNext DEF Place
<1>2. Partition(Where')
  BY <1>1 DEF InOnePlace, Partition
<1>3. InCam' = InCam
  BY <1>1, InCamIs DEF Place
<1> QED BY <1>2, <1>3 DEF InOnePlace

\* Sim moves ids into the free list.
LEMMA SimPlace == TypeOK /\ InOnePlace /\ Sim => InOnePlace' /\ InCam' = InCam
<1> SUFFICES ASSUME TypeOK, InOnePlace, Sim PROVE InOnePlace' /\ InCam' = InCam
  OBVIOUS
<1> USE DEF simVars, lrhVars, camVars, rltVars, envVars, hisVars
<1>1. CASE SimFill
  <2>1. simCounter \in Session /\ freeList \in Seq(Session) /\ simCounter \in Nat
    BY <1>1, LookupAssumption DEF TypeOK, SimFill, Session
  <2>2. simCounter \in Where["Sim"] /\ Where'["Sim"] = Where["Sim"] \ {simCounter}
    BY <1>1, <2>1, WhereIs, WhereIsNext, LookupAssumption DEF SimFill
  <2>3. simCounter \notin Elements(freeList)
    <3>1. Where["Sim"] \cap Where["freeList"] = {}
      BY DEF InOnePlace, Partition, Place
    <3> QED BY <2>2, <3>1, WhereIs
  <2>4. Elements(freeList') = Elements(freeList) \cup {simCounter} /\ Once(freeList')
    BY <1>1, <2>1, <2>3, Appending DEF SimFill, InOnePlace
  <2>5. \A p \in Place \ {"Sim", "freeList"} : Where'[p] = Where[p]
    BY <1>1, WhereIs, WhereIsNext DEF SimFill, Place
  <2>6. Partition(Where')
    BY <2>2, <2>4, <2>5, Move, WhereIs, WhereIsNext, ZenonT(60) DEF InOnePlace, Place
  <2>7. InCam' = InCam
    BY <2>2, <2>4, <2>5, InCamIs DEF Place
  <2> QED BY <1>1, <2>4, <2>6, <2>7 DEF SimFill, InOnePlace
<1>2. CASE SimRecycle
  <2> DEFINE x == Head(ursSim)
  <2>1. ursSim \in Seq(Session) /\ freeList \in Seq(Session) /\ ursSim # <<>> /\ x \in Session
    BY <1>2, Taking DEF TypeOK, StreamOf, SimRecycle
  <2>2. x \in Where["ursSim"] /\ Where'["ursSim"] = Where["ursSim"] \ {x} /\ Once(ursSim')
    BY <1>2, <2>1, Taking, WhereIs, WhereIsNext DEF SimRecycle, InOnePlace
  <2>3. x \notin Elements(freeList)
    BY <2>2, WhereIs DEF InOnePlace, Partition, Place
  <2>4. Elements(freeList') = Elements(freeList) \cup {x} /\ Once(freeList')
    BY <1>2, <2>1, <2>3, Appending DEF SimRecycle, InOnePlace
  <2>5. \A p \in Place \ {"ursSim", "freeList"} : Where'[p] = Where[p]
    BY <1>2, WhereIs, WhereIsNext DEF SimRecycle, Place
  <2>6. Partition(Where')
    BY <2>2, <2>4, <2>5, Move, WhereIs, WhereIsNext, SMTT(40) DEF InOnePlace, Place
  <2>7. InCam' = InCam
    BY <2>2, <2>4, <2>5, InCamIs DEF Place
  <2> QED BY <1>2, <2>2, <2>4, <2>6, <2>7 DEF SimRecycle, InOnePlace
<1> QED BY <1>1, <1>2 DEF Sim

\* Lrh moves an id out of the free list, and its reply into the reverse table.
LEMMA LrhPlace == TypeOK /\ InOnePlace /\ OneInsertion /\ Lrh => InOnePlace' /\ InCam' = InCam
<1> SUFFICES ASSUME TypeOK, InOnePlace, OneInsertion, Lrh PROVE InOnePlace' /\ InCam' = InCam
  OBVIOUS
<1> USE DEF simVars, lrhVars, camVars, rltVars, envVars, hisVars
<1>1. ASSUME NEW c \in Source, LrhTake(c) PROVE InOnePlace' /\ InCam' = InCam
  BY <1>1, SamePlaces DEF LrhTake
<1>2. CASE LrhInsert
  <2> DEFINE x == Head(freeList)
             u == UpdateOf("INSERT", [key |-> lrh.key, id |-> x])
  <2>1. freeList \in Seq(Session) /\ freeList # <<>> /\ x \in Session /\ insReq \in Seq(Update)
    BY <1>2, Taking DEF TypeOK, StreamOf, LrhInsert, MayCreate
  <2>2. x \in Where["freeList"] /\ Where'["freeList"] = Where["freeList"] \ {x} /\ Once(freeList')
    BY <1>2, <2>1, Taking, WhereIs, WhereIsNext DEF LrhInsert, InOnePlace
  <2>3. u \in Update /\ u.id = x
    BY <1>2, <2>1, LrhFields, UpdateType DEF LrhInsert, UpdateOf, Entry
  <2>4. Ids(insReq') = Ids(insReq) \cup {x}
    BY <1>2, <2>1, <2>3, AppendingId DEF LrhInsert
  <2>5. \A p \in Place \ {"freeList", "insReq"} : Where'[p] = Where[p]
    BY <1>2, WhereIs, WhereIsNext DEF LrhInsert, Place
  <2>6. Partition(Where')
    BY <2>2, <2>4, <2>5, Move, WhereIs, WhereIsNext, SMTT(40) DEF InOnePlace, Place
  <2>7. InCam' = InCam
    BY <2>2, <2>4, <2>5, InCamIs DEF Place
  <2> QED BY <1>2, <2>2, <2>6, <2>7 DEF LrhInsert, InOnePlace
<1>3. CASE LrhAnswer
  BY <1>3, SamePlaces DEF LrhAnswer
<1>4. CASE LrhInserted
  <2> DEFINE x == Head(urhRsp)
             e == [key |-> lrh.key, id |-> x]
  <2>1. urhRsp \in Seq(Session) /\ urhRsp # <<>> /\ x \in Session /\ rltIns \in Seq(Entry)
    BY <1>4, Taking DEF TypeOK, StreamOf, LrhInserted
  <2>2. Len(urhRsp) = 1
    BY <1>4, <2>1 DEF LrhInserted, OneInsertion, Pending
  <2>3. x \in Where["urhRsp"] /\ Where'["urhRsp"] = Where["urhRsp"] \ {x}
    <3>1. Elements(urhRsp) = {x} /\ Elements(urhRsp') = {}
      BY <1>4, <2>1, <2>2, Taking DEF LrhInserted, Elements
    <3> QED BY <3>1, WhereIs, WhereIsNext
  <2>4. x \notin Ids(rltIns)
    BY <2>3, WhereIs DEF InOnePlace, Partition, Place
  <2>5. e \in Entry /\ e.id = x
    BY <1>4, <2>1, LrhFields DEF LrhInserted, Entry
  <2>6. Ids(rltIns') = Ids(rltIns) \cup {x} /\ OnceById(rltIns')
    BY <1>4, <2>1, <2>4, <2>5, AppendingId DEF LrhInserted, InOnePlace
  <2>7. \A p \in Place \ {"urhRsp", "rltIns"} : Where'[p] = Where[p]
    BY <1>4, WhereIs, WhereIsNext DEF LrhInserted, Place
  <2>8. Partition(Where')
    BY <2>3, <2>6, <2>7, Move, WhereIs, WhereIsNext, SMTT(40) DEF InOnePlace, Place
  <2>9. InCam' = InCam
    BY <2>3, <2>6, <2>7, InCamIs, WhereIs, WhereIsNext DEF Place
  <2> QED BY <1>4, <2>6, <2>8, <2>9 DEF LrhInserted, InOnePlace
<1> QED BY <1>1, <1>2, <1>3, <1>4 DEF Lrh, Source

\* Urs moves the id of an insertion on to the CAM.
LEMMA UrsInsertPlace ==
    TypeOK /\ InOnePlace /\ OneInsertion /\ Claims /\ UrsInsert
    => InOnePlace' /\ InCam' = InCam
<1> SUFFICES ASSUME TypeOK, InOnePlace, OneInsertion, Claims, UrsInsert
             PROVE  InOnePlace' /\ InCam' = InCam
  OBVIOUS
<1> USE DEF simVars, lrhVars, camVars, rltVars, envVars, hisVars
<1> DEFINE u == Head(insReq)
<1>1. /\ insReq \in Seq(Update) /\ insReq # <<>> /\ u \in Update /\ u = insReq[1]
      /\ camUpd \in Seq(Update) /\ Len(insReq) # 0
  BY Taking DEF UrsInsert, TypeOK, StreamOf
<1>2. Len(insReq) = 1 /\ u.op = "INSERT"
  BY <1>1 DEF OneInsertion, Pending
<1>3. u.id \in Where["insReq"] /\ Where'["insReq"] = Where["insReq"] \ {u.id}
  <2>1. Ids(insReq) = {u.id} /\ Ids(insReq') = {}
    BY <1>1, <1>2, Taking DEF UrsInsert, Ids
  <2> QED BY <2>1, WhereIs, WhereIsNext
<1>4. Where'["camUpd"] = Where["camUpd"] \cup {u.id}
  BY <1>1, <1>2, AppendingId, WhereIs, WhereIsNext DEF UrsInsert
<1>5. \A p \in Place \ {"insReq", "camUpd"} : Where'[p] = Where[p]
  BY WhereIs, WhereIsNext DEF UrsInsert, Place
<1>6. Partition(Where')
  BY <1>3, <1>4, <1>5, Move DEF InOnePlace, Place
<1>7. InCam' = InCam
  BY <1>3, <1>4, <1>5, InCamIs DEF Place
<1> QED BY <1>6, <1>7 DEF UrsInsert, InOnePlace

\* Urs gives the id of a deletion back: it leaves the places the CAM has it in.
LEMMA UrsDeletePlace ==
    TypeOK /\ InOnePlace /\ OneInsertion /\ Claims /\ UrsDelete
    => InOnePlace' /\ InCam' = InCam \ {Head(delReq).id}
<1> SUFFICES ASSUME TypeOK, InOnePlace, OneInsertion, Claims, UrsDelete
             PROVE  InOnePlace' /\ InCam' = InCam \ {Head(delReq).id}
  OBVIOUS
<1> USE DEF simVars, lrhVars, camVars, rltVars, envVars, hisVars
<1> DEFINE u == Head(delReq)
<1>1. /\ delReq \in Seq(Update) /\ delReq # <<>> /\ u \in Update
      /\ camUpd \in Seq(Update) /\ ursSim \in Seq(Session) /\ u.id \in Session
  <2>1. u \in Update /\ delReq # <<>> /\ delReq \in StreamOf(Update)
    BY StreamSteps DEF UrsDelete, TypeOK
  <2> QED BY <2>1 DEF TypeOK, StreamOf, Update
<1>2. u.id \in Where["delReq"] /\ Where'["delReq"] = Where["delReq"] \ {u.id} /\ OnceById(delReq')
  BY <1>1, TakingId, WhereIs, WhereIsNext DEF UrsDelete, InOnePlace
<1>3. u.id \notin Elements(ursSim)
  BY <1>2, WhereIs DEF InOnePlace, Partition, Place
<1>4. ursSim' = Append(ursSim, u.id)
  BY <1>1 DEF UrsDelete, Recycled
<1>5. Elements(ursSim') = Elements(ursSim) \cup {u.id} /\ Once(ursSim')
  BY <1>1, <1>3, <1>4, Appending DEF InOnePlace
<1>6. u.op = "DELETE"
  BY <1>1 DEF Claims
<1>7. IdsWith("INSERT", camUpd') = IdsWith("INSERT", camUpd)
  BY <1>1, <1>6, AppendingId DEF UrsDelete
<1>8. \A p \in Place \ {"delReq", "ursSim"} : Where'[p] = Where[p]
  BY <1>7, WhereIs, WhereIsNext DEF UrsDelete, Place
<1>9. Partition(Where')
  BY <1>2, <1>5, <1>8, Move, WhereIs, WhereIsNext, SMTT(40) DEF InOnePlace, Place
<1>10. InCam' = InCam \ {u.id}
  BY <1>2, <1>5, <1>8, InCamIs DEF Place, InOnePlace, Partition
<1> QED BY <1>2, <1>5, <1>9, <1>10 DEF UrsDelete, InOnePlace

\* The CAM passes the id of an insertion on; a deletion has none any more.
LEMMA CamUpdatePlace ==
    TypeOK /\ InOnePlace /\ OneInsertion /\ Claims /\ CamUpdate
    => InOnePlace' /\ InCam' = IF Head(camUpd).op = "INSERT" THEN InCam \cup {Head(camUpd).id} ELSE InCam
<1> SUFFICES ASSUME TypeOK, InOnePlace, OneInsertion, Claims, CamUpdate
             PROVE  InOnePlace' /\ InCam' = IF Head(camUpd).op = "INSERT" THEN InCam \cup {Head(camUpd).id} ELSE InCam
  OBVIOUS
<1> USE DEF simVars, lrhVars, camVars, rltVars, envVars, hisVars
<1> DEFINE u == Head(camUpd)
<1>1. camUpd \in Seq(Update) /\ camRep \in Seq(Update) /\ u \in Update /\ camUpd # <<>>
  BY Taking DEF CamUpdate, TypeOK, StreamOf
<1>2. CASE u.op = "INSERT"
  <2>1. Inserts(camUpd') = {}
    BY <1>1, <1>2, InsertsTaken DEF CamUpdate, OneInsertion, Pending
  <2>2. Where'["camUpd"] = {} /\ Where["camUpd"] = {u.id}
    BY <1>1, <1>2, <2>1, NoInserts, TakingId, WhereIs, WhereIsNext DEF CamUpdate
  <2>3. Where'["camRep"] = Where["camRep"] \cup {u.id}
    BY <1>1, <1>2, AppendingId, WhereIs, WhereIsNext DEF CamUpdate
  <2>4. \A p \in Place \ {"camUpd", "camRep"} : Where'[p] = Where[p]
    BY WhereIs, WhereIsNext DEF CamUpdate, Place
  <2>5. Partition(Where')
    BY <2>2, <2>3, <2>4, Move, SMTT(40) DEF InOnePlace, Place
  <2>6. InCam' = InCam \cup {u.id}
    BY <2>2, <2>3, <2>4, InCamIs DEF Place
  <2> QED BY <1>2, <2>5, <2>6 DEF CamUpdate, InOnePlace
<1>3. CASE u.op # "INSERT"
  <2>1. IdsWith("INSERT", camUpd') = IdsWith("INSERT", camUpd)
    BY <1>1, <1>3, TakingId DEF CamUpdate
  <2>2. IdsWith("INSERT", camRep') = IdsWith("INSERT", camRep)
    BY <1>1, <1>3, AppendingId DEF CamUpdate
  <2>3. Where' = Where
    BY <2>1, <2>2 DEF CamUpdate, Where
  <2>4. InCam' = InCam
    BY <2>3, InCamIs DEF Place
  <2> QED BY <1>3, <2>3, <2>4 DEF CamUpdate, InOnePlace
<1> QED BY <1>2, <1>3

\* Urh passes the id of an insertion on to Lrh.
LEMMA UrhForwardPlace ==
    TypeOK /\ InOnePlace /\ OneInsertion /\ Claims /\ UrhForward
    => InOnePlace' /\ InCam' = InCam
<1> SUFFICES ASSUME TypeOK, InOnePlace, OneInsertion, Claims, UrhForward
             PROVE  InOnePlace' /\ InCam' = InCam
  OBVIOUS
<1> USE DEF simVars, lrhVars, camVars, rltVars, envVars, hisVars
<1> DEFINE u == Head(camRep)
<1>1. camRep \in Seq(Update) /\ u \in Update /\ urhRsp \in Seq(Session) /\ camRep # <<>> /\ u.id \in Session
  <2>1. u \in Update /\ camRep # <<>>
    BY StreamSteps DEF UrhForward, TypeOK
  <2> QED BY <2>1 DEF TypeOK, StreamOf, Update
<1>2. CASE u.op = "INSERT"
  <2>1. Inserts(camRep') = {}
    BY <1>1, <1>2, InsertsTaken DEF UrhForward, OneInsertion, Pending
  <2>2. Where'["camRep"] = {} /\ Where["camRep"] = {u.id}
    BY <1>1, <1>2, <2>1, NoInserts, TakingId, WhereIs, WhereIsNext, SMTT(60) DEF UrhForward
  <2>3. Where'["urhRsp"] = Where["urhRsp"] \cup {u.id}
    <3>1. urhRsp' = Append(urhRsp, u.id)
      BY <1>2 DEF UrhForward, AwaitedByLrh
    <3> QED BY <1>1, <3>1, Appending, WhereIs, WhereIsNext
  <2>4. \A p \in Place \ {"camRep", "urhRsp"} : Where'[p] = Where[p]
    BY WhereIs, WhereIsNext DEF UrhForward, Place
  <2>5. Partition(Where')
    <3>1. "camRep" \in Place /\ "urhRsp" \in Place /\ "camRep" # "urhRsp"
      BY DEF Place
    <3>2. Partition(Where) /\ u.id \in Where["camRep"] /\ Where'["camRep"] = Where["camRep"] \ {u.id}
      BY <2>2 DEF InOnePlace
    <3> QED BY <2>3, <2>4, <3>1, <3>2, Move, ZenonT(40)
  <2>6. InCam' = InCam
    BY <2>2, <2>3, <2>4, InCamIs DEF Place
  <2> QED BY <2>5, <2>6 DEF UrhForward, InOnePlace
<1>3. CASE u.op # "INSERT"
  <2>1. IdsWith("INSERT", camRep') = IdsWith("INSERT", camRep)
    BY <1>1, <1>3, TakingId DEF UrhForward
  <2>2. Where' = Where
    BY <1>3, <2>1 DEF UrhForward, AwaitedByLrh, Where
  <2>3. InCam' = InCam
    BY <2>2, InCamIs DEF Place
  <2> QED BY <2>2, <2>3 DEF UrhForward, InOnePlace
<1> QED BY <1>2, <1>3

\* Rlt moves ids into the table, and out of it once when released.
LEMMA RltPlace == TypeOK /\ InOnePlace /\ Rlt => InOnePlace' /\ InCam' = InCam
<1> SUFFICES ASSUME TypeOK, InOnePlace, Rlt PROVE InOnePlace' /\ InCam' = InCam
  OBVIOUS
<1> USE DEF simVars, lrhVars, camVars, rltVars, envVars, hisVars
<1>1. CASE RltInitialised
  BY <1>1, SamePlaces DEF RltInitialised
<1>2. CASE RltInsert
  <2> DEFINE x == Head(rltIns).id
  <2>1. rltIns \in Seq(Entry) /\ rltIns # <<>> /\ x \in Session /\ rltValid \in [Session -> BOOLEAN]
    <3>1. Head(rltIns) \in Entry /\ rltIns # <<>>
      BY <1>2, StreamSteps DEF RltInsert, TypeOK
    <3> QED BY <3>1 DEF TypeOK, StreamOf, Entry
  <2>2. x \in Where["rltIns"] /\ Where'["rltIns"] = Where["rltIns"] \ {x} /\ OnceById(rltIns')
    BY <1>2, <2>1, TakingId, WhereIs, WhereIsNext DEF RltInsert, InOnePlace
  <2>3. Where'["rlt"] = Where["rlt"] \cup {x}
    BY <1>2, <2>1, WhereIs, WhereIsNext DEF RltInsert
  <2>4. \A p \in Place \ {"rltIns", "rlt"} : Where'[p] = Where[p]
    BY <1>2, WhereIs, WhereIsNext DEF RltInsert, Place
  <2>5. Partition(Where')
    BY <2>2, <2>3, <2>4, Move DEF InOnePlace, Place
  <2>6. InCam' = InCam
    BY <2>2, <2>3, <2>4, InCamIs DEF Place
  <2> QED BY <1>2, <2>2, <2>5, <2>6 DEF RltInsert, InOnePlace
<1>3. CASE RltRelease
  <2> DEFINE x == Head(sttRel)
             u == UpdateOf("DELETE", [key |-> rltKey[x], id |-> x])
  <2>1. sttRel \in Seq(Session) /\ x \in Session /\ rltValid \in [Session -> BOOLEAN]
        /\ delReq \in Seq(Update)
    BY <1>3, Taking DEF RltRelease, TypeOK, StreamOf
  <2>2. rltValid' = [rltValid EXCEPT ![x] = FALSE]
    BY <1>3 DEF RltRelease, ValidAfterRelease
  <2>3. CASE ~rltValid[x]
    <3>1. rltValid' = rltValid
      BY <2>1, <2>2, <2>3
    <3> QED BY <1>3, <2>3, <3>1, SamePlaces DEF RltRelease
  <2>4. CASE rltValid[x]
    <3>1. x \in Where["rlt"] /\ Where'["rlt"] = Where["rlt"] \ {x}
      BY <2>1, <2>2, <2>4, WhereIs, WhereIsNext
    <3>2. x \notin Ids(delReq)
      BY <3>1, WhereIs DEF InOnePlace, Partition, Place
    <3>3. delReq' = Append(delReq, u) /\ u.id = x
      BY <1>3, <2>4 DEF RltRelease, UpdateOf
    <3>4. Ids(delReq') = Ids(delReq) \cup {x} /\ OnceById(delReq')
      <4>1. u \in {u} \cup Update /\ delReq \in Seq({u} \cup Update)
        BY <2>1
      <4> HIDE DEF u, x
      <4> QED BY <3>2, <3>3, <4>1, AppendingId DEF InOnePlace
    <3>5. \A p \in Place \ {"rlt", "delReq"} : Where'[p] = Where[p]
      BY <1>3, WhereIs, WhereIsNext DEF RltRelease, Place
    <3>6. Partition(Where')
      BY <3>1, <3>4, <3>5, Move, WhereIs, WhereIsNext, SMTT(40) DEF InOnePlace, Place
    <3>7. InCam' = InCam
      BY <3>1, <3>4, <3>5, InCamIs, WhereIs, WhereIsNext DEF Place
    <3> QED BY <1>3, <3>4, <3>6, <3>7 DEF RltRelease, InOnePlace
  <2> QED BY <2>3, <2>4
<1>4. CASE RltReverse
  BY <1>4, SamePlaces DEF RltReverse
<1> QED BY <1>1, <1>2, <1>3, <1>4 DEF Rlt

\* Every step keeps every id in one place.
LEMMA NextPlace == TypeOK /\ Claims /\ OneInsertion /\ InOnePlace /\ [Next]_vars => InOnePlace'
<1> SUFFICES ASSUME TypeOK, Claims, OneInsertion, InOnePlace, [Next]_vars PROVE InOnePlace'
  OBVIOUS
<1> DEFINE Same == UNCHANGED <<simCounter, freeList, insReq, camUpd, camRep, urhRsp, rltIns,
                               rltValid, delReq, ursSim>>
<1>1. Same => InOnePlace'
  BY SamePlaces
<1>2. Users \/ UNCHANGED vars => Same
  BY DEF Users, TakeReply, TXeTake, PRtTake, vars, simVars, lrhVars, camVars, rltVars, envVars, hisVars
<1>3. (\E c \in Source, q \in Query : AskLookup(c, q)) \/ (\E id \in Session : STtRelease(id) \/ TXeReverse(id))
      => Same
  BY DEF AskLookup, STtRelease, TXeReverse, simVars, lrhVars, camVars, rltVars
<1>4. CamLookup => Same
  BY DEF CamLookup, simVars, lrhVars, camVars, rltVars, envVars, hisVars
<1> QED BY <1>1, <1>2, <1>3, <1>4, SimPlace, LrhPlace, UrsInsertPlace, UrsDeletePlace, CamUpdatePlace,
       UrhForwardPlace, RltPlace DEF Next, Urs, Cam

(***************************************************************************)
(* The CAM and what is in flight around it.                                *)
(***************************************************************************)
LEMMA AppendedAt ==
    ASSUME NEW S, NEW str \in Seq(S), NEW e \in S
    PROVE  \A i \in 1 .. Len(Append(str, e)) :
             \/ i \in 1 .. Len(str) /\ Append(str, e)[i] = str[i]
             \/ i = Len(str) + 1 /\ Append(str, e)[i] = e
OBVIOUS

\* The elements of a stream after reading one.
LEMMA TakenAt ==
    ASSUME NEW S, NEW str \in Seq(S), str # <<>>
    PROVE  \A i \in 1 .. Len(Tail(str)) : i + 1 \in 1 .. Len(str) /\ Tail(str)[i] = str[i + 1]
OBVIOUS

\* An insertion finds a free entry of the CAM, and neither its key nor its id in it:
\* the ids of the CAM are in other places of the loop.
LEMMA InsertionEffective ==
    ASSUME TypeOK, InOnePlace, CamOf, Missed, camUpd # <<>>, Head(camUpd).op = "INSERT"
    PROVE  /\ Cardinality(cam) < MaxSessions
           /\ \A e \in cam : e.key # Head(camUpd).key /\ e.id # Head(camUpd).id
<1> DEFINE u == Head(camUpd)
<1>1. u \in Update /\ u = camUpd[1] /\ 1 \in 1 .. Len(camUpd) /\ u.id \in Session
  <2>1. camUpd \in Seq(Update)
    BY DEF TypeOK, StreamOf
  <2>2. u \in Update /\ u = camUpd[1] /\ 1 \in 1 .. Len(camUpd)
    BY <2>1, Taking
  <2> QED BY <2>2 DEF Update
<1>2. 1 \in Inserts(camUpd) /\ u.id \in Where["camUpd"]
  BY <1>1, WhereIs DEF Inserts, IdsWith
<1>3. u.id \notin InCam
  BY <1>2, InCamIs DEF InOnePlace, Partition, Place
<1>4. u.id \notin Deleted
  <2> SUFFICES ASSUME u.id \in Deleted PROVE FALSE
    OBVIOUS
  <2>1. PICK j \in 1 .. Len(camUpd) : camUpd[j].op = "DELETE" /\ camUpd[j].id = u.id
    BY DEF Deleted, IdsWith
  <2>2. j <= 1
    BY <1>1, <2>1 DEF CamOf
  <2>3. j = 1
    BY <2>1, <2>2
  <2> QED BY <1>1, <2>1, <2>3
<1>5. \A e \in cam : e.key # u.key /\ e.id # u.id
  BY <1>1, <1>2, <1>3, <1>4 DEF Missed, CamOf
<1>6. Cardinality(cam) < MaxSessions
  <2> DEFINE f == [e \in cam |-> e.id]
             Rest == Session \ {u.id}
  <2>1. f \in Injection(cam, Rest)
    BY <1>5 DEF TypeOK, Entry, CamOf, Injection, IsInjective
  <2>2. IsFiniteSet(Session) /\ Cardinality(Session) = MaxSessions
    BY FS_Interval, LookupAssumption DEF Session
  <2>3. IsFiniteSet(Rest) /\ Cardinality(Rest) = MaxSessions - 1
    BY <1>1, <2>2, FS_RemoveElement
  <2>4. Cardinality(cam) <= MaxSessions - 1 /\ IsFiniteSet(cam)
    BY <2>1, <2>3, FS_Injection
  <2> QED BY <2>4, FS_CardinalityType, LookupAssumption
<1> QED BY <1>5, <1>6

\* What Lrh passes to the reverse table is in the CAM.
LEMMA LrhClaims == TypeOK /\ OneInsertion /\ Claims /\ (Lrh \/ CamLookup) => Claims'
<1> SUFFICES ASSUME TypeOK, OneInsertion, Claims, Lrh \/ CamLookup PROVE Claims'
  OBVIOUS
<1> USE DEF simVars, lrhVars, camVars, rltVars, envVars, hisVars
<1>1. ASSUME UNCHANGED <<rltValid, rltKey, rltIns, delReq, camRep, urhRsp, camUpd, cam>>, Len(urhRsp) = 0
      PROVE  Claims'
  <2>1. 1 .. Len(urhRsp') = {}
    BY <1>1
  <2>2. Inserts(camRep)' = Inserts(camRep)
    BY <1>1 DEF Inserts
  <2> QED BY <1>1, <2>1, <2>2 DEF Claims
<1>2. lrh.pc # "update" => Len(urhRsp) = 0
  BY DEF OneInsertion, Pending
<1>3. ASSUME NEW c \in Source, LrhTake(c) PROVE Claims'
  BY <1>1, <1>2, <1>3 DEF LrhTake
<1>4. CASE LrhInsert
  BY <1>1, <1>2, <1>4 DEF LrhInsert
<1>5. CASE LrhAnswer
  BY <1>1, <1>2, <1>5 DEF LrhAnswer
<1>6. CASE CamLookup
  BY <1>1, <1>2, <1>6 DEF CamLookup
<1>7. CASE LrhInserted
  <2> DEFINE e == [key |-> lrh.key, id |-> Head(urhRsp)]
  <2>1. urhRsp \in Seq(Session) /\ urhRsp # <<>> /\ rltIns \in Seq(Entry)
    BY <1>7 DEF LrhInserted, TypeOK, StreamOf
  <2>2. e \in cam /\ e \in Entry
    BY <1>7, <2>1, Taking DEF LrhInserted, Claims, TypeOK
  <2>3. Len(urhRsp') = 0
    BY <1>7, <2>1, Taking DEF LrhInserted, OneInsertion, Pending
  <2>4. rltIns' = Append(rltIns, e)
    BY <1>7 DEF LrhInserted
  <2>5. \A i \in 1 .. Len(rltIns') : rltIns'[i] \in cam
    <3> HIDE DEF e
    <3> QED BY <2>1, <2>2, <2>4, AppendedAt DEF Claims
  <2>6. 1 .. Len(urhRsp') = {}
    BY <2>3
  <2>7. UNCHANGED <<rltValid, rltKey, delReq, camRep, camUpd, cam>>
    BY <1>7 DEF LrhInserted
  <2>8. Inserts(camRep)' = Inserts(camRep)
    BY <2>7 DEF Inserts
  <2> QED BY <2>5, <2>6, <2>7, <2>8 DEF Claims
<1> QED BY <1>3, <1>4, <1>5, <1>6, <1>7 DEF Lrh, Source

\* What Urs deletes is in the CAM.
LEMMA UrsClaims == TypeOK /\ OneInsertion /\ Claims /\ Urs => Claims'
<1> SUFFICES ASSUME TypeOK, OneInsertion, Claims, Urs PROVE Claims'
  OBVIOUS
<1> USE DEF simVars, lrhVars, camVars, rltVars, envVars, hisVars
<1>1. CASE UrsInsert
  <2> DEFINE u == Head(insReq)
  <2>1. insReq \in Seq(Update) /\ insReq # <<>> /\ camUpd \in Seq(Update) /\ Len(insReq) # 0
    BY <1>1 DEF UrsInsert, TypeOK, StreamOf
  <2>2. u \in Update /\ u.op = "INSERT"
    BY <2>1, Taking DEF OneInsertion, Pending
  <2>3. \A i \in 1 .. Len(camUpd') : camUpd'[i].op = "DELETE" => EntryOf(camUpd'[i]) \in cam
    BY <1>1, <2>1, <2>2, AppendedAt DEF UrsInsert, Claims
  <2> QED BY <1>1, <2>3 DEF UrsInsert, Claims, EntryOf, Inserts
<1>2. CASE UrsDelete
  <2> DEFINE u == Head(delReq)
  <2>1. delReq \in Seq(Update) /\ delReq # <<>> /\ camUpd \in Seq(Update)
    BY <1>2 DEF UrsDelete, TypeOK, StreamOf
  <2>2. u \in Update /\ u.op = "DELETE" /\ EntryOf(u) \in cam
    BY <2>1, Taking DEF Claims
  <2>3. \A i \in 1 .. Len(camUpd') : camUpd'[i].op = "DELETE" => EntryOf(camUpd'[i]) \in cam
    BY <1>2, <2>1, <2>2, AppendedAt DEF UrsDelete, Claims
  <2>4. \A i \in 1 .. Len(delReq') : delReq'[i].op = "DELETE" /\ EntryOf(delReq'[i]) \in cam
    BY <1>2, <2>1, TakenAt DEF UrsDelete, Claims
  <2> QED BY <1>2, <2>3, <2>4 DEF UrsDelete, Claims, EntryOf, Inserts
<1> QED BY <1>1, <1>2 DEF Urs

\* What Rlt holds valid, and what it asks to delete, is in the CAM.
LEMMA RltClaims == TypeOK /\ InOnePlace /\ Claims /\ Rlt => Claims'
<1> SUFFICES ASSUME TypeOK, InOnePlace, Claims, Rlt PROVE Claims'
  OBVIOUS
<1> USE DEF simVars, lrhVars, camVars, rltVars, envVars, hisVars
<1>1. CASE RltInitialised \/ RltReverse
  BY <1>1 DEF RltInitialised, RltReverse, Claims, EntryOf, Inserts
<1>2. CASE RltInsert
  <2> DEFINE e == Head(rltIns)
  <2>1. rltIns \in Seq(Entry) /\ rltIns # <<>>
    BY <1>2 DEF RltInsert, TypeOK, StreamOf
  <2>2. e \in Entry /\ e \in cam
    BY <2>1, Taking DEF Claims
  <2>3. \A i \in 1 .. Len(rltIns') : rltIns'[i] \in cam
    BY <1>2, <2>1, TakenAt DEF RltInsert, Claims
  <2>4. \A s \in Session : rltValid'[s] => [key |-> rltKey'[s], id |-> s] \in cam
    <3> SUFFICES ASSUME NEW s \in Session, rltValid'[s] PROVE [key |-> rltKey'[s], id |-> s] \in cam
      OBVIOUS
    <3>1. CASE s = e.id
      <4>1. rltKey'[s] = e.key
        BY <1>2, <3>1 DEF RltInsert, TypeOK
      <4>2. e = [key |-> e.key, id |-> e.id]
        BY <2>2 DEF Entry
      <4> QED BY <2>2, <3>1, <4>1, <4>2
    <3>2. CASE s # e.id
      BY <1>2, <3>2 DEF RltInsert, TypeOK, Claims
    <3> QED BY <3>1, <3>2
  <2> QED BY <1>2, <2>3, <2>4 DEF RltInsert, Claims, EntryOf, Inserts
<1>3. CASE RltRelease
  <2> DEFINE x == Head(sttRel)
             u == UpdateOf("DELETE", [key |-> rltKey[x], id |-> x])
  <2>1. x \in Session /\ delReq \in Seq(Update)
    BY <1>3, StreamSteps DEF RltRelease, TypeOK, StreamOf
  <2>2. \A s \in Session : rltValid'[s] => [key |-> rltKey'[s], id |-> s] \in cam
    BY <1>3 DEF RltRelease, ValidAfterRelease, Claims, TypeOK
  <2>3. \A i \in 1 .. Len(delReq') : delReq'[i].op = "DELETE" /\ EntryOf(delReq'[i]) \in cam
    <3>1. CASE rltValid[x]
      <4>1. [key |-> rltKey[x], id |-> x] \in cam
        BY <2>1, <3>1 DEF Claims
      <4>2. u.op = "DELETE" /\ EntryOf(u) \in cam
        BY <4>1 DEF UpdateOf, EntryOf
      <4>3. u \in Update
        BY <4>1, UpdateType DEF TypeOK
      <4>4. delReq' = Append(delReq, u)
        BY <1>3, <3>1 DEF RltRelease
      <4> HIDE DEF u, x
      <4> QED BY <2>1, <4>2, <4>3, <4>4, AppendedAt DEF Claims
    <3>2. CASE ~rltValid[x]
      BY <1>3, <3>2 DEF RltRelease, Claims
    <3> QED BY <3>1, <3>2
  <2> QED BY <1>3, <2>2, <2>3 DEF RltRelease, Claims, EntryOf, Inserts
<1> QED BY <1>1, <1>2, <1>3 DEF Rlt

\* A deletion takes out the entry of its id and no other; an insertion takes effect.
LEMMA CamUpdated ==
    ASSUME TypeOK, InOnePlace, Claims, CamOf, Missed, CamUpdate
    PROVE  LET u == Head(camUpd) IN
           /\ camUpd \in Seq(Update) /\ camUpd # <<>> /\ u \in Update /\ u = camUpd[1]
           /\ EntryOf(u) \in Entry
           /\ u.op = "INSERT" => cam' = cam \cup {EntryOf(u)}
           /\ u.op = "DELETE" => EntryOf(u) \in cam /\ cam' = cam \ {EntryOf(u)}
<1> DEFINE u == Head(camUpd)
<1>1. camUpd \in Seq(Update) /\ camUpd # <<>> /\ u \in Update /\ u = camUpd[1] /\ 1 \in 1 .. Len(camUpd)
  <2>1. camUpd \in Seq(Update) /\ camUpd # <<>>
    BY DEF CamUpdate, TypeOK, StreamOf
  <2> QED BY <2>1, Taking
<1>2. EntryOf(u) \in Entry /\ EntryOf(u).key = u.key
  BY <1>1 DEF EntryOf, Update, Entry
<1>3. u.op = "INSERT" => cam' = cam \cup {EntryOf(u)}
  BY <1>1, InsertionEffective DEF CamUpdate, Updated, EntryOf
<1>4. u.op = "DELETE" => EntryOf(u) \in cam
  BY <1>1 DEF Claims
<1>5. u.op = "DELETE" => cam' = cam \ {EntryOf(u)}
  <2> SUFFICES ASSUME u.op = "DELETE" PROVE cam' = cam \ {EntryOf(u)}
    OBVIOUS
  <2>1. cam' = {e \in cam : e.key # u.key}
    BY DEF CamUpdate, Updated
  <2>2. \A e \in cam : e.key = u.key <=> e = EntryOf(u)
    BY <1>2, <1>4 DEF CamOf
  <2> QED BY <2>1, <2>2
<1> QED BY <1>1, <1>2, <1>3, <1>4, <1>5

\* The ids that entries are claimed for are not those of a deletion.
LEMMA ClaimedIds ==
    ASSUME TypeOK
    PROVE  /\ \A s \in Session : rltValid[s] => s \in InCam
           /\ \A i \in 1 .. Len(rltIns) : rltIns[i].id \in InCam
           /\ \A i \in 1 .. Len(delReq) : delReq[i].id \in InCam
           /\ \A i \in Inserts(camRep) : camRep[i].id \in InCam
           /\ \A i \in 1 .. Len(urhRsp) : urhRsp[i] \in InCam
           /\ \A i \in 1 .. Len(camUpd) : camUpd[i].op = "DELETE" => camUpd[i].id \in Deleted
BY InCamIs, WhereIs DEF Ids, IdsWith, Elements, Inserts, Deleted

\* An update of the CAM leaves every entry that is still claimed.
LEMMA CamUpdateClaims == SlcInv /\ CamUpdate => Claims'
<1> SUFFICES ASSUME SlcInv, CamUpdate PROVE Claims'
  OBVIOUS
<1> USE DEF SlcInv, simVars, lrhVars, camVars, rltVars, envVars, hisVars
<1> DEFINE u == Head(camUpd)
<1>1. /\ camUpd \in Seq(Update) /\ camUpd # <<>> /\ u \in Update /\ u = camUpd[1] /\ EntryOf(u) \in Entry
      /\ u.op = "INSERT" => cam' = cam \cup {EntryOf(u)}
      /\ u.op = "DELETE" => EntryOf(u) \in cam /\ cam' = cam \ {EntryOf(u)}
  BY CamUpdated
<1>2. camRep \in Seq(Update) /\ camRep' = Append(camRep, u) /\ camUpd' = Tail(camUpd)
  BY DEF CamUpdate, TypeOK, StreamOf
<1>3. UNCHANGED <<rltValid, rltKey, rltIns, delReq, urhRsp, lrh>>
  BY DEF CamUpdate
<1>4. u.op \in {"INSERT", "DELETE"} /\ EntryOf(u).id = u.id
  BY <1>1 DEF Update, EntryOf
<1>5. \A i \in 1 .. Len(camUpd') : camUpd'[i] = camUpd[i + 1] /\ i + 1 \in 1 .. Len(camUpd)
  BY <1>1, <1>2, TakenAt
<1>6. \A i \in Inserts(camRep') : \/ i \in Inserts(camRep) /\ camRep'[i] = camRep[i]
                                  \/ camRep'[i] = u /\ u.op = "INSERT"
  BY <1>1, <1>2, AppendedAt DEF Inserts
<1>7. CASE u.op = "INSERT"
  <2>1. cam \subseteq cam' /\ EntryOf(u) \in cam'
    BY <1>1, <1>7
  <2> QED BY <2>1, <1>3, <1>5, <1>6 DEF Claims
<1>8. CASE u.op = "DELETE"
  <2>1. u.id \in Deleted /\ u.id \notin InCam
    BY <1>1, <1>8, ClaimedIds DEF CamOf
  <2>2. \A e \in cam : e.id # u.id => e \in cam'
    BY <1>1, <1>4, <1>8
  <2>3. \A s \in Session : rltValid'[s] => [key |-> rltKey'[s], id |-> s] \in cam'
    BY <1>3, <2>1, <2>2, ClaimedIds DEF Claims
  <2>4. \A i \in 1 .. Len(rltIns') : rltIns'[i] \in cam'
    BY <1>3, <2>1, <2>2, ClaimedIds DEF Claims
  <2>5. \A i \in 1 .. Len(delReq') : delReq'[i].op = "DELETE" /\ EntryOf(delReq'[i]) \in cam'
    BY <1>3, <2>1, <2>2, ClaimedIds DEF Claims, EntryOf
  <2>6. \A i \in Inserts(camRep') : EntryOf(camRep'[i]) \in cam'
    BY <1>6, <1>8, <2>1, <2>2, ClaimedIds DEF Claims, EntryOf
  <2>7. \A i \in 1 .. Len(urhRsp') : [key |-> lrh'.key, id |-> urhRsp'[i]] \in cam'
    BY <1>3, <2>1, <2>2, ClaimedIds DEF Claims
  <2>8. \A i \in 1 .. Len(camUpd') : camUpd'[i].op = "DELETE" => EntryOf(camUpd'[i]) \in cam'
    <3> SUFFICES ASSUME NEW i \in 1 .. Len(camUpd'), camUpd'[i].op = "DELETE" PROVE EntryOf(camUpd'[i]) \in cam'
      OBVIOUS
    <3>1. camUpd'[i] = camUpd[i + 1] /\ i + 1 \in 1 .. Len(camUpd) /\ 1 \in 1 .. Len(camUpd)
      BY <1>5
    <3>2. ~(i + 1 <= 1)
      OBVIOUS
    <3>3. camUpd[i + 1].id # u.id
      BY <1>1, <3>1, <3>2 DEF CamOf
    <3> QED BY <2>2, <3>1, <3>3 DEF Claims, EntryOf
  <2> QED BY <2>3, <2>4, <2>5, <2>6, <2>7, <2>8 DEF Claims
<1> QED BY <1>4, <1>7, <1>8

\* What Urh tells Lrh is in the CAM.
LEMMA UrhForwardClaims == TypeOK /\ OneInsertion /\ Claims /\ UrhForward => Claims'
<1> SUFFICES ASSUME TypeOK, OneInsertion, Claims, UrhForward PROVE Claims'
  OBVIOUS
<1> USE DEF simVars, lrhVars, camVars, rltVars, envVars, hisVars
<1> DEFINE u == Head(camRep)
<1>1. camRep \in Seq(Update) /\ camRep # <<>> /\ urhRsp \in Seq(Session)
  BY DEF UrhForward, TypeOK, StreamOf
<1>2. u \in Update /\ u = camRep[1] /\ 1 \in 1 .. Len(camRep)
  BY <1>1, Taking
<1>3. camRep' = Tail(camRep) /\ UNCHANGED <<rltValid, rltKey, rltIns, delReq, camUpd, cam, lrh>>
  BY DEF UrhForward
<1>4. \A i \in Inserts(camRep') : i + 1 \in Inserts(camRep) /\ camRep'[i] = camRep[i + 1]
  BY <1>1, <1>3, TakenAt DEF Inserts
<1>5. \A i \in Inserts(camRep') : EntryOf(camRep'[i]) \in cam
  BY <1>4 DEF Claims
<1>6. \A i \in 1 .. Len(urhRsp') : [key |-> lrh.key, id |-> urhRsp'[i]] \in cam
  <2>1. CASE u.op = "INSERT"
    <3>1. u.key = lrh.key
      BY <1>1, <1>2, <2>1, InsertsTaken DEF OneInsertion, Pending
    <3>2. [key |-> lrh.key, id |-> u.id] \in cam
      BY <1>2, <2>1, <3>1 DEF Claims, Inserts, EntryOf
    <3>3. urhRsp' = Append(urhRsp, u.id)
      BY <2>1 DEF UrhForward, AwaitedByLrh
    <3>4. u.id \in Session
      BY <1>2 DEF Update
    <3> HIDE DEF u
    <3> QED BY <1>1, <3>2, <3>3, <3>4, AppendedAt DEF Claims
  <2>2. CASE u.op # "INSERT"
    BY <2>2 DEF UrhForward, AwaitedByLrh, Claims
  <2> QED BY <2>1, <2>2
<1> QED BY <1>3, <1>5, <1>6 DEF Claims

\* Every step keeps the claimed entries in the CAM.
LEMMA NextClaims == SlcInv /\ [Next]_vars => Claims'
<1> SUFFICES ASSUME SlcInv, [Next]_vars PROVE Claims'
  OBVIOUS
<1> DEFINE Same == UNCHANGED <<rltValid, rltKey, rltIns, delReq, camRep, urhRsp, camUpd, cam, lrh>>
<1>1. ASSUME Same PROVE Claims'
  <2>1. Inserts(camRep)' = Inserts(camRep)
    BY <1>1 DEF Inserts
  <2>2. /\ rltValid' = rltValid /\ rltKey' = rltKey /\ rltIns' = rltIns /\ delReq' = delReq /\ lrh' = lrh
        /\ camRep' = camRep /\ urhRsp' = urhRsp /\ camUpd' = camUpd /\ cam' = cam
    BY <1>1
  <2> HIDE DEF Same
  <2> QED BY <2>1, <2>2 DEF SlcInv, Claims
<1>2. Sim \/ Users \/ UNCHANGED vars => Same
  BY DEF Sim, SimFill, SimRecycle, Users, TakeReply, TXeTake, PRtTake, vars, simVars, lrhVars, camVars,
         rltVars, envVars, hisVars
<1>3. (\E c \in Source, q \in Query : AskLookup(c, q)) \/ (\E id \in Session : STtRelease(id) \/ TXeReverse(id))
      => Same
  BY DEF AskLookup, STtRelease, TXeReverse, simVars, lrhVars, camVars, rltVars
<1> QED BY <1>1, <1>2, <1>3, LrhClaims, UrsClaims, RltClaims, CamUpdateClaims, UrhForwardClaims
        DEF Next, Cam, SlcInv

\* Deletions in the stream of updates: one is added at the end, the head is taken off.
LEMMA DeletedSteps ==
    ASSUME NEW str \in Seq(Update)
    PROVE  /\ \A u \in Update : IdsWith("DELETE", Append(str, u))
                = IF u.op = "DELETE" THEN IdsWith("DELETE", str) \cup {u.id} ELSE IdsWith("DELETE", str)
           /\ str # <<>> => IdsWith("DELETE", str)
                = IF Head(str).op = "DELETE" THEN IdsWith("DELETE", Tail(str)) \cup {Head(str).id}
                                             ELSE IdsWith("DELETE", Tail(str))
BY AppendingId, TakingId

\* No update of the stream has the id of a deletion behind it.
DeletedLast(str) ==
    \A i, j \in 1 .. Len(str) : str[j].op = "DELETE" /\ str[i].id = str[j].id => j <= i

\* A deletion of a new id may be added; the head may be taken off.
LEMMA DeletedLastSteps ==
    ASSUME NEW str \in Seq(Update), DeletedLast(str)
    PROVE  /\ \A u \in Update : (u.op = "DELETE" => u.id \notin Ids(str)) => DeletedLast(Append(str, u))
           /\ str # <<>> => DeletedLast(Tail(str)) /\ Head(str).id \notin IdsWith("DELETE", Tail(str))
<1>1. ASSUME NEW u \in Update, u.op = "DELETE" => u.id \notin Ids(str)
      PROVE  DeletedLast(Append(str, u))
  <2> DEFINE new == Append(str, u)
  <2> SUFFICES ASSUME NEW i \in 1 .. Len(new), NEW j \in 1 .. Len(new), new[j].op = "DELETE", new[i].id = new[j].id
               PROVE  j <= i
    BY DEF DeletedLast
  <2>1. \A k \in 1 .. Len(new) : (k \in 1 .. Len(str) /\ new[k] = str[k]) \/ (k = Len(str) + 1 /\ new[k] = u)
    BY AppendedAt
  <2> HIDE DEF new
  <2>2. CASE j \in 1 .. Len(str) /\ new[j] = str[j]
    BY <2>1, <2>2 DEF DeletedLast
  <2>3. CASE j = Len(str) + 1 /\ new[j] = u
    BY <1>1, <2>1, <2>3 DEF Ids
  <2> QED BY <2>1, <2>2, <2>3
<1>2. ASSUME str # <<>> PROVE DeletedLast(Tail(str)) /\ Head(str).id \notin IdsWith("DELETE", Tail(str))
  <2>1. \A k \in 1 .. Len(Tail(str)) : k + 1 \in 1 .. Len(str) /\ Tail(str)[k] = str[k + 1]
    BY <1>2, TakenAt
  <2>2. Head(str) = str[1] /\ 1 \in 1 .. Len(str)
    BY <1>2, Taking
  <2>3. DeletedLast(Tail(str))
    <3> SUFFICES ASSUME NEW i \in 1 .. Len(Tail(str)), NEW j \in 1 .. Len(Tail(str)),
                        Tail(str)[j].op = "DELETE", Tail(str)[i].id = Tail(str)[j].id
                 PROVE  j <= i
      BY DEF DeletedLast
    <3>1. j + 1 <= i + 1
      BY <2>1 DEF DeletedLast
    <3> QED BY <3>1
  <2>4. Head(str).id \notin IdsWith("DELETE", Tail(str))
    <3> SUFFICES ASSUME NEW j \in 1 .. Len(Tail(str)), Tail(str)[j].op = "DELETE", Tail(str)[j].id = Head(str).id
                 PROVE  FALSE
      BY DEF IdsWith
    <3>1. j + 1 <= 1
      BY <2>1, <2>2 DEF DeletedLast
    <3> QED BY <3>1
  <2> QED BY <2>3, <2>4
<1> QED BY <1>1, <1>2

\* The parts of CamOf, for the steps that change only some of them.
LEMMA CamOfIs ==
    CamOf <=> /\ \A e, f \in cam : e.key = f.key \/ e.id = f.id => e = f
              /\ \A e \in cam : e.id \in InCam \cup Deleted
              /\ Deleted \cap InCam = {}
              /\ DeletedLast(camUpd)
BY DEF CamOf, DeletedLast

\* Steps that leave the CAM and its updates alone.
LEMMA SameCam == ASSUME CamOf, UNCHANGED <<cam, camUpd>>, InCam' = InCam PROVE CamOf'
<1>1. Deleted' = Deleted
  BY DEF Deleted
<1> QED BY <1>1 DEF CamOf

\* Urs sends a deletion behind everything that has its id.
LEMMA UrsCam == SlcInv /\ Urs => CamOf'
<1> SUFFICES ASSUME SlcInv, Urs PROVE CamOf'
  OBVIOUS
<1> USE DEF SlcInv, simVars, lrhVars, camVars, rltVars, envVars, hisVars
<1>1. CASE UrsInsert
  <2> DEFINE u == Head(insReq)
  <2>1. insReq \in Seq(Update) /\ insReq # <<>> /\ camUpd \in Seq(Update) /\ Len(insReq) # 0
    BY <1>1 DEF UrsInsert, TypeOK, StreamOf
  <2>2. u \in Update /\ u.op = "INSERT"
    BY <2>1, Taking DEF OneInsertion, Pending
  <2>3. InCam' = InCam
    BY <1>1, UrsInsertPlace
  <2>4. camUpd' = Append(camUpd, u) /\ cam' = cam
    BY <1>1 DEF UrsInsert
  <2>5. Deleted' = Deleted
    BY <2>1, <2>2, <2>4, DeletedSteps DEF Deleted
  <2>6. DeletedLast(camUpd')
    BY <2>1, <2>2, <2>4, DeletedLastSteps, CamOfIs
  <2> QED BY <2>3, <2>4, <2>5, <2>6 DEF CamOf, DeletedLast
<1>2. CASE UrsDelete
  <2> DEFINE u == Head(delReq)
  <2>1. delReq \in Seq(Update) /\ delReq # <<>> /\ camUpd \in Seq(Update)
    BY <1>2 DEF UrsDelete, TypeOK, StreamOf
  <2>2. u \in Update /\ u.op = "DELETE" /\ u = delReq[1] /\ 1 \in 1 .. Len(delReq)
    BY <2>1, Taking DEF Claims
  <2>3. u.id \in Where["delReq"] /\ u.id \in InCam
    BY <2>2, WhereIs, InCamIs DEF Ids
  <2>4. InCam' = InCam \ {u.id}
    BY <1>2, UrsDeletePlace
  <2>5. camUpd' = Append(camUpd, u) /\ cam' = cam
    BY <1>2 DEF UrsDelete
  <2>6. Deleted' = Deleted \cup {u.id}
    BY <2>1, <2>2, <2>5, DeletedSteps DEF Deleted
  <2>7. u.id \notin Ids(camUpd)
    <3>1. u.id \notin IdsWith("INSERT", camUpd)
      BY <2>3, WhereIs DEF InOnePlace, Partition, Place
    <3>2. u.id \notin IdsWith("DELETE", camUpd)
      BY <2>3 DEF CamOf, Deleted
    <3>3. \A i \in 1 .. Len(camUpd) : camUpd[i].op \in {"INSERT", "DELETE"}
      <4>1. \A i \in 1 .. Len(camUpd) : camUpd[i] \in Update
        BY <2>1
      <4> QED BY <4>1 DEF Update
    <3> QED BY <3>1, <3>2, <3>3 DEF Ids, IdsWith
  <2>8. DeletedLast(camUpd')
    BY <2>1, <2>2, <2>5, <2>7, DeletedLastSteps, CamOfIs
  <2> QED BY <2>4, <2>5, <2>6, <2>8 DEF CamOf, DeletedLast
<1> QED BY <1>1, <1>2 DEF Urs

\* An update of the CAM keeps its keys and ids unique, and its ids accounted for.
LEMMA CamUpdateCam == SlcInv /\ CamUpdate => CamOf'
<1> SUFFICES ASSUME SlcInv, CamUpdate PROVE CamOf'
  OBVIOUS
<1> USE DEF SlcInv, simVars, lrhVars, camVars, rltVars, envVars, hisVars
<1> DEFINE u == Head(camUpd)
<1>1. /\ camUpd \in Seq(Update) /\ camUpd # <<>> /\ u \in Update /\ u = camUpd[1] /\ EntryOf(u) \in Entry
      /\ u.op = "INSERT" => cam' = cam \cup {EntryOf(u)}
      /\ u.op = "DELETE" => EntryOf(u) \in cam /\ cam' = cam \ {EntryOf(u)}
  BY CamUpdated
<1>2. u.op \in {"INSERT", "DELETE"} /\ EntryOf(u).id = u.id /\ EntryOf(u).key = u.key
  BY <1>1 DEF Update, EntryOf
<1>3. camUpd' = Tail(camUpd)
  BY DEF CamUpdate
<1>4. DeletedLast(camUpd') /\ u.id \notin Deleted'
  BY <1>1, <1>3, DeletedLastSteps, CamOfIs DEF Deleted
<1>5. InCam' = IF u.op = "INSERT" THEN InCam \cup {u.id} ELSE InCam
  BY CamUpdatePlace
<1>6. Deleted = IF u.op = "DELETE" THEN Deleted' \cup {u.id} ELSE Deleted'
  BY <1>1, <1>3, DeletedSteps DEF Deleted
<1>7. CASE u.op = "INSERT"
  <2>1. \A e \in cam : e.key # u.key /\ e.id # u.id
    BY <1>1, <1>7, InsertionEffective
  <2> QED BY <1>1, <1>2, <1>4, <1>5, <1>6, <1>7, <2>1 DEF CamOf, DeletedLast
<1>8. CASE u.op = "DELETE"
  <2>1. u.id \notin InCam
    BY <1>6, <1>8 DEF CamOf
  <2>2. \A e \in cam' : e \in cam /\ e.id # u.id
    BY <1>1, <1>2, <1>8 DEF CamOf
  <2>3. \A e \in cam' : e.id \in InCam' \cup Deleted'
    BY <1>5, <1>6, <1>8, <2>2 DEF CamOf
  <2> QED BY <1>4, <1>5, <1>6, <1>8, <2>1, <2>2, <2>3 DEF CamOf, DeletedLast
<1> QED BY <1>2, <1>7, <1>8

\* Every step keeps the CAM in order.
LEMMA NextCam == SlcInv /\ [Next]_vars => CamOf'
<1> SUFFICES ASSUME SlcInv, [Next]_vars PROVE CamOf'
  OBVIOUS
<1> USE DEF SlcInv
<1>1. Sim \/ Lrh \/ Rlt \/ CamLookup \/ UrhForward \/ Users \/ UNCHANGED vars
      \/ (\E c \in Source, q \in Query : AskLookup(c, q)) \/ (\E id \in Session : STtRelease(id) \/ TXeReverse(id))
      => UNCHANGED <<cam, camUpd>>
  BY DEF Sim, SimFill, SimRecycle, Lrh, LrhTake, LrhInsert, LrhAnswer, LrhInserted, Rlt, RltInitialised, RltInsert,
         RltRelease, RltReverse, CamLookup, UrhForward, Users, TakeReply, TXeTake, PRtTake, AskLookup, STtRelease,
         TXeReverse, vars, simVars, lrhVars, camVars, rltVars, envVars, hisVars
<1>2. CamLookup \/ Users \/ UNCHANGED vars
      \/ (\E c \in Source, q \in Query : AskLookup(c, q)) \/ (\E id \in Session : STtRelease(id) \/ TXeReverse(id))
      => UNCHANGED <<simCounter, freeList, insReq, camUpd, camRep, urhRsp, rltIns, rltValid, delReq, ursSim>>
  BY DEF CamLookup, Users, TakeReply, TXeTake, PRtTake, AskLookup, STtRelease, TXeReverse, vars, simVars, lrhVars,
         camVars, rltVars, envVars, hisVars
<1> QED BY <1>1, <1>2, SameCam, SamePlaces, SimPlace, LrhPlace, RltPlace, UrhForwardPlace, UrsCam, CamUpdateCam
        DEF Next, Cam

(***************************************************************************)
(* What Lrh is about to insert is not in the CAM.                          *)
(***************************************************************************)
LEMMA NextMissed == SlcInv /\ [Next]_vars => Missed'
<1> SUFFICES ASSUME SlcInv, [Next]_vars PROVE Missed'
  OBVIOUS
<1> USE DEF SlcInv, simVars, lrhVars, camVars, rltVars, envVars, hisVars
<1>1. CASE UNCHANGED <<lrh, insReq, camUpd, cam>>
  BY <1>1 DEF Missed, Inserts
<1>2. CASE Sim \/ UrhForward \/ Rlt \/ Users \/ UNCHANGED vars
  <2>1. UNCHANGED <<lrh, insReq, camUpd, cam>>
    BY <1>2 DEF Sim, SimFill, SimRecycle, UrhForward, Rlt, RltInitialised, RltInsert, RltRelease, RltReverse,
                Users, TakeReply, TXeTake, PRtTake, vars
  <2> QED BY <1>1, <2>1
<1>3. CASE (\E c \in Source, q \in Query : AskLookup(c, q)) \/ (\E id \in Session : STtRelease(id) \/ TXeReverse(id))
  <2>1. UNCHANGED <<lrh, insReq, camUpd, cam>>
    BY <1>3 DEF AskLookup, STtRelease, TXeReverse
  <2> QED BY <1>1, <2>1
<1>4. ASSUME UNCHANGED <<insReq, camUpd, cam>>, lrh'.pc # "found" PROVE Missed'
  BY <1>4 DEF Missed, Inserts
<1>5. ASSUME NEW c \in Source, LrhTake(c) PROVE Missed'
  BY <1>4, <1>5 DEF LrhTake
<1>6. CASE LrhAnswer \/ LrhInserted
  <2>1. UNCHANGED <<insReq, camUpd, cam>> /\ lrh' = [pc |-> "req"]
    BY <1>6 DEF LrhAnswer, LrhInserted
  <2> QED BY <1>4, <2>1
<1>7. CASE LrhInsert
  <2> DEFINE u == UpdateOf("INSERT", [key |-> lrh.key, id |-> Head(freeList)])
  <2>1. /\ lrh.pc = "found" /\ ~lrh.hit /\ lrh'.pc = "update" /\ UNCHANGED <<camUpd, cam>>
        /\ insReq' = Append(insReq, u) /\ freeList # <<>>
    BY <1>7 DEF LrhInsert, MayCreate
  <2>2. u \in Update /\ u.key = lrh.key /\ insReq \in Seq(Update)
    <3>1. Head(freeList) \in Session /\ lrh.key \in Tuple
      BY <2>1, Taking, LrhFields DEF TypeOK
    <3> QED BY <3>1, UpdateType DEF UpdateOf, Entry, TypeOK, StreamOf
  <2>3. \A i \in 1 .. Len(insReq') : \A e \in cam : e.key # insReq'[i].key
    <3> HIDE DEF u
    <3> QED BY <2>1, <2>2, AppendedAt DEF Missed
  <2> QED BY <2>1, <2>3 DEF Missed, Inserts
<1>8. CASE CamLookup
  <2> DEFINE hits == {e \in cam : e.key = lrh.key}
  <2>1. lrh'.hit = (hits # {}) /\ lrh'.key = lrh.key /\ UNCHANGED <<insReq, camUpd, cam>>
    BY <1>8 DEF CamLookup
  <2>2. ~lrh'.hit => \A e \in cam : e.key # lrh.key
    BY <2>1
  <2> HIDE DEF hits
  <2> QED BY <2>1, <2>2 DEF Missed, Inserts
<1>9. CASE UrsInsert
  <2> DEFINE u == Head(insReq)
  <2>1. /\ insReq \in Seq(Update) /\ insReq # <<>> /\ camUpd \in Seq(Update) /\ UNCHANGED <<lrh, cam>>
        /\ camUpd' = Append(camUpd, u) /\ insReq' = Tail(insReq)
    BY <1>9 DEF UrsInsert, TypeOK, StreamOf
  <2>2. u \in Update /\ u = insReq[1] /\ 1 \in 1 .. Len(insReq)
    BY <2>1, Taking
  <2>3. \A i \in 1 .. Len(insReq') : \A e \in cam : e.key # insReq'[i].key
    BY <2>1, TakenAt DEF Missed
  <2>4. \A i \in Inserts(camUpd') : \A e \in cam : e.key # camUpd'[i].key
    BY <2>1, <2>2, AppendedAt DEF Missed, Inserts
  <2> QED BY <2>1, <2>3, <2>4 DEF Missed
<1>10. CASE UrsDelete
  <2> DEFINE u == Head(delReq)
  <2>1. /\ delReq \in Seq(Update) /\ delReq # <<>> /\ camUpd \in Seq(Update) /\ UNCHANGED <<lrh, cam, insReq>>
        /\ camUpd' = Append(camUpd, u)
    BY <1>10 DEF UrsDelete, TypeOK, StreamOf
  <2>2. u \in Update /\ u.op = "DELETE"
    BY <2>1, Taking DEF Claims
  <2>3. \A i \in Inserts(camUpd') : \A e \in cam : e.key # camUpd'[i].key
    BY <2>1, <2>2, AppendedAt DEF Missed, Inserts
  <2> QED BY <2>1, <2>3 DEF Missed
<1>11. CASE CamUpdate
  <2> DEFINE u == Head(camUpd)
  <2>1. /\ camUpd \in Seq(Update) /\ camUpd # <<>> /\ u \in Update
        /\ u.op = "INSERT" => cam' = cam \cup {EntryOf(u)}
        /\ u.op = "DELETE" => cam' = cam \ {EntryOf(u)}
    BY <1>11, CamUpdated
  <2>2. camUpd' = Tail(camUpd) /\ UNCHANGED <<lrh, insReq>>
    BY <1>11 DEF CamUpdate
  <2>3. CASE u.op = "INSERT"
    <3>1. Pending(0, TRUE, FALSE, 0) /\ lrh.pc = "update"
      BY <2>1, <2>3, InsertsTaken DEF OneInsertion, Pending
    <3>2. Inserts(camUpd') = {}
      BY <2>1, <2>2, <2>3, <3>1, InsertsTaken DEF Pending
    <3>3. 1 .. Len(insReq') = {}
      BY <2>2, <3>1 DEF Pending
    <3> QED BY <2>2, <3>1, <3>2, <3>3 DEF Missed
  <2>4. CASE u.op = "DELETE"
    <3>1. cam' \subseteq cam
      BY <2>1, <2>4
    <3>2. \A i \in Inserts(camUpd') : i + 1 \in Inserts(camUpd) /\ camUpd'[i] = camUpd[i + 1]
      BY <2>1, <2>2, TakenAt DEF Inserts
    <3> QED BY <2>2, <3>1, <3>2 DEF Missed
  <2> QED BY <2>1, <2>3, <2>4 DEF Update
<1> QED BY <1>2, <1>3, <1>5, <1>6, <1>7, <1>8, <1>9, <1>10, <1>11 DEF Next, Lrh, Urs, Cam, Source

(***************************************************************************)
(* The owners.                                                             *)
(***************************************************************************)
LEMMA LrhOwners == SlcInv /\ (Lrh \/ CamLookup) => Owners'
<1> SUFFICES ASSUME SlcInv, Lrh \/ CamLookup PROVE Owners'
  OBVIOUS
<1> USE DEF SlcInv, simVars, lrhVars, camVars, rltVars, envVars, hisVars
<1>1. ASSUME NEW c \in Source, LrhTake(c) PROVE Owners'
  BY <1>1 DEF LrhTake, Owners, Owned, Ids
<1>2. CASE LrhInsert
  BY <1>2 DEF LrhInsert, Owners, Owned, Ids
<1>3. CASE LrhAnswer
  <2>1. lrh.src \in Source /\ lkpRep[lrh.src] \in Seq(Reply)
    BY <1>3, LrhFields DEF LrhAnswer, TypeOK, StreamOf
  <2>2. [hit |-> lrh.hit, id |-> lrh.id] \in Reply
    BY <1>3, LrhFields DEF LrhAnswer, Reply
  <2>3. \A c \in Source : \A i \in 1 .. Len(lkpRep'[c]) : lkpRep'[c][i].hit => Owned(lkpRep'[c][i].id)
    <3> SUFFICES ASSUME NEW c \in Source, NEW i \in 1 .. Len(lkpRep'[c]), lkpRep'[c][i].hit
                 PROVE  Owned(lkpRep'[c][i].id)
      OBVIOUS
    <3>1. CASE c = lrh.src
      <4> DEFINE r == [hit |-> lrh.hit, id |-> lrh.id]
      <4>1. lkpRep'[c] = Append(lkpRep[c], r)
        BY <1>3, <3>1 DEF LrhAnswer, Give, TypeOK
      <4>2. r.hit => Owned(r.id)
        BY <1>3 DEF LrhAnswer, Owners
      <4> HIDE DEF r
      <4> QED BY <2>1, <2>2, <3>1, <4>1, <4>2, AppendedAt DEF Owners, r
    <3>2. CASE c # lrh.src
      BY <1>3, <3>2 DEF LrhAnswer, Give, TypeOK, Owners
    <3> QED BY <3>1, <3>2
  <2> QED BY <1>3, <2>3 DEF LrhAnswer, Owners, Owned, Ids
<1>4. CASE LrhInserted
  <2> DEFINE x == Head(urhRsp)
             e == [key |-> lrh.key, id |-> x]
             r == [hit |-> TRUE, id |-> x]
  <2>1. urhRsp \in Seq(Session) /\ urhRsp # <<>> /\ rltIns \in Seq(Entry) /\ lrh.pc = "update"
    BY <1>4 DEF LrhInserted, TypeOK, StreamOf
  <2>2. x \in Session /\ x = urhRsp[1] /\ 1 \in 1 .. Len(urhRsp)
    BY <2>1, Taking
  <2>3. lrh.src \in Source /\ lrh.key \in Tuple /\ e \in Entry /\ r \in Reply
    BY <2>1, <2>2, LrhFields DEF Entry, Reply
  <2>4. x \notin Ids(rltIns)
    <3>1. x \in Where["urhRsp"]
      BY <2>2, WhereIs DEF Elements
    <3> QED BY <3>1, WhereIs DEF InOnePlace, Partition, Place
  <2>5. /\ owner' = [owner EXCEPT ![x] = lrh.key] /\ rltIns' = Append(rltIns, e)
        /\ lkpRep' = [lkpRep EXCEPT ![lrh.src] = Append(@, r)] /\ lrh'.pc = "req"
        /\ UNCHANGED <<rltKey, cam, known, txeReq>>
    BY <1>4 DEF LrhInserted, Give
  <2>6. owner'[x] = lrh.key /\ \A s \in Session : s # x => owner'[s] = owner[s]
    BY <2>2, <2>5 DEF TypeOK
  <2>7. \A s \in Session : Owned(s) => owner'[s] \in Tuple
    BY <2>3, <2>6 DEF Owned
  <2>8. owner'[x] \in Tuple
    BY <2>3, <2>6
  <2>9. Ids(rltIns') = Ids(rltIns) \cup {x}
    BY <2>1, <2>3, <2>5, AppendingId
  <2>10. \A s \in Session : s \notin Ids(rltIns') => rltKey'[s] = owner'[s]
    BY <2>5, <2>6, <2>9 DEF Owners
  <2>11. \A i \in 1 .. Len(rltIns') : owner'[rltIns'[i].id] = rltIns'[i].key
    <3>1. \A i \in 1 .. Len(rltIns) : rltIns[i].id \in Session /\ rltIns[i].id # x
      <4>1. \A i \in 1 .. Len(rltIns) : rltIns[i] \in Entry
        BY <2>1
      <4> QED BY <2>4, <4>1 DEF Ids, Entry
    <3>2. e.id = x /\ e.key = lrh.key
      OBVIOUS
    <3> HIDE DEF e, x
    <3> QED BY <2>1, <2>3, <2>5, <2>6, <3>1, <3>2, AppendedAt DEF Owners
  <2>12. \A f \in cam' : owner'[f.id] \in Tuple
    <3> SUFFICES ASSUME NEW f \in cam PROVE owner'[f.id] \in Tuple
      BY <2>5
    <3>1. CASE f.key = lrh.key
      <4>1. e \in cam /\ e.key = lrh.key /\ e.id = x
        BY <2>2 DEF Claims
      <4> QED BY <2>8, <3>1, <4>1 DEF CamOf
    <3>2. CASE f.key # lrh.key
      <4>1. f.id \in Session
        BY DEF TypeOK, Entry
      <4> QED BY <2>7, <3>2, <4>1 DEF Owners
    <3> QED BY <3>1, <3>2
  <2>13. \A c \in Source : \A i \in 1 .. Len(lkpRep'[c]) : lkpRep'[c][i].hit => owner'[lkpRep'[c][i].id] \in Tuple
    <3> SUFFICES ASSUME NEW c \in Source, NEW i \in 1 .. Len(lkpRep'[c]), lkpRep'[c][i].hit
                 PROVE  owner'[lkpRep'[c][i].id] \in Tuple
      OBVIOUS
    <3>1. lkpRep[c] \in Seq(Reply)
      BY DEF TypeOK, StreamOf
    <3>2. \A j \in 1 .. Len(lkpRep[c]) : lkpRep[c][j].hit => owner'[lkpRep[c][j].id] \in Tuple
      <4>1. \A j \in 1 .. Len(lkpRep[c]) : lkpRep[c][j] \in Reply
        BY <3>1
      <4>2. \A j \in 1 .. Len(lkpRep[c]) : lkpRep[c][j].id \in Session
        BY <4>1 DEF Reply
      <4> QED BY <2>7, <4>2 DEF Owners
    <3>3. CASE c = lrh.src
      <4>1. lkpRep'[c] = Append(lkpRep[c], r) /\ r.id = x
        BY <2>5, <3>3 DEF TypeOK
      <4> HIDE DEF r, x
      <4> QED BY <2>3, <2>8, <3>1, <3>2, <4>1, AppendedAt
    <3>4. CASE c # lrh.src
      BY <2>5, <3>2, <3>4 DEF TypeOK
    <3> QED BY <3>3, <3>4
  <2>14. \A id \in known' : owner'[id] \in Tuple
    BY <2>5, <2>7 DEF Owners, TypeOK
  <2>15. \A i \in 1 .. Len(txeReq') : owner'[txeReq'[i]] \in Tuple
    BY <2>5, <2>7, SMTT(60) DEF Owners, TypeOK, StreamOf
  <2> QED BY <2>5, <2>10, <2>11, <2>12, <2>13, <2>14, <2>15 DEF Owners, Owned
<1>5. CASE CamLookup
  <2> DEFINE hits == {e \in cam : e.key = lrh.key}
  <2>1. lrh'.pc = "found" /\ lrh'.hit = (hits # {}) /\ (hits # {} => lrh'.id = (CHOOSE e \in hits : TRUE).id)
    BY <1>5 DEF CamLookup
  <2>2. hits # {} => (CHOOSE e \in hits : TRUE) \in cam
    OBVIOUS
  <2>3. \A e \in cam : Owned(e.id)
    BY <1>5 DEF CamLookup, Owners
  <2>4. lrh'.hit => Owned(lrh'.id)
    BY <2>1, <2>2, <2>3
  <2> HIDE DEF hits
  <2> QED BY <1>5, <2>1, <2>3, <2>4 DEF CamLookup, Owners, Owned, Ids
<1> QED BY <1>1, <1>2, <1>3, <1>4, <1>5 DEF Lrh, Source

\* Steps that change neither the owners nor what knows of them.
LEMMA SameOwners ==
    ASSUME Owners, UNCHANGED <<rltIns, rltKey, owner, cam, lrh, lkpRep, known, txeReq>> PROVE Owners'
BY DEF Owners, Owned, Ids

\* The CAM and Rlt keep what is said of the owners.
LEMMA CamRltOwners == SlcInv /\ (CamUpdate \/ Rlt) => Owners'
<1> SUFFICES ASSUME SlcInv, CamUpdate \/ Rlt PROVE Owners'
  OBVIOUS
<1> USE DEF SlcInv, simVars, lrhVars, camVars, rltVars, envVars, hisVars
<1>1. CASE CamUpdate
  <2> DEFINE u == Head(camUpd)
  <2>1. /\ camUpd \in Seq(Update) /\ camUpd # <<>> /\ u \in Update
        /\ u.op = "INSERT" => cam' = cam \cup {EntryOf(u)}
        /\ u.op = "DELETE" => cam' = cam \ {EntryOf(u)}
    BY <1>1, CamUpdated
  <2>2. UNCHANGED <<rltIns, rltKey, owner, lrh, lkpRep, known, txeReq>>
    BY <1>1 DEF CamUpdate
  <2>3. \A e \in cam' : Owned(e.id) \/ (lrh.pc = "update" /\ e.key = lrh.key)
    <3>1. CASE u.op = "INSERT"
      <4>1. lrh.pc = "update" /\ EntryOf(u).key = lrh.key
        BY <2>1, <3>1, InsertsTaken DEF OneInsertion, Pending, EntryOf
      <4> QED BY <2>1, <3>1, <4>1 DEF Owners
    <3>2. CASE u.op = "DELETE"
      BY <2>1, <3>2 DEF Owners
    <3> QED BY <2>1, <3>1, <3>2 DEF Update
  <2> QED BY <2>2, <2>3 DEF Owners, Owned, Ids
<1>2. CASE RltInitialised
  BY <1>2, SameOwners DEF RltInitialised
<1>3. CASE RltInsert
  <2> DEFINE e == Head(rltIns)
  <2>1. rltIns \in Seq(Entry) /\ rltIns # <<>> /\ rltIns' = Tail(rltIns)
    BY <1>3 DEF RltInsert, TypeOK, StreamOf
  <2>2. e \in Entry /\ e = rltIns[1] /\ 1 \in 1 .. Len(rltIns)
    BY <2>1, Taking
  <2>3. e.id \in Session /\ owner[e.id] = e.key
    BY <2>2 DEF Owners, Entry
  <2>4. Ids(rltIns) = Ids(rltIns') \cup {e.id}
    BY <2>1, TakingId
  <2>5. rltKey' = [rltKey EXCEPT ![e.id] = e.key] /\ UNCHANGED <<owner, cam, lrh, lkpRep, known, txeReq>>
    BY <1>3 DEF RltInsert
  <2>6. \A s \in Session : s \notin Ids(rltIns') => rltKey'[s] = owner[s]
    BY <2>3, <2>4, <2>5 DEF Owners, TypeOK
  <2>7. \A i \in 1 .. Len(rltIns') : owner[rltIns'[i].id] = rltIns'[i].key
    BY <2>1, TakenAt DEF Owners
  <2> QED BY <2>5, <2>6, <2>7 DEF Owners, Owned
<1>4. CASE RltRelease
  BY <1>4, SameOwners DEF RltRelease
<1>5. CASE RltReverse
  <2>1. txeReq \in Seq(Session) /\ txeReq # <<>> /\ txeReq' = Tail(txeReq)
    BY <1>5 DEF RltReverse, TypeOK, StreamOf
  <2>2. \A i \in 1 .. Len(txeReq') : Owned(txeReq'[i])
    BY <2>1, TakenAt DEF Owners
  <2>3. UNCHANGED <<rltIns, rltKey, owner, cam, lrh, lkpRep, known>>
    BY <1>5 DEF RltReverse
  <2> QED BY <2>2, <2>3 DEF Owners, Owned, Ids
<1> QED BY <1>1, <1>2, <1>3, <1>4, <1>5 DEF Rlt

\* What the users learn, and ask, is an id that has an owner.
LEMMA UsersOwners == SlcInv /\ (Users \/ \E id \in Session : TXeReverse(id)) => Owners'
<1> SUFFICES ASSUME SlcInv, Users \/ \E id \in Session : TXeReverse(id) PROVE Owners'
  OBVIOUS
<1> USE DEF SlcInv, simVars, lrhVars, camVars, rltVars, envVars, hisVars
<1>1. ASSUME NEW c \in Source, TakeReply(c) PROVE Owners'
  <2> DEFINE r == Head(lkpRep[c])
  <2>1. lkpRep[c] \in Seq(Reply) /\ lkpRep[c] # <<>> /\ lkpRep' = [lkpRep EXCEPT ![c] = Tail(@)]
    BY <1>1 DEF TakeReply, TypeOK, StreamOf
  <2>2. r.hit => Owned(r.id)
    BY <2>1, Taking DEF Owners
  <2>3. \A id \in known' : Owned(id)
    BY <1>1, <2>2 DEF TakeReply, Owners
  <2>4. \A b \in Source : \A i \in 1 .. Len(lkpRep'[b]) : lkpRep'[b][i].hit => Owned(lkpRep'[b][i].id)
    <3> SUFFICES ASSUME NEW b \in Source, NEW i \in 1 .. Len(lkpRep'[b]), lkpRep'[b][i].hit
                 PROVE  Owned(lkpRep'[b][i].id)
      OBVIOUS
    <3>1. CASE b = c
      <4>1. lkpRep'[b] = Tail(lkpRep[c])
        BY <2>1, <3>1 DEF TypeOK
      <4>2. i + 1 \in 1 .. Len(lkpRep[c]) /\ lkpRep'[b][i] = lkpRep[c][i + 1]
        BY <2>1, <4>1, TakenAt
      <4> QED BY <4>2 DEF Owners
    <3>2. CASE b # c
      BY <2>1, <3>2 DEF TypeOK, Owners
    <3> QED BY <3>1, <3>2
  <2>5. UNCHANGED <<rltIns, rltKey, owner, cam, lrh, txeReq>>
    BY <1>1 DEF TakeReply
  <2> QED BY <2>3, <2>4, <2>5 DEF Owners, Owned, Ids
<1>2. CASE TXeTake \/ PRtTake
  <2>1. UNCHANGED <<rltIns, rltKey, owner, cam, lrh, lkpRep, known, txeReq>>
    BY <1>2 DEF TXeTake, PRtTake
  <2> QED BY <2>1, SameOwners
<1>3. ASSUME NEW id \in Session, TXeReverse(id) PROVE Owners'
  <2>1. txeReq \in Seq(Session) /\ txeReq' = Append(txeReq, id) /\ Owned(id)
    BY <1>3 DEF TXeReverse, TypeOK, StreamOf, Owners
  <2>2. \A i \in 1 .. Len(txeReq') : Owned(txeReq'[i])
    BY <2>1, AppendedAt DEF Owners
  <2>3. UNCHANGED <<rltIns, rltKey, owner, cam, lrh, lkpRep, known>>
    BY <1>3 DEF TXeReverse
  <2> QED BY <2>2, <2>3 DEF Owners, Owned, Ids
<1> QED BY <1>1, <1>2, <1>3 DEF Users, Source

\* Every step keeps what is said of the owners.
LEMMA NextOwners == SlcInv /\ [Next]_vars => Owners'
<1> SUFFICES ASSUME SlcInv, [Next]_vars PROVE Owners'
  OBVIOUS
<1>1. Owners
  BY DEF SlcInv
<1> DEFINE Same == UNCHANGED <<rltIns, rltKey, owner, cam, lrh, lkpRep, known, txeReq>>
<1>2. Sim \/ Urs \/ UrhForward \/ UNCHANGED vars => Same
  BY DEF Sim, SimFill, SimRecycle, Urs, UrsInsert, UrsDelete, UrhForward, vars, simVars, lrhVars, camVars,
         rltVars, envVars, hisVars
<1>3. (\E c \in Source, q \in Query : AskLookup(c, q)) \/ (\E id \in Session : STtRelease(id)) => Same
  BY DEF AskLookup, STtRelease, simVars, lrhVars, camVars, rltVars, envVars
<1> QED BY <1>1, <1>2, <1>3, SameOwners, LrhOwners, CamRltOwners, UsersOwners DEF Next, Cam

(***************************************************************************)
(* The inductive invariant and what follows from it.                       *)
(***************************************************************************)
LEMMA InitInv == Init => SlcInv
<1> SUFFICES ASSUME Init PROVE SlcInv
  OBVIOUS
<1>1. TypeOK
  BY InitType
<1>2. \A str : Len(str) = 0 => 1 .. Len(str) = {}
  OBVIOUS
<1>3. Len(<<>>) = 0
  OBVIOUS
<1>4. \A op : /\ Elements(<<>>) = {} /\ Ids(<<>>) = {} /\ IdsWith(op, <<>>) = {} /\ Inserts(<<>>) = {}
              /\ Once(<<>>) /\ OnceById(<<>>)
  BY <1>2, <1>3 DEF Elements, Ids, IdsWith, Inserts, Once, OnceById
<1>5. /\ Where["Sim"] = Session
      /\ \A p \in Place \ {"Sim"} : Where[p] = {}
  BY <1>4, WhereIs DEF Init, Session, Place
<1>6. InOnePlace
  BY <1>4, <1>5 DEF Init, InOnePlace, Partition, Place
<1>7. OneInsertion
  BY <1>2, <1>3, <1>4 DEF Init, OneInsertion, Pending
<1>8. Claims
  BY <1>2, <1>3, <1>4 DEF Init, Claims
<1>9. CamOf
  BY <1>2, <1>3, <1>4 DEF Init, CamOf, Deleted
<1>10. Missed
  BY <1>2, <1>3, <1>4 DEF Init, Missed
<1>11. Owners
  BY <1>2, <1>3 DEF Init, Owners
<1> QED BY <1>1, <1>6, <1>7, <1>8, <1>9, <1>10, <1>11 DEF SlcInv

\* The invariant is inductive.
LEMMA NextInv == SlcInv /\ [Next]_vars => SlcInv'
BY NextType, NextPlace, NextStation, NextClaims, NextCam, NextMissed, NextOwners DEF SlcInv

\* The inductive invariant holds in every state.
THEOREM InvHolds == Spec => []SlcInv
<1>1. Init => SlcInv
  BY InitInv
<1>2. SlcInv /\ [Next]_vars => SlcInv'
  BY NextInv
<1> QED BY <1>1, <1>2, PTL DEF Spec

\* The slots of each place that have an id.
Index(id) == [p \in Place |->
    CASE p = "Sim"      -> {id} \cap simCounter .. MaxSessions - 1
      [] p = "freeList" -> {i \in 1 .. Len(freeList) : freeList[i] = id}
      [] p = "insReq"   -> {i \in 1 .. Len(insReq) : insReq[i].id = id}
      [] p = "camUpd"   -> {i \in Inserts(camUpd) : camUpd[i].id = id}
      [] p = "camRep"   -> {i \in Inserts(camRep) : camRep[i].id = id}
      [] p = "urhRsp"   -> {i \in 1 .. Len(urhRsp) : urhRsp[i] = id}
      [] p = "rltIns"   -> {i \in 1 .. Len(rltIns) : rltIns[i].id = id}
      [] p = "rlt"      -> {i \in {id} : rltValid[i]}
      [] p = "delReq"   -> {i \in 1 .. Len(delReq) : delReq[i].id = id}
      [] p = "ursSim"   -> {i \in 1 .. Len(ursSim) : ursSim[i] = id}]

\* The slots of an id, place by place.
LEMMA IndexIs ==
    ASSUME NEW id
    PROVE  /\ Index(id)["Sim"] = {id} \cap simCounter .. MaxSessions - 1
           /\ Index(id)["freeList"] = {i \in 1 .. Len(freeList) : freeList[i] = id}
           /\ Index(id)["insReq"] = {i \in 1 .. Len(insReq) : insReq[i].id = id}
           /\ Index(id)["camUpd"] = {i \in Inserts(camUpd) : camUpd[i].id = id}
           /\ Index(id)["camRep"] = {i \in Inserts(camRep) : camRep[i].id = id}
           /\ Index(id)["urhRsp"] = {i \in 1 .. Len(urhRsp) : urhRsp[i] = id}
           /\ Index(id)["rltIns"] = {i \in 1 .. Len(rltIns) : rltIns[i].id = id}
           /\ Index(id)["rlt"] = {i \in {id} : rltValid[i]}
           /\ Index(id)["delReq"] = {i \in 1 .. Len(delReq) : delReq[i].id = id}
           /\ Index(id)["ursSim"] = {i \in 1 .. Len(ursSim) : ursSim[i] = id}
BY DEF Index, Place

\* The slots of an id are those of all its places.
LEMMA SlotsIs == ASSUME NEW id PROVE Slots(id) = UNION {{p} \X Index(id)[p] : p \in Place}
<1>1. /\ {i \in {j \in 1 .. Len(camUpd) : camUpd[j].id = id} : camUpd[i].op = "INSERT"} = Index(id)["camUpd"]
      /\ {i \in {j \in 1 .. Len(camRep) : camRep[j].id = id} : camRep[i].op = "INSERT"} = Index(id)["camRep"]
  BY IndexIs DEF Inserts
<1> DEFINE Part(p) == {p} \X Index(id)[p]
<1>2. Slots(id) = UNION {Part("Sim"), Part("freeList"), Part("insReq"), Part("camUpd"), Part("camRep"),
                         Part("urhRsp"), Part("rltIns"), Part("rlt"), Part("delReq"), Part("ursSim")}
  <2> HIDE DEF Index
  <2> QED BY <1>1, IndexIs, ZenonT(60) DEF Slots
<1> HIDE DEF Part
<1>3. {Part("Sim"), Part("freeList"), Part("insReq"), Part("camUpd"), Part("camRep"), Part("urhRsp"),
       Part("rltIns"), Part("rlt"), Part("delReq"), Part("ursSim")} = {Part(p) : p \in Place}
  BY DEF Place
<1>4. Slots(id) = UNION {Part(p) : p \in Place}
  BY <1>2, <1>3
<1> QED BY <1>4 DEF Part

\* An id has one slot in the place it is in, and none in the others.
LEMMA OneIndex ==
    ASSUME TypeOK, OneInsertion, InOnePlace, NEW id \in Session, NEW p \in Place
    PROVE  /\ Index(id)[p] # {} <=> id \in Where[p]
           /\ id \in Where[p] => \E i : Index(id)[p] = {i}
<1>1. \A i, j \in Inserts(camUpd) : i = j
  <2>1. Inserts(camUpd) = {} \/ OneInsert(camUpd, lrh.key)
    BY DEF OneInsertion, Pending
  <2> QED BY <2>1 DEF OneInsert
<1>2. \A i, j \in Inserts(camRep) : i = j
  <2>1. Inserts(camRep) = {} \/ OneInsert(camRep, lrh.key)
    BY DEF OneInsertion, Pending
  <2> QED BY <2>1 DEF OneInsert
<1>0. \A n \in {0, 1} : \A i, j \in 1 .. n : i = j
  OBVIOUS
<1>3. \A i, j \in 1 .. Len(insReq) : i = j
  <2>1. Len(insReq) \in {0, 1}
    BY DEF OneInsertion, Pending
  <2> QED BY <1>0, <2>1
<1>4. \A i, j \in 1 .. Len(urhRsp) : i = j
  <2>1. Len(urhRsp) \in {0, 1}
    BY DEF OneInsertion, Pending
  <2> QED BY <1>0, <2>1
<1>5. \A i, j \in Index(id)[p] : i = j
  <2>1. CASE p \in {"Sim", "rlt"}
    BY <2>1, IndexIs
  <2>2. CASE p \in {"insReq", "urhRsp"}
    BY <1>3, <1>4, <2>2, IndexIs
  <2>3. CASE p \in {"camUpd", "camRep"}
    BY <1>1, <1>2, <2>3, IndexIs
  <2>4. CASE p \in {"freeList", "ursSim"}
    BY <2>4, IndexIs DEF InOnePlace, Once
  <2>5. CASE p \in {"rltIns", "delReq"}
    BY <2>5, IndexIs DEF InOnePlace, OnceById
  <2> QED BY <2>1, <2>2, <2>3, <2>4, <2>5 DEF Place
<1>6. Index(id)[p] # {} <=> id \in Where[p]
  <2>1. /\ Index(id)["Sim"] # {} <=> id \in Where["Sim"]
        /\ Index(id)["rlt"] # {} <=> id \in Where["rlt"]
    BY IndexIs, WhereIs, SMTT(60)
  <2>2. Index(id)["insReq"] # {} <=> id \in Where["insReq"]
    <3>1. Index(id)["insReq"] # {} <=> id \in Ids(insReq)
      BY IndexIs DEF Ids
    <3> QED BY <3>1, WhereIs
  <2>3. Index(id)["rltIns"] # {} <=> id \in Where["rltIns"]
    <3>1. Index(id)["rltIns"] # {} <=> id \in Ids(rltIns)
      BY IndexIs DEF Ids
    <3> QED BY <3>1, WhereIs
  <2>4. Index(id)["delReq"] # {} <=> id \in Where["delReq"]
    <3>1. Index(id)["delReq"] # {} <=> id \in Ids(delReq)
      BY IndexIs DEF Ids
    <3> QED BY <3>1, WhereIs
  <2>5. Index(id)["camUpd"] # {} <=> id \in Where["camUpd"]
    <3>1. Index(id)["camUpd"] # {} <=> id \in IdsWith("INSERT", camUpd)
      BY IndexIs DEF IdsWith, Inserts
    <3> QED BY <3>1, WhereIs
  <2>6. Index(id)["camRep"] # {} <=> id \in Where["camRep"]
    <3>1. Index(id)["camRep"] # {} <=> id \in IdsWith("INSERT", camRep)
      BY IndexIs DEF IdsWith, Inserts
    <3> QED BY <3>1, WhereIs
  <2>7. Index(id)["freeList"] # {} <=> id \in Where["freeList"]
    <3>1. Index(id)["freeList"] # {} <=> id \in Elements(freeList)
      BY IndexIs DEF Elements
    <3> QED BY <3>1, WhereIs
  <2>8. Index(id)["urhRsp"] # {} <=> id \in Where["urhRsp"]
    <3>1. Index(id)["urhRsp"] # {} <=> id \in Elements(urhRsp)
      BY IndexIs DEF Elements
    <3> QED BY <3>1, WhereIs
  <2>9. Index(id)["ursSim"] # {} <=> id \in Where["ursSim"]
    <3>1. Index(id)["ursSim"] # {} <=> id \in Elements(ursSim)
      BY IndexIs DEF Elements
    <3> QED BY <3>1, WhereIs
  <2> QED BY <2>1, <2>2, <2>3, <2>4, <2>5, <2>6, <2>7, <2>8, <2>9 DEF Place
<1> QED BY <1>5, <1>6

\* The invariant puts every id into exactly one slot.
LEMMA InvConserves == SlcInv => IdsConserved
<1> SUFFICES ASSUME SlcInv, NEW id \in Session PROVE Cardinality(Slots(id)) = 1
  BY DEF IdsConserved
<1>1. PICK p \in Place : id \in Where[p]
  BY DEF SlcInv, InOnePlace, Partition
<1>2. \A q \in Place \ {p} : id \notin Where[q]
  BY <1>1 DEF SlcInv, InOnePlace, Partition
<1>3. PICK i : Index(id)[p] = {i}
  BY <1>1, OneIndex DEF SlcInv
<1>4. \A q \in Place \ {p} : Index(id)[q] = {}
  BY <1>2, OneIndex DEF SlcInv
<1>5. Slots(id) = {<<p, i>>}
  BY <1>3, <1>4, SlotsIs
<1> QED BY <1>5, FS_Singleton

(***************************************************************************)
(* No session id is lost or duplicated, for every number of sessions.      *)
(***************************************************************************)
THEOREM IdsConservedHolds == Spec => []IdsConserved
<1>1. SlcInv => IdsConserved
  BY InvConserves
<1> QED BY <1>1, InvHolds, PTL

(***************************************************************************)
(* The CAM and the reverse table agree, and insertions take effect.        *)
(***************************************************************************)
THEOREM CamConsistentHolds == Spec => []CamConsistent
<1>1. SlcInv => CamConsistent
  <2> SUFFICES ASSUME SlcInv PROVE CamConsistent
    OBVIOUS
  <2>1. InsertionTakesEffect
    BY InsertionEffective DEF SlcInv, InsertionTakesEffect
  <2>2. ReverseMirrorsCam
    BY DEF SlcInv, Claims, ReverseMirrorsCam
  <2> QED BY <2>1, <2>2 DEF CamConsistent, SlcInv
<1> QED BY <1>1, InvHolds, PTL

(***************************************************************************)
(* TXe gets the socket pair of the present owner of the id it asks for.    *)
(***************************************************************************)
LEMMA ReverseStep ==
    ASSUME SlcInv, [Next]_vars, txeReq # <<>>, txeReq' = Tail(txeReq)
    PROVE  txeRep' = Append(txeRep, owner[Head(txeReq)])
<1>1. txeReq \in Seq(Session) /\ Head(txeReq) \in Session
  BY Taking DEF SlcInv, TypeOK, StreamOf
<1>2. Len(txeReq') = Len(txeReq) - 1 /\ Len(txeReq) \in Nat
  BY <1>1, Taking
<1>3. txeReq' # txeReq
  <2> SUFFICES ASSUME txeReq' = txeReq PROVE FALSE
    OBVIOUS
  <2>1. Len(txeReq) = Len(txeReq) - 1
    BY <1>2
  <2> QED BY <1>2, <2>1
<1>4. ~(\E id \in Session : TXeReverse(id))
  <2> SUFFICES ASSUME NEW id \in Session, TXeReverse(id) PROVE FALSE
    OBVIOUS
  <2>1. Len(txeReq') = Len(txeReq) + 1
    BY <1>1 DEF TXeReverse
  <2> QED BY <1>2, <2>1
<1>5. Sim \/ Lrh \/ Urs \/ Cam \/ UrhForward \/ Users \/ UNCHANGED vars \/ (\E id \in Session : STtRelease(id))
      \/ (\E c \in Source, q \in Query : AskLookup(c, q)) \/ RltInitialised \/ RltInsert \/ RltRelease
      => txeReq' = txeReq
  BY DEF Sim, SimFill, SimRecycle, Lrh, LrhTake, LrhInsert, LrhAnswer, LrhInserted, Urs, UrsInsert, UrsDelete, Cam,
         CamLookup, CamUpdate, UrhForward, Users, TakeReply, TXeTake, PRtTake, STtRelease, AskLookup, RltInitialised,
         RltInsert, RltRelease, vars, simVars, lrhVars, camVars, rltVars, envVars, hisVars
<1>6. RltReverse
  BY <1>3, <1>4, <1>5 DEF Next, Rlt
<1>7. Ids(rltIns) = {}
  BY <1>6 DEF RltReverse, InsertFirst, Ids
<1>8. rltKey[Head(txeReq)] = owner[Head(txeReq)]
  BY <1>1, <1>7 DEF SlcInv, Owners
<1> QED BY <1>6, <1>8 DEF RltReverse

\* The action property of the run: the reply of Rlt is the present owner.
THEOREM ReverseIsCurrentHolds == Spec => ReverseIsCurrent
<1>1. SlcInv /\ [Next]_vars
      => [txeReq # <<>> /\ txeReq' = Tail(txeReq) => txeRep' = Append(txeRep, owner[Head(txeReq)])]_vars
  BY ReverseStep
<1> QED BY <1>1, InvHolds, PTL DEF Spec, ReverseIsCurrent

=============================================================================
