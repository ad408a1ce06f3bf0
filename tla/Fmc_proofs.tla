----------------------------- MODULE Fmc_proofs -----------------------------
(***************************************************************************)
(* A configuration is fed to the fabric only while the role is decoupled.  *)
(* Whether it does is settled by programs whose instructions are executed  *)
(* or skipped by the last return value; each program is gone through part  *)
(* by part, with what is known of the variables in between.                *)
(***************************************************************************)
EXTENDS Fmc, WellFoundedInduction, TLAPS

----------------------------------------------------------------------------
(***************************************************************************)
(* Induction along an interval, in first-order form (the induction         *)
(* hypothesis is a set).                                                   *)
(***************************************************************************)

\* A non-empty set of natural numbers has a least element.
LEMMA LeastNat ==
    ASSUME NEW T, T \subseteq Nat, T # {}
    PROVE  \E x \in T : \A y \in T : x <= y
<1> DEFINE Below == {ss \in Nat \X Nat : ss[1] < ss[2]}
<1>1. IsWellFoundedOn(Below, Nat)
  BY NatLessThanWellFounded, Zenon DEF OpToRel
<1>2. PICK x \in T : \A y \in T : ~(<<y, x>> \in Below)
  BY <1>1, WFMin
<1>3. ASSUME NEW y \in T
      PROVE  x <= y
  <2>1. <<y, x>> \in Nat \X Nat
    OBVIOUS
  <2>2. ~(y < x)
    BY <1>2, <2>1
  <2> QED
    BY <2>2
<1> QED
  BY <1>3

\* Induction from 0 to N.
LEMMA IntervalInduction ==
    ASSUME NEW N \in Nat, NEW S, 0 \in S,
           \A n \in 0 .. N - 1 : n \in S => n + 1 \in S
    PROVE  \A n \in 0 .. N : n \in S
<1> DEFINE T == {n \in 0 .. N : n \notin S}
<1> SUFFICES ASSUME T # {}
             PROVE  FALSE
  OBVIOUS
<1>1. PICK x \in T : \A y \in T : x <= y
  <2>1. T \subseteq Nat
    OBVIOUS
  <2> HIDE DEF T
  <2> QED
    BY <2>1, LeastNat
<1>2. x # 0 /\ x \in 1 .. N
  BY <1>1
<1>3. x - 1 \in 0 .. N - 1 /\ x - 1 \notin T
  BY <1>1, <1>2
<1>4. x - 1 \in S
  BY <1>2, <1>3
<1>5. (x - 1) + 1 \in S
  BY <1>3, <1>4
<1> QED
  BY <1>2, <1>5

----------------------------------------------------------------------------

(***************************************************************************)
(* The static variables that matter.                                       *)
(***************************************************************************)
Fields == {"op", "prog", "done", "error", "http", "req", "rv", "silent", "exit", "icap", "decoup", "wasAbort"}

Shape(f) ==
    /\ Fields \subseteq DOMAIN f
    /\ f.done \in BOOLEAN /\ f.silent \in BOOLEAN /\ f.exit \in BOOLEAN /\ f.decoup \in BOOLEAN
    /\ f.rv \in RVs /\ f.req \in DOMAIN ReqCode

\* What most instructions leave alone.
Frame(f, g) ==
    /\ Shape(g)
    /\ g.op = f.op /\ g.done = f.done /\ g.icap = f.icap /\ g.decoup = f.decoup
    /\ g.silent = f.silent /\ g.exit = f.exit

Quiet(f, g) == Frame(f, g) /\ g.req = f.req /\ g.http = f.http

LEMMA WaitForTcpSessQuiet ==
    ASSUME NEW f, Shape(f)
    PROVE  Quiet(f, WaitForTcpSess(f)) /\ WaitForTcpSess(f).rv \in {"OK", "NOT_COMPLETE"}
BY DEF WaitForTcpSess, Quiet, Frame, Shape, Fields, RVs

LEMMA FillBufferTcpQuiet ==
    ASSUME NEW f, Shape(f)
    PROVE  Quiet(f, FillBufferTcp(f)) /\ FillBufferTcp(f).rv \in {"OK", "NOT_COMPLETE", "DONE"}
BY DEF FillBufferTcp, Quiet, Frame, Shape, Fields, RVs

LEMMA BufferToRoutingQuiet ==
    ASSUME NEW f, Shape(f)
    PROVE  Quiet(f, BufferToRouting(f)) /\ BufferToRouting(f).rv \in {"DONE", "NOT_COMPLETE"}
BY DEF BufferToRouting, Quiet, Frame, Shape, Fields, RVs

LEMMA ClearRoutingTableQuiet ==
    ASSUME NEW f, Shape(f)
    PROVE  Quiet(f, ClearRoutingTable(f)) /\ ClearRoutingTable(f).rv = f.rv
BY DEF ClearRoutingTable, Quiet, Frame, Shape, Fields

LEMMA SendQuiet ==
    ASSUME NEW f, Shape(f)
    PROVE  /\ Quiet(f, SendTcpSess(f)) /\ (f.rv = "DONE" => SendTcpSess(f).rv = "DONE")
           /\ Quiet(f, SendBufferTcp(f)) /\ (f.rv = "DONE" => SendBufferTcp(f).rv = "DONE")
BY DEF SendTcpSess, SendBufferTcp, Kept, Quiet, Frame, Shape, Fields, RVs

Updated(f, g) ==
    /\ Frame(f, g) /\ g.req = f.req /\ g.rv = "OK"
    /\ f.rv = "DONE" => g.http = "REQUEST_COMPLETE"
    /\ f.rv # "DONE" => g.http \in {f.http, "SEND_RESPONSE"}
    /\ f.rv # "DONE" /\ f.error = TRUE => g.http = "SEND_RESPONSE"

LEMMA UpdateHttpStateFrame ==
    ASSUME NEW f, Shape(f)
    PROVE  Updated(f, UpdateHttpState(f))
BY DEF UpdateHttpState, Updated, Frame, Shape, Fields, RVs

\* The header has been parsed: no instruction changes the request any more.
Parsed(f) == f.http \notin {"IDLE", "PARSE_HEADER"}

LEMMA ExtractPathFrame ==
    ASSUME NEW f, NEW rxDone, Shape(f)
    PROVE  LET g == ExtractPath(f, rxDone)
           IN  /\ Frame(f, g) /\ g.rv = f.rv
               /\ f.req # "POST_CONFIG" /\ g.http # "HEADER_PARSED" => g.req # "POST_CONFIG"
<1>1. DOMAIN ReqCode = {"REQ_INVALID", "POST_CONFIG", "GET_STATUS", "PUT_RANK", "PUT_SIZE", "POST_ROUTING"}
  BY DEF ReqCode
<1> DEFINE new == [f EXCEPT !.req = "REQ_INVALID"]
           bad == [WriteHttpStatus(new, 400) EXCEPT !.http = "INVALID_REQUEST"]
           fine(g) == /\ Frame(f, g) /\ g.rv = f.rv
                      /\ f.req # "POST_CONFIG" /\ g.http # "HEADER_PARSED" => g.req # "POST_CONFIG"
           path == Head(f.in)
           body == CHOOSE i \in Blanks(f, 1) : \A j \in Blanks(f, 1) : i <= j
<1>2. fine(f)
  BY DEF Frame
<1>3. /\ fine(bad)
      /\ \A r \in {"PUT_RANK", "PUT_SIZE"} : fine([bad EXCEPT !.req = r])
      /\ fine([WriteHttpStatus(new, 404) EXCEPT !.http = "INVALID_REQUEST"])
  BY <1>1 DEF WriteHttpStatus, Frame, Shape, Fields
<1>4. /\ fine([new EXCEPT !.http = "PARSE_HEADER"])
      /\ fine([new EXCEPT !.req = "GET_STATUS", !.http = "SEND_RESPONSE"])
      /\ \A v : fine([new EXCEPT !.req = "POST_CONFIG", !.http = "HEADER_PARSED", !.next = v])
      /\ \A v : fine([new EXCEPT !.req = "POST_ROUTING", !.http = "HEADER_PARSED", !.next = v])
      /\ \A v : fine([new EXCEPT !.req = "PUT_RANK", !.http = "SEND_RESPONSE", !.rank = v, !.needCfg = TRUE])
      /\ \A v : fine([new EXCEPT !.req = "PUT_SIZE", !.http = "SEND_RESPONSE", !.size = v])
  BY <1>1 DEF Frame, Shape, Fields
<1> HIDE DEF fine
<1>5. fine(ExtractPath(f, rxDone))
  <2>1. CASE f.in = <<>>
    BY <1>2, <2>1, ZenonT(60) DEF ExtractPath
  <2>2. CASE f.in # <<>> /\ Blanks(f, 1) = {}
    BY <1>3, <1>4, <2>2, ZenonT(60) DEF ExtractPath
  <2>3. CASE f.in # <<>> /\ Blanks(f, 1) # {}
    BY <1>3, <1>4, <2>3, ZenonT(60) DEF ExtractPath
  <2> QED
    BY <2>1, <2>2, <2>3
<1> QED
  BY <1>5 DEF fine

LEMMA ParseFrame ==
    ASSUME NEW f, NEW rxDone, Shape(f)
    PROVE  LET g == ParseHttpInput(f, rxDone)
           IN  /\ Frame(f, g) /\ g.rv = f.rv
               /\ f.req # "POST_CONFIG" /\ g.http # "HEADER_PARSED" => g.req # "POST_CONFIG"
               /\ Parsed(f) => g.req = f.req /\ Parsed(g)
               /\ f.http \in {"REQUEST_COMPLETE", "SEND_RESPONSE"} => g.http = "DONE"
<1> DEFINE g == ParseHttpInput(f, rxDone)
<1>1. CASE f.http \in {"IDLE", "PARSE_HEADER"}
  <2>1. g = ExtractPath(f, rxDone)
    BY <1>1 DEF ParseHttpInput
  <2> QED
    BY <1>1, <2>1, ExtractPathFrame DEF Parsed
<1>2. CASE f.http = "HEADER_PARSED"
  BY <1>2 DEF ParseHttpInput, Parsed, Frame, Shape, Fields
<1>3. CASE f.http \in {"REQUEST_COMPLETE", "SEND_RESPONSE"}
  BY <1>3 DEF ParseHttpInput, Parsed, Frame, Shape, Fields, WriteHttpStatus
<1>4. CASE f.http \notin {"IDLE", "PARSE_HEADER", "HEADER_PARSED", "REQUEST_COMPLETE", "SEND_RESPONSE"}
  BY <1>4 DEF ParseHttpInput, Parsed, Frame, Shape, Fields
<1> QED
  BY <1>1, <1>2, <1>3, <1>4

\* The results of HANDLE_HTTP and what they say of the state of the parser.
Handled(f, g) ==
    /\ Frame(f, g)
    /\ g.rv \in {"OK", "PARTIAL_COMPLETE", "USER", "DONE"}
    /\ g.rv = "PARTIAL_COMPLETE" => Parsed(g)
    /\ g.rv = "USER" => g.http = "SEND_RESPONSE"
    /\ f.req # "POST_CONFIG" /\ g.rv # "PARTIAL_COMPLETE" => g.req # "POST_CONFIG"
    /\ Parsed(f) => g.req = f.req /\ Parsed(g)
    /\ f.http \in {"REQUEST_COMPLETE", "SEND_RESPONSE"} => g.http = "DONE" /\ g.rv = "DONE"

LEMMA HandleHttpFrame ==
    ASSUME NEW f, Shape(f)
    PROVE  Handled(f, HandleHttp(f))
<1> DEFINE p == ParseHttpInput(f, f.rv = "DONE")
           g == HandleHttp(f)
<1>1. /\ Frame(f, p)
      /\ f.req # "POST_CONFIG" /\ p.http # "HEADER_PARSED" => p.req # "POST_CONFIG"
      /\ Parsed(f) => p.req = f.req /\ Parsed(p)
      /\ f.http \in {"REQUEST_COMPLETE", "SEND_RESPONSE"} => p.http = "DONE"
  BY ParseFrame
<1>2. PICK rv \in RVs : /\ g = [p EXCEPT !.rv = rv]
                        /\ rv \in {"OK", "PARTIAL_COMPLETE", "USER", "DONE"}
                        /\ p.http \in {"HEADER_PARSED", "READ_PAYLOAD"} <=> rv = "PARTIAL_COMPLETE"
                        /\ rv = "USER" => p.http = "SEND_RESPONSE"
                        /\ p.http = "DONE" => rv = "DONE"
  BY DEF HandleHttp, RVs
<1> HIDE DEF p, g
<1>3. Frame(f, g) /\ g.http = p.http /\ g.req = p.req /\ g.rv = rv
  BY <1>1, <1>2 DEF Frame, Shape, Fields
<1> QED
  BY <1>1, <1>2, <1>3 DEF Handled, Parsed, g

(***************************************************************************)
(* Instructions.  A pair holds the static variables and the HWICAP.        *)
(***************************************************************************)
Pair(t) == t = <<t[1], t[2]>> /\ Shape(t[1]) /\ "words" \in DOMAIN t[2]

QuietOps == {"CLEAR_OUT_BUFFER", "TCP_CNT_RESET", "WAIT_FOR_TCP_SESS", "ACTIVATE_CONT_TCP", "DEACTIVATE_CONT_TCP",
             "TCP_RX_STOP_ON_EOP", "FILL_BUFFER_TCP", "COPY_REQTYPE_TO_RETURN", "BUFFER_TO_ROUTING", "CLEAR_ROUTING_TABLE",
             "SEND_TCP_SESS", "SEND_BUFFER_TCP", "OK", "DONE", "FAIL"}
PlainOps == QuietOps \cup {"CLEAR_IN_BUFFER", "HANDLE_HTTP", "UPDATE_HTTP_STATE", "ACTIVATE_DECOUP", "DEACTIVATE_DECOUP",
                           "ENABLE_SILENT_SKIP", "DISABLE_SILENT_SKIP", "EXIT"}

\* An instruction is executed, or skipped, which is told unless it is done silently.
Runs(f, mask) == ~f.exit /\ f.rv \in mask
Skips(f, g, mask) ==
    /\ f.exit \/ f.silent => g = f
    /\ ~f.exit /\ f.rv \notin mask => Quiet(f, g) /\ g.rv = IF f.silent THEN f.rv ELSE "SKIPPED"

\* The words the HWICAP took are not touched by a program.
LEMMA PlainStep ==
    ASSUME NEW t, Pair(t), NEW op \in PlainOps, NEW mask
    PROVE  LET u == Step(t, I(op, mask))
           IN  /\ u = <<u[1], u[2]>> /\ u[2] = t[2]
               /\ Runs(t[1], mask) => u[1] = Operation(op, t[1])
               /\ ~Runs(t[1], mask) => Skips(t[1], u[1], mask) /\ Shape(u[1])
<1> DEFINE f == t[1]
           u == Step(t, I(op, mask))
<1>1. op \notin {"FIFO_TO_HWICAP", "ABORT_HWICAP"}
  BY DEF PlainOps, QuietOps
<1>2. CASE f.exit
  <2>1. u = t
    BY <1>2 DEF Step
  <2> QED
    BY <1>2, <2>1 DEF Pair, Runs, Skips, Shape
<1>3. CASE ~f.exit /\ f.rv \notin mask
  <2>1. u = <<IF f.silent THEN f ELSE [f EXCEPT !.rv = "SKIPPED"], t[2]>>
    BY <1>3 DEF Step, I
  <2>2. Quiet(f, u[1]) /\ u[1].rv = IF f.silent THEN f.rv ELSE "SKIPPED"
    BY <2>1 DEF Pair, Quiet, Frame, Shape, Fields, RVs
  <2> QED
    BY <1>3, <2>1, <2>2 DEF Runs, Skips, Quiet, Frame
<1>4. CASE ~f.exit /\ f.rv \in mask
  <2>1. u = <<Operation(op, f), t[2]>>
    BY <1>1, <1>4 DEF Step, I
  <2> QED
    BY <1>4, <2>1 DEF Runs
<1>5. f.exit \in BOOLEAN
  BY DEF Pair, Shape
<1> QED
  BY <1>2, <1>3, <1>4, <1>5

\* The result of a quiet instruction.
Yields(op, f, rv) ==
    /\ op \in {"TCP_CNT_RESET", "ACTIVATE_CONT_TCP", "DEACTIVATE_CONT_TCP", "TCP_RX_STOP_ON_EOP", "CLEAR_ROUTING_TABLE"} =>
         rv = f.rv
    /\ op \in {"SEND_TCP_SESS", "SEND_BUFFER_TCP"} /\ f.rv = "DONE" => rv = "DONE"
    /\ op \in {"OK", "DONE", "FAIL"} => rv = op
    /\ op = "COPY_REQTYPE_TO_RETURN" => rv = ReqCode[f.req]
    /\ op = "FILL_BUFFER_TCP" => rv \in {"OK", "NOT_COMPLETE", "DONE"}
    /\ op = "BUFFER_TO_ROUTING" => rv \in {"DONE", "NOT_COMPLETE"}
    /\ op = "WAIT_FOR_TCP_SESS" => rv \in {"OK", "NOT_COMPLETE"}

LEMMA QuietOperation ==
    ASSUME NEW f, Shape(f), NEW op \in QuietOps
    PROVE  Quiet(f, Operation(op, f)) /\ Yields(op, f, Operation(op, f).rv)
<1> DEFINE g == Operation(op, f)
<1>1. CASE op = "CLEAR_OUT_BUFFER"
  <2>1. g = [EmptyOutBuffer(f) EXCEPT !.rv = "OK"]
    BY <1>1 DEF Operation
  <2> QED
    BY <1>1, <2>1 DEF EmptyOutBuffer, Quiet, Frame, Shape, Fields, RVs, Yields
<1>2. CASE op = "TCP_CNT_RESET"
  <2>1. g = TcpCntReset(f)
    BY <1>2 DEF Operation
  <2> QED
    BY <1>2, <2>1 DEF TcpCntReset, Quiet, Frame, Shape, Fields, Yields
<1>3. CASE op = "WAIT_FOR_TCP_SESS"
  <2>1. g = WaitForTcpSess(f)
    BY <1>3 DEF Operation
  <2> QED
    BY <1>3, <2>1, WaitForTcpSessQuiet DEF Yields
<1>4. CASE op = "ACTIVATE_CONT_TCP"
  <2>1. g = ActivateContTcp(f)
    BY <1>4 DEF Operation
  <2> QED
    BY <1>4, <2>1 DEF ActivateContTcp, Quiet, Frame, Shape, Fields, Yields
<1>5. CASE op = "DEACTIVATE_CONT_TCP"
  <2>1. g = DeactivateContTcp(f)
    BY <1>5 DEF Operation
  <2> QED
    BY <1>5, <2>1 DEF DeactivateContTcp, Quiet, Frame, Shape, Fields, Yields
<1>6. CASE op = "TCP_RX_STOP_ON_EOP"
  <2>1. g = [f EXCEPT !.target = 2]
    BY <1>6 DEF Operation
  <2> QED
    BY <1>6, <2>1 DEF Quiet, Frame, Shape, Fields, Yields
<1>7. CASE op = "FILL_BUFFER_TCP"
  <2>1. g = FillBufferTcp(f)
    BY <1>7 DEF Operation
  <2> QED
    BY <1>7, <2>1, FillBufferTcpQuiet DEF Yields
<1>8. CASE op = "COPY_REQTYPE_TO_RETURN"
  <2>1. g = [f EXCEPT !.rv = ReqCode[f.req]]
    BY <1>8 DEF Operation
  <2>2. ReqCode[f.req] \in RVs
    BY DEF Shape, ReqCode, RVs
  <2> QED
    BY <1>8, <2>1, <2>2 DEF Quiet, Frame, Shape, Fields, Yields
<1>9. CASE op = "BUFFER_TO_ROUTING"
  <2>1. g = BufferToRouting(f)
    BY <1>9 DEF Operation
  <2> QED
    BY <1>9, <2>1, BufferToRoutingQuiet DEF Yields
<1>10. CASE op = "CLEAR_ROUTING_TABLE"
  <2>1. g = ClearRoutingTable(f)
    BY <1>10 DEF Operation
  <2> QED
    BY <1>10, <2>1, ClearRoutingTableQuiet DEF Yields
<1>11. CASE op = "SEND_TCP_SESS"
  <2>1. g = SendTcpSess(f)
    BY <1>11 DEF Operation
  <2> QED
    BY <1>11, <2>1, SendQuiet DEF Yields
<1>12. CASE op = "SEND_BUFFER_TCP"
  <2>1. g = SendBufferTcp(f)
    BY <1>12 DEF Operation
  <2> QED
    BY <1>12, <2>1, SendQuiet DEF Yields
<1>13. CASE op \in {"OK", "DONE", "FAIL"}
  <2>1. g = [f EXCEPT !.rv = op]
    BY <1>13 DEF Operation
  <2> QED
    BY <1>13, <2>1 DEF Quiet, Frame, Shape, Fields, RVs, Yields
<1> QED
  BY <1>1, <1>2, <1>3, <1>4, <1>5, <1>6, <1>7, <1>8, <1>9, <1>10, <1>11, <1>12, <1>13 DEF QuietOps

\* A step that was skipped.
Skipped(t, u) ==
    Quiet(t[1], u[1]) /\ u[1].rv = IF t[1].exit \/ t[1].silent THEN t[1].rv ELSE "SKIPPED"

\* Every step gives a pair again and leaves the words of the HWICAP alone.
Onward(t, u) == Pair(u) /\ u[2].words = t[2].words

LEMMA StepQuiet ==
    ASSUME NEW t, Pair(t), NEW op \in QuietOps, NEW mask
    PROVE  LET u == Step(t, I(op, mask))
           IN  /\ Onward(t, u) /\ Quiet(t[1], u[1])
               /\ Runs(t[1], mask) => Yields(op, t[1], u[1].rv)
               /\ ~Runs(t[1], mask) => Skipped(t, u)
<1> DEFINE u == Step(t, I(op, mask))
<1>1. /\ u = <<u[1], u[2]>> /\ u[2] = t[2]
      /\ Runs(t[1], mask) => u[1] = Operation(op, t[1])
      /\ ~Runs(t[1], mask) => Skips(t[1], u[1], mask) /\ Shape(u[1])
  BY PlainStep DEF PlainOps
<1>2. CASE Runs(t[1], mask)
  <2>1. Quiet(t[1], u[1]) /\ Yields(op, t[1], u[1].rv)
    BY <1>1, <1>2, QuietOperation DEF Pair
  <2> QED
    BY <1>1, <1>2, <2>1 DEF Onward, Pair, Quiet, Frame
<1>3. CASE ~Runs(t[1], mask)
  BY <1>1, <1>3 DEF Skips, Runs, Skipped, Onward, Pair, Quiet, Frame
<1> QED
  BY <1>2, <1>3

LEMMA StepUpdate ==
    ASSUME NEW t, Pair(t), NEW mask
    PROVE  LET u == Step(t, I("UPDATE_HTTP_STATE", mask))
           IN  /\ Onward(t, u)
               /\ Runs(t[1], mask) => Updated(t[1], u[1])
               /\ ~Runs(t[1], mask) => Skipped(t, u)
<1> DEFINE u == Step(t, I("UPDATE_HTTP_STATE", mask))
<1>1. /\ u = <<u[1], u[2]>> /\ u[2] = t[2]
      /\ Runs(t[1], mask) => u[1] = Operation("UPDATE_HTTP_STATE", t[1])
      /\ ~Runs(t[1], mask) => Skips(t[1], u[1], mask) /\ Shape(u[1])
  BY PlainStep DEF PlainOps
<1>2. CASE Runs(t[1], mask)
  <2>1. u[1] = UpdateHttpState(t[1])
    BY <1>1, <1>2 DEF Operation
  <2>2. Updated(t[1], u[1])
    BY <2>1, UpdateHttpStateFrame DEF Pair
  <2> QED
    BY <1>1, <1>2, <2>2 DEF Updated, Onward, Pair, Frame
<1>3. CASE ~Runs(t[1], mask)
  BY <1>1, <1>3 DEF Skips, Runs, Skipped, Onward, Pair, Quiet, Frame
<1> QED
  BY <1>2, <1>3

LEMMA StepHandle ==
    ASSUME NEW t, Pair(t), NEW mask
    PROVE  LET u == Step(t, I("HANDLE_HTTP", mask))
           IN  /\ Onward(t, u)
               /\ Runs(t[1], mask) => Handled(t[1], u[1])
               /\ ~Runs(t[1], mask) => Skipped(t, u)
<1> DEFINE u == Step(t, I("HANDLE_HTTP", mask))
<1>1. /\ u = <<u[1], u[2]>> /\ u[2] = t[2]
      /\ Runs(t[1], mask) => u[1] = Operation("HANDLE_HTTP", t[1])
      /\ ~Runs(t[1], mask) => Skips(t[1], u[1], mask) /\ Shape(u[1])
  BY PlainStep DEF PlainOps
<1>2. CASE Runs(t[1], mask)
  <2>1. u[1] = HandleHttp(t[1])
    BY <1>1, <1>2 DEF Operation
  <2>2. Handled(t[1], u[1])
    BY <2>1, HandleHttpFrame DEF Pair
  <2> QED
    BY <1>1, <1>2, <2>2 DEF Handled, Onward, Pair, Frame
<1>3. CASE ~Runs(t[1], mask)
  BY <1>1, <1>3 DEF Skips, Runs, Skipped, Onward, Pair, Quiet, Frame
<1> QED
  BY <1>2, <1>3

\* What the other instructions do to the static variables.
Flagged(op, f, g) ==
    /\ Shape(g) /\ g.op = f.op /\ g.done = f.done /\ g.req = f.req /\ g.http = f.http
    /\ g.rv = IF op \in {"CLEAR_IN_BUFFER", "ACTIVATE_DECOUP"} \/ (op = "DEACTIVATE_DECOUP" /\ f.rv # "DONE")
              THEN "OK" ELSE f.rv
    /\ g.icap = IF op = "CLEAR_IN_BUFFER" THEN "IDLE" ELSE f.icap
    /\ g.decoup = IF op \in {"ACTIVATE_DECOUP", "DEACTIVATE_DECOUP"} THEN op = "ACTIVATE_DECOUP" ELSE f.decoup
    /\ g.silent = IF op \in {"ENABLE_SILENT_SKIP", "DISABLE_SILENT_SKIP"} THEN op = "ENABLE_SILENT_SKIP" ELSE f.silent
    /\ g.exit = IF op = "EXIT" THEN TRUE ELSE f.exit

FlagOps == {"CLEAR_IN_BUFFER", "ACTIVATE_DECOUP", "DEACTIVATE_DECOUP", "ENABLE_SILENT_SKIP", "DISABLE_SILENT_SKIP", "EXIT"}

LEMMA FlagOperation ==
    ASSUME NEW f, Shape(f), NEW op \in FlagOps
    PROVE  Flagged(op, f, Operation(op, f))
<1> DEFINE g == Operation(op, f)
<1>1. CASE op = "CLEAR_IN_BUFFER"
  <2>1. g = [EmptyInBuffer(f) EXCEPT !.rv = "OK"]
    BY <1>1 DEF Operation
  <2> QED
    BY <1>1, <2>1 DEF EmptyInBuffer, Flagged, Shape, Fields, RVs
<1>2. CASE op = "ACTIVATE_DECOUP"
  <2>1. g = [f EXCEPT !.decoup = TRUE, !.rv = "OK"]
    BY <1>2 DEF Operation
  <2> QED
    BY <1>2, <2>1 DEF Flagged, Shape, Fields, RVs
<1>3. CASE op = "DEACTIVATE_DECOUP"
  <2>1. g = [Kept(f, "OK") EXCEPT !.decoup = FALSE]
    BY <1>3 DEF Operation
  <2> QED
    BY <1>3, <2>1 DEF Kept, Flagged, Shape, Fields, RVs
<1>4. CASE op = "ENABLE_SILENT_SKIP"
  <2>1. g = [f EXCEPT !.silent = TRUE]
    BY <1>4 DEF Operation
  <2> QED
    BY <1>4, <2>1 DEF Flagged, Shape, Fields, RVs
<1>5. CASE op = "DISABLE_SILENT_SKIP"
  <2>1. g = [f EXCEPT !.silent = FALSE]
    BY <1>5 DEF Operation
  <2> QED
    BY <1>5, <2>1 DEF Flagged, Shape, Fields, RVs
<1>6. CASE op = "EXIT"
  <2>1. g = [f EXCEPT !.exit = TRUE]
    BY <1>6 DEF Operation
  <2> QED
    BY <1>6, <2>1 DEF Flagged, Shape, Fields, RVs
<1> QED
  BY <1>1, <1>2, <1>3, <1>4, <1>5, <1>6 DEF FlagOps

LEMMA StepFlag ==
    ASSUME NEW t, Pair(t), NEW op \in FlagOps, NEW mask
    PROVE  LET u == Step(t, I(op, mask))
           IN  /\ Onward(t, u)
               /\ ~Runs(t[1], mask) => Skipped(t, u)
               /\ Runs(t[1], mask) => Flagged(op, t[1], u[1])
<1> DEFINE u == Step(t, I(op, mask))
<1>1. /\ u = <<u[1], u[2]>> /\ u[2] = t[2]
      /\ Runs(t[1], mask) => u[1] = Operation(op, t[1])
      /\ ~Runs(t[1], mask) => Skips(t[1], u[1], mask) /\ Shape(u[1])
  BY PlainStep DEF PlainOps, FlagOps
<1>2. CASE ~Runs(t[1], mask)
  BY <1>1, <1>2 DEF Skips, Runs, Skipped, Onward, Pair, Quiet, Frame
<1>3. CASE Runs(t[1], mask)
  <2>1. Flagged(op, t[1], u[1])
    BY <1>1, <1>3, FlagOperation DEF Pair
  <2> QED
    BY <1>1, <1>3, <2>1 DEF Flagged, Onward, Pair
<1> QED
  BY <1>2, <1>3

\* FIFO_TO_HWICAP may start to write, but tells of the end only when it does not.
Fed(f, g) ==
    /\ Shape(g) /\ g.op = f.op /\ g.done = f.done /\ g.req = f.req /\ g.http = f.http
    /\ g.decoup = f.decoup /\ g.silent = f.silent /\ g.exit = f.exit
    /\ g.rv \in {"OK", "NOT_COMPLETE", "DONE", "FAIL"}
    /\ g.rv = "DONE" => g.icap = "IDLE"
    /\ g.rv = "FAIL" => g.icap = "DRAIN"

LEMMA StepFifo ==
    ASSUME NEW t, Pair(t), NEW mask
    PROVE  LET u == Step(t, I("FIFO_TO_HWICAP", mask))
           IN  /\ Onward(t, u)
               /\ Runs(t[1], mask) => Fed(t[1], u[1])
               /\ ~Runs(t[1], mask) => Skipped(t, u)
<1> DEFINE u == Step(t, I("FIFO_TO_HWICAP", mask))
<1>1. CASE t[1].exit
  <2>1. u = t
    BY <1>1 DEF Step
  <2> QED
    BY <1>1, <2>1 DEF Runs, Skipped, Quiet, Frame, Pair, Onward
<1>2. CASE ~t[1].exit /\ t[1].rv \notin mask
  <2>1. u = <<IF t[1].silent THEN t[1] ELSE [t[1] EXCEPT !.rv = "SKIPPED"], t[2]>>
    BY <1>2 DEF Step, I
  <2>2. Quiet(t[1], u[1]) /\ u[1].rv = IF t[1].silent THEN t[1].rv ELSE "SKIPPED"
    BY <2>1 DEF Pair, Quiet, Frame, Shape, Fields, RVs
  <2> QED
    BY <1>2, <2>1, <2>2 DEF Runs, Skipped, Quiet, Frame, Pair, Onward
<1>3. CASE ~t[1].exit /\ t[1].rv \in mask
  <2>1. PICK f, h : f = t[1] /\ h = t[2]
    OBVIOUS
  <2>2. u = FifoToHwicap(f, h)
    BY <1>3, <2>1 DEF Step, I
  <2>3. Shape(f) /\ "words" \in DOMAIN h
    BY <2>1 DEF Pair
  <2>4. PICK g, k : /\ u = <<g, k>> /\ k \in {h, [h EXCEPT !.write = TRUE]}
                    /\ g \in {[f EXCEPT !.icap = "WRITE", !.busy = TRUE, !.rv = "NOT_COMPLETE"],
                              [f EXCEPT !.rv = "NOT_COMPLETE"], [f EXCEPT !.icap = "IDLE", !.busy = FALSE, !.rv = "DONE"],
                              [f EXCEPT !.icap = "DRAIN", !.busy = FALSE, !.rv = "FAIL"], [f EXCEPT !.rv = "OK"]}
    BY <2>2, Zenon DEF FifoToHwicap
  <2>5. Fed(f, g)
    BY <2>3, <2>4 DEF Fed, Shape, Fields, RVs
  <2>6. "words" \in DOMAIN k /\ k.words = h.words
    BY <2>3, <2>4
  <2> QED
    BY <1>3, <2>1, <2>4, <2>5, <2>6 DEF Runs, Fed, Onward, Pair
<1>4. t[1].exit \in BOOLEAN
  BY DEF Pair, Shape
<1> QED
  BY <1>1, <1>2, <1>3, <1>4

Aborted(f, g) == Quiet(f, g) /\ g.rv = "OK" /\ g.error = TRUE

LEMMA StepAbort ==
    ASSUME NEW t, Pair(t), NEW mask
    PROVE  LET u == Step(t, I("ABORT_HWICAP", mask))
           IN  /\ Onward(t, u)
               /\ Runs(t[1], mask) => Aborted(t[1], u[1])
               /\ ~Runs(t[1], mask) => Skipped(t, u)
<1> DEFINE u == Step(t, I("ABORT_HWICAP", mask))
<1>1. CASE t[1].exit
  <2>1. u = t
    BY <1>1 DEF Step
  <2> QED
    BY <1>1, <2>1 DEF Runs, Skipped, Quiet, Frame, Pair, Onward
<1>2. CASE ~t[1].exit /\ t[1].rv \notin mask
  <2>1. u = <<IF t[1].silent THEN t[1] ELSE [t[1] EXCEPT !.rv = "SKIPPED"], t[2]>>
    BY <1>2 DEF Step, I
  <2>2. Quiet(t[1], u[1]) /\ u[1].rv = IF t[1].silent THEN t[1].rv ELSE "SKIPPED"
    BY <2>1 DEF Pair, Quiet, Frame, Shape, Fields, RVs
  <2> QED
    BY <1>2, <2>1, <2>2 DEF Runs, Skipped, Quiet, Frame, Pair, Onward
<1>3. CASE ~t[1].exit /\ t[1].rv \in mask
  <2>1. PICK f, h : f = t[1] /\ h = t[2]
    OBVIOUS
  <2>2. u = AbortHwicap(f, h)
    BY <1>3, <2>1 DEF Step, I
  <2>3. Shape(f) /\ "words" \in DOMAIN h
    BY <2>1 DEF Pair
  <2> DEFINE g == [f EXCEPT !.error = TRUE, !.wasAbort = TRUE, !.rv = "OK"]
             k == [h EXCEPT !.abort = TRUE, !.write = FALSE]
  <2>4. u = <<g, k>>
    BY <2>2 DEF AbortHwicap
  <2>5. Aborted(f, g)
    BY <2>3 DEF Aborted, Quiet, Frame, Shape, Fields, RVs
  <2>6. "words" \in DOMAIN k /\ k.words = h.words
    BY <2>3
  <2> QED
    <3> HIDE DEF g, k
    <3> QED
      BY <1>3, <2>1, <2>4, <2>5, <2>6 DEF Runs, Aborted, Quiet, Frame, Onward, Pair
<1>4. t[1].exit \in BOOLEAN
  BY DEF Pair, Shape
<1> QED
  BY <1>1, <1>2, <1>3, <1>4

(***************************************************************************)
(* Programs: the recursion along the instructions, and its concatenation.  *)
(***************************************************************************)
After(t, start, prog) ==
    t = [n \in 0 .. Len(prog) |-> IF n = 0 THEN start ELSE Step(t[n - 1], prog[n])]

Follows(t, start, prog, n) ==
    t[0] = start /\ \A k \in 1 .. n : t[k] = Step(t[k - 1], prog[k])

LEMMA ExecutedSolves ==
    ASSUME NEW prog, Len(prog) \in Nat, NEW start
    PROVE  \E t : Follows(t, start, prog, Len(prog)) /\ Executed(start, prog) = t[Len(prog)]
<1> DEFINE N == Len(prog)
           Solves(t, m) == t = [n \in 0 .. m |-> IF n = 0 THEN start ELSE Step(t[n - 1], prog[n])]
           S == {m \in 0 .. N : \E t : Solves(t, m)}
<1>1. 0 \in S
  <2>1. Solves([n \in 0 .. 0 |-> start], 0)
    OBVIOUS
  <2> HIDE DEF Solves
  <2> QED
    BY <2>1
<1>2. ASSUME NEW m \in 0 .. N - 1, m \in S
      PROVE  m + 1 \in S
  <2>1. PICK t : Solves(t, m)
    BY <1>2
  <2> DEFINE g == [n \in 0 .. m + 1 |-> IF n = m + 1 THEN Step(t[m], prog[m + 1]) ELSE t[n]]
  <2>2. \A n \in 0 .. m : g[n] = t[n]
    OBVIOUS
  <2>3. ASSUME NEW n \in 0 .. m + 1
        PROVE  g[n] = IF n = 0 THEN start ELSE Step(g[n - 1], prog[n])
    <3>1. CASE n = m + 1
      <4>1. g[n] = Step(t[m], prog[m + 1]) /\ n # 0 /\ n - 1 = m
        BY <3>1
      <4>2. g[n - 1] = t[m]
        BY <2>2, <4>1
      <4> QED
        BY <3>1, <4>1, <4>2
    <3>2. CASE n = 0
      <4>1. t[0] = start
        BY <2>1
      <4> QED
        BY <2>2, <3>2, <4>1
    <3>3. CASE n \in 1 .. m
      <4>1. n \in 0 .. m /\ n - 1 \in 0 .. m /\ n # 0
        BY <3>3
      <4>2. t[n] = Step(t[n - 1], prog[n])
        BY <2>1, <4>1
      <4> HIDE DEF g
      <4> QED
        BY <2>2, <4>1, <4>2
    <3> QED
      BY <3>1, <3>2, <3>3
  <2>4. Solves(g, m + 1)
    <3>1. g = [n \in 0 .. m + 1 |-> g[n]]
      OBVIOUS
    <3> HIDE DEF g
    <3> QED
      BY <2>3, <3>1
  <2> HIDE DEF g, Solves
  <2> QED
    BY <2>4
<1>3. PICK t : After(t, start, prog)
  <2> HIDE DEF S, N
  <2>1. N \in Nat
    BY DEF N
  <2>2. N \in S
    <3>1. \A n \in 0 .. N : n \in S
      BY <1>1, <1>2, <2>1, IntervalInduction
    <3> QED
      BY <2>1, <3>1
  <2> USE DEF S
  <2>3. \E t : Solves(t, N)
    BY <2>2
  <2> QED
    BY <2>3 DEF After, N
<1> DEFINE g == CHOOSE u : After(u, start, prog)
<1>4. After(g, start, prog)
  BY <1>3
<1>5. Executed(start, prog) = g[Len(prog)]
  BY DEF Executed, After
<1> HIDE DEF g
<1>6. Follows(g, start, prog, Len(prog))
  <2>1. \A n \in 0 .. Len(prog) : g[n] = IF n = 0 THEN start ELSE Step(g[n - 1], prog[n])
    BY <1>4, Zenon DEF After
  <2>2. 0 \in 0 .. Len(prog) /\ \A n \in 1 .. Len(prog) : n \in 0 .. Len(prog) /\ n # 0
    OBVIOUS
  <2> QED
    BY <2>1, <2>2, Zenon DEF Follows
<1> QED
  BY <1>5, <1>6

\* A program in two parts.
LEMMA ExecutedConcat ==
    ASSUME NEW S, NEW p \in Seq(S), NEW q \in Seq(S), NEW start
    PROVE  Executed(start, p \o q) = Executed(Executed(start, p), q)
<1> DEFINE N == Len(p)
           M == Len(q)
           pq == p \o q
<1>1. /\ N \in Nat /\ M \in Nat /\ Len(pq) = N + M
      /\ \A n \in 1 .. N : pq[n] = p[n]
      /\ \A n \in 1 .. M : pq[N + n] = q[n]
  OBVIOUS
<1> HIDE DEF N, M, pq
<1>2. PICK f : Follows(f, start, p, N) /\ Executed(start, p) = f[N]
  BY <1>1, ExecutedSolves DEF N
<1>3. PICK g : Follows(g, f[N], q, M) /\ Executed(f[N], q) = g[M]
  BY <1>1, ExecutedSolves DEF M
<1>4. PICK h : Follows(h, start, pq, N + M) /\ Executed(start, pq) = h[N + M]
  <2>1. Len(pq) \in Nat
    BY <1>1
  <2>2. \E t : Follows(t, start, pq, Len(pq)) /\ Executed(start, pq) = t[Len(pq)]
    BY <2>1, ExecutedSolves
  <2> QED
    BY <1>1, <2>2
<1>5. h[N] = f[N]
  <2> DEFINE T == {n \in 0 .. N : h[n] = f[n]}
  <2>1. 0 \in T
    BY <1>1, <1>2, <1>4 DEF Follows
  <2>2. ASSUME NEW n \in 0 .. N - 1, n \in T
        PROVE  n + 1 \in T
    <3>1. n + 1 \in 1 .. N /\ n + 1 \in 1 .. N + M /\ (n + 1) - 1 = n /\ pq[n + 1] = p[n + 1]
      BY <1>1
    <3>2. f[n + 1] = Step(f[n], p[n + 1]) /\ h[n + 1] = Step(h[n], pq[n + 1])
      BY <1>2, <1>4, <3>1 DEF Follows
    <3> QED
      BY <1>1, <2>2, <3>1, <3>2
  <2> HIDE DEF T
  <2>3. \A n \in 0 .. N : n \in T
    BY <1>1, <2>1, <2>2, IntervalInduction
  <2> QED
    BY <1>1, <2>3 DEF T
<1>6. h[N + M] = g[M]
  <2> DEFINE T == {n \in 0 .. M : h[N + n] = g[n]}
  <2>1. 0 \in T
    BY <1>1, <1>3, <1>5 DEF Follows
  <2>2. ASSUME NEW n \in 0 .. M - 1, n \in T
        PROVE  n + 1 \in T
    <3>1. /\ n + 1 \in 1 .. M /\ (n + 1) - 1 = n /\ N + (n + 1) \in 1 .. N + M
          /\ (N + (n + 1)) - 1 = N + n /\ pq[N + (n + 1)] = q[n + 1]
      BY <1>1
    <3>2. g[n + 1] = Step(g[n], q[n + 1]) /\ h[N + (n + 1)] = Step(h[N + n], pq[N + (n + 1)])
      BY <1>3, <1>4, <3>1 DEF Follows
    <3> QED
      BY <1>1, <2>2, <3>1, <3>2
  <2> HIDE DEF T
  <2>3. \A n \in 0 .. M : n \in T
    BY <1>1, <2>1, <2>2, IntervalInduction
  <2> QED
    BY <1>1, <2>3 DEF T
<1> QED
  BY <1>2, <1>3, <1>4, <1>6 DEF pq

(***************************************************************************)
(* What an instruction does, whichever it is.                              *)
(***************************************************************************)
Ops == QuietOps \cup FlagOps \cup {"HANDLE_HTTP", "UPDATE_HTTP_STATE", "FIFO_TO_HWICAP", "ABORT_HWICAP"}
Instruction == Ops \X SUBSET RVs

Typed(f) ==
    /\ f.silent \in BOOLEAN /\ f.exit \in BOOLEAN /\ f.decoup \in BOOLEAN
    /\ f.rv \in RVs /\ f.req \in DOMAIN ReqCode

Stays(t, u) == Onward(t, u) /\ u[1].op = t[1].op /\ u[1].done = t[1].done

Effect(op, f, g) ==
    /\ op \in QuietOps => Quiet(f, g) /\ Yields(op, f, g.rv)
    /\ op \in FlagOps => Flagged(op, f, g)
    /\ op = "HANDLE_HTTP" => Handled(f, g)
    /\ op = "UPDATE_HTTP_STATE" => Updated(f, g)
    /\ op = "FIFO_TO_HWICAP" => Fed(f, g)
    /\ op = "ABORT_HWICAP" => Aborted(f, g)

Moves(op, mask, t, u) ==
    /\ Typed(t[1]) /\ Typed(u[1]) /\ Stays(t, u)
    /\ Runs(t[1], mask) => Effect(op, t[1], u[1])
    /\ ~Runs(t[1], mask) => Skipped(t, u)

LEMMA StepMoves ==
    ASSUME NEW t, Pair(t), NEW op \in Ops, NEW mask
    PROVE  Moves(op, mask, t, Step(t, I(op, mask)))
<1> DEFINE u == Step(t, I(op, mask))
<1>1. /\ Onward(t, u)
      /\ Runs(t[1], mask) => Effect(op, t[1], u[1])
      /\ ~Runs(t[1], mask) => Skipped(t, u)
  <2>1. CASE op \in QuietOps
    BY <2>1, StepQuiet DEF Effect, QuietOps, FlagOps
  <2>2. CASE op \in FlagOps
    BY <2>2, StepFlag DEF Effect, QuietOps, FlagOps
  <2>3. CASE op = "HANDLE_HTTP"
    BY <2>3, StepHandle DEF Effect, QuietOps, FlagOps
  <2>4. CASE op = "UPDATE_HTTP_STATE"
    BY <2>4, StepUpdate DEF Effect, QuietOps, FlagOps
  <2>5. CASE op = "FIFO_TO_HWICAP"
    BY <2>5, StepFifo DEF Effect, QuietOps, FlagOps
  <2>6. CASE op = "ABORT_HWICAP"
    BY <2>6, StepAbort DEF Effect, QuietOps, FlagOps
  <2> QED
    BY <2>1, <2>2, <2>3, <2>4, <2>5, <2>6 DEF Ops
<1>2. Typed(t[1]) /\ Typed(u[1])
  BY <1>1 DEF Onward, Pair, Shape, Typed
<1>3. u[1].op = t[1].op /\ u[1].done = t[1].done
  <2>1. CASE Runs(t[1], mask)
    BY <1>1, <2>1 DEF Effect, Ops, Quiet, Frame, Flagged, Handled, Updated, Fed, Aborted
  <2>2. CASE ~Runs(t[1], mask)
    BY <1>1, <2>2 DEF Skipped, Quiet, Frame
  <2> QED
    BY <2>1, <2>2
<1> QED
  BY <1>1, <1>2, <1>3 DEF Moves, Stays

\* The pairs a program goes through.
Trace(t, v, prog) ==
    /\ t[0] = v /\ Executed(v, prog) = t[Len(prog)]
    /\ \A n \in 1 .. Len(prog) : Moves(prog[n][1], prog[n][2], t[n - 1], t[n])

LEMMA ExecutedTrace ==
    ASSUME NEW v, Pair(v), NEW prog \in Seq(Instruction)
    PROVE  \E t : Trace(t, v, prog)
<1> DEFINE N == Len(prog)
<1>1. N \in Nat /\ \A n \in 1 .. N : prog[n] \in Instruction
  OBVIOUS
<1> HIDE DEF N
<1>2. PICK t : Follows(t, v, prog, N) /\ Executed(v, prog) = t[N]
  BY <1>1, ExecutedSolves DEF N
<1> DEFINE S == {n \in 0 .. N : Pair(t[n])}
<1>3. ASSUME NEW n \in 1 .. N, Pair(t[n - 1])
      PROVE  Moves(prog[n][1], prog[n][2], t[n - 1], t[n])
  <2>1. PICK op \in Ops, mask \in SUBSET RVs : prog[n] = I(op, mask)
    BY <1>1 DEF Instruction, I
  <2>2. prog[n][1] = op /\ prog[n][2] = mask
    BY <2>1 DEF I
  <2>3. t[n] = Step(t[n - 1], I(op, mask))
    BY <1>2, <2>1 DEF Follows
  <2> QED
    BY <1>3, <2>2, <2>3, StepMoves
<1>4. 0 \in S
  BY <1>1, <1>2 DEF Follows
<1>5. ASSUME NEW n \in 0 .. N - 1, n \in S
      PROVE  n + 1 \in S
  <2>1. n + 1 \in 1 .. N /\ n + 1 \in 0 .. N /\ (n + 1) - 1 = n /\ Pair(t[n])
    BY <1>1, <1>5
  <2>2. Moves(prog[n + 1][1], prog[n + 1][2], t[n], t[n + 1])
    BY <1>3, <2>1
  <2>3. Pair(t[n + 1])
    BY <2>2 DEF Moves, Stays, Onward
  <2> QED
    BY <2>1, <2>3
<1>6. \A n \in 0 .. N : n \in S
  <2> HIDE DEF S
  <2> QED
    BY <1>1, <1>4, <1>5, IntervalInduction
<1>7. \A n \in 1 .. N : Moves(prog[n][1], prog[n][2], t[n - 1], t[n])
  <2>1. \A n \in 1 .. N : n - 1 \in 0 .. N
    BY <1>1
  <2> QED
    BY <1>3, <1>6, <2>1
<1>8. Trace(t, v, prog)
  BY <1>2, <1>7 DEF Trace, Follows, N
<1> QED
  BY <1>8

LEMMA Instructions ==
    /\ <<>> \in Seq(Instruction)
    /\ OpeningProgram \in Seq(Instruction)
    /\ WaitProgram \in Seq(Instruction)
    /\ SendProgram \in Seq(Instruction)
    /\ RoutingProgram \in Seq(Instruction)
    /\ ConfigProgram \in Seq(Instruction)
    /\ HeaderPart \in Seq(Instruction)
    /\ RoutingPart \in Seq(Instruction)
    /\ ConfigPart \in Seq(Instruction)
    /\ FirstProgram \in Seq(Instruction)
<1>1. \A op \in Ops : \A mask \in SUBSET RVs : <<op, mask>> \in Instruction
  BY DEF Instruction
<1> USE <1>1 DEF Ops, QuietOps, FlagOps, RVs, I, Always, Done, Ok
<1>2. OpeningProgram \in Seq(Instruction)
  BY DEF OpeningProgram
<1>3. WaitProgram \in Seq(Instruction)
  BY DEF WaitProgram
<1>4. SendProgram \in Seq(Instruction)
  BY DEF SendProgram
<1>5. RoutingProgram \in Seq(Instruction)
  BY DEF RoutingProgram
<1>6. ConfigProgram \in Seq(Instruction)
  BY DEF ConfigProgram
<1>7. HeaderPart \in Seq(Instruction)
  BY DEF HeaderPart
<1>8. RoutingPart \in Seq(Instruction)
  BY DEF RoutingPart
<1>9. ConfigPart \in Seq(Instruction)
  BY DEF ConfigPart, DecoupMask
<1>10. FirstProgram \in Seq(Instruction)
  <2>1. HeaderPart \o RoutingPart \in Seq(Instruction)
    BY <1>7, <1>8
  <2> QED
    BY <1>9, <2>1 DEF FirstProgram
<1>11. <<>> \in Seq(Instruction)
  OBVIOUS
<1> QED
  BY <1>2, <1>3, <1>4, <1>5, <1>6, <1>7, <1>8, <1>9, <1>10, <1>11

(***************************************************************************)
(* What a whole program keeps.                                             *)
(***************************************************************************)
Without(prog, ops) == \A n \in 1 .. Len(prog) : prog[n][1] \notin ops

Keeps(prog, f, g) ==
    /\ Without(prog, {"FIFO_TO_HWICAP"}) => g.icap \in {f.icap, "IDLE"}
    /\ Without(prog, {"ACTIVATE_DECOUP", "DEACTIVATE_DECOUP"}) => g.decoup = f.decoup
    /\ Without(prog, {"ENABLE_SILENT_SKIP", "DISABLE_SILENT_SKIP"}) => g.silent = f.silent
    /\ Without(prog, {"HANDLE_HTTP"}) => g.req = f.req
    /\ Parsed(f) => Parsed(g) /\ g.req = f.req
    /\ f.exit => /\ g.exit /\ g.icap = f.icap /\ g.decoup = f.decoup /\ g.silent = f.silent
                 /\ g.req = f.req /\ g.rv = f.rv

LEMMA MoveKeeps ==
    ASSUME NEW op \in Ops, NEW mask, NEW t, NEW u, Moves(op, mask, t, u)
    PROVE  LET f == t[1]
               g == u[1]
           IN  /\ op # "FIFO_TO_HWICAP" => g.icap \in {f.icap, "IDLE"}
               /\ op \notin {"ACTIVATE_DECOUP", "DEACTIVATE_DECOUP"} => g.decoup = f.decoup
               /\ op \notin {"ENABLE_SILENT_SKIP", "DISABLE_SILENT_SKIP"} => g.silent = f.silent
               /\ op # "HANDLE_HTTP" => g.req = f.req
               /\ Parsed(f) => Parsed(g) /\ g.req = f.req
               /\ f.exit => /\ g.exit /\ g.icap = f.icap /\ g.decoup = f.decoup /\ g.silent = f.silent
                            /\ g.req = f.req /\ g.rv = f.rv
<1>1. CASE ~Runs(t[1], mask)
  BY <1>1 DEF Moves, Typed, Skipped, Quiet, Frame, Parsed
<1>2. CASE Runs(t[1], mask) /\ op \in QuietOps
  BY <1>2 DEF Moves, Effect, Runs, Quiet, Frame, Parsed
<1>3. CASE Runs(t[1], mask) /\ op \in FlagOps
  BY <1>3 DEF Moves, Effect, Runs, Flagged, FlagOps, Parsed
<1>4. CASE Runs(t[1], mask) /\ op = "HANDLE_HTTP"
  BY <1>4 DEF Moves, Effect, Runs, Handled, Frame
<1>5. CASE Runs(t[1], mask) /\ op = "UPDATE_HTTP_STATE"
  BY <1>5 DEF Moves, Effect, Runs, Updated, Frame, Parsed
<1>6. CASE Runs(t[1], mask) /\ op = "FIFO_TO_HWICAP"
  BY <1>6 DEF Moves, Effect, Runs, Fed, Parsed
<1>7. CASE Runs(t[1], mask) /\ op = "ABORT_HWICAP"
  BY <1>7 DEF Moves, Effect, Runs, Aborted, Quiet, Frame, Parsed
<1> QED
  BY <1>1, <1>2, <1>3, <1>4, <1>5, <1>6, <1>7 DEF Ops

LEMMA TraceKeeps ==
    ASSUME NEW v, Pair(v), NEW prog \in Seq(Instruction), NEW t, Trace(t, v, prog)
    PROVE  LET u == Executed(v, prog)
           IN  Stays(v, u) /\ Keeps(prog, v[1], u[1])
<1> DEFINE N == Len(prog)
           S == {n \in 0 .. N : Stays(v, t[n]) /\ Keeps(prog, v[1], t[n][1])}
<1>1. N \in Nat /\ \A n \in 1 .. N : prog[n] \in Instruction
  OBVIOUS
<1>2. t[0] = v /\ Executed(v, prog) = t[N] /\ \A n \in 1 .. N : Moves(prog[n][1], prog[n][2], t[n - 1], t[n])
  BY DEF Trace
<1> HIDE DEF N
<1>3. 0 \in S
  BY <1>1, <1>2 DEF Stays, Onward, Keeps
<1>4. ASSUME NEW n \in 0 .. N - 1, n \in S
      PROVE  n + 1 \in S
  <2>1. n + 1 \in 1 .. N /\ n + 1 \in 0 .. N /\ (n + 1) - 1 = n
    BY <1>1
  <2>2. PICK op \in Ops, mask \in SUBSET RVs : prog[n + 1] = <<op, mask>>
    BY <1>1, <2>1 DEF Instruction
  <2>3. Moves(op, mask, t[n], t[n + 1])
    BY <1>2, <2>1, <2>2
  <2>4. Stays(v, t[n + 1])
    BY <1>4, <2>3 DEF Moves, Stays, Onward
  <2>5. \A ops : Without(prog, ops) => op \notin ops
    BY <2>1, <2>2 DEF Without, N
  <2> DEFINE f == t[n][1]
             g == t[n + 1][1]
  <2>6. /\ op # "FIFO_TO_HWICAP" => g.icap \in {f.icap, "IDLE"}
        /\ op \notin {"ACTIVATE_DECOUP", "DEACTIVATE_DECOUP"} => g.decoup = f.decoup
        /\ op \notin {"ENABLE_SILENT_SKIP", "DISABLE_SILENT_SKIP"} => g.silent = f.silent
        /\ op # "HANDLE_HTTP" => g.req = f.req
        /\ Parsed(f) => Parsed(g) /\ g.req = f.req
        /\ f.exit => /\ g.exit /\ g.icap = f.icap /\ g.decoup = f.decoup /\ g.silent = f.silent
                     /\ g.req = f.req /\ g.rv = f.rv
    BY <2>3, MoveKeeps
  <2>7. Keeps(prog, v[1], f)
    BY <1>4
  <2> HIDE DEF f, g
  <2>8. Keeps(prog, v[1], g)
    BY <2>5, <2>6, <2>7 DEF Keeps
  <2> QED
    BY <2>1, <2>4, <2>8 DEF g
<1>5. \A n \in 0 .. N : n \in S
  <2> HIDE DEF S
  <2> QED
    BY <1>1, <1>3, <1>4, IntervalInduction
<1> QED
  BY <1>1, <1>2, <1>5

LEMMA TraceStep ==
    ASSUME NEW prog, NEW v, NEW t, Trace(t, v, prog),
           NEW n \in 1 .. Len(prog), NEW m, m = n - 1, NEW op, NEW mask, prog[n] = <<op, mask>>
    PROVE  Moves(op, mask, t[m], t[n])
BY DEF Trace

(***************************************************************************)
(* The first program, up to the end of the header.                         *)
(***************************************************************************)
\* The program goes on, skipping silently or not.
Mute(f) == ~f.exit /\ f.silent
Loud(f) == ~f.exit /\ ~f.silent

\* The program was left, and the request is no configuration.
LeftPlain(f) == f.exit /\ f.req # "POST_CONFIG"

\* Nothing but a header with a payload can make it a configuration.
Told(f, rvs) ==
    \/ f.rv \in rvs /\ f.req # "POST_CONFIG" /\ (f.rv = "USER" => f.http = "SEND_RESPONSE")
    \/ f.rv = "PARTIAL_COMPLETE" /\ Parsed(f)

Spoken(f, rvs) == Mute(f) /\ Told(f, rvs)

\* No type was copied.
Typeless(f) == f.rv = "SKIPPED" /\ f.req # "POST_CONFIG"

\* The header is complete and the type of the request is the result.
HeaderDone(f) == Loud(f) /\ Parsed(f) /\ f.rv = ReqCode[f.req]

LEMMA ReqCodes ==
    \A r \in DOMAIN ReqCode : /\ ReqCode[r] \in RVs /\ ReqCode[r] # "SKIPPED"
                              /\ ReqCode[r] = "FAIL" <=> r = "POST_CONFIG"
BY DEF ReqCode, RVs

LEMMA HeaderPartRuns ==
    ASSUME NEW v, Pair(v), ~v[1].exit, v[1].req # "POST_CONFIG"
    PROVE  LET u == Executed(v, HeaderPart)
           IN  LeftPlain(u[1]) \/ HeaderDone(u[1])
<1>1. PICK t : Trace(t, v, HeaderPart)
  BY ExecutedTrace, Instructions
<1>2. ~t[0][1].exit /\ t[0][1].req # "POST_CONFIG"
  BY <1>1 DEF Trace
<1>3. ~t[1][1].exit /\ t[1][1].req # "POST_CONFIG" /\ t[1][1].rv \in {"OK", "NOT_COMPLETE", "DONE"}
  <2>1. HeaderPart[1] = <<"FILL_BUFFER_TCP", RVs>> /\ 1 \in 1 .. Len(HeaderPart) /\ 0 = 1 - 1
    BY DEF HeaderPart, Always, Done, Ok, I
  <2>2. Moves("FILL_BUFFER_TCP", RVs, t[0], t[1])
    BY <1>1, <2>1, TraceStep
  <2> QED
    BY <1>2, <2>2 DEF Moves, Effect, Typed, Runs, Skipped, Quiet, Frame, Yields, QuietOps
<1>4. /\ ~t[2][1].exit
      /\ t[2][1].req # "POST_CONFIG"
      /\ t[2][1].rv \in {"OK", "NOT_COMPLETE", "DONE"}
      /\ t[2][1].silent
  <2>1. HeaderPart[2] = <<"ENABLE_SILENT_SKIP", RVs>> /\ 2 \in 1 .. Len(HeaderPart) /\ 1 = 2 - 1
    BY DEF HeaderPart, Always, Done, Ok, I
  <2>2. Moves("ENABLE_SILENT_SKIP", RVs, t[1], t[2])
    BY <1>1, <2>1, TraceStep
  <2> QED
    BY <1>3, <2>2 DEF Moves, Effect, Typed, Runs, Skipped, Quiet, Frame, Flagged, FlagOps
<1>5. LeftPlain(t[3][1]) \/ (Mute(t[3][1]) /\ t[3][1].req # "POST_CONFIG" /\ t[3][1].rv \in {"OK", "DONE"})
  <2>1. HeaderPart[3] = <<"EXIT", {"NOT_COMPLETE", "PARTIAL_COMPLETE", "FAIL"}>> /\ 3 \in 1 .. Len(HeaderPart) /\ 2 = 3 - 1
    BY DEF HeaderPart, Always, Done, Ok, I
  <2>2. Moves("EXIT", {"NOT_COMPLETE", "PARTIAL_COMPLETE", "FAIL"}, t[2], t[3])
    BY <1>1, <2>1, TraceStep
  <2> QED
    BY <1>4, <2>2 DEF Moves, Effect, Typed, Runs, Skipped, Quiet, Frame, Flagged, FlagOps, LeftPlain, Mute
<1>6. LeftPlain(t[4][1]) \/ Spoken(t[4][1], {"OK", "USER", "DONE"})
  <2>1. HeaderPart[4] = <<"HANDLE_HTTP", {"DONE", "OK"}>> /\ 4 \in 1 .. Len(HeaderPart) /\ 3 = 4 - 1
    BY DEF HeaderPart, Always, Done, Ok, I
  <2>2. Moves("HANDLE_HTTP", {"DONE", "OK"}, t[3], t[4])
    BY <1>1, <2>1, TraceStep
  <2> QED
    BY <1>5, <2>2 DEF Moves, Effect, Typed, Runs, Skipped, Quiet, Frame, Handled, LeftPlain, Spoken, Told, Parsed,
       Mute
<1>7. LeftPlain(t[5][1]) \/ Spoken(t[5][1], {"OK", "DONE"})
  <2>1. HeaderPart[5] = <<"HANDLE_HTTP", {"USER"}>> /\ 5 \in 1 .. Len(HeaderPart) /\ 4 = 5 - 1
    BY DEF HeaderPart, Always, Done, Ok, I
  <2>2. Moves("HANDLE_HTTP", {"USER"}, t[4], t[5])
    BY <1>1, <2>1, TraceStep
  <2> QED
    BY <1>6, <2>2 DEF Moves, Effect, Typed, Runs, Skipped, Quiet, Frame, Handled, LeftPlain, Spoken, Told, Parsed,
       Mute
<1>8. LeftPlain(t[6][1]) \/ Spoken(t[6][1], {"OK", "DONE"})
  <2>1. HeaderPart[6] = <<"SEND_TCP_SESS", {"DONE"}>> /\ 6 \in 1 .. Len(HeaderPart) /\ 5 = 6 - 1
    BY DEF HeaderPart, Always, Done, Ok, I
  <2>2. Moves("SEND_TCP_SESS", {"DONE"}, t[5], t[6])
    BY <1>1, <2>1, TraceStep
  <2> QED
    BY <1>7, <2>2 DEF Moves, Effect, Typed, Runs, Skipped, Quiet, Frame, Yields, QuietOps, LeftPlain, Spoken, Told,
       Parsed, Mute
<1>9. LeftPlain(t[7][1]) \/ Spoken(t[7][1], {"OK", "DONE"})
  <2>1. HeaderPart[7] = <<"SEND_BUFFER_TCP", {"DONE"}>> /\ 7 \in 1 .. Len(HeaderPart) /\ 6 = 7 - 1
    BY DEF HeaderPart, Always, Done, Ok, I
  <2>2. Moves("SEND_BUFFER_TCP", {"DONE"}, t[6], t[7])
    BY <1>1, <2>1, TraceStep
  <2> QED
    BY <1>8, <2>2 DEF Moves, Effect, Typed, Runs, Skipped, Quiet, Frame, Yields, QuietOps, LeftPlain, Spoken, Told,
       Parsed, Mute
<1>10. LeftPlain(t[8][1]) \/ Spoken(t[8][1], {"OK"})
  <2>1. HeaderPart[8] = <<"EXIT", {"DONE"}>> /\ 8 \in 1 .. Len(HeaderPart) /\ 7 = 8 - 1
    BY DEF HeaderPart, Always, Done, Ok, I
  <2>2. Moves("EXIT", {"DONE"}, t[7], t[8])
    BY <1>1, <2>1, TraceStep
  <2> QED
    BY <1>9, <2>2 DEF Moves, Effect, Typed, Runs, Skipped, Quiet, Frame, Flagged, FlagOps, LeftPlain, Spoken, Told,
       Parsed, Mute
<1>11. LeftPlain(t[9][1]) \/ (Loud(t[9][1]) /\ Told(t[9][1], {"OK"}))
  <2>1. HeaderPart[9] = <<"DISABLE_SILENT_SKIP", RVs>> /\ 9 \in 1 .. Len(HeaderPart) /\ 8 = 9 - 1
    BY DEF HeaderPart, Always, Done, Ok, I
  <2>2. Moves("DISABLE_SILENT_SKIP", RVs, t[8], t[9])
    BY <1>1, <2>1, TraceStep
  <2> QED
    BY <1>10, <2>2 DEF Moves, Effect, Typed, Runs, Skipped, Quiet, Frame, Flagged, FlagOps, LeftPlain, Spoken, Told,
       Parsed, Mute, Loud
<1>12. \/ LeftPlain(t[10][1])
       \/ (Loud(t[10][1]) /\ (Typeless(t[10][1]) \/ (Parsed(t[10][1]) /\ t[10][1].rv = ReqCode[t[10][1].req])))
  <2>1. HeaderPart[10] = <<"COPY_REQTYPE_TO_RETURN", {"PARTIAL_COMPLETE"}>> /\ 10 \in 1 .. Len(HeaderPart) /\ 9 = 10 - 1
    BY DEF HeaderPart, Always, Done, Ok, I
  <2>2. Moves("COPY_REQTYPE_TO_RETURN", {"PARTIAL_COMPLETE"}, t[9], t[10])
    BY <1>1, <2>1, TraceStep
  <2> QED
    BY <1>11, <2>2 DEF Moves, Effect, Typed, Runs, Skipped, Quiet, Frame, Yields, QuietOps, LeftPlain, Told,
       Typeless, Parsed, Loud
<1>13. \/ LeftPlain(t[11][1])
       \/ (Mute(t[11][1]) /\ (Typeless(t[11][1]) \/ (Parsed(t[11][1]) /\ t[11][1].rv = ReqCode[t[11][1].req])))
  <2>1. HeaderPart[11] = <<"ENABLE_SILENT_SKIP", RVs>> /\ 11 \in 1 .. Len(HeaderPart) /\ 10 = 11 - 1
    BY DEF HeaderPart, Always, Done, Ok, I
  <2>2. Moves("ENABLE_SILENT_SKIP", RVs, t[10], t[11])
    BY <1>1, <2>1, TraceStep
  <2> QED
    BY <1>12, <2>2 DEF Moves, Effect, Typed, Runs, Skipped, Quiet, Frame, Flagged, FlagOps, LeftPlain, Typeless,
       Parsed, Mute, Loud
<1>14. LeftPlain(t[12][1]) \/ (~t[12][1].exit /\ Parsed(t[12][1]) /\ t[12][1].rv = ReqCode[t[12][1].req])
  <2>1. HeaderPart[12] = <<"EXIT", {"SKIPPED"}>> /\ 12 \in 1 .. Len(HeaderPart) /\ 11 = 12 - 1
    BY DEF HeaderPart, Always, Done, Ok, I
  <2>2. Moves("EXIT", {"SKIPPED"}, t[11], t[12])
    BY <1>1, <2>1, TraceStep
  <2> QED
    BY <1>13, <2>2, ReqCodes DEF Moves, Effect, Typed, Runs, Skipped, Quiet, Frame, Flagged, FlagOps, LeftPlain,
       Typeless, Parsed, Mute
<1>15. LeftPlain(t[13][1]) \/ HeaderDone(t[13][1])
  <2>1. HeaderPart[13] = <<"DISABLE_SILENT_SKIP", RVs>> /\ 13 \in 1 .. Len(HeaderPart) /\ 12 = 13 - 1
    BY DEF HeaderPart, Always, Done, Ok, I
  <2>2. Moves("DISABLE_SILENT_SKIP", RVs, t[12], t[13])
    BY <1>1, <2>1, TraceStep
  <2> QED
    BY <1>14, <2>2 DEF Moves, Effect, Typed, Runs, Skipped, Quiet, Frame, Flagged, FlagOps, LeftPlain, HeaderDone,
       Parsed, Loud
<1>16. Executed(v, HeaderPart) = t[13]
  BY <1>1 DEF Trace, HeaderPart
<1> QED
  BY <1>15, <1>16

(***************************************************************************)
(* The first program, the part for a routing table: a configuration goes   *)
(* through it with every instruction skipped.                              *)
(***************************************************************************)
Passes(f, rv) == Loud(f) /\ f.req = "POST_CONFIG" /\ f.rv = rv

LEMMA RoutingPartRuns ==
    ASSUME NEW v, Pair(v), HeaderDone(v[1]), v[1].req = "POST_CONFIG"
    PROVE  Passes(Executed(v, RoutingPart)[1], "SKIPPED")
<1>1. PICK t : Trace(t, v, RoutingPart)
  BY ExecutedTrace, Instructions
<1>2. Passes(t[0][1], "FAIL")
  BY <1>1 DEF Trace, HeaderDone, Passes, Loud, ReqCode
<1>3. Passes(t[1][1], "SKIPPED")
  <2>1. RoutingPart[1] = <<"BUFFER_TO_ROUTING", {"DONE"}>> /\ 1 \in 1 .. Len(RoutingPart) /\ 0 = 1 - 1
    BY DEF RoutingPart, Always, Done, Ok, I
  <2>2. Moves("BUFFER_TO_ROUTING", {"DONE"}, t[0], t[1])
    BY <1>1, <2>1, TraceStep
  <2> QED
    BY <1>2, <2>2 DEF Moves, Effect, Typed, Runs, Skipped, Quiet, Frame, Yields, QuietOps, Passes, Loud
<1>4. Passes(t[2][1], "SKIPPED")
  <2>1. RoutingPart[2] = <<"UPDATE_HTTP_STATE", {"DONE", "FAIL"}>> /\ 2 \in 1 .. Len(RoutingPart) /\ 1 = 2 - 1
    BY DEF RoutingPart, Always, Done, Ok, I
  <2>2. Moves("UPDATE_HTTP_STATE", {"DONE", "FAIL"}, t[1], t[2])
    BY <1>1, <2>1, TraceStep
  <2> QED
    BY <1>3, <2>2 DEF Moves, Effect, Typed, Runs, Skipped, Quiet, Frame, Updated, Passes, Loud
<1>5. Passes(t[3][1], "SKIPPED")
  <2>1. RoutingPart[3] = <<"HANDLE_HTTP", {"OK"}>> /\ 3 \in 1 .. Len(RoutingPart) /\ 2 = 3 - 1
    BY DEF RoutingPart, Always, Done, Ok, I
  <2>2. Moves("HANDLE_HTTP", {"OK"}, t[2], t[3])
    BY <1>1, <2>1, TraceStep
  <2> QED
    BY <1>4, <2>2 DEF Moves, Effect, Typed, Runs, Skipped, Quiet, Frame, Handled, Passes, Loud
<1>6. Passes(t[4][1], "SKIPPED")
  <2>1. RoutingPart[4] = <<"SEND_TCP_SESS", {"DONE"}>> /\ 4 \in 1 .. Len(RoutingPart) /\ 3 = 4 - 1
    BY DEF RoutingPart, Always, Done, Ok, I
  <2>2. Moves("SEND_TCP_SESS", {"DONE"}, t[3], t[4])
    BY <1>1, <2>1, TraceStep
  <2> QED
    BY <1>5, <2>2 DEF Moves, Effect, Typed, Runs, Skipped, Quiet, Frame, Yields, QuietOps, Passes, Loud
<1>7. Passes(t[5][1], "SKIPPED")
  <2>1. RoutingPart[5] = <<"SEND_BUFFER_TCP", {"DONE"}>> /\ 5 \in 1 .. Len(RoutingPart) /\ 4 = 5 - 1
    BY DEF RoutingPart, Always, Done, Ok, I
  <2>2. Moves("SEND_BUFFER_TCP", {"DONE"}, t[4], t[5])
    BY <1>1, <2>1, TraceStep
  <2> QED
    BY <1>6, <2>2 DEF Moves, Effect, Typed, Runs, Skipped, Quiet, Frame, Yields, QuietOps, Passes, Loud
<1>8. Passes(t[6][1], "SKIPPED")
  <2>1. RoutingPart[6] = <<"EXIT", {"DONE"}>> /\ 6 \in 1 .. Len(RoutingPart) /\ 5 = 6 - 1
    BY DEF RoutingPart, Always, Done, Ok, I
  <2>2. Moves("EXIT", {"DONE"}, t[5], t[6])
    BY <1>1, <2>1, TraceStep
  <2> QED
    BY <1>7, <2>2 DEF Moves, Effect, Typed, Runs, Skipped, Quiet, Frame, Flagged, FlagOps, Passes, Loud
<1>9. Passes(t[7][1], "SKIPPED")
  <2>1. RoutingPart[7] = <<"ACTIVATE_CONT_TCP", RVs>> /\ 7 \in 1 .. Len(RoutingPart) /\ 6 = 7 - 1
    BY DEF RoutingPart, Always, Done, Ok, I
  <2>2. Moves("ACTIVATE_CONT_TCP", RVs, t[6], t[7])
    BY <1>1, <2>1, TraceStep
  <2> QED
    BY <1>8, <2>2 DEF Moves, Effect, Typed, Runs, Skipped, Quiet, Frame, Yields, QuietOps, Passes, Loud
<1>10. Passes(t[8][1], "SKIPPED")
  <2>1. RoutingPart[8] = <<"TCP_RX_STOP_ON_EOP", RVs>> /\ 8 \in 1 .. Len(RoutingPart) /\ 7 = 8 - 1
    BY DEF RoutingPart, Always, Done, Ok, I
  <2>2. Moves("TCP_RX_STOP_ON_EOP", RVs, t[7], t[8])
    BY <1>1, <2>1, TraceStep
  <2> QED
    BY <1>9, <2>2 DEF Moves, Effect, Typed, Runs, Skipped, Quiet, Frame, Yields, QuietOps, Passes, Loud
<1>11. Passes(t[9][1], "FAIL")
  <2>1. RoutingPart[9] = <<"COPY_REQTYPE_TO_RETURN", {"SKIPPED"}>> /\ 9 \in 1 .. Len(RoutingPart) /\ 8 = 9 - 1
    BY DEF RoutingPart, Always, Done, Ok, I
  <2>2. Moves("COPY_REQTYPE_TO_RETURN", {"SKIPPED"}, t[8], t[9])
    BY <1>1, <2>1, TraceStep
  <2> QED
    BY <1>10, <2>2, ReqCodes DEF Moves, Effect, Typed, Runs, Skipped, Quiet, Frame, Yields, QuietOps, Passes, Loud
<1>12. Passes(t[10][1], "SKIPPED")
  <2>1. RoutingPart[10] = <<"OK", {"DONE"}>> /\ 10 \in 1 .. Len(RoutingPart) /\ 9 = 10 - 1
    BY DEF RoutingPart, Always, Done, Ok, I
  <2>2. Moves("OK", {"DONE"}, t[9], t[10])
    BY <1>1, <2>1, TraceStep
  <2> QED
    BY <1>11, <2>2 DEF Moves, Effect, Typed, Runs, Skipped, Quiet, Frame, Yields, QuietOps, Passes, Loud
<1>13. Passes(t[11][1], "SKIPPED")
  <2>1. RoutingPart[11] = <<"EXIT", {"OK"}>> /\ 11 \in 1 .. Len(RoutingPart) /\ 10 = 11 - 1
    BY DEF RoutingPart, Always, Done, Ok, I
  <2>2. Moves("EXIT", {"OK"}, t[10], t[11])
    BY <1>1, <2>1, TraceStep
  <2> QED
    BY <1>12, <2>2 DEF Moves, Effect, Typed, Runs, Skipped, Quiet, Frame, Flagged, FlagOps, Passes, Loud
<1>14. Executed(v, RoutingPart) = t[11]
  BY <1>1 DEF Trace, RoutingPart
<1> QED
  BY <1>13, <1>14

\* The program for the rest of a routing table.
Filled(f, rvs) == Mute(f) /\ f.req # "POST_CONFIG" /\ f.rv \in rvs

LEMMA RoutingProgramRuns ==
    ASSUME NEW v, Pair(v), ~v[1].exit, v[1].req # "POST_CONFIG"
    PROVE  Executed(v, RoutingProgram)[1].req # "POST_CONFIG"
<1>1. PICK t : Trace(t, v, RoutingProgram)
  BY ExecutedTrace, Instructions
<1>2. ~t[0][1].exit /\ t[0][1].req # "POST_CONFIG"
  BY <1>1 DEF Trace
<1>3. Mute(t[1][1]) /\ t[1][1].req # "POST_CONFIG"
  <2>1. RoutingProgram[1] = <<"ENABLE_SILENT_SKIP", RVs>> /\ 1 \in 1 .. Len(RoutingProgram) /\ 0 = 1 - 1
    BY DEF RoutingProgram, Always, Done, Ok, I
  <2>2. Moves("ENABLE_SILENT_SKIP", RVs, t[0], t[1])
    BY <1>1, <2>1, TraceStep
  <2> QED
    BY <1>2, <2>2 DEF Moves, Effect, Typed, Runs, Skipped, Quiet, Frame, Flagged, FlagOps, Mute
<1>4. Filled(t[2][1], {"OK", "NOT_COMPLETE", "DONE"})
  <2>1. RoutingProgram[2] = <<"FILL_BUFFER_TCP", RVs>> /\ 2 \in 1 .. Len(RoutingProgram) /\ 1 = 2 - 1
    BY DEF RoutingProgram, Always, Done, Ok, I
  <2>2. Moves("FILL_BUFFER_TCP", RVs, t[1], t[2])
    BY <1>1, <2>1, TraceStep
  <2> QED
    BY <1>3, <2>2 DEF Moves, Effect, Typed, Runs, Skipped, Quiet, Frame, Yields, QuietOps, Filled, Mute
<1>5. LeftPlain(t[3][1]) \/ Filled(t[3][1], {"OK", "DONE"})
  <2>1. RoutingProgram[3] = <<"EXIT", {"NOT_COMPLETE", "PARTIAL_COMPLETE", "FAIL"}>> /\ 3 \in 1 .. Len(RoutingProgram) /\ 2 = 3 - 1
    BY DEF RoutingProgram, Always, Done, Ok, I
  <2>2. Moves("EXIT", {"NOT_COMPLETE", "PARTIAL_COMPLETE", "FAIL"}, t[2], t[3])
    BY <1>1, <2>1, TraceStep
  <2> QED
    BY <1>4, <2>2 DEF Moves, Effect, Typed, Runs, Skipped, Quiet, Frame, Flagged, FlagOps, LeftPlain, Filled, Mute
<1>6. LeftPlain(t[4][1]) \/ Filled(t[4][1], {"DONE", "NOT_COMPLETE"})
  <2>1. RoutingProgram[4] = <<"BUFFER_TO_ROUTING", {"DONE", "OK"}>> /\ 4 \in 1 .. Len(RoutingProgram) /\ 3 = 4 - 1
    BY DEF RoutingProgram, Always, Done, Ok, I
  <2>2. Moves("BUFFER_TO_ROUTING", {"DONE", "OK"}, t[3], t[4])
    BY <1>1, <2>1, TraceStep
  <2> QED
    BY <1>5, <2>2 DEF Moves, Effect, Typed, Runs, Skipped, Quiet, Frame, Yields, QuietOps, LeftPlain, Filled, Mute
<1>7. LeftPlain(t[5][1]) \/ Filled(t[5][1], {"DONE"})
  <2>1. RoutingProgram[5] = <<"EXIT", {"NOT_COMPLETE"}>> /\ 5 \in 1 .. Len(RoutingProgram) /\ 4 = 5 - 1
    BY DEF RoutingProgram, Always, Done, Ok, I
  <2>2. Moves("EXIT", {"NOT_COMPLETE"}, t[4], t[5])
    BY <1>1, <2>1, TraceStep
  <2> QED
    BY <1>6, <2>2 DEF Moves, Effect, Typed, Runs, Skipped, Quiet, Frame, Flagged, FlagOps, LeftPlain, Filled, Mute
<1>8. LeftPlain(t[6][1]) \/ (Filled(t[6][1], {"OK"}) /\ t[6][1].http = "REQUEST_COMPLETE")
  <2>1. RoutingProgram[6] = <<"UPDATE_HTTP_STATE", {"DONE", "FAIL"}>> /\ 6 \in 1 .. Len(RoutingProgram) /\ 5 = 6 - 1
    BY DEF RoutingProgram, Always, Done, Ok, I
  <2>2. Moves("UPDATE_HTTP_STATE", {"DONE", "FAIL"}, t[5], t[6])
    BY <1>1, <2>1, TraceStep
  <2> QED
    BY <1>7, <2>2 DEF Moves, Effect, Typed, Runs, Skipped, Quiet, Frame, Updated, LeftPlain, Filled, Mute
<1>9. LeftPlain(t[7][1]) \/ (~t[7][1].exit /\ t[7][1].req # "POST_CONFIG" /\ t[7][1].http = "REQUEST_COMPLETE")
  <2>1. RoutingProgram[7] = <<"DISABLE_SILENT_SKIP", RVs>> /\ 7 \in 1 .. Len(RoutingProgram) /\ 6 = 7 - 1
    BY DEF RoutingProgram, Always, Done, Ok, I
  <2>2. Moves("DISABLE_SILENT_SKIP", RVs, t[6], t[7])
    BY <1>1, <2>1, TraceStep
  <2> QED
    BY <1>8, <2>2 DEF Moves, Effect, Typed, Runs, Skipped, Quiet, Frame, Flagged, FlagOps, LeftPlain, Filled, Mute
<1>10. t[8][1].req # "POST_CONFIG"
  <2>1. RoutingProgram[8] = <<"HANDLE_HTTP", {"OK"}>> /\ 8 \in 1 .. Len(RoutingProgram) /\ 7 = 8 - 1
    BY DEF RoutingProgram, Always, Done, Ok, I
  <2>2. Moves("HANDLE_HTTP", {"OK"}, t[7], t[8])
    BY <1>1, <2>1, TraceStep
  <2> QED
    BY <1>9, <2>2 DEF Moves, Effect, Typed, Runs, Skipped, Quiet, Frame, Handled, LeftPlain, Parsed
<1>11. t[9][1].req # "POST_CONFIG"
  <2>1. RoutingProgram[9] = <<"SEND_TCP_SESS", {"DONE"}>> /\ 9 \in 1 .. Len(RoutingProgram) /\ 8 = 9 - 1
    BY DEF RoutingProgram, Always, Done, Ok, I
  <2>2. Moves("SEND_TCP_SESS", {"DONE"}, t[8], t[9])
    BY <1>1, <2>1, TraceStep
  <2> QED
    BY <1>10, <2>2 DEF Moves, Effect, Typed, Runs, Skipped, Quiet, Frame, Yields, QuietOps
<1>12. t[10][1].req # "POST_CONFIG"
  <2>1. RoutingProgram[10] = <<"DEACTIVATE_CONT_TCP", {"DONE"}>> /\ 10 \in 1 .. Len(RoutingProgram) /\ 9 = 10 - 1
    BY DEF RoutingProgram, Always, Done, Ok, I
  <2>2. Moves("DEACTIVATE_CONT_TCP", {"DONE"}, t[9], t[10])
    BY <1>1, <2>1, TraceStep
  <2> QED
    BY <1>11, <2>2 DEF Moves, Effect, Typed, Runs, Skipped, Quiet, Frame, Yields, QuietOps
<1>13. t[11][1].req # "POST_CONFIG"
  <2>1. RoutingProgram[11] = <<"SEND_BUFFER_TCP", {"DONE"}>> /\ 11 \in 1 .. Len(RoutingProgram) /\ 10 = 11 - 1
    BY DEF RoutingProgram, Always, Done, Ok, I
  <2>2. Moves("SEND_BUFFER_TCP", {"DONE"}, t[10], t[11])
    BY <1>1, <2>1, TraceStep
  <2> QED
    BY <1>12, <2>2 DEF Moves, Effect, Typed, Runs, Skipped, Quiet, Frame, Yields, QuietOps
<1>14. Executed(v, RoutingProgram) = t[11]
  BY <1>1 DEF Trace, RoutingProgram
<1> QED
  BY <1>13, <1>14

(***************************************************************************)
(* The configuration.  The HWICAP is fed only while the role is to be      *)
(* decoupled, and the decoupling ends only when nothing is being fed.      *)
(***************************************************************************)
Fills == {"WRITE", "DONE"}
Safe(f) == f.icap \in Fills => f.decoup

\* What a program for a request leaves behind.
Proper(f) == Safe(f) /\ (f.req = "POST_CONFIG" => f.decoup \/ f.rv = "DONE")
Left(f) == f.exit /\ Proper(f)

\* There is nothing to configure, it has been done, it has failed.
Unconfigured(f) == f.rv = "SKIPPED" /\ f.req # "POST_CONFIG" /\ Safe(f)
Written(f, rv) == f.rv = rv /\ f.icap = "IDLE"
Broken(f, rv) == f.rv = rv /\ f.icap = "DRAIN" /\ f.decoup
Over(f, rv) == ~f.exit /\ f.rv = rv /\ f.icap \notin Fills

LEMMA ConfigPartRuns ==
    ASSUME NEW v, Pair(v), ~v[1].exit, ~v[1].silent, Safe(v[1]),
           v[1].req = "POST_CONFIG" => v[1].rv = "SKIPPED"
    PROVE  Proper(Executed(v, ConfigPart)[1])
<1>1. PICK t : Trace(t, v, ConfigPart)
  BY ExecutedTrace, Instructions
<1>2. Loud(t[0][1]) /\ Safe(t[0][1]) /\ (t[0][1].req = "POST_CONFIG" => t[0][1].rv = "SKIPPED")
  BY <1>1 DEF Trace, Loud
<1>3. Loud(t[1][1]) /\ (Unconfigured(t[1][1]) \/ (t[1][1].decoup /\ t[1][1].rv = "OK"))
  <2>1. ConfigPart[1] = <<"ACTIVATE_DECOUP", {"SKIPPED"}>> /\ 1 \in 1 .. Len(ConfigPart) /\ 0 = 1 - 1
    BY DEF ConfigPart, DecoupMask, Always, Done, Ok, I
  <2>2. Moves("ACTIVATE_DECOUP", {"SKIPPED"}, t[0], t[1])
    BY <1>1, <2>1, TraceStep
  <2> QED
    BY <1>2, <2>2 DEF Moves, Effect, Typed, Runs, Skipped, Quiet, Frame, Flagged, FlagOps, Fills, Safe, Unconfigured, Loud
<1>4. /\ Loud(t[2][1])
      /\ \/ Unconfigured(t[2][1])
         \/ (t[2][1].decoup /\ t[2][1].rv \in {"OK", "NOT_COMPLETE"})
         \/ Written(t[2][1], "DONE")
         \/ Broken(t[2][1], "FAIL")
  <2>1. ConfigPart[2] = <<"FIFO_TO_HWICAP", {"OK"}>> /\ 2 \in 1 .. Len(ConfigPart) /\ 1 = 2 - 1
    BY DEF ConfigPart, DecoupMask, Always, Done, Ok, I
  <2>2. Moves("FIFO_TO_HWICAP", {"OK"}, t[1], t[2])
    BY <1>1, <2>1, TraceStep
  <2> QED
    BY <1>3, <2>2 DEF Moves, Effect, Typed, Runs, Skipped, Quiet, Frame, Fed, Fills, Safe, Unconfigured, Written, Broken,
       Loud
<1>5. /\ Mute(t[3][1])
      /\ \/ Unconfigured(t[3][1])
         \/ (t[3][1].decoup /\ t[3][1].rv \in {"OK", "NOT_COMPLETE"})
         \/ Written(t[3][1], "DONE")
         \/ Broken(t[3][1], "FAIL")
  <2>1. ConfigPart[3] = <<"ENABLE_SILENT_SKIP", RVs>> /\ 3 \in 1 .. Len(ConfigPart) /\ 2 = 3 - 1
    BY DEF ConfigPart, DecoupMask, Always, Done, Ok, I
  <2>2. Moves("ENABLE_SILENT_SKIP", RVs, t[2], t[3])
    BY <1>1, <2>1, TraceStep
  <2> QED
    BY <1>4, <2>2 DEF Moves, Effect, Typed, Runs, Skipped, Quiet, Frame, Flagged, FlagOps, Fills, Safe, Unconfigured,
       Written, Broken, Mute, Loud
<1>6. \/ Left(t[4][1])
      \/ (Mute(t[4][1]) /\ (Unconfigured(t[4][1]) \/ Written(t[4][1], "DONE") \/ Broken(t[4][1], "FAIL")))
  <2>1. ConfigPart[4] = <<"EXIT", {"OK", "NOT_COMPLETE"}>> /\ 4 \in 1 .. Len(ConfigPart) /\ 3 = 4 - 1
    BY DEF ConfigPart, DecoupMask, Always, Done, Ok, I
  <2>2. Moves("EXIT", {"OK", "NOT_COMPLETE"}, t[3], t[4])
    BY <1>1, <2>1, TraceStep
  <2> QED
    BY <1>5, <2>2 DEF Moves, Effect, Typed, Runs, Skipped, Quiet, Frame, Flagged, FlagOps, Fills, Safe, Proper, Left,
       Unconfigured, Written, Broken, Mute
<1>7. \/ Left(t[5][1])
      \/ (Mute(t[5][1]) /\ (Unconfigured(t[5][1]) \/ Written(t[5][1], "DONE") \/ Broken(t[5][1], "FAIL")))
  <2>1. ConfigPart[5] = <<"DEACTIVATE_DECOUP", {"DONE"}>> /\ 5 \in 1 .. Len(ConfigPart) /\ 4 = 5 - 1
    BY DEF ConfigPart, DecoupMask, Always, Done, Ok, I
  <2>2. Moves("DEACTIVATE_DECOUP", {"DONE"}, t[4], t[5])
    BY <1>1, <2>1, TraceStep
  <2> QED
    BY <1>6, <2>2 DEF Moves, Effect, Typed, Runs, Skipped, Quiet, Frame, Flagged, FlagOps, Fills, Safe, Proper, Left,
       Unconfigured, Written, Broken, Mute
<1>8. \/ Left(t[6][1])
      \/ (Mute(t[6][1]) /\ (Unconfigured(t[6][1]) \/ Written(t[6][1], "DONE") \/ Broken(t[6][1], "FAIL")))
  <2>1. ConfigPart[6] = <<"CLEAR_ROUTING_TABLE", {"DONE"}>> /\ 6 \in 1 .. Len(ConfigPart) /\ 5 = 6 - 1
    BY DEF ConfigPart, DecoupMask, Always, Done, Ok, I
  <2>2. Moves("CLEAR_ROUTING_TABLE", {"DONE"}, t[5], t[6])
    BY <1>1, <2>1, TraceStep
  <2> QED
    BY <1>7, <2>2 DEF Moves, Effect, Typed, Runs, Skipped, Quiet, Frame, Yields, QuietOps, Fills, Safe, Proper, Left,
       Unconfigured, Written, Broken, Mute
<1>9. \/ Left(t[7][1])
      \/ /\ Mute(t[7][1])
         /\ \/ Unconfigured(t[7][1])
            \/ (Written(t[7][1], "OK") /\ t[7][1].http = "REQUEST_COMPLETE")
            \/ Broken(t[7][1], "FAIL")
  <2>1. ConfigPart[7] = <<"UPDATE_HTTP_STATE", {"DONE"}>> /\ 7 \in 1 .. Len(ConfigPart) /\ 6 = 7 - 1
    BY DEF ConfigPart, DecoupMask, Always, Done, Ok, I
  <2>2. Moves("UPDATE_HTTP_STATE", {"DONE"}, t[6], t[7])
    BY <1>1, <2>1, TraceStep
  <2> QED
    BY <1>8, <2>2 DEF Moves, Effect, Typed, Runs, Skipped, Quiet, Frame, Updated, Fills, Safe, Proper, Left, Unconfigured,
       Written, Broken, Mute
<1>10. \/ Left(t[8][1])
       \/ (Mute(t[8][1]) /\ (Unconfigured(t[8][1]) \/ Written(t[8][1], "DONE") \/ Broken(t[8][1], "FAIL")))
  <2>1. ConfigPart[8] = <<"HANDLE_HTTP", {"OK"}>> /\ 8 \in 1 .. Len(ConfigPart) /\ 7 = 8 - 1
    BY DEF ConfigPart, DecoupMask, Always, Done, Ok, I
  <2>2. Moves("HANDLE_HTTP", {"OK"}, t[7], t[8])
    BY <1>1, <2>1, TraceStep
  <2> QED
    BY <1>9, <2>2 DEF Moves, Effect, Typed, Runs, Skipped, Quiet, Frame, Handled, Fills, Safe, Proper, Left, Unconfigured,
       Written, Broken, Parsed, Mute
<1>11. \/ Left(t[9][1])
       \/ (Mute(t[9][1]) /\ (Unconfigured(t[9][1]) \/ Written(t[9][1], "DONE") \/ Broken(t[9][1], "FAIL")))
  <2>1. ConfigPart[9] = <<"SEND_TCP_SESS", {"DONE"}>> /\ 9 \in 1 .. Len(ConfigPart) /\ 8 = 9 - 1
    BY DEF ConfigPart, DecoupMask, Always, Done, Ok, I
  <2>2. Moves("SEND_TCP_SESS", {"DONE"}, t[8], t[9])
    BY <1>1, <2>1, TraceStep
  <2> QED
    BY <1>10, <2>2 DEF Moves, Effect, Typed, Runs, Skipped, Quiet, Frame, Yields, QuietOps, Fills, Safe, Proper, Left,
       Unconfigured, Written, Broken, Mute
<1>12. \/ Left(t[10][1])
       \/ (Mute(t[10][1]) /\ (Unconfigured(t[10][1]) \/ Written(t[10][1], "DONE") \/ Broken(t[10][1], "FAIL")))
  <2>1. ConfigPart[10] = <<"SEND_BUFFER_TCP", {"DONE"}>> /\ 10 \in 1 .. Len(ConfigPart) /\ 9 = 10 - 1
    BY DEF ConfigPart, DecoupMask, Always, Done, Ok, I
  <2>2. Moves("SEND_BUFFER_TCP", {"DONE"}, t[9], t[10])
    BY <1>1, <2>1, TraceStep
  <2> QED
    BY <1>11, <2>2 DEF Moves, Effect, Typed, Runs, Skipped, Quiet, Frame, Yields, QuietOps, Fills, Safe, Proper, Left,
       Unconfigured, Written, Broken, Mute
<1>13. \/ Left(t[11][1])
       \/ (Mute(t[11][1]) /\ (Unconfigured(t[11][1]) \/ Written(t[11][1], "DONE") \/ Broken(t[11][1], "FAIL")))
  <2>1. ConfigPart[11] = <<"DEACTIVATE_CONT_TCP", {"DONE"}>> /\ 11 \in 1 .. Len(ConfigPart) /\ 10 = 11 - 1
    BY DEF ConfigPart, DecoupMask, Always, Done, Ok, I
  <2>2. Moves("DEACTIVATE_CONT_TCP", {"DONE"}, t[10], t[11])
    BY <1>1, <2>1, TraceStep
  <2> QED
    BY <1>12, <2>2 DEF Moves, Effect, Typed, Runs, Skipped, Quiet, Frame, Yields, QuietOps, Fills, Safe, Proper, Left,
       Unconfigured, Written, Broken, Mute
<1>14. \/ Left(t[12][1])
       \/ /\ ~t[12][1].exit
          /\ \/ (~t[12][1].silent /\ Written(t[12][1], "DONE"))
             \/ (t[12][1].silent /\ (Unconfigured(t[12][1]) \/ Broken(t[12][1], "FAIL")))
  <2>1. ConfigPart[12] = <<"DISABLE_SILENT_SKIP", {"DONE"}>> /\ 12 \in 1 .. Len(ConfigPart) /\ 11 = 12 - 1
    BY DEF ConfigPart, DecoupMask, Always, Done, Ok, I
  <2>2. Moves("DISABLE_SILENT_SKIP", {"DONE"}, t[11], t[12])
    BY <1>1, <2>1, TraceStep
  <2> QED
    BY <1>13, <2>2 DEF Moves, Effect, Typed, Runs, Skipped, Quiet, Frame, Flagged, FlagOps, Fills, Safe, Proper, Left,
       Unconfigured, Written, Broken, Mute
<1>15. Left(t[13][1]) \/ (Mute(t[13][1]) /\ (Unconfigured(t[13][1]) \/ Broken(t[13][1], "FAIL")))
  <2>1. ConfigPart[13] = <<"EXIT", {"DONE"}>> /\ 13 \in 1 .. Len(ConfigPart) /\ 12 = 13 - 1
    BY DEF ConfigPart, DecoupMask, Always, Done, Ok, I
  <2>2. Moves("EXIT", {"DONE"}, t[12], t[13])
    BY <1>1, <2>1, TraceStep
  <2> QED
    BY <1>14, <2>2 DEF Moves, Effect, Typed, Runs, Skipped, Quiet, Frame, Flagged, FlagOps, Fills, Safe, Proper, Left,
       Unconfigured, Written, Broken, Mute
<1>16. Left(t[14][1]) \/ (Loud(t[14][1]) /\ (Unconfigured(t[14][1]) \/ Broken(t[14][1], "FAIL")))
  <2>1. ConfigPart[14] = <<"DISABLE_SILENT_SKIP", RVs>> /\ 14 \in 1 .. Len(ConfigPart) /\ 13 = 14 - 1
    BY DEF ConfigPart, DecoupMask, Always, Done, Ok, I
  <2>2. Moves("DISABLE_SILENT_SKIP", RVs, t[13], t[14])
    BY <1>1, <2>1, TraceStep
  <2> QED
    BY <1>15, <2>2 DEF Moves, Effect, Typed, Runs, Skipped, Quiet, Frame, Flagged, FlagOps, Fills, Safe, Proper, Left,
       Unconfigured, Broken, Mute, Loud
<1>17. \/ Left(t[15][1])
       \/ (Loud(t[15][1]) /\ (Unconfigured(t[15][1]) \/ (Broken(t[15][1], "OK") /\ t[15][1].error = TRUE)))
  <2>1. ConfigPart[15] = <<"ABORT_HWICAP", {"FAIL"}>> /\ 15 \in 1 .. Len(ConfigPart) /\ 14 = 15 - 1
    BY DEF ConfigPart, DecoupMask, Always, Done, Ok, I
  <2>2. Moves("ABORT_HWICAP", {"FAIL"}, t[14], t[15])
    BY <1>1, <2>1, TraceStep
  <2> QED
    BY <1>16, <2>2 DEF Moves, Effect, Typed, Runs, Skipped, Quiet, Frame, Aborted, Fills, Safe, Proper, Left, Unconfigured,
       Broken, Loud
<1>18. \/ Left(t[16][1])
       \/ Loud(t[16][1]) /\ (Unconfigured(t[16][1]) \/ (Broken(t[16][1], "OK") /\ t[16][1].http = "SEND_RESPONSE"))
  <2>1. ConfigPart[16] = <<"UPDATE_HTTP_STATE", {"OK"}>> /\ 16 \in 1 .. Len(ConfigPart) /\ 15 = 16 - 1
    BY DEF ConfigPart, DecoupMask, Always, Done, Ok, I
  <2>2. Moves("UPDATE_HTTP_STATE", {"OK"}, t[15], t[16])
    BY <1>1, <2>1, TraceStep
  <2> QED
    BY <1>17, <2>2 DEF Moves, Effect, Typed, Runs, Skipped, Quiet, Frame, Updated, Fills, Safe, Proper, Left, Unconfigured,
       Broken, Loud
<1>19. Left(t[17][1]) \/ (Loud(t[17][1]) /\ (Unconfigured(t[17][1]) \/ Broken(t[17][1], "DONE")))
  <2>1. ConfigPart[17] = <<"HANDLE_HTTP", {"OK"}>> /\ 17 \in 1 .. Len(ConfigPart) /\ 16 = 17 - 1
    BY DEF ConfigPart, DecoupMask, Always, Done, Ok, I
  <2>2. Moves("HANDLE_HTTP", {"OK"}, t[16], t[17])
    BY <1>1, <2>1, TraceStep
  <2> QED
    BY <1>18, <2>2 DEF Moves, Effect, Typed, Runs, Skipped, Quiet, Frame, Handled, Fills, Safe, Proper, Left, Unconfigured,
       Broken, Parsed, Loud
<1>20. Left(t[18][1]) \/ (Loud(t[18][1]) /\ (Unconfigured(t[18][1]) \/ Broken(t[18][1], "DONE")))
  <2>1. ConfigPart[18] = <<"SEND_TCP_SESS", {"DONE"}>> /\ 18 \in 1 .. Len(ConfigPart) /\ 17 = 18 - 1
    BY DEF ConfigPart, DecoupMask, Always, Done, Ok, I
  <2>2. Moves("SEND_TCP_SESS", {"DONE"}, t[17], t[18])
    BY <1>1, <2>1, TraceStep
  <2> QED
    BY <1>19, <2>2 DEF Moves, Effect, Typed, Runs, Skipped, Quiet, Frame, Yields, QuietOps, Fills, Safe, Proper, Left,
       Unconfigured, Broken, Loud
<1>21. Left(t[19][1]) \/ (Loud(t[19][1]) /\ (Unconfigured(t[19][1]) \/ Broken(t[19][1], "DONE")))
  <2>1. ConfigPart[19] = <<"SEND_BUFFER_TCP", {"DONE"}>> /\ 19 \in 1 .. Len(ConfigPart) /\ 18 = 19 - 1
    BY DEF ConfigPart, DecoupMask, Always, Done, Ok, I
  <2>2. Moves("SEND_BUFFER_TCP", {"DONE"}, t[18], t[19])
    BY <1>1, <2>1, TraceStep
  <2> QED
    BY <1>20, <2>2 DEF Moves, Effect, Typed, Runs, Skipped, Quiet, Frame, Yields, QuietOps, Fills, Safe, Proper, Left,
       Unconfigured, Broken, Loud
<1>22. Left(t[20][1]) \/ (Loud(t[20][1]) /\ (Unconfigured(t[20][1]) \/ Broken(t[20][1], "DONE")))
  <2>1. ConfigPart[20] = <<"DEACTIVATE_CONT_TCP", {"DONE"}>> /\ 20 \in 1 .. Len(ConfigPart) /\ 19 = 20 - 1
    BY DEF ConfigPart, DecoupMask, Always, Done, Ok, I
  <2>2. Moves("DEACTIVATE_CONT_TCP", {"DONE"}, t[19], t[20])
    BY <1>1, <2>1, TraceStep
  <2> QED
    BY <1>21, <2>2 DEF Moves, Effect, Typed, Runs, Skipped, Quiet, Frame, Yields, QuietOps, Fills, Safe, Proper, Left,
       Unconfigured, Broken, Loud
<1>23. Left(t[21][1]) \/ (Loud(t[21][1]) /\ (Unconfigured(t[21][1]) \/ Broken(t[21][1], "FAIL")))
  <2>1. ConfigPart[21] = <<"FAIL", {"DONE"}>> /\ 21 \in 1 .. Len(ConfigPart) /\ 20 = 21 - 1
    BY DEF ConfigPart, DecoupMask, Always, Done, Ok, I
  <2>2. Moves("FAIL", {"DONE"}, t[20], t[21])
    BY <1>1, <2>1, TraceStep
  <2> QED
    BY <1>22, <2>2 DEF Moves, Effect, Typed, Runs, Skipped, Quiet, Frame, Yields, QuietOps, Fills, Safe, Proper, Left,
       Unconfigured, Broken, Loud
<1>24. Left(t[22][1]) \/ (Loud(t[22][1]) /\ Unconfigured(t[22][1]))
  <2>1. ConfigPart[22] = <<"EXIT", {"FAIL"}>> /\ 22 \in 1 .. Len(ConfigPart) /\ 21 = 22 - 1
    BY DEF ConfigPart, DecoupMask, Always, Done, Ok, I
  <2>2. Moves("EXIT", {"FAIL"}, t[21], t[22])
    BY <1>1, <2>1, TraceStep
  <2> QED
    BY <1>23, <2>2 DEF Moves, Effect, Typed, Runs, Skipped, Quiet, Frame, Flagged, FlagOps, Fills, Safe, Proper, Left,
       Unconfigured, Broken, Loud
<1>25. Proper(t[23][1])
  <2>1. ConfigPart[23] = <<"OK", {"SKIPPED"}>> /\ 23 \in 1 .. Len(ConfigPart) /\ 22 = 23 - 1
    BY DEF ConfigPart, DecoupMask, Always, Done, Ok, I
  <2>2. Moves("OK", {"SKIPPED"}, t[22], t[23])
    BY <1>1, <2>1, TraceStep
  <2> QED
    BY <1>24, <2>2 DEF Moves, Effect, Typed, Runs, Skipped, Quiet, Frame, Yields, QuietOps, Fills, Safe, Proper, Left,
       Unconfigured, Loud
<1>26. Executed(v, ConfigPart) = t[23]
  BY <1>1 DEF Trace, ConfigPart
<1> QED
  BY <1>25, <1>26

\* The program for the rest of a configuration.  A failure, too, ends with the
\* instructions for the end.
LEMMA ConfigProgramRuns ==
    ASSUME NEW v, Pair(v), ~v[1].exit, v[1].decoup
    PROVE  Proper(Executed(v, ConfigProgram)[1])
<1>1. PICK t : Trace(t, v, ConfigProgram)
  BY ExecutedTrace, Instructions
<1>2. ~t[0][1].exit /\ t[0][1].decoup
  BY <1>1 DEF Trace
<1>3. Mute(t[1][1]) /\ t[1][1].decoup
  <2>1. ConfigProgram[1] = <<"ENABLE_SILENT_SKIP", RVs>> /\ 1 \in 1 .. Len(ConfigProgram) /\ 0 = 1 - 1
    BY DEF ConfigProgram, Always, Done, Ok, I
  <2>2. Moves("ENABLE_SILENT_SKIP", RVs, t[0], t[1])
    BY <1>1, <2>1, TraceStep
  <2> QED
    BY <1>2, <2>2 DEF Moves, Effect, Typed, Runs, Skipped, Quiet, Frame, Flagged, FlagOps, Mute
<1>4. /\ Mute(t[2][1])
      /\ t[2][1].decoup
      /\ (t[2][1].rv \in {"OK", "NOT_COMPLETE"} \/ Written(t[2][1], "DONE") \/ Broken(t[2][1], "FAIL"))
  <2>1. ConfigProgram[2] = <<"FIFO_TO_HWICAP", RVs>> /\ 2 \in 1 .. Len(ConfigProgram) /\ 1 = 2 - 1
    BY DEF ConfigProgram, Always, Done, Ok, I
  <2>2. Moves("FIFO_TO_HWICAP", RVs, t[1], t[2])
    BY <1>1, <2>1, TraceStep
  <2> QED
    BY <1>3, <2>2 DEF Moves, Effect, Typed, Runs, Skipped, Quiet, Frame, Fed, Written, Broken, Mute
<1>5. Left(t[3][1]) \/ (Mute(t[3][1]) /\ (Written(t[3][1], "DONE") \/ Broken(t[3][1], "FAIL")))
  <2>1. ConfigProgram[3] = <<"EXIT", {"OK", "NOT_COMPLETE"}>> /\ 3 \in 1 .. Len(ConfigProgram) /\ 2 = 3 - 1
    BY DEF ConfigProgram, Always, Done, Ok, I
  <2>2. Moves("EXIT", {"OK", "NOT_COMPLETE"}, t[2], t[3])
    BY <1>1, <2>1, TraceStep
  <2> QED
    BY <1>4, <2>2 DEF Moves, Effect, Typed, Runs, Skipped, Quiet, Frame, Flagged, FlagOps, Fills, Safe, Proper, Left,
       Written, Broken, Mute
<1>6. Left(t[4][1]) \/ (Loud(t[4][1]) /\ (Written(t[4][1], "DONE") \/ Broken(t[4][1], "FAIL")))
  <2>1. ConfigProgram[4] = <<"DISABLE_SILENT_SKIP", RVs>> /\ 4 \in 1 .. Len(ConfigProgram) /\ 3 = 4 - 1
    BY DEF ConfigProgram, Always, Done, Ok, I
  <2>2. Moves("DISABLE_SILENT_SKIP", RVs, t[3], t[4])
    BY <1>1, <2>1, TraceStep
  <2> QED
    BY <1>5, <2>2 DEF Moves, Effect, Typed, Runs, Skipped, Quiet, Frame, Flagged, FlagOps, Fills, Safe, Proper, Left,
       Written, Broken, Mute, Loud
<1>7. \/ Left(t[5][1])
      \/ (Loud(t[5][1]) /\ (Written(t[5][1], "SKIPPED") \/ (Broken(t[5][1], "OK") /\ t[5][1].error = TRUE)))
  <2>1. ConfigProgram[5] = <<"ABORT_HWICAP", {"FAIL"}>> /\ 5 \in 1 .. Len(ConfigProgram) /\ 4 = 5 - 1
    BY DEF ConfigProgram, Always, Done, Ok, I
  <2>2. Moves("ABORT_HWICAP", {"FAIL"}, t[4], t[5])
    BY <1>1, <2>1, TraceStep
  <2> QED
    BY <1>6, <2>2 DEF Moves, Effect, Typed, Runs, Skipped, Quiet, Frame, Aborted, Fills, Safe, Proper, Left, Written,
       Broken, Loud
<1>8. \/ Left(t[6][1])
      \/ Loud(t[6][1]) /\ (Written(t[6][1], "SKIPPED") \/ (Broken(t[6][1], "OK") /\ t[6][1].http = "SEND_RESPONSE"))
  <2>1. ConfigProgram[6] = <<"UPDATE_HTTP_STATE", {"OK"}>> /\ 6 \in 1 .. Len(ConfigProgram) /\ 5 = 6 - 1
    BY DEF ConfigProgram, Always, Done, Ok, I
  <2>2. Moves("UPDATE_HTTP_STATE", {"OK"}, t[5], t[6])
    BY <1>1, <2>1, TraceStep
  <2> QED
    BY <1>7, <2>2 DEF Moves, Effect, Typed, Runs, Skipped, Quiet, Frame, Updated, Fills, Safe, Proper, Left, Written,
       Broken, Loud
<1>9. Left(t[7][1]) \/ (Loud(t[7][1]) /\ (Written(t[7][1], "SKIPPED") \/ Broken(t[7][1], "DONE")))
  <2>1. ConfigProgram[7] = <<"HANDLE_HTTP", {"OK"}>> /\ 7 \in 1 .. Len(ConfigProgram) /\ 6 = 7 - 1
    BY DEF ConfigProgram, Always, Done, Ok, I
  <2>2. Moves("HANDLE_HTTP", {"OK"}, t[6], t[7])
    BY <1>1, <2>1, TraceStep
  <2> QED
    BY <1>8, <2>2 DEF Moves, Effect, Typed, Runs, Skipped, Quiet, Frame, Handled, Fills, Safe, Proper, Left, Written,
       Broken, Parsed, Loud
<1>10. Left(t[8][1]) \/ (Loud(t[8][1]) /\ (Written(t[8][1], "SKIPPED") \/ Broken(t[8][1], "DONE")))
  <2>1. ConfigProgram[8] = <<"SEND_TCP_SESS", {"DONE"}>> /\ 8 \in 1 .. Len(ConfigProgram) /\ 7 = 8 - 1
    BY DEF ConfigProgram, Always, Done, Ok, I
  <2>2. Moves("SEND_TCP_SESS", {"DONE"}, t[7], t[8])
    BY <1>1, <2>1, TraceStep
  <2> QED
    BY <1>9, <2>2 DEF Moves, Effect, Typed, Runs, Skipped, Quiet, Frame, Yields, QuietOps, Fills, Safe, Proper, Left,
       Written, Broken, Loud
<1>11. Left(t[9][1]) \/ (Loud(t[9][1]) /\ (Written(t[9][1], "SKIPPED") \/ Broken(t[9][1], "DONE")))
  <2>1. ConfigProgram[9] = <<"SEND_BUFFER_TCP", {"DONE"}>> /\ 9 \in 1 .. Len(ConfigProgram) /\ 8 = 9 - 1
    BY DEF ConfigProgram, Always, Done, Ok, I
  <2>2. Moves("SEND_BUFFER_TCP", {"DONE"}, t[8], t[9])
    BY <1>1, <2>1, TraceStep
  <2> QED
    BY <1>10, <2>2 DEF Moves, Effect, Typed, Runs, Skipped, Quiet, Frame, Yields, QuietOps, Fills, Safe, Proper, Left,
       Written, Broken, Loud
<1>12. Left(t[10][1]) \/ (~t[10][1].silent /\ Over(t[10][1], "SKIPPED"))
  <2>1. ConfigProgram[10] = <<"FAIL", {"OK"}>> /\ 10 \in 1 .. Len(ConfigProgram) /\ 9 = 10 - 1
    BY DEF ConfigProgram, Always, Done, Ok, I
  <2>2. Moves("FAIL", {"OK"}, t[9], t[10])
    BY <1>1, <2>1, TraceStep
  <2> QED
    BY <1>11, <2>2 DEF Moves, Effect, Typed, Runs, Skipped, Quiet, Frame, Yields, QuietOps, Fills, Safe, Proper, Left,
       Written, Broken, Over, Loud
<1>13. Left(t[11][1]) \/ (~t[11][1].silent /\ Over(t[11][1], "SKIPPED"))
  <2>1. ConfigProgram[11] = <<"EXIT", {"FAIL"}>> /\ 11 \in 1 .. Len(ConfigProgram) /\ 10 = 11 - 1
    BY DEF ConfigProgram, Always, Done, Ok, I
  <2>2. Moves("EXIT", {"FAIL"}, t[10], t[11])
    BY <1>1, <2>1, TraceStep
  <2> QED
    BY <1>12, <2>2 DEF Moves, Effect, Typed, Runs, Skipped, Quiet, Frame, Flagged, FlagOps, Fills, Safe, Proper, Left, Over
<1>14. Left(t[12][1]) \/ Over(t[12][1], "OK")
  <2>1. ConfigProgram[12] = <<"DEACTIVATE_DECOUP", {"SKIPPED"}>> /\ 12 \in 1 .. Len(ConfigProgram) /\ 11 = 12 - 1
    BY DEF ConfigProgram, Always, Done, Ok, I
  <2>2. Moves("DEACTIVATE_DECOUP", {"SKIPPED"}, t[11], t[12])
    BY <1>1, <2>1, TraceStep
  <2> QED
    BY <1>13, <2>2 DEF Moves, Effect, Typed, Runs, Skipped, Quiet, Frame, Flagged, FlagOps, Fills, Safe, Proper, Left, Over
<1>15. Left(t[13][1]) \/ Over(t[13][1], "OK")
  <2>1. ConfigProgram[13] = <<"CLEAR_ROUTING_TABLE", {"OK"}>> /\ 13 \in 1 .. Len(ConfigProgram) /\ 12 = 13 - 1
    BY DEF ConfigProgram, Always, Done, Ok, I
  <2>2. Moves("CLEAR_ROUTING_TABLE", {"OK"}, t[12], t[13])
    BY <1>1, <2>1, TraceStep
  <2> QED
    BY <1>14, <2>2 DEF Moves, Effect, Typed, Runs, Skipped, Quiet, Frame, Yields, QuietOps, Fills, Safe, Proper, Left, Over
<1>16. Left(t[14][1]) \/ Over(t[14][1], "DONE")
  <2>1. ConfigProgram[14] = <<"DONE", {"OK"}>> /\ 14 \in 1 .. Len(ConfigProgram) /\ 13 = 14 - 1
    BY DEF ConfigProgram, Always, Done, Ok, I
  <2>2. Moves("DONE", {"OK"}, t[13], t[14])
    BY <1>1, <2>1, TraceStep
  <2> QED
    BY <1>15, <2>2 DEF Moves, Effect, Typed, Runs, Skipped, Quiet, Frame, Yields, QuietOps, Fills, Safe, Proper, Left, Over
<1>17. Left(t[15][1]) \/ (Over(t[15][1], "OK") /\ t[15][1].http = "REQUEST_COMPLETE")
  <2>1. ConfigProgram[15] = <<"UPDATE_HTTP_STATE", {"DONE"}>> /\ 15 \in 1 .. Len(ConfigProgram) /\ 14 = 15 - 1
    BY DEF ConfigProgram, Always, Done, Ok, I
  <2>2. Moves("UPDATE_HTTP_STATE", {"DONE"}, t[14], t[15])
    BY <1>1, <2>1, TraceStep
  <2> QED
    BY <1>16, <2>2 DEF Moves, Effect, Typed, Runs, Skipped, Quiet, Frame, Updated, Fills, Safe, Proper, Left, Over
<1>18. Left(t[16][1]) \/ Over(t[16][1], "DONE")
  <2>1. ConfigProgram[16] = <<"HANDLE_HTTP", {"OK"}>> /\ 16 \in 1 .. Len(ConfigProgram) /\ 15 = 16 - 1
    BY DEF ConfigProgram, Always, Done, Ok, I
  <2>2. Moves("HANDLE_HTTP", {"OK"}, t[15], t[16])
    BY <1>1, <2>1, TraceStep
  <2> QED
    BY <1>17, <2>2 DEF Moves, Effect, Typed, Runs, Skipped, Quiet, Frame, Handled, Fills, Safe, Proper, Left, Over, Parsed
<1>19. Left(t[17][1]) \/ Over(t[17][1], "DONE")
  <2>1. ConfigProgram[17] = <<"SEND_TCP_SESS", {"DONE"}>> /\ 17 \in 1 .. Len(ConfigProgram) /\ 16 = 17 - 1
    BY DEF ConfigProgram, Always, Done, Ok, I
  <2>2. Moves("SEND_TCP_SESS", {"DONE"}, t[16], t[17])
    BY <1>1, <2>1, TraceStep
  <2> QED
    BY <1>18, <2>2 DEF Moves, Effect, Typed, Runs, Skipped, Quiet, Frame, Yields, QuietOps, Fills, Safe, Proper, Left, Over
<1>20. Left(t[18][1]) \/ Over(t[18][1], "DONE")
  <2>1. ConfigProgram[18] = <<"DEACTIVATE_CONT_TCP", {"DONE"}>> /\ 18 \in 1 .. Len(ConfigProgram) /\ 17 = 18 - 1
    BY DEF ConfigProgram, Always, Done, Ok, I
  <2>2. Moves("DEACTIVATE_CONT_TCP", {"DONE"}, t[17], t[18])
    BY <1>1, <2>1, TraceStep
  <2> QED
    BY <1>19, <2>2 DEF Moves, Effect, Typed, Runs, Skipped, Quiet, Frame, Yields, QuietOps, Fills, Safe, Proper, Left, Over
<1>21. Left(t[19][1]) \/ Over(t[19][1], "DONE")
  <2>1. ConfigProgram[19] = <<"SEND_BUFFER_TCP", {"DONE"}>> /\ 19 \in 1 .. Len(ConfigProgram) /\ 18 = 19 - 1
    BY DEF ConfigProgram, Always, Done, Ok, I
  <2>2. Moves("SEND_BUFFER_TCP", {"DONE"}, t[18], t[19])
    BY <1>1, <2>1, TraceStep
  <2> QED
    BY <1>20, <2>2 DEF Moves, Effect, Typed, Runs, Skipped, Quiet, Frame, Yields, QuietOps, Fills, Safe, Proper, Left, Over
<1>22. Proper(t[20][1])
  <2>1. ConfigProgram[20] = <<"EXIT", {"DONE"}>> /\ 20 \in 1 .. Len(ConfigProgram) /\ 19 = 20 - 1
    BY DEF ConfigProgram, Always, Done, Ok, I
  <2>2. Moves("EXIT", {"DONE"}, t[19], t[20])
    BY <1>1, <2>1, TraceStep
  <2> QED
    BY <1>21, <2>2 DEF Moves, Effect, Typed, Runs, Skipped, Quiet, Frame, Flagged, FlagOps, Fills, Safe, Proper, Left, Over
<1>23. Executed(v, ConfigProgram) = t[20]
  BY <1>1 DEF Trace, ConfigProgram
<1> QED
  BY <1>22, <1>23

(***************************************************************************)
(* The programs of the global operations.                                  *)
(***************************************************************************)
LEMMA ExecutedKeeps ==
    ASSUME NEW v, Pair(v), NEW prog \in Seq(Instruction)
    PROVE  LET u == Executed(v, prog)
           IN  Stays(v, u) /\ Keeps(prog, v[1], u[1])
BY ExecutedTrace, TraceKeeps

Feeds == {"FIFO_TO_HWICAP"}
Decouples == {"ACTIVATE_DECOUP", "DEACTIVATE_DECOUP"}
Silences == {"ENABLE_SILENT_SKIP", "DISABLE_SILENT_SKIP"}

LEMMA NeverFeeds ==
    /\ \A prog \in {<<>>, OpeningProgram, WaitProgram, SendProgram, RoutingProgram, HeaderPart, RoutingPart} :
         Without(prog, Feeds) /\ Without(prog, Decouples)
    /\ \A prog \in {<<>>, OpeningProgram, WaitProgram, SendProgram} : Without(prog, {"HANDLE_HTTP"})
    /\ Without(RoutingPart, Silences)
<1> USE DEF Without, Feeds, Decouples, Silences, I, Always, Done, Ok
<1>1. Without(<<>>, Feeds) /\ Without(<<>>, Decouples) /\ Without(<<>>, {"HANDLE_HTTP"})
  OBVIOUS
<1>2. Without(OpeningProgram, Feeds) /\ Without(OpeningProgram, Decouples) /\ Without(OpeningProgram, {"HANDLE_HTTP"})
  BY DEF OpeningProgram
<1>3. Without(WaitProgram, Feeds) /\ Without(WaitProgram, Decouples) /\ Without(WaitProgram, {"HANDLE_HTTP"})
  BY DEF WaitProgram
<1>4. Without(SendProgram, Feeds) /\ Without(SendProgram, Decouples) /\ Without(SendProgram, {"HANDLE_HTTP"})
  BY DEF SendProgram
<1>5. Without(RoutingProgram, Feeds) /\ Without(RoutingProgram, Decouples)
  BY DEF RoutingProgram
<1>6. Without(HeaderPart, Feeds) /\ Without(HeaderPart, Decouples)
  BY DEF HeaderPart
<1>7. Without(RoutingPart, Feeds) /\ Without(RoutingPart, Decouples) /\ Without(RoutingPart, Silences)
  BY DEF RoutingPart
<1> HIDE DEF Without
<1> QED
  BY <1>1, <1>2, <1>3, <1>4, <1>5, <1>6, <1>7

\* A program that feeds nothing stays safe.
LEMMA SafeKept ==
    ASSUME NEW v, Pair(v), NEW prog \in Seq(Instruction), Without(prog, Feeds), Without(prog, Decouples), Safe(v[1])
    PROVE  LET u == Executed(v, prog)
           IN  Safe(u[1]) /\ u[1].decoup = v[1].decoup
BY ExecutedKeeps DEF Keeps, Feeds, Decouples, Fills, Safe

LEMMA FirstProgramRuns ==
    ASSUME NEW v, Pair(v), ~v[1].exit, v[1].req # "POST_CONFIG", Safe(v[1])
    PROVE  Proper(Executed(v, FirstProgram)[1])
<1>1. PICK a : a = Executed(v, HeaderPart)
  OBVIOUS
<1>2. PICK b : b = Executed(a, RoutingPart)
  OBVIOUS
<1>3. PICK c : c = Executed(b, ConfigPart)
  OBVIOUS
<1>4. Executed(v, FirstProgram) = c
  <2>1. HeaderPart \o RoutingPart \in Seq(Instruction)
    BY Instructions
  <2>2. Executed(v, FirstProgram) = Executed(Executed(v, HeaderPart \o RoutingPart), ConfigPart)
    BY <2>1, Instructions, ExecutedConcat DEF FirstProgram
  <2>3. Executed(v, HeaderPart \o RoutingPart) = b
    BY <1>1, <1>2, Instructions, ExecutedConcat
  <2> QED
    BY <1>3, <2>2, <2>3
<1>5. Pair(a) /\ Safe(a[1]) /\ (LeftPlain(a[1]) \/ HeaderDone(a[1]))
  BY <1>1, Instructions, NeverFeeds, ExecutedKeeps, SafeKept, HeaderPartRuns DEF Stays, Onward
<1>6. /\ Pair(b) /\ Safe(b[1])
      /\ LeftPlain(b[1]) \/ (Loud(b[1]) /\ (b[1].req = "POST_CONFIG" => b[1].rv = "SKIPPED"))
  <2>1. Stays(a, b) /\ Keeps(RoutingPart, a[1], b[1]) /\ Safe(b[1])
    BY <1>2, <1>5, Instructions, NeverFeeds, ExecutedKeeps, SafeKept
  <2>2. b[1].silent = a[1].silent
    BY <2>1, NeverFeeds DEF Keeps, Silences
  <2>3. CASE LeftPlain(a[1])
    BY <2>1, <2>3 DEF Stays, Onward, Keeps, LeftPlain
  <2>4. CASE HeaderDone(a[1]) /\ a[1].req = "POST_CONFIG"
    <3>1. Passes(b[1], "SKIPPED")
      BY <1>2, <1>5, <2>4, RoutingPartRuns
    <3> QED
      BY <2>1, <3>1 DEF Stays, Onward, Passes
  <2>5. CASE HeaderDone(a[1]) /\ a[1].req # "POST_CONFIG"
    BY <2>1, <2>2, <2>5 DEF Stays, Onward, Keeps, HeaderDone, LeftPlain, Loud
  <2> QED
    BY <1>5, <2>3, <2>4, <2>5
<1>7. CASE LeftPlain(b[1])
  <2>1. Keeps(ConfigPart, b[1], c[1])
    BY <1>3, <1>6, Instructions, ExecutedKeeps
  <2> QED
    BY <1>4, <1>6, <1>7, <2>1 DEF Keeps, LeftPlain, Proper, Fills, Safe
<1>8. CASE Loud(b[1]) /\ (b[1].req = "POST_CONFIG" => b[1].rv = "SKIPPED")
  BY <1>3, <1>4, <1>6, <1>8, ConfigPartRuns DEF Loud
<1> QED
  BY <1>6, <1>7, <1>8

\* The program of a request is made for its type, and the role is to be decoupled
\* while a configuration is under way.
Configures(f) == f.op = "TCP_HTTP" /\ ~f.done /\ f.req = "POST_CONFIG"

Programmed(f) ==
    \/ f.prog \in {<<>>, SendProgram}
    \/ /\ f.op = "TCP_HTTP" /\ ~f.done
       /\ \E first \in {<<>>, OpeningProgram}, wait \in {<<>>, WaitProgram} :
            \/ f.req # "POST_CONFIG" /\ f.prog \in {first \o wait \o RoutingProgram, first \o wait \o FirstProgram}
            \/ f.req = "POST_CONFIG" /\ f.prog = first \o wait \o ConfigProgram

Finishes(v, u) ==
    Stays(v, u) /\ Safe(u[1]) /\ (Configures(u[1]) => u[1].decoup \/ u[1].rv = "DONE")

\* What is before the work on a request only makes it ready.
LEMMA BeginRuns ==
    ASSUME NEW v, Pair(v), Safe(v[1]), NEW prog \in {<<>>, OpeningProgram, WaitProgram, SendProgram}
    PROVE  LET u == Executed(v, prog)
           IN  Stays(v, u) /\ Safe(u[1]) /\ u[1].decoup = v[1].decoup /\ u[1].req = v[1].req
<1>1. prog \in Seq(Instruction)
  BY Instructions
<1>2. Without(prog, Feeds) /\ Without(prog, Decouples) /\ Without(prog, {"HANDLE_HTTP"})
  BY NeverFeeds
<1> QED
  BY <1>1, <1>2, ExecutedKeeps, SafeKept DEF Keeps

LEMMA ProgramRuns ==
    ASSUME NEW v, Pair(v), ~v[1].exit, Safe(v[1]), Programmed(v[1]), Configures(v[1]) => v[1].decoup
    PROVE  Finishes(v, Executed(v, v[1].prog))
<1>1. CASE v[1].prog \in {<<>>, SendProgram}
  BY <1>1, BeginRuns DEF Finishes, Configures, Stays
<1>2. ASSUME NEW first \in {<<>>, OpeningProgram}, NEW wait \in {<<>>, WaitProgram},
             NEW work,
             v[1].prog = first \o wait \o work, v[1].op = "TCP_HTTP", ~v[1].done,
             \/ v[1].req # "POST_CONFIG" /\ work \in {RoutingProgram, FirstProgram}
             \/ v[1].req = "POST_CONFIG" /\ work = ConfigProgram
      PROVE  Finishes(v, Executed(v, v[1].prog))
  <2>1. /\ first \in Seq(Instruction) /\ wait \in Seq(Instruction) /\ first \o wait \in Seq(Instruction)
        /\ work \in Seq(Instruction)
    <3>1. first \in Seq(Instruction) /\ wait \in Seq(Instruction)
      BY Instructions
    <3>2. first \o wait \in Seq(Instruction)
      BY <3>1
    <3>3. work \in Seq(Instruction)
      BY <1>2, Instructions
    <3> QED
      BY <3>1, <3>2, <3>3
  <2>2. PICK a : a = Executed(v, first)
    OBVIOUS
  <2>3. PICK b : b = Executed(a, wait)
    OBVIOUS
  <2>4. PICK c : c = Executed(b, work)
    OBVIOUS
  <2>5. Executed(v, v[1].prog) = c
    <3>1. Executed(v, first \o wait) = b
      BY <2>1, <2>2, <2>3, ExecutedConcat
    <3>2. Executed(v, (first \o wait) \o work) = Executed(Executed(v, first \o wait), work)
      BY <2>1, ExecutedConcat
    <3> QED
      BY <1>2, <2>4, <3>1, <3>2
  <2>6. Stays(v, a) /\ Safe(a[1]) /\ a[1].decoup = v[1].decoup /\ a[1].req = v[1].req
    BY <2>2, BeginRuns
  <2>7. Stays(a, b) /\ Safe(b[1]) /\ b[1].decoup = v[1].decoup /\ b[1].req = v[1].req
    BY <2>3, <2>6, BeginRuns DEF Stays, Onward
  <2>8. Stays(b, c) /\ Keeps(work, b[1], c[1])
    BY <2>1, <2>4, <2>7, ExecutedKeeps DEF Stays, Onward
  <2>9. Pair(b) /\ Stays(v, c)
    BY <2>6, <2>7, <2>8 DEF Stays, Onward
  <2>10. Safe(c[1]) /\ (Configures(c[1]) => c[1].decoup \/ c[1].rv = "DONE")
    <3>1. CASE b[1].exit
      BY <1>2, <2>7, <2>8, <3>1 DEF Keeps, Fills, Safe, Configures
    <3>2. CASE ~b[1].exit /\ v[1].req # "POST_CONFIG" /\ work = RoutingProgram
      <4>1. Safe(c[1])
        BY <2>1, <2>4, <2>7, <2>9, <3>2, NeverFeeds, SafeKept
      <4>2. c[1].req # "POST_CONFIG"
        BY <2>4, <2>7, <2>9, <3>2, RoutingProgramRuns
      <4> QED
        BY <4>1, <4>2 DEF Configures
    <3>3. CASE ~b[1].exit /\ v[1].req # "POST_CONFIG" /\ work = FirstProgram
      <4>1. Proper(c[1])
        BY <2>4, <2>7, <2>9, <3>3, FirstProgramRuns
      <4> QED
        BY <4>1 DEF Proper, Configures
    <3>4. CASE ~b[1].exit /\ v[1].req = "POST_CONFIG" /\ work = ConfigProgram
      <4>1. b[1].decoup
        BY <1>2, <2>7, <3>4 DEF Configures
      <4>2. Proper(c[1])
        BY <2>4, <2>9, <3>4, <4>1, ConfigProgramRuns
      <4> QED
        BY <4>2 DEF Proper, Configures
    <3>5. b[1].exit \in BOOLEAN
      BY <2>9 DEF Pair, Shape
    <3> QED
      BY <1>2, <3>1, <3>2, <3>3, <3>4, <3>5
  <2> QED
    BY <2>5, <2>9, <2>10 DEF Finishes
<1> QED
  BY <1>1, <1>2, Zenon DEF Programmed

(***************************************************************************)
(* The inductive invariant.                                                *)
(***************************************************************************)
IInv ==
    /\ Shape(s) /\ s.op \in {"IDLE", "TCP_HTTP"} /\ "words" \in DOMAIN cap
    /\ Safe(s)
    /\ Configures(s) => s.decoup
    /\ pc # "jobs" /\ s.decoup => decoup
    /\ pc = "write" => s.icap = "WRITE"
    /\ Programmed(s)

\* Most steps change none of the variables that matter.
Same(f, g) ==
    /\ Fields \subseteq DOMAIN g
    /\ g.op = f.op /\ g.prog = f.prog /\ g.done = f.done /\ g.req = f.req /\ g.decoup = f.decoup
    /\ g.rv = f.rv /\ g.silent = f.silent /\ g.exit = f.exit
    /\ g.icap \in {f.icap, "IDLE", "ERROR", "DONE"}
    /\ g.icap = "DONE" => f.icap \in Fills

LEMMA SameKeeps ==
    ASSUME NEW f, NEW g, Shape(f), Same(f, g)
    PROVE  /\ Shape(g)
           /\ Safe(f) => Safe(g)
           /\ Configures(g) => Configures(f) /\ g.decoup = f.decoup
           /\ Programmed(f) => Programmed(g)
<1>1. Shape(g) /\ (Safe(f) => Safe(g)) /\ (Configures(g) => Configures(f) /\ g.decoup = f.decoup)
  BY DEF Same, Shape, Fills, Safe, Configures
<1>2. Programmed(f) => Programmed(g)
  BY DEF Fills, Same, Programmed
<1> QED
  BY <1>1, <1>2

LEMMA InitIInv == Init => IInv
<1> SUFFICES ASSUME Init
             PROVE  IInv
  OBVIOUS
<1>1. Shape(s) /\ s.op = "IDLE" /\ Safe(s) /\ ~Configures(s) /\ Programmed(s) /\ ~s.decoup
  <2>1. s = FsmInit
    BY DEF Init
  <2>2. Shape(s) /\ s.icap = "RESET" /\ s.op = "IDLE" /\ s.prog = <<>> /\ s.decoup = FALSE
    BY <2>1 DEF FsmInit, Shape, Fields, RVs, ReqCode
  <2> QED
    BY <2>2 DEF Fills, Safe, Configures, Programmed
<1>2. "words" \in DOMAIN cap
  BY DEF Init, CapInit
<1> QED
  BY <1>1, <1>2 DEF Init, IInv

\* The phase Plan.
LEMMA RestartedReady ==
    ASSUME NEW f, Shape(f), Safe(f), f.prog = <<>>
    PROVE  LET g == Restarted(f)
           IN  /\ Shape(g) /\ Safe(g) /\ g.decoup = f.decoup /\ ~Configures(g) /\ ~g.done
               /\ g.prog \in {<<>>, OpeningProgram} /\ g.op \in {"IDLE", "TCP_HTTP"} /\ (g.op = "IDLE" => g.prog = <<>>)
<1> DEFINE idle == [f EXCEPT !.op = "IDLE", !.done = FALSE, !.error = FALSE, !.invalid = FALSE, !.tcp = FALSE,
                             !.cont = FALSE, !.prog = <<>>]
           busy == [idle EXCEPT !.op = "TCP_HTTP", !.updated = FALSE, !.sessTx = "RESET", !.dataTx = "RESET", !.sess = 0,
                                !.http = "IDLE", !.req = "REQ_INVALID", !.prog = OpeningProgram]
<1>1. Restarted(f) \in {idle, busy}
  BY DEF Restarted
<1>2. /\ Shape(idle) /\ idle.op = "IDLE" /\ ~idle.done /\ idle.icap = f.icap /\ idle.decoup = f.decoup /\ idle.prog = <<>>
  BY DEF Shape, Fields
<1>3. /\ Shape(busy) /\ busy.op = "TCP_HTTP" /\ ~busy.done /\ busy.icap = f.icap /\ busy.decoup = f.decoup
      /\ busy.req = "REQ_INVALID" /\ busy.prog = OpeningProgram
  BY DEF Shape, Fields, ReqCode
<1> HIDE DEF idle, busy
<1> QED
  BY <1>1, <1>2, <1>3 DEF Fills, Safe, Configures

LEMMA PlannedReady ==
    ASSUME NEW f, Shape(f), Safe(f), Configures(f) => f.decoup, f.op = "TCP_HTTP", ~f.done,
           f.prog \in {<<>>, OpeningProgram}
    PROVE  LET g == Planned(f)
           IN  /\ Shape(g) /\ Safe(g) /\ g.decoup = f.decoup /\ (Configures(g) => g.decoup)
               /\ g.op = "TCP_HTTP" /\ Programmed(g)
<1>1. PICK wait \in {<<>>, WaitProgram}, work \in {RoutingProgram, ConfigProgram, FirstProgram} :
        /\ Planned(f) = [f EXCEPT !.tcp = TRUE, !.prog = IF f.wasAbort \/ f.error THEN <<>> ELSE @ \o wait \o work]
        /\ \/ f.req # "POST_CONFIG" /\ work \in {RoutingProgram, FirstProgram}
           \/ f.req = "POST_CONFIG" /\ work = ConfigProgram
  <2> DEFINE wait == IF f.updated THEN <<>> ELSE WaitProgram
             work == CASE f.req = "POST_ROUTING" -> RoutingProgram
                       [] f.req = "POST_CONFIG" -> ConfigProgram
                       [] OTHER -> FirstProgram
  <2>1. Planned(f) = [f EXCEPT !.tcp = TRUE, !.prog = IF f.wasAbort \/ f.error THEN <<>> ELSE @ \o wait \o work]
    BY DEF Planned
  <2>2. wait \in {<<>>, WaitProgram}
    OBVIOUS
  <2>3. \/ f.req # "POST_CONFIG" /\ work \in {RoutingProgram, FirstProgram}
        \/ f.req = "POST_CONFIG" /\ work = ConfigProgram
    OBVIOUS
  <2> HIDE DEF wait, work
  <2> QED
    BY <2>1, <2>2, <2>3
<1> DEFINE g == Planned(f)
<1>2. /\ Shape(g) /\ g.decoup = f.decoup /\ g.icap = f.icap /\ g.req = f.req /\ g.op = f.op /\ g.done = f.done
      /\ g.prog \in {<<>>, f.prog \o wait \o work}
  BY <1>1 DEF Shape, Fields
<1> HIDE DEF g
<1>3. Safe(g) /\ (Configures(g) => g.decoup)
  BY <1>2 DEF Fills, Safe, Configures
<1>4. Programmed(g)
  BY <1>1, <1>2, Zenon DEF Programmed
<1> QED
  BY <1>2, <1>3, <1>4 DEF g

LEMMA PlanIInv == IInv /\ Plan => IInv'
<1> SUFFICES ASSUME IInv, Plan
             PROVE  IInv'
  OBVIOUS
<1> DEFINE f == [s EXCEPT !.wasAbort = cap.abort, !.prog = <<>>]
<1>1. PICK idle : /\ idle \in {f, Restarted(f)}
                  /\ s' = CASE idle.op = "IDLE" -> idle
                            [] idle.op # "IDLE" /\ idle.done -> [idle EXCEPT !.tcp = TRUE, !.prog = SendProgram]
                            [] OTHER -> Planned(idle)
  BY DEF Plan
<1>2. /\ Shape(f) /\ Safe(f) /\ f.decoup = s.decoup /\ (Configures(f) => f.decoup) /\ f.prog = <<>>
      /\ f.op \in {"IDLE", "TCP_HTTP"}
  <2>1. /\ Shape(f) /\ f.decoup = s.decoup /\ f.icap = s.icap /\ f.op = s.op /\ f.done = s.done /\ f.req = s.req
        /\ f.prog = <<>>
    BY DEF IInv, Shape, Fields
  <2> HIDE DEF f
  <2> QED
    BY <2>1 DEF IInv, Fills, Safe, Configures
<1> HIDE DEF f
<1>3. /\ Shape(idle) /\ Safe(idle) /\ idle.decoup = s.decoup /\ (Configures(idle) => idle.decoup)
      /\ idle.prog \in {<<>>, OpeningProgram} /\ idle.op \in {"IDLE", "TCP_HTTP"}
      /\ idle.op = "IDLE" => idle.prog = <<>>
  BY <1>1, <1>2, RestartedReady
<1>4. /\ Shape(s') /\ Safe(s') /\ s'.decoup = s.decoup /\ (Configures(s') => s'.decoup) /\ Programmed(s')
      /\ s'.op \in {"IDLE", "TCP_HTTP"}
  <2>1. CASE idle.op = "IDLE"
    BY <1>1, <1>3, <2>1 DEF Programmed
  <2>2. CASE idle.op # "IDLE" /\ idle.done
    <3> DEFINE g == [idle EXCEPT !.tcp = TRUE, !.prog = SendProgram]
    <3>1. s' = g
      BY <1>1, <2>2
    <3>2. /\ Shape(g) /\ g.decoup = idle.decoup /\ g.icap = idle.icap /\ g.op = idle.op /\ g.done = idle.done
          /\ g.prog = SendProgram
      BY <1>3 DEF Shape, Fields
    <3> HIDE DEF g
    <3> QED
      BY <1>3, <2>2, <3>1, <3>2 DEF Fills, Safe, Configures, Programmed
  <2>3. CASE idle.op # "IDLE" /\ ~idle.done
    <3>1. s' = Planned(idle)
      BY <1>1, <2>3
    <3> QED
      BY <1>3, <2>3, <3>1, PlannedReady
  <2> QED
    BY <2>1, <2>2, <2>3
<1>5. pc' \notin {"jobs", "write"} /\ cap' = cap /\ decoup' = decoup /\ pc # "jobs"
  BY DEF Plan
<1> QED
  BY <1>4, <1>5 DEF IInv

\* The phase Execute.
LEMMA ExecuteIInv == IInv /\ Execute => IInv' /\ cap'.words = cap.words
<1> SUFFICES ASSUME IInv, Execute
             PROVE  IInv' /\ cap'.words = cap.words
  OBVIOUS
<1> DEFINE f == [s EXCEPT !.rv = "OK", !.silent = FALSE, !.exit = FALSE]
           tcp == s.op = "TCP_HTTP"
<1>1. PICK u : /\ u = Executed(<<f, cap>>, s.prog)
               /\ s' = [u[1] EXCEPT !.done = @ \/ (tcp /\ u[1].rv = "DONE"), !.error = @ \/ (tcp /\ u[1].rv = "FAIL"),
                                    !.rv = "OK", !.silent = FALSE, !.exit = FALSE, !.prog = <<>>]
               /\ cap' = u[2]
  BY DEF Execute
<1>2. /\ Shape(f) /\ f.op = s.op /\ f.done = s.done /\ f.icap = s.icap /\ f.decoup = s.decoup /\ f.req = s.req
      /\ f.prog = s.prog /\ ~f.exit
  BY DEF IInv, Shape, Fields, RVs
<1> HIDE DEF f
<1>3. Safe(f) /\ (Configures(f) => f.decoup) /\ Programmed(f)
  <2>1. Safe(f) /\ (Configures(f) => f.decoup)
    BY <1>2 DEF IInv, Fills, Safe, Configures
  <2>2. Programmed(f)
    BY <1>2 DEF IInv, Programmed
  <2> QED
    BY <2>1, <2>2
<1>4. Finishes(<<f, cap>>, u)
  <2> DEFINE v == <<f, cap>>
  <2>1. Pair(v) /\ v[1] = f
    BY <1>2 DEF IInv, Pair
  <2>2. u = Executed(v, v[1].prog)
    BY <1>1, <1>2
  <2> HIDE DEF v
  <2>3. Finishes(v, u)
    BY <1>2, <1>3, <2>1, <2>2, ProgramRuns
  <2> QED
    BY <2>3 DEF v
<1>5. /\ Shape(u[1]) /\ "words" \in DOMAIN u[2] /\ u[2].words = cap.words
      /\ u[1].op = s.op /\ u[1].done = s.done /\ Safe(u[1])
      /\ Configures(u[1]) => u[1].decoup \/ u[1].rv = "DONE"
  BY <1>2, <1>4 DEF Finishes, Stays, Onward, Pair
<1> HIDE DEF tcp
<1>6. /\ Shape(s') /\ s'.op = u[1].op /\ s'.req = u[1].req /\ s'.icap = u[1].icap /\ s'.decoup = u[1].decoup
      /\ s'.done = (u[1].done \/ (tcp /\ u[1].rv = "DONE")) /\ s'.prog = <<>>
  BY <1>1, <1>5 DEF Shape, Fields, RVs
<1>7. Safe(s') /\ (Configures(s') => s'.decoup) /\ Programmed(s')
  BY <1>5, <1>6 DEF Fills, Safe, Configures, Programmed, tcp
<1>8. pc' = "jobs"
  BY DEF Execute
<1> QED
  BY <1>1, <1>5, <1>6, <1>7, <1>8 DEF IInv

\* The other steps.
LEMMA LinkSame ==
    ASSUME Shape(s), LinkIdle \/ LinkWait \/ LinkConfig \/ LinkMrt \/ LinkState \/ LinkSaved
    PROVE  Same(s, s')
<1> USE DEF LinkStep, Fills, Same, Shape, Fields
<1>1. CASE LinkIdle
  BY <1>1 DEF LinkIdle
<1>2. CASE LinkWait
  BY <1>2 DEF LinkWait
<1>3. CASE LinkConfig
  BY <1>3 DEF LinkConfig
<1>4. CASE LinkMrt
  BY <1>4 DEF LinkMrt
<1>5. CASE LinkState
  BY <1>5 DEF LinkState
<1>6. CASE LinkSaved
  BY <1>6 DEF LinkSaved
<1> QED
  BY <1>1, <1>2, <1>3, <1>4, <1>5, <1>6

LEMMA TcpSame ==
    ASSUME Shape(s), RxSess \/ TxSess \/ RxData \/ TxData
    PROVE  Same(s, s') /\ pc # "jobs" /\ pc' \notin {"jobs", "write"} /\ cap' = cap /\ decoup' = decoup
<1>1. CASE RxSess
  BY <1>1 DEF RxSess, Fills, Same, Shape, Fields
<1>2. CASE TxSess
  BY <1>2 DEF TxSess, Fills, Same, Shape, Fields
<1>3. CASE RxData
  <2>1. \A w : Same(s, Received(s, w))
    BY DEF Received, Fills, Same, Shape, Fields
  <2>2. Same(s, s')
    BY <1>3, <2>1 DEF RxData, Fills, Same, Shape, Fields
  <2>3. pc = "data" /\ pc' \in {"data", "dataTx"} /\ cap' = cap /\ decoup' = decoup
    BY <1>3 DEF RxData
  <2> QED
    BY <2>2, <2>3
<1>4. CASE TxData
  BY <1>4 DEF TxData, Fills, Same, Shape, Fields
<1> QED
  BY <1>1, <1>2, <1>3, <1>4

LEMMA IcapSame ==
    ASSUME Shape(s), "words" \in DOMAIN cap, Icap
    PROVE  /\ Same(s, s') /\ pc # "jobs" /\ pc' # "jobs" /\ decoup' = decoup
           /\ cap'.words = cap.words /\ "words" \in DOMAIN cap'
           /\ pc' = "write" => s'.icap = "WRITE"
<1>1. pc = "icap" /\ decoup' = decoup
  BY DEF Icap
<1>2. \/ s' = [s EXCEPT !.icap = "ERROR"] /\ pc' = "execute" /\ cap' = cap
      \/ s' = s /\ s.icap = "WRITE" /\ pc' = "write" /\ cap' = [cap EXCEPT !.write = TRUE]
      \/ s' = [s EXCEPT !.icap = "IDLE"] /\ pc' = "execute" /\ cap' = cap
      \/ s' = [s EXCEPT !.icap = "IDLE", !.fifo = <<>>] /\ pc' = "execute" /\ cap' = cap
      \/ s' = s /\ pc' = "execute" /\ cap' = cap
  BY DEF Icap
<1> QED
  BY <1>1, <1>2 DEF Fills, Same, Shape, Fields

LEMMA IcapWriteSame ==
    ASSUME Shape(s), "words" \in DOMAIN cap, IcapWrite, pc = "write" => s.icap = "WRITE"
    PROVE  /\ Same(s, s') /\ pc = "write" /\ pc' # "jobs" /\ decoup' = decoup
           /\ "words" \in DOMAIN cap'
           /\ pc' = "write" => s'.icap = s.icap
<1>1. pc = "write" /\ decoup' = decoup
  BY DEF IcapWrite
<1>2. \/ s' = s /\ pc' = "execute" /\ cap' = cap
      \/ /\ s' = [s EXCEPT !.fifo = Tail(@), !.icap = "DONE", !.nls = IF s.fifoOnly THEN (@ + 1) % 4 ELSE @]
         /\ pc' = "execute" /\ cap' = cap
      \/ /\ s' = [s EXCEPT !.fifo = Tail(@)] /\ pc' = pc
         /\ cap' = [cap EXCEPT !.fill = @ + 1, !.words = Append(@, Head(s.fifo).v)]
  BY DEF IcapWrite
<1> QED
  BY <1>1, <1>2 DEF Fills, Same, Shape, Fields

\* The HWICAP, the clients, the NAL and the PSoC.
Others == Finite \/ HwicapWrites \/ Second \/ PsocResets \/ NalRestarts

LEMMA OthersSame ==
    ASSUME Others, "words" \in DOMAIN cap
    PROVE  s' = s /\ pc' = pc /\ decoup' = decoup /\ cap'.words = cap.words /\ "words" \in DOMAIN cap'
BY DEF Others, Finite, HwicapWrites, Second, PsocResets, NalRestarts, ClientAsks, NalSession, NalWord,
       NalAnswer, PsocReleases

LEMMA NextIInv == IInv /\ [Next]_vars => IInv'
<1> SUFFICES ASSUME IInv, [Next]_vars
             PROVE  IInv'
  OBVIOUS
<1>1. Shape(s)
  BY DEF IInv
<1>2. CASE Plan
  BY <1>2, PlanIInv
<1>3. CASE RxSess \/ TxSess \/ RxData \/ TxData
  BY <1>1, <1>3, TcpSame, SameKeeps DEF IInv, Fills, Same
<1>4. CASE Icap
  BY <1>1, <1>4, IcapSame, SameKeeps DEF IInv, Fills, Same
<1>5. CASE IcapWrite
  BY <1>1, <1>5, IcapWriteSame, SameKeeps DEF IInv, Fills, Same
<1>6. CASE Execute
  BY <1>6, ExecuteIInv
<1>7. CASE Jobs
  <2>1. pc' = "plan" /\ cap' = cap /\ decoup' = (s.decoup \/ s.wasAbort) /\ Same(s, s')
    <3>1. CASE LinkRests
      BY <1>1, <1>7, <3>1 DEF Jobs, Fills, Same, Shape
    <3>2. CASE ~LinkRests
      BY <1>1, <1>7, <3>2, LinkSame DEF Jobs
    <3> QED
      BY <1>7, <3>1, <3>2 DEF Jobs
  <2> QED
    BY <1>1, <2>1, SameKeeps DEF IInv, Fills, Same
<1>8. CASE Others
  BY <1>8, OthersSame DEF IInv, Fills, Safe, Configures, Programmed
<1>9. CASE UNCHANGED vars
  BY <1>9 DEF vars, net, IInv, Fills, Safe, Configures, Programmed
<1> QED
  BY <1>2, <1>3, <1>4, <1>5, <1>6, <1>7, <1>8, <1>9 DEF Next, FmcStep, Others

(***************************************************************************)
(* The theorem.                                                            *)
(***************************************************************************)
LEMMA StepDecoupled ==
    IInv /\ [Next]_vars =>
        [/\ cap'.words # cap.words => decoup
         /\ cap'.fill < cap.fill /\ Feeding => decoup]_vars
<1>1. ASSUME IInv, Next, cap'.words # cap.words
      PROVE  decoup
  <2>1. IcapWrite
    BY <1>1, ExecuteIInv, TcpSame, IcapSame, OthersSame DEF IInv, Next, FmcStep, Others, Plan, Jobs
  <2>2. pc = "write"
    BY <2>1 DEF IcapWrite
  <2> QED
    BY <1>1, <2>2 DEF IInv, Fills, Safe
<1>2. ASSUME IInv, Feeding
      PROVE  decoup
  BY <1>2 DEF IInv, Feeding, Fills, Safe
<1> QED
  BY <1>1, <1>2

THEOREM IInvHolds == Spec => []IInv
<1>1. Init => IInv
  BY InitIInv
<1>2. IInv /\ [Next]_vars => IInv'
  BY NextIInv
<1> QED
  BY <1>1, <1>2, PTL DEF Spec

\* While a configuration is fed to the HWICAP, until OP_FIFO_TO_HWICAP takes it as
\* done, the HWICAP takes a word, and writes one into the fabric, only if the role is
\* decoupled, whatever the requests, their segments and the sizes of the buffers are.
\* (fmc.cpp, the order of OP_ACTIVATE_DECOUP, OP_FIFO_TO_HWICAP, OP_DEACTIVATE_DECOUP,
\* setDecoup and fsmHwicap)
THEOREM WrittenDecoupledHolds == Spec => WrittenDecoupled
<1>1. IInv /\ [Next]_vars =>
          [/\ cap'.words # cap.words => decoup
           /\ cap'.fill < cap.fill /\ Feeding => decoup]_vars
  BY StepDecoupled
<1> QED
  BY <1>1, IInvHolds, PTL DEF Spec, WrittenDecoupled

=============================================================================
