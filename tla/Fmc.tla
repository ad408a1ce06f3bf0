-------------------------------- MODULE Fmc --------------------------------
(***************************************************************************)
(* The FPGA management core (fmc.cpp, http.cpp) in TCP mode.  fmc() is     *)
(* called over and over; one call, an iteration, makes a program for the   *)
(* current global operation (Plan), moves the TCP state machines (RxSess,  *)
(* TxSess, RxData, TxData) and the one that feeds the HWICAP (Icap), runs  *)
(* the program (Execute) and does the every-day jobs (Jobs): decoupling of *)
(* the role, and the control link that mirrors the message routing table   *)
(* and the rank in the NAL.  The rest of the world moves between any two   *)
(* of these phases.                                                        *)
(*                                                                         *)
(* A network word is one record [t, v, r, last]: the path of a request, a  *)
(* blank line ("nl", \r\n\r\n), a line of a routing table or a word of a   *)
(* configuration.  Bytes, byte order, displays and messages are left out.  *)
(***************************************************************************)
EXTENDS Integers, Sequences

CONSTANTS
    MaxRank,        \* MAX_MRT_SIZE - 1
    NoIp,           \* the value of an empty entry of the table
    BufSize,        \* words of bufferIn
    FifoDepth,      \* words of internal_icap_fifo
    HwDepth,        \* words of the FIFO of the HWICAP
    Depth,          \* depth of the streams to and from the NAL
    VersionMod,     \* width of the version of the table
    Works           \* the workloads: [reqs, eos, restarts, resets]; a request is
                    \* [sess, segs], its session and its words in TCP segments

ASSUME FmcAssumption == \A n \in {MaxRank, BufSize, FifoDepth, HwDepth, Depth, VersionMod} : n \in Nat \ {0}

VARIABLES
    pc,             \* the phase of the iteration
    s,              \* the static variables of fmc.cpp and http.cpp, and the program
    rxSess, rxData, \* streams from the NAL: session ids and words
    txSess, txData, \* streams to the NAL: session ids and responses
    cap,            \* the HWICAP: eos, write, abort, fill level, and the words it took
    decoup,         \* poDECOUP_activate
    nal,            \* what the control link wrote: [mrt, version, rank]
    env             \* the clients, the PSoC and the clock

vars == <<pc, s, rxSess, rxData, txSess, txData, cap, decoup, nal, env>>
net == <<rxSess, rxData, txSess, txData>>

RVs == {"OK", "FAIL", "SKIPPED", "NOT_COMPLETE", "PARTIAL_COMPLETE", "DONE", "USER"}
Ranks == 0..MaxRank
None == 0      \* no response
Stray == 1     \* a word behind the end of a response

(***************************************************************************)
(* The programs: an instruction is executed if the last return value is in *)
(* its mask.                                                               *)
(***************************************************************************)
I(op, mask) == <<op, mask>>
Always(op) == I(op, RVs)
Done(op) == I(op, {"DONE"})
Ok(op) == I(op, {"OK"})

OpeningProgram == <<Always("CLEAR_IN_BUFFER"), Always("CLEAR_OUT_BUFFER"), Always("TCP_CNT_RESET")>>

WaitProgram == <<Always("WAIT_FOR_TCP_SESS"), I("EXIT", {"NOT_COMPLETE"})>>

\* While the response is on its way.
SendProgram == <<Always("SEND_TCP_SESS"), Always("SEND_BUFFER_TCP")>>

RoutingProgram ==
    <<Always("ENABLE_SILENT_SKIP"), Always("FILL_BUFFER_TCP"), I("EXIT", {"NOT_COMPLETE", "PARTIAL_COMPLETE", "FAIL"}),
      I("BUFFER_TO_ROUTING", {"DONE", "OK"}), I("EXIT", {"NOT_COMPLETE"}), I("UPDATE_HTTP_STATE", {"DONE", "FAIL"}),
      Always("DISABLE_SILENT_SKIP"), Ok("HANDLE_HTTP"), Done("SEND_TCP_SESS"), Done("DEACTIVATE_CONT_TCP"), Done("SEND_BUFFER_TCP")>>

ConfigProgram ==
    <<Always("ENABLE_SILENT_SKIP"), Always("FIFO_TO_HWICAP"), I("EXIT", {"OK", "NOT_COMPLETE"}), Always("DISABLE_SILENT_SKIP"),
      I("ABORT_HWICAP", {"FAIL"}), Ok("UPDATE_HTTP_STATE"), Ok("HANDLE_HTTP"), Done("SEND_TCP_SESS"), Done("SEND_BUFFER_TCP"),
      Ok("FAIL"), I("EXIT", {"FAIL"}),
      I("DEACTIVATE_DECOUP", {"SKIPPED"}), Ok("CLEAR_ROUTING_TABLE"), Ok("DONE"), Done("UPDATE_HTTP_STATE"), Ok("HANDLE_HTTP"),
      Done("SEND_TCP_SESS"), Done("DEACTIVATE_CONT_TCP"), Done("SEND_BUFFER_TCP"), Done("EXIT")>>

HeaderPart ==
    <<Always("FILL_BUFFER_TCP"), Always("ENABLE_SILENT_SKIP"), I("EXIT", {"NOT_COMPLETE", "PARTIAL_COMPLETE", "FAIL"}),
      I("HANDLE_HTTP", {"DONE", "OK"}), I("HANDLE_HTTP", {"USER"}), Done("SEND_TCP_SESS"), Done("SEND_BUFFER_TCP"), Done("EXIT"),
      Always("DISABLE_SILENT_SKIP"), I("COPY_REQTYPE_TO_RETURN", {"PARTIAL_COMPLETE"}), Always("ENABLE_SILENT_SKIP"),
      I("EXIT", {"SKIPPED"}), Always("DISABLE_SILENT_SKIP")>>

\* The request types are return values, too: POST_ROUTING is DONE, POST_CONFIG is FAIL.
RoutingPart ==
    <<Done("BUFFER_TO_ROUTING"), I("UPDATE_HTTP_STATE", {"DONE", "FAIL"}), Ok("HANDLE_HTTP"), Done("SEND_TCP_SESS"),
      Done("SEND_BUFFER_TCP"), Done("EXIT"),
      Always("ACTIVATE_CONT_TCP"), Always("TCP_RX_STOP_ON_EOP"), I("COPY_REQTYPE_TO_RETURN", {"SKIPPED"}), Done("OK"), Ok("EXIT")>>

\* Mutant of DecoupMask: the mask of a routing table.
DecoupMaskOk == {"OK"}

\* Only a configuration comes here with a skipped instruction.
DecoupMask == {"SKIPPED"}

ConfigPart ==
    <<I("ACTIVATE_DECOUP", DecoupMask), Ok("FIFO_TO_HWICAP"), Always("ENABLE_SILENT_SKIP"), I("EXIT", {"OK", "NOT_COMPLETE"}),
      Done("DEACTIVATE_DECOUP"), Done("CLEAR_ROUTING_TABLE"), Done("UPDATE_HTTP_STATE"), Ok("HANDLE_HTTP"), Done("SEND_TCP_SESS"),
      Done("SEND_BUFFER_TCP"), Done("DEACTIVATE_CONT_TCP"), Done("DISABLE_SILENT_SKIP"), Done("EXIT"), Always("DISABLE_SILENT_SKIP"),
      I("ABORT_HWICAP", {"FAIL"}), Ok("UPDATE_HTTP_STATE"), Ok("HANDLE_HTTP"), Done("SEND_TCP_SESS"), Done("SEND_BUFFER_TCP"),
      Done("DEACTIVATE_CONT_TCP"), Done("FAIL"), I("EXIT", {"FAIL"}), I("OK", {"SKIPPED"})>>

FirstProgram == HeaderPart \o RoutingPart \o ConfigPart

ReqCode == [REQ_INVALID |-> "OK", POST_CONFIG |-> "FAIL", GET_STATUS |-> "USER", PUT_RANK |-> "NOT_COMPLETE",
            PUT_SIZE |-> "PARTIAL_COMPLETE", POST_ROUTING |-> "DONE"]

(***************************************************************************)
(* Initial values, and phase Plan: the global operation and its program.   *)
(***************************************************************************)
FsmInit == [op |-> "IDLE", prog |-> <<>>, done |-> FALSE, error |-> FALSE, invalid |-> FALSE, tcp |-> FALSE,
            http |-> "IDLE", req |-> "REQ_INVALID", rv |-> "OK", silent |-> FALSE, exit |-> FALSE, wasAbort |-> FALSE,
            sessRx |-> "RESET", sessTx |-> "RESET", dataRx |-> "RESET", dataTx |-> "RESET",
            sess |-> 0, updated |-> FALSE, sessCnt |-> 0, cont |-> FALSE, target |-> 0, nls |-> 0, goto |-> FALSE, fifoOnly |-> FALSE,
            in |-> <<>>, next |-> 0, seen |-> 0, out |-> None, sent |-> FALSE, fifo |-> <<>>,
            icap |-> "RESET", busy |-> FALSE, decoup |-> FALSE,
            mrt |-> [r \in Ranks |-> NoIp], version |-> 0, maxId |-> 0, rank |-> 0, size |-> 0,
            needMrt |-> FALSE, needCfg |-> FALSE, link |-> "WAIT", index |-> 0, cnt |-> 0, status |-> [version |-> 0, rank |-> 0]]

CapInit(eos) == [eos |-> eos, write |-> FALSE, abort |-> FALSE, fill |-> 0, words |-> <<>>]

\* GLOBAL_IDLE: everything is set back, and a new TCP operation begins unless the PSoC resets.
Restarted(f) ==
    LET idle == [f EXCEPT !.op = "IDLE", !.done = FALSE, !.error = FALSE, !.invalid = FALSE, !.tcp = FALSE, !.cont = FALSE, !.prog = <<>>]
    IN  IF env.reset THEN idle
        ELSE [idle EXCEPT !.op = "TCP_HTTP", !.updated = FALSE, !.sessTx = "RESET", !.dataTx = "RESET", !.sess = 0,
                          !.http = "IDLE", !.req = "REQ_INVALID", !.prog = OpeningProgram]

\* The program of GLOBAL_TCP_HTTP.
Planned(f) ==
    LET wait == IF f.updated THEN <<>> ELSE WaitProgram
        work == CASE f.req = "POST_ROUTING" -> RoutingProgram
                  [] f.req = "POST_CONFIG" -> ConfigProgram
                  [] OTHER -> FirstProgram
    IN  [f EXCEPT !.tcp = TRUE, !.prog = IF f.wasAbort \/ f.error THEN <<>> ELSE @ \o wait \o work]

Sending(f) == f.sessTx = "PROCESS" \/ f.dataTx = "PROCESS"

Plan ==
    /\ pc = "plan"
    /\ LET f == [s EXCEPT !.wasAbort = cap.abort, !.prog = <<>>]
           idle == IF f.op = "IDLE" \/ env.reset \/ (f.done /\ ~Sending(f)) THEN Restarted(f) ELSE f
       IN  s' = CASE idle.op = "IDLE" -> idle
                  [] idle.op # "IDLE" /\ idle.done -> [idle EXCEPT !.tcp = TRUE, !.prog = SendProgram]
                  [] OTHER -> Planned(idle)
    /\ pc' = IF s'.tcp THEN "sess" ELSE "icap"
    /\ UNCHANGED <<net, cap, decoup, nal, env>>

(***************************************************************************)
(* The TCP state machines.                                                 *)
(***************************************************************************)
\* A session id is taken whenever one is there, whatever request is being handled.
RxSess ==
    /\ pc = "sess"
    /\ pc' = "sessTx"
    /\ CASE s.sessRx = "RESET" -> s' = [s EXCEPT !.sessRx = "IDLE"] /\ UNCHANGED rxSess
         [] s.sessRx \in {"W84_START", "PROCESS"} ->
              IF rxSess = <<>> THEN s' = [s EXCEPT !.sessRx = "PROCESS"] /\ UNCHANGED rxSess
              ELSE /\ s' = [s EXCEPT !.sessRx = "PROCESS", !.sess = Head(rxSess), !.sessCnt = (@ + 1) % 16]
                   /\ rxSess' = Tail(rxSess)
         [] OTHER -> UNCHANGED <<s, rxSess>>
    /\ UNCHANGED <<rxData, txSess, txData, cap, decoup, nal, env>>

TxSess ==
    /\ pc = "sessTx"
    /\ pc' = "data"
    /\ CASE s.sessTx = "RESET" -> s' = [s EXCEPT !.sessTx = "IDLE", !.sess = 0] /\ UNCHANGED txSess
         [] s.sessTx \in {"W84_START", "PROCESS"} ->
              IF Len(txSess) = Depth THEN s' = [s EXCEPT !.sessTx = "PROCESS"] /\ UNCHANGED txSess
              ELSE /\ s' = [s EXCEPT !.sessTx = "DONE"]
                   /\ txSess' = Append(txSess, s.sess)
         [] OTHER -> UNCHANGED <<s, txSess>>
    /\ UNCHANGED <<rxSess, rxData, txData, cap, decoup, nal, env>>

Readable == s.dataRx = "PROCESS" /\ rxData # <<>> /\ Len(s.fifo) < FifoDepth

\* What a word does: it is kept until the buffer is full, and everything after the
\* header goes to the FIFO as well.
Received(f, w) ==
    LET nl == IF ~f.fifoOnly /\ w.t = "nl" THEN (f.nls + 1) % 4 ELSE f.nls
        in == IF f.fifoOnly THEN f.in ELSE Append(f.in, w)
        full == ~f.fifoOnly /\ Len(in) >= BufSize - 1
        last == f.goto \/ (w.last /\ (~f.cont \/ nl >= f.target))
    IN  [f EXCEPT !.in = in, !.nls = nl, !.fifoOnly = @ \/ full,
                  !.fifo = IF f.nls >= 1 THEN Append(@, w) ELSE @,
                  !.dataRx = IF last /\ ~full THEN "DONE" ELSE @]

\* The loop over the words ends with the buffer, and when nothing can be read.
RxData ==
    /\ pc = "data"
    /\ IF Readable
       THEN /\ s' = Received(s, Head(rxData))
            /\ rxData' = Tail(rxData)
            /\ pc' = IF s'.dataRx = "DONE" \/ s'.fifoOnly # s.fifoOnly THEN "dataTx" ELSE "data"
       ELSE /\ s' = [s EXCEPT !.dataRx = IF @ = "RESET" THEN "IDLE" ELSE @]
            /\ pc' = "dataTx"
            /\ UNCHANGED rxData
    /\ UNCHANGED <<rxSess, txSess, txData, cap, decoup, nal, env>>

\* A response is one word; what follows the buffer's end is a stray one.
TxData ==
    /\ pc = "dataTx"
    /\ pc' = "icap"
    /\ CASE s.dataTx = "RESET" -> s' = [s EXCEPT !.dataTx = "IDLE"] /\ UNCHANGED txData
         [] s.dataTx = "PROCESS" /\ Len(txData) < Depth ->
              /\ s' = [s EXCEPT !.dataTx = "DONE", !.sent = TRUE]
              /\ txData' = Append(txData, IF s.sent THEN Stray ELSE s.out)
         [] OTHER -> UNCHANGED <<s, txData>>
    /\ UNCHANGED <<rxSess, rxData, txSess, cap, decoup, nal, env>>

(***************************************************************************)
(* The state machine between the FIFO and the HWICAP.                      *)
(***************************************************************************)
Icap ==
    /\ pc = "icap"
    /\ CASE s.icap = "WRITE" /\ ~cap.eos -> s' = [s EXCEPT !.icap = "ERROR"] /\ pc' = "execute" /\ UNCHANGED cap
         [] s.icap = "WRITE" /\ cap.eos -> cap' = [cap EXCEPT !.write = TRUE] /\ pc' = "write" /\ UNCHANGED s
         [] s.icap = "RESET" -> s' = [s EXCEPT !.icap = "IDLE"] /\ pc' = "execute" /\ UNCHANGED cap
         [] s.icap = "DRAIN" -> s' = [s EXCEPT !.icap = "IDLE", !.fifo = <<>>] /\ pc' = "execute" /\ UNCHANGED cap
         [] OTHER -> pc' = "execute" /\ UNCHANGED <<s, cap>>
    /\ UNCHANGED <<net, decoup, nal, env>>

\* The blank line after the payload ends the configuration; if the buffer was full
\* before, nobody else has counted it.
IcapWrite ==
    /\ pc = "write"
    /\ IF s.fifo = <<>> \/ cap.fill = HwDepth
       THEN pc' = "execute" /\ UNCHANGED <<s, cap>>
       ELSE LET w == Head(s.fifo) IN
            IF w.t = "nl"
            THEN /\ s' = [s EXCEPT !.fifo = Tail(@), !.icap = "DONE", !.nls = IF s.fifoOnly THEN (@ + 1) % 4 ELSE @]
                 /\ pc' = "execute"
                 /\ UNCHANGED cap
            ELSE /\ s' = [s EXCEPT !.fifo = Tail(@)]
                 /\ cap' = [cap EXCEPT !.fill = @ + 1, !.words = Append(@, w.v)]
                 /\ UNCHANGED pc
    /\ UNCHANGED <<net, decoup, nal, env>>

(***************************************************************************)
(* The instructions: each takes the static variables f to their new values.*)
(***************************************************************************)
\* Mutant of EmptyInBuffer: the words that were also put into the FIFO stay there.
EmptyInBufferOnly(f) == [f EXCEPT !.in = <<>>, !.next = 0, !.seen = 0, !.fifoOnly = FALSE, !.icap = "IDLE", !.busy = FALSE]

EmptyInBuffer(f) == [f EXCEPT !.in = <<>>, !.next = 0, !.seen = 0, !.fifo = <<>>, !.fifoOnly = FALSE, !.icap = "IDLE", !.busy = FALSE]

EmptyOutBuffer(f) == [f EXCEPT !.out = None, !.sent = FALSE]

TcpCntReset(f) == [f EXCEPT !.goto = FALSE, !.sessCnt = 0, !.nls = 0, !.target = 0, !.fifoOnly = FALSE]

WaitForTcpSess(f) ==
    CASE f.updated -> [f EXCEPT !.rv = "OK"]
      [] ~f.updated /\ f.sessRx \in {"IDLE", "RESET"} -> [f EXCEPT !.sessRx = "W84_START", !.rv = "NOT_COMPLETE"]
      [] ~f.updated /\ (f.sessRx = "PROCESS" /\ f.sessCnt >= 1) -> [f EXCEPT !.updated = TRUE, !.rv = "OK"]
      [] OTHER -> [f EXCEPT !.rv = "NOT_COMPLETE"]

ActivateContTcp(f) == [f EXCEPT !.cont = TRUE, !.goto = FALSE, !.dataRx = IF @ \in {"IDLE", "DONE"} THEN "PROCESS" ELSE @]
DeactivateContTcp(f) == [f EXCEPT !.cont = FALSE, !.target = 0, !.goto = TRUE]

\* Mutant of FillBufferTcp: the state machine is not made ready for the next segment.
FillBufferTcpOnce(f) ==
    LET seen == [f EXCEPT !.seen = Len(f.in)]
    IN  CASE f.dataRx = "IDLE" /\ ~f.busy -> [seen EXCEPT !.goto = FALSE, !.dataRx = "PROCESS", !.rv = "NOT_COMPLETE"]
          [] f.dataRx = "DONE" -> [seen EXCEPT !.rv = "DONE"]
          [] f.dataRx = "PROCESS" /\ Len(f.in) = f.seen /\ ~f.fifoOnly /\ ~f.busy -> [seen EXCEPT !.rv = "NOT_COMPLETE"]
          [] OTHER -> [seen EXCEPT !.rv = "OK"]

FillBufferTcp(f) ==
    LET seen == [f EXCEPT !.seen = Len(f.in)]
    IN  CASE f.dataRx = "IDLE" /\ ~f.busy -> [seen EXCEPT !.goto = FALSE, !.dataRx = "PROCESS", !.rv = "NOT_COMPLETE"]
          [] f.dataRx = "DONE" -> [seen EXCEPT !.rv = "DONE", !.dataRx = "IDLE"]
          [] f.dataRx \notin {"IDLE", "DONE"} /\ Len(f.in) = f.seen /\ ~f.fifoOnly /\ ~f.busy -> [seen EXCEPT !.rv = "NOT_COMPLETE"]
          [] OTHER -> [seen EXCEPT !.rv = "OK"]

\* A second status is appended to the first, which is the one that is sent.
WriteHttpStatus(f, code) == [f EXCEPT !.out = IF @ = None THEN code ELSE @]

Blanks(f, from) == {i \in from..Len(f.in) : f.in[i].t = "nl"}

\* extract_path(): what the header in the buffer asks for, once it is complete.
ExtractPath(f, rxDone) ==
    LET path == Head(f.in)
        new == [f EXCEPT !.req = "REQ_INVALID"]
        body == CHOOSE i \in Blanks(f, 1) : \A j \in Blanks(f, 1) : i <= j
        bad == [WriteHttpStatus(new, 400) EXCEPT !.http = "INVALID_REQUEST"]
    IN  CASE f.in = <<>> -> f
          [] f.in # <<>> /\ Blanks(f, 1) = {} -> IF rxDone THEN bad ELSE [new EXCEPT !.http = "PARSE_HEADER"]
          [] f.in # <<>> /\ Blanks(f, 1) # {} ->
               CASE path.v = "status" -> [new EXCEPT !.req = "GET_STATUS", !.http = "SEND_RESPONSE"]
                 [] path.v = "configure" -> [new EXCEPT !.req = "POST_CONFIG", !.http = "HEADER_PARSED", !.next = body]
                 [] path.v = "routing" -> [new EXCEPT !.req = "POST_ROUTING", !.http = "HEADER_PARSED", !.next = body]
                 [] path.v \in {"rank", "size"} /\ path.r \notin Ranks ->
                      [bad EXCEPT !.req = IF path.v = "rank" THEN "PUT_RANK" ELSE "PUT_SIZE"]
                 [] path.v = "rank" /\ path.r \in Ranks ->
                      [new EXCEPT !.req = "PUT_RANK", !.http = "SEND_RESPONSE", !.rank = path.r, !.needCfg = TRUE]
                 [] path.v = "size" /\ path.r \in Ranks -> [new EXCEPT !.req = "PUT_SIZE", !.http = "SEND_RESPONSE", !.size = path.r]
                 [] OTHER -> [WriteHttpStatus(new, 404) EXCEPT !.http = "INVALID_REQUEST"]

\* Mutant of Response: an invalid payload is not told.
ResponseFine(f) == IF f.wasAbort THEN 500 ELSE IF f.error THEN 422 ELSE 200

Response(f) == IF f.wasAbort THEN 500 ELSE IF f.error \/ f.invalid THEN 422 ELSE 200

ParseHttpInput(f, rxDone) ==
    CASE f.http \in {"IDLE", "PARSE_HEADER"} -> ExtractPath(f, rxDone)
      [] f.http = "HEADER_PARSED" -> [f EXCEPT !.http = "READ_PAYLOAD"]
      [] f.http \in {"REQUEST_COMPLETE", "SEND_RESPONSE"} -> [WriteHttpStatus(f, Response(f)) EXCEPT !.http = "DONE"]
      [] OTHER -> f

\* (A first segment with exactly one byte of payload is left out.)
HandleHttp(f) ==
    LET parsed == ParseHttpInput(f, f.rv = "DONE")
    IN  CASE parsed.http \in {"IDLE", "PARSE_HEADER"} -> [parsed EXCEPT !.rv = "OK"]
          [] parsed.http \in {"HEADER_PARSED", "READ_PAYLOAD"} -> [parsed EXCEPT !.rv = "PARTIAL_COMPLETE"]
          [] parsed.http = "SEND_RESPONSE" -> [parsed EXCEPT !.rv = "USER"]
          [] OTHER -> [parsed EXCEPT !.rv = "DONE"]

UpdateHttpState(f) ==
    LET invalid == f.invalid \/ f.rv = "FAIL"
    IN  [f EXCEPT !.invalid = invalid, !.rv = "OK",
                  !.http = CASE f.rv = "DONE" -> "REQUEST_COMPLETE"
                             [] f.rv # "DONE" /\ (f.wasAbort \/ f.error \/ invalid) -> "SEND_RESPONSE"
                             [] OTHER -> @]

\* The lines from f.next on that are taken: all of them once the blank line is there,
\* else all that are followed by something.  The first line with a rank that does not
\* exist ends it, and what was taken before stays.
BufferToRouting(f) ==
    LET ends == {i \in Blanks(f, f.next + 1) : i > f.next + 1}
        whole == ends # {} /\ f.next + 1 \notin Blanks(f, f.next + 1)
        until == IF whole THEN (CHOOSE i \in ends : \A j \in ends : i <= j) - 1 ELSE Len(f.in) - 1
        wrong == {i \in (f.next + 1)..until : f.in[i].r \notin Ranks}
        stop == IF wrong = {} THEN until ELSE (CHOOSE i \in wrong : \A j \in wrong : i <= j) - 1
        taken == {i \in (f.next + 1)..stop : f.in[i].t = "line"}
        Last(r) == CHOOSE i \in taken : f.in[i].r = r /\ \A j \in taken : f.in[j].r = r => j <= i
        named == {f.in[i].r : i \in taken}
        version == f.version + (IF whole THEN 1 ELSE 0) - (IF wrong = {} THEN 0 ELSE 1)
    IN  [f EXCEPT !.mrt = [r \in Ranks |-> IF r \in named THEN f.in[Last(r)].v ELSE @[r]],
                  !.maxId = CHOOSE n \in named \cup {@} : \A k \in named \cup {@} : k <= n,
                  !.next = IF wrong # {} THEN stop + 1 ELSE IF until < @ THEN @ ELSE until,
                  !.version = (version + VersionMod) % VersionMod,
                  !.needMrt = wrong = {},
                  !.invalid = @ \/ wrong # {},
                  !.rv = IF whole \/ wrong # {} THEN "DONE" ELSE "NOT_COMPLETE"]

\* The entry of the highest rank is not cleared.
ClearRoutingTable(f) ==
    [f EXCEPT !.needMrt = TRUE, !.version = (@ + 1) % VersionMod,
              !.mrt = [r \in Ranks |-> IF r < f.maxId THEN NoIp ELSE @[r]]]

Kept(f, rv) == [f EXCEPT !.rv = IF @ = "DONE" THEN @ ELSE rv]

SendTcpSess(f) ==
    CASE ~f.updated -> Kept(f, "OK")
      [] f.updated /\ f.sessTx = "IDLE" -> [Kept(f, "NOT_COMPLETE") EXCEPT !.sessTx = "W84_START"]
      [] f.updated /\ f.sessTx = "DONE" -> [Kept(f, "OK") EXCEPT !.updated = FALSE, !.sessCnt = 0, !.sessTx = "IDLE"]
      [] OTHER -> Kept(f, "NOT_COMPLETE")

SendBufferTcp(f) ==
    CASE f.dataTx = "IDLE" -> [Kept(f, "NOT_COMPLETE") EXCEPT !.dataTx = "PROCESS"]
      [] f.dataTx = "DONE" -> [f EXCEPT !.dataTx = "IDLE", !.rv = "DONE"]
      [] OTHER -> Kept(f, "NOT_COMPLETE")

\* f and h: the HWICAP has taken all words, or is still writing them.
FifoToHwicap(f, h) ==
    CASE f.icap = "IDLE" -> <<[f EXCEPT !.icap = "WRITE", !.busy = TRUE, !.rv = "NOT_COMPLETE"], h>>
      [] f.icap = "DONE" /\ h.fill > 0 /\ ~h.write -> <<[f EXCEPT !.rv = "NOT_COMPLETE"], [h EXCEPT !.write = TRUE]>>
      [] f.icap = "DONE" /\ (h.fill = 0 \/ h.write) -> <<[f EXCEPT !.icap = "IDLE", !.busy = FALSE, !.rv = "DONE"], h>>
      [] f.icap \in {"ERROR", "DRAIN"} -> <<[f EXCEPT !.icap = "DRAIN", !.busy = FALSE, !.rv = "FAIL"], h>>
      [] OTHER -> <<[f EXCEPT !.rv = "OK"], h>>

AbortHwicap(f, h) == <<[f EXCEPT !.error = TRUE, !.wasAbort = TRUE, !.rv = "OK"], [h EXCEPT !.abort = TRUE, !.write = FALSE]>>

Operation(op, f) ==
    CASE op = "CLEAR_IN_BUFFER" -> [EmptyInBuffer(f) EXCEPT !.rv = "OK"]
      [] op = "CLEAR_OUT_BUFFER" -> [EmptyOutBuffer(f) EXCEPT !.rv = "OK"]
      [] op = "TCP_CNT_RESET" -> TcpCntReset(f)
      [] op = "WAIT_FOR_TCP_SESS" -> WaitForTcpSess(f)
      [] op = "ACTIVATE_CONT_TCP" -> ActivateContTcp(f)
      [] op = "DEACTIVATE_CONT_TCP" -> DeactivateContTcp(f)
      [] op = "TCP_RX_STOP_ON_EOP" -> [f EXCEPT !.target = 2]
      [] op = "FILL_BUFFER_TCP" -> FillBufferTcp(f)
      [] op = "HANDLE_HTTP" -> HandleHttp(f)
      [] op = "UPDATE_HTTP_STATE" -> UpdateHttpState(f)
      [] op = "COPY_REQTYPE_TO_RETURN" -> [f EXCEPT !.rv = ReqCode[f.req]]
      [] op = "BUFFER_TO_ROUTING" -> BufferToRouting(f)
      [] op = "CLEAR_ROUTING_TABLE" -> ClearRoutingTable(f)
      [] op = "SEND_TCP_SESS" -> SendTcpSess(f)
      [] op = "SEND_BUFFER_TCP" -> SendBufferTcp(f)
      [] op = "ACTIVATE_DECOUP" -> [f EXCEPT !.decoup = TRUE, !.rv = "OK"]
      [] op = "DEACTIVATE_DECOUP" -> [Kept(f, "OK") EXCEPT !.decoup = FALSE]
      [] op = "ENABLE_SILENT_SKIP" -> [f EXCEPT !.silent = TRUE]
      [] op = "DISABLE_SILENT_SKIP" -> [f EXCEPT !.silent = FALSE]
      [] op = "EXIT" -> [f EXCEPT !.exit = TRUE]
      [] op \in {"OK", "DONE", "FAIL"} -> [f EXCEPT !.rv = op]

\* One instruction, with its mask; a skipped one leaves SKIPPED unless skipping is silent.
Step(fh, ins) ==
    LET f == fh[1] h == fh[2]
    IN  CASE f.exit -> fh
          [] ~f.exit /\ f.rv \notin ins[2] -> <<IF f.silent THEN f ELSE [f EXCEPT !.rv = "SKIPPED"], h>>
          [] OTHER -> CASE ins[1] = "FIFO_TO_HWICAP" -> FifoToHwicap(f, h)
                        [] ins[1] = "ABORT_HWICAP" -> AbortHwicap(f, h)
                        [] OTHER -> <<Operation(ins[1], f), h>>

\* The instructions of a program, one after the other.
Executed(start, prog) ==
    LET after[n \in 0..Len(prog)] == IF n = 0 THEN start ELSE Step(after[n - 1], prog[n])
    IN  after[Len(prog)]

(***************************************************************************)
(* Phases Execute and Jobs.                                                *)
(***************************************************************************)
\* The last return value decides on the global operation.
Execute ==
    /\ pc = "execute"
    /\ LET start == <<[s EXCEPT !.rv = "OK", !.silent = FALSE, !.exit = FALSE], cap>>
           end == Executed(start, s.prog)
           tcp == s.op = "TCP_HTTP"
       IN  /\ s' = [end[1] EXCEPT !.done = @ \/ (tcp /\ end[1].rv = "DONE"), !.error = @ \/ (tcp /\ end[1].rv = "FAIL"),
                                  !.rv = "OK", !.silent = FALSE, !.exit = FALSE, !.prog = <<>>]
           /\ cap' = end[2]
    /\ pc' = "jobs"
    /\ UNCHANGED <<net, decoup, nal, env>>

\* The control link rests during a configuration; every step of it is one iteration.
LinkRests == s.busy
LinkStep(f, new) ==
    /\ s' = f
    /\ nal' = new

LinkIdle == s.link = "IDLE" /\ LinkStep([s EXCEPT !.link = "WAIT"], nal) /\ env' = [env EXCEPT !.due = FALSE]

LinkWait ==
    /\ s.link = "WAIT"
    /\ LinkStep(CASE s.needCfg -> [s EXCEPT !.link = "UPDATE_CONFIG"]
                  [] ~s.needCfg /\ s.needMrt -> [s EXCEPT !.link = "UPDATE_MRT", !.index = 0]
                  [] ~s.needCfg /\ ~s.needMrt /\ env.due -> [s EXCEPT !.link = "UPDATE_STATE", !.cnt = 0]
                  [] OTHER -> s, nal)
    /\ UNCHANGED env

LinkConfig ==
    /\ s.link = "UPDATE_CONFIG"
    /\ LinkStep([s EXCEPT !.needCfg = FALSE, !.link = "IDLE"], [nal EXCEPT !.rank = s.rank])
    /\ UNCHANGED env

\* Mutant of Copied: the entry of the highest rank is left out.
CopiedLess(index) == index > MaxRank + 1 \/ index >= s.maxId

\* The last entry to copy is that of the highest rank seen.
Copied(index) == index > MaxRank + 1 \/ index > s.maxId

LinkMrt ==
    /\ s.link = "UPDATE_MRT"
    /\ LET entry == [nal EXCEPT !.mrt[s.index] = s.mrt[s.index]]
       IN  IF Copied(s.index + 1)
           THEN LinkStep([s EXCEPT !.index = 0, !.needMrt = FALSE, !.link = "IDLE"], [entry EXCEPT !.version = s.version])
           ELSE LinkStep([s EXCEPT !.index = @ + 1], entry)
    /\ UNCHANGED env

\* The status words are read one by one; two of them matter here.
LinkState ==
    /\ s.link = "UPDATE_STATE"
    /\ LET status == IF s.cnt = 0 THEN [s.status EXCEPT !.version = nal.version] ELSE [s.status EXCEPT !.rank = nal.rank]
           read == [s EXCEPT !.status = status, !.cnt = @ + 1]
       IN  LinkStep(CASE s.cnt = 0 -> read
                      [] s.cnt = 1 /\ status.version # s.version -> [read EXCEPT !.needMrt = TRUE, !.needCfg = TRUE, !.link = "WAIT"]
                      [] s.cnt = 1 /\ status.version = s.version /\ status.rank # s.rank -> [read EXCEPT !.needCfg = TRUE, !.link = "WAIT"]
                      [] OTHER -> [read EXCEPT !.link = "UPDATE_SAVED_STATE"], nal)
    /\ UNCHANGED env

LinkSaved == s.link = "UPDATE_SAVED_STATE" /\ LinkStep([s EXCEPT !.link = "IDLE"], nal) /\ UNCHANGED env

Jobs ==
    /\ pc = "jobs"
    /\ pc' = "plan"
    /\ decoup' = (s.decoup \/ s.wasAbort)
    /\ IF LinkRests THEN UNCHANGED <<s, nal, env>>
       ELSE LinkIdle \/ LinkWait \/ LinkConfig \/ LinkMrt \/ LinkState \/ LinkSaved
    /\ UNCHANGED <<net, cap>>

FmcStep == Plan \/ RxSess \/ TxSess \/ RxData \/ TxData \/ Icap \/ IcapWrite \/ Execute \/ Jobs

(***************************************************************************)
(* The clients (through the NAL), the HWICAP, the NAL and the PSoC.        *)
(* Assumed: a client begins when the FMC waits for it and the table is     *)
(* mirrored, the PSoC resets and the NAL restarts when no request is       *)
(* under way and no table is being copied.                                 *)
(***************************************************************************)
Waiting ==
    /\ s.op = "TCP_HTTP" /\ ~s.done /\ ~s.updated /\ s.sessCnt = 0 /\ s.sessRx = "PROCESS" /\ s.sessTx = "IDLE"
    /\ s.in = <<>> /\ s.out = None
Rests == Len(env.answers) = env.asked /\ env.segs = <<>> /\ env.left = <<>> /\ s.link # "UPDATE_MRT"

\* The next request is sent; it travels in segments.
ClientAsks ==
    /\ env.asked < Len(env.work.reqs)
    /\ Waiting /\ Rests /\ ~env.reset
    /\ ~s.needMrt /\ s.version = nal.version
    /\ env' = [env EXCEPT !.asked = @ + 1, !.segs = env.work.reqs[env.asked + 1].segs]
    /\ UNCHANGED <<pc, s, net, cap, decoup, nal>>

\* Each segment comes with the id of its session.
NalSession ==
    /\ env.segs # <<>> /\ env.left = <<>> /\ Len(rxSess) < Depth
    /\ rxSess' = Append(rxSess, env.work.reqs[env.asked].sess)
    /\ env' = [env EXCEPT !.segs = Tail(@), !.left = Head(env.segs)]
    /\ UNCHANGED <<pc, s, rxData, txSess, txData, cap, decoup, nal>>

NalWord ==
    /\ env.left # <<>> /\ Len(rxData) < Depth
    /\ rxData' = Append(rxData, Head(env.left))
    /\ env' = [env EXCEPT !.left = Tail(@)]
    /\ UNCHANGED <<pc, s, rxSess, txSess, txData, cap, decoup, nal>>

\* The NAL takes a session id and the response that belongs to it.
NalAnswer ==
    /\ txSess # <<>> /\ txData # <<>>
    /\ txSess' = Tail(txSess) /\ txData' = Tail(txData)
    /\ env' = [env EXCEPT !.answers = Append(@, <<Head(txSess), Head(txData)>>)]
    /\ UNCHANGED <<pc, s, rxSess, rxData, cap, decoup, nal>>

\* The HWICAP moves its FIFO into the fabric while CR_WRITE is set.
HwicapWrites ==
    /\ cap.write
    /\ cap' = IF cap.fill = 0 THEN [cap EXCEPT !.write = FALSE] ELSE [cap EXCEPT !.fill = @ - 1]
    /\ UNCHANGED <<pc, s, net, decoup, nal, env>>

\* A configuration is being fed: from its first word to the answer DONE.
Feeding == s.icap \in {"WRITE", "DONE"} /\ pc # "jobs"

\* The time to ask the NAL for its state has come; only LinkWait looks.
Second ==
    /\ s.link = "WAIT" /\ ~env.due
    /\ env' = [env EXCEPT !.due = TRUE]
    /\ UNCHANGED <<pc, s, net, cap, decoup, nal>>

PsocResets ==
    /\ env.resets > 0 /\ pc = "plan" /\ Rests /\ ~env.reset
    /\ env' = [env EXCEPT !.resets = @ - 1, !.reset = TRUE]
    /\ UNCHANGED <<pc, s, net, cap, decoup, nal>>

PsocReleases ==
    /\ env.reset
    /\ env' = [env EXCEPT !.reset = FALSE]
    /\ UNCHANGED <<pc, s, net, cap, decoup, nal>>

NalInit == [mrt |-> [r \in Ranks |-> NoIp], version |-> 0, rank |-> 0]

NalRestarts ==
    /\ env.restarts > 0 /\ Rests
    /\ nal' = NalInit
    /\ env' = [env EXCEPT !.restarts = @ - 1]
    /\ UNCHANGED <<pc, s, net, cap, decoup>>

\* What ends by itself: there are finitely many requests and words.
Finite == ClientAsks \/ NalSession \/ NalWord \/ NalAnswer \/ PsocReleases
Next == FmcStep \/ Finite \/ HwicapWrites \/ Second \/ PsocResets \/ NalRestarts

Init ==
    /\ pc = "plan" /\ s = FsmInit /\ decoup = FALSE /\ nal = NalInit
    /\ rxSess = <<>> /\ rxData = <<>> /\ txSess = <<>> /\ txData = <<>>
    /\ \E w \in Works :
         /\ cap = CapInit(w.eos)
         /\ env = [work |-> w, asked |-> 0, segs |-> <<>>, left |-> <<>>, answers |-> <<>>, due |-> FALSE, reset |-> FALSE,
                   resets |-> w.resets, restarts |-> w.restarts]

Spec == Init /\ [][Next]_vars

\* The iterations never end (a step of the FMC is always enabled), nor does the clock;
\* the NAL, the HWICAP, the clients and the PSoC do what they can do.
FairSpec == Spec /\ []<><<FmcStep>>_vars /\ WF_vars(Finite) /\ WF_vars(HwicapWrites) /\ WF_vars(Second)

\* While a configuration is fed to the HWICAP, until OP_FIFO_TO_HWICAP takes it as
\* done, the HWICAP takes a word, and writes one into the fabric, only if the role is
\* decoupled.  (The role is decoupled in the jobs of the iteration that begins to
\* feed.)  What is still in the FIFO of the HWICAP at the end may be written after the
\* role was connected again: DONE does not wait for it if CR_WRITE is set.
\* (fmc.cpp, the order of OP_ACTIVATE_DECOUP, OP_FIFO_TO_HWICAP, OP_DEACTIVATE_DECOUP,
\* setDecoup and fsmHwicap)
WrittenDecoupled ==
    [][/\ cap'.words # cap.words => decoup
       /\ cap'.fill < cap.fill /\ Feeding => decoup]_vars

=============================================================================
