# Formal models of the cFDK network stack

TLA+ models, TLC runs and TLAPS proofs for the cores of the cloudFPGA development kit that keep
state: the TCP offload engine (TOE), the UDP, IP, ARP and ICMP cores of the network transport
stack (NTS), the network abstraction layer (NAL), and the management core (FMC).

Paths are relative to `src/SRA/LIB/SHELL/LIB/hls/` unless they start with `src/`; in the sections
on TOE they are relative to its directory `NTS/toe/src`.

    tlc -workers 2 -config EventPath.cfg MCEventPipeline
    tlapm EventPipeline_proofs.tla

## 1. The system and its parts

The shell of a cloudFPGA node is a set of HLS cores and RTL wrappers. The
network transport stack (NTS) receives Ethernet frames, splits them by protocol
(IPRX), answers ARP and ICMP, implements UDP (UOE) and TCP (TOE) and sends
(IPTX). Above it the network abstraction layer (NAL) hides addresses and
sessions from the user role, and the management core (FMC) configures the node.

An HLS core is a *dataflow* of processes. Each process is a function that is
called again at every clock; its state is in static variables; processes talk
only through bounded FIFO streams. A read from an empty stream or a write to a
full one stalls the process unless the code tests first. All of the
concurrency of the program is in this: the order in which streams are served,
what a process knows when it acts, and how full the streams get.

### 1.1 Processes of TOE

| part | state | operations | talks to | hard behaviour | what makes it correct |
|---|---|---|---|---|---|
| EVe, event engine | four 8-bit counters | forward an event of RXe; of TIm or TAi if the gate is open; collect signals | RXe, TIm, TAi, AKd, TXe | gate computed from signals that arrive late, in any order, and wrap | counters are exact; an ungated source never stalls; the loop drains |
| AKd, ACK delayer | per session a delay and a count | merge an ACK, forward and reset, scan one entry per clock | EVe, TXe | a delayed ACK is merged, carried, or overtaken by other events | each ACK is delayed, not dropped |
| STt, state table | TCP state per session, two locks, two parked accesses, a parked close | read-and-lock, write-and-unlock, plain read, close, retry | RXe, TAi, TIm, SLc | read-modify-write by two clients and a timer | no lost update, each closing releases, nobody waits for ever |
| SLc, session lookup controller | free list, lookup register, reverse table | lookup, create, release, reverse lookup | RXe, TAi, STt, TXe, PRt, CAM | ids are recycled while operations on them are in flight | ids conserved; CAM and reverse table agree; replies arrive |
| RXe, receive engine | registers of ten processes | look up, run the TCP state machine, drop or write payload, notify | nearly everything | decisions taken on replies that age in streams; out-of-order data; three streams joined by position | what is acknowledged is stored, announced once, and in time |
| RSt, receive SAR table | `appd`, `rcvd`, `ooo`, `oooHead`, `oooTail` per session | served to TXe, RAi, RXe in this priority | RXe, RAi, TXe | read-modify-write of RXe against RAi | disjoint fields |
| TSt, transmit SAR table | sequence pointers and windows per session | served to TXe, TAi, RXe in this priority | RXe, TXe, TAi | acknowledgments race with new data and retransmission | pointers ordered; nothing sent beyond the window |
| TXe, transmit engine | the event being processed, SAR registers | one handler per event type; fragments data by the usable window | AKd, RSt, TSt, SLc, TIm, MEM | window closing, FIN after data, retransmission of what was acknowledged | each byte is sent once and resent until acknowledged |
| TAi, transmit application interface | connect table, `ackd`/`mempt` table, registers | open, close, send, memory status | application, STt, SLc, PRt, TSt, EVe, MEM | buffer wrap, stale session state, dropped replies | no overwrite of unacknowledged data; each request is answered |
| RAi, receive application interface | registers | notify, read request, stitch, listen | application, RSt, PRt, MEM | pointer moved before the data is read | data read is the data notified |
| TIm, timers | three tables of timers | set, reload, stop, expire | RXe, TXe, STt, EVe, TAi, RAi | a command meets the scan of the same entry | an unacknowledged segment is retransmitted or the session closed |
| PRt, port table | listening and active ports | query, open, allocate, release | RXe, RAi, TAi, SLc | search and release at once | a port is given to one session at a time |

### 1.2 The other parts

| part | state | operations | talks to | hard behaviour | what makes it correct |
|---|---|---|---|---|---|
| ToeCam, `NTS/toecam` | entries of socket pair and id | lookup, insert, delete, in order | SLc | updates in flight while a lookup is answered | see SLc |
| UOE, `NTS/uoe` | port table, tokens, registers of twelve processes | strip, check, deliver or drop a datagram; cut, checksum, complete one | IPRX, IPTX, ICMP, NAL | header, datagram, verdict and port state of one datagram meet from four streams | each datagram gets its own verdict and is delivered whole |
| IPRX, IPTX, `NTS/iprx`, `NTS/iptx` | registers | check, drop, route; find the next hop, complete | Ethernet, ARP, ICMP, UOE, TOE | verdicts and packets take different ways and must meet again | nothing is lost, swapped or stuck |
| ARP, ICMP | CAM of neighbours; registers | answer, learn, look up; echo, unreachable, expired | IPRX, IPTX, UOE | a packet whose next hop is not known | the neighbour is learned; each message answers its own packet |
| NAL, TCP side, `NAL/src/tss.cpp`, `hss.cpp` | table of sessions; caches of the read and the write path; openings, credits, waiting sessions | request and forward data; find or open the session of a message; list, mark and close sessions; open ports | TOE, role, FMC | caches of answers that change; a reply that comes after the timeout; rows that are reused; a role that is replaced | data goes to the right node; what TOE announces is fetched; the old role's sessions are closed |
| NAL, UDP side, `NAL/src/uss.cpp` | registers, open ports | find address or rank, hand on, open and close ports | UOE, role | a role that leaves with datagrams and answers under way | the ports that are open are those of the role |
| FMC, `FMC/src/fmc.cpp`, `http.cpp` | program, buffers, table of ranks, state machines of sessions and data | receive a request in segments, parse, execute, answer; configure the fabric; mirror its table in the NAL | NAL, HWICAP, decoupler | a program is rebuilt in each iteration; the HWICAP stalls; the NAL restarts | each request gets its answer; a configuration arrives whole, and is handed over only while decoupled |
| RLB | hardly any | conjunction of two ready signals | - | - | - |
| MEM | memory behind data movers, external to the HLS code | ordered reads and writes with a status | RXe, TXe, TAi, RAi | - | - |
| RTL, tops, role templates, scripts, test benches | - | wiring and tools | - | - | - |

`PROJECT.json` lists all of them with their status, and under "hazards" the places of
the code that are hard to test, with the properties that cover each or the reason why
none does.

## 2. The models

Conventions. A stream is a sequence with a depth; a stream of signals is a
number. One iteration of a process is one action, unless it makes several
writes that may stall: then it is cut at each such write, and a `pc` says where
it stands. Names of operators and variables follow the code. A variable marked
*history* has no counterpart in the code and is read by properties only.
Definitions that start with a comment "Mutant of" are plausible mistakes in the
definition below them; nothing uses them in the specification. They show that a
property notices the mistake when it is put in place of the original.

### 2.1 `EventPipeline`, `EventService` - EVe, AKd and the event side of TXe

Code: `event_engine/event_engine.cpp`, `ack_delay/src/ack_delay.cpp`, the process
`pMetaDataLoader` of `tx_engine/src/tx_engine.cpp` as a consumer.

* `EVe` is one call of `event_engine()`: it forwards an event of RXe, or of TIm or TAi if the
  counters open the gate, and collects the signals of AKd and TXe in every call.
* `AKd` is `ack_delay()`, cut at its writes to the streams of signals and events: merge an ACK, forward
  another event and reset the delay, or scan one entry. `AckDelays` is the table of delays of the code.
* `Mdl` takes an event and signals EVe.

`EventService` is the abstract specification: a queue of events that are not ACKs, and a
set of sessions that are owed an ACK. `Service` in `EventPipeline` is the refinement mapping:
the queue is `PlainOf(Upstream)`, what EVe and AKd hold and is not an ACK; a session is `Owed` an ACK if its delay runs or an ACK for it is on the way.

### 2.2 `StateTable`, `StateTableClients` - STt and its users

Code: `state_table/state_table.cpp`; `pFiniteStateMachine` of RXe, `pTxAppConnect` and
`pStreamMetaLoader` of TAi, the close commands of TIm.

`StateTable` has one action per branch of `state_table()`, in the order of its `if`/`else if`
chain: an access from each port, a close, then the parked accesses and the parked close. The two ports are one
record-valued function, `port`, with their lock (`locked`, `sess`) and their
parked access (`wait`, `access`). A query carries `base`, a *history* field: the
state the write was computed from.

`StateTableClients` closes the system: the state machine and Tac read, decide,
write back, and may go to any state the code may choose from the one they read. The numbers that make
the choice are not in this model.

### 2.3 `SessionLookup` - SLc and the CAM

Code: `session_lookup_controller/session_lookup_controller.cpp`, `NTS/toecam/src/toecam.cpp`.

`Sim` (free list), `Lrh` (lookup, creation, answer), `Urs` (insertions and
deletions to the CAM, recycling of the id), `Urh` (which reply Lrh waits for), `Rlt` (reverse table) and the CAM,
with the streams between them. Users: RXe and TAi ask for lookups, STt releases
ids that were ever known, also twice, TXe asks for reverse lookups. `owner` is
history: the socket pair for which Lrh took the id. `Slots(id)` lists the places
where an id is; there must always be exactly one.

### 2.4 `SessionLife` - a segment between lookup and state machine

EXTENDS `StateTableClients`, has an INSTANCE of `SessionLookup`, and adds the two processes of RXe that carry a
segment from one to the other, `pMetaDataHandler` and `pFiniteStateMachine`. The release stream of STt is the one SLc reads.

### 2.5 `RxDelivery` - from the segment to the application

Code: `pFiniteStateMachine` (data part), `pTcpSegmentDropper`, `pRxMemoryWriter`,
`pRxAppNotifier` of `rx_engine/src/rx_engine.cpp`, `rx_sar_table/rx_sar_table.cpp`, `pRxAppStream`.

One session, one direction. `Outcome` is the decision of the state machine
on a segment (in order, first out of order, extending the block, approaching it, filling the gap, or dropped) with the
comparisons of the code, which do not wrap. `Tsd` drops or forwards a payload, `Mwr` splits a write that crosses the end of the buffer, `MemWrite`
(external) completes accesses in order, `Ran` is the notifier with its three
branches, `AppRead` moves `appd`. The byte at position `p` of the stream is represented by `p`;
`mem` says which position each cell of the buffer holds. `MwrUncut` is the branch of `MWR_FWD_1ST_BUF` for a full stream of write
commands (`rx_engine.cpp:952-1004`): the chunk at the end of the buffer is written uncut and no second command follows, so that what comes next is taken for it and the streams
are out of step. The depth of that stream counts chunks and commands MEM has not taken; it may be full whenever MEM is busy, so the action is always possible at a split. The model stops following Mwr there (`uncut`, *history*).

### 2.6 `TxStream` - from the application to the peer

Code: `pStreamMetaLoader`, `pTxMemoryWriter`, `pTxAppStatusHandler`, `pTxAppTable` and the event multiplexer of
`tx_app_interface/tx_app_interface.cpp`; `tx_sar_table/tx_sar_table.cpp`;
`pMetaDataLoader` (TX, RT and FIN handlers), `pTxMemoryReader`, `pTcpSegStitcher` of `tx_engine/src/tx_engine.cpp`;
the handling of acknowledgments in `rx_engine/src/rx_engine.cpp`.

One session that begins established. The application may close it at any time. Tac then writes FIN_WAIT_1 and the FIN_EVENT, whatever Sml is doing; Sml keeps what STt told it before (`sml.est`), as its read takes no lock
(`tx_app_interface.cpp:251-259, 490-536`), and may accept data after the FIN. `app.due` (*history*) is the end of the data whose events Emx had taken when the application closed, and `Late` says that there is more behind it. Tat may answer
later than STt (`TatAnswer`). `MwrUncut` is the branch of Mwr for a full stream of write commands at the end of the buffer (lines 659-692): one chunk is written uncut, without a second command, and Mwr is not followed any further (`Uncut`).

The application's requests are answered against `TX_APP_TABLE` (`tat`), written in
chunks of a bus word through the ring buffer, and announced when their memory status has come back. TXe reads
the pointers, sends as much as window and segment size allow, and reads the bytes in one or two parts that are stitched together.
The network (external) loses segments, the timer expires, the peer acknowledges what it has received in order
and advertises its window. A byte is its position in the stream, so that a wrong byte is seen as such.
Slow start and the congestion window are left out: the usable window is that of the peer.

### 2.7 `ActiveOpen` - connections, ports and timers

Code: `pTxAppConnect` of TAi; `pListeningPortTable`, `pFreePortTable`, `pInputRequestRouter` and
`pOutputReplyMultiplexer` of `port_table/port_table.cpp`; the SYN, SYN-ACK, FIN and RST branches of
`pFiniteStateMachine`, the SYN, FIN and RST handlers of `pMetaDataLoader`, `timers/timers.cpp` (retransmission and close timers),
the listen and notification parts of RAi.

An open takes a free dynamic port, enters the connection, starts the handshake; timeouts repeat
it and in the end abort it; closing goes through the FIN exchange and the close timer. Clients connect to a listening port at the same time. STt and SLc are
reduced to their effect, one step per request; the modules above show what they do in detail. The scan positions and times of the timers are left out:
a timer may expire at any time, but no answer of the peer is faster than the command that sets the timer, and expirations that
nothing calls for are bounded (`spurious`). The peer chooses a new initial sequence
number per SYN. It acknowledges a FIN with a plain ACK or with its own FIN, may close first, and repeats its FIN when that is lost. `RxeAck` is the plain ACK of a FIN (`rx_engine.cpp:1473-1497, 1665-1686`): it stops the
retransmission timer and leaves FIN_WAIT_1 as it is; LAST_ACK ends with it. The ACKs TOE sends of its own are not followed, so the peer never repeats a FIN that got through; nor are the RSTs that answer an ACK in other states.
RXe's own command to a timer is taken before one of TXe. `refused` counts ports that are lost because SLc refused the lookup: the code does not give them back.

A port is two bytes of `ByteValues` values each; half of the ports are static, half dynamic, as in the code. SLc keeps the socket pair in network byte order and hands its local port to PRt as it is
(`session_lookup_controller.cpp:174-179, 384`), and Fpt takes it for a number of its own (`port_table.cpp:291, 311-314`). So `SlcRelease` passes `Swapped(port)`. A dynamic port whose low byte, as a high byte, would be
static is not freed (16384 of the 32768; `fpt.lost`, *history*); any other release, of a static port too, frees the dynamic port with the swapped number, whoever has it (`fpt.stray`, *history*). A number that looks static is ignored, as in hardware:
the simulation stops there, with the message that SLc releases no such port (`port_table.cpp:316-321`). That it releases the session of a listening port is the normal end of a passive connection.

### 2.8 `NalTables`, `NalTcp` - the TCP side of the NAL

Code: `NAL/src/hss.cpp` (`NalTables`), `NAL/src/tss.cpp` (`NalTcp`).

`NalTables` has the agencies: `axi4liteProcessing` and `pMrtAgency` (addresses of ranks), `pTcpAgency` (a row per session, with marks for privileged and
to be closed), `pCacheInvalDetection`, `pPortLogic`, `pTcpLsn`, `pTcpCls`. `NalTcp` has the two paths: `pTcpRRh` (requests within the room of the FIFO), `pTcpRDp`
(whose data are these), `pTcpWRp` (on which session), `pTcpWBu` (room in TOE), `pTcpCOn` (opening with a watchdog), and the two readers that give credit back.
A message has two words or three, and `Split` (`NAL_STREAMING_SPLIT_TCP`) is two, so that a message of unknown length may go on after it.
TOE, the role, FMC and the network are external: they send, read, and change (`Events`: a new MRT, partial reconfiguration, reset of the role, abort of a session, timeout of an opening).

Assumed of the surroundings: an id is used again only after NAL has forgotten it; the agency serves one request per
iteration; the role is quiet when it is replaced or reset, and the nodes while the MRT is rewritten; a reconfiguration
lasts until the processes have seen it and the marks are set; a session is aborted only when its data is delivered;
peers do not close first, and the peers of an old role stop. Values a process does not read any more are
reset in the model. Left out: layer-4 reset in the middle of traffic, own rank, saved port lists and status words; the UDP signals of the cache invalidation are taken at once.

### 2.9 `NtsIp`, `UdpOffload`, `UdpPath` - UDP and IP

Code: `NTS/iprx`, `NTS/iptx`, `NTS/arp`, `NTS/icmp` (`NtsIp`); `NTS/uoe/src/uoe.cpp` (`UdpOffload`); `NAL/src/uss.cpp` and the
UDP ports of `pPortLogic` (`UdpPath`).

The IP layer moves packets as a whole; each process is one step per packet, and verdicts travel in streams of their own. UOE moves chunks of one or two
32-bit words, because the realignment behind an IP header with options is where its states are: Ihs (strips the IP header), Rph, Upt, Ucc, Tai, Tdh, Uca, Uha, Iha have the states of the code. `UdpPath` puts the NAL's UDP
processes and the role on top. What role, network and TOE send waits in front from the start, and is read at any time.

Left out: aborted frames, headers shorter than 20 bytes, byte order and the arithmetic of checksums, gaps inside packets (`uoe.cpp:402` copies a local
that an iteration without input has not set), ICMP messages longer than the streams, the MMIO disable and the initialisation of Upt. The neighbours answer each ARP request. The MRT is constant, and a
reconfiguration lasts until the traffic and the closings of the old role are over (`RoleLeaves`, `RoleArrives`).

### 2.10 `Fmc` - the management core

Code: `FMC/src/fmc.cpp`, `FMC/src/http.cpp`, in TCP mode.

One call of `fmc()` is cut into the phases Plan, RxSess, TxSess, RxData, TxData, Icap (and IcapWrite), Execute, Jobs; the rest of the world moves between any two of
them. `Plan` builds the program of the current global operation from its flags, as each call does; `Execute` takes the state (`s`) through the instructions of that program (`Executed`), doing nothing more where the code
jumps to the end. Jobs are the decoupling of the role and the control link, which mirrors table and rank in the NAL. A network word is a record: a path, a blank line, a line of a table, or a word of a configuration.

Assumed: a client begins when FMC waits for a request and its table is mirrored; a reset by the PSoC and a restart of the NAL come at rest. Left out: the operations on XMEM and
PyroLink, manual decoupling, display registers, byte order, the fake HWICAP, the overflow of the FIFO and hangover bytes (words are whole), a blank line split over segments, disabling of the link,
layer bits, saved ports.

## 3. The runs

| run | module, configuration | properties | what it shows |
|---|---|---|---|
| event_path | MCEventPipeline, EventPath.cfg | TypeOK, EveAkdLedger, AkdTxeLedger, GatedWriteFindsRoom, Drains, ImplementsService | the counters are exact ledgers of the streams across wraps; a gated write finds room; the loop drains; EVe and AKd refine `EventService`; that they serve in time is Drains, which empties its queue, its debts and its output |
| state_table | StateTableClients, StateTable.cfg | NoLostUpdate, AllServed | read-modify-writes are atomic, nobody waits for ever |
| session_lookup | SessionLookup, SessionLookup.cfg | IdsConserved, CamConsistent, ReverseIsCurrent, LookupServed, ReleasedIsFreed | ids are neither lost nor doubled; CAM and reverse table agree up to updates in flight; TXe never gets the pair of a former owner |
| stale_lookup | SessionLife, StaleLookup.cfg | ConnectionIsInCam (violated) | a stale lookup revives a session that was given up |
| rx_delivery | RxDelivery, RxDelivery.cfg | AckedIsNotifiedOnce, AckedIsKept, StoredWhileInOrder, AckedIsDelivered | acknowledged data is kept and announced once; as long as no chunk is written uncut also in the end, and before out-of-order segments never early |
| rx_ooo_notified | RxDelivery, OooNotified.cfg | NotifiedIsStored (violated) | after an out-of-order segment data is announced before it is in memory |
| tx_stream | MCTxStream, TxStream.cfg | UnackedIsKept, PeerReads, WithinWindow, FinIsLast, AcceptedIsAnnounced | unacknowledged bytes stay in the buffer, the peer gets exactly the bytes of the application and within its window, a FIN comes after the data the application was allowed to send, or, when data is late, after all whose events were ahead of it |
| active_open | MCActiveOpen, ActiveOpen.cfg | PortsConserved, OpenIsAnswered, ClosingEnds | a dynamic port has one user and comes back, except for what the byte order does to it; each open is answered; each closing ends, by whichever side it was begun |
| nal | MCNalTcp, NalTcp.cfg | CachesCurrent, NoMixup, NotifiedIsDelivered, OldRoleIsCutOff | the caches of the NAL are current, no data reaches a wrong node until a streamed message is longer than the split, what is announced is fetched, an old role's sessions are closed |
| nal_pressed | MCNalTcp, NalPressed.cfg | NotifiedIsDelivered (violated) | a notification for a waiting session leaves pTcpRRh in a state it never leaves |
| udp_path | MCUdpPath, UdpPath.cfg | NoMixup, FateIsJust, WireIntact, PortsAgree, EveryFate, NeighbourLearned | each packet gets its own verdict, each datagram on the wire is what the role sent, nothing is stuck, the ports of UOE are those of the role |
| fmc | MCFmc, Fmc.cfg | AnswerIsJust, ConfigurationIntact, WrittenDecoupled, EveryRequestAnswered, TableMirrored | each request is answered as it deserves; a configuration arrives whole and is handed over only while decoupled; the NAL has the tables FMC accepted, and nothing else but what a refused table left |

The three runs that end in a violation each confront a sentence of the
repository with the code; `PROJECT.json` quotes it under "findings".

* `stale_lookup`: Mdh resolves a segment and hands the id on; the session is closed and released; the
  state machine writes SYN_RECEIVED for an id without CAM entry (`rx_engine.cpp:1301`).
* `rx_ooo_notified`: the split flag and the status of a segment kept out of order remain in their streams when its empty
  notification is discarded, and are taken for those of the next one (`rx_engine.cpp:1154`).
* `nal_pressed`: for a notification of a session that already waits, `RRH_PROCESS_NOTIF` puts nothing into
  `waitingSessions` and goes to `RRH_START_REQUEST`, whose only way out is to read `waitingSessions`. If the session waits in `session_reinsert` instead, that stream is
  empty and stays so (`NAL/src/tss.cpp:335-380`).

### Bounds, and why they are enough

* *Streams.* Depths are 1 or 2 instead of 2 to 64: the interesting states are "empty",
  "full" and "stalled", and a small depth reaches them with few messages. The proofs hold for all depths. UOE's are
  larger (`UccDepth` 6, `HdrDepth` 16, `CsumDepth` 4, `DataDepth` 8) because a datagram has to fit: as in the code the
  stream to Ucc holds two of the largest datagrams, and the tokens of Ucc run out with three.
* *Counters.* `CntMod` is 4 instead of 256, the least value `CounterAssumption` allows for depth 1; four events of
  three types and their signals take the counters round.
  `RST` is not among the types: the reset that answers a segment to a closed port carries the id of session 0, drops that session's delayed ACK, and ImplementsService fails. `AckDelays` has two levels instead of seven: each branch of the merge is taken.
* *Sessions.* Two where sessions can be confused with each other, one where they cannot.
  With two ids and two socket pairs the free list gets empty and ids change hands.
* *Budgets.* `MaxSegments`, `MaxConnects`, `MaxReads`, `MaxCloses`, `MaxLookups`, `MaxReleases`, `MaxReverse`
  bound how often the environment acts: enough for an id to be released, reassigned and released again, and for every pair of clients of STt to meet on one session.
* *Receiving.* The Rx buffer has 5 cells, segments have 1 or 2 bytes, the stream 6 positions: it crosses the end of the
  buffer with and without a split, and there is room for a gap, a block out of order, its extension and the fill. The sequence numbers do not
  wrap (`SeqMod` = 15, first number 3), so the plain comparisons of the code do what they mean; with five segments the streams of split
  flags cannot fill up. Both limits are hazards of their own.
* *Sending.* A buffer of 8 bytes, sequence numbers modulo 16, chunks of 2, segments of 5, a window of 6, one loss, one
  expiration, up to three requests and a close at any moment; four streams (`Straddling`) let chunks, segments and requests straddle the end of the buffer in every way but three. For these `MCTxStream` has a stream each, with which a property fails:
    * a request ends exactly at the end of the buffer (`UpToTheEnd`): Tash waits for a second status if address + length carries into bit 16, Mwr splits only if the sum exceeds the size of the buffer
      (lines 325 and 608 of `tx_app_interface.cpp`); AcceptedIsAnnounced fails;
    * the last chunk of a request has bytes on both sides of the end (`LastChunkStraddles`): `MWR_FWD_1ST_BUF` does not look at TLAST and leaves the rest to a state that waits for one more chunk, the first of the next
      request (lines 651-691); each request is then written with the data of its successor, UnackedIsKept fails;
    * the first part of a read is a single full chunk (`SingleChunk`): `TSS_DATA` forwards its TLAST (`tx_engine.cpp:1037`; the state for longer parts clears it) and the segment is cut in two; PeerReads fails.

  The properties make two more exceptions, both of which the run reaches. *Late* data: Sml has accepted it on an answer of STt from before the close, or its event waits while Emx takes
  Tac's (lines 103-108 of `tx_app_interface.cpp`); the FIN gets the sequence number of its first byte, the data is sent behind or with it, and the peer does not read it. Without the exception TLC finds FinIsLast and PeerReads violated.
  An *uncut* chunk (lines 659-692): Mwr has taken the whole chunk, nothing will write its second half at the beginning of the ring, and the status Tash waits for belongs to a later command. The model stops Mwr there, so that nothing more is announced and UnackedIsKept and PeerReads
  could not fail; they exclude the case because they say nothing about how the code goes on. AcceptedIsAnnounced fails without the exception.
* *Connections.* Two sessions, two static and two dynamic ports (`ByteValues` 2: one static and one dynamic port are their own swapped number, the other two are each other's), one retry; ten budgets (`Workloads`): sequential opens and closes, more opens than
  sessions or ports, clients, closes by the peer and by both sides, with losses, and with an expiration nothing calls for. PortsConserved exempts `fpt.lost` and `fpt.stray`, the ports the byte order loses or frees under their user; without them it fails. OpenIsAnswered is about a table
  that is not full, as Fpt searches a full one for ever, and about connections that do not share a port. ClosingEnds leaves out a connection whose port was freed by another's release: the peer's FIN then finds the port closed, and after the plain ACK of its own FIN, which has stopped the
  timer, the connection stays in FIN_WAIT_1 for ever. Two opens with spurious expirations are left out: a timer set for one connection can then abort the next (hazards at
  `timers.cpp`), and PortsConserved fails.
* *NAL.* Two sessions, two nodes that change places, and the host of FMC; seventeen workloads of one or two connections each with an MRT update, a replaced or reset role, an abort, a full
  send buffer or a timeout. No session gets more than three notifications: with four it comes to the state of `nal_pressed`.
  With messages of three words a streamed one is cut: pTcpWRp writes a second length but no second session id (`NAL/src/tss.cpp:1447-1453, 1484-1491`), pTcpWBu takes an id with each length (1597-1600), and the rest goes out on the session of the next message. `DOC/NAL/TSS.md:55`
  says of such a message only that it is split. NoMixup allows it from there on (`"cut"`); without that it fails.
* *UDP.* Datagrams of up to 5 words with the headers of 5, 6 and 7 words; eight workloads: good and bad checksums, closed ports, frames of all kinds, foreign networks, messages that are cut, unknown ranks and next hops, a role that is replaced, a late answer.
  Two things were taken out of the workloads: late answers together with a replaced role (`LateOrReplaced`), and a port that is given up and opened again while its closing is under way.
* *FMC.* Three ranks, a buffer of six words, a FIFO of four, an HWICAP of two, versions modulo 8; ten workloads of one to three requests, in one to three segments. A second table names no rank below one
  that is in the table (`RacingWorks` in `MCFmc` does, and the update is lost: TableMirrored fails), and a bad line comes last. A refused table is not ignored, as the comment at `fmc.cpp:2958` has it: the lines before the bad one
  stay, the version is taken back and the NAL does not get them (2957-2970) until another table is accepted. TableMirrored says so: what differs is what a refused table left (`LeftByRefused`).
  WrittenDecoupled is about a configuration while it is fed, until `OP_FIFO_TO_HWICAP` answers DONE. If CR_WRITE is set at that moment DONE does not wait for the FIFO of the HWICAP to become empty (2839-2846); the program connects the role again,
  and the words left in the FIFO are written into the fabric afterwards. Without `Feeding` in the property TLC finds that.
* *Deadlock* is checked in `event_path` and `fmc`. In the other runs it is not, because the budgets let everything
  come to rest; there the liveness properties say that rest is reached only with the work done.

State spaces: event_path 767,426 distinct states, state_table 1,921,704, session_lookup 248,676, rx_delivery 725,470,
tx_stream 1,192,220, active_open 328,222, nal 224,832, udp_path 201,255, fmc 264,830.

### Fairness

Each process is a circuit that iterates at every clock, so a step that stays
possible is taken: weak fairness per process, or per group of processes that work off finite work (`System` in UdpPath, where
one step always brings the whole forward). The environment - events,
segments, requests, timers, losses, the reader `AppRead`, messages, replacement of roles - gets none, except where the code's own promise depends on an answer of
a partner: MEM completes accesses (the data mover does), the peer of TxStream and ActiveOpen
acts on what has reached it, and in ActiveOpen also sends a FIN of its own once it got one (if it never does, the code stays in FIN_WAIT_1 for ever: it has no FIN_WAIT_2 and no timer there), the applications of ActiveOpen read their answers, the role and FMC read what NAL has for them and a role that left is followed by another, the HWICAP takes its words, and time passes (`Second`).
A loss is bounded, so that retransmission can succeed. Weak fairness is also what a
priority chain gives: within a process the order of the branches decides, and it is in the guards. The parked accesses of STt are only
reached in an iteration without input; that this happens follows from the budgets, as a continuous stream of queries does starve them (a hazard).
In Fmc a step is always possible, and fairness is stated as `[]<><<FmcStep>>_vars`.

## 4. The proofs

Eight modules of proofs, each about every value of the constants that satisfies the ASSUMEs of its module.

What several of them need of the numbers - induction on an interval of natural numbers and the existence of a function defined by recursion along it, with the induction
hypothesis as a *set* (`IntervalInduction`, `IntervalRecursion`, from the well-foundedness of `<` on the naturals), and facts about remainders - is proved where it is used.
It carries the proofs about the recursive functions `PlainOf`, `Total`, `Executed` and `Frames`.

`EventPipeline_proofs`:

* `TypeCorrect`: `Spec => []TypeOK`. `TypeOK` is inductive. It includes that no stream exceeds its depth.
* `EveAkdLedgerHolds`: `Spec => []EveAkdLedger`. The distance of the two counters on the ring equals the number of events in the stream, held by AKd,
  or signalled and not yet counted. The ledger is inductive together with `TypeOK` (`LedgerInv`): the bounds of the streams
  in `TypeOK` and `CounterAssumption` (the width of the counters exceeds the two depths by more than one) exclude that the distance wraps to zero.
  `DistanceStep` is the arithmetic on the ring; `ForwardLedger` is the step of EVe, which may write and count a signal at once.
* `GatedWriteNeverStalls`: `Spec => []GatedWriteFindsRoom`. Equal counters have distance zero, so by the ledger nothing is in flight: the
  comment in the code that the counters depend on the depth of the FIFO is made precise and shown sufficient.
* `AkdTxeLedgerHolds`: `Spec => []AkdTxeLedger`. What AKd has sent and what TXe has seen differ by whole turns of the counter. The inductive form
  (`TurnsInv`) counts the turns in the integers; the difference is bounded only at the end, by `AtLeastItsFactor`.
* `ServiceImplemented`: `NoReset => (Spec => ImplementsService)`, step by step: each step of the pipeline is a step of the service or a stutter of its variables.
  `PlainOfAppend` and `PlainOfFirst` say what `PlainOf` does at either end of a sequence; then there is one case per action, which names the service step it is.
  `PathInv` adds to the types that no RST is in a stream and that an event AKd forwards is not an ACK. `NoReset` (no RST among the types) is the limit of the claim, not a
  convenience: the code sends a RST for no session with the id of session 0, and AKd then drops the ACK that session 0 is owed.

`SessionLookup_proofs` (all from one inductive invariant, `SlcInv`):

* `IdsConservedHolds`, `CamConsistentHolds`: `Spec => []IdsConserved`, `Spec => []CamConsistent`; `ReverseIsCurrentHolds`: `Spec => ReverseIsCurrent`, an action property.
* `InOnePlace`: the ids are partitioned over ten places (`Where`); each step moves an id from one to the next (`Move`).
  `OneInsertion`: Lrh waits for at most one insertion, and it is in one of four stations with the key Lrh waits for. `Claims`: what the reverse table and the deletions under way say must be in the CAM, is.
  `CamOf`: keys and ids of the CAM are unique, every id in it is accounted for by a place behind the CAM or by a deletion under way, and that deletion is ahead of the next insertion of the id. `Missed`: the key
  Lrh inserts is not in the CAM, because it missed it and nobody else inserts. `Owners`: whoever knows an id finds its owner in the reverse table.
  None of them is inductive alone: that an insertion finds room needs the places, that a place is right after a deletion needs the claims.

`StateTableClients_proofs`:

* `NoUpdateIsLost`: `Spec => []NoLostUpdate`. The property speaks of the write STt carries out next; that it holds there depends on where the read,
  the reply and the write of a port were before. `LockInv` says it: the two ports never have a lock on one session (`Exclusion`); a reply that waits is alone and is the current
  state of the locked session (`ReplyAlone`); a read is the last thing a client has asked (`ReadIsLast`); a write that was computed from a read is the next thing STt
  does for its port, never parked, and the lock is on its session (`BasedIsNext`). Each lemma takes one kind of step (`TakeQueryLock`, `RetryLock`, `CloseLock`, `PostLock`, `AnswerLock`), for one port, with `ServeOther` for the other.

`RxDelivery_proofs`:

* `AckedIsAlwaysKept`: `NoWrap => (Spec => []AckedIsKept)`. `KeptInv` ties an entry of RSt to the bytes that were kept: everything before `rcvd`, and one block
  beyond it; between the two steps of the state machine only `appd` moves. `OutcomeCases` lists what the comparisons of the code decide, `KeepStep` shows for each outcome that the new pointers enclose kept bytes only. `NoWrap`
  (`Isn + MaxPos < SeqMod`) is needed because the code compares sequence numbers as plain integers (`rx_engine.cpp:1546`).
* `AckedIsAlwaysNotified`: `NoWrap => (Spec => []AckedIsNotifiedOnce)`. The sum over the notifications on their way is a recursive function; `TotalAppend` and `TotalFirst` are proved by
  induction on the length. `AckedIsNotifiedOnce` includes the types, and these need to know what Mwr takes out of two streams at once: `Aligned` says that drop commands and payloads, and then write commands
  and data, which meet by position only, belong together, however far one stream is ahead of the other (`Joined` is the payload Mwr will get in the end).

* `StoredWhenNotified`: `NoWrap => (Spec => []StoredWhileInOrder)`. Ran counts statuses and split flags, MEM counts accesses; neither names the bytes. The invariant (`Line`) ties them by three rising sequences
  that exist in each state: where each notification on its way ends, how many statuses MEM has given by then, and how far memory is written after that many statuses. `Written` says that the cells between `appd` and this edge
  hold their bytes, `Window` that everything on its way fits into the buffer before `appd` comes round. The remainder arithmetic is in `DivMod`, `ModDiffer`, `CellsDiffer`. The property is about streams without a segment out of order (`~oooSeen`) and without a chunk written uncut (`~uncut`): with the first it is false, as
  `rx_ooo_notified` shows, with the second nothing writes the rest of the payload at the beginning of the buffer. The two theorems above hold in either case.

`TxStream_proofs`:

* `TypeCorrect`: `Spec => []TypeOK`. It needs that header, read command, split flag and chunks, which meet in Mrd and Tss by position only, belong together (`ReadLine`), and that the
  number of bytes Tss cuts into frames is that of the header (`Frames` is gone through chunk by chunk).
* `IInvHolds`, `WindowKept`, `FinComesLast`: `Spec => [](Late \/ WithinWindow)`, and the same for `FinIsLast`. The hardware keeps remainders: 16 bits of a pointer into the ring, 32 bits of a sequence number, and it
  compares and subtracts them as they are. The inductive invariant (`IInv`) is about the positions of the stream they stand for, at most one turn before the end of what was written (`SeqPos`, `BufPos`; `AtIs` says
  when a remainder gives its position back), and is a chain of inequalities: what Sml and Tat think is acknowledged, what is on its way to Tat (`SpaceLine`), what TSt and RXe know and the acknowledgments on their way say
  (`AckLine`), what the peer has, what is sent, what Mdl thinks is sent (`SentLine`), what is announced (`Pointers`), what is accepted (`DataLine`), none of them out of order and the two ends less than a buffer
  apart. `WireLine` says of each segment on the wire or at Tss that it lies within what was sent and less than a buffer behind the one ahead, so that the peer, too, gets the position back; `FinLine` follows the FIN from Tac to TSt.
  No part is inductive alone: that Sml writes less than a buffer ahead needs that the pointers in Tat are old but not too old, that those are needs the acknowledgments, these the peer, the peer the segments, the segments what Mdl makes of the entry.
  `Late` is in the statements because the code is wrong there: the data behind the FIN has no place in the order of the positions. What holds in every state is `Upheld`: the types, `ReadLine`, `DueLine` (what is due has been accepted), and `Late` or
  `IInv` with `FinBehindData` (Tac and Sml do not both have an event). `LateStays` says that late data stays late, `InTime` that a step which is not late afterwards accepts data only before the close; with these each step of `IInv` is proved as if the answers of STt were current.
  Nothing is assumed of the application, the network or the number of requests.

`TxBytes_proofs` (on top of `IInv`, which says where the pointers are: what is behind them):

* `BytesKept`: `Spec /\ []WholeLastChunk => [](Late \/ UnackedIsKept)`. `UnackedIsKept` is about streams without an uncut chunk. The invariant (`BytesLine`) says that there is a position up to which Mwr has written; the chunks that wait are the stream from there on
  (`StockLine`), the requests that wait begin where Mwr will be when it takes them (`MetaLine`), and the ring holds the stream up to there, from what the peer has acknowledged (`RingLine`). The statuses of MEM name no bytes.
  `MarkLine` counts them: those that Tash has not used stand for as many ends of requests, or of the buffer, between what was announced and what was written, and this is why one of them, or two when the request crosses the end, are
  enough for Tash to announce it. Mwr's cutting of a chunk at the end of the buffer, with the rest of it joined to the next, is one lemma per branch.
* `RingKept`: `Spec /\ EndsApart => [](Late \/ UnackedIsKept)`, the same from the constants. `WholeLastChunk` is what the branch of `MWR_FWD_1ST_BUF` that does not look at TLAST needs: the chunk it cuts is not the last of its request.
  `EndsApart` says so of the streams: none has a request whose last chunk has bytes on both sides of the end of the buffer. With the stream that has one (`LastChunkStraddles`) the property is false.
* `PeerGetsIt`: `Spec /\ []WholeLastChunk /\ []LongFirstParts => []PeerReads`, and `PeerGetsAll`: `Spec /\ EndsApart /\ []LongFirstParts => []PeerReads`. `PeerReads` is about a stream without late data and uncut chunks. A payload and its header go different ways and meet at Tss by position only, and MEM
  reads the ring long after the segment was chosen, when its cells may hold younger bytes. `LoadLine` says that what MEM has fetched is the payload of the first header that has one, `WireData` that each segment on the wire carries its bytes; both only
  for the positions the peer still waits for (`Fits`), as only these stay in the ring while an access waits, and the peer ignores the others. `FramesRight` follows Tss through one segment chunk by chunk, with the two parts of a read that crosses the end of the
  buffer. `LongFirstParts` excludes reads whose first part is one full chunk (`TSS_DATA` leaves its TLAST set); it is about states because where a read begins depends on retransmissions. It holds in every state of the `tx_stream` run, where reads are
  split, and fails with `SingleChunk`, with which `PeerReads` is false. Once the peer has everything nothing is assumed.

  `MCTxStream` checks `EndsApart` of its streams, so that the theorems apply to the run.

`Fmc_proofs`:

* `WrittenDecoupledHolds`: `Spec => WrittenDecoupled`, an action property: the HWICAP takes a word only while the role is decoupled, and, as long as a configuration is fed to it, writes one into the fabric only then. It does not cover the words left in its FIFO after
  DONE (section 3, bounds). The inductive invariant (`IInv`) says that the HWICAP is fed only when the role is to be decoupled (`Safe`), that this is so as long as a
  configuration is under way (`Configures`), that the decoupling has reached the output except right after the program (`pc = "jobs"`), and that the program is one of those Plan makes for the type of the request (`Programmed`).
  The hard step is Execute, as nothing in a program says which of its instructions are executed: this follows from the return value of the last one and from the skipping, silent or not. `Moves` is what an instruction may change,
  executed or skipped; `ExecutedTrace` gives the chain of pairs a program goes through and `ExecutedConcat` splits it into parts (both by induction along the program); `Keeps` says what a program without certain instructions leaves alone. Then
  `HeaderPartRuns`, `RoutingPartRuns`, `ConfigPartRuns`, `ConfigProgramRuns`, `RoutingProgramRuns` go through the programs, one step per instruction. They show, e.g., that a configuration comes out of the part for routing tables with
  every instruction skipped, which is what `OP_ACTIVATE_DECOUP` waits for, and that a failed configuration, too, ends with the instructions for the end. Nothing is assumed of the clients, the NAL, the PSoC or the HWICAP but that
  the words already taken stay.

`UdpPath_proofs`:

* `PortsAgreeHolds`: `LateOrReplaced => (FairSpec => []PortsAgree)`. A port goes through seven streams between pPortLogic, pUdpLsn, pUdpCls and UOE, and the property looks at them only when all are at rest. The inductive invariant
  (`IInv`) says of workloads without late answers (`OnTime`) that a request to open is at one of five places (`Toward`, `AtUoe`, `InUoe`, `Back`, `Told`), that no port is to be closed twice or while it is noted, and that UOE has open what pPortLogic has noted, what is still to be closed,
  and the port whose answer is on its way. Of a role that stays (`Stays`) it says that nothing is closed, and that what is noted is open or on its way to be. `LateOrReplaced` (one or the other) is the limit of the claim: a port that
  UOE opens after the watchdog of pUdpLsn gave up is not noted, and stays open when the role leaves. `MCUdpPath` checks that its workloads satisfy it. The other processes of the path, UOE's and the NAL's, are shown not to touch the ports (`PutElsewhere`, `PopElsewhere`, `PassElsewhere`).
* `FatesAreJust`: `NoneEmpty => (FairSpec /\ []HeadersFit => []FateIsJust)`. A packet, what is found out about it and what shall be done with it go different ways, and only their order says what belongs together. The inductive invariant (`FateInv`)
  says for each place what it can rely on. `Kinds` gives each stream the frames that may be in it, by the checks they have passed; `Foreign` frees the messages and segments from that, as their names are their own (`TrafficAssumption`).
  `VerdictsMeet`: the five streams behind pIpChecksumAccumulator and its neighbours carry verdicts on the same packets, however far one is ahead of the others. `DropLine` does the same for ICMP, `TxLine` for pUdpTX,
  `UrxLine`, `UrdLine` and `Asked` for the receiving side of the NAL, whose cached rank has to be that of the sender. `RxLine` is the hard one: in UOE one datagram is at six places at once, as chunks of a header, chunks of a datagram in two streams, a verdict, a lookup, and in the
  registers of three processes. It numbers the packets that pIpHeaderStripper takes, and gives each chunk a position (packet, place in it). Then a stream holds the chunks from one position up to another (`Line`), each process is at a position
  (`IhsAt`, `UccAt`, `RphAt`), the streams begin where one process is and end where another is, and the verdicts are on consecutive packets (`Judged`). `RphLine` draws the conclusion for the packet pRxPacketHandler has in hand.
  The realignment behind a header with an odd number of words is in `IsCut` and `Left`, one lemma per state.
  Both hypotheses are needed. A last chunk that is the only one carries an uninitialised flag (`NoneEmpty`); after an empty datagram with a wrong checksum the verdicts are shifted by one. `HeadersFit`: when the stream of headers is full inside a header the packet is dropped,
  but what was written of its header stays there (`uoe.cpp:189-241`). TLC finds `NoMixup` violated with either: with an empty datagram in front of another, and with `HdrDepth` = 4. `MCUdpPath` checks `NoneEmpty` of its workloads, and `NoMixup` includes `HeadersFit`, so that the theorem applies to the run.

Only model-checked:

* all liveness properties (fairness and ENABLED are beyond the prover);
* what the properties of TxStream say when data is late: the window is kept then, too, and the FIN comes behind the data that was due;
* every property of ActiveOpen and NalTcp, `NoMixup` and `WireIntact` of UdpPath, the other properties of Fmc. Some of these hold only on the workloads of their runs (section 3, bounds) and would need that as a hypothesis.

## 5. What is not modelled

* Bytes, byte order (but for the port SLc gives back), checksums and their arithmetic; the data path of RXe in front of the meta data handler; pseudo header, checksum and IP header of TXe.
* Slow start, the congestion window and the probe timer; times and scan positions of the timers: a delay is a number of visits, a timeout may come at any moment.
* Memory read and stitching of RAi; memory statuses that are not okay; payloads on control segments.
* Layer-4 reset, status words, saved ports and own rank in the NAL; UDP and TCP side of the NAL are composed with NTS and TOE only as far as section 2 says (TOE is external to `NalTcp`).
* FMC outside TCP mode: XMEM, PyroLink, manual decoupling.
* RLB (two ready signals), the legacy cores `dhcp_client` and `udp` (not part of the shell), RTL, shell tops, role templates, scripts, register descriptions and test benches.

The hazards without a property are in `PROJECT.json` with the reason for each.

## 6. What could be proved next

* `PortsConserved` of `ActiveOpen`, under the hypothesis that a timer set for a connection does not abort the next.
* `CachesCurrent` of `NalTcp`, `WireIntact` of `UdpPath`.
