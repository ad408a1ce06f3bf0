------------------------------ MODULE MCUdpPath ------------------------------
(* Workloads for UdpPath. *)
EXTENDS UdpPath

\* 1 and 2 are on the own sub-network, as is the gateway 3; 4 is not; rank 3 has
\* no address, and 5 has no rank.
MCIp == 1..6
MCLocal == {1, 2, 3, 6}
MCMrt == <<2, 4, 0>>

Any == [id |-> 1, mac |-> "own", type |-> "ip", src |-> 2, dst |-> 6, ver |-> 4, frag |-> FALSE, sum |-> TRUE,
        ttl |-> 64, proto |-> "udp", long |-> FALSE, pad |-> FALSE, msg |-> "echo", op |-> "request",
        ihl |-> 5, port |-> 1, csum |-> "sum", n |-> 2]
Udp(id, ihl, n) == [Any EXCEPT !.id = id, !.ihl = ihl, !.n = n]
Nothing == [frames |-> <<>>, msgs |-> <<>>, segs |-> <<>>, cam |-> {2, 3}, ports |-> <<{1}>>, opened |-> {1}, late |-> 0]
Message(id, rank, n, known) == [id |-> id, rank |-> rank, n |-> n, known |-> known]

\* Datagrams with headers of different lengths to an open port.
W1 == [Nothing EXCEPT !.frames = <<Udp(1, 5, 3), Udp(2, 6, 3), [Udp(3, 7, 2) EXCEPT !.csum = "none", !.src = 4]>>]
\* A wrong checksum, and a port that is not open.
W2 == [Nothing EXCEPT !.frames = <<[Udp(1, 7, 2) EXCEPT !.csum = "bad"], [Udp(2, 6, 2) EXCEPT !.port = 2], [Udp(3, 5, 2) EXCEPT !.src = 5]>>]
\* Frames of all kinds.
W3 == [Nothing EXCEPT !.cam = {3},
       !.frames = <<[Any EXCEPT !.frag = TRUE, !.proto = "tcp"], [Any EXCEPT !.id = 2, !.proto = "icmp"], [Any EXCEPT !.id = 3, !.ttl = 1, !.src = 4],
                    [Any EXCEPT !.id = 4, !.sum = FALSE]>>]
W4 == [Nothing EXCEPT !.cam = {},
       !.frames = <<[Any EXCEPT !.type = "arp", !.src = 1], [Any EXCEPT !.id = 2, !.proto = "icmp", !.msg = "other"], [Any EXCEPT !.id = 3, !.ver = 6],
                    [Any EXCEPT !.id = 4, !.long = TRUE], [Any EXCEPT !.id = 5, !.mac = "other"], [Any EXCEPT !.id = 6, !.proto = "tcp"]>>]
\* Messages that are split, or dropped, or whose next hop is not known at first.
W5 == [Nothing EXCEPT !.msgs = <<Message(1, 1, 5, FALSE), Message(2, 3, 2, TRUE), Message(3, 1, 1, TRUE)>>]
W6 == [Nothing EXCEPT !.cam = {}, !.msgs = <<Message(2, 2, 1, TRUE)>>, !.segs = <<Packet("tcp", 7, 2), Packet("tcp", 8, 99)>>]
\* A role that is replaced, and a late answer.
W7 == [Nothing EXCEPT !.ports = <<{1, 2}, {2}>>, !.opened = {1, 2}, !.frames = <<Udp(1, 5, 3)>>]
W8 == [Nothing EXCEPT !.ports = <<{1, 2}>>, !.opened = {}, !.frames = <<Udp(1, 6, 2)>>, !.late = 1]
MCWorks == {W1, W2, W3, W4, W5, W6, W7, W8}

\* What the theorems of UdpPath_proofs assume.
ASSUME LateOrReplaced
ASSUME NoneEmpty
=============================================================================
