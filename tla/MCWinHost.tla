----------------------------- MODULE MCWinHost -----------------------------
(* Instances of WinHost for TLC.  Ports: 22 served, 1 closed, 7 neither (an  *)
(* ephemeral port of the host's own), 3389 preserved.  "nots" is the SYN of  *)
(* the ECN probe, "nows" one without window scale.                           *)
EXTENDS WinHost

Tcp(from, port, flags) ==
    [proto |-> "tcp", from |-> from, port |-> port, flags |-> flags, body |-> "ts",
     v6 |-> FALSE, loopback |-> FALSE]
Syn(from, port, body) == [Tcp(from, port, {"SYN"}) EXCEPT !.body = body]
Udp(port, body) == [Tcp("c1", port, {}) EXCEPT !.proto = "udp", !.body = body]
Icmp(type) == [Tcp("c1", 0, {}) EXCEPT !.proto = "icmp", !.body = type]
V6(p) == [p EXCEPT !.v6 = TRUE]

Host(kind, flags, opts) == Out("tcp", kind, "c1", flags, opts)
HostPackets == {
    Host("data", {"ACK"}, <<"N", "N", "T">>), Host("rst", {"RST", "ACK"}, <<>>),
    Host("syn", {"SYN"}, <<"M", "N", "W", "N", "N", "S">>), Host("syn", {"SYN"}, <<"M", "N", "W", "S", "T">>),
    Host("synack", {"SYN", "ACK"}, <<"M", "S", "T">>), Out("icmp", "echo_request", "c2", {}, <<>>)}

Profile(family, window, wscale, ts, order) ==
    [family |-> family, ttl |-> IF family = "windows" THEN 128 ELSE 64, df |-> TRUE, ipid |-> "inc",
     window |-> window, wscale |-> wscale, ts |-> ts, sack |-> TRUE, order |-> order, rstZero |-> TRUE,
     ecn |-> "", v6 |-> FALSE, hifi |-> FALSE, watchdog |-> TRUE]
Debian == [Profile("linux", "FE88", TRUE, TRUE, <<"M", "S", "T", "N", "W">>) EXCEPT !.ipid = "random"]
HiFi == [Debian EXCEPT !.hifi = TRUE]
HiFiUnwatched == [HiFi EXCEPT !.watchdog = FALSE]
Win11 == Profile("windows", "FFFF", TRUE, TRUE, <<"M", "N", "W", "S", "T">>)
Win2008 == [Profile("windows", "2000", TRUE, TRUE, <<"M", "N", "W", "S", "T">>) EXCEPT !.v6 = TRUE]
Server2019 == [Profile("windows", "FFFF", TRUE, FALSE, <<"M", "N", "W", "N", "N", "S">>) EXCEPT !.ecn = "echo"]
Sonoma == [Profile("macos", "FFFF", TRUE, TRUE, <<"M", "N", "W", "N", "N", "T", "S", "E">>) EXCEPT
              !.ecn = "echo", !.ipid = "zero"]
XP == Profile("windows", "FFFF", FALSE, FALSE, <<"M", "N", "N", "S">>)

Base == [profile |-> Debian, workstation |-> FALSE, behavior |-> "", closed |-> {1}, served |-> {22},
         openPorts |-> {}, preservePorts |-> {}, hostTS |-> FALSE, inbound |-> {}, host |-> {},
         packets |-> 0, early |-> TRUE, faults |-> FALSE]
Probing == {Tcp("c1", port, flags) : port \in {1, 7, 22},
                flags \in {{}, {"SYN"}, {"ACK"}, {"ACK", "ECE"}, {"SYN", "ACK"}, {"FIN", "ACK"}, {"SYN", "FIN"}}}
Datagrams == {Udp(port, body) : port \in {1, 7}, body \in {"", "u1", "other300"}}
Others == {Icmp("echo"), Icmp("tstamp"), Icmp("other"), V6(Tcp("c1", 22, {"ACK"})), V6(Syn("c1", 1, "ts")),
           V6(Udp(7, "u1")), Syn("c1", 3389, "ts"), [Syn("c1", 7, "ts") EXCEPT !.loopback = TRUE]}
Syns == {Syn("c1", 22, "ts"), Syn("c1", 22, "nots"), Syn("c2", 22, "nots"), Syn("c3", 22, "nows")}

MCSetups ==
    \* every kind of packet against every persona's handles
    {[Base EXCEPT !.profile = p, !.workstation = (p = Win11), !.preservePorts = {3389}, !.closed = closed,
                  !.inbound = Probing \cup Datagrams \cup Others, !.packets = 1] :
        p \in {Debian, Win11}, closed \in {{}, {1}}}
    \* answers to SYNs, the host's own packets
    \cup {[Base EXCEPT !.hostTS = ts, !.closed = {}, !.inbound = Syns, !.packets = 2, !.early = FALSE] :
             ts \in BOOLEAN}
    \cup {[Base EXCEPT !.closed = {}, !.inbound = Syns \ {Syn("c3", 22, "nows")}, !.packets = 3, !.early = FALSE]}
    \cup {[Base EXCEPT !.profile = p, !.inbound = {Syn("c1", 22, "ts"), Syn("c1", 22, "nots")},
                       !.hostTS = TRUE, !.host = HostPackets, !.packets = 2, !.early = FALSE] :
             p \in {Debian, Win11, Win2008, Server2019, XP, Sonoma}}
    \* starts that fail, the driver and its watchdog
    \cup {[Base EXCEPT !.behavior = "drop", !.openPorts = {22}, !.faults = TRUE]}
    \cup {[Base EXCEPT !.profile = p, !.served = {}, !.closed = {},
                       !.inbound = {Udp(7, "other300")}, !.packets = 1, !.faults = TRUE] : p \in {HiFi, HiFiUnwatched}}
=============================================================================
