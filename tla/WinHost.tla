------------------------------- MODULE WinHost -------------------------------
(***************************************************************************)
(* The persona on a Windows host: the WinDivert responders that "mimic     *)
(* run" starts before anything else (internal/netfilter/*_windows.go,      *)
(* internal/platform/closed_fw_windows.go), the stack goroutine with the   *)
(* loop that rewrites outbound packets (internal/stack/backend_windows.go, *)
(* module Egress), and the high-fidelity driver with its watchdog          *)
(* (hifi_windows.go, connmon_windows.go).                                  *)
(*                                                                         *)
(* WinDivert itself is external: a packet meets the open handles whose     *)
(* filter matches it from the highest priority down, handles of the same   *)
(* priority in any order; one that is reinjected goes on below the handle  *)
(* it was sent on.  Every handle has a goroutine that receives from it.    *)
(***************************************************************************)
EXTENDS Egress, FiniteSets

CONSTANTS
    Setups,         \* hosts to consider
    CacheMax,       \* SYN records kept before the cache is emptied: 4096
    WatchdogFails,  \* watchdogFails: 3
    QueueBound      \* bound: packets waiting at the stack's handle

\* What the command line, the configuration and the profile say, and the
\* packets to expect.
SetupFields == {"profile", "workstation", "behavior", "closed", "served", "openPorts", "preservePorts",
                "hostTS", "inbound", "host", "packets", "early", "faults"}

ASSUME BoundsAssumption ==
    /\ \A s \in Setups : DOMAIN s = SetupFields
    /\ CacheMax \in Nat /\ WatchdogFails \in Nat \ {0} /\ QueueBound \in Nat \ {0}

VARIABLES
    setup,          \* configuration, traffic to expect, packets left
    pc, step,       \* main: start, run, stop, wait, exited; its place
    broken,         \* responders whose start failed
    open, loops,    \* divert handles; handles with a goroutine
    rules,          \* host firewall rules and permits
    kept,           \* rules whose removal failed (history)
    stk,            \* the stack goroutine
    enabled,
    synCache,       \* client -> what its SYN carried
    asked,          \* client -> what its latest SYN carried (history)
    counter,        \* IP-ID
    inb,            \* the inbound packet under way
    q,              \* packets at the stack's handle
    owed,           \* SYNs that the host's stack has yet to answer
    fate,           \* what became of the latest inbound packet (history)
    armed,          \* the driver
    hifiMu, hifiWd, \* lock, and whether the backend still knows its watchdog
    wd,             \* the watchdog goroutine
    reach,          \* the probed address answers
    shutdown

main == <<pc, step, broken, rules, kept>>
traffic == <<synCache, asked, counter, inb, q, owed, fate>>
driver == <<armed, hifiMu, hifiWd, wd, reach>>
vars == <<setup, main, open, loops, stk, enabled, traffic, driver, shutdown>>

InboundSyn == [kind |-> "inbound"]     \* the place of inb.pkt in the queue
NoPacket == [pkt |-> [proto |-> "none"], at |-> "none", seen |-> {}]
NoWatchdog == [st |-> "none", fails |-> 0, stop |-> FALSE]
-----------------------------------------------------------------------------
(* What is started, and the packets that each handle takes.                *)

IsLinux == setup.profile.family = "linux"
autoDrop == setup.workstation /\ setup.behavior # "reset"
Allow == (setup.openPorts \cup setup.preservePorts \cup (IF autoDrop THEN setup.served ELSE {})) \ {0}
ProbePorts == setup.closed \cup setup.served
T7Ports == IF setup.closed = {} THEN ProbePorts ELSE setup.closed

Handles == [fw |-> {"drop", "icmpdrop"}, closed |-> {"rst"}, probes |-> {"t46", "t7", "t23"},
            icmp |-> {"echo", "tstamp", "u1", "sig"}]
Rules == [fw |-> {}, closed |-> {"closed"}, probes |-> {}, icmp |-> {"udpany", "icmpout", "wfp"}]
Priority == [t7 |-> 2100, sig |-> 2050, u1 |-> 2000, t23 |-> 1500, echo |-> 1100, tstamp |-> 1100,
             t46 |-> 1000, drop |-> 0, icmpdrop |-> 0, rst |-> 0, stack |-> 0]

\* The steps of every start in order; a failure of one that is needed ends its
\* responder's start.
Step(who, name, needed) == [who |-> who, name |-> name, needed |-> needed]
When(condition, steps) == IF condition THEN steps ELSE <<>>
FirewallSteps ==
    When(setup.behavior = "drop" \/ autoDrop,
         <<Step("fw", "drop", TRUE)>> \o When(setup.workstation, <<Step("fw", "icmpdrop", FALSE)>>))
ClosedSteps ==
    When(setup.closed # {},
         <<Step("closed", "closed", TRUE)>> \o When(IsLinux, <<Step("closed", "rst", TRUE)>>))
ProbeSteps ==
    When(IsLinux /\ ProbePorts # {},
         <<Step("probes", "t46", TRUE), Step("probes", "t7", TRUE), Step("probes", "t23", TRUE)>>)
ICMPSteps ==
    When(IsLinux,
         <<Step("icmp", "udpany", TRUE), Step("icmp", "icmpout", TRUE), Step("icmp", "wfp", FALSE),
           Step("icmp", "echo", TRUE), Step("icmp", "tstamp", TRUE)>>
         \o When(setup.closed # {}, <<Step("icmp", "u1", TRUE)>>) \o <<Step("icmp", "sig", FALSE)>>)
Steps == FirewallSteps \o ClosedSteps \o ProbeSteps \o ICMPSteps
\* The responders that runMimic keeps, and so stops.
Owned == {s.who : s \in ToSet(Steps)} \ broken

BareSyn(p) == p.proto = "tcp" /\ "SYN" \in p.flags /\ "ACK" \notin p.flags
ICMPType(p, type) == p.proto = "icmp" /\ p.body = type
Flags(p) == p.flags \ {"ECE"}        \* the filters do not look at ECE

DropFilter(p) == BareSyn(p) /\ p.port \notin Allow
closedPortFilter(p) == BareSyn(p) /\ p.port \in setup.closed
linuxTProbeFilter(p) ==
    p.proto = "tcp" /\ Flags(p) \in {{"ACK"}, {"SYN", "ACK"}} /\ p.port \in ProbePorts
linuxT7ProbeFilter(p) ==
    p.proto = "tcp" /\ "FIN" \in p.flags /\ {"SYN", "RST"} \cap p.flags = {} /\ p.port \in T7Ports
linuxT2T3DropFilter(p) ==
    p.proto = "tcp" /\ (Flags(p) = {} \/ {"SYN", "FIN"} \subseteq p.flags) /\ p.port \in ProbePorts
udpUnreachableFilter(p) == p.proto = "udp" /\ p.port \in setup.closed \ {0}
u1LengthFilter(p) == p.proto = "udp" /\ p.body \in {"u1", "other300"}
\* The filter's outbound clause takes loopback too: WinDivert knows loopback
\* packets only as outbound ones.
winFilter(p) == ~p.v6 /\ IF p.loopback THEN p.proto \in {"tcp", "icmp"} ELSE BareSyn(p)

Matches(h, p) ==
    /\ p.loopback => h = "stack"
    /\ CASE h = "drop" -> DropFilter(p)
         [] h \in {"icmpdrop", "echo"} -> ICMPType(p, "echo")
         [] h = "tstamp" -> ICMPType(p, "tstamp")
         [] h = "rst" -> closedPortFilter(p)
         [] h = "t46" -> linuxTProbeFilter(p)
         [] h = "t7" -> linuxT7ProbeFilter(p)
         [] h = "t23" -> linuxT2T3DropFilter(p)
         [] h = "u1" -> udpUnreachableFilter(p)
         [] h = "sig" -> u1LengthFilter(p)
         [] h = "stack" -> winFilter(p)

Below(h, seen) == \A s \in seen : Priority[h] <= Priority[s]
Contenders == {h \in open \ inb.seen : Matches(h, inb.pkt) /\ Below(h, inb.seen)}

\* linuxProbeRSTOpts: flags = ack, or syn|ack, exactly; FIN whatever else is set.
linuxProbeRSTOpts(p) == p.flags \in {{"ACK"}, {"SYN", "ACK"}} \/ "FIN" \in p.flags
\* What the goroutine of a handle does with a packet; the crafted answers are
\* IPv4, so rstLoop loses an IPv6 packet and respondLoop passes it on.
Verdict(h, p) ==
    CASE h \in {"drop", "icmpdrop", "t23"} -> "drop"
      [] h = "rst" -> IF p.v6 THEN "drop" ELSE "answer"
      [] h \in {"t46", "t7"} -> IF linuxProbeRSTOpts(p) /\ ~p.v6 THEN "answer" ELSE "pass"
      [] h = "sig" -> IF p.body = "u1" /\ ~p.v6 THEN "answer" ELSE "pass"
      [] h \in {"echo", "tstamp", "u1"} -> "answer"

\* An outbound packet as the host or a responder makes it.
Out(proto, kind, to, flags, opts) ==
    [proto |-> proto, kind |-> kind, to |-> to, flags |-> flags, opts |-> opts, doff |-> Bytes(opts),
     win |-> "host", ttl |-> 128, df |-> TRUE, id |-> 0, code |-> 0,
     tsecr |-> IF Has(opts, "T") THEN "client" ELSE "none",
     clk |-> IF Has(opts, "T") THEN "host" ELSE "none"]

\* What a Windows host's TCP sends, and what the profiles under profiles/ have
\* in common: timestamps come with window scale and an option order, Linux has
\* them behind SACK and no IP-ID of zero, Windows has SACK further behind.
HostSegment(p) ==
    /\ p = Out("tcp", p.kind, p.to, p.flags, p.opts)
    /\ p.opts \in IF "SYN" \in p.flags
                  THEN {<<"M", "S", "T">>, <<"M", "N", "N", "S">>, <<"M", "N", "W", "S", "T">>,
                        <<"M", "N", "W", "N", "N", "S">>}
                  ELSE {<<>>, <<"N", "N", "T">>}
    /\ "ECE" \in p.flags => {"SYN", "ACK"} \subseteq p.flags
ASSUME PersonaAssumption ==
    \A s \in Setups : LET prof == toWinProfile(s.profile) IN
        /\ \A p \in s.host : p.proto = "tcp" => HostSegment(p)
        /\ prof.ts => prof.wscale /\ prof.ordered
        /\ prof.ecnEcho => prof.ts /\ prof.opt1 = "S" /\ prof.ipid # "zero"
        /\ prof.winQuirks /\ prof.ts => prof.opt1 # "S"

craftProbeRST(p) ==
    Out("tcp", "rst", p.from, IF p.flags \in {{"ACK"}, {"SYN", "ACK"}} THEN {"RST"} ELSE {"RST", "ACK"}, <<>>)
Craft(h, p) ==
    CASE h \in {"rst", "t46", "t7"} -> craftProbeRST(p)
      [] h = "echo" -> Out("icmp", "echo_reply", p.from, {}, <<>>)
      [] h = "tstamp" -> Out("icmp", "tstamp_reply", p.from, {}, <<>>)
      [] h \in {"u1", "sig"} -> Out("icmp", "unreach", p.from, {}, <<>>)
-----------------------------------------------------------------------------
Init ==
    /\ setup \in Setups
    /\ pc = "start" /\ step = 1 /\ broken = {}
    /\ open = {} /\ loops = {} /\ rules = {} /\ kept = {}
    /\ stk = "none" /\ enabled = FALSE
    /\ synCache = [c \in {} |-> {}] /\ asked = [c \in {} |-> ""] /\ counter = 0
    /\ inb = NoPacket /\ q = <<>> /\ owed = {} /\ fate = "none"
    /\ armed = FALSE /\ hifiMu = "free" /\ hifiWd = FALSE /\ wd = NoWatchdog
    /\ reach = TRUE /\ shutdown = FALSE

(* The main goroutine.                                                     *)

Install(name) ==
    IF name \in DOMAIN Priority
    THEN open' = open \cup {name} /\ loops' = loops \cup {name} /\ UNCHANGED rules
    ELSE rules' = rules \cup {name} /\ UNCHANGED <<open, loops>>

StartStep ==
    /\ pc = "start" /\ step <= Len(Steps)
    /\ step' = step + 1
    /\ IF Steps[step].who \in broken THEN UNCHANGED <<open, loops, rules>> ELSE Install(Steps[step].name)
    /\ UNCHANGED <<setup, pc, broken, kept, stk, enabled, traffic, driver, shutdown>>

\* netsh may have added the rules of some of the closed ports.
StartFails ==
    /\ pc = "start" /\ step <= Len(Steps) /\ setup.faults /\ Steps[step].who \notin broken
    /\ step' = step + 1
    /\ broken' = IF Steps[step].needed THEN broken \cup {Steps[step].who} ELSE broken
    /\ rules' \in {rules} \cup (IF Steps[step].name = "closed" THEN {rules \cup {"closed"}} ELSE {})
    /\ UNCHANGED <<setup, pc, kept, open, loops, stk, enabled, traffic, driver, shutdown>>

Started ==
    /\ pc = "start" /\ step > Len(Steps)
    /\ pc' = "run" /\ stk' = "load"
    /\ UNCHANGED <<setup, step, broken, rules, kept, open, loops, enabled, traffic, driver, shutdown>>

\* A signal, the service manager, the control plane.
Shutdown ==
    /\ pc = "run" /\ ~shutdown
    /\ shutdown' = TRUE
    /\ UNCHANGED <<setup, main, open, loops, stk, enabled, traffic, driver>>

\* wg.Wait, then the deferred stops.
Joined ==
    /\ pc = "run" /\ shutdown /\ stk = "done"
    /\ pc' = "stop" /\ step' = 1
    /\ UNCHANGED <<setup, broken, rules, kept, open, loops, stk, enabled, traffic, driver, shutdown>>

StopOrder == <<"icmp", "probes", "closed", "fw">>

\* closing is set before the first handle is closed.
StopResponder ==
    /\ pc = "stop" /\ step <= Len(StopOrder)
    /\ IF StopOrder[step] \in Owned THEN pc' = "wait" /\ UNCHANGED step ELSE step' = step + 1 /\ UNCHANGED pc
    /\ UNCHANGED <<setup, broken, rules, kept, open, loops, stk, enabled, traffic, driver, shutdown>>
Closing(h) == pc = "wait" /\ h \in Handles[StopOrder[step]]

\* The handles are closed one by one, as they were opened.
Opened == [drop |-> 1, icmpdrop |-> 2, rst |-> 1, t46 |-> 1, t7 |-> 2, t23 |-> 3,
           echo |-> 1, tstamp |-> 2, u1 |-> 3, sig |-> 4]
CloseHandle ==
    /\ pc = "wait"
    /\ \E h \in open \cap Handles[StopOrder[step]] :
          /\ \A o \in open \cap Handles[StopOrder[step]] : Opened[h] <= Opened[o]
          /\ open' = open \ {h}
    /\ UNCHANGED <<setup, main, loops, stk, enabled, traffic, driver, shutdown>>

\* Mutant: the rule that lets ICMP out stays behind.
RulesLeftBehind(who, failing) == rules \ (Rules[who] \ ({"icmpout"} \cup failing))
RulesAfter(who, failing) == rules \ (Rules[who] \ failing)

\* wg.Wait, then the rules; the errors of netsh are discarded.
ResponderStopped ==
    /\ pc = "wait" /\ (open \cup loops) \cap Handles[StopOrder[step]] = {}
    /\ \E failing \in SUBSET (IF setup.faults THEN Rules[StopOrder[step]] ELSE {}) :
          rules' = RulesAfter(StopOrder[step], failing) /\ kept' = kept \cup (rules \cap failing)
    /\ pc' = "stop" /\ step' = step + 1
    /\ UNCHANGED <<setup, broken, open, loops, stk, enabled, traffic, driver, shutdown>>

\* The process ends; what its goroutines held is gone.
Exit ==
    /\ pc = "stop" /\ step > Len(StopOrder)
    /\ pc' = "exited" /\ inb' = NoPacket /\ q' = <<>> /\ owed' = {}
    /\ fate' = IF inb.at = "none" THEN fate ELSE "closed"
    /\ UNCHANGED <<setup, step, broken, rules, kept, open, loops, stk, enabled, synCache, asked, counter, driver, shutdown>>
-----------------------------------------------------------------------------
(* The stack goroutine.  Load's failure makes the main goroutine shut down. *)

Stack(from, to) == stk = from /\ stk' = to

Load ==
    /\ Stack("load", "enable")
    /\ open' = open \cup {"stack"} /\ loops' = loops \cup {"stack"}
    /\ UNCHANGED <<setup, main, enabled, traffic, driver, shutdown>>

LoadFails ==
    /\ setup.faults /\ Stack("load", "done") /\ shutdown' = TRUE
    /\ UNCHANGED <<setup, main, open, loops, enabled, traffic, driver>>

Enable ==
    /\ Stack("enable", "arm") /\ enabled' = TRUE
    /\ UNCHANGED <<setup, main, open, loops, traffic, driver, shutdown>>

\* The driver may be absent, and the watchdog without an address to probe.
\* Nothing enables the backend again, so hifiTripped has no reader here.
maybeArmHiFi ==
    LET prof == toWinProfile(setup.profile)
    IN  /\ Stack("arm", "wait") /\ hifiMu = "free"
        /\ armed' \in IF prof.highFidelity /\ ~prof.winQuirks THEN BOOLEAN ELSE {FALSE}
        /\ hifiWd' \in IF armed' /\ prof.hifiWatchdog THEN BOOLEAN ELSE {FALSE}
        /\ wd' = IF hifiWd' THEN [NoWatchdog EXCEPT !.st = "run"] ELSE wd
        /\ UNCHANGED <<setup, main, open, loops, enabled, traffic, hifiMu, reach, shutdown>>

ShutdownSeen ==
    /\ shutdown /\ Stack("wait", "disarm")
    /\ UNCHANGED <<setup, main, open, loops, enabled, traffic, driver, shutdown>>

\* disarmHiFi: the lock, the driver, the unlock, and then the watchdog, which
\* is stopped only if the backend still knew it when the lock was taken.
LockHiFi ==
    /\ Stack("disarm", "locked") /\ hifiMu = "free"
    /\ hifiMu' = "stack"
    /\ UNCHANGED <<setup, main, open, loops, enabled, traffic, armed, hifiWd, wd, reach, shutdown>>

\* Mutant: the watchdog is stopped with the lock held.
disarmHoldingLock ==
    /\ Stack("locked", IF hifiWd THEN "stopwd" ELSE "close")
    /\ armed' = FALSE /\ hifiWd' = FALSE /\ UNCHANGED hifiMu
    /\ UNCHANGED <<setup, main, open, loops, enabled, traffic, wd, reach, shutdown>>
disarmHiFi ==
    /\ Stack("locked", IF hifiWd THEN "stopwd" ELSE "close")
    /\ armed' = FALSE /\ hifiWd' = FALSE /\ hifiMu' = "free"
    /\ UNCHANGED <<setup, main, open, loops, enabled, traffic, wd, reach, shutdown>>

StopWatchdog ==
    /\ Stack("stopwd", "joinwd") /\ wd' = [wd EXCEPT !.stop = TRUE]
    /\ UNCHANGED <<setup, main, open, loops, enabled, traffic, armed, hifiMu, hifiWd, reach, shutdown>>

WatchdogJoined ==
    /\ Stack("joinwd", "close") /\ wd.st = "gone"
    /\ UNCHANGED <<setup, main, open, loops, enabled, traffic, driver, shutdown>>

\* The driver of the handle discards what waits there.
Close ==
    /\ Stack("close", "join") /\ open' = open \ {"stack"}
    /\ q' = <<>>
    /\ IF inb.at = "stack" THEN inb' = NoPacket /\ fate' = "closed" ELSE UNCHANGED <<inb, fate>>
    /\ UNCHANGED <<setup, main, loops, enabled, synCache, asked, counter, owed, driver, shutdown>>

LoopJoined ==
    /\ Stack("join", "done") /\ "stack" \notin loops
    /\ UNCHANGED <<setup, main, open, loops, enabled, traffic, driver, shutdown>>
-----------------------------------------------------------------------------
(* The watchdog goroutine.                                                 *)

\* Mutant: only the latest probe counts.
fewerFails == IF reach THEN 0 ELSE 1
FailsNow == IF reach THEN 0 ELSE wd.fails + 1

Tick ==
    /\ wd.st = "run"
    /\ wd' = IF FailsNow >= WatchdogFails THEN [wd EXCEPT !.fails = 0, !.st = "trip"]
             ELSE [wd EXCEPT !.fails = FailsNow]
    /\ UNCHANGED <<setup, main, open, loops, stk, enabled, traffic, armed, hifiMu, hifiWd, reach, shutdown>>

watchdogTrip ==
    /\ wd.st = "trip" /\ hifiMu = "free"
    /\ wd' = [wd EXCEPT !.st = "tripped"] /\ armed' = FALSE /\ hifiWd' = FALSE
    /\ UNCHANGED <<setup, main, open, loops, stk, enabled, traffic, hifiMu, reach, shutdown>>

WatchdogReturns ==
    /\ wd.st = "tripped" \/ (wd.st = "run" /\ wd.stop)
    /\ wd' = [wd EXCEPT !.st = "gone", !.fails = 0]
    /\ UNCHANGED <<setup, main, open, loops, stk, enabled, traffic, armed, hifiMu, hifiWd, reach, shutdown>>

\* The network comes and goes.
NetworkChanges ==
    /\ wd.st \in {"run", "trip"} /\ reach' = ~reach
    /\ UNCHANGED <<setup, main, open, loops, stk, enabled, traffic, armed, hifiMu, hifiWd, wd, shutdown>>
-----------------------------------------------------------------------------
(* Traffic.                                                                *)

Counted == setup.packets > 0 /\ setup' = [setup EXCEPT !.packets = @ - 1]
Elsewhere == UNCHANGED <<main, open, stk, enabled, driver, shutdown>>

Arrive(p) ==
    /\ inb.at = "none" /\ pc # "exited" /\ (setup.early \/ stk = "wait") /\ Counted
    /\ inb' = [pkt |-> p, at |-> "wire", seen |-> {}] /\ fate' = "none"
    /\ UNCHANGED <<loops, synCache, asked, counter, q, owed>> /\ Elsewhere

Captured(h) ==
    /\ inb.at = "wire" /\ h \in Contenders /\ \A o \in Contenders : Priority[h] >= Priority[o]
    /\ inb' = [inb EXCEPT !.at = h]
    /\ IF h = "stack" THEN Len(q) < QueueBound /\ q' = Append(q, InboundSyn) ELSE UNCHANGED q
    /\ UNCHANGED <<setup, loops, synCache, asked, counter, owed, fate>> /\ Elsewhere

\* The host's stack gets it; a SYN to an open port will be answered.
Delivered ==
    /\ inb.at = "wire" /\ Contenders = {}
    /\ owed' = IF BareSyn(inb.pkt) /\ inb.pkt.port \in setup.served /\ ~inb.pkt.v6 /\ ~inb.pkt.loopback
               THEN owed \cup {inb.pkt} ELSE owed
    /\ fate' = "delivered" /\ inb' = NoPacket
    /\ UNCHANGED <<setup, loops, synCache, asked, counter, q>> /\ Elsewhere

\* An outbound packet meets the stack's handle; one that was sent on a handle
\* meets it if it is below, and for the same priority WinDivert does not say.
Send(p) ==
    IF "stack" \in open THEN Len(q) < QueueBound /\ q' = Append(q, p) ELSE UNCHANGED q
SendOn(h, p) == Send(p) \/ (Priority[h] = Priority.stack /\ UNCHANGED q)

\* The goroutines of the responders; port-unreachable goes out on the echo handle.
Respond(h) ==
    LET verdict == IF h \in {"u1", "sig"} /\ Verdict(h, inb.pkt) = "answer" /\ "echo" \notin open
                   THEN "drop" ELSE Verdict(h, inb.pkt)
    IN  /\ inb.at = h /\ h \in (open \cap loops) \ {"stack"}
        /\ IF verdict = "pass"
           THEN inb' = [inb EXCEPT !.at = "wire", !.seen = @ \cup {h}] /\ UNCHANGED <<q, fate>>
           ELSE /\ inb' = NoPacket /\ fate' = verdict
                /\ IF verdict = "answer" THEN SendOn(h, Craft(h, inb.pkt)) ELSE UNCHANGED q
        /\ UNCHANGED <<setup, loops, synCache, asked, counter, owed>> /\ Elsewhere

\* A packet in the hands of a goroutine whose handle is closed: its send fails.
LostAtClose ==
    /\ inb.at \in DOMAIN Priority \ open
    /\ inb' = NoPacket /\ fate' = "closed"
    /\ UNCHANGED <<setup, loops, synCache, asked, counter, q, owed>> /\ Elsewhere

\* A receive that fails: the end of the loop if closing is set (or the handle
\* closed), otherwise it goes on.
\* Mutant: any error ends it.
LoopsAfterAnyError(h) == loops \ {h}
LoopsAfterError(h) == IF h \in open /\ ~Closing(h) THEN loops ELSE loops \ {h}

RecvFails(h) ==
    /\ h \in loops /\ inb.at # h
    /\ loops' = LoopsAfterError(h)
    /\ UNCHANGED <<setup, traffic>> /\ Elsewhere

Put(f, key, value) == [k \in DOMAIN f \cup {key} |-> IF k = key THEN value ELSE f[k]]
recordInboundSyn(p) ==
    LET cache == IF Cardinality(DOMAIN synCache) > CacheMax THEN <<>> ELSE synCache
    IN  synCache' = Put(cache, p.from, [ts |-> p.body # "nots", fresh |-> TRUE])

\* Mutant: the key is the server's end.
lookupServer(p) == [have |-> FALSE, ts |-> FALSE]
lookupSynFlow(p) ==
    IF p.to \in DOMAIN synCache /\ synCache[p.to].fresh
    THEN [have |-> TRUE, ts |-> synCache[p.to].ts] ELSE [have |-> FALSE, ts |-> FALSE]

Expire(c) ==
    /\ c \in DOMAIN synCache /\ synCache[c].fresh
    /\ synCache' = [synCache EXCEPT ![c].fresh = FALSE]
    /\ UNCHANGED <<setup, loops, asked, counter, inb, q, owed, fate>> /\ Elsewhere

\* loop: an inbound SYN is recorded and goes on its way; a loopback packet,
\* outbound, is counted and rewritten like the host's others,
LoopInbound ==
    /\ {"stack"} \subseteq open \cap loops /\ q # <<>> /\ Head(q).kind = "inbound"
    /\ q' = Tail(q) /\ inb' = [inb EXCEPT !.at = "wire", !.seen = @ \cup {"stack"}]
    /\ IF enabled /\ ~inb.pkt.loopback
       THEN recordInboundSyn(inb.pkt) /\ asked' = Put(asked, inb.pkt.from, inb.pkt.body)
       ELSE UNCHANGED <<synCache, asked>>
    /\ counter' = IF enabled /\ inb.pkt.loopback
                  THEN nextCounter(inb.pkt, toWinProfile(setup.profile), counter) ELSE counter
    /\ UNCHANGED <<setup, loops, owed, fate>> /\ Elsewhere

\* an outbound packet is rewritten and sent.
Outbound == {"stack"} \subseteq open \cap loops /\ q # <<>> /\ Head(q).kind # "inbound"
Rewritten == applyEgress(Head(q), toWinProfile(setup.profile), counter,
                         IF IsSynAck(Head(q)) THEN lookupSynFlow(Head(q)) ELSE [have |-> FALSE, ts |-> FALSE])
LoopOutbound ==
    /\ Outbound
    /\ q' = Tail(q)
    /\ counter' = IF enabled THEN nextCounter(Head(q), toWinProfile(setup.profile), counter) ELSE counter
    /\ UNCHANGED <<setup, loops, synCache, asked, inb, owed, fate>> /\ Elsewhere

\* The host's stack: its SYN-ACK has a timestamp if the host uses them and the
\* SYN had one, a window scale if the SYN had one, ECE if the SYN came from the
\* probe without timestamps.
SynAck(syn) ==
    Out("tcp", "synack", syn.from, {"SYN", "ACK"} \cup (IF syn.body = "nots" THEN {"ECE"} ELSE {}),
        IF syn.body = "nows" THEN IF setup.hostTS THEN <<"M", "S", "T">> ELSE <<"M", "N", "N", "S">>
        ELSE IF syn.body = "ts" /\ setup.hostTS THEN <<"M", "N", "W", "S", "T">>
        ELSE <<"M", "N", "W", "N", "N", "S">>)
HostAnswers ==
    /\ pc # "exited"
    /\ \E syn \in owed : owed' = owed \ {syn} /\ Send(SynAck(syn))
    /\ UNCHANGED <<setup, loops, synCache, asked, counter, inb, fate>> /\ Elsewhere
HostSends(p) ==
    /\ "stack" \in open /\ Len(q) < QueueBound /\ Counted
    /\ q' = Append(q, p)
    /\ UNCHANGED <<loops, synCache, asked, counter, inb, owed, fate>> /\ Elsewhere
-----------------------------------------------------------------------------
Exited == pc = "exited" /\ UNCHANGED vars

Main == StartStep \/ StartFails \/ Started \/ Joined \/ StopResponder \/ CloseHandle \/ ResponderStopped \/ Exit
Stacking ==
    \/ Load \/ LoadFails \/ Enable \/ maybeArmHiFi \/ ShutdownSeen \/ LockHiFi \/ disarmHiFi
    \/ StopWatchdog \/ WatchdogJoined \/ Close \/ LoopJoined
Carry == (\E h \in DOMAIN Priority : Captured(h)) \/ Delivered \/ LostAtClose
Next ==
    \/ Main \/ Shutdown \/ Stacking \/ Carry \/ Exited
    \/ Tick \/ watchdogTrip \/ WatchdogReturns \/ NetworkChanges
    \/ \E p \in setup.inbound : Arrive(p)
    \/ \E p \in setup.host : HostSends(p)
    \/ \E h \in DOMAIN Priority : Respond(h) \/ RecvFails(h)
    \/ \E c \in DOMAIN synCache : Expire(c)
    \/ LoopInbound \/ LoopOutbound \/ HostAnswers

\* Goroutines that can go on do, packets travel, and a closed handle fails its
\* receive; the traffic, the network and the shutdown are nobody's duty.
Fairness ==
    /\ WF_vars(Main) /\ WF_vars(Stacking) /\ WF_vars(Carry)
    /\ WF_vars(Tick) /\ WF_vars(watchdogTrip) /\ WF_vars(WatchdogReturns)
    /\ WF_vars(LoopInbound \/ LoopOutbound)
    /\ WF_vars(\E h \in loops : Respond(h)) /\ WF_vars(\E h \in loops : RecvFails(h))

Spec == Init /\ [][Next]_vars /\ Fairness
-----------------------------------------------------------------------------
(* Properties.                                                             *)

\* Traffic that is the host's own business: loopback, connections that the host
\* opened itself, datagrams to ports that are not declared closed (but for
\* nmap's U1 payload), other ICMP, SYNs to the ports it serves or preserves
\* (with "drop" on anything but a workstation, only if they are listed as
\* open), and, unless a Linux persona answers probes there, the rest of the
\* connections to them.
Legit(p) ==
    \/ p.loopback
    \/ p.proto = "icmp" /\ p.body \notin {"echo", "tstamp"}
    \/ p.proto = "udp" /\ p.port \notin setup.closed /\ p.body # "u1"
    \/ p.proto = "tcp" /\ p.port \notin ProbePorts /\ ~BareSyn(p)
    \/ /\ BareSyn(p) /\ "FIN" \notin p.flags
       /\ p.port \in (setup.served \cup setup.preservePorts) \ (setup.closed \cup {0})
       /\ setup.behavior = "drop" /\ ~setup.workstation => p.port \in setup.openPorts \cup setup.preservePorts
    \/ /\ p.proto = "tcp" /\ ~BareSyn(p) /\ p.port \in setup.served \ setup.closed
       /\ ~IsLinux \/ (p.v6 /\ Flags(p) # {} /\ ~({"SYN", "FIN"} \subseteq p.flags))

\* Whatever handles are open, started halfway or about to be closed, such a
\* packet reaches the host: every loop it passes is alive and reinjects it
\* (icmp_windows.go:275 "legitimate traffic is never dropped",
\* backend_windows.go:417).  Only closing a handle at shutdown may lose one.
HostTrafficFlows ==
    inb.at # "none" /\ Legit(inb.pkt) ~> fate = "delivered" \/ (fate = "closed" /\ shutdown)

\* What leaves the rewriting loop is a packet that the profile's system would
\* send: the data offset covers exactly the options, no option stands twice,
\* timestamps run on the profile's clock, ECE is echoed only by those that do,
\* and while a client's SYN is on record a Linux persona's SYN-ACK has a
\* timestamp exactly if the latest SYN did, with that SYN's value echoed
\* (backend_windows.go:166-170).  A macOS template may have two SACK options,
\* and an answer without timestamp and window scale, eight bytes, stays so.
EgressIsPersona ==
    Outbound /\ enabled /\ Head(q).proto = "tcp" =>
        LET prof == toWinProfile(setup.profile)
            out  == Rewritten
            c    == Head(q).to
        IN  /\ out.doff = Bytes(out.opts) /\ out.doff % 4 = 0
            /\ \A k \in {"M", "W", "S", "T"} : Count(out.opts, k) <= 1 \/ (k = "S" /\ MacTail(prof))
            /\ prof.ts /\ Has(out.opts, "T") => out.clk = Clock(prof)
            /\ "ECE" \in out.flags => prof.ecnCC
            /\ IsLinux /\ IsSynAck(out) /\ Head(q).doff >= 12 /\ c \in DOMAIN synCache /\ synCache[c].fresh =>
                 /\ Has(out.opts, "T") <=> asked[c] # "nots"
                 /\ Has(out.opts, "T") => out.tsecr = "client"

\* When runMimic returns, nothing that it still knew is left: handles and
\* goroutines only of responders whose start failed halfway, host firewall
\* rules only of those or where netsh failed to remove one (its error is
\* discarded, closed_fw_windows.go:50, 77, 139), the driver passes packets through and no watchdog is there
\* to disarm it later (run.go:400 "Torn down via defer on every return path").
ExitClean ==
    pc = "exited" =>
        /\ open \cup loops \subseteq UNION {Handles[who] : who \in broken}
        /\ rules \subseteq kept \cup UNION {Rules[who] : who \in broken}
        /\ ~armed /\ wd.st \notin {"run", "trip"}

\* A shutdown ends: no goroutine that a Stop waits for waits for the one that
\* stops it, the watchdog that trips at the same moment included
\* (backend_windows.go:388-390, 398).
ExitReturns == shutdown ~> pc = "exited"

\* An armed driver does not keep a watched host off the network: its address
\* answers again, or the driver is disarmed (connmon_windows.go:17-21).
Recovers == armed /\ wd.st # "none" ~> ~armed \/ reach
=============================================================================
