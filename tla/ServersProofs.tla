---------------------------- MODULE ServersProofs ----------------------------
(***************************************************************************)
(* What holds of the services goroutine for every list of services and     *)
(* every profile, any number of connections and any behaviour of the       *)
(* clients: the list is made into one that can be served side by side,     *)
(* Stop leaves nothing behind, sessions stay sound, the web server shows   *)
(* one identity, and runMimic's contract is kept.                          *)
(***************************************************************************)
EXTENDS Servers, SequenceTheorems, FiniteSetTheorems, WellFoundedInduction, TLAPS

-----------------------------------------------------------------------------
(* The inductive invariant.                                                *)

Services == Honeypots \cup DOMAIN Manifests

\* What PlanIsServable says of the plan, and the run keeps.
PlanInv == /\ plan \in Seq(Services)
           /\ \A i, j \in 1 .. Len(plan) : plan[i] = plan[j] => i = j
           /\ \A m, n \in ToSet(plan) : m # n => Ports(m) \cap Ports(n) = {}

\* The goroutine goes through the plan in order.
Begun(n) == svc = "starting" /\ n = plan[idx] /\ bound > 0
StartInv ==
    /\ svc \in {"off", "starting", "failing", "failed", "up", "done"}
    /\ idx \in 1 .. Len(plan) + 1 /\ bound \in Nat
    /\ srv \in [ToSet(plan) -> {"none", "up", "skipped", "failed", "down"}]
    /\ svc = "off" => idx = 1 /\ bound = 0
    /\ svc = "starting" => idx <= Len(plan) /\ bound < Len(PortsOf(plan[idx]))
    /\ svc \in {"off", "starting"} =>
          \A i \in 1 .. Len(plan) : srv[plan[i]] \in IF i < idx THEN {"up", "skipped"} ELSE {"none"}
    /\ svc = "up" => \A n \in ToSet(plan) : srv[n] \in {"up", "skipped", "down"}
    /\ svc = "done" => \A n \in ToSet(plan) : srv[n] # "up"

\* A Stop is under way: of the endpoint mapper that could not be started, or
\* of a server that is to end.
StopInv ==
    /\ stage \in {"none", "pool", "wait"}
    /\ stage # "none" =>
          /\ victim \in ToSet(plan)
          /\ \/ svc = "starting" /\ victim = plan[idx] /\ victim = "msrpc"
             \/ svc = "up" /\ shutdown /\ srv[victim] \in {"up", "skipped"}
    /\ stage = "wait" => open \cap Ports(victim) = {}
    /\ stage = "none" => victim = ""

PortsInv ==
    /\ open \subseteq loops /\ loops \subseteq AllPorts /\ cancelled \subseteq AllPorts
    /\ DOMAIN conns = Slots /\ \A c \in Slots : conns[c].port \in AllPorts \cup {0}
    /\ \A n \in ToSet(plan) :
          /\ srv[n] = "none" /\ ~Begun(n) => Quiet(Ports(n))
          /\ srv[n] \in {"skipped", "failed", "down"} => open \cap Ports(n) = {}
          /\ srv[n] = "down" \/ (srv[n] = "skipped" /\ n \notin Honeypots) => Quiet(Ports(n))
    /\ svc = "done" => \A n \in ToSet(plan) : Quiet(Ports(n))

IInv == PlanInv /\ StartInv /\ StopInv /\ PortsInv

-----------------------------------------------------------------------------
(* Services and their ports.                                               *)

LEMMA HoneypotNames == Honeypots = {"smb_honeypot", "ftp_honeypot", "rdp", "ssh_honeypot"}
<1>1. DOMAIN StatefulServiceNames = 1 .. 4
  BY DEF StatefulServiceNames
<1>2. \A i : i \in 1 .. 4 <=> i = 1 \/ i = 2 \/ i = 3 \/ i = 4
  OBVIOUS
<1>3. /\ StatefulServiceNames[1] = "smb_honeypot" /\ StatefulServiceNames[2] = "ftp_honeypot"
      /\ StatefulServiceNames[3] = "rdp" /\ StatefulServiceNames[4] = "ssh_honeypot"
  BY DEF StatefulServiceNames
<1> QED
  BY <1>1, <1>2, <1>3 DEF Honeypots, ToSet

\* The ports a service binds before the dynamic ones.
LEMMA ListenPortsFacts ==
  ASSUME NEW n \in Services, NEW profile
  PROVE  LET s == ListenPorts(n, profile)
         IN  /\ s \in Seq(Nat \ {0}) /\ Len(s) >= 1 /\ Len(s) <= 2
             /\ n # "smb_honeypot" => Len(s) = 1
<1> DEFINE s == ListenPorts(n, profile)
<1>1. ASSUME NEW x \in Nat \ {0} PROVE <<x>> \in Seq(Nat \ {0}) /\ Len(<<x>>) = 1
  OBVIOUS
<1>2. CASE n = "smb_honeypot"
  <2>1. <<445>> \in Seq(Nat \ {0}) /\ <<139>> \in Seq(Nat \ {0}) /\ <<>> \in Seq(Nat \ {0})
        /\ Len(<<445>>) = 1 /\ Len(<<139>>) = 1 /\ Len(<<>>) = 0
    BY <1>1, EmptySeq
  <2>2. PICK t : (t = <<139>> \/ t = <<>>) /\ s = <<445>> \o t
    BY <1>2 DEF ListenPorts
  <2>3. t \in Seq(Nat \ {0}) /\ Len(t) >= 0 /\ Len(t) <= 1
    <3>0. Len(t) = 1 \/ Len(t) = 0
      <4>1. CASE t = <<139>>
        BY <2>1, <4>1
      <4>2. CASE t = <<>>
        BY <2>1, <4>2
      <4> QED
        BY <2>2, <4>1, <4>2
    <3>1. t \in Seq(Nat \ {0})
      BY <2>1, <2>2
    <3>2. \A k : k = 1 \/ k = 0 => k >= 0 /\ k <= 1
      OBVIOUS
    <3> QED
      BY <3>0, <3>1, <3>2, Zenon
  <2>4. PICK h : h = <<445>>
    OBVIOUS
  <2>5. h \o t \in Seq(Nat \ {0}) /\ Len(h \o t) = Len(h) + Len(t)
    BY <2>1, <2>3, <2>4, ConcatProperties
  <2> QED
    BY <1>2, <2>1, <2>2, <2>3, <2>4, <2>5
<1>3. CASE n \in Honeypots /\ n # "smb_honeypot"
  <2>1. s = <<CHOOSE p \in honeypotListenPorts[n] : TRUE>>
    BY <1>3 DEF ListenPorts
  <2>2. n \in {"ftp_honeypot", "rdp", "ssh_honeypot"}
    BY <1>3, HoneypotNames
  <2>3. \E x \in Nat \ {0} : honeypotListenPorts[n] = {x}
    BY <2>2 DEF honeypotListenPorts
  <2>4. (CHOOSE p \in honeypotListenPorts[n] : TRUE) \in Nat \ {0}
    BY <2>3
  <2> QED
    BY <1>1, <2>1, <2>4
<1>4. CASE n \notin Honeypots /\ n # "smb_honeypot"
  <2>1. s = <<Manifests[n].port>> /\ n \in DOMAIN Manifests
    BY <1>4 DEF ListenPorts, Services
  <2>2. Manifests[n].port \in Nat \ {0}
    BY <2>1, ServersAssumption
  <2> QED
    BY <1>1, <2>1, <2>2
<1> QED
  BY <1>2, <1>3, <1>4

LEMMA PortsFacts ==
  ASSUME NEW n \in Services
  PROVE  /\ PortsOf(n) \in Seq(Nat \ {0}) /\ Len(PortsOf(n)) \in Nat /\ Len(PortsOf(n)) >= 1
         /\ 0 \notin Ports(n)
         /\ \A b \in Nat : b < Len(PortsOf(n)) => PortsOf(n)[b + 1] \in Ports(n)
         /\ n \notin Honeypots /\ n # "msrpc" => Len(PortsOf(n)) = 1
         /\ n = "msrpc" => Dynamic \subseteq Ports(n)
         /\ Len(PortsOf(n)) <= 2 + Len(DynPorts)
<1> DEFINE s == ListenPorts(n, setup.profile)
           d == IF n = "msrpc" THEN DynPorts ELSE <<>>
<1>1. /\ s \in Seq(Nat \ {0}) /\ Len(s) >= 1 /\ Len(s) <= 2
      /\ n # "smb_honeypot" => Len(s) = 1
  BY ListenPortsFacts
<1>0. DynPorts \in Seq(Nat \ {0}) /\ Len(DynPorts) \in Nat
  BY ServersAssumption, LenProperties
<1>2. d \in Seq(Nat \ {0}) /\ (n # "msrpc" => Len(d) = 0) /\ Len(d) <= Len(DynPorts)
  BY <1>0, EmptySeq
<1>3. PortsOf(n) = s \o d
  BY DEF PortsOf
<1>4. n = "msrpc" => d = DynPorts
  OBVIOUS
<1> HIDE DEF s, d
<1>5. /\ s \o d \in Seq(Nat \ {0}) /\ Len(s \o d) = Len(s) + Len(d)
      /\ \A i \in 1 .. Len(s) + Len(d) : (s \o d)[i] = IF i <= Len(s) THEN s[i] ELSE d[i - Len(s)]
  BY <1>1, <1>2, ConcatProperties
<1>6. Len(s) \in Nat /\ Len(d) \in Nat /\ DOMAIN d = 1 .. Len(d)
  BY <1>1, <1>2, LenProperties
<1> DEFINE q == PortsOf(n)
<1>7. q \in Seq(Nat \ {0}) /\ Len(q) = Len(s) + Len(d) /\ DOMAIN q = 1 .. Len(q)
      /\ \A i \in 1 .. Len(q) : q[i] \in Nat \ {0}
  BY <1>3, <1>5, LenProperties
<1>8. Ports(n) = {q[i] : i \in 1 .. Len(q)}
  BY <1>7 DEF Ports, ToSet
<1>9. n = "msrpc" => Dynamic \subseteq Ports(n)
  <2> SUFFICES ASSUME n = "msrpc", NEW x \in Dynamic PROVE x \in Ports(n)
    OBVIOUS
  <2>1. PICK i \in 1 .. Len(d) : x = d[i]
    BY <1>4, <1>6 DEF Dynamic, ToSet
  <2>2. Len(s) + i \in 1 .. Len(q) /\ ~(Len(s) + i <= Len(s)) /\ Len(s) + i - Len(s) = i
    BY <1>6, <1>7
  <2>3. q[Len(s) + i] = d[i]
    BY <1>3, <1>5, <1>7, <2>2
  <2> QED
    BY <1>8, <2>1, <2>2, <2>3
<1>10. n \notin Honeypots /\ n # "msrpc" => Len(q) = 1
  BY <1>1, <1>2, <1>6, <1>7, HoneypotNames
<1> HIDE DEF q
<1>11. 0 \notin Ports(n)
  BY <1>7, <1>8
<1>12. \A b \in Nat : b < Len(q) => q[b + 1] \in Ports(n)
  BY <1>6, <1>7, <1>8
<1>13. Len(q) \in Nat /\ Len(q) >= 1
  BY <1>1, <1>6, <1>7
<1>14. Len(q) <= 2 + Len(DynPorts)
  BY <1>0, <1>1, <1>2, <1>6, <1>7
<1> QED
  BY <1>7, <1>9, <1>10, <1>11, <1>12, <1>13, <1>14 DEF q

LEMMA PlanFacts ==
  ASSUME PlanInv
  PROVE  /\ Len(plan) \in Nat /\ DOMAIN plan = 1 .. Len(plan)
         /\ ToSet(plan) = {plan[i] : i \in 1 .. Len(plan)}
         /\ \A n \in ToSet(plan) : n \in Services
<1>1. plan \in Seq(Services)
  BY DEF PlanInv
<1>2. Len(plan) \in Nat /\ DOMAIN plan = 1 .. Len(plan) /\ \A i \in 1 .. Len(plan) : plan[i] \in Services
  BY <1>1, LenProperties
<1>3. ToSet(plan) = {plan[i] : i \in 1 .. Len(plan)}
  BY <1>2 DEF ToSet
<1> QED
  BY <1>2, <1>3

\* No step changes the configuration.
LEMMA PlanStays ==
  ASSUME UNCHANGED <<setup, plan>>
  PROVE  /\ PlanInv' <=> PlanInv
         /\ ToSet(plan)' = ToSet(plan) /\ AllPorts' = AllPorts
         /\ \A n : Ports(n)' = Ports(n) /\ PortsOf(n)' = PortsOf(n)
<1>1. \A n : PortsOf(n)' = PortsOf(n)
  BY DEF PortsOf
<1>2. \A n : Ports(n)' = Ports(n)
  BY <1>1 DEF Ports
<1>3. ToSet(plan)' = ToSet(plan)
  OBVIOUS
<1>4. AllPorts' = AllPorts
  BY <1>2, <1>3 DEF AllPorts
<1>5. PlanInv' <=> PlanInv
  BY <1>2, <1>3 DEF PlanInv
<1> QED
  BY <1>1, <1>2, <1>3, <1>4, <1>5

-----------------------------------------------------------------------------
(* Connections.                                                            *)

\* A step of a connection: its port stays, or it is over, or it is new on a
\* port that is open.
LEMMA ConnStep ==
  ASSUME DOMAIN conns = Slots, NEW c \in Slots, Client(c) \/ Server(c)
  PROVE  /\ UNCHANGED <<setup, plan, goroutine, loops, shutdown>>
         /\ DOMAIN conns' = Slots
         /\ \A d \in Slots : conns'[d].port \in {conns[d].port, 0} \cup open
<1> DEFINE Rest == UNCHANGED <<setup, plan, goroutine, loops, shutdown>>
           To(r) == conns' = [conns EXCEPT ![c] = r]
           Goal == /\ Rest /\ DOMAIN conns' = Slots
                   /\ \A d \in Slots : conns'[d].port \in {conns[d].port, 0} \cup open
<1>1. ASSUME NEW r, To(r), Rest, r.port \in {conns[c].port, 0} \cup open PROVE Goal
  BY <1>1
<1>2. ASSUME NEW ph, NEW out, NEW s, Become(c, ph, out, s) PROVE Goal
  <2> DEFINE r == [port |-> conns[c].port, ph |-> ph, out |-> out, s |-> s]
  <2>1. To(r) /\ Rest /\ r.port = conns[c].port
    BY <1>2 DEF Become
  <2> HIDE DEF r, Goal, To
  <2> QED
    BY <1>1, <2>1
<1>3. ASSUME NEW ph, Move(c, ph) PROVE Goal
  BY <1>2, <1>3 DEF Move
<1>4. ASSUME NEW p \in open, Accept(c, p) PROVE Goal
  <2> DEFINE r == [port |-> p, ph |-> FirstPhase(Owner(p), p), out |-> NoReply, s |-> FirstSession(Owner(p))]
  <2>1. To(r) /\ Rest /\ r.port = p
    BY <1>4 DEF Accept
  <2> HIDE DEF r, Goal, To
  <2> QED
    BY <1>1, <2>1
<1>5. ASSUME Close(c) PROVE Goal
  <2>1. To(Free) /\ Rest /\ Free.port = 0
    BY <1>5 DEF Close, Free
  <2> HIDE DEF Goal, To
  <2> QED
    BY <1>1, <2>1
<1>6. ASSUME SessionLeft(c) PROVE Goal
  <2> DEFINE r == [Free EXCEPT !.ph = "stray"]
  <2>1. To(r) /\ Rest /\ r.port = 0
    BY <1>6 DEF SessionLeft, Free
  <2> HIDE DEF r, Goal, To
  <2> QED
    BY <1>1, <2>1
<1> HIDE DEF Goal
<1>7. ASSUME Client(c) PROVE Goal
  <2>1. ASSUME NEW d, Probe(c, d) PROVE Goal
    BY <1>2, <2>1 DEF Probe
  <2>2. ASSUME NEW d, Hello(c, d) PROVE Goal
    BY <1>3, <2>2 DEF Hello
  <2>3. ASSUME NEW d, Backend(c, d) PROVE Goal
    BY <1>2, <2>3 DEF Backend
  <2>4. ASSUME NEW b, Frame(c, b) \/ RpcRequest(c, b) PROVE Goal
    BY <1>3, <2>4 DEF Frame, RpcRequest
  <2>5. ASSUME Handshake(c) \/ ReadFails(c) \/ Transferred(c) PROVE Goal
    BY <1>3, <2>5 DEF Handshake, ReadFails, Transferred
  <2>6. ASSUME WriteDeadlinePasses(c) \/ DataAccepted(c) \/ Channel(c) PROVE Goal
    BY <1>2, <2>6 DEF WriteDeadlinePasses, DataAccepted, Channel
  <2>7. ASSUME NEW pdu, TsRequest(c, pdu) PROVE Goal
    BY <1>2, <2>7 DEF TsRequest
  <2>8. ASSUME NEW cmd, FtpCommand(c, cmd) PROVE Goal
    BY <1>2, <2>8 DEF FtpCommand
  <2>9. ASSUME NEW l, SshLogin(c, l) PROVE Goal
    BY <1>2, <1>3, <2>9 DEF SshLogin
  <2>10. ASSUME NEW a, Cd(c, a) PROVE Goal
    BY <1>2, <2>10 DEF Cd
  <2> QED
    BY <1>4, <1>6, <1>7, <2>1, <2>2, <2>3, <2>4, <2>5, <2>6, <2>7, <2>8, <2>9, <2>10 DEF Client
<1>8. ASSUME Server(c) PROVE Goal
  <2>1. ASSUME NextRound(c) \/ ReadFails(c) \/ ControlClosed(c) PROVE Goal
    BY <1>3, <2>1 DEF NextRound, ReadFails, ControlClosed
  <2>2. ASSUME Greet(c) \/ Backend(c, <<>>) \/ NoDataConnection(c) PROVE Goal
    BY <1>2, <2>2 DEF Greet, Backend, NoDataConnection
  <2> QED
    BY <1>5, <1>8, <2>1, <2>2 DEF Server
<1> QED
  BY <1>7, <1>8 DEF Goal

-----------------------------------------------------------------------------
(* Steps outside the goroutine: connections, accept loops, the channel.    *)

LEMMA OthersPreserve ==
  ASSUME IInv, UNCHANGED <<setup, plan, goroutine>>, shutdown => shutdown',
         loops' \subseteq loops, open \subseteq loops', DOMAIN conns' = Slots,
         \A d \in Slots : conns'[d].port \in {conns[d].port, 0} \cup open
  PROVE  IInv'
<1>1. PlanInv /\ StartInv /\ StopInv /\ PortsInv
  BY DEF IInv
<1>2. /\ PlanInv' /\ ToSet(plan)' = ToSet(plan) /\ AllPorts' = AllPorts
      /\ \A n : Ports(n)' = Ports(n) /\ PortsOf(n)' = PortsOf(n)
  BY <1>1, PlanStays
<1>3. UNCHANGED <<plan, svc, idx, bound, srv, victim, stage, err, open, cancelled>>
  BY DEF goroutine
<1>4. StartInv'
  BY <1>1, <1>2, <1>3 DEF StartInv
<1>5. StopInv'
  BY <1>1, <1>2, <1>3 DEF StopInv
<1>6. \A n \in ToSet(plan) : Quiet(Ports(n)) => Quiet(Ports(n))'
  <2> SUFFICES ASSUME NEW n \in ToSet(plan), Quiet(Ports(n)) PROVE Quiet(Ports(n))'
    OBVIOUS
  <2>1. 0 \notin Ports(n)
    BY <1>1, PlanFacts, PortsFacts
  <2>2. loops \cap Ports(n) = {} /\ \A c \in Slots : conns[c].port \notin Ports(n)
    BY DEF Quiet
  <2>3. loops' \cap Ports(n) = {} /\ \A c \in Slots : conns'[c].port \notin Ports(n)
    BY <2>1, <2>2
  <2> QED
    BY <1>2, <2>3 DEF Quiet
<1>7. PortsInv'
  <2>1. open \subseteq loops' /\ loops' \subseteq AllPorts /\ cancelled \subseteq AllPorts
        /\ \A d \in Slots : conns'[d].port \in AllPorts \cup {0}
    BY <1>1 DEF PortsInv
  <2>2. \A n : Begun(n)' <=> Begun(n)
    BY <1>3 DEF Begun
  <2>3. \A n \in ToSet(plan) :
          /\ srv[n] = "none" /\ ~Begun(n)' => Quiet(Ports(n))'
          /\ srv[n] \in {"skipped", "failed", "down"} => open \cap Ports(n) = {}
          /\ srv[n] = "down" \/ (srv[n] = "skipped" /\ n \notin Honeypots) => Quiet(Ports(n))'
    BY <1>1, <1>6, <2>2 DEF PortsInv
  <2>4. svc = "done" => \A n \in ToSet(plan) : Quiet(Ports(n))'
    BY <1>1, <1>6 DEF PortsInv
  <2> QED
    BY <1>2, <1>3, <2>1, <2>3, <2>4 DEF PortsInv
<1> QED
  BY <1>2, <1>4, <1>5, <1>7 DEF IInv

-----------------------------------------------------------------------------
(* The goroutine.                                                          *)

\* The service at hand, while the goroutine starts services.
LEMMA AtHand ==
  ASSUME IInv, svc = "starting"
  PROVE  /\ idx \in 1 .. Len(plan) /\ Len(plan) \in Nat /\ plan[idx] \in ToSet(plan)
         /\ plan[idx] \in Services /\ srv[plan[idx]] = "none"
         /\ bound \in Nat /\ bound < Len(PortsOf(plan[idx]))
         /\ \A n \in ToSet(plan) : n # plan[idx] => Ports(n) \cap Ports(plan[idx]) = {}
<1>1. PlanInv /\ StartInv
  BY DEF IInv
<1>2. /\ Len(plan) \in Nat /\ ToSet(plan) = {plan[i] : i \in 1 .. Len(plan)}
      /\ \A n \in ToSet(plan) : n \in Services
  BY <1>1, PlanFacts
<1>3. idx \in 1 .. Len(plan) /\ bound \in Nat /\ bound < Len(PortsOf(plan[idx]))
  BY <1>1, <1>2 DEF StartInv
<1>4. plan[idx] \in ToSet(plan) /\ plan[idx] \in Services
  BY <1>2, <1>3
<1>5. srv[plan[idx]] = "none"
  BY <1>1, <1>2, <1>3 DEF StartInv
<1>6. \A n \in ToSet(plan) : n # plan[idx] => Ports(n) \cap Ports(plan[idx]) = {}
  BY <1>1, <1>4 DEF PlanInv
<1> QED
  BY <1>2, <1>3, <1>4, <1>5, <1>6

\* The service at hand is settled.
LEMMA SettleStarts ==
  ASSUME IInv, svc = "starting", NEW r \in {"up", "skipped"}, Settle(r), UNCHANGED <<setup, plan>>
  PROVE  /\ StartInv' /\ srv' = [srv EXCEPT ![plan[idx]] = r]
         /\ svc' \in {"starting", "up"} /\ \A n : ~Begun(n)'
<1>1. PlanInv /\ StartInv
  BY DEF IInv
<1>2. /\ idx \in 1 .. Len(plan) /\ Len(plan) \in Nat /\ plan[idx] \in ToSet(plan)
  BY AtHand
<1>3. /\ srv' = [srv EXCEPT ![plan[idx]] = r] /\ idx' = idx + 1 /\ bound' = 0
      /\ svc' = IF idx = Len(plan) THEN "up" ELSE "starting"
  BY DEF Settle
<1>4. srv \in [ToSet(plan) -> {"none", "up", "skipped", "failed", "down"}]
  BY <1>1 DEF StartInv
<1>5. srv' \in [ToSet(plan) -> {"none", "up", "skipped", "failed", "down"}]
  BY <1>2, <1>3, <1>4
<1>6. \A i, j \in 1 .. Len(plan) : plan[i] = plan[j] => i = j
  BY <1>1 DEF PlanInv
<1>7. ToSet(plan) = {plan[i] : i \in 1 .. Len(plan)} /\ \A n \in ToSet(plan) : n \in Services
  BY <1>1, PlanFacts
<1>8. \A i \in 1 .. Len(plan) : srv'[plan[i]] \in IF i < idx + 1 THEN {"up", "skipped"} ELSE {"none"}
  <2> SUFFICES ASSUME NEW i \in 1 .. Len(plan)
               PROVE  srv'[plan[i]] \in IF i < idx + 1 THEN {"up", "skipped"} ELSE {"none"}
    OBVIOUS
  <2>1. srv[plan[i]] \in IF i < idx THEN {"up", "skipped"} ELSE {"none"}
    BY <1>1 DEF StartInv
  <2>2. CASE i = idx
    BY <1>2, <1>3, <1>4, <2>2
  <2>3. CASE i # idx
    <3>1. srv'[plan[i]] = srv[plan[i]]
      BY <1>2, <1>3, <1>4, <1>6, <1>7, <2>3
    <3>2. i < idx + 1 <=> i < idx
      BY <1>2, <2>3
    <3> QED
      BY <2>1, <3>1, <3>2
  <2> QED
    BY <2>2, <2>3
<1>9. /\ ToSet(plan)' = ToSet(plan) /\ \A n : PortsOf(n)' = PortsOf(n)
  BY PlanStays
<1>10. CASE idx = Len(plan)
  <2>1. svc' = "up" /\ idx' \in 1 .. Len(plan) + 1 /\ bound' \in Nat
    BY <1>2, <1>3, <1>10
  <2>2. \A n \in ToSet(plan) : srv'[n] \in {"up", "skipped", "down"}
    BY <1>2, <1>7, <1>8, <1>10
  <2>3. StartInv'
    BY <1>5, <1>9, <2>1, <2>2 DEF StartInv
  <2> QED
    BY <1>3, <2>1, <2>3 DEF Begun
<1>11. CASE idx # Len(plan)
  <2>1. svc' = "starting" /\ idx' \in 1 .. Len(plan) + 1 /\ bound' \in Nat
        /\ idx' <= Len(plan) /\ idx' \in 1 .. Len(plan)
    BY <1>2, <1>3, <1>11
  <2>2. bound' < Len(PortsOf(plan[idx']))
    <3>1. plan[idx'] \in Services
      BY <1>7, <2>1
    <3>2. Len(PortsOf(plan[idx'])) \in Nat /\ Len(PortsOf(plan[idx'])) >= 1
      BY <3>1, PortsFacts
    <3> QED
      BY <1>3, <3>2
  <2>3. StartInv'
    <3>1. PortsOf(plan[idx])' = PortsOf(plan[idx'])
      BY <1>9
    <3> QED
      BY <1>3, <1>5, <1>8, <1>9, <2>1, <2>2, <3>1 DEF StartInv
  <2> QED
    BY <1>3, <2>1, <2>3 DEF Begun
<1> QED
  BY <1>10, <1>11

LEMMA GiveUpStarts ==
  ASSUME IInv, svc = "starting", NEW e, GiveUp(e), UNCHANGED <<setup, plan>>
  PROVE  /\ StartInv' /\ \E r \in {"skipped", "failed"} : srv' = [srv EXCEPT ![plan[idx]] = r]
         /\ svc' \in {"starting", "up", "failing"} /\ \A n : ~Begun(n)'
<1>1. CASE e = "inuse"
  <2>1. Settle("skipped")
    BY <1>1 DEF GiveUp
  <2>2. "skipped" \in {"up", "skipped"}
    OBVIOUS
  <2>3. /\ StartInv' /\ srv' = [srv EXCEPT ![plan[idx]] = "skipped"]
        /\ svc' \in {"starting", "up"} /\ \A n : ~Begun(n)'
    BY <2>1, <2>2, SettleStarts
  <2> QED
    BY <2>3
<1>2. CASE e # "inuse"
  <2>1. srv' = [srv EXCEPT ![plan[idx]] = "failed"] /\ svc' = "failing" /\ UNCHANGED <<idx, bound>>
    BY <1>2 DEF GiveUp
  <2>2. ToSet(plan)' = ToSet(plan) /\ plan[idx] \in ToSet(plan)
    BY PlanStays, AtHand
  <2>3. /\ srv \in [ToSet(plan) -> {"none", "up", "skipped", "failed", "down"}]
        /\ idx \in 1 .. Len(plan) + 1 /\ bound \in Nat
    BY DEF IInv, StartInv
  <2>4. srv' \in [ToSet(plan) -> {"none", "up", "skipped", "failed", "down"}]
    BY <2>1, <2>2, <2>3
  <2>5. StartInv'
    BY <2>1, <2>2, <2>3, <2>4 DEF StartInv
  <2> QED
    BY <2>1, <2>5 DEF Begun
<1> QED
  BY <1>1, <1>2

\* A step of the goroutine that is about one service and its ports.
LEMMA PortsStep ==
  ASSUME IInv, NEW m \in ToSet(plan), UNCHANGED <<setup, plan, conns>>, svc' # "done",
         open' \subseteq loops', loops' \subseteq AllPorts, cancelled' \subseteq AllPorts,
         \A n \in ToSet(plan) : n # m => /\ srv'[n] = srv[n] /\ ~Begun(n)
                                         /\ loops' \cap Ports(n) \subseteq loops
                                         /\ open' \cap Ports(n) \subseteq open,
         srv'[m] = "none" /\ ~Begun(m)' => Quiet(Ports(m))',
         srv'[m] \in {"skipped", "failed", "down"} => open' \cap Ports(m) = {},
         srv'[m] = "down" \/ (srv'[m] = "skipped" /\ m \notin Honeypots) => Quiet(Ports(m))'
  PROVE  PortsInv'
<1>1. PortsInv
  BY DEF IInv
<1>2. ToSet(plan)' = ToSet(plan) /\ AllPorts' = AllPorts /\ \A n : Ports(n)' = Ports(n)
  BY PlanStays
<1>3. DOMAIN conns' = Slots /\ \A c \in Slots : conns'[c].port \in AllPorts \cup {0}
  BY <1>1 DEF PortsInv
<1>4. \A n \in ToSet(plan) : n # m /\ Quiet(Ports(n)) => Quiet(Ports(n))'
  <2> SUFFICES ASSUME NEW n \in ToSet(plan), n # m, Quiet(Ports(n)) PROVE Quiet(Ports(n))'
    OBVIOUS
  <2>1. loops' \cap Ports(n) = {} /\ \A c \in Slots : conns'[c].port \notin Ports(n)
    BY DEF Quiet
  <2> QED
    BY <1>2, <2>1 DEF Quiet
<1>5. ASSUME NEW n \in ToSet(plan), n # m
      PROVE  /\ srv'[n] = "none" /\ ~Begun(n)' => Quiet(Ports(n))'
             /\ srv'[n] \in {"skipped", "failed", "down"} => open' \cap Ports(n) = {}
             /\ srv'[n] = "down" \/ (srv'[n] = "skipped" /\ n \notin Honeypots) => Quiet(Ports(n))'
  BY <1>1, <1>4, <1>5 DEF PortsInv
<1>6. \A n \in ToSet(plan) :
             /\ srv'[n] = "none" /\ ~Begun(n)' => Quiet(Ports(n))'
             /\ srv'[n] \in {"skipped", "failed", "down"} => open' \cap Ports(n) = {}
             /\ srv'[n] = "down" \/ (srv'[n] = "skipped" /\ n \notin Honeypots) => Quiet(Ports(n))'
  BY <1>5
<1> QED
  BY <1>2, <1>3, <1>6 DEF PortsInv

LEMMA ListenPreserves ==
  ASSUME IInv, Listen
  PROVE  IInv'
<1>0. PICK m : m = plan[idx]
  OBVIOUS
<1> DEFINE p == PortsOf(m)[bound + 1]
<1>1. PlanInv /\ StartInv /\ StopInv /\ PortsInv /\ svc = "starting" /\ stage = "none"
  BY DEF IInv, Listen, Starting
<1>2. /\ idx \in 1 .. Len(plan) /\ Len(plan) \in Nat /\ m \in ToSet(plan)
      /\ m \in Services /\ srv[m] = "none"
      /\ bound \in Nat /\ bound < Len(PortsOf(m))
      /\ \A n \in ToSet(plan) : n # m => Ports(n) \cap Ports(m) = {}
  BY <1>0, <1>1, AtHand
<1>3. p \in Ports(m) /\ Len(PortsOf(m)) \in Nat
  BY <1>2, PortsFacts
<1>4. p \in AllPorts
  BY <1>2, <1>3 DEF AllPorts
<1>5. /\ UNCHANGED <<setup, plan, victim, stage, err, cancelled, conns, shutdown>>
      /\ open' = open \cup {p} /\ loops' = loops \cup {p}
      /\ IF bound + 1 = Len(PortsOf(m)) THEN Settle("up")
         ELSE bound' = bound + 1 /\ UNCHANGED <<idx, srv, svc>>
  BY <1>0 DEF Listen, NextPort
<1>6. /\ PlanInv' /\ ToSet(plan)' = ToSet(plan) /\ \A n : Ports(n)' = Ports(n) /\ PortsOf(n)' = PortsOf(n)
  BY <1>1, <1>5, PlanStays
<1>7. "up" \in {"up", "skipped"}
  OBVIOUS
<1>8. /\ StartInv' /\ svc' \in {"starting", "up"} /\ \A n \in ToSet(plan) : n # m => srv'[n] = srv[n]
      /\ \/ srv'[m] = "up"
         \/ srv'[m] = "none" /\ Begun(m)'
  <2>1. CASE bound + 1 = Len(PortsOf(m))
    <3>1. Settle("up") /\ UNCHANGED <<setup, plan>>
      BY <1>5, <2>1
    <3>2. StartInv' /\ srv' = [srv EXCEPT ![m] = "up"] /\ svc' \in {"starting", "up"}
      BY <1>0, <1>1, <1>7, <3>1, SettleStarts
    <3>3. srv \in [ToSet(plan) -> {"none", "up", "skipped", "failed", "down"}]
      BY <1>1 DEF StartInv
    <3> QED
      BY <1>2, <3>2, <3>3
  <2>2. CASE bound + 1 # Len(PortsOf(m))
    <3>1. bound' = bound + 1 /\ UNCHANGED <<idx, srv, svc, plan>>
      BY <1>5, <2>2
    <3>2. bound + 1 < Len(PortsOf(m)) /\ bound + 1 \in Nat /\ bound + 1 > 0
      BY <1>2, <1>3, <2>2
    <3>3. StartInv'
      BY <1>0, <1>1, <1>6, <3>1, <3>2 DEF StartInv
    <3>4. Begun(m)'
      BY <1>0, <1>1, <3>1, <3>2 DEF Begun
    <3> QED
      BY <1>1, <1>2, <3>1, <3>3, <3>4
  <2> QED
    BY <2>1, <2>2
<1>9. StopInv'
  BY <1>1, <1>5 DEF StopInv
<1>10. PortsInv'
  <2>1. open' \subseteq loops' /\ loops' \subseteq AllPorts /\ cancelled' \subseteq AllPorts /\ svc' # "done"
    BY <1>1, <1>4, <1>5, <1>8 DEF PortsInv
  <2>2. \A n \in ToSet(plan) : n # m => /\ srv'[n] = srv[n] /\ ~Begun(n)
                                        /\ loops' \cap Ports(n) \subseteq loops
                                        /\ open' \cap Ports(n) \subseteq open
    BY <1>0, <1>2, <1>3, <1>5, <1>8 DEF Begun
  <2> HIDE DEF p
  <2> QED
    BY <1>2, <1>5, <1>8, <2>1, <2>2, PortsStep
<1> QED
  BY <1>6, <1>8, <1>9, <1>10 DEF IInv

LEMMA ListenFailsPreserves ==
  ASSUME IInv, ListenFails
  PROVE  IInv'
<1>0. PICK m : m = plan[idx]
  OBVIOUS
<1>1. PlanInv /\ StartInv /\ StopInv /\ PortsInv /\ svc = "starting" /\ stage = "none"
  BY DEF IInv, ListenFails, Starting
<1>2. /\ m \in ToSet(plan) /\ m \in Services /\ srv[m] = "none"
      /\ bound \in Nat /\ bound < Len(PortsOf(m))
      /\ \A n \in ToSet(plan) : n # m => ~Begun(n)
  BY <1>0, <1>1, AtHand DEF Begun
<1>3. UNCHANGED <<setup, plan, loops, conns, shutdown>>
  BY DEF ListenFails
<1>4. /\ PlanInv' /\ ToSet(plan)' = ToSet(plan) /\ \A n : Ports(n)' = Ports(n) /\ PortsOf(n)' = PortsOf(n)
  BY <1>1, <1>3, PlanStays
<1>5. Ports(m) \subseteq AllPorts /\ (m = "msrpc" => Dynamic \subseteq Ports(m))
      /\ (m \notin Honeypots /\ m # "msrpc" => bound = 0)
  <2>1. /\ m = "msrpc" => Dynamic \subseteq Ports(m)
        /\ m \notin Honeypots /\ m # "msrpc" => Len(PortsOf(m)) = 1
    BY <1>2, PortsFacts
  <2>2. Ports(m) \subseteq AllPorts
    BY <1>2 DEF AllPorts
  <2> QED
    BY <1>2, <2>1, <2>2
<1>6. open \subseteq loops /\ loops \subseteq AllPorts /\ cancelled \subseteq AllPorts
  BY <1>1 DEF PortsInv
<1>7. bound = 0 => Quiet(Ports(m))
  BY <1>1, <1>2 DEF PortsInv, Begun
<1>8. CASE m = "msrpc" /\ bound > 0
  <2>1. /\ victim' = m /\ stage' = "pool"
        /\ open' = open \ Dynamic /\ cancelled' = cancelled \cup Dynamic
        /\ UNCHANGED <<svc, idx, bound, srv>>
    BY <1>0, <1>8 DEF ListenFails
  <2>2. StartInv'
    BY <1>1, <1>3, <1>4, <2>1 DEF StartInv
  <2>3. StopInv'
    BY <1>0, <1>1, <1>2, <1>3, <1>4, <1>8, <2>1 DEF StopInv
  <2>4. Begun(m)' /\ srv'[m] = "none" /\ svc' # "done"
    BY <1>0, <1>1, <1>2, <1>3, <1>8, <2>1 DEF Begun
  <2>5. open' \subseteq loops' /\ loops' \subseteq AllPorts /\ cancelled' \subseteq AllPorts
    BY <1>3, <1>5, <1>6, <1>8, <2>1
  <2>6. \A n \in ToSet(plan) : n # m => /\ srv'[n] = srv[n] /\ ~Begun(n)
                                        /\ loops' \cap Ports(n) \subseteq loops
                                        /\ open' \cap Ports(n) \subseteq open
    BY <1>2, <1>3, <2>1
  <2>7. PortsInv'
    BY <1>2, <1>3, <2>4, <2>5, <2>6, PortsStep
  <2> QED
    BY <1>4, <2>2, <2>3, <2>7 DEF IInv
<1>9. CASE ~(m = "msrpc" /\ bound > 0)
  <2>1. PICK e : GiveUp(e)
    BY <1>0, <1>9 DEF ListenFails
  <2>2. /\ open' = IF bound > 0 THEN open \ Ports(m) ELSE open
        /\ cancelled' = IF bound > 0 THEN cancelled \cup Ports(m) ELSE cancelled
        /\ UNCHANGED <<victim, stage, err>>
    BY <1>0, <1>9 DEF ListenFails
  <2>3. /\ StartInv' /\ \E r \in {"skipped", "failed"} : srv' = [srv EXCEPT ![plan[idx]] = r]
        /\ svc' \in {"starting", "up", "failing"}
    BY <1>1, <1>3, <2>1, GiveUpStarts
  <2>4. StopInv'
    BY <1>1, <2>2 DEF StopInv
  <2>5. srv'[m] \in {"skipped", "failed"} /\ \A n \in ToSet(plan) : n # m => srv'[n] = srv[n]
    BY <1>0, <1>1, <1>2, <2>3 DEF StartInv
  <2>6. open' \cap Ports(m) = {}
    <3>1. CASE bound > 0
      BY <2>2, <3>1
    <3>2. CASE ~(bound > 0)
      BY <1>2, <1>6, <1>7, <2>2, <3>2 DEF Quiet
    <3> QED
      BY <3>1, <3>2
  <2>7. m \notin Honeypots => Quiet(Ports(m))'
    <3> SUFFICES ASSUME m \notin Honeypots PROVE Quiet(Ports(m))'
      OBVIOUS
    <3>1. Quiet(Ports(m))
      BY <1>2, <1>5, <1>7, <1>9
    <3> QED
      BY <1>3, <1>4, <3>1 DEF Quiet
  <2>8. open' \subseteq loops' /\ loops' \subseteq AllPorts /\ cancelled' \subseteq AllPorts /\ svc' # "done"
    BY <1>3, <1>5, <1>6, <2>2, <2>3
  <2>9. \A n \in ToSet(plan) : n # m => /\ srv'[n] = srv[n] /\ ~Begun(n)
                                        /\ loops' \cap Ports(n) \subseteq loops
                                        /\ open' \cap Ports(n) \subseteq open
    BY <1>2, <1>3, <2>2, <2>5
  <2>10. /\ srv'[m] = "none" /\ ~Begun(m)' => Quiet(Ports(m))'
         /\ srv'[m] = "down" \/ (srv'[m] = "skipped" /\ m \notin Honeypots) => Quiet(Ports(m))'
    BY <2>5, <2>7
  <2>11. PortsInv'
    BY <1>2, <1>3, <2>6, <2>8, <2>9, <2>10, PortsStep
  <2> QED
    BY <1>4, <2>3, <2>4, <2>11 DEF IInv
<1> QED
  BY <1>8, <1>9

\* Which servers StopAll and the Stop calls after it still have to stop.
LEMMA ToStopFacts ==
  /\ \A n \in ToStop : n \in ToSet(plan) /\ srv[n] \in {"up", "skipped"}
  /\ ToStop = {} => \A n \in ToSet(plan) : /\ srv[n] # "up"
                                           /\ n \in Honeypots => srv[n] # "skipped"
<1> DEFINE templates == {n \in ToSet(plan) \ Honeypots : srv[n] = "up"}
           Due(i) == StopOrder[i] \in ToSet(plan) /\ srv[StopOrder[i]] \in {"up", "skipped"}
           pots == {i \in DOMAIN StopOrder : Due(i)}
           first == {j \in pots : \A k \in pots : j <= k}
<1>1. ToStop = IF templates # {} THEN templates ELSE {StopOrder[i] : i \in first}
  BY DEF ToStop
<1>2. DOMAIN StopOrder = 1 .. 4
  BY DEF StopOrder
<1>3. \A i : i \in 1 .. 4 <=> i = 1 \/ i = 2 \/ i = 3 \/ i = 4
  OBVIOUS
<1>4. \A n \in Honeypots : \E i \in 1 .. 4 : n = StopOrder[i]
  BY HoneypotNames DEF StopOrder
<1>5. \A n \in ToStop : n \in ToSet(plan) /\ srv[n] \in {"up", "skipped"}
  BY <1>1
<1>6. ASSUME ToStop = {}
      PROVE  \A n \in ToSet(plan) : srv[n] # "up" /\ (n \in Honeypots => srv[n] # "skipped")
  <2>1. templates = {} /\ first = {}
    BY <1>1, <1>6
  <2>2. pots \subseteq 1 .. 4 /\ \A i \in 1 .. 4 : i \in pots <=> Due(i)
    BY <1>2
  <2>3. \A j \in pots : \E k \in pots : ~(j <= k)
    BY <2>1
  <2> HIDE DEF pots, Due
  <2>4. 1 \notin pots
    BY <2>2, <2>3
  <2>5. 2 \notin pots
    BY <1>3, <2>2, <2>3, <2>4
  <2>6. 3 \notin pots
    BY <1>3, <2>2, <2>3, <2>4, <2>5
  <2>7. 4 \notin pots
    BY <1>3, <2>2, <2>3, <2>4, <2>5, <2>6
  <2>8. \A i \in 1 .. 4 : ~Due(i)
    BY <1>3, <2>2, <2>4, <2>5, <2>6, <2>7
  <2>9. ASSUME NEW n \in ToSet(plan), n \in Honeypots PROVE srv[n] \notin {"up", "skipped"}
    BY <1>4, <2>8, <2>9 DEF Due
  <2> QED
    BY <2>1, <2>9
<1> QED
  BY <1>5, <1>6

LEMMA BeginStopPreserves ==
  ASSUME IInv, NEW m \in ToStop, BeginStop(m)
  PROVE  IInv'
<1>1. PlanInv /\ StartInv /\ StopInv /\ PortsInv /\ svc = "up" /\ shutdown /\ stage = "none"
  BY DEF IInv, BeginStop
<1>2. m \in ToSet(plan) /\ srv[m] \in {"up", "skipped"} /\ m \in Services
  BY <1>1, ToStopFacts, PlanFacts
<1>3. /\ victim' = m /\ stage' = (IF m = "msrpc" THEN "pool" ELSE "wait")
      /\ cancelled' = cancelled \cup Ports(m)
      /\ open' = open \ (IF m = "msrpc" THEN Dynamic ELSE Ports(m))
      /\ UNCHANGED <<setup, plan, svc, idx, bound, srv, err, loops, conns, shutdown>>
  BY DEF BeginStop
<1>4. /\ PlanInv' /\ ToSet(plan)' = ToSet(plan) /\ \A n : Ports(n)' = Ports(n) /\ PortsOf(n)' = PortsOf(n)
  BY <1>1, <1>3, PlanStays
<1>5. StartInv'
  BY <1>1, <1>3, <1>4 DEF StartInv
<1>6. StopInv'
  BY <1>1, <1>2, <1>3, <1>4 DEF StopInv
<1>7. open' \subseteq loops' /\ loops' \subseteq AllPorts /\ cancelled' \subseteq AllPorts /\ svc' # "done"
  BY <1>1, <1>2, <1>3 DEF PortsInv, AllPorts
<1>8. \A n \in ToSet(plan) : n # m => /\ srv'[n] = srv[n] /\ ~Begun(n)
                                      /\ loops' \cap Ports(n) \subseteq loops
                                      /\ open' \cap Ports(n) \subseteq open
  BY <1>1, <1>3 DEF Begun
<1>9. Quiet(Ports(m)) => Quiet(Ports(m))'
  BY <1>3, <1>4 DEF Quiet
<1>10. /\ srv'[m] = "none" /\ ~Begun(m)' => Quiet(Ports(m))'
       /\ srv'[m] \in {"skipped", "failed", "down"} => open' \cap Ports(m) = {}
       /\ srv'[m] = "down" \/ (srv'[m] = "skipped" /\ m \notin Honeypots) => Quiet(Ports(m))'
  BY <1>1, <1>2, <1>3, <1>9 DEF PortsInv
<1>11. PortsInv'
  BY <1>2, <1>3, <1>7, <1>8, <1>10, PortsStep
<1> QED
  BY <1>4, <1>5, <1>6, <1>11 DEF IInv

LEMMA PoolDrainedPreserves ==
  ASSUME IInv, PoolDrained
  PROVE  IInv'
<1>0. PICK m : m = victim
  OBVIOUS
<1>1. PlanInv /\ StartInv /\ StopInv /\ PortsInv /\ stage = "pool"
  BY DEF IInv, PoolDrained
<1>2. /\ m \in ToSet(plan)
      /\ \/ svc = "starting" /\ m = plan[idx]
         \/ svc = "up"
  BY <1>0, <1>1 DEF StopInv
<1>3. /\ stage' = "wait" /\ open' = open \ Ports(m) /\ cancelled' = cancelled \cup Ports(m)
      /\ UNCHANGED <<setup, plan, svc, idx, bound, srv, victim, err, loops, conns, shutdown>>
  BY <1>0 DEF PoolDrained
<1>4. /\ PlanInv' /\ ToSet(plan)' = ToSet(plan) /\ \A n : Ports(n)' = Ports(n) /\ PortsOf(n)' = PortsOf(n)
  BY <1>1, <1>3, PlanStays
<1>5. StartInv'
  BY <1>1, <1>3, <1>4 DEF StartInv
<1>6. StopInv'
  BY <1>0, <1>1, <1>3, <1>4 DEF StopInv
<1>7. open' \subseteq loops' /\ loops' \subseteq AllPorts /\ cancelled' \subseteq AllPorts /\ svc' # "done"
  BY <1>1, <1>2, <1>3 DEF PortsInv, AllPorts
<1>8. \A n \in ToSet(plan) : n # m => /\ srv'[n] = srv[n] /\ ~Begun(n)
                                      /\ loops' \cap Ports(n) \subseteq loops
                                      /\ open' \cap Ports(n) \subseteq open
  BY <1>2, <1>3 DEF Begun
<1>9. (Quiet(Ports(m)) => Quiet(Ports(m))') /\ (Begun(m)' <=> Begun(m))
  BY <1>3, <1>4 DEF Quiet, Begun
<1>10. /\ srv'[m] = "none" /\ ~Begun(m)' => Quiet(Ports(m))'
       /\ srv'[m] \in {"skipped", "failed", "down"} => open' \cap Ports(m) = {}
       /\ srv'[m] = "down" \/ (srv'[m] = "skipped" /\ m \notin Honeypots) => Quiet(Ports(m))'
  BY <1>1, <1>2, <1>3, <1>9 DEF PortsInv
<1>11. PortsInv'
  BY <1>2, <1>3, <1>7, <1>8, <1>10, PortsStep
<1> QED
  BY <1>4, <1>5, <1>6, <1>11 DEF IInv

LEMMA StopReturnsPreserves ==
  ASSUME IInv, StopReturns
  PROVE  IInv'
<1>0. PICK m : m = victim
  OBVIOUS
<1>1. PlanInv /\ StartInv /\ StopInv /\ PortsInv /\ stage = "wait" /\ Quiet(Ports(m))
  BY <1>0 DEF IInv, StopReturns, ServerEnded
<1>2. /\ m \in ToSet(plan) /\ open \cap Ports(m) = {}
      /\ \/ svc = "starting" /\ m = plan[idx]
         \/ svc = "up"
  BY <1>0, <1>1 DEF StopInv
<1>3. /\ stage' = "none" /\ victim' = ""
      /\ UNCHANGED <<setup, plan, err, open, cancelled, loops, conns, shutdown>>
      /\ IF svc = "starting" THEN GiveUp(err)
         ELSE srv' = [srv EXCEPT ![m] = "down"] /\ UNCHANGED <<svc, idx, bound>>
  BY <1>0 DEF StopReturns
<1>4. /\ PlanInv' /\ ToSet(plan)' = ToSet(plan) /\ \A n : Ports(n)' = Ports(n) /\ PortsOf(n)' = PortsOf(n)
  BY <1>1, <1>3, PlanStays
<1>5. srv \in [ToSet(plan) -> {"none", "up", "skipped", "failed", "down"}]
  BY <1>1 DEF StartInv
<1>6. /\ StartInv' /\ svc' \in {"starting", "up", "failing"} /\ srv'[m] \in {"skipped", "failed", "down"}
      /\ \A n \in ToSet(plan) : n # m => srv'[n] = srv[n]
  <2>1. CASE svc = "starting"
    <3>1. GiveUp(err) /\ m = plan[idx] /\ UNCHANGED <<setup, plan>>
      BY <1>2, <1>3, <2>1
    <3>2. /\ StartInv' /\ \E r \in {"skipped", "failed"} : srv' = [srv EXCEPT ![plan[idx]] = r]
          /\ svc' \in {"starting", "up", "failing"}
      BY <2>1, <3>1, GiveUpStarts
    <3> QED
      BY <1>2, <1>5, <3>1, <3>2
  <2>2. CASE svc # "starting"
    <3>1. svc = "up" /\ srv' = [srv EXCEPT ![m] = "down"] /\ UNCHANGED <<svc, idx, bound>>
      BY <1>2, <1>3, <2>2
    <3>2. /\ srv' \in [ToSet(plan) -> {"none", "up", "skipped", "failed", "down"}]
          /\ srv'[m] = "down" /\ \A n \in ToSet(plan) : n # m => srv'[n] = srv[n]
      BY <1>2, <1>5, <3>1
    <3>3. \A n \in ToSet(plan) : srv'[n] \in {"up", "skipped", "down"}
      BY <1>1, <3>1, <3>2 DEF StartInv
    <3>4. StartInv'
      BY <1>1, <1>3, <1>4, <3>1, <3>2, <3>3 DEF StartInv
    <3> QED
      BY <3>1, <3>2, <3>4
  <2> QED
    BY <2>1, <2>2
<1>7. StopInv'
  BY <1>3 DEF StopInv
<1>8. open' \subseteq loops' /\ loops' \subseteq AllPorts /\ cancelled' \subseteq AllPorts /\ svc' # "done"
  BY <1>1, <1>3, <1>6 DEF PortsInv
<1>9. \A n \in ToSet(plan) : n # m => /\ srv'[n] = srv[n] /\ ~Begun(n)
                                      /\ loops' \cap Ports(n) \subseteq loops
                                      /\ open' \cap Ports(n) \subseteq open
  BY <1>2, <1>3, <1>6 DEF Begun
<1>10. Quiet(Ports(m))'
  BY <1>1, <1>3, <1>4 DEF Quiet
<1>11. PortsInv'
  BY <1>2, <1>3, <1>6, <1>8, <1>9, <1>10, PortsStep
<1> QED
  BY <1>4, <1>6, <1>7, <1>11 DEF IInv

LEMMA SpawnPreserves ==
  ASSUME IInv, Spawn
  PROVE  IInv'
<1>1. PlanInv /\ StartInv /\ StopInv /\ PortsInv /\ svc = "off"
  BY DEF IInv, Spawn
<1>2. /\ svc' = IF plan = <<>> THEN "done" ELSE "starting"
      /\ UNCHANGED <<setup, plan, idx, bound, srv, victim, stage, err, open, cancelled, loops, conns, shutdown>>
  BY DEF Spawn
<1>3. /\ PlanInv' /\ ToSet(plan)' = ToSet(plan) /\ AllPorts' = AllPorts
      /\ \A n : Ports(n)' = Ports(n) /\ PortsOf(n)' = PortsOf(n)
  BY <1>1, <1>2, PlanStays
<1>4. /\ Len(plan) \in Nat /\ ToSet(plan) = {plan[i] : i \in 1 .. Len(plan)}
      /\ \A n \in ToSet(plan) : n \in Services
  BY <1>1, PlanFacts
<1>5. plan # <<>> => Len(plan) >= 1
  <2>1. plan \in Seq(Services)
    BY <1>1 DEF PlanInv
  <2>2. plan # <<>> => Len(plan) # 0
    BY <2>1, EmptySeq
  <2> QED
    BY <1>4, <2>2
<1>6. plan = <<>> => ToSet(plan) = {}
  BY <1>4
<1>7. idx = 1 /\ bound = 0 /\ \A n : ~Begun(n)
  BY <1>1 DEF StartInv, Begun
<1>8. StartInv'
  <2>1. CASE plan = <<>>
    <3>1. svc' = "done" /\ \A n \in ToSet(plan) : srv[n] # "up"
      BY <1>2, <1>6, <2>1
    <3> QED
      BY <1>1, <1>2, <1>3, <3>1 DEF StartInv
  <2>2. CASE plan # <<>>
    <3>1. svc' = "starting" /\ Len(plan) >= 1 /\ plan[1] \in Services
      BY <1>2, <1>4, <1>5, <2>2
    <3>2. Len(PortsOf(plan[1])) \in Nat /\ Len(PortsOf(plan[1])) >= 1
      BY <3>1, PortsFacts
    <3>3. idx <= Len(plan) /\ bound < Len(PortsOf(plan[idx]))
      BY <1>4, <1>7, <3>1, <3>2
    <3>4. PortsOf(plan[idx])' = PortsOf(plan[idx])
      BY <1>2, <1>3
    <3> QED
      BY <1>1, <1>2, <1>3, <3>1, <3>3, <3>4 DEF StartInv
  <2> QED
    BY <2>1, <2>2
<1>9. StopInv'
  BY <1>1, <1>2 DEF StopInv
<1>10. PortsInv'
  <2>1. \A n : ~Begun(n)' /\ (Quiet(Ports(n)) <=> Quiet(Ports(n))')
    BY <1>2, <1>3, <1>7 DEF Begun, Quiet
  <2>2. svc' = "done" => ToSet(plan) = {}
    BY <1>2, <1>6
  <2> QED
    BY <1>1, <1>2, <1>3, <1>7, <2>1, <2>2 DEF PortsInv
<1> QED
  BY <1>3, <1>8, <1>9, <1>10 DEF IInv

LEMMA FailPreserves ==
  ASSUME IInv, Fail
  PROVE  IInv'
<1>1. PlanInv /\ StartInv /\ StopInv /\ PortsInv /\ svc = "failing"
  BY DEF IInv, Fail
<1>2. /\ svc' = "failed"
      /\ UNCHANGED <<setup, plan, idx, bound, srv, victim, stage, err, open, cancelled, loops, conns, shutdown>>
  BY DEF Fail
<1>3. /\ PlanInv' /\ ToSet(plan)' = ToSet(plan) /\ AllPorts' = AllPorts
      /\ \A n : Ports(n)' = Ports(n) /\ PortsOf(n)' = PortsOf(n)
  BY <1>1, <1>2, PlanStays
<1>4. StartInv'
  BY <1>1, <1>2, <1>3 DEF StartInv
<1>5. StopInv'
  BY <1>1, <1>2 DEF StopInv
<1>6. PortsInv'
  <2>1. \A n : ~Begun(n) /\ ~Begun(n)' /\ (Quiet(Ports(n)) <=> Quiet(Ports(n))')
    BY <1>1, <1>2, <1>3 DEF Begun, Quiet
  <2> QED
    BY <1>1, <1>2, <1>3, <2>1 DEF PortsInv
<1> QED
  BY <1>3, <1>4, <1>5, <1>6 DEF IInv

\* The last Stop has returned: nothing of any service is left.
LEMMA AllStoppedPreserves ==
  ASSUME IInv, AllStopped
  PROVE  IInv'
<1>1. PlanInv /\ StartInv /\ StopInv /\ PortsInv /\ svc = "up" /\ ToStop = {}
  BY DEF IInv, AllStopped
<1>2. /\ svc' = "done"
      /\ UNCHANGED <<setup, plan, idx, bound, srv, victim, stage, err, open, cancelled, loops, conns, shutdown>>
      /\ stage = "none"
  BY DEF AllStopped
<1>3. /\ PlanInv' /\ ToSet(plan)' = ToSet(plan) /\ AllPorts' = AllPorts
      /\ \A n : Ports(n)' = Ports(n) /\ PortsOf(n)' = PortsOf(n)
  BY <1>1, <1>2, PlanStays
<1>4. \A n \in ToSet(plan) : srv[n] = "down" \/ (srv[n] = "skipped" /\ n \notin Honeypots)
  <2>1. \A n \in ToSet(plan) : srv[n] # "up" /\ (n \in Honeypots => srv[n] # "skipped")
    BY <1>1, ToStopFacts
  <2>2. \A n \in ToSet(plan) : srv[n] \in {"up", "skipped", "down"}
    BY <1>1 DEF StartInv
  <2> QED
    BY <2>1, <2>2
<1>5. \A n \in ToSet(plan) : Quiet(Ports(n))
  BY <1>1, <1>4 DEF PortsInv
<1>6. StartInv'
  <2>1. \A n \in ToSet(plan) : srv[n] # "up"
    BY <1>4
  <2> QED
    BY <1>1, <1>2, <1>3, <2>1 DEF StartInv
<1>7. StopInv'
  BY <1>1, <1>2 DEF StopInv
<1>8. PortsInv'
  <2>1. \A n : ~Begun(n) /\ ~Begun(n)' /\ (Quiet(Ports(n)) <=> Quiet(Ports(n))')
    BY <1>1, <1>2, <1>3 DEF Begun, Quiet
  <2> QED
    BY <1>1, <1>2, <1>3, <1>5, <2>1 DEF PortsInv
<1> QED
  BY <1>3, <1>6, <1>7, <1>8 DEF IInv

-----------------------------------------------------------------------------
(* The resolved list.                                                      *)

\* Counting the places up to one numbers them from 1, in order.
LEMMA Ranks ==
  ASSUME NEW n \in Nat, NEW P, P \subseteq 1 .. n
  PROVE  LET rank == [i \in P |-> Cardinality({j \in P : j <= i})]
         IN  /\ Cardinality(P) \in Nat
             /\ \A i, j \in P : rank[i] = rank[j] => i = j
             /\ \A i \in P : rank[i] \in 1 .. Cardinality(P)
             /\ \A k \in 1 .. Cardinality(P) : \E i \in P : rank[i] = k
<1> DEFINE upto(i) == {j \in P : j <= i}
           rank == [i \in P |-> Cardinality(upto(i))]
           N == 1 .. Cardinality(P)
<1>1. IsFiniteSet(P) /\ Cardinality(P) \in Nat
  <2>1. IsFiniteSet(1 .. n)
    BY FS_Interval
  <2> QED
    BY <2>1, FS_Subset, FS_CardinalityType
<1>2. \A i \in P : IsFiniteSet(upto(i)) /\ Cardinality(upto(i)) \in Nat /\ Cardinality(upto(i)) <= Cardinality(P)
  BY <1>1, FS_Subset, FS_CardinalityType
<1>3. \A i, j \in P : i < j => Cardinality(upto(i)) # Cardinality(upto(j))
  <2> SUFFICES ASSUME NEW i \in P, NEW j \in P, i < j PROVE Cardinality(upto(i)) # Cardinality(upto(j))
    OBVIOUS
  <2>1. i \in Int /\ j \in Int /\ \A k \in P : k \in Int
    OBVIOUS
  <2>2. upto(i) \subseteq upto(j) /\ j \in upto(j) /\ j \notin upto(i)
    <3>1. \A k \in Int : k <= i => k <= j
      BY ONLY <2>1, i < j
    <3>2. j <= j /\ ~(j <= i)
      BY ONLY <2>1, i < j
    <3> QED
      BY <2>1, <3>1, <3>2
  <2>3. upto(i) # upto(j) /\ IsFiniteSet(upto(j))
    BY <1>2, <2>2
  <2> HIDE DEF upto
  <2> QED
    BY <2>2, <2>3, FS_Subset
<1>4. \A i \in P : Cardinality(upto(i)) \in N
  <2> SUFFICES ASSUME NEW i \in P PROVE Cardinality(upto(i)) \in N
    OBVIOUS
  <2>1. i \in upto(i)
    OBVIOUS
  <2>2. Cardinality(upto(i)) # 0
    BY <1>2, <2>1, FS_EmptySet
  <2>3. Cardinality(upto(i)) \in Nat /\ Cardinality(upto(i)) <= Cardinality(P)
    BY <1>2
  <2> HIDE DEF upto
  <2> QED
    BY <1>1, <2>2, <2>3
<1>5. \A i, j \in P : rank[i] = rank[j] => i = j
  <2> SUFFICES ASSUME NEW i \in P, NEW j \in P, Cardinality(upto(i)) = Cardinality(upto(j)) PROVE i = j
    OBVIOUS
  <2>1. i \in Nat /\ j \in Nat
    OBVIOUS
  <2>2. ~(i < j) /\ ~(j < i)
    BY <1>3
  <2> QED
    BY ONLY <2>1, <2>2
<1> HIDE DEF upto
<1>6. rank \in Injection(P, N)
  BY <1>4, <1>5 DEF Injection, IsInjective
<1>7. IsFiniteSet(N) /\ Cardinality(N) = Cardinality(P)
  BY <1>1, FS_Interval
<1>8. rank \in Surjection(P, N)
  BY <1>6, <1>7, FS_Injection
<1>9. \A k \in N : \E i \in P : rank[i] = k
  BY <1>8 DEF Surjection
<1>10. \A i \in P : rank[i] \in N
  BY <1>4
<1> QED
  BY <1>1, <1>5, <1>9, <1>10 DEF upto

\* A subsequence has the members at its places and repeats none that they do
\* not repeat.
LEMMA SubsequenceFacts ==
  ASSUME NEW T, NEW s \in Seq(T), NEW P, P \subseteq DOMAIN s
  PROVE  LET sub == Subsequence(s, P)
         IN  /\ sub \in Seq(T) /\ ToSet(sub) = {s[i] : i \in P}
             /\ (\A i, j \in P : s[i] = s[j] => i = j) =>
                   \A k, l \in DOMAIN sub : sub[k] = sub[l] => k = l
<1> DEFINE rank(i) == Cardinality({j \in P : j <= i})
           at(k) == CHOOSE i \in P : rank(i) = k
           N == 1 .. Cardinality(P)
           sub == [k \in N |-> s[at(k)]]
<1>0. Subsequence(s, P) = sub
  BY DEF Subsequence
<1>1. /\ Cardinality(P) \in Nat
      /\ \A i, j \in P : rank(i) = rank(j) => i = j
      /\ \A i \in P : rank(i) \in N
      /\ \A k \in N : \E i \in P : rank(i) = k
  <2>1. Len(s) \in Nat /\ P \subseteq 1 .. Len(s)
    BY LenProperties
  <2> DEFINE f == [i \in P |-> rank(i)]
  <2>3. /\ Cardinality(P) \in Nat
        /\ \A i, j \in P : f[i] = f[j] => i = j
        /\ \A i \in P : f[i] \in N
        /\ \A k \in N : \E i \in P : f[i] = k
    BY <2>1, Ranks
  <2>4. \A i \in P : f[i] = rank(i)
    OBVIOUS
  <2> HIDE DEF rank, f
  <2> QED
    BY <2>3, <2>4
<1> HIDE DEF rank
<1>2. \A k \in N : at(k) \in P /\ rank(at(k)) = k
  BY <1>1
<1>3. \A i \in P : at(rank(i)) = i
  BY <1>1, <1>2
<1> HIDE DEF at
<1>4. \A i \in DOMAIN s : s[i] \in T
  BY ElementOfSeq, LenProperties
<1>5. sub \in Seq(T)
  BY <1>1, <1>2, <1>4, IsASeq
<1>6. ToSet(sub) = {s[i] : i \in P}
  <2>1. \A k \in N : sub[k] \in {s[i] : i \in P}
    BY <1>2
  <2>2. \A i \in P : rank(i) \in N /\ sub[rank(i)] = s[i]
    BY <1>1, <1>3
  <2> QED
    BY <2>1, <2>2 DEF ToSet
<1>7. ASSUME \A i, j \in P : s[i] = s[j] => i = j, NEW k \in N, NEW l \in N, sub[k] = sub[l]
      PROVE  k = l
  <2>1. at(k) = at(l)
    BY <1>2, <1>7
  <2> QED
    BY <1>2, <2>1
<1> HIDE DEF N
<1> QED
  BY <1>0, <1>5, <1>6, <1>7

\* No member of a sequence comes twice.
EachOnce(s) == \A i, j \in DOMAIN s : s[i] = s[j] => i = j

LEMMA KeepFacts ==
  ASSUME NEW T, NEW s \in Seq(T), NEW S
  PROVE  /\ Keep(s, S) \in Seq(T) /\ ToSet(Keep(s, S)) = ToSet(s) \cap S
         /\ EachOnce(s) => EachOnce(Keep(s, S))
<1> DEFINE P == {i \in DOMAIN s : s[i] \in S}
<1>1. P \subseteq DOMAIN s /\ Keep(s, S) = Subsequence(s, P)
  BY DEF Keep
<1>2. /\ Subsequence(s, P) \in Seq(T) /\ ToSet(Subsequence(s, P)) = {s[i] : i \in P}
      /\ (\A i, j \in P : s[i] = s[j] => i = j) => EachOnce(Subsequence(s, P))
  <2> HIDE DEF P
  <2> QED
    BY <1>1, SubsequenceFacts DEF EachOnce
<1>3. {s[i] : i \in P} = ToSet(s) \cap S
  BY DEF ToSet
<1>4. EachOnce(s) => \A i, j \in P : s[i] = s[j] => i = j
  BY DEF EachOnce
<1> QED
  BY <1>1, <1>2, <1>3, <1>4

LEMMA DistinctFacts ==
  ASSUME NEW T, NEW s \in Seq(T)
  PROVE  Distinct(s) \in Seq(T) /\ EachOnce(Distinct(s)) /\ ToSet(Distinct(s)) \subseteq ToSet(s)
<1> DEFINE P == {i \in DOMAIN s : \A j \in DOMAIN s : s[j] = s[i] => i <= j}
<1>1. P \subseteq DOMAIN s /\ Distinct(s) = Subsequence(s, P)
  BY DEF Distinct
<1>2. \A i, j \in P : s[i] = s[j] => i = j
  <2>1. \A i \in P : i \in Nat
    BY LenProperties
  <2>2. \A i, j \in P : s[i] = s[j] => i <= j /\ j <= i
    OBVIOUS
  <2> QED
    BY <2>1, <2>2
<1>3. {s[i] : i \in P} \subseteq ToSet(s)
  BY DEF ToSet
<1> HIDE DEF P
<1> QED
  BY <1>1, <1>2, <1>3, SubsequenceFacts DEF EachOnce

\* expandRequested and promoteLinuxSSH: what they list are services, each once.
LEMMA Expanded ==
  ASSUME NEW requested \in Seq(Services \cup {"all"}), NEW profile
  PROVE  LET names == promoteLinuxSSH(expandRequested(requested), profile)
         IN  names \in Seq(Services) /\ EachOnce(names)
<1> DEFINE pots  == StatefulServiceNames
           temps == Keep(ListTemplateServices, {t \in DOMAIN Manifests : ~templateSuperseded(t, Honeypots)})
           all   == IF "all" \in ToSet(requested) THEN pots \o temps ELSE <<>>
           named == Keep(requested, ToSet(requested) \ {"all"})
           names == expandRequested(requested)
           ssh   == [i \in DOMAIN names |-> IF names[i] = "ssh" THEN "ssh_honeypot" ELSE names[i]]
<1>1. pots \in Seq(Services)
  <2>1. \A n \in {"smb_honeypot", "ftp_honeypot", "rdp", "ssh_honeypot"} : n \in Services
    BY HoneypotNames DEF Services
  <2> HIDE DEF Services
  <2> QED
    BY <2>1 DEF StatefulServiceNames
<1>2. temps \in Seq(Services)
  <2>1. temps \in Seq(DOMAIN Manifests)
    BY KeepFacts, ServersAssumption
  <2> QED
    BY <2>1, SeqMonotonic DEF Services
<1>3. named \in Seq(Services)
  <2>1. named \in Seq(Services \cup {"all"}) /\ ToSet(named) \subseteq ToSet(requested) \ {"all"}
    BY KeepFacts
  <2>2. \A i \in DOMAIN named : named[i] \in Services
    <3>1. \A i \in DOMAIN named : named[i] \in Services \cup {"all"}
      BY <2>1, ElementOfSeq, LenProperties
    <3>2. \A i \in DOMAIN named : named[i] # "all"
      BY <2>1 DEF ToSet
    <3> QED
      BY <3>1, <3>2
  <2> HIDE DEF named
  <2>3. named = [i \in 1 .. Len(named) |-> named[i]] /\ Len(named) \in Nat /\ DOMAIN named = 1 .. Len(named)
    BY <2>1, LenProperties
  <2> QED
    BY <2>2, <2>3, IsASeq
<1>4. all \in Seq(Services)
  <2>1. <<>> \in Seq(Services) /\ pots \o temps \in Seq(Services)
    BY <1>1, <1>2, EmptySeq, ConcatProperties
  <2> QED
    BY <2>1
<1>5. all \o named \in Seq(Services)
  <2> HIDE DEF all, named
  <2> QED
    BY <1>3, <1>4, ConcatProperties
<1>6. names = Distinct(all \o named)
  BY DEF expandRequested
<1>7. names \in Seq(Services) /\ EachOnce(names)
  <2> HIDE DEF all, named
  <2> QED
    BY <1>5, <1>6, DistinctFacts
<1> HIDE DEF names
<1>8. ssh \in Seq(Services)
  <2>1. Len(names) \in Nat /\ DOMAIN names = 1 .. Len(names) /\ \A i \in 1 .. Len(names) : names[i] \in Services
    BY <1>7, ElementOfSeq, LenProperties
  <2>2. "ssh_honeypot" \in Services
    BY HoneypotNames DEF Services
  <2>3. \A i \in 1 .. Len(names) : (IF names[i] = "ssh" THEN "ssh_honeypot" ELSE names[i]) \in Services
    BY <2>1, <2>2
  <2> QED
    BY <2>1, <2>3, IsASeq
<1>9. Distinct(ssh) \in Seq(Services) /\ EachOnce(Distinct(ssh))
  <2> HIDE DEF ssh
  <2> QED
    BY <1>8, DistinctFacts
<1> HIDE DEF Services
<1>10. promoteLinuxSSH(names, profile) = names \/ promoteLinuxSSH(names, profile) = Distinct(ssh)
  BY DEF promoteLinuxSSH
<1> QED
  BY <1>7, <1>9, <1>10 DEF names

\* ResolveRunServices: every service once; no template beside the honeypot
\* that replaces it; no netbios beside an SMB honeypot that binds port 139; no
\* endpoint mapper on a workstation.
LEMMA Resolved ==
  ASSUME NEW requested \in Seq(Services \cup {"all"}), NEW profile
  PROVE  LET names == ResolveRunServices(requested, profile)
         IN  /\ names \in Seq(Services) /\ EachOnce(names)
             /\ \A n \in ToSet(names) \ Honeypots : n \in DOMAIN templateSupersededBy =>
                    templateSupersededBy[n] \notin ToSet(names)
             /\ {"netbios", "smb_honeypot"} \subseteq ToSet(names) => ~smbOn139(<<"smb_honeypot">>, profile)
             /\ DropsUnserved(profile) => "msrpc" \notin ToSet(names)
<1> DEFINE from  == promoteLinuxSSH(expandRequested(requested), profile)
           keep  == {n \in ToSet(from) : ~templateSuperseded(n, ToSet(from))}
           mid   == dropSupersededTemplates(from)
           start == {n \in ToSet(mid) : ShouldStartService(n, profile, smbOn139(mid, profile))}
           names == ResolveRunServices(requested, profile)
<1>1. from \in Seq(Services) /\ EachOnce(from)
  BY Expanded
<1>2. mid = Keep(from, keep)
  BY DEF dropSupersededTemplates
<1> HIDE DEF from
<1>3. mid \in Seq(Services) /\ EachOnce(mid) /\ ToSet(mid) = ToSet(from) \cap keep
  BY <1>1, <1>2, KeepFacts
<1>4. names = Keep(mid, start)
  BY DEF ResolveRunServices, filterEditionGated, from
<1> HIDE DEF mid
<1>5. names \in Seq(Services) /\ EachOnce(names) /\ ToSet(names) = ToSet(mid) \cap start
  BY <1>3, <1>4, KeepFacts
<1> HIDE DEF names
<1>6. ASSUME NEW n \in ToSet(names) \ Honeypots, n \in DOMAIN templateSupersededBy
      PROVE  templateSupersededBy[n] \notin ToSet(names)
  <2>1. n \in ToSet(from) /\ ~templateSuperseded(n, ToSet(from))
    BY <1>3, <1>5, <1>6
  <2>2. templateSupersededBy[n] \notin ToSet(from)
    BY <1>6, <2>1 DEF templateSuperseded, isStatefulHoneypot
  <2> QED
    BY <1>3, <1>5, <2>2
<1>7. ASSUME {"netbios", "smb_honeypot"} \subseteq ToSet(names)
      PROVE  ~smbOn139(<<"smb_honeypot">>, profile)
  <2>1. "netbios" \in start /\ "smb_honeypot" \in ToSet(mid)
    BY <1>5, <1>7
  <2>2. ~smbOn139(mid, profile)
    BY <2>1 DEF ShouldStartService
  <2> QED
    BY <2>1, <2>2 DEF smbOn139
<1>8. ASSUME DropsUnserved(profile), "msrpc" \in ToSet(names) PROVE FALSE
  <2>1. "msrpc" \in start
    BY <1>5, <1>8
  <2>2. /\ profile # NoProfile /\ ResolvedEdition(profile) = "workstation"
    BY <1>8 DEF DropsUnserved
  <2>3. GatedPort["msrpc"] = 135
    BY DEF GatedPort
  <2>4. EditionExposesPort("workstation", 135)
    BY <2>1, <2>2, <2>3 DEF ShouldStartService, GatedPort
  <2> QED
    BY <2>4 DEF EditionExposesPort
<1> QED
  BY <1>5, <1>6, <1>7, <1>8 DEF names

LEMMA ToSetConcat ==
  ASSUME NEW T, NEW s \in Seq(T), NEW t \in Seq(T)
  PROVE  ToSet(s \o t) = ToSet(s) \cup ToSet(t)
<1>1. Range(s \o t) = Range(s) \cup Range(t)
  BY RangeConcatenation
<1>2. \A u : ToSet(u) = Range(u)
  BY DEF ToSet, Range
<1> QED
  BY <1>1, <1>2

\* What the SMB honeypot adds to its own port.
Extra == IF smbOn139(<<"smb_honeypot">>, setup.profile) THEN {139} ELSE {}

\* The ports a service has, besides the dynamic ones of the endpoint mapper.
Own(n) == ToSet(ListenPorts(n, setup.profile))

LEMMA OwnPorts ==
  /\ Own("smb_honeypot") = {445} \cup Extra /\ Own("rdp") = {3389}
  /\ Own("ftp_honeypot") = {21} /\ Own("ssh_honeypot") = {22}
  /\ \A n \in DOMAIN Manifests \ Honeypots : Own(n) = {Manifests[n].port}
<1>1. ASSUME NEW x PROVE ToSet(<<x>>) = {x}
  BY DEF ToSet
<1>2. Own("smb_honeypot") = {445} \cup Extra
  <2>1. <<445>> \in Seq(Nat) /\ <<139>> \in Seq(Nat) /\ <<>> \in Seq(Nat) /\ ToSet(<<>>) = {}
    BY DEF ToSet
  <2>2. PICK h, t : h = <<445>> /\ t = IF smbOn139(<<"smb_honeypot">>, setup.profile) THEN <<139>> ELSE <<>>
    OBVIOUS
  <2>3. h \in Seq(Nat) /\ t \in Seq(Nat) /\ ToSet(h) = {445} /\ ToSet(t) = Extra
    BY <1>1, <2>1, <2>2 DEF Extra
  <2>4. ToSet(h \o t) = {445} \cup Extra
    BY <2>3, ToSetConcat
  <2>5. ListenPorts("smb_honeypot", setup.profile) = h \o t
    BY <2>2 DEF ListenPorts
  <2> QED
    BY <2>4, <2>5 DEF Own
<1>3. \A x : (CHOOSE p \in {x} : TRUE) = x
  OBVIOUS
<1>4. /\ honeypotListenPorts["rdp"] = {3389} /\ honeypotListenPorts["ftp_honeypot"] = {21}
      /\ honeypotListenPorts["ssh_honeypot"] = {22}
  BY DEF honeypotListenPorts
<1>5. \A n \in Honeypots \ {"smb_honeypot"} : \A x : honeypotListenPorts[n] = {x} => Own(n) = {x}
  <2> SUFFICES ASSUME NEW n \in Honeypots \ {"smb_honeypot"}, NEW x, honeypotListenPorts[n] = {x}
               PROVE  Own(n) = {x}
    OBVIOUS
  <2>1. ListenPorts(n, setup.profile) = <<x>>
    BY <1>3 DEF ListenPorts
  <2> QED
    BY <1>1, <2>1 DEF Own
<1>6. {"rdp", "ftp_honeypot", "ssh_honeypot"} \subseteq Honeypots \ {"smb_honeypot"}
  BY HoneypotNames
<1>7. \A n \in DOMAIN Manifests \ Honeypots : Own(n) = {Manifests[n].port}
  <2> SUFFICES ASSUME NEW n \in DOMAIN Manifests \ Honeypots PROVE Own(n) = {Manifests[n].port}
    OBVIOUS
  <2>1. ListenPorts(n, setup.profile) = <<Manifests[n].port>>
    BY HoneypotNames DEF ListenPorts
  <2> QED
    BY <1>1, <2>1 DEF Own
<1> QED
  BY <1>2, <1>4, <1>5, <1>6, <1>7

LEMMA PortsAreOwn ==
  ASSUME NEW n \in Services
  PROVE  Ports(n) = Own(n) \cup (IF n = "msrpc" THEN Dynamic ELSE {})
<1> DEFINE d == IF n = "msrpc" THEN DynPorts ELSE <<>>
<1>1. ListenPorts(n, setup.profile) \in Seq(Nat \ {0})
  BY ListenPortsFacts
<1>2. d \in Seq(Nat \ {0}) /\ ToSet(d) = IF n = "msrpc" THEN Dynamic ELSE {}
  <2>1. ToSet(<<>>) = {} /\ <<>> \in Seq(Nat \ {0})
    BY EmptySeq DEF ToSet
  <2> QED
    BY <2>1, ServersAssumption DEF Dynamic
<1> HIDE DEF d
<1>3. PortsOf(n) = ListenPorts(n, setup.profile) \o d
  BY DEF PortsOf, d
<1> QED
  BY <1>1, <1>2, <1>3, ToSetConcat DEF Ports, Own

\* No two services of a resolved list want the same port.
LEMMA PortsApart ==
  ASSUME setup \in Setups, plan = ResolveRunServices(setup.requested, setup.profile),
         NEW m \in ToSet(plan), NEW n \in ToSet(plan), m # n
  PROVE  Ports(m) \cap Ports(n) = {}
<1> DEFINE templates == DOMAIN Manifests \ Honeypots
<1>1. /\ plan \in Seq(Services)
      /\ \A k \in ToSet(plan) \ Honeypots : k \in DOMAIN templateSupersededBy =>
            templateSupersededBy[k] \notin ToSet(plan)
      /\ {"netbios", "smb_honeypot"} \subseteq ToSet(plan) => ~smbOn139(<<"smb_honeypot">>, setup.profile)
  BY Resolved, ServersAssumption DEF Services
<1>2. \A k \in ToSet(plan) : k \in Honeypots \/ k \in templates
  BY <1>1, ElementOfSeq, LenProperties DEF ToSet, Services
<1>3. \A h \in Honeypots : /\ "msrpc" # h /\ Own(h) \subseteq {139, 445, 3389, 21, 22}
                           /\ Own(h) \subseteq honeypotListenPorts[h] \cup Extra
                           /\ h # "smb_honeypot" => Own(h) \subseteq honeypotListenPorts[h]
  <2>1. Extra \subseteq {139}
    BY DEF Extra
  <2>2. /\ honeypotListenPorts["rdp"] = {3389} /\ honeypotListenPorts["ftp_honeypot"] = {21}
        /\ honeypotListenPorts["ssh_honeypot"] = {22} /\ honeypotListenPorts["smb_honeypot"] = {445}
    BY DEF honeypotListenPorts
  <2>3. SUFFICES ASSUME NEW h \in Honeypots
                 PROVE  /\ "msrpc" # h /\ Own(h) \subseteq {139, 445, 3389, 21, 22}
                        /\ Own(h) \subseteq honeypotListenPorts[h] \cup Extra
                        /\ h # "smb_honeypot" => Own(h) \subseteq honeypotListenPorts[h]
    OBVIOUS
  <2>4. CASE h = "smb_honeypot"
    <3>1. Own(h) = honeypotListenPorts[h] \cup Extra /\ honeypotListenPorts[h] = {445}
      BY <2>2, <2>4, OwnPorts
    <3>2. {445} \cup Extra \subseteq {139, 445, 3389, 21, 22}
      BY <2>1
    <3> QED
      BY <2>4, <3>1, <3>2
  <2>5. CASE h = "rdp"
    BY <2>2, <2>5, OwnPorts
  <2>6. CASE h = "ftp_honeypot"
    BY <2>2, <2>6, OwnPorts
  <2>7. CASE h = "ssh_honeypot"
    BY <2>2, <2>7, OwnPorts
  <2> QED
    BY <2>4, <2>5, <2>6, <2>7, HoneypotNames
<1>4. ASSUME NEW h \in Honeypots, NEW g \in Honeypots, h # g PROVE Own(h) \cap Own(g) = {}
  <2>1. Extra \subseteq {139}
    BY DEF Extra
  <2> QED
    BY <1>4, <2>1, OwnPorts, HoneypotNames
<1>5. ASSUME NEW s \in templates, NEW t \in templates, s # t PROVE Own(s) \cap Own(t) = {}
  BY <1>5, OwnPorts, ManifestAssumption
<1>6. ASSUME NEW t \in templates, NEW h \in Honeypots, {t, h} \subseteq ToSet(plan)
      PROVE  Own(t) \cap Own(h) = {}
  <2> SUFFICES ASSUME Manifests[t].port \in Own(h) PROVE FALSE
    BY OwnPorts
  <2>1. Manifests[t].port \notin honeypotListenPorts[h]
    BY <1>1, <1>6, ManifestAssumption
  <2>2. h = "smb_honeypot" /\ Manifests[t].port \in Extra
    BY <1>3, <2>1
  <2>3. t = "netbios" /\ smbOn139(<<"smb_honeypot">>, setup.profile)
    BY <2>2, ManifestAssumption DEF Extra
  <2> QED
    BY <1>1, <1>6, <2>2, <2>3
<1>7. Own(m) \cap Own(n) = {}
  BY <1>2, <1>4, <1>5, <1>6
<1>8. \A k \in ToSet(plan) : Own(k) \cap Dynamic = {}
  <2>1. \A k \in Honeypots : Own(k) \cap Dynamic = {}
    BY <1>3, ManifestAssumption DEF Dynamic
  <2>2. \A k \in templates : Own(k) \cap Dynamic = {}
    BY OwnPorts, ManifestAssumption DEF Dynamic
  <2> QED
    BY <1>2, <2>1, <2>2
<1>9. m \in Services /\ n \in Services
  BY <1>2 DEF Services
<1> QED
  BY <1>7, <1>8, <1>9, PortsAreOwn

-----------------------------------------------------------------------------
(* The invariant holds.                                                    *)

LEMMA Initially == Init => IInv
<1> SUFFICES ASSUME Init PROVE IInv
  OBVIOUS
<1>1. /\ setup \in Setups /\ setup.requested \in Seq(Services \cup {"all"})
      /\ plan = ResolveRunServices(setup.requested, setup.profile)
  BY ServersAssumption DEF Init, Services
<1>2. PlanInv
  <2>1. plan \in Seq(Services) /\ EachOnce(plan)
    BY <1>1, Resolved
  <2>2. DOMAIN plan = 1 .. Len(plan)
    BY <2>1, LenProperties
  <2>3. \A m, n \in ToSet(plan) : m # n => Ports(m) \cap Ports(n) = {}
    BY <1>1, PortsApart
  <2> QED
    BY <2>1, <2>2, <2>3 DEF PlanInv, EachOnce
<1>3. /\ Len(plan) \in Nat /\ ToSet(plan) = {plan[i] : i \in 1 .. Len(plan)}
      /\ \A n \in ToSet(plan) : n \in Services
  BY <1>2, PlanFacts
<1>4. /\ svc = "off" /\ idx = 1 /\ bound = 0 /\ srv = [n \in ToSet(plan) |-> "none"]
      /\ victim = "" /\ stage = "none" /\ open = {} /\ cancelled = {} /\ loops = {}
      /\ conns = [c \in Slots |-> Free]
  BY DEF Init
<1>5. StartInv
  <2>1. srv \in [ToSet(plan) -> {"none", "up", "skipped", "failed", "down"}]
    BY <1>4
  <2>0. Len(plan) \in Nat /\ idx = 1 /\ bound = 0
    BY <1>3, <1>4
  <2>2. idx \in 1 .. Len(plan) + 1 /\ bound \in Nat
    BY ONLY <2>0
  <2>3. \A i \in 1 .. Len(plan) : srv[plan[i]] \in IF i < idx THEN {"up", "skipped"} ELSE {"none"}
    <3> SUFFICES ASSUME NEW i \in 1 .. Len(plan)
                 PROVE  srv[plan[i]] \in IF i < idx THEN {"up", "skipped"} ELSE {"none"}
      OBVIOUS
    <3>1. srv[plan[i]] = "none"
      BY <1>3, <1>4
    <3>2. ~(i < idx)
      BY ONLY <2>0, i \in 1 .. Len(plan)
    <3> QED
      BY ONLY <3>1, <3>2
  <2> QED
    BY <1>4, <2>1, <2>2, <2>3 DEF StartInv
<1>6. StopInv
  BY <1>4 DEF StopInv
<1>7. PortsInv
  <2>1. \A c \in Slots : conns[c].port = 0
    BY <1>4 DEF Free
  <2>2. \A n \in ToSet(plan) : Quiet(Ports(n))
    <3> SUFFICES ASSUME NEW n \in ToSet(plan) PROVE Quiet(Ports(n))
      OBVIOUS
    <3>1. 0 \notin Ports(n)
      BY <1>3, PortsFacts
    <3> QED
      BY <1>4, <2>1, <3>1 DEF Quiet
  <2>3. \A n \in ToSet(plan) : srv[n] = "none"
    BY <1>4
  <2>4. DOMAIN conns = Slots
    BY <1>4
  <2> QED
    BY <1>4, <2>1, <2>2, <2>3, <2>4 DEF PortsInv
<1> QED
  BY <1>2, <1>5, <1>6, <1>7 DEF IInv

LEMMA NextPreserves == IInv /\ [Next]_vars => IInv'
<1> SUFFICES ASSUME IInv, [Next]_vars PROVE IInv'
  OBVIOUS
<1>0. open \subseteq loops /\ DOMAIN conns = Slots
  BY DEF IInv, PortsInv
<1>1. CASE Goroutine
  BY <1>1, SpawnPreserves, ListenPreserves, ListenFailsPreserves, FailPreserves, BeginStopPreserves,
     PoolDrainedPreserves, StopReturnsPreserves, AllStoppedPreserves DEF Goroutine
<1>2. CASE Shutdown
  <2>1. UNCHANGED <<setup, plan, goroutine, loops, conns>> /\ shutdown'
    BY <1>2 DEF Shutdown
  <2>2. loops' \subseteq loops /\ open \subseteq loops' /\ DOMAIN conns' = Slots
        /\ \A d \in Slots : conns'[d].port \in {conns[d].port, 0} \cup open
    BY <1>0, <2>1
  <2> QED
    BY <2>1, <2>2, OthersPreserve
<1>3. ASSUME NEW p \in loops, LoopEnds(p) PROVE IInv'
  <2>1. UNCHANGED <<setup, plan, goroutine, conns, shutdown>> /\ p \notin open /\ loops' = loops \ {p}
    BY <1>3 DEF LoopEnds
  <2>2. loops' \subseteq loops /\ open \subseteq loops' /\ DOMAIN conns' = Slots
        /\ \A d \in Slots : conns'[d].port \in {conns[d].port, 0} \cup open
    BY <1>0, <2>1
  <2> QED
    BY <2>1, <2>2, OthersPreserve
<1>4. ASSUME NEW c \in Slots, Client(c) \/ Server(c) PROVE IInv'
  <2>1. /\ UNCHANGED <<setup, plan, goroutine, loops, shutdown>> /\ DOMAIN conns' = Slots
        /\ \A d \in Slots : conns'[d].port \in {conns[d].port, 0} \cup open
    BY <1>0, <1>4, ConnStep
  <2>2. loops' \subseteq loops /\ open \subseteq loops'
    BY <1>0, <2>1
  <2> QED
    BY <2>1, <2>2, OthersPreserve
<1>5. CASE UNCHANGED vars
  <2>1. UNCHANGED <<setup, plan, goroutine, loops, conns, shutdown>>
    BY <1>5 DEF vars
  <2>2. loops' \subseteq loops /\ open \subseteq loops' /\ DOMAIN conns' = Slots
        /\ \A d \in Slots : conns'[d].port \in {conns[d].port, 0} \cup open
    BY <1>0, <2>1
  <2> QED
    BY <2>1, <2>2, OthersPreserve
<1> QED
  BY <1>1, <1>2, <1>3, <1>4, <1>5 DEF Next

\* Every run keeps the invariant.
THEOREM Invariance == Spec => []IInv
<1>1. Init => IInv
  BY Initially
<1>2. IInv /\ [Next]_vars => IInv'
  BY NextPreserves
<1> QED
  BY <1>1, <1>2, PTL DEF Spec

\* StoppedIsGone, for every list of services: a Stop that has returned
\* leaves no accept loop, no listener and no connection of its server, a
\* service that was given up holds no port, and when the goroutine is done
\* nothing is open (StopAll and the Stop functions behind it).
THEOREM StopLeavesNothing == Spec => []StoppedIsGone
<1>1. IInv => StoppedIsGone
  <2> SUFFICES ASSUME IInv PROVE StoppedIsGone
    OBVIOUS
  <2>1. PortsInv
    BY DEF IInv
  <2>2. ASSUME svc = "done" PROVE open = {} /\ loops = {} /\ \A c \in Slots : conns[c].port = 0
    <3>1. \A n \in ToSet(plan) : loops \cap Ports(n) = {} /\ \A c \in Slots : conns[c].port \notin Ports(n)
      BY <2>1, <2>2 DEF PortsInv, Quiet
    <3>2. loops \cap AllPorts = {} /\ \A c \in Slots : conns[c].port \notin AllPorts
      BY <3>1 DEF AllPorts
    <3> QED
      BY <2>1, <3>2 DEF PortsInv
  <2>3. \A n \in ToSet(plan) : /\ srv[n] = "down" => Quiet(Ports(n))
                               /\ srv[n] \in {"down", "skipped", "failed"} => open \cap Ports(n) = {}
    BY <2>1 DEF PortsInv
  <2> QED
    BY <2>2, <2>3 DEF StoppedIsGone
<1> QED
  BY <1>1, Invariance, PTL

-----------------------------------------------------------------------------
(* The contract of ServiceGroup.                                           *)

Up == {n \in ToSet(plan) : srv[n] = "up"}

LEMMA UpIsFinite == IInv => IsFiniteSet(Up) /\ Cardinality(Up) \in Nat
<1> SUFFICES ASSUME IInv PROVE IsFiniteSet(Up) /\ Cardinality(Up) \in Nat
  OBVIOUS
<1>1. plan \in Seq(Services) /\ PlanInv
  BY DEF IInv, PlanInv
<1>2. Len(plan) \in Nat /\ DOMAIN plan = 1 .. Len(plan) /\ ToSet(plan) = {plan[i] : i \in 1 .. Len(plan)}
  BY <1>1, PlanFacts
<1>3. plan \in [1 .. Len(plan) -> ToSet(plan)]
  BY <1>1, <1>2, LenProperties
<1>4. plan \in Surjection(1 .. Len(plan), ToSet(plan))
  BY <1>2, <1>3 DEF Surjection
<1>5. IsFiniteSet(1 .. Len(plan))
  BY <1>2, FS_Interval
<1>6. IsFiniteSet(ToSet(plan))
  BY <1>4, <1>5, FS_Surjection
<1>7. IsFiniteSet(Up)
  BY <1>6, FS_Subset DEF Up
<1> QED
  BY <1>7, FS_CardinalityType

\* The number of servers that are up, when one service's state changes.
LEMMA UpChanges ==
  ASSUME IInv, UNCHANGED plan, NEW m \in ToSet(plan), NEW r \in {"up", "skipped", "failed", "down"},
         srv' = [srv EXCEPT ![m] = r]
  PROVE  /\ srv[m] # "up" /\ r = "up" => Cardinality(Up)' = Cardinality(Up) + 1
         /\ srv[m] # "up" /\ r # "up" => Cardinality(Up)' = Cardinality(Up)
         /\ srv[m] = "up" /\ r # "up" => Cardinality(Up)' = Cardinality(Up) - 1 /\ Cardinality(Up) > 0
<1>1. srv \in [ToSet(plan) -> {"none", "up", "skipped", "failed", "down"}]
  BY DEF IInv, StartInv
<1>2. IsFiniteSet(Up) /\ Cardinality(Up) \in Nat
  BY UpIsFinite
<1>3. srv'[m] = r /\ \A n \in ToSet(plan) : n # m => srv'[n] = srv[n]
  BY <1>1
<1>4. ToSet(plan)' = ToSet(plan)
  OBVIOUS
<1>5. m \in Up <=> srv[m] = "up"
  BY DEF Up
<1>6. CASE srv[m] # "up" /\ r = "up"
  <2>1. Up' = Up \cup {m} /\ m \notin Up
    BY <1>3, <1>4, <1>6 DEF Up
  <2>2. Cardinality(Up \cup {m}) = Cardinality(Up) + 1
    BY <1>2, <2>1, FS_AddElement
  <2> QED
    BY <1>6, <2>1, <2>2
<1>7. CASE srv[m] # "up" /\ r # "up"
  <2>1. Up' = Up
    BY <1>3, <1>4, <1>7 DEF Up
  <2> QED
    BY <1>7, <2>1
<1>8. CASE srv[m] = "up" /\ r # "up"
  <2>1. Up' = Up \ {m} /\ m \in Up
    BY <1>3, <1>4, <1>8 DEF Up
  <2>2. Cardinality(Up \ {m}) = Cardinality(Up) - 1 /\ Cardinality(Up \ {m}) \in Nat
    <3>1. Cardinality(Up \ {m}) = Cardinality(Up) - 1 /\ IsFiniteSet(Up \ {m})
      BY <1>2, <2>1, FS_RemoveElement
    <3> QED
      BY <3>1, FS_CardinalityType
  <2> QED
    BY <1>2, <1>8, <2>1, <2>2
<1> QED
  BY <1>6, <1>7, <1>8

\* What a step does to the state of the contract.
GroupStep ==
  LET a == Cardinality(Up)
      b == Cardinality(Up)'
  IN  \/ svc = "off" /\ svc' \in {"starting", "done"} /\ b = a /\ UNCHANGED shutdown
      \/ svc = "starting" /\ svc' \in {"starting", "up"} /\ b \in {a, a + 1} /\ UNCHANGED shutdown
      \/ svc = "starting" /\ svc' = "failing" /\ b = a /\ UNCHANGED shutdown
      \/ svc = "failing" /\ svc' = "failed" /\ b = a /\ UNCHANGED shutdown
      \/ ~shutdown /\ shutdown' = TRUE /\ UNCHANGED svc /\ b = a
      \/ svc = "up" /\ shutdown /\ a > 0 /\ b = a - 1 /\ UNCHANGED <<svc, shutdown>>
      \/ svc = "up" /\ shutdown /\ a = 0 /\ b = a /\ svc' = "done" /\ UNCHANGED shutdown
      \/ UNCHANGED <<svc, shutdown>> /\ b = a

LEMMA GroupStepIsNext == GroupStep => [Group!Next]_(Group!group)
<1> SUFFICES ASSUME GroupStep PROVE [Group!Next]_(Group!group)
  OBVIOUS
<1>1. PICK a, b : a = Cardinality(Up) /\ b = Cardinality(Up)'
  OBVIOUS
<1>2. a = Cardinality({n \in ToSet(plan) : srv[n] = "up"}) /\ b = Cardinality({n \in ToSet(plan) : srv[n] = "up"})'
  BY <1>1 DEF Up
<1>3. \/ svc = "off" /\ svc' \in {"starting", "done"} /\ b = a /\ UNCHANGED shutdown
      \/ svc = "starting" /\ svc' \in {"starting", "up"} /\ b \in {a, a + 1} /\ UNCHANGED shutdown
      \/ svc = "starting" /\ svc' = "failing" /\ b = a /\ UNCHANGED shutdown
      \/ svc = "failing" /\ svc' = "failed" /\ b = a /\ UNCHANGED shutdown
      \/ ~shutdown /\ shutdown' = TRUE /\ UNCHANGED svc /\ b = a
      \/ svc = "up" /\ shutdown /\ a > 0 /\ b = a - 1 /\ UNCHANGED <<svc, shutdown>>
      \/ svc = "up" /\ shutdown /\ a = 0 /\ b = a /\ svc' = "done" /\ UNCHANGED shutdown
      \/ UNCHANGED <<svc, shutdown>> /\ b = a
  BY <1>1 DEF GroupStep
<1> QED
  BY ONLY <1>2, <1>3 DEF Group!group, Group!Next, Group!Spawn, Group!Start, Group!Fail, Group!Send,
     Group!Shutdown, Group!StopOne, Group!Done

LEMMA StepsKeepContract == IInv /\ [Next]_vars => GroupStep
<1> SUFFICES ASSUME IInv, [Next]_vars PROVE GroupStep
  OBVIOUS
<1>1. PlanInv /\ StartInv /\ StopInv
  BY DEF IInv
<1>2. ASSUME UNCHANGED <<plan, srv>> PROVE Cardinality(Up)' = Cardinality(Up)
  <2>1. Up' = Up
    BY <1>2 DEF Up
  <2> QED
    BY <2>1
<1>3. ASSUME svc = "starting", NEW r \in {"up", "skipped", "failed"}, srv' = [srv EXCEPT ![plan[idx]] = r],
             UNCHANGED plan
      PROVE  Cardinality(Up)' = IF r = "up" THEN Cardinality(Up) + 1 ELSE Cardinality(Up)
  <2>1. PICK m : m = plan[idx]
    OBVIOUS
  <2>2. m \in ToSet(plan) /\ srv[m] = "none"
    BY <1>3, <2>1, AtHand
  <2>3. r \in {"up", "skipped", "failed", "down"} /\ srv' = [srv EXCEPT ![m] = r]
    BY <1>3, <2>1
  <2>4. /\ srv[m] # "up" /\ r = "up" => Cardinality(Up)' = Cardinality(Up) + 1
        /\ srv[m] # "up" /\ r # "up" => Cardinality(Up)' = Cardinality(Up)
    BY <1>3, <2>2, <2>3, UpChanges
  <2> QED
    BY <2>2, <2>4
<1>4. ASSUME svc = "starting", NEW e, GiveUp(e), UNCHANGED <<setup, plan, shutdown>> PROVE GroupStep
  <2>1. /\ \E r \in {"skipped", "failed"} : srv' = [srv EXCEPT ![plan[idx]] = r]
        /\ svc' \in {"starting", "up", "failing"}
    BY <1>4, GiveUpStarts
  <2>2. PICK r \in {"skipped", "failed"} : srv' = [srv EXCEPT ![plan[idx]] = r]
    BY <2>1
  <2>3. r \in {"up", "skipped", "failed"} /\ r # "up"
    OBVIOUS
  <2>4. Cardinality(Up)' = Cardinality(Up)
    BY <1>3, <1>4, <2>2, <2>3
  <2> QED
    BY <1>4, <2>1, <2>4 DEF GroupStep
<1>5. CASE Spawn
  BY <1>2, <1>5 DEF Spawn, GroupStep
<1>6. CASE Listen
  <2>1. svc = "starting" /\ UNCHANGED <<setup, plan, shutdown>>
    BY <1>6 DEF Listen, Starting
  <2>2. CASE Settle("up")
    <3>1. "up" \in {"up", "skipped"} /\ "up" \in {"up", "skipped", "failed"}
      OBVIOUS
    <3>2. srv' = [srv EXCEPT ![plan[idx]] = "up"] /\ svc' \in {"starting", "up"}
      BY <2>1, <2>2, <3>1, SettleStarts
    <3>3. Cardinality(Up)' = Cardinality(Up) + 1
      BY <1>3, <2>1, <3>1, <3>2
    <3> QED
      BY <2>1, <3>2, <3>3 DEF GroupStep
  <2>3. CASE UNCHANGED <<idx, srv, svc>>
    BY <1>2, <2>1, <2>3 DEF GroupStep
  <2> QED
    BY <1>6, <2>2, <2>3 DEF Listen
<1>7. CASE ListenFails
  <2>1. svc = "starting" /\ UNCHANGED <<setup, plan, shutdown>>
    BY <1>7 DEF ListenFails, Starting
  <2>2. UNCHANGED <<svc, idx, bound, srv>> \/ \E e : GiveUp(e)
    BY <1>7 DEF ListenFails
  <2> QED
    BY <1>2, <1>4, <2>1, <2>2 DEF GroupStep
<1>8. CASE Fail
  BY <1>2, <1>8 DEF Fail, GroupStep
<1>9. ASSUME NEW n \in ToStop, BeginStop(n) PROVE GroupStep
  BY <1>2, <1>9 DEF BeginStop, GroupStep
<1>10. CASE PoolDrained
  BY <1>2, <1>10 DEF PoolDrained, GroupStep
<1>11. CASE StopReturns
  <2>0. PICK m : m = victim
    OBVIOUS
  <2>1. stage = "wait" /\ UNCHANGED <<setup, plan, shutdown>>
        /\ IF svc = "starting" THEN GiveUp(err)
           ELSE srv' = [srv EXCEPT ![m] = "down"] /\ UNCHANGED <<svc, idx, bound>>
    BY <1>11, <2>0 DEF StopReturns
  <2>2. CASE svc = "starting"
    BY <1>4, <2>1, <2>2
  <2>3. CASE svc # "starting"
    <3>1. svc = "up" /\ shutdown /\ m \in ToSet(plan) /\ srv[m] \in {"up", "skipped"}
      BY <1>1, <2>0, <2>1, <2>3 DEF StopInv
    <3>2. "down" \in {"up", "skipped", "failed", "down"} /\ srv' = [srv EXCEPT ![m] = "down"]
          /\ UNCHANGED <<svc, plan, shutdown>>
      BY <2>1, <2>3
    <3>3. /\ srv[m] # "up" => Cardinality(Up)' = Cardinality(Up)
          /\ srv[m] = "up" => Cardinality(Up)' = Cardinality(Up) - 1 /\ Cardinality(Up) > 0
      BY <3>1, <3>2, UpChanges
    <3> QED
      BY <3>1, <3>2, <3>3 DEF GroupStep
  <2> QED
    BY <2>2, <2>3
<1>12. CASE AllStopped
  <2>1. /\ svc = "up" /\ shutdown /\ ToStop = {} /\ svc' = "done" /\ UNCHANGED <<plan, srv, shutdown>>
    BY <1>12 DEF AllStopped
  <2>2. Up = {}
    BY <2>1, ToStopFacts DEF Up
  <2>3. Cardinality(Up) = 0
    BY <2>2, FS_EmptySet
  <2> QED
    BY <1>2, <2>1, <2>3 DEF GroupStep
<1>13. CASE Shutdown
  BY <1>2, <1>13 DEF Shutdown, goroutine, GroupStep
<1>14. ASSUME NEW p \in loops, LoopEnds(p) PROVE GroupStep
  BY <1>2, <1>14 DEF LoopEnds, goroutine, GroupStep
<1>15. ASSUME NEW c \in Slots, Client(c) \/ Server(c) PROVE GroupStep
  <2>1. DOMAIN conns = Slots
    BY DEF IInv, PortsInv
  <2>2. UNCHANGED <<setup, plan, goroutine, loops, shutdown>>
    BY <1>15, <2>1, ConnStep
  <2> QED
    BY <1>2, <2>2 DEF goroutine, GroupStep
<1>16. CASE UNCHANGED vars
  BY <1>2, <1>16 DEF vars, goroutine, GroupStep
<1> QED
  BY <1>5, <1>6, <1>7, <1>8, <1>9, <1>10, <1>11, <1>12, <1>13, <1>14, <1>15, <1>16 DEF Next, Goroutine

\* KeepsContract: with the servers that are up as the running ones, the
\* services goroutine implements ServiceGroup, the contract runMimic (module
\* Lifecycle) builds on: servers are started one by one, an error ends the
\* goroutine early, and it is done only after every server has been stopped.
THEOREM ServersImplementGroup == Spec => KeepsContract
<1>1. Init => Group!Init
  <2> SUFFICES ASSUME Init PROVE Group!Init
    OBVIOUS
  <2>1. {n \in ToSet(plan) : srv[n] = "up"} = {} /\ svc = "off" /\ shutdown = FALSE
    BY DEF Init
  <2>2. Cardinality({n \in ToSet(plan) : srv[n] = "up"}) = 0
    BY <2>1, FS_EmptySet
  <2> QED
    BY <2>1, <2>2 DEF Group!Init
<1>2. IInv /\ [Next]_vars => [Group!Next]_(Group!group)
  BY StepsKeepContract, GroupStepIsNext
<1> QED
  BY <1>1, <1>2, Invariance, PTL DEF Spec, KeepsContract, Group!Spec

-----------------------------------------------------------------------------
(* Sessions.                                                               *)

FtpSound(s) == /\ DOMAIN s = {"user", "authed", "cwd", "dataLn", "as"}
               /\ IsDir(FtpTree, s.cwd)
               /\ s.authed => s.as = s.user
ShellSound(s) == /\ DOMAIN s = {"user", "cwd", "moved"}
                 /\ s.moved => IsDir(buildVFS, s.cwd)

\* A transfer is under way only in a session whose login stands.
Sound(ph, s) == /\ ph \in {"ctl", "accept", "data"} => FtpSound(s)
                /\ ph \in {"accept", "data"} => s.authed
                /\ ph = "shell" => ShellSound(s)
SessionInv == DOMAIN conns = Slots /\ \A c \in Slots : Sound(conns[c].ph, conns[c].s)

\* One FTP command.
LEMMA DispatchIsSound ==
  ASSUME NEW sess, FtpSound(sess), NEW cmd, NEW arg
  PROVE  LET then == dispatch(sess, cmd, arg) IN Sound(then.ph, then.sess)
<1> DEFINE S(t) == Sound(t.ph, t.sess)
<1>1. ASSUME NEW s, FtpSound(s) PROVE S(Then(s, "ctl")) /\ S(Then(s, "end"))
  BY <1>1 DEF Then, Sound
<1>2. ASSUME NEW u PROVE FtpSound(NewUser(sess, u))
  BY DEF NewUser, FtpSound
<1>3. ASSUME NEW p PROVE FtpSound(handlePass(sess, p))
  BY DEF handlePass, FtpSound
<1>4. ASSUME NEW b PROVE FtpSound(handlePasv(sess, b))
  BY DEF handlePasv, FtpSound
<1>5. FtpSound(ChangeDir(sess, arg))
  BY DEF ChangeDir, FtpSound
<1>6. FtpSound([sess EXCEPT !.cwd = resolvePath(@, [abs |-> FALSE, path |-> <<"..">>])])
  <2>1. PICK up : up = resolvePath(sess.cwd, [abs |-> FALSE, path |-> <<"..">>])
    OBVIOUS
  <2>2. IsDir(FtpTree, up)
    BY <2>1, TreeAssumption DEF FtpSound, IsDir
  <2>3. FtpSound([sess EXCEPT !.cwd = up])
    BY <2>2 DEF FtpSound
  <2> QED
    BY <2>1, <2>3
<1>7. ASSUME sess.authed, NEW exists PROVE S(handleTransfer(sess, exists))
  <2>1. S(Then(sess, "accept"))
    BY <1>7 DEF Then, Sound
  <2>2. S(Then(sess, "ctl"))
    BY <1>1
  <2> HIDE DEF S
  <2> QED
    BY <2>1, <2>2 DEF handleTransfer
<1> HIDE DEF S
<1>8. ASSUME sess.authed PROVE S(dispatchAuthed(sess, cmd, arg))
  <2>1. S(Then(sess, "ctl"))
    BY <1>1
  <2>2. CASE cmd = "CWD"
    BY <1>1, <1>5, <2>2 DEF dispatchAuthed
  <2>3. CASE cmd = "CDUP"
    BY <1>1, <1>6, <2>3 DEF dispatchAuthed
  <2>4. CASE cmd \in {"PASV", "PASVfails"}
    BY <1>1, <1>4, <2>4 DEF dispatchAuthed
  <2>5. CASE cmd = "LIST"
    BY <1>7, <1>8, <2>5 DEF dispatchAuthed
  <2>6. CASE cmd = "RETR"
    BY <1>7, <1>8, <2>6 DEF dispatchAuthed
  <2>7. CASE cmd \notin {"CWD", "CDUP", "PASV", "PASVfails", "LIST", "RETR"}
    BY <2>1, <2>7 DEF dispatchAuthed
  <2> QED
    BY <2>2, <2>3, <2>4, <2>5, <2>6, <2>7
<1>9. S(dispatch(sess, cmd, arg))
  <2>1. S(Then(sess, "ctl")) /\ S(Then(sess, "end"))
    BY <1>1
  <2>2. CASE cmd = "USER"
    BY <1>1, <1>2, <2>2 DEF dispatch
  <2>3. CASE cmd = "PASS"
    BY <1>1, <1>3, <2>3 DEF dispatch
  <2>4. CASE cmd = "QUIT"
    BY <2>1, <2>4 DEF dispatch
  <2>5. CASE cmd \notin {"USER", "PASS", "QUIT"}
    <3>1. dispatch(sess, cmd, arg) = IF sess.authed THEN dispatchAuthed(sess, cmd, arg) ELSE Then(sess, "ctl")
      BY <2>5 DEF dispatch
    <3> QED
      BY <1>8, <2>1, <3>1
  <2> QED
    BY <2>2, <2>3, <2>4, <2>5
<1> QED
  BY <1>9 DEF S

\* A login, a session channel and a cd.
LEMMA ShellIsSound ==
  /\ \A user : ShellSound(shellSession(user))
  /\ \A sess, arg : ShellSound(sess) => ShellSound(cmdCd(sess, arg))
<1>1. ASSUME NEW user PROVE ShellSound(shellSession(user))
  BY DEF shellSession, ShellSound
<1>2. ASSUME NEW sess, NEW arg, ShellSound(sess) PROVE ShellSound(cmdCd(sess, arg))
  <2>1. PICK target : cmdCd(sess, arg) = IF IsDir(buildVFS, target)
                                         THEN [sess EXCEPT !.cwd = target, !.moved = TRUE] ELSE sess
    BY DEF cmdCd
  <2>2. ASSUME IsDir(buildVFS, target) PROVE ShellSound([sess EXCEPT !.cwd = target, !.moved = TRUE])
    BY <1>2, <2>2 DEF ShellSound
  <2> QED
    BY <1>2, <2>1, <2>2
<1> QED
  BY <1>1, <1>2

LEMMA FirstSessionIsSound ==
  ASSUME NEW n, NEW p
  PROVE  Sound(FirstPhase(n, p), FirstSession(n))
<1>1. FtpSound(ftpSession)
  BY TreeAssumption DEF ftpSession, FtpSound
<1>2. CASE n = "ftp_honeypot"
  <2>1. FirstSession(n) = ftpSession
    BY <1>2 DEF FirstSession
  <2>2. FirstPhase(n, p) \notin {"accept", "data", "shell"}
    BY <1>2 DEF FirstPhase
  <2> QED
    BY <1>1, <2>1, <2>2 DEF Sound
<1>3. CASE n # "ftp_honeypot"
  <2>1. FirstPhase(n, p) \in {"nbss", "loop", "auth", "x224", "rpc", "hello", "greet"}
    BY <1>3 DEF FirstPhase
  <2> QED
    BY <2>1 DEF Sound
<1> QED
  BY <1>2, <1>3

LEMMA SessionStep ==
  ASSUME SessionInv, NEW c \in Slots, Client(c) \/ Server(c)
  PROVE  SessionInv'
<1> DEFINE Calm == {"free", "stray", "end", "loop", "next", "first", "hello", "handshake", "backend", "drain", "auth"}
           Goal == SessionInv'
<1>0. PICK s, ph : s = conns[c].s /\ ph = conns[c].ph
  OBVIOUS
<1>1. Sound(ph, s)
  BY <1>0 DEF SessionInv
<1>2. ASSUME NEW r, conns' = [conns EXCEPT ![c] = r], Sound(r.ph, r.s) PROVE Goal
  BY <1>2 DEF SessionInv
<1>3. ASSUME NEW q, NEW out, NEW t, Become(c, q, out, t), Sound(q, t) PROVE Goal
  <2>1. PICK r : r = [port |-> conns[c].port, ph |-> q, out |-> out, s |-> t]
    OBVIOUS
  <2>2. conns' = [conns EXCEPT ![c] = r] /\ r.ph = q /\ r.s = t
    BY <1>3, <2>1 DEF Become
  <2> HIDE DEF Goal
  <2> QED
    BY <1>2, <1>3, <2>2
<1>4. \A q, t : q \in Calm => Sound(q, t)
  BY DEF Sound
<1> HIDE DEF Goal
<1>5. ASSUME NEW q \in Calm, Move(c, q) PROVE Goal
  BY <1>3, <1>4, <1>5 DEF Move
<1>6. ASSUME NEW q \in Calm, NEW out, NEW t, Become(c, q, out, t) PROVE Goal
  BY <1>3, <1>4, <1>6
<1>7. ASSUME NEW p \in open, Accept(c, p) PROVE Goal
  <2>1. PICK n : n = Owner(p)
    OBVIOUS
  <2>2. PICK r : r = [port |-> p, ph |-> FirstPhase(n, p), out |-> NoReply, s |-> FirstSession(n)]
    OBVIOUS
  <2>3. conns' = [conns EXCEPT ![c] = r] /\ r.ph = FirstPhase(n, p) /\ r.s = FirstSession(n)
    BY <1>7, <2>1, <2>2 DEF Accept
  <2>4. Sound(FirstPhase(n, p), FirstSession(n))
    BY FirstSessionIsSound
  <2> QED
    BY <1>2, <2>3, <2>4
<1>8. ASSUME Close(c) PROVE Goal
  <2>1. Free.ph \in Calm
    BY DEF Free
  <2>2. Sound(Free.ph, Free.s)
    BY <1>4, <2>1
  <2>3. conns' = [conns EXCEPT ![c] = Free]
    BY <1>8 DEF Close
  <2> QED
    BY <1>2, <2>2, <2>3
<1>9. ASSUME SessionLeft(c) PROVE Goal
  <2>1. PICK r : r = [Free EXCEPT !.ph = "stray"]
    OBVIOUS
  <2>2. r.ph \in Calm
    BY <2>1 DEF Free
  <2>3. Sound(r.ph, r.s)
    BY <1>4, <2>2
  <2>4. conns' = [conns EXCEPT ![c] = r]
    BY <1>9, <2>1 DEF SessionLeft
  <2> QED
    BY <1>2, <2>3, <2>4
<1>10. ASSUME NEW d, Probe(c, d) \/ Hello(c, d) \/ Backend(c, d) PROVE Goal
  BY <1>5, <1>6, <1>10 DEF Probe, Hello, Backend
<1>11. ASSUME NEW b, Frame(c, b) \/ RpcRequest(c, b) PROVE Goal
  BY <1>5, <1>11 DEF Frame, RpcRequest
<1>12. ASSUME Handshake(c) \/ ReadFails(c) \/ NextRound(c) \/ ControlClosed(c) PROVE Goal
  BY <1>5, <1>12 DEF Handshake, ReadFails, NextRound, ControlClosed
<1>13. ASSUME Greet(c) PROVE Goal
  BY <1>6, <1>13 DEF Greet
<1>14. ASSUME WriteDeadlinePasses(c) PROVE Goal
  <2>1. ph \in Calm /\ \E t : Become(c, ph, NoReply, t)
    BY <1>0, <1>14 DEF WriteDeadlinePasses, At
  <2> QED
    BY <1>6, <2>1
<1>15. ASSUME NEW pdu, TsRequest(c, pdu) PROVE Goal
  <2>1. PICK then : then = serveCredSSP(s, pdu)
    OBVIOUS
  <2>2. Become(c, then.ph, NoReply, then.sess)
    BY <1>0, <1>15, <2>1 DEF TsRequest
  <2>3. then.ph \in {"end", "loop"}
    BY <2>1 DEF serveCredSSP, Then
  <2> QED
    BY <1>6, <2>2, <2>3
<1>16. ASSUME NEW cmd, FtpCommand(c, cmd) PROVE Goal
  <2>1. PICK then : then = dispatch(s, cmd.cmd, cmd.arg)
    OBVIOUS
  <2>2. Become(c, then.ph, NoReply, then.sess) /\ ph = "ctl"
    BY <1>0, <1>16, <2>1 DEF FtpCommand, At
  <2>3. FtpSound(s)
    BY <1>1, <2>2 DEF Sound
  <2>4. Sound(then.ph, then.sess)
    BY <2>1, <2>3, DispatchIsSound
  <2> QED
    BY <1>3, <2>2, <2>4
<1>17. ASSUME DataAccepted(c) \/ NoDataConnection(c) PROVE Goal
  <2>1. PICK t : t = acceptData(s)
    OBVIOUS
  <2>2. ph = "accept" /\ (Become(c, "data", NoReply, t) \/ Become(c, "ctl", NoReply, t))
    BY <1>0, <1>17, <2>1 DEF DataAccepted, NoDataConnection, At
  <2>3. FtpSound(t) /\ t.authed
    <3>1. FtpSound(s) /\ s.authed
      BY <1>1, <2>2 DEF Sound
    <3> QED
      BY <2>1, <3>1 DEF acceptData, FtpSound
  <2>4. Sound("data", t) /\ Sound("ctl", t)
    BY <2>3 DEF Sound
  <2> QED
    BY <1>3, <2>2, <2>4
<1>18. ASSUME Transferred(c) PROVE Goal
  <2>1. ph = "data" /\ Become(c, "ctl", conns[c].out, s)
    BY <1>0, <1>18 DEF Transferred, Move, At
  <2>2. Sound("ctl", s)
    BY <1>1, <2>1 DEF Sound
  <2> QED
    BY <1>3, <2>1, <2>2
<1>19. ASSUME NEW t, ShellSound(t), Become(c, "shell", NoReply, t) PROVE Goal
  <2>1. Sound("shell", t)
    BY <1>19 DEF Sound
  <2> QED
    BY <1>3, <1>19, <2>1
<1>20. ASSUME NEW l, SshLogin(c, l) PROVE Goal
  <2>1. \/ Become(c, "shell", NoReply, shellSession(l[1]))
        \/ \E t : Become(c, "auth", NoReply, t)
        \/ Move(c, "end")
    BY <1>20 DEF SshLogin
  <2> QED
    BY <1>5, <1>6, <1>19, <2>1, ShellIsSound
<1>21. ASSUME Channel(c) PROVE Goal
  BY <1>19, <1>21, ShellIsSound DEF Channel
<1>22. ASSUME NEW a, Cd(c, a) PROVE Goal
  <2>1. ph = "shell" /\ Become(c, "shell", NoReply, cmdCd(s, a))
    BY <1>0, <1>22 DEF Cd, At
  <2>2. ShellSound(cmdCd(s, a))
    BY <1>1, <2>1, ShellIsSound DEF Sound
  <2> QED
    BY <1>19, <2>1, <2>2
<1>23. ASSUME Client(c) PROVE Goal
  BY <1>7, <1>9, <1>10, <1>11, <1>12, <1>14, <1>15, <1>16, <1>17, <1>18, <1>20, <1>21, <1>22, <1>23 DEF Client
<1>24. ASSUME Server(c) PROVE Goal
  BY <1>8, <1>10, <1>12, <1>13, <1>17, <1>24 DEF Server
<1> QED
  BY <1>23, <1>24 DEF Goal

\* SessionsAreSound, for every tree, every set of credentials and whatever the
\* clients send: a transfer is only for the user whose password was accepted
\* last, the FTP working directory always exists, and a shell stands in a
\* directory once a cd has succeeded.
THEOREM SessionsStaySound == Spec => []SessionsAreSound
<1>1. Init => SessionInv
  <2> SUFFICES ASSUME Init PROVE SessionInv
    OBVIOUS
  <2>1. conns = [c \in Slots |-> Free]
    BY DEF Init
  <2>2. Sound(Free.ph, Free.s)
    BY DEF Free, Sound
  <2> QED
    BY <2>1, <2>2 DEF SessionInv
<1>2. SessionInv /\ [Next]_vars => SessionInv'
  <2> SUFFICES ASSUME SessionInv, [Next]_vars PROVE SessionInv'
    OBVIOUS
  <2>1. ASSUME UNCHANGED conns PROVE SessionInv'
    BY <2>1 DEF SessionInv
  <2>2. Goroutine => UNCHANGED conns
    BY DEF Goroutine, Spawn, Listen, ListenFails, Fail, BeginStop, PoolDrained, StopReturns, AllStopped
  <2>3. Shutdown \/ (\E p \in loops : LoopEnds(p)) \/ UNCHANGED vars => UNCHANGED conns
    BY DEF Shutdown, LoopEnds, vars
  <2> QED
    BY <2>1, <2>2, <2>3, SessionStep DEF Next
<1>3. SessionInv => SessionsAreSound
  <2> SUFFICES ASSUME SessionInv, NEW c \in Slots
               PROVE  /\ At(c, {"accept", "data"}) => conns[c].s.as = conns[c].s.user
                      /\ At(c, {"ctl", "accept", "data"}) => IsDir(FtpTree, conns[c].s.cwd)
                      /\ At(c, {"shell"}) /\ conns[c].s.moved => IsDir(buildVFS, conns[c].s.cwd)
    BY DEF SessionsAreSound
  <2>1. PICK ph, s : ph = conns[c].ph /\ s = conns[c].s
    OBVIOUS
  <2>2. Sound(ph, s)
    BY <2>1 DEF SessionInv
  <2>3. ph \in {"accept", "data"} => s.as = s.user
    BY <2>2 DEF Sound, FtpSound
  <2>4. ph \in {"ctl", "accept", "data"} => IsDir(FtpTree, s.cwd)
    BY <2>2 DEF Sound, FtpSound
  <2>5. ph = "shell" /\ s.moved => IsDir(buildVFS, s.cwd)
    BY <2>2 DEF Sound, ShellSound
  <2> QED
    BY <2>1, <2>3, <2>4, <2>5 DEF At
<1> QED
  BY <1>1, <1>2, <1>3, PTL DEF Spec

-----------------------------------------------------------------------------
(* Types, and the ports a client can reach.                                *)

LEMMA ConfigurationStays == IInv /\ [Next]_vars => UNCHANGED <<setup, plan>>
<1> SUFFICES ASSUME IInv, [Next]_vars PROVE UNCHANGED <<setup, plan>>
  OBVIOUS
<1>1. Goroutine => UNCHANGED <<setup, plan>>
  BY DEF Goroutine, Spawn, Listen, ListenFails, Fail, BeginStop, PoolDrained, StopReturns, AllStopped
<1>2. Shutdown \/ (\E p \in loops : LoopEnds(p)) \/ UNCHANGED vars => UNCHANGED <<setup, plan>>
  BY DEF Shutdown, LoopEnds, vars
<1>3. ASSUME NEW c \in Slots, Client(c) \/ Server(c) PROVE UNCHANGED <<setup, plan>>
  BY <1>3, ConnStep DEF IInv, PortsInv
<1> QED
  BY <1>1, <1>2, <1>3 DEF Next

BoundInv == bound \in 0 .. 1 + Len(DynPorts)

LEMMA BoundStays == IInv /\ BoundInv /\ [Next]_vars => BoundInv'
<1> SUFFICES ASSUME IInv, BoundInv, [Next]_vars PROVE BoundInv'
  OBVIOUS
<1>0. Len(DynPorts) \in Nat
  BY ServersAssumption, LenProperties
<1>1. ASSUME bound' = bound \/ bound' = 0 PROVE BoundInv'
  BY <1>0, <1>1 DEF BoundInv
<1>2. \A r : Settle(r) => bound' = 0
  BY DEF Settle
<1>3. \A e : GiveUp(e) => bound' = bound \/ bound' = 0
  BY <1>2 DEF GiveUp
<1>4. CASE Listen
  <2>1. CASE Settle("up")
    BY <1>1, <1>2, <2>1
  <2>2. CASE bound' = bound + 1 /\ UNCHANGED <<idx, srv, svc>>
    <3>1. IInv' /\ svc' = "starting" /\ UNCHANGED <<setup, plan>>
      BY <1>4, <2>2, ListenPreserves DEF Listen, Starting
    <3>2. idx \in 1 .. Len(plan) /\ plan[idx] \in Services /\ bound \in Nat
      BY <1>4, AtHand DEF Listen, Starting
    <3>3. PortsOf(plan[idx])' = PortsOf(plan[idx])
      BY <2>2, <3>1, PlanStays
    <3>4. bound' < Len(PortsOf(plan[idx]))
      BY <3>1, <3>3 DEF IInv, StartInv
    <3>5. Len(PortsOf(plan[idx])) \in Nat /\ Len(PortsOf(plan[idx])) <= 2 + Len(DynPorts)
      BY <3>2, PortsFacts
    <3> QED
      BY <1>0, <2>2, <3>2, <3>4, <3>5 DEF BoundInv
  <2> QED
    BY <1>4, <2>1, <2>2 DEF Listen
<1>5. Spawn \/ Fail \/ (\E n \in ToStop : BeginStop(n)) \/ PoolDrained \/ AllStopped => bound' = bound
  BY DEF Spawn, Fail, BeginStop, PoolDrained, AllStopped
<1>6. ListenFails \/ StopReturns => bound' = bound \/ bound' = 0
  BY <1>3 DEF ListenFails, StopReturns
<1>7. Shutdown \/ (\E p \in loops : LoopEnds(p)) \/ UNCHANGED vars => bound' = bound
  BY DEF Shutdown, LoopEnds, vars, goroutine
<1>8. ASSUME NEW c \in Slots, Client(c) \/ Server(c) PROVE bound' = bound
  BY <1>8, ConnStep DEF IInv, PortsInv, goroutine
<1> QED
  BY <1>1, <1>4, <1>5, <1>6, <1>7, <1>8 DEF Next, Goroutine

\* TypeOK: the goroutine stays within the plan, every listener has its accept
\* loop, and every loop and connection is on a port of the plan.
THEOREM TypeCorrect == Spec => []TypeOK
<1>1. Init => BoundInv
  <2>1. Len(DynPorts) \in Nat
    BY ServersAssumption, LenProperties
  <2>2. 0 \in 0 .. 1 + Len(DynPorts)
    BY ONLY <2>1
  <2>3. Init => bound = 0
    BY DEF Init
  <2> QED
    BY <2>2, <2>3 DEF BoundInv
<1>2. IInv /\ BoundInv => TypeOK
  BY DEF IInv, BoundInv, StartInv, StopInv, PortsInv, TypeOK
<1> QED
  BY <1>1, <1>2, BoundStays, Invariance, PTL DEF Spec

\* What the configuration says of reachability, and no step changes.
ReachInv == /\ Len(plan) = Cardinality(ToSet(plan))
            /\ DropsUnserved(setup.profile) => AllPorts \subseteq ServiceListenPorts(plan, setup.profile)

\* A service other than the endpoint mapper binds only ports the firewall knows.
LEMMA ListenPortsAreKnown ==
  ASSUME NEW n \in ToSet(plan), n \in Services, n # "msrpc"
  PROVE  Ports(n) \subseteq ServiceListenPorts(plan, setup.profile)
<1> DEFINE names == ToSet(plan)
           potPorts == UNION {honeypotListenPorts[k] : k \in names \cap Honeypots}
           manifestPorts == {Manifests[k].port : k \in {m \in names \ Honeypots : m \in DOMAIN Manifests}}
           netbios == {139 : k \in {m \in {"smb_honeypot"} \cap names :
                                      EditionExposesPort(ResolvedEdition(setup.profile), 139)}}
           known == ServiceListenPorts(plan, setup.profile)
<1>1. known = potPorts \cup manifestPorts \cup netbios
  BY DEF ServiceListenPorts
<1>2. Ports(n) = Own(n)
  BY PortsAreOwn
<1>3. CASE n = "smb_honeypot"
  <2>1. "smb_honeypot" \in Honeypots /\ honeypotListenPorts["smb_honeypot"] = {445}
    BY HoneypotNames DEF honeypotListenPorts
  <2>2. 445 \in potPorts
    BY <1>3, <2>1
  <2>3. Extra \subseteq netbios
    BY <1>3 DEF Extra, smbOn139
  <2>4. Own(n) = {445} \cup Extra
    BY <1>3, OwnPorts
  <2> QED
    BY <1>1, <1>2, <2>2, <2>3, <2>4
<1>4. CASE n \in {"rdp", "ftp_honeypot", "ssh_honeypot"}
  <2>1. /\ honeypotListenPorts["rdp"] = {3389} /\ honeypotListenPorts["ftp_honeypot"] = {21}
        /\ honeypotListenPorts["ssh_honeypot"] = {22} /\ n \in Honeypots
    BY <1>4, HoneypotNames DEF honeypotListenPorts
  <2>2. Own(n) = honeypotListenPorts[n]
    <3>1. Own("rdp") = {3389} /\ Own("ftp_honeypot") = {21} /\ Own("ssh_honeypot") = {22}
      BY OwnPorts
    <3>2. CASE n = "rdp"
      BY ONLY <2>1, <3>1, <3>2
    <3>3. CASE n = "ftp_honeypot"
      BY ONLY <2>1, <3>1, <3>3
    <3>4. CASE n = "ssh_honeypot"
      BY ONLY <2>1, <3>1, <3>4
    <3> QED
      BY <1>4, <3>2, <3>3, <3>4
  <2> QED
    BY <1>1, <1>2, <2>1, <2>2
<1>5. CASE n \in DOMAIN Manifests \ Honeypots
  <2>1. Own(n) = {Manifests[n].port} /\ Manifests[n].port \in manifestPorts
    BY <1>5, OwnPorts
  <2> QED
    BY <1>1, <1>2, <2>1
<1> QED
  BY <1>3, <1>4, <1>5, HoneypotNames DEF Services

\* A sequence that repeats none has as many elements as positions.
LEMMA EachOnceCounts ==
  ASSUME NEW S, NEW s \in Seq(S), EachOnce(s)
  PROVE  Len(s) = Cardinality(ToSet(s))
<1>1. Len(s) \in Nat /\ DOMAIN s = 1 .. Len(s) /\ s = [i \in 1 .. Len(s) |-> s[i]]
  BY LenProperties
<1>2. ToSet(s) = {s[i] : i \in 1 .. Len(s)}
  BY <1>1 DEF ToSet
<1>3. s \in Surjection(1 .. Len(s), ToSet(s)) /\ s \in Injection(1 .. Len(s), ToSet(s))
  BY <1>1, <1>2 DEF Surjection, Injection, IsInjective, EachOnce
<1>4. IsFiniteSet(1 .. Len(s)) /\ Cardinality(1 .. Len(s)) = Len(s)
  <2>1. PICK n \in Nat : n = Len(s)
    BY <1>1
  <2>2. IsFiniteSet(1 .. n) /\ Cardinality(1 .. n) = n
    BY FS_Interval
  <2> QED
    BY <2>1, <2>2
<1>5. Cardinality(ToSet(s)) = Cardinality(1 .. Len(s)) <=> s \in Injection(1 .. Len(s), ToSet(s))
  BY <1>3, <1>4, FS_Surjection
<1> QED
  BY <1>3, <1>4, <1>5

\* PlanIsServable: whatever list of services is asked for, with whatever
\* profile, what ResolveRunServices makes of it can be served: no service
\* twice, no port wanted by two of them, and on a workstation every port that
\* is ever bound is one the firewall lets through: the binders of run.go and
\* ServiceListenPorts, which compute the ports in two places, agree.
THEOREM EveryPlanIsServable == Spec => []PlanIsServable
<1>1. Init => ReachInv
  <2> SUFFICES ASSUME Init PROVE ReachInv
    OBVIOUS
  <2>1. PlanInv
    BY Initially DEF IInv
  <2>2. \A n \in ToSet(plan) : n \in Services
    BY <2>1, PlanFacts
  <2>3. ASSUME DropsUnserved(setup.profile), NEW n \in ToSet(plan)
        PROVE  Ports(n) \subseteq ServiceListenPorts(plan, setup.profile)
    <3>1. "msrpc" \notin ToSet(plan)
      BY <2>3, Resolved, ServersAssumption DEF Init, Services
    <3>2. n # "msrpc" /\ n \in Services
      BY <2>2, <3>1
    <3> QED
      BY <3>2, ListenPortsAreKnown
  <2>4. Len(plan) = Cardinality(ToSet(plan))
    BY <2>1, PlanFacts, EachOnceCounts DEF PlanInv, EachOnce
  <2> QED
    BY <2>3, <2>4 DEF ReachInv, AllPorts
<1>2. IInv /\ ReachInv /\ [Next]_vars => ReachInv'
  <2> SUFFICES ASSUME IInv, ReachInv, [Next]_vars PROVE ReachInv'
    OBVIOUS
  <2>1. UNCHANGED <<setup, plan>>
    BY ConfigurationStays
  <2>2. ToSet(plan)' = ToSet(plan) /\ AllPorts' = AllPorts
    BY <2>1, PlanStays
  <2> QED
    BY <2>1, <2>2 DEF ReachInv
<1>3. IInv /\ ReachInv => PlanIsServable
  BY DEF IInv, PlanInv, PortsInv, ReachInv, PlanIsServable
<1> QED
  BY <1>1, <1>2, <1>3, Invariance, PTL DEF Spec

-----------------------------------------------------------------------------
(* Pages.                                                                  *)

\* Min is a member of every set of places that is not empty, and none is
\* before it: Match takes the first probe.
LEMMA MinOfPlaces ==
  ASSUME NEW S \in SUBSET Nat, S # {}
  PROVE  Min(S) \in S /\ \A y \in S : Min(S) <= y
<1> DEFINE Less == {ss \in Nat \X Nat : ss[1] < ss[2]}
<1>1. IsWellFoundedOn(Less, Nat)
  BY NatLessThanWellFounded, Zenon DEF OpToRel
<1> HIDE DEF Less
<1>2. PICK x \in S : \A y \in S : ~(<<y, x>> \in Less)
  BY <1>1, WFMin
<1>3. ASSUME NEW y \in S PROVE x <= y
  <2>1. <<y, x>> \in Nat \X Nat /\ <<y, x>>[1] = y /\ <<y, x>>[2] = x
    OBVIOUS
  <2>2. ~(y < x)
    BY <1>2, <2>1, Zenon DEF Less
  <2> QED
    BY <2>2
<1> QED
  BY <1>2, <1>3 DEF Min

\* What an HTTP reply from a file is: it declares its length, its page is the
\* file's, and its Server header is the rewritten one.
LEMMA ResponseFacts ==
  ASSUME NEW file, NEW rules, NEW options
  PROVE  LET resp == GetResponse(file, rules, options, LeakStore)
         IN  resp.http =>
               /\ resp.clen = resp.body /\ file \in DOMAIN Files /\ Files[file].http
               /\ resp.page = Files[file].page
               /\ resp.server = applyServerHeader(Files[file], options).server
<1> DEFINE resp == GetResponse(file, rules, options, LeakStore)
<1> SUFFICES ASSUME resp.http
             PROVE  /\ resp.clen = resp.body /\ file \in DOMAIN Files /\ Files[file].http
                    /\ resp.page = Files[file].page
                    /\ resp.server = applyServerHeader(Files[file], options).server
  OBVIOUS
<1>1. ~NoReply.http
  BY DEF NoReply
<1>2. file \in DOMAIN Files
  BY <1>1 DEF GetResponse
<1>3. PICK f \in Response : f = Files[file]
  BY <1>2, FilesAssumption
<1>4. PICK g : g = applyLeak(f, LeakStore)
  OBVIOUS
<1>5. g \in Response /\ g.http = f.http /\ g.page = f.page /\ g.server = f.server
  <2>1. CASE f.leak \in DOMAIN LeakStore
    <3>1. LeakStore[f.leak] \in Nat
      BY <2>1, LeakAssumption
    <3>2. PICK k : k = LeakStore[f.leak] /\ k \in Nat
      BY <3>1
    <3>3. g = [f EXCEPT !.body = @ + k]
      BY <1>4, <2>1, <3>2 DEF applyLeak
    <3> QED
      BY <1>3, <3>2, <3>3 DEF Response
  <2>2. CASE f.leak \notin DOMAIN LeakStore
    BY <1>4, <2>2 DEF applyLeak, Response
  <2> QED
    BY <2>1, <2>2
<1>6. PICK h : h = fixHTTPContentLength(g)
  OBVIOUS
<1>7. h \in Response /\ h.http = f.http /\ h.page = f.page /\ h.server = f.server
      /\ (h.http => h.clen = h.body)
  BY <1>5, <1>6 DEF fixHTTPContentLength, Response
<1>8. PICK r : r = applyServerHeader(h, options)
  OBVIOUS
<1>9. /\ r.http = h.http /\ r.page = h.page /\ r.clen = h.clen /\ r.body = h.body
      /\ r.server = applyServerHeader(f, options).server
  <2>1. PICK brand : brand = serverStringFor(Option(options, "os_name"))
    OBVIOUS
  <2>2. PICK linux : linux = IsLinux(options)
    OBVIOUS
  <2>3. /\ r = IF linux /\ h.http /\ brand # "" /\ h.server # "" THEN [h EXCEPT !.server = brand] ELSE h
        /\ applyServerHeader(f, options)
             = IF linux /\ f.http /\ brand # "" /\ f.server # "" THEN [f EXCEPT !.server = brand] ELSE f
    BY <1>8, <2>1, <2>2 DEF applyServerHeader
  <2> QED
    BY <1>3, <1>7, <2>3 DEF Response
<1>10. resp = r \/ resp = NoReply
  BY <1>2, <1>3, <1>4, <1>6, <1>8 DEF GetResponse
<1> HIDE DEF resp
<1> QED
  BY <1>1, <1>2, <1>3, <1>7, <1>9, <1>10

\* What PagesAgree says of a reply of the service n.
Fits(r, n, profile) ==
    r.http =>
        /\ r.clen = r.body
        /\ profile.family \in {"windows", "linux", "nil"} /\ n \in {"http", "https"} =>
              r.page \in {"plain", r.server} /\ r.server = Make(profile)

LEMMA FileFits ==
  ASSUME NEW file, NEW rules, NEW n,
         setup.profile.family \in {"windows", "linux", "nil"} /\ n \in {"http", "https"} =>
            Shows(file, setup.profile)
  PROVE  Fits(GetResponse(file, rules, Options, LeakStore), n, setup.profile)
<1>1. PICK r : r = GetResponse(file, rules, Options, LeakStore)
  OBVIOUS
<1>2. r.http => /\ r.clen = r.body /\ file \in DOMAIN Files /\ Files[file].http
                /\ r.page = Files[file].page
                /\ r.server = applyServerHeader(Files[file], Options).server
  BY <1>1, ResponseFacts
<1>3. applyServerHeader(Files[file], Options).page = Files[file].page
      \/ ~(file \in DOMAIN Files)
  <2>1. SUFFICES ASSUME file \in DOMAIN Files
                 PROVE  applyServerHeader(Files[file], Options).page = Files[file].page
    OBVIOUS
  <2>2. Files[file] \in Response
    BY <2>1, FilesAssumption
  <2>3. PICK brand : brand = serverStringFor(Option(Options, "os_name"))
    OBVIOUS
  <2>4. applyServerHeader(Files[file], Options) \in {Files[file], [Files[file] EXCEPT !.server = brand]}
    BY <2>3 DEF applyServerHeader
  <2> QED
    BY <2>2, <2>4 DEF Response
<1> QED
  BY <1>1, <1>2, <1>3 DEF Fits, Shows, Options

LEMMA NothingFits == \A n : Fits(NoReply, n, setup.profile)
  BY DEF Fits, NoReply

\* Match takes the first probe, and of those with the same signature it is
\* the first whose file decides.
LEMMA MatchedShows ==
  ASSUME setup \in Setups, setup.profile.family \in {"windows", "linux", "nil"},
         NEW n \in {"http", "https"} \cap DOMAIN Manifests, NEW data
  PROVE  LET probe == Match(NewProbeMatcher(Manifests[n].probes, Options), data)
         IN  probe = NoProbe \/ Shows(probe.file, setup.profile)
<1> DEFINE probes  == Manifests[n].probes
           matcher == NewProbeMatcher(probes, Options)
           met     == DOMAIN matcher
           hits    == {i \in met : matchProbe(matcher[i], data)}
           probe   == Match(matcher, data)
<1>1. /\ met \subseteq Nat
      /\ \A i \in met : \/ Shows(probes[i].file, setup.profile)
                        \/ \E j \in met : j < i /\ SameSignature(probes[j], probes[i])
  BY PagesAssumption DEF Options
<1>2. \A i \in met : matcher[i] = probes[i]
  BY DEF NewProbeMatcher
<1>3. probe = IF hits = {} THEN NoProbe ELSE matcher[Min(hits)]
  BY DEF Match
<1> HIDE DEF probes, matcher, probe
<1>4. ASSUME hits # {} PROVE probe = NoProbe \/ Shows(probe.file, setup.profile)
  <2>1. hits \in SUBSET Nat
    BY <1>1
  <2>2. Min(hits) \in hits /\ \A y \in hits : Min(hits) <= y
    BY <1>4, <2>1, MinOfPlaces
  <2>3. PICK i \in hits : i = Min(hits) /\ \A y \in hits : i <= y
    BY <2>2
  <2>4. ASSUME NEW j \in met, j < i, SameSignature(probes[j], probes[i]) PROVE FALSE
    <3>1. PICK p, q : p = probes[j] /\ q = probes[i]
      OBVIOUS
    <3>2. matchProbe(q, data) /\ q = matcher[i] /\ p = matcher[j]
      BY <1>2, <2>3, <3>1
    <3>3. matchProbe(p, data)
      BY <2>4, <3>1, <3>2 DEF matchProbe, SameSignature
    <3>4. j \in hits
      BY <2>4, <3>2, <3>3
    <3>5. i \in Nat /\ j \in Nat /\ i <= j
      BY <1>1, <2>3, <3>4
    <3> QED
      BY ONLY <2>4, <3>5
  <2>5. Shows(probes[i].file, setup.profile)
    BY <1>1, <2>4
  <2> QED
    BY <1>2, <1>3, <1>4, <2>3, <2>5
<1>5. probe = NoProbe \/ Shows(probe.file, setup.profile)
  BY <1>3, <1>4
<1> QED
  BY <1>5 DEF probe, matcher, probes

\* The page behind TLS is the profile's, whatever was asked for.
LEMMA BackendFits ==
  ASSUME setup \in Setups, NEW req, NEW n
  PROVE  Fits(TLSBackendHTTPResponse(req, Options, LeakStore), n, setup.profile)
<1> DEFINE os   == Option(Options, "os_name")
           file == linuxHTTPResponseFile(parseHTTPMethod(req), parseHTTPPath(req), os)
           resp == GetResponse(file, HttpDate, Options, LeakStore)
           prof == setup.profile
<1>1. PICK method, path : method = parseHTTPMethod(req) /\ path = parseHTTPPath(req)
  OBVIOUS
<1>2. TLSBackendHTTPResponse(req, Options, LeakStore)
        = IF IsLinux(Options) /\ resp # NoReply THEN resp ELSE iisHTTPResponse(req)
  BY DEF TLSBackendHTTPResponse
<1>3. prof.family = "linux" => IsLinux(Options) /\ os = prof.os
  <2> SUFFICES ASSUME prof.family = "linux" PROVE IsLinux(Options) /\ os = prof.os
    OBVIOUS
  <2>0. NoProfile.family = "nil"
    BY DEF NoProfile
  <2>1. prof # NoProfile
    BY <2>0
  <2>2. PICK o : o = Options
    OBVIOUS
  <2>3. {"os_family", "os_name"} \subseteq DOMAIN o /\ o["os_family"] = prof.family /\ o["os_name"] = prof.os
    BY <2>1, <2>2 DEF Options, SetProfileOptions
  <2> QED
    BY <2>2, <2>3 DEF IsLinux, Option
<1>4. IsLinux(Options) => prof.family = "linux"
  <2>1. PICK o : o = Options
    OBVIOUS
  <2>2. "os_family" \in DOMAIN o => o["os_family"] = prof.family
    BY <2>1 DEF Options, SetProfileOptions
  <2> QED
    BY <2>1, <2>2 DEF IsLinux, Option
<1>5. ASSUME prof.family = "linux"
      PROVE  resp # NoReply /\ Shows(file, prof)
  <2>1. PICK m \in {"GET", "HEAD"} : m = IF method = "HEAD" THEN "HEAD" ELSE "GET"
    OBVIOUS
  <2>2. PICK p \in {"/", "/other"} : p = IF path \in {"/", "/index.html"} THEN "/" ELSE "/other"
    OBVIOUS
  <2>3. file = linuxHTTPResponseFile(m, p, prof.os)
    BY <1>1, <1>3, <1>5, <2>1, <2>2 DEF linuxHTTPResponseFile
  <2>4. file \in DOMAIN Files /\ Files[file].http /\ Files[file].head > 0 /\ Shows(file, prof)
    BY <1>5, <2>3, PagesAssumption
  <2> HIDE DEF file
  <2>5. resp.http
    <3>1. PICK f : f = Files[file] /\ f \in Response
      BY <2>4, FilesAssumption
    <3>2. PICK r : r = applyServerHeader(fixHTTPContentLength(applyLeak(f, LeakStore)), Options)
      OBVIOUS
    <3>3. r.http /\ r.head \in Nat /\ r.head > 0 /\ r.body \in Nat
      <4>1. PICK g : g = applyLeak(f, LeakStore)
        OBVIOUS
      <4>2. g.http /\ g.head = f.head /\ g.body \in Nat
            /\ g \in Response
        <5>1. CASE f.leak \in DOMAIN LeakStore
          <6>1. PICK k \in Nat : k = LeakStore[f.leak]
            BY <5>1, LeakAssumption
          <6>2. g = [f EXCEPT !.body = @ + k]
            BY <4>1, <5>1, <6>1 DEF applyLeak
          <6> QED
            BY <2>4, <3>1, <6>1, <6>2 DEF Response
        <5>2. CASE f.leak \notin DOMAIN LeakStore
          BY <2>4, <3>1, <4>1, <5>2 DEF applyLeak, Response
        <5> QED
          BY <5>1, <5>2
      <4>3. PICK h : h = fixHTTPContentLength(g)
        OBVIOUS
      <4>4. h.http /\ h.head = f.head /\ h.body \in Nat
            /\ h \in Response
        BY <4>2, <4>3 DEF fixHTTPContentLength, Response
      <4>5. PICK brand : brand = serverStringFor(Option(Options, "os_name"))
        OBVIOUS
      <4>6. r \in {h, [h EXCEPT !.server = brand]}
        BY <3>2, <4>1, <4>3, <4>5 DEF applyServerHeader
      <4> QED
        BY <2>4, <3>1, <4>4, <4>6 DEF Response
    <3>4. \A i \in DOMAIN HttpDate : applyRule(r, HttpDate[i], LeakStore)
      <4>1. DOMAIN HttpDate = {1} /\ HttpDate[1] = [type |-> "http_date", offset |-> 0, length |-> 0, token |-> ""]
        BY DEF HttpDate
      <4>2. 0 < r.head + r.body /\ 0 + 0 <= r.head + r.body
        BY <3>3
      <4>3. applyRule(r, [type |-> "http_date", offset |-> 0, length |-> 0, token |-> ""], LeakStore)
        BY <4>2 DEF applyRule, SlotWidth, OtherRules
      <4> QED
        BY <4>1, <4>3
    <3>5. resp = r
      BY <2>4, <3>1, <3>2, <3>4 DEF GetResponse
    <3> QED
      BY <3>3, <3>5
  <2>6. ~NoReply.http
    BY DEF NoReply
  <2> QED
    BY <2>4, <2>5, <2>6 DEF file
<1>6. ASSUME prof.family # "linux" PROVE Fits(iisHTTPResponse(req), n, prof)
  <2>1. PICK k : k = IF parseHTTPPath(req) \in {"/", "/index.html", "/iisstart.png"} THEN 130 ELSE 290
    OBVIOUS
  <2>2. PICK r : r = iisHTTPResponse(req)
    OBVIOUS
  <2>3. r.clen = r.body /\ r.page = "iis" /\ r.server = "iis"
    <3>1. r = [http |-> TRUE, page |-> "iis", server |-> "iis", clen |-> k, head |-> 150,
               body |-> k, leak |-> ""]
      BY <2>1, <2>2 DEF iisHTTPResponse
    <3> QED
      BY ONLY <3>1
  <2>4. Make(setup.profile) = "iis"
    BY <1>6 DEF Make
  <2>5. Fits(r, n, prof)
    BY <2>3, <2>4 DEF Fits
  <2> QED
    BY <2>2, <2>5
<1> HIDE DEF file, os
<1>7. prof.family = "linux" => Fits(resp, n, prof)
  BY <1>5, FileFits
<1> QED
  BY <1>2, <1>3, <1>4, <1>5, <1>6, <1>7

\* Every connection of a service has been answered so, and one that is on no
\* port is over and has no reply.
PageInv ==
    \A c \in Slots :
        /\ conns[c].port = 0 => conns[c].ph \in {"free", "stray"} /\ conns[c].out = NoReply
        /\ \A n \in ToSet(plan) : conns[c].port \in Ports(n) => Fits(conns[c].out, n, setup.profile)

LEMMA ServiceFacts ==
  ASSUME IInv, NEW c \in Slots, conns[c].port # 0
  PROVE  /\ Service(c) \in ToSet(plan) /\ conns[c].port \in Ports(Service(c))
         /\ \A n \in ToSet(plan) : conns[c].port \in Ports(n) => n = Service(c)
         /\ Service(c) \in {"http", "https"} => Service(c) \in DOMAIN Manifests
<1>1. conns[c].port \in AllPorts
  BY DEF IInv, PortsInv
<1>2. PICK n \in ToSet(plan) : conns[c].port \in Ports(n)
  BY <1>1 DEF AllPorts
<1>3. Service(c) \in ToSet(plan) /\ conns[c].port \in Ports(Service(c))
  BY <1>2 DEF Service, Owner
<1>4. \A m, k \in ToSet(plan) : m # k => Ports(m) \cap Ports(k) = {}
  BY DEF IInv, PlanInv
<1>5. Service(c) \in Services
  BY <1>3, PlanFacts DEF IInv
<1> QED
  BY <1>3, <1>4, <1>5, HoneypotNames DEF Services

LEMMA PageStep ==
  ASSUME IInv, PageInv, setup \in Setups, NEW c \in Slots, Client(c) \/ Server(c)
  PROVE  PageInv'
<1> DEFINE Good(k) == /\ k.port = 0 => k.ph \in {"free", "stray"} /\ k.out = NoReply
                      /\ \A n \in ToSet(plan) : k.port \in Ports(n) => Fits(k.out, n, setup.profile)
           Goal == PageInv'
<1>0. PICK p, ph, out : p = conns[c].port /\ ph = conns[c].ph /\ out = conns[c].out
  OBVIOUS
<1>1. /\ open \subseteq AllPorts /\ DOMAIN conns = Slots /\ setup' = setup
      /\ ToSet(plan)' = ToSet(plan) /\ \A n : Ports(n)' = Ports(n)
  BY ConnStep, PlanStays DEF IInv, PortsInv
<1>2. \A d \in Slots : Good(conns[d])
  BY DEF PageInv
<1>3. ASSUME NEW k, conns' = [conns EXCEPT ![c] = k], Good(k) PROVE Goal
  <2>1. \A d \in Slots : Good(conns'[d])
    BY <1>1, <1>2, <1>3
  <2> QED
    BY <1>1, <2>1 DEF PageInv
<1>4. ASSUME NEW q, NEW r, NEW s, p # 0, Become(c, q, r, s),
             \A n \in ToSet(plan) : p \in Ports(n) => Fits(r, n, setup.profile)
      PROVE  Goal
  <2>1. PICK k : k = [port |-> p, ph |-> q, out |-> r, s |-> s]
    OBVIOUS
  <2>2. k.port = p /\ k.out = r
    BY <2>1
  <2>3. conns' = [conns EXCEPT ![c] = k]
    BY <1>0, <1>4, <2>1 DEF Become
  <2>4. Good(k)
    BY <1>4, <2>2
  <2> HIDE DEF Good, Goal
  <2> QED
    BY <1>3, <2>3, <2>4
<1>5. ASSUME NEW q, p # 0, Move(c, q) PROVE Goal
  <2>1. \A n \in ToSet(plan) : p \in Ports(n) => Fits(out, n, setup.profile)
    BY <1>0, <1>2
  <2> HIDE DEF Goal
  <2> QED
    BY <1>0, <1>4, <1>5, <2>1 DEF Move
<1>6. ASSUME NEW q, NEW s, p # 0, Become(c, q, NoReply, s) PROVE Goal
  BY <1>4, <1>6, NothingFits
<1>7. p = 0 => ph \in {"free", "stray"}
  BY <1>0, <1>2
<1> HIDE DEF Goal
<1>8. ASSUME NEW port, port \in open, Accept(c, port) PROVE Goal
  <2>1. PICK k : k = [port |-> port, ph |-> FirstPhase(Owner(port), port), out |-> NoReply,
                      s |-> FirstSession(Owner(port))]
    OBVIOUS
  <2>2. k.port = port /\ k.out = NoReply
    BY <2>1
  <2>3. port # 0
    <3>1. PICK n \in ToSet(plan) : port \in Ports(n)
      BY <1>1, <1>8 DEF AllPorts
    <3>2. n \in Services
      BY PlanFacts DEF IInv
    <3> QED
      BY <3>1, <3>2, PortsFacts
  <2>4. conns' = [conns EXCEPT ![c] = k]
    BY <1>8, <2>1 DEF Accept
  <2>5. Good(k)
    BY <2>2, <2>3, NothingFits
  <2> HIDE DEF Good
  <2> QED
    BY <1>3, <2>4, <2>5
<1>9. ASSUME Close(c) \/ SessionLeft(c) PROVE Goal
  <2>1. PICK k : (k = Free \/ k = [Free EXCEPT !.ph = "stray"]) /\ conns' = [conns EXCEPT ![c] = k]
    BY <1>9 DEF Close, SessionLeft
  <2>2. k.port = 0 /\ k.ph \in {"free", "stray"} /\ k.out = NoReply
    BY <2>1 DEF Free
  <2>3. Good(k)
    BY <2>2, NothingFits
  <2> HIDE DEF Good
  <2> QED
    BY <1>3, <2>1, <2>3
\* The answers to what a client of a template sends.
<1>10. p # 0 => \A n \in ToSet(plan) : p \in Ports(n) => n = Service(c)
  BY <1>0, ServiceFacts
<1>11. ASSUME NEW data, p # 0, NEW rules
       PROVE  /\ Fits(Answer(Matched(c, data), Options, LeakStore), Service(c), setup.profile)
              /\ Fits(GetResponse(Manifest(c).default, rules, Options, LeakStore), Service(c), setup.profile)
  <2> DEFINE web == setup.profile.family \in {"windows", "linux", "nil"} /\ Service(c) \in {"http", "https"}
  <2>1. web => Shows(Manifest(c).default, setup.profile)
    BY <1>0, <1>11, ServiceFacts, PagesAssumption DEF Manifest
  <2>2. Fits(GetResponse(Manifest(c).default, rules, Options, LeakStore), Service(c), setup.profile)
    BY <2>1, FileFits
  <2>3. PICK probe : probe = Matched(c, data)
    OBVIOUS
  <2>4. web => probe = NoProbe \/ Shows(probe.file, setup.profile)
    BY <1>0, <1>11, <2>3, ServiceFacts, MatchedShows DEF Manifest, Matched
  <2>5. CASE probe = NoProbe
    BY <2>2, <2>3, <2>5, NothingFits DEF Answer
  <2>6. CASE probe # NoProbe
    <3>1. Fits(GetResponse(probe.file, probe.rules, Options, LeakStore), Service(c), setup.profile)
      BY <2>4, <2>6, FileFits
    <3> QED
      BY <2>2, <2>3, <2>6, <3>1 DEF Answer
  <2> QED
    BY <2>5, <2>6
<1>12. ASSUME Greet(c) PROVE Goal
  <2>1. p # 0
    BY <1>0, <1>7, <1>12 DEF Greet, At
  <2>2. PICK r, a : a = Answer(Matched(c, <<>>), Options, LeakStore) /\ r \in {a, NoReply}
                    /\ Become(c, "first", r, NoSession)
    BY <1>12 DEF Greet
  <2>3. Fits(r, Service(c), setup.profile)
    BY <1>11, <2>1, <2>2, NothingFits
  <2> QED
    BY <1>4, <1>10, <2>1, <2>2, <2>3
<1>13. ASSUME NEW d, Probe(c, d) PROVE Goal
  <2>1. p # 0
    BY <1>0, <1>7, <1>13 DEF Probe, At
  <2>2. PICK r, a, b, q : /\ a = Answer(Matched(c, d), Options, LeakStore)
                          /\ b = GetResponse(Manifest(c).default, <<>>, Options, LeakStore)
                          /\ r \in {a, b} /\ Become(c, q, r, NoSession)
    BY <1>13 DEF Probe
  <2>3. Fits(r, Service(c), setup.profile)
    BY <1>11, <2>1, <2>2
  <2> QED
    BY <1>4, <1>10, <2>1, <2>2, <2>3
<1>14. ASSUME NEW d, Backend(c, d) PROVE Goal
  <2>1. p # 0
    BY <1>0, <1>7, <1>14 DEF Backend, At
  <2>2. Fits(TLSBackendHTTPResponse(d, Options, LeakStore), Service(c), setup.profile)
    BY BackendFits
  <2> QED
    BY <1>4, <1>10, <1>14, <2>1, <2>2 DEF Backend
\* The rest keeps the reply or has none.
<1>15. ASSUME ph \notin {"free", "stray"},
              (\E q : Move(c, q)) \/ (\E q, s : Become(c, q, NoReply, s))
       PROVE  Goal
  BY <1>5, <1>6, <1>7, <1>15
<1>16. ASSUME NEW b, Frame(c, b) \/ RpcRequest(c, b) PROVE Goal
  BY <1>0, <1>15, <1>16 DEF Frame, RpcRequest, At
<1>17. ASSUME Handshake(c) \/ ReadFails(c) \/ NextRound(c) \/ ControlClosed(c) \/ Transferred(c) PROVE Goal
  BY <1>0, <1>15, <1>17 DEF Handshake, ReadFails, NextRound, ControlClosed, Transferred, At, Timed
<1>18. ASSUME WriteDeadlinePasses(c) \/ DataAccepted(c) \/ NoDataConnection(c) \/ Channel(c) PROVE Goal
  BY <1>0, <1>15, <1>18 DEF WriteDeadlinePasses, DataAccepted, NoDataConnection, Channel, At
<1>19. ASSUME NEW pdu, TsRequest(c, pdu) PROVE Goal
  BY <1>0, <1>15, <1>19 DEF TsRequest, At
<1>20. ASSUME NEW cmd, FtpCommand(c, cmd) PROVE Goal
  BY <1>0, <1>15, <1>20 DEF FtpCommand, At
<1>21. ASSUME NEW l, SshLogin(c, l) PROVE Goal
  BY <1>0, <1>15, <1>21 DEF SshLogin, At
<1>22. ASSUME NEW a, Cd(c, a) PROVE Goal
  BY <1>0, <1>15, <1>22 DEF Cd, At
<1>23. ASSUME NEW d, Hello(c, d) PROVE Goal
  BY <1>0, <1>15, <1>23 DEF Hello, At
<1>24. ASSUME Client(c) PROVE Goal
  BY <1>8, <1>9, <1>13, <1>14, <1>16, <1>17, <1>18, <1>19, <1>20, <1>21, <1>22, <1>23, <1>24 DEF Client
<1>25. ASSUME Server(c) PROVE Goal
  BY <1>9, <1>12, <1>14, <1>17, <1>18, <1>25 DEF Server
<1> QED
  BY <1>24, <1>25 DEF Goal

\* PagesAgree, for every manifest and page store laid out as services/ is and
\* whatever clients send: an HTTP reply declares the length it has, and on
\* port 80 as behind TLS its page and its Server header are of the profile's
\* make.
THEOREM OneIdentity == Spec => []PagesAgree
<1>1. Init => PageInv /\ setup \in Setups
  <2> SUFFICES ASSUME Init PROVE PageInv /\ setup \in Setups
    OBVIOUS
  <2>1. setup \in Setups /\ conns = [c \in Slots |-> Free]
    BY DEF Init
  <2>2. Free.port = 0 /\ Free.ph = "free" /\ Free.out = NoReply
    BY DEF Free
  <2> QED
    BY <2>1, <2>2, NothingFits DEF PageInv
<1>2. IInv /\ PageInv /\ setup \in Setups /\ [Next]_vars => PageInv' /\ (setup \in Setups)'
  <2> SUFFICES ASSUME IInv, PageInv, setup \in Setups, [Next]_vars PROVE PageInv' /\ (setup \in Setups)'
    OBVIOUS
  <2>1. UNCHANGED <<setup, plan>>
    BY ConfigurationStays
  <2>2. ASSUME UNCHANGED conns PROVE PageInv'
    <3>1. ToSet(plan)' = ToSet(plan) /\ setup' = setup /\ \A n : Ports(n)' = Ports(n)
      BY <2>1, PlanStays
    <3> QED
      BY <2>2, <3>1 DEF PageInv
  <2>3. Goroutine => UNCHANGED conns
    BY DEF Goroutine, Spawn, Listen, ListenFails, Fail, BeginStop, PoolDrained, StopReturns, AllStopped
  <2>4. Shutdown \/ (\E p \in loops : LoopEnds(p)) \/ UNCHANGED vars => UNCHANGED conns
    BY DEF Shutdown, LoopEnds, vars
  <2> QED
    BY <2>1, <2>2, <2>3, <2>4, PageStep DEF Next
<1>3. IInv /\ PageInv => PagesAgree
  <2> SUFFICES ASSUME IInv, PageInv, NEW c \in Slots
               PROVE  Fits(conns[c].out, Service(c), setup.profile)
    BY DEF PagesAgree, Fits
  <2>1. CASE conns[c].port = 0
    <3>1. conns[c].out = NoReply
      BY <2>1 DEF PageInv
    <3> QED
      BY <3>1, NothingFits
  <2>2. CASE conns[c].port # 0
    BY <2>2, ServiceFacts DEF PageInv
  <2> QED
    BY <2>1, <2>2
<1> QED
  BY <1>1, <1>2, <1>3, Invariance, PTL DEF Spec
=============================================================================
