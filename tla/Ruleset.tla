------------------------------- MODULE Ruleset -------------------------------
(***************************************************************************)
(* The nftables table inet mimic_reject (internal/services/closed.go and   *)
(* firewall.go) as runMimic builds it at startup: closed-port RST rules,   *)
(* T2/T3 probe rules, the default-drop firewall and the ICMP drop, in that *)
(* order, one nft process per command.  The three managers share the one   *)
(* table; deleting it is the only way any of them removes its rules.       *)
(* Every command may fail, the deletes included (nobody looks at their     *)
(* error), and an operator may run "mimic stop", which deletes the table   *)
(* too, between any two of them.  The process that drives these steps is   *)
(* module Lifecycle.                                                       *)
(***************************************************************************)
EXTENDS Naturals, Sequences, SequencesExt, FiniteSets

CONSTANTS
    Ports,          \* TCP ports of the instance
    ClosedPorts,    \* closed_ports, a sequence
    OpenPorts, PreservePorts,   \* firewall.open_ports, firewall.preserve_ports
    ServedPorts,    \* config.ServiceListenPorts of the resolved services
    WindowsFamily,  \* profile.Family is windows
    Workstation,    \* profile.ResolvedEdition() is workstation
    Behavior,       \* firewall.closed_port_behavior
    NftFails,       \* nft commands may fail
    MaxStops        \* bound: how often the operator runs "mimic stop"

ASSUME RulesetAssumption ==
    /\ ClosedPorts \in Seq(Ports)
    /\ OpenPorts \subseteq Ports /\ PreservePorts \subseteq Ports /\ ServedPorts \subseteq Ports
    /\ WindowsFamily \in BOOLEAN /\ Workstation \in BOOLEAN /\ NftFails \in BOOLEAN
    /\ Behavior \in {"", "reset", "drop", "filtered"}
    /\ MaxStops \in Nat

VARIABLES
    table,    \* mimic_reject in the kernel: "absent", "table" or with its "chain"
    rules,    \* the rules of its input chain, in order
    stage,    \* which manager runMimic is setting up
    todo,     \* nft commands that manager has yet to run
    mgr,      \* closedMgr, probeMgr, fwMgr: not nil
    active,   \* ProbeResponseManager.active, FirewallManager.active
    stops,    \* how often "mimic stop" ran
    dropFailed, \* history: an nft command of EnableDrop failed
    undeleted   \* history: the latest delete of the table by a manager failed,
                \* and nobody has deleted it since

ruleset == <<table, rules, stage, todo, mgr, active, stops, dropFailed, undeleted>>

-----------------------------------------------------------------------------
(* Rules and what they do to a packet.                                     *)

Rule(k, P) == [kind |-> k, ports |-> P]
Kinds == {"closed", "t2", "t3", "established", "loopback", "allow", "drop", "icmp"}

\* Inbound packets, by what the rules look at.
Packets == [proto : {"tcp"}, port : Ports, ct : {"new", "established"},
            lo : BOOLEAN, flags : {"ordinary", "t2", "t3"}]
             \cup [proto : {"echo"}, ct : {"new"}, lo : BOOLEAN]

Matches(r, k) ==
    \/ r.kind \in {"closed", "allow"} /\ k.proto = "tcp" /\ k.port \in r.ports
    \/ r.kind \in {"t2", "t3"} /\ k.proto = "tcp" /\ k.flags = r.kind
    \/ r.kind = "established" /\ k.ct = "established"
    \/ r.kind = "loopback" /\ k.lo
    \/ r.kind = "drop" /\ k.proto = "tcp"
    \/ r.kind = "icmp" /\ k.proto = "echo"

Target(r) == CASE r.kind \in {"closed", "t2", "t3"} -> "reset"
               [] r.kind \in {"established", "loopback", "allow"} -> "accept"
               [] r.kind \in {"drop", "icmp"} -> "drop"

\* The first rule that matches decides; the chain's policy is accept.
Verdict(k) ==
    LET hits == {i \in DOMAIN rules : Matches(rules[i], k)}
    IN  IF hits = {} THEN "accept" ELSE Target(rules[Min(hits)])

-----------------------------------------------------------------------------
(* The nft commands of each manager.                                       *)

EnsureTable == <<[do |-> "table"], [do |-> "chain"]>>
Add(k, P) == [do |-> "rule", rule |-> Rule(k, P)]

autoDrop == Workstation /\ Behavior # "reset"
dropMode == Behavior \in {"drop", "filtered"} \/ autoDrop

\* mergePorts(openPorts, preservePorts); served ports only join under autoDrop.
Allow == OpenPorts \cup PreservePorts \cup (IF autoDrop THEN ServedPorts ELSE {})

\* FirewallManager.EnableDrop: the drop goes in last, and the allow-list only
\* when it is not empty.
\* Mutant: the drop goes in before the allow-list.
DropEarly == EnsureTable \o <<Add("established", {}), Add("drop", {}), Add("loopback", {}),
                              Add("allow", Allow)>>
EnableDrop == EnsureTable
                \o <<Add("established", {}), Add("loopback", {})>>
                \o (IF Allow # {} THEN <<Add("allow", Allow)>> ELSE <<>>)
                \o <<Add("drop", {})>>

\* AddPorts: every AddPort ensures the table before its rule.
AddPorts == [n \in 1 .. 3 * Len(ClosedPorts) |->
               CASE n % 3 = 1 -> EnsureTable[1]
                 [] n % 3 = 2 -> EnsureTable[2]
                 [] OTHER     -> Add("closed", {ClosedPorts[n \div 3]})]

\* ProbeResponseManager.Start.
StartProbes == EnsureTable \o <<Add("t2", {}), Add("t3", {})>>

EnableICMPDrop == EnsureTable \o <<Add("icmp", {})>>

\* Mutant: runMimic sets up the firewall first.
FirewallFirst == <<"drop", "closed", "probe", "icmp">>
StageOrder == <<"closed", "probe", "drop", "icmp">>

Configured(s) == CASE s = "closed" -> ClosedPorts # <<>>
                   [] s = "probe"  -> WindowsFamily
                   [] s = "drop"   -> dropMode
                   [] s = "icmp"   -> autoDrop

Program(s) == CASE s = "closed" -> AddPorts
                [] s = "probe"  -> StartProbes
                [] s = "drop"   -> EnableDrop
                [] s = "icmp"   -> EnableICMPDrop
                [] s = "up"     -> <<>>

\* The first stage behind position i that is configured.
StageAfter(i) == LET next == {j \in DOMAIN StageOrder : j > i /\ Configured(StageOrder[j])}
                 IN  IF next = {} THEN "up" ELSE StageOrder[Min(next)]
FirstStage == StageAfter(0)
NextStage(s) == StageAfter(CHOOSE i \in DOMAIN StageOrder : StageOrder[i] = s)

\* The manager a stage sets up; the ICMP drop makes a firewall manager of its
\* own when the default-drop left none.
Manager(s) == CASE s = "closed" -> "closed" [] s = "probe" -> "probe" [] OTHER -> "fw"

-----------------------------------------------------------------------------
RulesetInit ==
    /\ table = "absent" /\ rules = <<>>      \* teardownStack ran just before
    /\ stage = FirstStage
    /\ todo = Program(FirstStage)
    /\ mgr = [m \in {"closed", "probe", "fw"} |-> m = Manager(FirstStage) /\ stage # "up"]
    /\ active = [m \in {"probe", "fw"} |-> FALSE]
    /\ stops = 0 /\ dropFailed = FALSE /\ undeleted = FALSE

\* On to the next manager.  keep: the one just set up is not nil.
Leave(keep) ==
    LET n == NextStage(stage) IN
    /\ stage' = n
    /\ todo' = Program(n)
    /\ mgr' = [m \in DOMAIN mgr |->
                 \/ m = Manager(stage) /\ keep
                 \/ m # Manager(stage) /\ mgr[m]
                 \/ n # "up" /\ m = Manager(n)]

Possible(c) == CASE c.do = "table" -> TRUE
                 [] c.do = "chain" -> table # "absent"
                 [] c.do = "rule"  -> table = "chain"

\* The next nft command succeeds; after the last one EnableDrop and the probe
\* manager mark themselves active, EnableICMPDrop does not.
Command ==
    /\ stage # "up"
    /\ LET c == Head(todo) IN
         /\ Possible(c)
         /\ table' = CASE c.do = "table" -> IF table = "absent" THEN "table" ELSE table
                       [] OTHER -> "chain"
         /\ rules' = IF c.do = "rule" THEN Append(rules, c.rule) ELSE rules
    /\ IF Len(todo) > 1
       THEN todo' = Tail(todo) /\ UNCHANGED <<stage, mgr, active>>
       ELSE /\ Leave(TRUE)
            /\ active' = [m \in DOMAIN active |->
                            active[m] \/ (stage \in {"probe", "drop"} /\ m = Manager(stage))]
    /\ UNCHANGED <<stops, dropFailed, undeleted>>

TableGone == table' = "absent" /\ rules' = <<>> /\ undeleted' = FALSE

\* nftDeleteTable runs one nft process and discards its error: when that fails,
\* the table stays and the caller goes on as if it were gone.
DeleteTable == \/ TableGone
               \/ NftFails /\ undeleted' = (rules # <<>>) /\ UNCHANGED <<table, rules>>

\* The next nft command fails.  AddPorts deletes the table; a probe rule that
\* fails is only logged; the rest gives up, leaving behind what it added, and
\* runMimic drops the manager (for the ICMP drop it keeps it).
CommandFails ==
    /\ stage # "up"
    /\ NftFails \/ ~Possible(Head(todo))
    /\ dropFailed' = (dropFailed \/ stage = "drop")
    /\ IF stage = "closed" THEN DeleteTable ELSE UNCHANGED <<table, rules, undeleted>>
    /\ IF stage = "probe" /\ Head(todo).do = "rule"
       THEN IF Len(todo) > 1
            THEN todo' = Tail(todo) /\ UNCHANGED <<stage, mgr, active>>
            ELSE Leave(TRUE) /\ active' = [active EXCEPT !["probe"] = TRUE]
       ELSE Leave(stage = "icmp") /\ UNCHANGED active
    /\ UNCHANGED stops

\* The Stop methods; closed always deletes, the other two only when active, and
\* then they are inactive, whether or not the delete succeeded.
RunStop(m) == IF m # "closed" /\ ~active[m] THEN UNCHANGED <<table, rules, undeleted, active>>
              ELSE DeleteTable /\ active' = [a \in DOMAIN active |-> active[a] /\ a # m]
StopManager(m) ==
    /\ IF mgr[m] THEN RunStop(m) ELSE UNCHANGED <<table, rules, undeleted, active>>
    /\ UNCHANGED <<stage, todo, mgr, stops, dropFailed>>

\* Somebody runs "mimic stop" from another terminal: the nft half of
\* teardownStack, whose delete may fail as well.
OperatorStop ==
    /\ stops < MaxStops
    /\ stops' = stops + 1
    /\ TableGone \/ (NftFails /\ UNCHANGED <<table, rules, undeleted>>)
    /\ UNCHANGED <<stage, todo, mgr, active, dropFailed>>

-----------------------------------------------------------------------------
\* Types of the state; no rules without a chain.
RulesetTypeOK ==
    /\ table \in {"absent", "table", "chain"}
    /\ table # "chain" => rules = <<>>
    /\ \A i \in DOMAIN rules : rules[i].kind \in Kinds /\ rules[i].ports \subseteq Ports
    /\ stage \in {"closed", "probe", "drop", "icmp", "up"}
    /\ (todo = <<>>) = (stage = "up")
    /\ mgr \in [{"closed", "probe", "fw"} -> BOOLEAN]
    /\ active \in [{"probe", "fw"} -> BOOLEAN]
    /\ stops \in 0 .. MaxStops /\ dropFailed \in BOOLEAN /\ undeleted \in BOOLEAN

Closed == ToSet(ClosedPorts)

\* Applying the policy never severs a live session or cuts off a port that
\* must answer: whichever commands ran, failed or were undone so far, an
\* established connection, loopback and a new login to an allowed port are
\* accepted, except on ports the operator also listed as closed.
SessionsSurvive ==
    \A k \in Packets :
        k.proto = "tcp" /\ k.flags = "ordinary" /\ k.port \notin Closed =>
            (k.ct = "established" \/ k.lo \/ k.port \in Allow => Verdict(k) = "accept")

\* The terminal RST rules match first: no accept or drop rule that stands
\* before one shadows it.
ResetsNotShadowed ==
    \A i \in DOMAIN rules :
        /\ Target(rules[i]) = "reset"
        /\ \E j \in 1 .. i - 1 : Target(rules[j]) # "reset"
        => \A k \in Packets : Matches(rules[i], k) => Verdict(k) = "reset"
=============================================================================
