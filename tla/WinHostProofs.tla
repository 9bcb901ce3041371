--------------------------- MODULE WinHostProofs ---------------------------
(***************************************************************************)
(* Proofs about WinHost: what is left on the host when "mimic run" returns,*)
(* what a scanner is shown and what the host's own traffic meets until     *)
(* then, for every configuration, whatever traffic arrives meanwhile.      *)
(*                                                                         *)
(* Three arguments meet in it.  Every start step installs something of its *)
(* own responder (StepsAreOwn), so what is open belongs to responders that *)
(* were started; the deferred stops go through all of them, and behind the *)
(* place of the main goroutine nothing of a kept responder is left         *)
(* (StoppedSoFar); and the stack goroutine, which main joins first, has    *)
(* closed its handle, disarmed the driver and seen the end of a watchdog   *)
(* the backend knew (StackHolds, WatchdogKnown).                           *)
(*                                                                         *)
(* While it runs: what the backend's tables say of a connection was true   *)
(* of the SYN they were filled from (Recorded), and every block of the     *)
(* egress path keeps the options of the template in the places the persona *)
(* has them, so each of the four outcomes of an outbound segment shows the *)
(* persona (EgressPersona).  What the responders take from the queue is    *)
(* what their filters name, and LegitPasses says that this is not the      *)
(* host's own business (Carried, NoneLostStep).                            *)
(***************************************************************************)
EXTENDS WinHost, FiniteSetTheorems, SequenceTheorems, TLAPS

Responders == {"fw", "closed", "probes", "icmp"}
\* Steps that install something of their own responder, for a persona that has
\* it.
Filters == setup.behavior = "drop" \/ autoDrop
Names == UNION {Handles[w] \cup Rules[w] : w \in Responders}
StepSet == {s \in [who : Responders, name : Names, needed : BOOLEAN] :
                /\ s.name \in Handles[s.who] \cup Rules[s.who]
                /\ (s.who = "fw" => Filters) /\ (s.who = "probes" => IsLinux)}

\* The responders that main starts, or tries to.
Begun == {Steps[i].who : i \in DOMAIN Steps}

\* What is there belongs to responders that main starts, or to the stack.
BelongsToBegun ==
    /\ \A h \in open \cup loops : h = "stack" \/ \E w \in Begun : h \in Handles[w]
    /\ \A r \in rules : \E w \in Begun : r \in Rules[w]
    /\ broken \subseteq Responders

\* The place of the main goroutine.
Places ==
    /\ pc \in {"start", "run", "stop", "wait", "exited"} /\ step \in Nat \ {0}
    /\ DOMAIN setup = SetupFields
    /\ pc = "start" <=> stk = "none"
    /\ pc \in {"stop", "wait", "exited"} => stk = "done"
    /\ pc = "wait" => step \in 1 .. 4 /\ StopOrder[step] \in Owned
    /\ pc = "exited" => step > 4

\* Behind that place nothing of a kept responder is left.
StoppedSoFar ==
    pc \in {"stop", "wait", "exited"} =>
        \A j \in 1 .. 4 : j < step /\ StopOrder[j] \in Owned =>
            /\ (open \cup loops) \cap Handles[StopOrder[j]] = {}
            /\ rules \cap Rules[StopOrder[j]] \subseteq kept

\* The stack goroutine's handle, loop and driver, by its place.
StackHolds ==
    /\ stk \in {"none", "load", "enable", "arm", "wait", "disarm", "locked", "stopwd", "joinwd",
                "close", "join", "done"}
    /\ stk \in {"none", "load"} => "stack" \notin open \cup loops
    /\ stk \in {"join", "done"} => "stack" \notin open
    /\ stk = "done" => "stack" \notin loops
    /\ stk \in {"none", "load", "enable", "arm", "stopwd", "joinwd", "close", "join", "done"} => ~armed

\* A watchdog that may still act is one the backend knows or waits for.
WatchdogKnown ==
    /\ wd \in [st : {"none", "run", "trip", "tripped", "gone"}, fails : Nat, stop : BOOLEAN]
    /\ {armed, hifiWd} \subseteq BOOLEAN
    /\ wd.st \in {"run", "trip"} => hifiWd \/ stk \in {"stopwd", "joinwd"}
    /\ stk \in {"none", "load", "enable", "arm", "close", "join", "done"} => wd.st \notin {"run", "trip"}
    /\ stk \notin {"wait", "disarm", "locked"} => ~hifiWd

\* The inductive invariant.
IInv == BelongsToBegun /\ Places /\ StoppedSoFar /\ StackHolds /\ WatchdogKnown
-----------------------------------------------------------------------------
(* The steps of the start.                                                 *)

\* Every step installs a handle or a rule of its own responder.
LEMMA StepsAreOwn == Steps \in Seq(StepSet)
<1>1. /\ Filters => Step("fw", "drop", TRUE) \in StepSet /\ Step("fw", "icmpdrop", FALSE) \in StepSet
      /\ Step("closed", "closed", TRUE) \in StepSet /\ Step("closed", "rst", TRUE) \in StepSet
      /\ IsLinux => /\ Step("probes", "t46", TRUE) \in StepSet /\ Step("probes", "t7", TRUE) \in StepSet
                    /\ Step("probes", "t23", TRUE) \in StepSet
      /\ Step("icmp", "udpany", TRUE) \in StepSet /\ Step("icmp", "icmpout", TRUE) \in StepSet
      /\ Step("icmp", "wfp", FALSE) \in StepSet /\ Step("icmp", "echo", TRUE) \in StepSet
      /\ Step("icmp", "tstamp", TRUE) \in StepSet /\ Step("icmp", "u1", TRUE) \in StepSet
      /\ Step("icmp", "sig", FALSE) \in StepSet
  <2>1. ASSUME NEW w \in Responders, NEW n \in Handles[w] \cup Rules[w], w = "fw" => Filters, w = "probes" => IsLinux
        PROVE  Step(w, n, TRUE) \in StepSet /\ Step(w, n, FALSE) \in StepSet
    <3>1. n \in Names
      BY DEF Names
    <3>2. \A b \in BOOLEAN : /\ Step(w, n, b) \in [who : Responders, name : Names, needed : BOOLEAN]
                             /\ Step(w, n, b).name = n /\ Step(w, n, b).who = w
      BY <3>1, Zenon DEF Step
    <3> HIDE DEF Step
    <3>3. \A b \in BOOLEAN : Step(w, n, b) \in StepSet
      BY <2>1, <3>2, Zenon DEF StepSet
    <3> QED
      BY <3>3, Zenon
  <2>2. /\ Handles["fw"] \cup Rules["fw"] = {"drop", "icmpdrop"}
        /\ Handles["closed"] \cup Rules["closed"] = {"closed", "rst"}
        /\ Handles["probes"] \cup Rules["probes"] = {"t46", "t7", "t23"}
        /\ Handles["icmp"] \cup Rules["icmp"] = {"udpany", "icmpout", "wfp", "echo", "tstamp", "u1", "sig"}
    BY DEF Handles, Rules
  <2>3. \A w \in {"fw", "closed", "probes", "icmp"} : w \in Responders
    BY DEF Responders
  <2> HIDE DEF StepSet
  <2>4. /\ \A n \in Handles["closed"] \cup Rules["closed"] :
             Step("closed", n, TRUE) \in StepSet /\ Step("closed", n, FALSE) \in StepSet
        /\ \A n \in Handles["icmp"] \cup Rules["icmp"] :
             Step("icmp", n, TRUE) \in StepSet /\ Step("icmp", n, FALSE) \in StepSet
    BY <2>1, <2>3, Zenon
  <2>5. /\ Filters => \A n \in Handles["fw"] \cup Rules["fw"] :
             Step("fw", n, TRUE) \in StepSet /\ Step("fw", n, FALSE) \in StepSet
        /\ IsLinux => \A n \in Handles["probes"] \cup Rules["probes"] :
             Step("probes", n, TRUE) \in StepSet /\ Step("probes", n, FALSE) \in StepSet
    BY <2>1, <2>3, Zenon
  <2> QED
    BY <2>2, <2>4, <2>5, Zenon
<1>2. <<>> \in Seq(StepSet)
  BY EmptySeq
<1>3. \A p, s : (p => s \in Seq(StepSet)) => When(p, s) \in Seq(StepSet)
  BY <1>2 DEF When
<1> HIDE DEF StepSet
<1>4. \A s, t \in Seq(StepSet) : s \o t \in Seq(StepSet)
  BY ConcatProperties
<1>5. /\ \A x \in StepSet : <<x>> \in Seq(StepSet)
      /\ \A x, y, z \in StepSet : <<x, y, z>> \in Seq(StepSet)
      /\ \A v, w, x, y, z \in StepSet : <<v, w, x, y, z>> \in Seq(StepSet)
  OBVIOUS
<1>6. FirewallSteps \in Seq(StepSet)
  <2>1. CASE Filters
    <3>1. <<Step("fw", "drop", TRUE)>> \in Seq(StepSet) /\ <<Step("fw", "icmpdrop", FALSE)>> \in Seq(StepSet)
      BY <1>1, <1>5, <2>1, Zenon
    <3> QED
      BY <1>3, <1>4, <3>1, Zenon DEF FirewallSteps
  <2>2. CASE ~Filters
    BY <1>3, <2>2, Zenon DEF FirewallSteps, Filters
  <2> QED
    BY <2>1, <2>2
<1>7. ClosedSteps \in Seq(StepSet)
  <2>1. <<Step("closed", "closed", TRUE)>> \in Seq(StepSet) /\ <<Step("closed", "rst", TRUE)>> \in Seq(StepSet)
    BY <1>1, <1>5, Zenon
  <2> QED
    BY <1>3, <1>4, <2>1, Zenon DEF ClosedSteps
<1>8. ProbeSteps \in Seq(StepSet)
  <2>1. IsLinux => <<Step("probes", "t46", TRUE), Step("probes", "t7", TRUE), Step("probes", "t23", TRUE)>>
                     \in Seq(StepSet)
    BY <1>1, <1>5, Zenon
  <2> QED
    BY <1>3, <2>1, Zenon DEF ProbeSteps
<1>9. ICMPSteps \in Seq(StepSet)
  <2>1. <<Step("icmp", "udpany", TRUE), Step("icmp", "icmpout", TRUE), Step("icmp", "wfp", FALSE),
          Step("icmp", "echo", TRUE), Step("icmp", "tstamp", TRUE)>> \in Seq(StepSet)
    BY <1>1, <1>5, Zenon
  <2>2. <<Step("icmp", "u1", TRUE)>> \in Seq(StepSet) /\ <<Step("icmp", "sig", FALSE)>> \in Seq(StepSet)
    BY <1>1, <1>5, Zenon
  <2> QED
    BY <1>3, <1>4, <2>1, <2>2, Zenon DEF ICMPSteps
<1> QED
  BY <1>4, <1>6, <1>7, <1>8, <1>9, Zenon DEF Steps

\* Traffic uses up the expected packets and nothing else of the setup.
SameSetup == DOMAIN setup' = DOMAIN setup /\ \A f \in SetupFields \ {"packets"} : setup'[f] = setup[f]

\* The start has the same steps throughout, so that the deferred stops are of
\* the responders that were started.
LEMMA StepsStay ==
  ASSUME SameSetup
  PROVE  Steps' = Steps /\ Begun' = Begun /\ Owned' = Begun \ broken' /\ Owned = Begun \ broken
<1>1. /\ setup'.profile = setup.profile /\ setup'.behavior = setup.behavior
      /\ setup'.workstation = setup.workstation /\ setup'.closed = setup.closed
      /\ setup'.served = setup.served
  BY DEF SameSetup, SetupFields
<1>2. IsLinux' = IsLinux /\ autoDrop' = autoDrop /\ ProbePorts' = ProbePorts
  BY <1>1 DEF IsLinux, autoDrop, ProbePorts
<1>3. FirewallSteps' = FirewallSteps
  BY <1>1, <1>2, Zenon DEF FirewallSteps
<1>4. ClosedSteps' = ClosedSteps
  BY <1>1, <1>2, Zenon DEF ClosedSteps
<1>5. ProbeSteps' = ProbeSteps /\ ICMPSteps' = ICMPSteps
  BY <1>1, <1>2, Zenon DEF ProbeSteps, ICMPSteps
<1>6. Steps' = Steps
  BY <1>3, <1>4, <1>5, Zenon DEF Steps
<1>7. Begun' = Begun
  BY <1>6, Zenon DEF Begun
<1>8. {s.who : s \in ToSet(Steps)} = Begun
  BY DEF ToSet, Begun
<1>9. ({s.who : s \in ToSet(Steps)})' = Begun'
  BY <1>6, <1>7, <1>8, Zenon
<1> QED
  BY <1>6, <1>7, <1>8, <1>9, Zenon DEF Owned

\* The names of handles and of rules do not overlap, and the stack's handle is
\* no responder's.
LEMMA HandlesAndRules ==
  \A w \in Responders :
     /\ Handles[w] \subseteq DOMAIN Priority \ {"stack"}
     /\ Rules[w] \cap DOMAIN Priority = {}
<1>1. DOMAIN Priority = {"t7", "sig", "u1", "t23", "echo", "tstamp", "t46", "drop", "icmpdrop", "rst", "stack"}
  BY DEF Priority
<1> QED
  BY <1>1 DEF Responders, Handles, Rules
-----------------------------------------------------------------------------
(* The steps.                                                              *)

\* A step that leaves the main goroutine, the stack's place and the driver
\* alone, opens nothing and starts no goroutine.
Quiet ==
    /\ UNCHANGED <<pc, step, broken, rules, kept, open, stk, armed, hifiWd, wd>>
    /\ loops' \subseteq loops /\ SameSetup

\* Such a step changes nothing of what is left behind.
LEMMA QuietStep == ASSUME IInv, Quiet PROVE IInv'
<1>1. Begun' = Begun /\ Owned' = Owned /\ DOMAIN setup' = DOMAIN setup
  BY StepsStay DEF Quiet, SameSetup
<1>2. BelongsToBegun'
  BY <1>1 DEF IInv, BelongsToBegun, Quiet
<1>3. Places'
  BY <1>1 DEF IInv, Places, Quiet
<1>4. StoppedSoFar'
  BY <1>1 DEF IInv, StoppedSoFar, Quiet
<1>5. StackHolds'
  BY DEF IInv, StackHolds, Quiet
<1>6. WatchdogKnown'
  BY DEF IInv, WatchdogKnown, Quiet
<1> QED
  BY <1>2, <1>3, <1>4, <1>5, <1>6 DEF IInv

\* Packets, whoever carries them, are such steps; so is a loop that ends.
LEMMA TrafficIsQuiet ==
  ASSUME DOMAIN setup = SetupFields,
         \/ \E p \in setup.inbound : Arrive(p)
         \/ \E p \in setup.host : HostSends(p)
         \/ \E h \in DOMAIN Priority : Captured(h) \/ Respond(h) \/ RecvFails(h)
         \/ \E c \in DOMAIN synCache : Expire(c)
         \/ Delivered \/ LostAtClose \/ LoopInbound \/ LoopOutbound \/ HostAnswers
  PROVE  Quiet
<1>1. ASSUME setup' = setup PROVE SameSetup
  BY <1>1 DEF SameSetup
<1>2. ASSUME Counted PROVE SameSetup
  BY <1>2 DEF Counted, SameSetup
<1>3. ASSUME Elsewhere, loops' \subseteq loops, SameSetup PROVE Quiet
  BY <1>3 DEF Elsewhere, Quiet, main, driver
<1>4. ASSUME NEW p, Arrive(p) \/ HostSends(p) PROVE Quiet
  BY <1>2, <1>3, <1>4 DEF Arrive, HostSends
<1>5. ASSUME NEW h, Captured(h) \/ Respond(h) PROVE Quiet
  BY <1>1, <1>3, <1>5 DEF Captured, Respond
<1>6. ASSUME NEW h, RecvFails(h) PROVE Quiet
  BY <1>1, <1>3, <1>6 DEF RecvFails, LoopsAfterError
<1>7. ASSUME NEW c, Expire(c) PROVE Quiet
  BY <1>1, <1>3, <1>7 DEF Expire
<1>8. ASSUME Delivered \/ LostAtClose \/ LoopInbound \/ LoopOutbound \/ HostAnswers PROVE Quiet
  BY <1>1, <1>3, <1>8 DEF Delivered, LostAtClose, LoopInbound, LoopOutbound, HostAnswers
<1> QED
  BY <1>4, <1>5, <1>6, <1>7, <1>8

\* The main goroutine: starts, fails to start, joins, stops, exits.
LEMMA MainStep == ASSUME IInv, Main PROVE IInv'
<1>1. setup' = setup /\ UNCHANGED <<armed, hifiWd, wd>>
  BY DEF Main, StartStep, StartFails, Started, Joined, StopResponder, CloseHandle, ResponderStopped, Exit, driver, main
<1>2. /\ Steps' = Steps /\ Begun' = Begun /\ Owned' = Begun \ broken' /\ Owned = Begun \ broken
      /\ DOMAIN setup' = SetupFields
  BY <1>1, StepsStay DEF SameSetup, IInv, Places
<1>3. \A i \in DOMAIN Steps : /\ Steps[i].who \in Responders /\ Steps[i].who \in Begun
                              /\ Steps[i].name \in Handles[Steps[i].who] \cup Rules[Steps[i].who]
  <2>1. \A i \in DOMAIN Steps : Steps[i] \in StepSet
    BY StepsAreOwn, LenProperties
  <2> QED
    BY <2>1 DEF StepSet, Begun
<1>4. /\ BelongsToBegun /\ Places /\ StoppedSoFar /\ StackHolds /\ WatchdogKnown
  BY DEF IInv
<1>5. ASSUME pc = "start", step <= Len(Steps) PROVE step \in DOMAIN Steps /\ step + 1 \in Nat \ {0}
  BY <1>4, <1>5, StepsAreOwn, LenProperties DEF Places
<1>6. CASE StartStep
  <2>1. /\ pc = "start" /\ pc' = "start" /\ step' = step + 1 /\ step \in DOMAIN Steps /\ step' \in Nat \ {0}
        /\ stk' = stk /\ stk = "none" /\ broken' = broken
    BY <1>4, <1>5, <1>6 DEF StartStep, Places
  <2> DEFINE w == Steps[step].who
             n == Steps[step].name
  <2>2. w \in Responders /\ w \in Begun /\ n \in Handles[w] \cup Rules[w]
    BY <1>3, <2>1
  <2>3. \/ UNCHANGED <<open, loops, rules>>
        \/ n \in DOMAIN Priority /\ open' = open \cup {n} /\ loops' = loops \cup {n} /\ rules' = rules
        \/ n \notin DOMAIN Priority /\ rules' = rules \cup {n} /\ UNCHANGED <<open, loops>>
    BY <1>6 DEF StartStep, Install
  <2> HIDE DEF w, n
  <2>4. /\ n \in DOMAIN Priority => n \in Handles[w]
        /\ n \notin DOMAIN Priority => n \in Rules[w]
        /\ n \in Handles[w] => n # "stack"
    BY <2>2, HandlesAndRules
  <2>5. BelongsToBegun'
    BY <1>2, <1>4, <2>1, <2>2, <2>3, <2>4 DEF BelongsToBegun
  <2>6. "stack" \notin open' \cup loops'
    BY <1>4, <2>1, <2>3, <2>4 DEF StackHolds
  <2>7. StackHolds' /\ WatchdogKnown'
    BY <1>1, <1>4, <2>1, <2>6 DEF StackHolds, WatchdogKnown
  <2>8. Places' /\ StoppedSoFar'
    BY <1>2, <2>1 DEF Places, StoppedSoFar
  <2> QED
    BY <2>5, <2>7, <2>8 DEF IInv
<1>7. CASE StartFails
  <2>1. /\ pc = "start" /\ pc' = "start" /\ step' = step + 1 /\ step \in DOMAIN Steps /\ step' \in Nat \ {0}
        /\ UNCHANGED <<stk, open, loops, kept>> /\ stk = "none"
    BY <1>4, <1>5, <1>7 DEF StartFails, Places
  <2> DEFINE w == Steps[step].who
             n == Steps[step].name
  <2>2. w \in Responders /\ w \in Begun /\ n \in Handles[w] \cup Rules[w]
    BY <1>3, <2>1
  <2>3. /\ broken' = broken \/ broken' = broken \cup {w}
        /\ rules' = rules \/ (n = "closed" /\ rules' = rules \cup {n})
    BY <1>7 DEF StartFails
  <2> HIDE DEF w, n
  <2>4. n = "closed" => n \in Rules[w]
    BY <2>2 DEF Responders, Handles, Rules
  <2>5. BelongsToBegun'
    BY <1>2, <1>4, <2>1, <2>2, <2>3, <2>4 DEF BelongsToBegun
  <2>6. Places' /\ StoppedSoFar' /\ StackHolds' /\ WatchdogKnown'
    BY <1>1, <1>2, <1>4, <2>1 DEF Places, StoppedSoFar, StackHolds, WatchdogKnown
  <2> QED
    BY <2>5, <2>6 DEF IInv
<1>8. CASE Started
  <2>1. /\ pc = "start" /\ pc' = "run" /\ stk = "none" /\ stk' = "load"
        /\ UNCHANGED <<step, broken, rules, kept, open, loops>>
    BY <1>4, <1>8 DEF Started, Places
  <2>2. BelongsToBegun' /\ Places' /\ StoppedSoFar'
    BY <1>2, <1>4, <2>1 DEF BelongsToBegun, Places, StoppedSoFar
  <2>3. StackHolds' /\ WatchdogKnown'
    BY <1>1, <1>4, <2>1 DEF StackHolds, WatchdogKnown
  <2> QED
    BY <2>2, <2>3 DEF IInv
<1>9. CASE Joined
  <2>1. /\ pc' = "stop" /\ stk = "done" /\ step' = 1
        /\ UNCHANGED <<stk, broken, rules, kept, open, loops>>
    BY <1>9 DEF Joined
  <2>2. BelongsToBegun' /\ Places' /\ StoppedSoFar'
    BY <1>2, <1>4, <2>1 DEF BelongsToBegun, Places, StoppedSoFar
  <2>3. StackHolds' /\ WatchdogKnown'
    BY <1>1, <1>4, <2>1 DEF StackHolds, WatchdogKnown
  <2> QED
    BY <2>2, <2>3 DEF IInv
<1>10. Len(StopOrder) = 4 /\ \A j \in 1 .. 4 : StopOrder[j] \in Responders
  BY DEF StopOrder, Responders
<1>11. CASE StopResponder
  <2>1. /\ pc = "stop" /\ step \in 1 .. 4 /\ stk = "done"
        /\ UNCHANGED <<stk, broken, rules, kept, open, loops>> /\ Owned' = Owned
    BY <1>2, <1>4, <1>10, <1>11 DEF StopResponder, Places
  <2>2. BelongsToBegun' /\ StackHolds' /\ WatchdogKnown'
    BY <1>1, <1>2, <1>4, <2>1 DEF BelongsToBegun, StackHolds, WatchdogKnown
  <2>3. CASE StopOrder[step] \in Owned
    <3>1. pc' = "wait" /\ step' = step
      BY <1>11, <2>3 DEF StopResponder
    <3>2. Places' /\ StoppedSoFar'
      BY <1>2, <1>4, <2>1, <2>3, <3>1 DEF Places, StoppedSoFar
    <3> QED
      BY <2>2, <3>2 DEF IInv
  <2>4. CASE StopOrder[step] \notin Owned
    <3>1. pc' = pc /\ step' = step + 1
      BY <1>11, <2>4 DEF StopResponder
    <3>2. Places'
      BY <1>2, <1>4, <2>1, <3>1 DEF Places
    <3>3. \A j \in 1 .. 4 : j < step' /\ StopOrder[j] \in Owned => j < step
      BY <2>1, <2>4, <3>1
    <3>4. StoppedSoFar'
      BY <1>4, <2>1, <3>1, <3>3 DEF StoppedSoFar
    <3> QED
      BY <2>2, <3>2, <3>4 DEF IInv
  <2> QED
    BY <2>3, <2>4
<1>12. CASE CloseHandle
  <2>1. /\ pc = "wait" /\ open' \subseteq open /\ stk = "done"
        /\ UNCHANGED <<pc, step, stk, broken, rules, kept, loops>> /\ Owned' = Owned
    BY <1>2, <1>4, <1>12 DEF CloseHandle, Places, main
  <2>2. BelongsToBegun' /\ Places' /\ StoppedSoFar'
    BY <1>2, <1>4, <2>1 DEF BelongsToBegun, Places, StoppedSoFar
  <2>3. StackHolds' /\ WatchdogKnown'
    BY <1>1, <1>4, <2>1 DEF StackHolds, WatchdogKnown
  <2> QED
    BY <2>2, <2>3 DEF IInv
<1>13. CASE ResponderStopped
  <2> DEFINE who == StopOrder[step]
  <2>1. /\ pc = "wait" /\ pc' = "stop" /\ step \in 1 .. 4 /\ step' = step + 1 /\ stk' = stk /\ stk = "done"
        /\ UNCHANGED <<broken, open, loops>> /\ Owned' = Owned /\ (open \cup loops) \cap Handles[who] = {}
    BY <1>2, <1>4, <1>13 DEF ResponderStopped, Places
  <2>2. PICK failing : rules' = rules \ (Rules[who] \ failing) /\ kept' = kept \cup (rules \cap failing)
    BY <1>13 DEF ResponderStopped, RulesAfter
  <2> HIDE DEF who
  <2>3. rules' \subseteq rules /\ kept \subseteq kept' /\ rules' \cap Rules[who] \subseteq kept'
    BY <2>2
  <2>4. BelongsToBegun' /\ StackHolds' /\ WatchdogKnown'
    BY <1>1, <1>2, <1>4, <2>1, <2>3 DEF BelongsToBegun, StackHolds, WatchdogKnown
  <2>5. Places'
    BY <1>2, <2>1 DEF Places
  <2>6. ASSUME NEW j \in 1 .. 4, j < step', StopOrder[j] \in Owned
        PROVE  /\ (open' \cup loops') \cap Handles[StopOrder[j]] = {}
               /\ rules' \cap Rules[StopOrder[j]] \subseteq kept'
    <3>1. CASE j = step
      BY <2>1, <2>3, <3>1 DEF who
    <3>2. CASE j < step
      BY <1>4, <2>1, <2>3, <2>6, <3>2 DEF StoppedSoFar
    <3> QED
      BY <2>1, <2>6, <3>1, <3>2
  <2>7. StoppedSoFar'
    BY <2>1, <2>6 DEF StoppedSoFar
  <2> QED
    BY <2>4, <2>5, <2>7 DEF IInv
<1>14. CASE Exit
  <2>1. /\ pc = "stop" /\ pc' = "exited" /\ step > 4 /\ UNCHANGED <<step, broken, rules, kept, open, loops, stk>>
        /\ Owned' = Owned
    BY <1>2, <1>10, <1>14 DEF Exit
  <2>2. BelongsToBegun' /\ Places' /\ StoppedSoFar'
    BY <1>2, <1>4, <2>1 DEF BelongsToBegun, Places, StoppedSoFar
  <2>3. StackHolds' /\ WatchdogKnown'
    BY <1>1, <1>4, <2>1 DEF StackHolds, WatchdogKnown
  <2> QED
    BY <2>2, <2>3 DEF IInv
<1> QED
  BY <1>6, <1>7, <1>8, <1>9, <1>11, <1>12, <1>13, <1>14 DEF Main

\* What the main goroutine's part of the invariant needs of a step of others.
LEMMA MainUndisturbed ==
  ASSUME IInv, UNCHANGED <<setup, pc, step, broken, rules, kept>>,
         open' \subseteq open \cup {"stack"}, loops' \subseteq loops \cup {"stack"},
         (pc # "start" /\ stk' # "none") \/ stk' = stk, stk = "done" => stk' = "done"
  PROVE  BelongsToBegun' /\ Places' /\ StoppedSoFar'
<1>1. Begun' = Begun /\ Owned' = Owned
  BY StepsStay DEF SameSetup
<1>2. BelongsToBegun /\ Places /\ StoppedSoFar
  BY DEF IInv
<1>3. \A j \in 1 .. 4 : StopOrder[j] \in Responders /\ "stack" \notin Handles[StopOrder[j]]
  <2>1. \A j \in 1 .. 4 : StopOrder[j] \in Responders
    BY DEF StopOrder, Responders
  <2> QED
    BY <2>1, HandlesAndRules
<1>4. BelongsToBegun'
  BY <1>1, <1>2 DEF BelongsToBegun
<1>5. Places'
  BY <1>1, <1>2, <1>3 DEF Places
<1>6. StoppedSoFar'
  BY <1>1, <1>2, <1>3 DEF StoppedSoFar
<1> QED
  BY <1>4, <1>5, <1>6

\* The stack goroutine: it closes, disarms and joins before it is done.
LEMMA StackStep == ASSUME IInv, Stacking PROVE IInv'
<1>1. Places /\ StackHolds /\ WatchdogKnown
  BY DEF IInv
<1>2. stk # "none" /\ stk' # "none" /\ stk # "done"
  BY <1>1 DEF Stacking, Stack, Load, LoadFails, Enable, maybeArmHiFi, ShutdownSeen, LockHiFi, disarmHiFi,
       StopWatchdog, WatchdogJoined, Close, LoopJoined, StackHolds
<1>3. UNCHANGED <<setup, pc, step, broken, rules, kept>>
  BY DEF Stacking, Load, LoadFails, Enable, maybeArmHiFi, ShutdownSeen, LockHiFi, disarmHiFi,
       StopWatchdog, WatchdogJoined, Close, LoopJoined, main
<1>4. open' \subseteq open \cup {"stack"} /\ loops' \subseteq loops \cup {"stack"}
  BY DEF Stacking, Load, LoadFails, Enable, maybeArmHiFi, ShutdownSeen, LockHiFi, disarmHiFi,
       StopWatchdog, WatchdogJoined, Close, LoopJoined
<1>5. BelongsToBegun' /\ Places' /\ StoppedSoFar'
  <2>1. pc # "start"
    BY <1>1, <1>2 DEF Places
  <2> QED
    BY <1>2, <1>3, <1>4, <2>1, MainUndisturbed
<1>6. CASE Load
  BY <1>1, <1>5, <1>6 DEF Load, Stack, IInv, StackHolds, WatchdogKnown, driver
<1>7. CASE LoadFails \/ Enable \/ ShutdownSeen \/ WatchdogJoined \/ LoopJoined
  <2>1. UNCHANGED <<open, loops, armed, hifiWd, wd>>
    BY <1>7 DEF LoadFails, Enable, ShutdownSeen, WatchdogJoined, LoopJoined, driver
  <2>2. \/ stk = "load" /\ stk' = "done"
        \/ stk = "enable" /\ stk' = "arm"
        \/ stk = "wait" /\ stk' = "disarm"
        \/ stk = "joinwd" /\ stk' = "close" /\ wd.st = "gone"
        \/ stk = "join" /\ stk' = "done" /\ "stack" \notin loops
    BY <1>7 DEF LoadFails, Enable, ShutdownSeen, WatchdogJoined, LoopJoined, Stack
  <2>3. StackHolds'
    BY <1>1, <2>1, <2>2 DEF StackHolds
  <2>4. WatchdogKnown'
    BY <1>1, <2>1, <2>2 DEF WatchdogKnown
  <2> QED
    BY <1>5, <2>3, <2>4 DEF IInv
<1>8. CASE maybeArmHiFi
  <2>1. stk = "arm" /\ stk' = "wait" /\ UNCHANGED <<open, loops>>
    BY <1>8 DEF maybeArmHiFi, Stack
  <2>2. armed' \in BOOLEAN /\ hifiWd' \in BOOLEAN
    BY <1>8 DEF maybeArmHiFi
  <2>3. wd' = IF hifiWd' THEN [NoWatchdog EXCEPT !.st = "run"] ELSE wd
    BY <1>8 DEF maybeArmHiFi
  <2>4. /\ wd' \in [st : {"none", "run", "trip", "tripped", "gone"}, fails : Nat, stop : BOOLEAN]
        /\ wd'.st \in {"run", "trip"} => hifiWd'
    <3>1. CASE hifiWd'
      <4>1. wd' = [st |-> "run", fails |-> 0, stop |-> FALSE]
        BY <2>3, <3>1 DEF NoWatchdog
      <4> QED
        BY <3>1, <4>1
    <3>2. CASE ~hifiWd'
      BY <1>1, <2>1, <2>3, <3>2 DEF WatchdogKnown
    <3> QED
      BY <3>1, <3>2
  <2>5. StackHolds'
    BY <1>1, <2>1 DEF StackHolds
  <2>6. WatchdogKnown'
    BY <2>1, <2>2, <2>4 DEF WatchdogKnown
  <2> QED
    BY <1>5, <2>5, <2>6 DEF IInv
<1>9. CASE LockHiFi
  BY <1>1, <1>5, <1>9 DEF LockHiFi, Stack, IInv, StackHolds, WatchdogKnown
<1>10. CASE disarmHiFi
  <2>1. /\ stk = "locked" /\ stk' = (IF hifiWd THEN "stopwd" ELSE "close")
        /\ UNCHANGED <<open, loops, wd>>
    BY <1>10 DEF disarmHiFi, Stack
  <2>2. armed' = FALSE /\ hifiWd' = FALSE
    BY <1>10 DEF disarmHiFi
  <2>3. StackHolds'
    BY <1>1, <2>1, <2>2 DEF StackHolds
  <2>4. WatchdogKnown'
    <3>1. CASE hifiWd
      BY <1>1, <2>1, <2>2, <3>1 DEF WatchdogKnown
    <3>2. CASE ~hifiWd
      BY <1>1, <2>1, <2>2, <3>2 DEF WatchdogKnown
    <3> QED
      BY <3>1, <3>2
  <2> QED
    BY <1>5, <2>3, <2>4 DEF IInv
<1>11. CASE StopWatchdog
  <2>1. wd' = [wd EXCEPT !.stop = TRUE] /\ stk = "stopwd" /\ stk' = "joinwd"
        /\ UNCHANGED <<open, loops, armed, hifiWd>>
    BY <1>11 DEF StopWatchdog, Stack
  <2>2. wd' \in [st : {"none", "run", "trip", "tripped", "gone"}, fails : Nat, stop : BOOLEAN]
    BY <1>1, <2>1 DEF WatchdogKnown
  <2> QED
    BY <1>1, <1>5, <2>1, <2>2 DEF IInv, StackHolds, WatchdogKnown
<1>12. CASE Close
  BY <1>1, <1>5, <1>12 DEF Close, Stack, IInv, StackHolds, WatchdogKnown, driver
<1> QED
  BY <1>6, <1>7, <1>8, <1>9, <1>10, <1>11, <1>12 DEF Stacking

\* The watchdog: it ends, or trips and ends.
LEMMA WatchdogStep == ASSUME IInv, Tick \/ watchdogTrip \/ WatchdogReturns PROVE IInv'
<1>1. StackHolds /\ WatchdogKnown
  BY DEF IInv
<1>2. UNCHANGED <<setup, pc, step, broken, rules, kept, open, loops, stk>>
  BY DEF Tick, watchdogTrip, WatchdogReturns, main
<1>3. BelongsToBegun' /\ Places' /\ StoppedSoFar'
  BY <1>2, MainUndisturbed
<1>4. CASE Tick
  <2>1. wd.st = "run" /\ FailsNow \in Nat
    BY <1>1, <1>4 DEF Tick, FailsNow, WatchdogKnown
  <2>2. wd' \in [st : {"run", "trip"}, fails : Nat, stop : BOOLEAN] /\ UNCHANGED <<armed, hifiWd>>
    BY <1>1, <1>4, <2>1 DEF Tick, WatchdogKnown
  <2> QED
    BY <1>1, <1>2, <1>3, <2>1, <2>2 DEF IInv, StackHolds, WatchdogKnown
<1>5. CASE watchdogTrip
  <2>1. /\ wd.st = "trip" /\ armed' = FALSE /\ hifiWd' = FALSE
        /\ wd' \in [st : {"tripped"}, fails : Nat, stop : BOOLEAN]
    BY <1>1, <1>5 DEF watchdogTrip, WatchdogKnown
  <2> QED
    BY <1>1, <1>2, <1>3, <2>1 DEF IInv, StackHolds, WatchdogKnown
<1>6. CASE WatchdogReturns
  <2>1. wd' \in [st : {"gone"}, fails : Nat, stop : BOOLEAN] /\ UNCHANGED <<armed, hifiWd>>
    BY <1>1, <1>6 DEF WatchdogReturns, WatchdogKnown
  <2> QED
    BY <1>1, <1>2, <1>3, <2>1 DEF IInv, StackHolds, WatchdogKnown
<1> QED
  BY <1>4, <1>5, <1>6
-----------------------------------------------------------------------------
(* The theorem.                                                            *)

\* The inductive invariant holds in every reachable state.
LEMMA Invariance == Spec => []IInv
<1>1. Init => IInv
  <2> SUFFICES ASSUME Init PROVE IInv
    OBVIOUS
  <2>1. BelongsToBegun /\ StoppedSoFar
    BY DEF Init, BelongsToBegun, StoppedSoFar
  <2>2. Places
    BY BoundsAssumption DEF Init, Places
  <2>3. StackHolds
    BY DEF Init, StackHolds
  <2>4. WatchdogKnown
    <3>1. wd = [st |-> "none", fails |-> 0, stop |-> FALSE] /\ armed = FALSE /\ hifiWd = FALSE
      BY DEF Init, NoWatchdog
    <3> QED
      BY <3>1 DEF WatchdogKnown
  <2> QED
    BY <2>1, <2>2, <2>3, <2>4 DEF IInv
<1>2. IInv /\ [Next]_vars => IInv'
  <2> SUFFICES ASSUME IInv, [Next]_vars PROVE IInv'
    OBVIOUS
  <2>1. CASE Main
    BY <2>1, MainStep
  <2>2. CASE Stacking
    BY <2>2, StackStep
  <2>3. CASE Tick \/ watchdogTrip \/ WatchdogReturns
    BY <2>3, WatchdogStep
  <2>4. CASE Shutdown \/ NetworkChanges \/ Exited \/ UNCHANGED vars
    <3>1. Quiet
      BY <2>4 DEF Shutdown, NetworkChanges, Exited, vars, main, driver, Quiet, SameSetup
    <3> QED
      BY <3>1, QuietStep
  <2>5. CASE \/ \E p \in setup.inbound : Arrive(p)
             \/ \E p \in setup.host : HostSends(p)
             \/ \E h \in DOMAIN Priority : Captured(h) \/ Respond(h) \/ RecvFails(h)
             \/ \E c \in DOMAIN synCache : Expire(c)
             \/ Delivered \/ LostAtClose \/ LoopInbound \/ LoopOutbound \/ HostAnswers
    <3>1. Quiet
      BY <2>5, TrafficIsQuiet DEF IInv, Places
    <3> QED
      BY <3>1, QuietStep
  <2> QED
    BY <2>1, <2>2, <2>3, <2>4, <2>5 DEF Next, Carry
<1> QED
  BY <1>1, <1>2, PTL DEF Spec

\* run.go:400 "Torn down via defer on every return path": for every setup, when
\* runMimic returns, no handle, goroutine or rule of a responder it kept is
\* left (but for rules that netsh failed to remove), the driver passes packets
\* through, and no watchdog is at work.
THEOREM ReturnIsClean == Spec => []ExitClean
<1>1. IInv => ExitClean
  <2> SUFFICES ASSUME IInv, pc = "exited"
               PROVE  /\ open \cup loops \subseteq UNION {Handles[who] : who \in broken}
                      /\ rules \subseteq kept \cup UNION {Rules[who] : who \in broken}
                      /\ ~armed /\ wd.st \notin {"run", "trip"}
    BY DEF ExitClean
  <2>1. stk = "done" /\ step > 4 /\ step \in Nat
    BY DEF IInv, Places
  <2>2. "stack" \notin open \cup loops /\ ~armed /\ wd.st \notin {"run", "trip"}
    BY <2>1 DEF IInv, StackHolds, WatchdogKnown
  <2>3. Owned = Begun \ broken /\ Begun \subseteq Responders
    <3>1. Owned = Begun \ broken
      BY DEF Owned, Begun, ToSet
    <3>2. \A i \in DOMAIN Steps : Steps[i] \in StepSet
      BY StepsAreOwn, LenProperties
    <3> QED
      BY <3>1, <3>2 DEF Begun, StepSet
  <2>4. \A w \in Responders : \E j \in 1 .. 4 : StopOrder[j] = w
    <3>1. StopOrder[1] = "icmp" /\ StopOrder[2] = "probes" /\ StopOrder[3] = "closed" /\ StopOrder[4] = "fw"
      BY DEF StopOrder
    <3> QED
      BY <3>1 DEF Responders
  <2>5. ASSUME NEW w \in Begun, w \notin broken
        PROVE  (open \cup loops) \cap Handles[w] = {} /\ rules \cap Rules[w] \subseteq kept
    <3>1. PICK j \in 1 .. 4 : StopOrder[j] = w
      BY <2>3, <2>4
    <3>2. j < step
      BY <2>1
    <3> QED
      BY <2>3, <2>5, <3>1, <3>2 DEF IInv, StoppedSoFar
  <2>6. \A h \in open \cup loops : \E w \in broken : h \in Handles[w]
    BY <2>2, <2>5 DEF IInv, BelongsToBegun
  <2>7. \A r \in rules : r \in kept \/ \E w \in broken : r \in Rules[w]
    BY <2>5 DEF IInv, BelongsToBegun
  <2> QED
    BY <2>2, <2>6, <2>7
<1> QED
  BY <1>1, Invariance, PTL
-----------------------------------------------------------------------------
(* Option sequences: kinds are counted, and lengths follow.               *)

LEMMA CountType ==
  ASSUME NEW s \in Seq(Kinds), NEW k
  PROVE  /\ Count(s, k) \in Nat /\ (Has(s, k) <=> Count(s, k) > 0)
         /\ IsFiniteSet({i \in DOMAIN s : s[i] = k})
<1>1. IsFiniteSet(DOMAIN s) /\ DOMAIN s = 1 .. Len(s) /\ Len(s) \in Nat
  BY FS_Interval
<1>2. IsFiniteSet({i \in DOMAIN s : s[i] = k})
  BY <1>1, FS_Subset
<1>3. Count(s, k) \in Nat /\ (Count(s, k) = 0 <=> {i \in DOMAIN s : s[i] = k} = {})
  BY <1>2, FS_CardinalityType, FS_EmptySet DEF Count
<1> QED
  BY <1>2, <1>3 DEF Has, ToSet

LEMMA CountConcat ==
  ASSUME NEW s \in Seq(Kinds), NEW t \in Seq(Kinds), NEW k
  PROVE  s \o t \in Seq(Kinds) /\ Count(s \o t, k) = Count(s, k) + Count(t, k)
<1> DEFINE A == {i \in DOMAIN s : s[i] = k}
           B == {i \in DOMAIN t : t[i] = k}
           C == {i \in DOMAIN (s \o t) : (s \o t)[i] = k}
           D == C \ A
<1>1. /\ s \o t \in Seq(Kinds) /\ DOMAIN s = 1 .. Len(s) /\ DOMAIN t = 1 .. Len(t)
      /\ DOMAIN (s \o t) = 1 .. Len(s) + Len(t) /\ Len(s) \in Nat /\ Len(t) \in Nat
  BY ConcatProperties, LenProperties
<1>2. /\ \A i \in 1 .. Len(s) : (s \o t)[i] = s[i]
      /\ \A i \in 1 .. Len(t) : (s \o t)[Len(s) + i] = t[i]
  BY <1>1, ConcatProperties
<1>3. IsFiniteSet(A) /\ IsFiniteSet(B) /\ IsFiniteSet(C)
  BY <1>1, CountType
<1>4. A \subseteq C
  BY <1>1, <1>2
<1>5. D = {Len(s) + i : i \in B}
  <2>1. ASSUME NEW j \in D PROVE \E i \in B : j = Len(s) + i
    <3>1. j \in 1 .. Len(s) + Len(t) /\ (s \o t)[j] = k /\ ~(j \in 1 .. Len(s) /\ s[j] = k)
      BY <1>1
    <3>2. j - Len(s) \in 1 .. Len(t) /\ j = Len(s) + (j - Len(s))
      BY <1>1, <1>2, <3>1
    <3> QED
      BY <1>1, <1>2, <3>1, <3>2
  <2>2. ASSUME NEW i \in B PROVE Len(s) + i \in D
    BY <1>1, <1>2
  <2> QED
    BY <2>1, <2>2
<1>6. Cardinality(D) = Cardinality(B)
  <2> DEFINE f == [i \in B |-> Len(s) + i]
  <2>1. B \subseteq Nat
    BY <1>1
  <2>2. f \in Bijection(B, D)
    <3>1. f \in [B -> D]
      BY <1>5
    <3>2. \A i, j \in B : f[i] = f[j] => i = j
      BY <1>1, <2>1
    <3>3. \A d \in D : \E i \in B : f[i] = d
      BY <1>5
    <3> QED
      BY <3>1, <3>2, <3>3 DEF Bijection, Injection, Surjection, IsInjective
  <2> QED
    BY <1>3, <2>2, FS_Bijection DEF ExistsBijection
<1>7. Cardinality(C) = Cardinality(A) + Cardinality(D)
  <2>1. C = A \cup D /\ A \cap D = {} /\ IsFiniteSet(D)
    BY <1>3, <1>4, FS_Subset
  <2> HIDE DEF A, C, D
  <2>2. Cardinality(A) \in Nat /\ Cardinality(D) \in Nat
    BY <1>3, <2>1, FS_CardinalityType
  <2>3. Cardinality(A \cup D) = Cardinality(A) + Cardinality(D) - Cardinality(A \cap D)
    BY <1>3, <2>1, FS_Union
  <2>4. Cardinality(A \cap D) = 0
    BY <2>1, FS_EmptySet
  <2> QED
    BY <2>1, <2>2, <2>3, <2>4
<1> QED
  BY <1>1, <1>6, <1>7 DEF Count

LEMMA CountOne ==
  ASSUME NEW x \in Kinds, NEW k
  PROVE  <<x>> \in Seq(Kinds) /\ Count(<<x>>, k) = IF x = k THEN 1 ELSE 0
<1>1. {i \in DOMAIN <<x>> : <<x>>[i] = k} = IF x = k THEN {1} ELSE {}
  OBVIOUS
<1> QED
  BY <1>1, FS_EmptySet, FS_Singleton DEF Count

LEMMA CountNops ==
  ASSUME NEW n \in Nat, NEW x \in Kinds, NEW k
  PROVE  LET s == [i \in 1 .. n |-> x] IN s \in Seq(Kinds) /\ Count(s, k) = IF x = k THEN n ELSE 0
<1> DEFINE s == [i \in 1 .. n |-> x]
<1>1. s \in Seq(Kinds) /\ DOMAIN s = 1 .. n
  BY IsASeq
<1>2. {i \in DOMAIN s : s[i] = k} = IF x = k THEN 1 .. n ELSE {}
  BY <1>1
<1>3. Cardinality(1 .. n) = n
  BY FS_Interval
<1> QED
  BY <1>1, <1>2, <1>3, FS_EmptySet DEF Count

\* The kinds of a sequence of options, counted.
Tally(s, m, n, w, c, t, e) ==
    /\ s \in Seq(Kinds)
    /\ Count(s, "M") = m /\ Count(s, "N") = n /\ Count(s, "W") = w
    /\ Count(s, "S") = c /\ Count(s, "T") = t /\ Count(s, "E") = e

LEMMA TallyOne ==
  /\ Tally(<<>>, 0, 0, 0, 0, 0, 0)
  /\ Tally(<<"M">>, 1, 0, 0, 0, 0, 0) /\ Tally(<<"N">>, 0, 1, 0, 0, 0, 0) /\ Tally(<<"W">>, 0, 0, 1, 0, 0, 0)
  /\ Tally(<<"S">>, 0, 0, 0, 1, 0, 0) /\ Tally(<<"T">>, 0, 0, 0, 0, 1, 0) /\ Tally(<<"E">>, 0, 0, 0, 0, 0, 1)
<1>1. \A x \in Kinds : \A k : <<x>> \in Seq(Kinds) /\ Count(<<x>>, k) = IF x = k THEN 1 ELSE 0
  BY CountOne
<1>2. {"M", "N", "W", "S", "T", "E"} \subseteq Kinds
  BY DEF Kinds
<1>3. \A k : Count(<<>>, k) = 0
  <2>1. \A k : {i \in DOMAIN <<>> : <<>>[i] = k} = {}
    OBVIOUS
  <2> QED
    BY <2>1, FS_EmptySet DEF Count
<1>4. Tally(<<>>, 0, 0, 0, 0, 0, 0)
  BY <1>3 DEF Tally
<1>5. Tally(<<"M">>, 1, 0, 0, 0, 0, 0)
  BY <1>1, <1>2 DEF Tally
<1>6. Tally(<<"N">>, 0, 1, 0, 0, 0, 0)
  BY <1>1, <1>2 DEF Tally
<1>7. Tally(<<"W">>, 0, 0, 1, 0, 0, 0)
  BY <1>1, <1>2 DEF Tally
<1>8. Tally(<<"S">>, 0, 0, 0, 1, 0, 0)
  BY <1>1, <1>2 DEF Tally
<1>9. Tally(<<"T">>, 0, 0, 0, 0, 1, 0)
  BY <1>1, <1>2 DEF Tally
<1>10. Tally(<<"E">>, 0, 0, 0, 0, 0, 1)
  BY <1>1, <1>2 DEF Tally
<1> QED
  BY <1>4, <1>5, <1>6, <1>7, <1>8, <1>9, <1>10

LEMMA TallyFill ==
  ASSUME NEW n \in Nat
  PROVE  Tally(Nops(n), 0, n, 0, 0, 0, 0) /\ Tally([i \in 1 .. n |-> "E"], 0, 0, 0, 0, 0, n)
<1>1. "N" \in Kinds /\ "E" \in Kinds
  BY DEF Kinds
<1>2. \A k : Nops(n) \in Seq(Kinds) /\ Count(Nops(n), k) = IF "N" = k THEN n ELSE 0
  BY <1>1, CountNops DEF Nops
<1> DEFINE z == [i \in 1 .. n |-> "E"]
<1>3. \A k : z \in Seq(Kinds) /\ Count(z, k) = IF "E" = k THEN n ELSE 0
  BY <1>1, CountNops
<1> HIDE DEF z
<1>4. Tally(z, 0, 0, 0, 0, 0, n)
  BY <1>3 DEF Tally
<1>5. Tally(Nops(n), 0, n, 0, 0, 0, 0)
  BY <1>2 DEF Tally
<1> QED
  BY <1>4, <1>5 DEF z

\* Tuples as concatenations.
LEMMA Join ==
  \A a, b, c \in Seq(Kinds) :
     Len(c) = Len(a) + Len(b) /\ (\A i \in 1 .. Len(a) : c[i] = a[i]) /\ (\A i \in 1 .. Len(b) : c[Len(a) + i] = b[i])
       => a \o b = c
<1> SUFFICES ASSUME NEW a \in Seq(Kinds), NEW b \in Seq(Kinds), NEW c \in Seq(Kinds), Len(c) = Len(a) + Len(b),
                    \A i \in 1 .. Len(a) : c[i] = a[i], \A i \in 1 .. Len(b) : c[Len(a) + i] = b[i]
             PROVE  a \o b = c
  OBVIOUS
<1>1. /\ a \o b \in Seq(Kinds) /\ Len(a \o b) = Len(a) + Len(b)
      /\ \A i \in 1 .. Len(a) + Len(b) : (a \o b)[i] = IF i <= Len(a) THEN a[i] ELSE b[i - Len(a)]
  BY ConcatProperties
<1>2. ASSUME NEW i \in 1 .. Len(a \o b) PROVE (a \o b)[i] = c[i]
  <2>1. CASE i <= Len(a)
    BY <1>1, <2>1
  <2>2. CASE ~(i <= Len(a))
    <3>1. i - Len(a) \in 1 .. Len(b) /\ Len(a) + (i - Len(a)) = i
      BY <1>1, <2>2
    <3> QED
      BY <1>1, <2>2, <3>1
  <2> QED
    BY <2>1, <2>2
<1> QED
  BY <1>1, <1>2, SeqEqual

LEMMA Few ==
  /\ \A i \in 1 .. 1 : i = 1
  /\ \A i \in 1 .. 2 : i = 1 \/ i = 2
  /\ \A i \in 1 .. 3 : i = 1 \/ i = 2 \/ i = 3
OBVIOUS

LEMMA Pairs == \A x, y \in Kinds : <<x>> \o <<y>> = <<x, y>>
<1> TAKE x, y \in Kinds
<1> DEFINE a == <<x>>
           b == <<y>>
           c == <<x, y>>
<1>1. a \in Seq(Kinds) /\ b \in Seq(Kinds) /\ c \in Seq(Kinds) /\ Len(a) = 1 /\ Len(b) = 1 /\ Len(c) = 2
  BY DEF Kinds
<1>2. /\ c[1] = a[1]
      /\ c[2] = b[1]
  OBVIOUS
<1> HIDE DEF a, b, c
<1>3. \A i \in 1 .. Len(a) : c[i] = a[i]
  BY <1>1, <1>2, Few
<1>4. \A i \in 1 .. Len(b) : c[Len(a) + i] = b[i]
  BY <1>1, <1>2, Few
<1>5. Len(c) = Len(a) + Len(b)
  BY <1>1
<1>6. a \o b = c
  BY <1>1, <1>3, <1>4, <1>5, Join, Zenon
<1> QED
  BY <1>6 DEF a, b, c

LEMMA Triples == \A x, y, z \in Kinds : <<x, y>> \o <<z>> = <<x, y, z>>
<1> TAKE x, y, z \in Kinds
<1> DEFINE a == <<x, y>>
           b == <<z>>
           c == <<x, y, z>>
<1>1. a \in Seq(Kinds) /\ b \in Seq(Kinds) /\ c \in Seq(Kinds) /\ Len(a) = 2 /\ Len(b) = 1 /\ Len(c) = 3
  BY DEF Kinds
<1>2. /\ c[1] = a[1] /\ c[2] = a[2]
      /\ c[3] = b[1]
  OBVIOUS
<1> HIDE DEF a, b, c
<1>3. \A i \in 1 .. Len(a) : c[i] = a[i]
  BY <1>1, <1>2, Few
<1>4. \A i \in 1 .. Len(b) : c[Len(a) + i] = b[i]
  BY <1>1, <1>2, Few
<1>5. Len(c) = Len(a) + Len(b)
  BY <1>1
<1>6. a \o b = c
  BY <1>1, <1>3, <1>4, <1>5, Join, Zenon
<1> QED
  BY <1>6 DEF a, b, c

LEMMA Quadruples == \A x, y, z, u \in Kinds : <<x, y, z>> \o <<u>> = <<x, y, z, u>>
<1> TAKE x, y, z, u \in Kinds
<1> DEFINE a == <<x, y, z>>
           b == <<u>>
           c == <<x, y, z, u>>
<1>1. a \in Seq(Kinds) /\ b \in Seq(Kinds) /\ c \in Seq(Kinds) /\ Len(a) = 3 /\ Len(b) = 1 /\ Len(c) = 4
  BY DEF Kinds
<1>2. /\ c[1] = a[1] /\ c[2] = a[2] /\ c[3] = a[3]
      /\ c[4] = b[1]
  OBVIOUS
<1> HIDE DEF a, b, c
<1>3. \A i \in 1 .. Len(a) : c[i] = a[i]
  BY <1>1, <1>2, Few
<1>4. \A i \in 1 .. Len(b) : c[Len(a) + i] = b[i]
  BY <1>1, <1>2, Few
<1>5. Len(c) = Len(a) + Len(b)
  BY <1>1
<1>6. a \o b = c
  BY <1>1, <1>3, <1>4, <1>5, Join, Zenon
<1> QED
  BY <1>6 DEF a, b, c

LEMMA Quintuples == \A x, y \in Kinds : <<"M", "N", "W">> \o <<x, y>> = <<"M", "N", "W", x, y>>
<1> TAKE x, y \in Kinds
<1> DEFINE a == <<"M", "N", "W">>
           b == <<x, y>>
           c == <<"M", "N", "W", x, y>>
<1>1. a \in Seq(Kinds) /\ b \in Seq(Kinds) /\ c \in Seq(Kinds) /\ Len(a) = 3 /\ Len(b) = 2 /\ Len(c) = 5
  BY DEF Kinds
<1>2. /\ c[1] = a[1] /\ c[2] = a[2] /\ c[3] = a[3]
      /\ c[4] = b[1] /\ c[5] = b[2]
  OBVIOUS
<1> HIDE DEF a, b, c
<1>3. \A i \in 1 .. Len(a) : c[i] = a[i]
  BY <1>1, <1>2, Few
<1>4. \A i \in 1 .. Len(b) : c[Len(a) + i] = b[i]
  BY <1>1, <1>2, Few
<1>5. Len(c) = Len(a) + Len(b)
  BY <1>1
<1>6. a \o b = c
  BY <1>1, <1>3, <1>4, <1>5, Join, Zenon
<1> QED
  BY <1>6 DEF a, b, c

LEMMA Sextuples == \A x \in Kinds : <<"M", "N", "W">> \o <<"N", "N", x>> = <<"M", "N", "W", "N", "N", x>>
<1> TAKE x \in Kinds
<1> DEFINE a == <<"M", "N", "W">>
           b == <<"N", "N", x>>
           c == <<"M", "N", "W", "N", "N", x>>
<1>1. a \in Seq(Kinds) /\ b \in Seq(Kinds) /\ c \in Seq(Kinds) /\ Len(a) = 3 /\ Len(b) = 3 /\ Len(c) = 6
  BY DEF Kinds
<1>2. /\ c[1] = a[1] /\ c[2] = a[2] /\ c[3] = a[3]
      /\ c[4] = b[1] /\ c[5] = b[2] /\ c[6] = b[3]
  OBVIOUS
<1> HIDE DEF a, b, c
<1>3. \A i \in 1 .. Len(a) : c[i] = a[i]
  BY <1>1, <1>2, Few
<1>4. \A i \in 1 .. Len(b) : c[Len(a) + i] = b[i]
  BY <1>1, <1>2, Few
<1>5. Len(c) = Len(a) + Len(b)
  BY <1>1
<1>6. a \o b = c
  BY <1>1, <1>3, <1>4, <1>5, Join, Zenon
<1> QED
  BY <1>6 DEF a, b, c

\* The literal layouts.
LEMMA TallyLiterals ==
  /\ Tally(<<"M", "S">>, 1, 0, 0, 1, 0, 0)
  /\ Tally(<<"T", "N">>, 0, 1, 0, 0, 1, 0)
  /\ Tally(<<"N", "W">>, 0, 1, 1, 0, 0, 0)
  /\ Tally(<<"N", "N", "T">>, 0, 2, 0, 0, 1, 0)
  /\ Tally(<<"N", "N", "S">>, 0, 2, 0, 1, 0, 0)
  /\ Tally(<<"S", "E", "E">>, 0, 0, 0, 1, 0, 2)
  /\ Tally(<<"M", "N", "N">>, 1, 2, 0, 0, 0, 0)
  /\ Tally(<<"M", "N", "W">>, 1, 1, 1, 0, 0, 0)
  /\ Tally(<<"M", "S", "T">>, 1, 0, 0, 1, 1, 0)
  /\ Tally(<<"M", "N", "N", "S">>, 1, 2, 0, 1, 0, 0)
  /\ Tally(<<"M", "N", "W", "S", "T">>, 1, 1, 1, 1, 1, 0)
  /\ Tally(<<"M", "N", "W", "N", "N">>, 1, 3, 1, 0, 0, 0)
  /\ Tally(<<"M", "N", "W", "N", "N", "S">>, 1, 3, 1, 1, 0, 0)
  /\ Tally(<<"M", "N", "W", "N", "N", "T">>, 1, 3, 1, 0, 1, 0)
<1>1. {"M", "N", "W", "S", "T", "E"} \subseteq Kinds
  BY DEF Kinds
<1>2. Tally(<<"M", "S">>, 1, 0, 0, 1, 0, 0)
  <2> DEFINE a == <<"M">>
             b == <<"S">>
  <2>1. Tally(a, 1, 0, 0, 0, 0, 0) /\ Tally(b, 0, 0, 0, 1, 0, 0)
    BY TallyOne, Zenon
  <2>2. a \o b = <<"M", "S">>
    BY <1>1, Pairs, Zenon
  <2> HIDE DEF a, b
  <2>3. Tally(a \o b, 1, 0, 0, 1, 0, 0)
    BY <2>1, CountConcat DEF Tally
  <2> QED
    BY <2>2, <2>3, Zenon
<1>3. Tally(<<"T", "N">>, 0, 1, 0, 0, 1, 0)
  <2> DEFINE a == <<"T">>
             b == <<"N">>
  <2>1. Tally(a, 0, 0, 0, 0, 1, 0) /\ Tally(b, 0, 1, 0, 0, 0, 0)
    BY TallyOne, Zenon
  <2>2. a \o b = <<"T", "N">>
    BY <1>1, Pairs, Zenon
  <2> HIDE DEF a, b
  <2>3. Tally(a \o b, 0, 1, 0, 0, 1, 0)
    BY <2>1, CountConcat DEF Tally
  <2> QED
    BY <2>2, <2>3, Zenon
<1>4. Tally(<<"N", "W">>, 0, 1, 1, 0, 0, 0)
  <2> DEFINE a == <<"N">>
             b == <<"W">>
  <2>1. Tally(a, 0, 1, 0, 0, 0, 0) /\ Tally(b, 0, 0, 1, 0, 0, 0)
    BY TallyOne, Zenon
  <2>2. a \o b = <<"N", "W">>
    BY <1>1, Pairs, Zenon
  <2> HIDE DEF a, b
  <2>3. Tally(a \o b, 0, 1, 1, 0, 0, 0)
    BY <2>1, CountConcat DEF Tally
  <2> QED
    BY <2>2, <2>3, Zenon
<1>5. Tally(<<"M", "N">>, 1, 1, 0, 0, 0, 0)
  <2> DEFINE a == <<"M">>
             b == <<"N">>
  <2>1. Tally(a, 1, 0, 0, 0, 0, 0) /\ Tally(b, 0, 1, 0, 0, 0, 0)
    BY TallyOne, Zenon
  <2>2. a \o b = <<"M", "N">>
    BY <1>1, Pairs, Zenon
  <2> HIDE DEF a, b
  <2>3. Tally(a \o b, 1, 1, 0, 0, 0, 0)
    BY <2>1, CountConcat DEF Tally
  <2> QED
    BY <2>2, <2>3, Zenon
<1>6. Tally(<<"N", "N">>, 0, 2, 0, 0, 0, 0)
  <2> DEFINE a == <<"N">>
             b == <<"N">>
  <2>1. Tally(a, 0, 1, 0, 0, 0, 0) /\ Tally(b, 0, 1, 0, 0, 0, 0)
    BY TallyOne, Zenon
  <2>2. a \o b = <<"N", "N">>
    BY <1>1, Pairs, Zenon
  <2> HIDE DEF a, b
  <2>3. Tally(a \o b, 0, 2, 0, 0, 0, 0)
    BY <2>1, CountConcat DEF Tally
  <2> QED
    BY <2>2, <2>3, Zenon
<1>7. Tally(<<"S", "E">>, 0, 0, 0, 1, 0, 1)
  <2> DEFINE a == <<"S">>
             b == <<"E">>
  <2>1. Tally(a, 0, 0, 0, 1, 0, 0) /\ Tally(b, 0, 0, 0, 0, 0, 1)
    BY TallyOne, Zenon
  <2>2. a \o b = <<"S", "E">>
    BY <1>1, Pairs, Zenon
  <2> HIDE DEF a, b
  <2>3. Tally(a \o b, 0, 0, 0, 1, 0, 1)
    BY <2>1, CountConcat DEF Tally
  <2> QED
    BY <2>2, <2>3, Zenon
<1>8. Tally(<<"S", "T">>, 0, 0, 0, 1, 1, 0)
  <2> DEFINE a == <<"S">>
             b == <<"T">>
  <2>1. Tally(a, 0, 0, 0, 1, 0, 0) /\ Tally(b, 0, 0, 0, 0, 1, 0)
    BY TallyOne, Zenon
  <2>2. a \o b = <<"S", "T">>
    BY <1>1, Pairs, Zenon
  <2> HIDE DEF a, b
  <2>3. Tally(a \o b, 0, 0, 0, 1, 1, 0)
    BY <2>1, CountConcat DEF Tally
  <2> QED
    BY <2>2, <2>3, Zenon
<1>9. Tally(<<"N", "N", "T">>, 0, 2, 0, 0, 1, 0)
  <2> DEFINE a == <<"N", "N">>
             b == <<"T">>
  <2>1. Tally(a, 0, 2, 0, 0, 0, 0) /\ Tally(b, 0, 0, 0, 0, 1, 0)
    BY TallyOne, <1>6, Zenon
  <2>2. a \o b = <<"N", "N", "T">>
    BY <1>1, Triples, Zenon
  <2> HIDE DEF a, b
  <2>3. Tally(a \o b, 0, 2, 0, 0, 1, 0)
    BY <2>1, CountConcat DEF Tally
  <2> QED
    BY <2>2, <2>3, Zenon
<1>10. Tally(<<"N", "N", "S">>, 0, 2, 0, 1, 0, 0)
  <2> DEFINE a == <<"N", "N">>
             b == <<"S">>
  <2>1. Tally(a, 0, 2, 0, 0, 0, 0) /\ Tally(b, 0, 0, 0, 1, 0, 0)
    BY TallyOne, <1>6, Zenon
  <2>2. a \o b = <<"N", "N", "S">>
    BY <1>1, Triples, Zenon
  <2> HIDE DEF a, b
  <2>3. Tally(a \o b, 0, 2, 0, 1, 0, 0)
    BY <2>1, CountConcat DEF Tally
  <2> QED
    BY <2>2, <2>3, Zenon
<1>11. Tally(<<"S", "E", "E">>, 0, 0, 0, 1, 0, 2)
  <2> DEFINE a == <<"S", "E">>
             b == <<"E">>
  <2>1. Tally(a, 0, 0, 0, 1, 0, 1) /\ Tally(b, 0, 0, 0, 0, 0, 1)
    BY TallyOne, <1>7, Zenon
  <2>2. a \o b = <<"S", "E", "E">>
    BY <1>1, Triples, Zenon
  <2> HIDE DEF a, b
  <2>3. Tally(a \o b, 0, 0, 0, 1, 0, 2)
    BY <2>1, CountConcat DEF Tally
  <2> QED
    BY <2>2, <2>3, Zenon
<1>12. Tally(<<"M", "N", "N">>, 1, 2, 0, 0, 0, 0)
  <2> DEFINE a == <<"M", "N">>
             b == <<"N">>
  <2>1. Tally(a, 1, 1, 0, 0, 0, 0) /\ Tally(b, 0, 1, 0, 0, 0, 0)
    BY TallyOne, <1>5, Zenon
  <2>2. a \o b = <<"M", "N", "N">>
    BY <1>1, Triples, Zenon
  <2> HIDE DEF a, b
  <2>3. Tally(a \o b, 1, 2, 0, 0, 0, 0)
    BY <2>1, CountConcat DEF Tally
  <2> QED
    BY <2>2, <2>3, Zenon
<1>13. Tally(<<"M", "N", "W">>, 1, 1, 1, 0, 0, 0)
  <2> DEFINE a == <<"M", "N">>
             b == <<"W">>
  <2>1. Tally(a, 1, 1, 0, 0, 0, 0) /\ Tally(b, 0, 0, 1, 0, 0, 0)
    BY TallyOne, <1>5, Zenon
  <2>2. a \o b = <<"M", "N", "W">>
    BY <1>1, Triples, Zenon
  <2> HIDE DEF a, b
  <2>3. Tally(a \o b, 1, 1, 1, 0, 0, 0)
    BY <2>1, CountConcat DEF Tally
  <2> QED
    BY <2>2, <2>3, Zenon
<1>14. Tally(<<"M", "S", "T">>, 1, 0, 0, 1, 1, 0)
  <2> DEFINE a == <<"M", "S">>
             b == <<"T">>
  <2>1. Tally(a, 1, 0, 0, 1, 0, 0) /\ Tally(b, 0, 0, 0, 0, 1, 0)
    BY TallyOne, <1>2, Zenon
  <2>2. a \o b = <<"M", "S", "T">>
    BY <1>1, Triples, Zenon
  <2> HIDE DEF a, b
  <2>3. Tally(a \o b, 1, 0, 0, 1, 1, 0)
    BY <2>1, CountConcat DEF Tally
  <2> QED
    BY <2>2, <2>3, Zenon
<1>15. Tally(<<"M", "N", "N", "S">>, 1, 2, 0, 1, 0, 0)
  <2> DEFINE a == <<"M", "N", "N">>
             b == <<"S">>
  <2>1. Tally(a, 1, 2, 0, 0, 0, 0) /\ Tally(b, 0, 0, 0, 1, 0, 0)
    BY TallyOne, <1>12, Zenon
  <2>2. a \o b = <<"M", "N", "N", "S">>
    BY <1>1, Quadruples, Zenon
  <2> HIDE DEF a, b
  <2>3. Tally(a \o b, 1, 2, 0, 1, 0, 0)
    BY <2>1, CountConcat DEF Tally
  <2> QED
    BY <2>2, <2>3, Zenon
<1>16. Tally(<<"M", "N", "W", "S", "T">>, 1, 1, 1, 1, 1, 0)
  <2> DEFINE a == <<"M", "N", "W">>
             b == <<"S", "T">>
  <2>1. Tally(a, 1, 1, 1, 0, 0, 0) /\ Tally(b, 0, 0, 0, 1, 1, 0)
    BY <1>8, <1>13, Zenon
  <2>2. a \o b = <<"M", "N", "W", "S", "T">>
    BY <1>1, Quintuples, Zenon
  <2> HIDE DEF a, b
  <2>3. Tally(a \o b, 1, 1, 1, 1, 1, 0)
    BY <2>1, CountConcat DEF Tally
  <2> QED
    BY <2>2, <2>3, Zenon
<1>17. Tally(<<"M", "N", "W", "N", "N">>, 1, 3, 1, 0, 0, 0)
  <2> DEFINE a == <<"M", "N", "W">>
             b == <<"N", "N">>
  <2>1. Tally(a, 1, 1, 1, 0, 0, 0) /\ Tally(b, 0, 2, 0, 0, 0, 0)
    BY <1>6, <1>13, Zenon
  <2>2. a \o b = <<"M", "N", "W", "N", "N">>
    BY <1>1, Quintuples, Zenon
  <2> HIDE DEF a, b
  <2>3. Tally(a \o b, 1, 3, 1, 0, 0, 0)
    BY <2>1, CountConcat DEF Tally
  <2> QED
    BY <2>2, <2>3, Zenon
<1>18. Tally(<<"M", "N", "W", "N", "N", "S">>, 1, 3, 1, 1, 0, 0)
  <2> DEFINE a == <<"M", "N", "W">>
             b == <<"N", "N", "S">>
  <2>1. Tally(a, 1, 1, 1, 0, 0, 0) /\ Tally(b, 0, 2, 0, 1, 0, 0)
    BY <1>10, <1>13, Zenon
  <2>2. a \o b = <<"M", "N", "W", "N", "N", "S">>
    BY <1>1, Sextuples, Zenon
  <2> HIDE DEF a, b
  <2>3. Tally(a \o b, 1, 3, 1, 1, 0, 0)
    BY <2>1, CountConcat DEF Tally
  <2> QED
    BY <2>2, <2>3, Zenon
<1>19. Tally(<<"M", "N", "W", "N", "N", "T">>, 1, 3, 1, 0, 1, 0)
  <2> DEFINE a == <<"M", "N", "W">>
             b == <<"N", "N", "T">>
  <2>1. Tally(a, 1, 1, 1, 0, 0, 0) /\ Tally(b, 0, 2, 0, 0, 1, 0)
    BY <1>9, <1>13, Zenon
  <2>2. a \o b = <<"M", "N", "W", "N", "N", "T">>
    BY <1>1, Sextuples, Zenon
  <2> HIDE DEF a, b
  <2>3. Tally(a \o b, 1, 3, 1, 0, 1, 0)
    BY <2>1, CountConcat DEF Tally
  <2> QED
    BY <2>2, <2>3, Zenon
<1> QED
  BY <1>2, <1>3, <1>4, <1>9, <1>10, <1>11, <1>12, <1>13, <1>14, <1>15, <1>16, <1>17, <1>18, <1>19, Zenon

\* What the options of a segment may be: whole words, no kind twice.
Proper(opts, mac) ==
    /\ opts \in Seq(Kinds) /\ Bytes(opts) % 4 = 0
    /\ \A k \in {"M", "W", "S", "T"} : Count(opts, k) <= 1 \/ (k = "S" /\ mac)

\* Every layout is made of whole words and has no kind twice; it has a
\* timestamp if the profile does, and is then as long as the segment was.
LayoutIsProper(l, ts) ==
    /\ Proper(l, FALSE) /\ Bytes(l) \in {8, 12, 20} /\ (ts => Bytes(l) = 20)
    /\ Count(l, "T") = IF ts THEN 1 ELSE 0
    /\ ts => /\ Proper(l \o <<"S", "E", "E">>, TRUE) /\ Bytes(l \o <<"S", "E", "E">>) = 24
             /\ Count(l \o <<"S", "E", "E">>, "T") = 1

\* Twenty bytes with a timestamp.
Twenty(l) ==
    /\ l \in Seq(Kinds) /\ Count(l, "M") = 1 /\ Count(l, "T") = 1 /\ Count(l, "E") = 0
    /\ Count(l, "N") \in Nat /\ Count(l, "W") \in 0 .. 1 /\ Count(l, "S") \in 0 .. 1
    /\ Count(l, "N") + 3 * Count(l, "W") + 2 * Count(l, "S") = 6

LEMMA WithTimestamp ==
  ASSUME NEW l, Twenty(l)
  PROVE  LayoutIsProper(l, TRUE)
<1> DEFINE a == <<"S", "E", "E">>
<1>1. Tally(a, 0, 0, 0, 1, 0, 2)
  BY TallyLiterals
<1> HIDE DEF a
<1>2. Bytes(l) = 20
  BY DEF Twenty, Bytes
<1>3. Proper(l, FALSE)
  BY <1>2 DEF Twenty, Proper
<1>4. /\ l \o a \in Seq(Kinds) /\ Count(l \o a, "M") = 1 /\ Count(l \o a, "N") = Count(l, "N")
      /\ Count(l \o a, "W") = Count(l, "W") /\ Count(l \o a, "S") = Count(l, "S") + 1
      /\ Count(l \o a, "T") = 1 /\ Count(l \o a, "E") = 2
  BY <1>1, CountConcat DEF Twenty, Tally
<1>5. Bytes(l \o a) = 24
  BY <1>4 DEF Twenty, Bytes
<1>6. Proper(l \o a, TRUE)
  BY <1>4, <1>5 DEF Twenty, Proper
<1> QED
  BY <1>2, <1>3, <1>4, <1>5, <1>6 DEF Twenty, LayoutIsProper, a

LEMMA CountConcat3 ==
  ASSUME NEW a \in Seq(Kinds), NEW b \in Seq(Kinds), NEW d \in Seq(Kinds), NEW k
  PROVE  a \o b \o d \in Seq(Kinds) /\ Count(a \o b \o d, k) = Count(a, k) + Count(b, k) + Count(d, k)
<1> DEFINE y == a \o b
<1>1. y \in Seq(Kinds) /\ Count(y, k) = Count(a, k) + Count(b, k)
  BY CountConcat
<1> HIDE DEF y
<1>2. y \o d \in Seq(Kinds) /\ Count(y \o d, k) = Count(y, k) + Count(d, k)
  BY <1>1, CountConcat
<1> QED
  BY <1>1, <1>2 DEF y

LEMMA CountConcat4 ==
  ASSUME NEW a \in Seq(Kinds), NEW b \in Seq(Kinds), NEW d \in Seq(Kinds), NEW e \in Seq(Kinds), NEW k
  PROVE  /\ a \o b \o d \o e \in Seq(Kinds)
         /\ Count(a \o b \o d \o e, k) = Count(a, k) + Count(b, k) + Count(d, k) + Count(e, k)
<1> DEFINE y == a \o b \o d
<1>1. y \in Seq(Kinds) /\ Count(y, k) = Count(a, k) + Count(b, k) + Count(d, k)
  BY CountConcat3
<1> HIDE DEF y
<1>2. y \o e \in Seq(Kinds) /\ Count(y \o e, k) = Count(y, k) + Count(e, k)
  BY <1>1, CountConcat
<1> QED
  BY <1>1, <1>2 DEF y

\* SACK or the two nops in its place.
LEMMA TallySack ==
  ASSUME NEW use
  PROVE  \E c \in 0 .. 1 : Tally(SackOr(use, Nops(2)), 0, 2 - 2 * c, 0, c, 0, 0)
<1> DEFINE z == SackOr(use, Nops(2))
<1>1. CASE use
  <2>1. Tally(z, 0, 0, 0, 1, 0, 0)
    BY <1>1, TallyOne DEF SackOr
  <2> HIDE DEF z
  <2>2. Tally(z, 0, 2 - 2 * 1, 0, 1, 0, 0)
    BY <2>1 DEF Tally
  <2> QED
    BY <2>2 DEF z
<1>2. CASE ~use
  <2>1. Tally(z, 0, 2, 0, 0, 0, 0)
    BY <1>2, TallyFill DEF SackOr
  <2> HIDE DEF z
  <2>2. Tally(z, 0, 2 - 2 * 0, 0, 0, 0, 0)
    BY <2>1 DEF Tally
  <2> QED
    BY <2>2 DEF z
<1> QED
  BY <1>1, <1>2

LEMMA Layouts ==
  ASSUME NEW prof, NEW use
  PROVE  LayoutIsProper(Layout20(prof, use), prof.ts)
<1> DEFINE l == Layout20(prof, use)
           z == SackOr(use, Nops(2))
<1>z. PICK c \in 0 .. 1 : Tally(z, 0, 2 - 2 * c, 0, c, 0, 0)
  BY TallySack
<1>1. CASE ~prof.wscale /\ ~prof.ts
  <2> DEFINE a == <<"M", "N", "N">>
             b == Nops(12)
  <2>1. l = a \o z \o b
    BY <1>1 DEF Layout20
  <2>2. Tally(a, 1, 2, 0, 0, 0, 0) /\ Tally(b, 0, 12, 0, 0, 0, 0)
    BY TallyFill, TallyLiterals
  <2> HIDE DEF l, z, a, b
  <2>3. l \in Seq(Kinds) /\ \A k : Count(l, k) = Count(a, k) + Count(z, k) + Count(b, k)
    BY <1>z, <2>1, <2>2, CountConcat3 DEF Tally
  <2>4. Tally(l, 1, 16 - 2 * c, 0, c, 0, 0)
    BY <1>z, <2>2, <2>3 DEF Tally
  <2>5. Bytes(l) = 20
    BY <1>z, <2>4 DEF Tally, Bytes
  <2>6. Proper(l, FALSE)
    BY <1>z, <2>4, <2>5 DEF Tally, Proper
  <2>7. LayoutIsProper(l, prof.ts)
    BY <1>1, <2>4, <2>5, <2>6 DEF Tally, LayoutIsProper
  <2> QED
    BY <2>7 DEF l
<1>2. CASE prof.wscale /\ ~prof.ts /\ use
  <2> DEFINE a == <<"M", "N", "W">>
             b == <<"N", "N", "S">>
  <2>1. l = a \o b
    BY <1>2 DEF Layout20
  <2>2. Tally(a, 1, 1, 1, 0, 0, 0) /\ Tally(b, 0, 2, 0, 1, 0, 0)
    BY TallyLiterals
  <2> HIDE DEF l, z, a, b
  <2>3. l \in Seq(Kinds) /\ \A k : Count(l, k) = Count(a, k) + Count(b, k)
    BY <2>1, <2>2, CountConcat DEF Tally
  <2>4. Tally(l, 1, 3, 1, 1, 0, 0)
    BY <2>2, <2>3 DEF Tally
  <2>5. Bytes(l) = 12
    BY <2>4 DEF Tally, Bytes
  <2>6. Proper(l, FALSE)
    BY <2>4, <2>5 DEF Tally, Proper
  <2>7. LayoutIsProper(l, prof.ts)
    BY <1>2, <2>4, <2>5, <2>6 DEF Tally, LayoutIsProper
  <2> QED
    BY <2>7 DEF l
<1>3. CASE prof.wscale /\ ~prof.ts /\ ~use
  <2> DEFINE a == <<"M", "N", "W">>
             b == <<>>
  <2>1. l = a \o b
    BY <1>3 DEF Layout20
  <2>2. Tally(a, 1, 1, 1, 0, 0, 0) /\ Tally(b, 0, 0, 0, 0, 0, 0)
    BY TallyLiterals, TallyOne
  <2> HIDE DEF l, z, a, b
  <2>3. l \in Seq(Kinds) /\ \A k : Count(l, k) = Count(a, k) + Count(b, k)
    BY <2>1, <2>2, CountConcat DEF Tally
  <2>4. Tally(l, 1, 1, 1, 0, 0, 0)
    BY <2>2, <2>3 DEF Tally
  <2>5. Bytes(l) = 8
    BY <2>4 DEF Tally, Bytes
  <2>6. Proper(l, FALSE)
    BY <2>4, <2>5 DEF Tally, Proper
  <2>7. LayoutIsProper(l, prof.ts)
    BY <1>3, <2>4, <2>5, <2>6 DEF Tally, LayoutIsProper
  <2> QED
    BY <2>7 DEF l
<1>4. CASE prof.ts /\ prof.opt1 = "S" /\ prof.wscale
  <2> DEFINE a == <<"M">>
             b == <<"T", "N">>
             d == <<"W">>
  <2>1. l = a \o z \o b \o d
    BY <1>4 DEF Layout20
  <2>2. Tally(a, 1, 0, 0, 0, 0, 0) /\ Tally(b, 0, 1, 0, 0, 1, 0) /\ Tally(d, 0, 0, 1, 0, 0, 0)
    BY TallyLiterals, TallyOne
  <2> HIDE DEF l, z, a, b, d
  <2>3. l \in Seq(Kinds) /\ \A k : Count(l, k) = Count(a, k) + Count(z, k) + Count(b, k) + Count(d, k)
    BY <1>z, <2>1, <2>2, CountConcat4 DEF Tally
  <2>4. Tally(l, 1, 3 - 2 * c, 1, c, 1, 0)
    BY <1>z, <2>2, <2>3 DEF Tally
  <2>5. Twenty(l)
    BY <1>z, <2>4 DEF Tally, Twenty
  <2>6. LayoutIsProper(l, TRUE)
    BY <2>5, WithTimestamp, Zenon
  <2>7. LayoutIsProper(l, prof.ts)
    BY <1>4, <2>6 DEF LayoutIsProper
  <2> QED
    BY <2>7 DEF l
<1>5. CASE prof.ts /\ prof.opt1 = "S" /\ ~prof.wscale
  <2> DEFINE a == <<"M">>
             b == <<"T", "N">>
             d == Nops(3)
  <2>1. l = a \o z \o b \o d
    BY <1>5 DEF Layout20
  <2>2. Tally(a, 1, 0, 0, 0, 0, 0) /\ Tally(b, 0, 1, 0, 0, 1, 0) /\ Tally(d, 0, 3, 0, 0, 0, 0)
    BY TallyFill, TallyLiterals, TallyOne
  <2> HIDE DEF l, z, a, b, d
  <2>3. l \in Seq(Kinds) /\ \A k : Count(l, k) = Count(a, k) + Count(z, k) + Count(b, k) + Count(d, k)
    BY <1>z, <2>1, <2>2, CountConcat4 DEF Tally
  <2>4. Tally(l, 1, 6 - 2 * c, 0, c, 1, 0)
    BY <1>z, <2>2, <2>3 DEF Tally
  <2>5. Twenty(l)
    BY <1>z, <2>4 DEF Tally, Twenty
  <2>6. LayoutIsProper(l, TRUE)
    BY <2>5, WithTimestamp, Zenon
  <2>7. LayoutIsProper(l, prof.ts)
    BY <1>5, <2>6 DEF LayoutIsProper
  <2> QED
    BY <2>7 DEF l
<1>6. CASE prof.wscale /\ prof.ts /\ prof.opt1 # "S"
  <2> DEFINE a == <<"M", "N", "W">>
             b == <<"T">>
  <2>1. l = a \o z \o b
    BY <1>6 DEF Layout20
  <2>2. Tally(a, 1, 1, 1, 0, 0, 0) /\ Tally(b, 0, 0, 0, 0, 1, 0)
    BY TallyLiterals, TallyOne
  <2> HIDE DEF l, z, a, b
  <2>3. l \in Seq(Kinds) /\ \A k : Count(l, k) = Count(a, k) + Count(z, k) + Count(b, k)
    BY <1>z, <2>1, <2>2, CountConcat3 DEF Tally
  <2>4. Tally(l, 1, 3 - 2 * c, 1, c, 1, 0)
    BY <1>z, <2>2, <2>3 DEF Tally
  <2>5. Twenty(l)
    BY <1>z, <2>4 DEF Tally, Twenty
  <2>6. LayoutIsProper(l, TRUE)
    BY <2>5, WithTimestamp, Zenon
  <2>7. LayoutIsProper(l, prof.ts)
    BY <1>6, <2>6 DEF LayoutIsProper
  <2> QED
    BY <2>7 DEF l
<1>7. CASE ~prof.wscale /\ prof.ts /\ prof.opt1 # "S"
  <2>1. l = <<"M", "N", "W", "N", "N", "T">>
    BY <1>7 DEF Layout20
  <2>2. Tally(l, 1, 3, 1, 0, 1, 0)
    BY <2>1, TallyLiterals, Zenon
  <2> HIDE DEF l
  <2>5. Twenty(l)
    BY <2>2 DEF Tally, Twenty
  <2>6. LayoutIsProper(l, TRUE)
    BY <2>5, WithTimestamp, Zenon
  <2>7. LayoutIsProper(l, prof.ts)
    BY <1>7, <2>6 DEF LayoutIsProper
  <2> QED
    BY <2>7 DEF l
<1> QED
  BY <1>1, <1>2, <1>3, <1>4, <1>5, <1>6, <1>7
-----------------------------------------------------------------------------
(* applyTCP, block by block.                                               *)

Fields == {"proto", "kind", "to", "flags", "opts", "doff", "win", "ttl", "df", "id", "code", "tsecr", "clk"}

\* What the profiles have in common, as toWinProfile renders them.
Coherent(prof) ==
    /\ prof.ts => prof.wscale /\ prof.ordered
    /\ prof.ecnEcho => prof.ts /\ prof.opt1 = "S" /\ prof.ipid # "zero" /\ prof.ecnCC
    /\ prof.ts /\ prof.opt1 = "S" => Clock(prof) = "ms"

\* A segment between the blocks of applyTCP: all but the answer to the probe
\* without window scale, sixteen bytes, has the persona's clock.
Sound(r, prof) ==
    /\ DOMAIN r = Fields /\ Proper(r.opts, MacTail(prof))
    /\ r.doff = Bytes(r.opts) /\ r.doff \in {8, 12, 16, 20, 24}
    /\ prof.ts => Count(r.opts, "T") = 0 \/ r.clk = Clock(prof) \/ r.opts = <<"M", "S", "T">>
Echoes(r) == Count(r.opts, "T") = 1 /\ r.tsecr = "client"

SynOpts == {<<"M", "S", "T">>, <<"M", "N", "N", "S">>, <<"M", "N", "W", "S", "T">>, <<"M", "N", "W", "N", "N", "S">>}

LEMMA SynOptsTally ==
  ASSUME NEW o \in SynOpts
  PROVE  /\ Proper(o, FALSE) /\ Bytes(o) \in {8, 12, 16, 20}
         /\ Count(o, "T") = IF Bytes(o) \in {16, 20} THEN 1 ELSE 0
         /\ Bytes(o) = 16 => o = <<"M", "S", "T">>
<1>1. CASE o = <<"M", "S", "T">>
  <2>1. Tally(o, 1, 0, 0, 1, 1, 0)
    BY <1>1, TallyLiterals, Zenon
  <2>2. Bytes(o) = 16
    BY <2>1 DEF Tally, Bytes
  <2> QED
    BY <1>1, <2>1, <2>2 DEF Tally, Proper
<1>2. CASE o = <<"M", "N", "N", "S">>
  <2>1. Tally(o, 1, 2, 0, 1, 0, 0)
    BY <1>2, TallyLiterals, Zenon
  <2>2. Bytes(o) = 8
    BY <2>1 DEF Tally, Bytes
  <2> QED
    BY <2>1, <2>2 DEF Tally, Proper
<1>3. CASE o = <<"M", "N", "W", "S", "T">>
  <2>1. Tally(o, 1, 1, 1, 1, 1, 0)
    BY <1>3, TallyLiterals, Zenon
  <2>2. Bytes(o) = 20
    BY <2>1 DEF Tally, Bytes
  <2> QED
    BY <2>1, <2>2 DEF Tally, Proper
<1>4. CASE o = <<"M", "N", "W", "N", "N", "S">>
  <2>1. Tally(o, 1, 3, 1, 1, 0, 0)
    BY <1>4, TallyLiterals, Zenon
  <2>2. Bytes(o) = 12
    BY <2>1 DEF Tally, Bytes
  <2> QED
    BY <2>1, <2>2 DEF Tally, Proper
<1> QED
  BY <1>1, <1>2, <1>3, <1>4 DEF SynOpts

\* The twelve bytes of ExpandSynAck become twenty.
LEMMA Expanded ==
  ASSUME NEW o \in SynOpts, Bytes(o) = 12
  PROVE  Bytes(o \o [i \in 1 .. 8 |-> "E"]) = 20
<1> DEFINE z == [i \in 1 .. 8 |-> "E"]
<1>1. Tally(z, 0, 0, 0, 0, 0, 8)
  BY TallyFill
<1>2. o \in Seq(Kinds)
  BY SynOptsTally DEF Proper
<1>3. \A k : Count(o, k) \in Nat
  BY <1>2, CountType
<1> HIDE DEF z
<1>4. \A k : Count(o \o z, k) = Count(o, k) + Count(z, k)
  BY <1>1, <1>2, CountConcat DEF Tally
<1>5. /\ Count(o \o z, "M") = Count(o, "M") /\ Count(o \o z, "N") = Count(o, "N")
      /\ Count(o \o z, "W") = Count(o, "W") /\ Count(o \o z, "S") = Count(o, "S")
      /\ Count(o \o z, "T") = Count(o, "T") /\ Count(o \o z, "E") = Count(o, "E") + 8
  BY <1>1, <1>3, <1>4 DEF Tally
<1>6. Bytes(o \o z) = Bytes(o) + 8
  BY <1>3, <1>5 DEF Bytes
<1> QED
  BY <1>6 DEF z

\* Template20 on a segment of twenty bytes.
LEMMA Templated ==
  ASSUME NEW p, NEW prof, NEW flow, DOMAIN p = Fields, p.doff = 20, prof.ordered, "SYN" \in p.flags,
         Coherent(prof)
  PROVE  LET a == Template20(p, prof, flow) IN
           /\ Sound(a, prof) /\ a.doff # 16 /\ a.flags = p.flags
           /\ prof.ecnEcho => a.doff = 20
           /\ prof.ts /\ flow.have /\ flow.ts => Echoes(a)
<1> DEFINE a == Template20(p, prof, flow)
           l == Layout20(prof, prof.sack /\ HasAt(p.opts, "S", SackOffsets))
           o == IF MacTail(prof) THEN l \o <<"S", "E", "E">> ELSE l
           c == IF prof.ts THEN (IF prof.opt1 = "S" THEN "ms" ELSE Clock(prof)) ELSE "none"
           s == IF prof.ts THEN KeptTSecr(p, flow) ELSE "none"
<1>1. LayoutIsProper(l, prof.ts)
  BY Layouts
<1>2. /\ DOMAIN a = Fields /\ a.flags = p.flags /\ a.opts = o /\ a.doff = Bytes(o)
      /\ a.clk = c /\ a.tsecr = s
  BY DEF Template20, IsSyn, WithOpts, Fields
<1> HIDE DEF a, l
<1>3. Proper(o, MacTail(prof)) /\ Bytes(o) \in {8, 12, 20, 24} /\ (prof.ecnEcho => Bytes(o) = 20)
  BY <1>1 DEF LayoutIsProper, MacTail, Coherent, Proper
<1>4. Count(o, "T") = IF prof.ts THEN 1 ELSE 0
  BY <1>1 DEF LayoutIsProper, MacTail
<1>5. prof.ts => c = Clock(prof)
  BY DEF Coherent
<1>6. flow.have /\ flow.ts /\ prof.ts => s = "client"
  BY DEF KeptTSecr
<1> HIDE DEF o, c, s
<1>7. Sound(a, prof)
  BY <1>2, <1>3, <1>4, <1>5 DEF Sound
<1> QED
  BY <1>2, <1>3, <1>4, <1>6, <1>7 DEF Echoes, a

\* A SYN or SYN-ACK of the host.
HostSyn(p) ==
    /\ DOMAIN p = Fields /\ "SYN" \in p.flags /\ p.opts \in SynOpts /\ p.doff = Bytes(p.opts)
    /\ Count(p.opts, "T") = 1 => p.tsecr = "client"

\* The first blocks: growing, the window, the template of twenty bytes.
LEMMA FirstBlocks ==
  ASSUME NEW p, NEW prof, NEW flow, HostSyn(p), Coherent(prof)
  PROVE  LET a == Template20(SetWindow(ExpandSynAck(p, prof, flow), prof), prof, flow) IN
           /\ Sound(a, prof) /\ a.flags = p.flags
           /\ a.doff = 16 => a.opts = <<"M", "S", "T">>
           /\ prof.ecnEcho /\ p.doff >= 12 => a.doff >= 12
           /\ prof.ecnEcho /\ p.doff >= 12 /\ IsSynAck(p) /\ flow.have /\ flow.ts => Echoes(a)
<1> DEFINE e == ExpandSynAck(p, prof, flow)
           w == SetWindow(e, prof)
           a == Template20(w, prof, flow)
           grow == /\ p.doff = 12 /\ IsSynAck(p) /\ prof.ts /\ prof.opt1 = "S" /\ prof.wscale
                   /\ ~flow.have \/ flow.ts
<1>1. /\ Proper(p.opts, FALSE) /\ p.doff \in {8, 12, 16, 20}
      /\ Count(p.opts, "T") = IF p.doff \in {16, 20} THEN 1 ELSE 0
      /\ p.doff = 16 => p.opts = <<"M", "S", "T">>
  BY SynOptsTally DEF HostSyn
<1>2. (~grow /\ e = p) \/ (grow /\ DOMAIN e = Fields /\ e.doff = 20 /\ e.flags = p.flags)
  <2>1. CASE grow
    <3>1. e = WithOpts(p, p.opts \o [i \in 1 .. 8 |-> "E"])
      BY <2>1 DEF ExpandSynAck
    <3>2. Bytes(p.opts \o [i \in 1 .. 8 |-> "E"]) = 20
      BY <2>1, Expanded DEF HostSyn
    <3> QED
      BY <2>1, <3>1, <3>2 DEF WithOpts, HostSyn, Fields
  <2>2. CASE ~grow
    BY <2>2 DEF ExpandSynAck
  <2> QED
    BY <2>1, <2>2
<1>3. ~grow => e = p
  BY DEF ExpandSynAck
<1>4. DOMAIN e = Fields /\ e.flags = p.flags
  BY <1>2 DEF HostSyn
<1> HIDE DEF e
<1>5. /\ DOMAIN w = Fields /\ w.flags = p.flags /\ w.doff = e.doff /\ w.opts = e.opts /\ w.tsecr = e.tsecr
      /\ w.clk = e.clk
  BY <1>4 DEF SetWindow, Fields
<1> HIDE DEF w, grow
<1>6. CASE w.doff = 20 /\ prof.ordered
  <2>1. /\ Sound(a, prof) /\ a.doff # 16 /\ a.flags = w.flags /\ (prof.ecnEcho => a.doff = 20)
        /\ prof.ts /\ flow.have /\ flow.ts => Echoes(a)
    BY <1>5, <1>6, Templated DEF HostSyn
  <2> HIDE DEF a
  <2>2. prof.ecnEcho /\ flow.have /\ flow.ts => Echoes(a)
    BY <2>1 DEF Coherent
  <2>3. /\ Sound(a, prof) /\ a.flags = p.flags
        /\ a.doff = 16 => a.opts = <<"M", "S", "T">>
        /\ prof.ecnEcho /\ p.doff >= 12 => a.doff >= 12
        /\ prof.ecnEcho /\ p.doff >= 12 /\ IsSynAck(p) /\ flow.have /\ flow.ts => Echoes(a)
    BY <1>5, <2>1, <2>2
  <2> QED
    BY <2>3 DEF a, w, e
<1>7. CASE ~(w.doff = 20 /\ prof.ordered)
  <2>1. a = w
    BY <1>7 DEF Template20
  <2>2. ~grow
    BY <1>2, <1>5, <1>7 DEF grow, Coherent
  <2>3. e = p
    BY <1>3, <2>2
  <2>4. w.doff = p.doff /\ w.opts = p.opts /\ w.clk = p.clk /\ w.tsecr = p.tsecr
    BY <1>5, <2>3
  <2>5. w.doff = 20 => ~prof.ts
    BY <1>7 DEF Coherent
  <2>6. Proper(w.opts, MacTail(prof))
    BY <1>1, <2>4 DEF Proper
  <2>7. Sound(w, prof)
    BY <1>1, <1>5, <2>4, <2>5, <2>6 DEF Sound, HostSyn
  <2>8. prof.ecnEcho /\ p.doff >= 12 /\ IsSynAck(p) /\ flow.have /\ flow.ts => p.doff = 16
    BY <1>1, <2>2, <2>4, <2>5 DEF grow, Coherent
  <2>9. p.doff = 16 => Echoes(w)
    BY <1>1, <2>4 DEF Echoes, HostSyn
  <2>10. /\ Sound(a, prof) /\ a.flags = p.flags
         /\ a.doff = 16 => a.opts = <<"M", "S", "T">>
         /\ prof.ecnEcho /\ p.doff >= 12 => a.doff >= 12
         /\ prof.ecnEcho /\ p.doff >= 12 /\ IsSynAck(p) /\ flow.have /\ flow.ts => Echoes(a)
    BY <1>1, <1>5, <2>1, <2>4, <2>7, <2>8, <2>9
  <2> QED
    BY <2>10 DEF a, w, e
<1> QED
  BY <1>6, <1>7

\* EcnSynAck keeps the length; what it writes has no timestamp.
LEMMA NoTimestamp ==
  ASSUME NEW use, NEW n \in {12, 16, 20, 24}
  PROVE  LET o == <<"M", "N", "N">> \o SackOr(use, Nops(2)) \o <<"N", "W">> \o Nops(n - 12) IN
           Proper(o, FALSE) /\ Bytes(o) = n /\ Count(o, "T") = 0
<1> DEFINE a == <<"M", "N", "N">>
           z == SackOr(use, Nops(2))
           b == <<"N", "W">>
           m == n - 12
           d == Nops(m)
           o == a \o z \o b \o d
<1>1. PICK c \in 0 .. 1 : Tally(z, 0, 2 - 2 * c, 0, c, 0, 0)
  BY TallySack
<1>2. m \in Nat /\ n = m + 12 /\ n % 4 = 0
  OBVIOUS
<1> HIDE DEF m
<1>3. Tally(a, 1, 2, 0, 0, 0, 0) /\ Tally(b, 0, 1, 1, 0, 0, 0) /\ Tally(d, 0, m, 0, 0, 0, 0)
  BY <1>2, TallyFill, TallyLiterals
<1> HIDE DEF a, z, b, d
<1>4. o \in Seq(Kinds) /\ \A k : Count(o, k) = Count(a, k) + Count(z, k) + Count(b, k) + Count(d, k)
  BY <1>1, <1>3, CountConcat4 DEF Tally
<1> HIDE DEF o
<1>5. Tally(o, 1, 5 + m - 2 * c, 1, c, 0, 0)
  BY <1>1, <1>2, <1>3, <1>4 DEF Tally
<1>6. Bytes(o) = n
  BY <1>1, <1>2, <1>5 DEF Tally, Bytes
<1>7. Proper(o, FALSE)
  BY <1>1, <1>2, <1>5, <1>6 DEF Tally, Proper
<1>8. Proper(o, FALSE) /\ Bytes(o) = n /\ Count(o, "T") = 0
  BY <1>5, <1>6, <1>7 DEF Tally
<1> QED
  BY <1>8 DEF o, a, z, b, d, m

\* What the blocks keep from the second on.
Mid(r, p, prof, flow) ==
    /\ Sound(r, prof) /\ r.flags = p.flags
    /\ r.doff = 16 => r.opts = <<"M", "S", "T">> \/ Count(r.opts, "T") = 0
    /\ prof.ecnEcho /\ p.doff >= 12 /\ IsSynAck(p) /\ flow.have =>
         IF flow.ts THEN Echoes(r) ELSE Count(r.opts, "T") = 0

LEMMA EcnBlock ==
  ASSUME NEW a, NEW p, NEW prof, NEW flow, Coherent(prof), Sound(a, prof), a.flags = p.flags,
         a.doff = 16 => a.opts = <<"M", "S", "T">>,
         prof.ecnEcho /\ p.doff >= 12 => a.doff >= 12,
         prof.ecnEcho /\ p.doff >= 12 /\ IsSynAck(p) /\ flow.have /\ flow.ts => Echoes(a)
  PROVE  Mid(EcnSynAck(a, prof, flow), p, prof, flow)
<1> DEFINE r == EcnSynAck(a, prof, flow)
           fires == /\ IsSynAck(a) /\ prof.ecnEcho /\ flow.have /\ ~flow.ts
                    /\ prof.wscale /\ prof.ordered /\ a.doff >= 12
<1>1. CASE fires
  <2> DEFINE o == <<"M", "N", "N">> \o SackOr(prof.sack /\ Has(a.opts, "S"), Nops(2))
                      \o <<"N", "W">> \o Nops(a.doff - 12)
  <2>1. DOMAIN r = Fields /\ r.flags = a.flags /\ r.opts = o /\ r.doff = a.doff
    BY <1>1 DEF EcnSynAck, Sound, Fields
  <2>2. a.doff \in {12, 16, 20, 24}
    BY <1>1 DEF Sound
  <2>3. Proper(o, FALSE) /\ Bytes(o) = a.doff /\ Count(o, "T") = 0
    BY <2>2, NoTimestamp
  <2> HIDE DEF o, r
  <2>4. Proper(o, MacTail(prof))
    BY <2>3 DEF Proper
  <2>5. Sound(r, prof)
    BY <2>1, <2>2, <2>3, <2>4 DEF Sound
  <2>6. Mid(r, p, prof, flow)
    BY <1>1, <2>1, <2>3, <2>5 DEF Mid
  <2> QED
    BY <2>6 DEF r
<1>2. CASE ~fires
  <2>1. r = a
    BY <1>2 DEF EcnSynAck
  <2>2. IsSynAck(a) <=> IsSynAck(p)
    BY DEF IsSynAck
  <2>3. prof.ecnEcho /\ p.doff >= 12 /\ IsSynAck(p) /\ flow.have => flow.ts
    BY <1>2, <2>2 DEF Coherent
  <2> HIDE DEF r
  <2>4. Mid(r, p, prof, flow)
    BY <2>1, <2>3 DEF Mid
  <2> QED
    BY <2>4 DEF r
<1> QED
  BY <1>1, <1>2

\* The other layouts of OutboundSyn and O6.
LEMMA ShortLayouts ==
  ASSUME NEW use
  PROVE  LET z == SackOr(use, Nops(2))
             o == <<"M", "N", "N">> \o z \o <<"N", "W">>
             x == <<"M", "N", "W", "N", "N">> \o z
             y == <<"M", "N", "N">> \o z
         IN  /\ Proper(o, FALSE) /\ Bytes(o) = 12 /\ Count(o, "T") = 0
             /\ Proper(x, FALSE) /\ Bytes(x) = 12 /\ Count(x, "T") = 0
             /\ Proper(y, FALSE) /\ Bytes(y) = 8 /\ Count(y, "T") = 0
<1> DEFINE a == <<"M", "N", "N">>
           b == <<"N", "W">>
           d == <<"M", "N", "W", "N", "N">>
           z == SackOr(use, Nops(2))
           o == a \o z \o b
           x == d \o z
           y == a \o z
<1>1. PICK c \in 0 .. 1 : Tally(z, 0, 2 - 2 * c, 0, c, 0, 0)
  BY TallySack
<1>2. Tally(a, 1, 2, 0, 0, 0, 0) /\ Tally(b, 0, 1, 1, 0, 0, 0) /\ Tally(d, 1, 3, 1, 0, 0, 0)
  BY TallyLiterals
<1> HIDE DEF a, b, d, z
<1>3. o \in Seq(Kinds) /\ \A k : Count(o, k) = Count(a, k) + Count(z, k) + Count(b, k)
  BY <1>1, <1>2, CountConcat3 DEF Tally
<1>4. x \in Seq(Kinds) /\ \A k : Count(x, k) = Count(d, k) + Count(z, k)
  BY <1>1, <1>2, CountConcat DEF Tally
<1>5. y \in Seq(Kinds) /\ \A k : Count(y, k) = Count(a, k) + Count(z, k)
  BY <1>1, <1>2, CountConcat DEF Tally
<1> HIDE DEF o, x, y
<1>6. Tally(o, 1, 5 - 2 * c, 1, c, 0, 0)
  BY <1>1, <1>2, <1>3 DEF Tally
<1>7. Tally(x, 1, 5 - 2 * c, 1, c, 0, 0)
  BY <1>1, <1>2, <1>4 DEF Tally
<1>8. Tally(y, 1, 4 - 2 * c, 0, c, 0, 0)
  BY <1>1, <1>2, <1>5 DEF Tally
<1>9. Bytes(o) = 12 /\ Bytes(x) = 12 /\ Bytes(y) = 8
  BY <1>1, <1>6, <1>7, <1>8 DEF Tally, Bytes
<1>10. Proper(o, FALSE)
  BY <1>1, <1>6, <1>9 DEF Tally, Proper
<1>11. Proper(x, FALSE)
  BY <1>1, <1>7, <1>9 DEF Tally, Proper
<1>12. Proper(y, FALSE)
  BY <1>1, <1>8, <1>9 DEF Tally, Proper
<1>13. Count(o, "T") = 0 /\ Count(x, "T") = 0 /\ Count(y, "T") = 0
  BY <1>6, <1>7, <1>8 DEF Tally
<1>14. /\ Proper(o, FALSE) /\ Bytes(o) = 12 /\ Count(o, "T") = 0
       /\ Proper(x, FALSE) /\ Bytes(x) = 12 /\ Count(x, "T") = 0
       /\ Proper(y, FALSE) /\ Bytes(y) = 8 /\ Count(y, "T") = 0
  BY <1>9, <1>10, <1>11, <1>12, <1>13
<1> QED
  BY <1>14 DEF o, x, y, a, b, d, z

LEMMA OutboundBlock ==
  ASSUME NEW r, NEW p, NEW prof, NEW flow, Mid(r, p, prof, flow)
  PROVE  Mid(OutboundSyn(r, prof), p, prof, flow)
<1> DEFINE s == OutboundSyn(r, prof)
           fires == r.doff = 12 /\ prof.wscale /\ prof.ordered /\ IsSyn(r) /\ ~IsSynAck(r)
<1>1. CASE fires
  <2> DEFINE sack == prof.sack /\ HasAt(r.opts, "S", {2, 4, 6, 8, 10})
             o == IF prof.ecnEcho THEN <<"M", "N", "N">> \o SackOr(sack, Nops(2)) \o <<"N", "W">>
                  ELSE <<"M", "N", "W", "N", "N">> \o SackOr(sack, Nops(2))
  <2>1. DOMAIN s = Fields /\ s.flags = r.flags /\ s.opts = o /\ s.doff = r.doff
    BY <1>1 DEF OutboundSyn, Mid, Sound, Fields
  <2> HIDE DEF sack
  <2>2. Proper(o, FALSE) /\ Bytes(o) = 12 /\ Count(o, "T") = 0
    BY ShortLayouts
  <2> HIDE DEF o, s
  <2>3. Proper(o, MacTail(prof))
    BY <2>2 DEF Proper
  <2>4. Sound(s, prof)
    BY <1>1, <2>1, <2>2, <2>3 DEF Sound
  <2>5. ~IsSynAck(p)
    BY <1>1 DEF Mid, IsSynAck
  <2>6. Mid(s, p, prof, flow)
    BY <1>1, <2>1, <2>4, <2>5 DEF Mid
  <2> QED
    BY <2>6 DEF s
<1>2. CASE ~fires
  <2>1. s = r
    BY <1>2 DEF OutboundSyn
  <2> QED
    BY <2>1
<1> QED
  BY <1>1, <1>2

\* The timestamp of the sixteen bytes stands at offset six.
LEMMA SixBytes == HasAt(<<"M", "S", "T">>, "T", {6})
<1> DEFINE o == <<"M", "S", "T">>
           h == SubSeq(o, 1, 2)
<1>1. o \in Seq(Kinds) /\ Len(o) = 3 /\ o[1] = "M" /\ o[2] = "S" /\ o[3] = "T"
  BY DEF Kinds
<1>2. 3 \in DOMAIN o
  OBVIOUS
<1> HIDE DEF o
<1>3. h \in Seq(Kinds) /\ Len(h) = 2 /\ h[1] = "M" /\ h[2] = "S"
  BY <1>1, SubSeqProperties
<1>4. h = <<"M", "S">>
  <2> DEFINE t == <<"M", "S">>
  <2>1. t \in Seq(Kinds) /\ Len(t) = 2 /\ t[1] = "M" /\ t[2] = "S"
    BY DEF Kinds
  <2> HIDE DEF h, t
  <2>2. \A i \in 1 .. Len(h) : h[i] = t[i]
    BY <1>3, <2>1, Few
  <2>3. h = t
    BY <1>3, <2>1, <2>2, SeqEqual
  <2> QED
    BY <2>3 DEF t
<1>5. Tally(h, 1, 0, 0, 1, 0, 0)
  BY <1>4, TallyLiterals, Zenon
<1> HIDE DEF h
<1>6. Bytes(h) = 6
  BY <1>5 DEF Tally, Bytes
<1>7. Bytes(SubSeq(o, 1, 3 - 1)) = 6
  BY <1>6 DEF h
<1>8. HasAt(o, "T", {6})
  BY <1>1, <1>2, <1>7 DEF HasAt
<1> QED
  BY <1>8 DEF o

\* What O6 leaves, and the blocks after it keep.
Done(r, p, prof, flow) ==
    /\ DOMAIN r = Fields /\ Proper(r.opts, MacTail(prof)) /\ r.doff = Bytes(r.opts) /\ r.flags = p.flags
    /\ prof.ts => Count(r.opts, "T") = 0 \/ r.clk = Clock(prof)
    /\ prof.ecnEcho /\ p.doff >= 12 /\ IsSynAck(p) /\ flow.have =>
         IF flow.ts THEN Echoes(r) ELSE Count(r.opts, "T") = 0

LEMMA O6Block ==
  ASSUME NEW r, NEW p, NEW prof, NEW flow, Coherent(prof), "SYN" \in p.flags, Mid(r, p, prof, flow)
  PROVE  Done(O6(r, prof), p, prof, flow)
<1> DEFINE s == O6(r, prof)
<1>1. CASE r.doff # 16
  <2>1. s = r
    BY <1>1 DEF O6
  <2>2. r.opts # <<"M", "S", "T">>
    <3> DEFINE t == <<"M", "S", "T">>
    <3>1. Tally(t, 1, 0, 0, 1, 1, 0)
      BY TallyLiterals
    <3> HIDE DEF t
    <3>2. Bytes(t) = 16
      BY <3>1 DEF Tally, Bytes
    <3>3. r.opts # t
      BY <1>1, <3>2 DEF Mid, Sound
    <3> QED
      BY <3>3 DEF t
  <2> HIDE DEF s
  <2>3. Done(s, p, prof, flow)
    BY <2>1, <2>2 DEF Mid, Sound, Done
  <2> QED
    BY <2>3 DEF s
<1>2. CASE r.doff = 16 /\ prof.ts
  <2> DEFINE c == IF HasAt(r.opts, "T", {6}) THEN Clock(prof) ELSE r.clk
  <2>1. /\ DOMAIN s = Fields /\ s.flags = r.flags /\ s.opts = r.opts /\ s.doff = r.doff /\ s.tsecr = r.tsecr
        /\ s.clk = c
    BY <1>2 DEF O6, IsSyn, Mid, Sound, Fields
  <2>2. Count(r.opts, "T") = 0 \/ c = Clock(prof)
    BY <1>2, SixBytes DEF Mid
  <2> HIDE DEF s, c
  <2>3. Done(s, p, prof, flow)
    BY <2>1, <2>2 DEF Mid, Sound, Done, Echoes
  <2> QED
    BY <2>3 DEF s
<1>3. CASE r.doff = 16 /\ ~prof.ts /\ prof.winQuirks
  <2> DEFINE o == <<"M", "N", "N">> \o SackOr(prof.sack, Nops(2))
  <2>1. DOMAIN s = Fields /\ s.flags = r.flags /\ s.opts = o /\ s.doff = Bytes(o)
    BY <1>3 DEF O6, IsSyn, WithOpts, Mid, Sound, Fields
  <2>2. Proper(o, FALSE)
    BY ShortLayouts
  <2> HIDE DEF o, s
  <2>3. Proper(o, MacTail(prof))
    BY <2>2 DEF Proper
  <2>4. Done(s, p, prof, flow)
    BY <1>3, <2>1, <2>3 DEF Mid, Done, Coherent
  <2> QED
    BY <2>4 DEF s
<1>4. CASE r.doff = 16 /\ ~prof.ts /\ ~prof.winQuirks
  <2>1. s = r
    BY <1>4 DEF O6
  <2> HIDE DEF s
  <2>2. Done(s, p, prof, flow)
    BY <1>4, <2>1 DEF Mid, Sound, Done
  <2> QED
    BY <2>2 DEF s
<1> QED
  BY <1>1, <1>2, <1>3, <1>4

\* EgressIsPersona of one segment, for what the loop found on record.
Persona(out, p, prof, flow) ==
    /\ out.doff = Bytes(out.opts) /\ out.doff % 4 = 0
    /\ \A k \in {"M", "W", "S", "T"} : Count(out.opts, k) <= 1 \/ (k = "S" /\ MacTail(prof))
    /\ prof.ts /\ Has(out.opts, "T") => out.clk = Clock(prof)
    /\ "ECE" \in out.flags => prof.ecnCC
    /\ IsSynAck(out) <=> IsSynAck(p)
    /\ prof.ecnEcho /\ IsSynAck(out) /\ p.doff >= 12 /\ flow.have =>
         /\ Has(out.opts, "T") <=> flow.ts
         /\ Has(out.opts, "T") => out.tsecr = "client"

\* The blocks after O6.
LEMMA LastBlocks ==
  ASSUME NEW b, NEW p, NEW prof, NEW flow, Coherent(prof), "SYN" \in p.flags, Done(b, p, prof, flow)
  PROVE  Done(patchSynAckTSval(RstWindow(TsCoherence(b, prof), prof), prof), p, prof, flow)
<1> DEFINE t == TsCoherence(b, prof)
           w == RstWindow(t, prof)
           c == patchSynAckTSval(w, prof)
<1>1. t = b
  BY DEF TsCoherence, IsSyn, Done
<1> HIDE DEF t
<1>2. /\ DOMAIN w = Fields /\ w.opts = b.opts /\ w.doff = b.doff /\ w.flags = b.flags /\ w.clk = b.clk
      /\ w.tsecr = b.tsecr
  BY <1>1 DEF RstWindow, Done, Fields
<1> HIDE DEF w
<1>3. /\ DOMAIN c = Fields /\ c.opts = b.opts /\ c.doff = b.doff /\ c.flags = b.flags /\ c.tsecr = b.tsecr
      /\ c.clk = b.clk \/ (prof.ts /\ prof.opt1 = "S" /\ c.clk = "ms")
  BY <1>2 DEF patchSynAckTSval, Fields
<1> HIDE DEF c
<1>4. Done(c, p, prof, flow)
  BY <1>3 DEF Done, Coherent, Echoes
<1> QED
  BY <1>4 DEF c, w, t

LEMMA SynPersona ==
  ASSUME NEW p, NEW prof, NEW flow, Coherent(prof), HostSyn(p), "ECE" \in p.flags => IsSynAck(p)
  PROVE  Persona(applyTCP(p, prof, flow), p, prof, flow)
<1> DEFINE a == Template20(SetWindow(ExpandSynAck(p, prof, flow), prof), prof, flow)
           e == EcnSynAck(a, prof, flow)
           s == OutboundSyn(e, prof)
           b == O6(s, prof)
           c == patchSynAckTSval(RstWindow(TsCoherence(b, prof), prof), prof)
           out == EcnFlags(c, prof, flow)
<1>1. applyTCP(p, prof, flow) = out
  BY DEF applyTCP
<1>2. /\ Sound(a, prof) /\ a.flags = p.flags
      /\ a.doff = 16 => a.opts = <<"M", "S", "T">>
      /\ prof.ecnEcho /\ p.doff >= 12 => a.doff >= 12
      /\ prof.ecnEcho /\ p.doff >= 12 /\ IsSynAck(p) /\ flow.have /\ flow.ts => Echoes(a)
  BY FirstBlocks
<1> HIDE DEF a
<1>3. Mid(e, p, prof, flow)
  BY <1>2, EcnBlock
<1> HIDE DEF e
<1>4. Mid(s, p, prof, flow)
  BY <1>3, OutboundBlock
<1> HIDE DEF s
<1>5. "SYN" \in p.flags
  BY DEF HostSyn
<1>6. Done(b, p, prof, flow)
  BY <1>4, <1>5, O6Block
<1> HIDE DEF b
<1>7. Done(c, p, prof, flow)
  BY <1>5, <1>6, LastBlocks
<1> HIDE DEF c
<1>8. /\ DOMAIN out = Fields /\ out.opts = c.opts /\ out.doff = c.doff /\ out.clk = c.clk /\ out.tsecr = c.tsecr
      /\ IsSynAck(out) <=> IsSynAck(p)
      /\ "ECE" \in out.flags => prof.ecnCC
  BY <1>7 DEF EcnFlags, Done, IsSynAck, Fields
<1> HIDE DEF out
<1>9. c.opts \in Seq(Kinds)
  BY <1>7 DEF Done, Proper
<1>10. Has(out.opts, "T") <=> Count(out.opts, "T") > 0
  BY <1>8, <1>9, CountType
<1>11. /\ out.doff = Bytes(out.opts) /\ out.doff % 4 = 0
       /\ \A k \in {"M", "W", "S", "T"} : Count(out.opts, k) <= 1 \/ (k = "S" /\ MacTail(prof))
       /\ prof.ts /\ Has(out.opts, "T") => out.clk = Clock(prof)
  BY <1>7, <1>8, <1>10 DEF Done, Proper
<1>12. prof.ecnEcho /\ IsSynAck(out) /\ p.doff >= 12 /\ flow.have =>
         /\ Has(out.opts, "T") <=> flow.ts
         /\ Has(out.opts, "T") => out.tsecr = "client"
  BY <1>7, <1>8, <1>10 DEF Done, Echoes
<1>13. Persona(out, p, prof, flow)
  BY <1>8, <1>11, <1>12 DEF Persona
<1> QED
  BY <1>1, <1>13

\* Segments without SYN: their window, and the clock of their timestamps.
LEMMA DataPersona ==
  ASSUME NEW p, NEW prof, NEW flow, Coherent(prof), DOMAIN p = Fields, "SYN" \notin p.flags, "ECE" \notin p.flags,
         p.opts \in {<<>>, <<"N", "N", "T">>}, p.doff = Bytes(p.opts)
  PROVE  Persona(applyTCP(p, prof, flow), p, prof, flow)
<1> DEFINE w == SetWindow(p, prof)
           t == TsCoherence(w, prof)
           r == RstWindow(t, prof)
<1>1. /\ DOMAIN w = Fields /\ w.opts = p.opts /\ w.doff = p.doff /\ w.flags = p.flags /\ w.clk = p.clk
  BY DEF SetWindow, Fields
<1>2. ~IsSyn(p) /\ ~IsSynAck(p) /\ ~IsSyn(w) /\ ~IsSynAck(w)
  BY <1>1 DEF IsSyn, IsSynAck
<1>3. ExpandSynAck(p, prof, flow) = p
  BY <1>2 DEF ExpandSynAck
<1> HIDE DEF w
<1>4. Template20(w, prof, flow) = w
  BY <1>2 DEF Template20
<1>5. EcnSynAck(w, prof, flow) = w /\ OutboundSyn(w, prof) = w /\ O6(w, prof) = w
  BY <1>2 DEF EcnSynAck, OutboundSyn, O6
<1>6. /\ DOMAIN t = Fields /\ t.opts = p.opts /\ t.doff = p.doff /\ t.flags = p.flags
      /\ prof.ts /\ t.opts = <<"N", "N", "T">> => t.clk = Clock(prof)
  BY <1>1, <1>2 DEF TsCoherence, Coherent, Fields
<1> HIDE DEF t
<1>7. DOMAIN r = Fields /\ r.opts = p.opts /\ r.doff = p.doff /\ r.flags = p.flags /\ r.clk = t.clk
  BY <1>6 DEF RstWindow, Fields
<1> HIDE DEF r
<1>8. ~IsSynAck(r)
  BY <1>7 DEF IsSynAck
<1>9. patchSynAckTSval(r, prof) = r /\ EcnFlags(r, prof, flow) = r
  BY <1>8 DEF patchSynAckTSval, EcnFlags
<1>10. applyTCP(p, prof, flow) = r
  BY <1>3, <1>4, <1>5, <1>9 DEF applyTCP, w, t, r
<1>11. /\ p.opts \in Seq(Kinds) /\ Bytes(p.opts) % 4 = 0
       /\ \A k \in {"M", "W", "S", "T"} : Count(p.opts, k) <= 1
       /\ Count(p.opts, "T") > 0 => p.opts = <<"N", "N", "T">>
  <2>1. CASE p.opts = <<>>
    <3>1. Tally(p.opts, 0, 0, 0, 0, 0, 0)
      BY <2>1, TallyOne, Zenon
    <3>2. Bytes(p.opts) = 0
      BY <3>1 DEF Tally, Bytes
    <3> QED
      BY <3>1, <3>2 DEF Tally
  <2>2. CASE p.opts = <<"N", "N", "T">>
    <3>1. Tally(p.opts, 0, 2, 0, 0, 1, 0)
      BY <2>2, TallyLiterals, Zenon
    <3>2. Bytes(p.opts) = 12
      BY <3>1 DEF Tally, Bytes
    <3> QED
      BY <2>2, <3>1, <3>2 DEF Tally
  <2> QED
    BY <2>1, <2>2
<1>12. Has(r.opts, "T") <=> Count(r.opts, "T") > 0
  BY <1>7, <1>11, CountType
<1>13. Persona(r, p, prof, flow)
  BY <1>2, <1>6, <1>7, <1>8, <1>11, <1>12 DEF Persona
<1> QED
  BY <1>10, <1>13

\* applyEgress writes the IP header before.
LEMMA EgressPersona ==
  ASSUME NEW p, NEW prof, NEW n, NEW flow, Coherent(prof), HostSegment(p)
  PROVE  Persona(applyEgress(p, prof, n, flow), p, prof, flow)
<1> DEFINE ip == [p EXCEPT !.ttl = IF prof.ttl > 0 THEN prof.ttl ELSE @, !.df = prof.df,
                           !.id = IpId(p, prof, n)]
<1>1. /\ p.proto = "tcp" /\ DOMAIN p = Fields /\ p.doff = Bytes(p.opts)
      /\ p.tsecr = IF Has(p.opts, "T") THEN "client" ELSE "none"
  BY DEF HostSegment, Out, Fields
<1>2. applyEgress(p, prof, n, flow) = applyTCP(ip, prof, flow)
  BY <1>1 DEF applyEgress
<1>3. /\ DOMAIN ip = Fields /\ ip.flags = p.flags /\ ip.opts = p.opts /\ ip.doff = p.doff /\ ip.tsecr = p.tsecr
  BY <1>1 DEF Fields
<1> HIDE DEF ip
<1>4. CASE "SYN" \in p.flags
  <2>1. p.opts \in SynOpts /\ ("ECE" \in p.flags => IsSynAck(p))
    BY <1>4 DEF HostSegment, SynOpts, IsSynAck
  <2>2. p.opts \in Seq(Kinds)
    BY <2>1, SynOptsTally DEF Proper
  <2>3. Has(p.opts, "T") <=> Count(p.opts, "T") > 0
    BY <2>2, CountType
  <2>4. HostSyn(ip) /\ ("ECE" \in ip.flags => IsSynAck(ip))
    BY <1>1, <1>3, <1>4, <2>1, <2>3 DEF HostSyn, IsSynAck
  <2>5. Persona(applyTCP(ip, prof, flow), ip, prof, flow)
    BY <2>4, SynPersona
  <2> QED
    BY <1>2, <1>3, <2>5 DEF Persona, IsSynAck
<1>5. CASE "SYN" \notin p.flags
  <2>1. p.opts \in {<<>>, <<"N", "N", "T">>} /\ "ECE" \notin p.flags
    <3>1. p.opts \in {<<>>, <<"N", "N", "T">>}
      BY <1>5, Zenon DEF HostSegment
    <3>2. "ECE" \notin p.flags
      BY <1>5, Zenon DEF HostSegment
    <3> QED
      BY <3>1, <3>2
  <2>2. Persona(applyTCP(ip, prof, flow), ip, prof, flow)
    BY <1>1, <1>3, <1>5, <2>1, DataPersona
  <2> QED
    BY <1>2, <1>3, <2>2 DEF Persona, IsSynAck
<1> QED
  BY <1>4, <1>5

\* What PersonaAssumption says of the profiles.
LEMMA ProfilesCohere ==
  ASSUME NEW s \in Setups
  PROVE  Coherent(toWinProfile(s.profile))
<1> DEFINE prof == toWinProfile(s.profile)
<1>1. /\ prof.ts => prof.wscale /\ prof.ordered
      /\ prof.ecnEcho => prof.ts /\ prof.opt1 = "S" /\ prof.ipid # "zero"
      /\ prof.winQuirks /\ prof.ts => prof.opt1 # "S"
  BY PersonaAssumption
<1>2. /\ prof.ecnEcho <=> s.profile.family = "linux"
      /\ prof.ecnEcho => prof.ecnCC
      /\ prof.tsSlow => prof.winQuirks
  BY DEF toWinProfile
<1> HIDE DEF prof
<1>3. Coherent(prof)
  BY <1>1, <1>2 DEF Coherent, Clock
<1> QED
  BY <1>3 DEF prof
-----------------------------------------------------------------------------
(* What waits at the stack's handle, and what is on record.                *)

\* The setup is one of Setups with some of its packets used up.
FromSetups ==
    \E s \in Setups : /\ DOMAIN setup = SetupFields
                      /\ \A f \in SetupFields \ {"packets"} : setup[f] = s[f]
\* Every segment at the stack's handle is the host's or a responder's.
Owns(x) == x.kind # "inbound" /\ x.proto = "tcp" => HostSegment(x)
QueueOfHost == q \in Seq(ToSet(q)) /\ \A x \in ToSet(q) : Owns(x)
\* What is on record is what the client asked last.
CacheIsAsked ==
    \A c \in DOMAIN synCache :
        /\ c \in DOMAIN asked /\ DOMAIN synCache[c] = {"ts", "fresh"}
        /\ synCache[c].ts <=> asked[c] # "nots"
Recorded == FromSetups /\ QueueOfHost /\ CacheIsAsked

LEMMA Appended ==
  ASSUME NEW s, s \in Seq(ToSet(s)), NEW x
  PROVE  Append(s, x) \in Seq(ToSet(Append(s, x))) /\ ToSet(Append(s, x)) = ToSet(s) \cup {x}
<1> DEFINE S == ToSet(s) \cup {x}
           t == Append(s, x)
<1>1. s \in Seq(S)
  BY SeqDef
<1>2. /\ t \in Seq(S) /\ Len(t) = Len(s) + 1 /\ Len(s) \in Nat /\ DOMAIN s = 1 .. Len(s) /\ DOMAIN t = 1 .. Len(t)
      /\ \A i \in 1 .. Len(s) : t[i] = s[i]
      /\ t[Len(s) + 1] = x
  BY <1>1, AppendProperties, LenProperties
<1> HIDE DEF t
<1>3. ToSet(t) = S
  <2>1. \A y \in ToSet(t) : y \in S
    BY <1>2 DEF ToSet
  <2>2. x \in ToSet(t)
    BY <1>2 DEF ToSet
  <2>3. \A y \in ToSet(s) : y \in ToSet(t)
    BY <1>2 DEF ToSet
  <2> QED
    BY <2>1, <2>2, <2>3
<1> QED
  BY <1>2, <1>3 DEF t

LEMMA Rest ==
  ASSUME NEW s, s \in Seq(ToSet(s)), s # <<>>
  PROVE  /\ Tail(s) \in Seq(ToSet(Tail(s))) /\ ToSet(Tail(s)) \subseteq ToSet(s)
         /\ Head(s) \in ToSet(s)
<1>1. /\ Tail(s) \in Seq(ToSet(s)) /\ Len(s) \in Nat /\ Len(s) > 0 /\ DOMAIN s = 1 .. Len(s)
      /\ Len(Tail(s)) = Len(s) - 1 /\ \A i \in 1 .. Len(Tail(s)) : Tail(s)[i] = s[i + 1]
  BY HeadTailProperties, EmptySeq, LenProperties
<1>2. Head(s) \in ToSet(s)
  BY <1>1 DEF ToSet
<1> DEFINE t == Tail(s)
<1> HIDE DEF t
<1>3. t \in Seq(ToSet(s)) /\ DOMAIN t = 1 .. Len(t) /\ Len(t) \in Nat
  BY <1>1, LenProperties DEF t
<1>4. \A i \in 1 .. Len(t) : t[i] \in ToSet(t)
  BY <1>3 DEF ToSet
<1>5. t \in Seq(ToSet(t))
  BY <1>3, <1>4, SeqDef
<1>6. ToSet(t) \subseteq ToSet(s)
  BY <1>3 DEF ToSet
<1> QED
  BY <1>2, <1>5, <1>6 DEF t

\* The segments that responders and the host's stack make.
LEMMA CraftedIsOwn ==
  ASSUME NEW h, NEW p
  PROVE  h \in {"rst", "t46", "t7", "echo", "tstamp", "u1", "sig"} => Owns(Craft(h, p))
<1> DEFINE f == IF p.flags \in {{"ACK"}, {"SYN", "ACK"}} THEN {"RST"} ELSE {"RST", "ACK"}
           x == Out("tcp", "rst", p.from, f, <<>>)
<1>1. "SYN" \notin f /\ "ECE" \notin f
  OBVIOUS
<1>2. x.kind = "rst" /\ x.to = p.from /\ x.flags = f /\ x.opts = <<>>
  BY DEF Out
<1>3. x = Out("tcp", x.kind, x.to, x.flags, x.opts)
  BY <1>2, Zenon
<1>4. craftProbeRST(p) = x
  BY DEF craftProbeRST
<1> HIDE DEF x, f
<1>5. HostSegment(x)
  BY <1>1, <1>2, <1>3, Zenon DEF HostSegment
<1>6. h \in {"rst", "t46", "t7"} => Craft(h, p) = x
  BY <1>4 DEF Craft
<1>7. h \in {"echo", "tstamp", "u1", "sig"} => Craft(h, p).proto = "icmp"
  BY DEF Craft, Out
<1> QED
  BY <1>5, <1>6, <1>7 DEF Owns

LEMMA SynAckIsOwn ==
  ASSUME NEW syn
  PROVE  Owns(SynAck(syn))
<1> DEFINE f == {"SYN", "ACK"} \cup (IF syn.body = "nots" THEN {"ECE"} ELSE {})
           o == IF syn.body = "nows" THEN IF setup.hostTS THEN <<"M", "S", "T">> ELSE <<"M", "N", "N", "S">>
                ELSE IF syn.body = "ts" /\ setup.hostTS THEN <<"M", "N", "W", "S", "T">>
                ELSE <<"M", "N", "W", "N", "N", "S">>
           x == Out("tcp", "synack", syn.from, f, o)
<1>1. {"SYN", "ACK"} \subseteq f
  OBVIOUS
<1>2. o \in {<<"M", "S", "T">>, <<"M", "N", "N", "S">>, <<"M", "N", "W", "S", "T">>,
             <<"M", "N", "W", "N", "N", "S">>}
  OBVIOUS
<1>3. x.kind = "synack" /\ x.to = syn.from /\ x.flags = f /\ x.opts = o
  BY DEF Out
<1>4. x = Out("tcp", x.kind, x.to, x.flags, x.opts)
  BY <1>3, Zenon
<1>5. SynAck(syn) = x
  BY DEF SynAck
<1>6. "SYN" \in f
  BY <1>1
<1> HIDE DEF x, f, o
<1>7. HostSegment(x)
  BY <1>1, <1>2, <1>3, <1>4, <1>6, Zenon DEF HostSegment
<1> QED
  BY <1>5, <1>7 DEF Owns

\* Whoever sends, the queue keeps to such segments.
LEMMA QueueStep ==
  ASSUME QueueOfHost,
         \/ q' = q \/ q' = <<>> \/ (q # <<>> /\ q' = Tail(q))
         \/ \E x : q' = Append(q, x) /\ Owns(x)
  PROVE  QueueOfHost'
<1>1. CASE q' = q
  BY <1>1 DEF QueueOfHost
<1>2. CASE q' = <<>>
  <2>1. ToSet(<<>>) = {} /\ <<>> \in Seq({})
    BY EmptySeq DEF ToSet
  <2> QED
    BY <1>2, <2>1 DEF QueueOfHost
<1>3. CASE q # <<>> /\ q' = Tail(q)
  <2>1. Tail(q) \in Seq(ToSet(Tail(q))) /\ ToSet(Tail(q)) \subseteq ToSet(q)
    BY <1>3, Rest DEF QueueOfHost
  <2> QED
    BY <1>3, <2>1 DEF QueueOfHost
<1>4. ASSUME NEW x, q' = Append(q, x), Owns(x) PROVE QueueOfHost'
  <2>1. Append(q, x) \in Seq(ToSet(Append(q, x))) /\ ToSet(Append(q, x)) = ToSet(q) \cup {x}
    BY Appended DEF QueueOfHost
  <2>2. q' \in Seq(ToSet(q')) /\ ToSet(q') = ToSet(q) \cup {x}
    BY <1>4, <2>1
  <2> QED
    BY <1>4, <2>2 DEF QueueOfHost
<1> QED
  BY <1>1, <1>2, <1>3, <1>4

LEMMA RecordStep == ASSUME Recorded, [Next]_vars PROVE Recorded'
<1>1. FromSetups /\ QueueOfHost /\ CacheIsAsked
  BY DEF Recorded
<1>2. ASSUME setup' = setup PROVE FromSetups'
  BY <1>1, <1>2 DEF FromSetups
<1>3. ASSUME UNCHANGED <<synCache, asked>> PROVE CacheIsAsked'
  BY <1>1, <1>3 DEF CacheIsAsked
<1>4. ASSUME Counted PROVE FromSetups'
  <2>1. PICK s \in Setups : DOMAIN setup = SetupFields /\ \A f \in SetupFields \ {"packets"} : setup[f] = s[f]
    BY <1>1 DEF FromSetups
  <2>2. DOMAIN setup' = SetupFields /\ \A f \in SetupFields \ {"packets"} : setup'[f] = s[f]
    BY <1>4, <2>1 DEF Counted
  <2> QED
    BY <2>2 DEF FromSetups
<1>5. ASSUME UNCHANGED <<setup, q, synCache, asked>> PROVE Recorded'
  BY <1>1, <1>2, <1>3, <1>5, QueueStep DEF Recorded
<1>6. CASE Main \/ Stacking
  <2>1. UNCHANGED <<setup, synCache, asked>> /\ (q' = q \/ q' = <<>>)
    BY <1>6 DEF Main, StartStep, StartFails, Started, Joined, StopResponder, CloseHandle, ResponderStopped, Exit,
         Stacking, Load, LoadFails, Enable, maybeArmHiFi, ShutdownSeen, LockHiFi, disarmHiFi,
         StopWatchdog, WatchdogJoined, Close, LoopJoined, traffic
  <2> QED
    BY <1>1, <1>2, <1>3, <2>1, QueueStep DEF Recorded
<1>7. CASE \/ Shutdown \/ Exited \/ UNCHANGED vars \/ Tick \/ watchdogTrip \/ WatchdogReturns \/ NetworkChanges
           \/ Delivered \/ LostAtClose \/ \E h \in DOMAIN Priority : RecvFails(h)
  <2>1. UNCHANGED <<setup, q, synCache, asked>>
    BY <1>7 DEF Shutdown, Exited, vars, Tick, watchdogTrip, WatchdogReturns, NetworkChanges, Delivered,
         LostAtClose, RecvFails, traffic
  <2> QED
    BY <1>5, <2>1
<1>8. ASSUME NEW p, Arrive(p) PROVE Recorded'
  <2>1. Counted /\ UNCHANGED <<q, synCache, asked>>
    BY <1>8 DEF Arrive
  <2> QED
    BY <1>1, <1>3, <1>4, <2>1, QueueStep DEF Recorded
<1>9. ASSUME NEW p \in setup.host, HostSends(p) PROVE Recorded'
  <2>1. Counted /\ UNCHANGED <<synCache, asked>> /\ q' = Append(q, p)
    BY <1>9 DEF HostSends
  <2>2. PICK s \in Setups : \A f \in SetupFields \ {"packets"} : setup[f] = s[f]
    BY <1>1 DEF FromSetups
  <2>3. setup.host = s.host
    BY <2>2 DEF SetupFields
  <2>4. Owns(p)
    BY <2>3, PersonaAssumption DEF Owns
  <2> QED
    BY <1>1, <1>3, <1>4, <2>1, <2>4, QueueStep DEF Recorded
<1>10. ASSUME NEW h, Captured(h) PROVE Recorded'
  <2>1. UNCHANGED <<setup, synCache, asked>> /\ (q' = q \/ q' = Append(q, InboundSyn))
    BY <1>10 DEF Captured
  <2>2. Owns(InboundSyn)
    BY DEF Owns, InboundSyn
  <2> QED
    BY <1>1, <1>2, <1>3, <2>1, <2>2, QueueStep DEF Recorded
<1>11. ASSUME NEW h \in DOMAIN Priority, Respond(h) PROVE Recorded'
  <2>1. UNCHANGED <<setup, synCache, asked>> /\ h # "stack"
    BY <1>11 DEF Respond
  <2>2. q' = q \/ (q' = Append(q, Craft(h, inb.pkt)) /\ Verdict(h, inb.pkt) = "answer")
    BY <1>11 DEF Respond, SendOn, Send
  <2>3. Verdict(h, inb.pkt) = "answer" => h \in {"rst", "t46", "t7", "echo", "tstamp", "u1", "sig"}
    BY <2>1 DEF Verdict, Priority
  <2>4. q' = q \/ (q' = Append(q, Craft(h, inb.pkt)) /\ Owns(Craft(h, inb.pkt)))
    BY <2>2, <2>3, CraftedIsOwn
  <2> QED
    BY <1>1, <1>2, <1>3, <2>1, <2>4, QueueStep DEF Recorded
<1>12. ASSUME NEW c \in DOMAIN synCache, Expire(c) PROVE Recorded'
  <2>1. UNCHANGED <<setup, q, asked>> /\ synCache' = [synCache EXCEPT ![c].fresh = FALSE]
    BY <1>12 DEF Expire
  <2>2. CacheIsAsked'
    BY <1>1, <2>1 DEF CacheIsAsked
  <2> QED
    BY <1>1, <1>2, <2>1, <2>2, QueueStep DEF Recorded
<1>13. CASE LoopInbound
  <2>1. setup' = setup /\ q # <<>> /\ q' = Tail(q)
    BY <1>13 DEF LoopInbound
  <2>2. CASE enabled /\ ~inb.pkt.loopback
    <3> DEFINE c == inb.pkt.from
               e == [ts |-> inb.pkt.body # "nots", fresh |-> TRUE]
               cache == IF Cardinality(DOMAIN synCache) > CacheMax THEN <<>> ELSE synCache
    <3>1. synCache' = Put(cache, c, e) /\ asked' = Put(asked, c, inb.pkt.body)
      BY <1>13, <2>2 DEF LoopInbound, recordInboundSyn
    <3>2. /\ DOMAIN synCache' = {c} \cup DOMAIN cache /\ synCache'[c] = e
          /\ \A d \in DOMAIN cache : d # c => synCache'[d] = cache[d]
      BY <3>1 DEF Put
    <3>3. /\ DOMAIN asked' = {c} \cup DOMAIN asked /\ asked'[c] = inb.pkt.body
          /\ \A d \in DOMAIN asked : d # c => asked'[d] = asked[d]
      BY <3>1 DEF Put
    <3>4. \A d \in DOMAIN cache : d \in DOMAIN synCache /\ cache[d] = synCache[d]
      OBVIOUS
    <3>5. DOMAIN e = {"ts", "fresh"} /\ (e.ts <=> inb.pkt.body # "nots")
      OBVIOUS
    <3> HIDE DEF e, cache
    <3>6. CacheIsAsked'
      BY <1>1, <3>2, <3>3, <3>4, <3>5 DEF CacheIsAsked
    <3> QED
      BY <1>1, <1>2, <2>1, <3>6, QueueStep DEF Recorded
  <2>3. CASE ~(enabled /\ ~inb.pkt.loopback)
    <3>1. UNCHANGED <<synCache, asked>>
      BY <1>13, <2>3 DEF LoopInbound
    <3> QED
      BY <1>1, <1>2, <1>3, <2>1, <3>1, QueueStep DEF Recorded
  <2> QED
    BY <2>2, <2>3
<1>14. CASE LoopOutbound
  <2>1. UNCHANGED <<setup, synCache, asked>> /\ q # <<>> /\ q' = Tail(q)
    BY <1>14 DEF LoopOutbound, Outbound
  <2> QED
    BY <1>1, <1>2, <1>3, <2>1, QueueStep DEF Recorded
<1>15. CASE HostAnswers
  <2>1. UNCHANGED <<setup, synCache, asked>> /\ (q' = q \/ \E syn \in owed : q' = Append(q, SynAck(syn)))
    BY <1>15 DEF HostAnswers, Send
  <2>2. \A syn : Owns(SynAck(syn))
    BY SynAckIsOwn
  <2> QED
    BY <1>1, <1>2, <1>3, <2>1, <2>2, QueueStep DEF Recorded
<1> QED
  BY <1>6, <1>7, <1>8, <1>9, <1>10, <1>11, <1>12, <1>13, <1>14, <1>15 DEF Next, Carry

\* The rewriting loop of the Windows backend, for every profile that keeps to
\* PersonaAssumption, every host and every order of traffic: whatever segment
\* the host's stack or a responder sends, at whatever point its client's record
\* is new, stale or lost, what leaves is a segment of the persona
\* (backend_windows.go:166-170, 640-651).
THEOREM PersonaKept == Spec => []EgressIsPersona
<1>1. Init => Recorded
  <2> SUFFICES ASSUME Init PROVE Recorded
    OBVIOUS
  <2>1. FromSetups
    BY BoundsAssumption DEF Init, FromSetups
  <2>2. QueueOfHost
    <3>1. ToSet(<<>>) = {} /\ <<>> \in Seq({})
      BY EmptySeq DEF ToSet
    <3> QED
      BY <3>1 DEF Init, QueueOfHost
  <2>3. CacheIsAsked
    BY DEF Init, CacheIsAsked
  <2> QED
    BY <2>1, <2>2, <2>3 DEF Recorded
<1>2. Recorded /\ [Next]_vars => Recorded'
  BY RecordStep
<1>3. Recorded => EgressIsPersona
  <2> SUFFICES ASSUME Recorded, Outbound, enabled, Head(q).proto = "tcp" PROVE EgressIsPersona
    BY DEF EgressIsPersona
  <2> DEFINE prof == toWinProfile(setup.profile)
             p == Head(q)
             flow == IF IsSynAck(p) THEN lookupSynFlow(p) ELSE [have |-> FALSE, ts |-> FALSE]
             out == applyEgress(p, prof, counter, flow)
             c == p.to
  <2>1. PICK s \in Setups : \A f \in SetupFields \ {"packets"} : setup[f] = s[f]
    BY DEF Recorded, FromSetups
  <2>2. setup.profile = s.profile
    BY <2>1 DEF SetupFields
  <2>3. Coherent(prof)
    BY <2>2, ProfilesCohere
  <2>4. p \in ToSet(q)
    BY Rest DEF Outbound, Recorded, QueueOfHost
  <2>5. HostSegment(p)
    BY <2>4 DEF Outbound, Recorded, QueueOfHost, Owns
  <2>6. IsLinux <=> prof.ecnEcho
    BY DEF IsLinux, toWinProfile
  <2>7. IsSynAck(p) /\ c \in DOMAIN synCache /\ synCache[c].fresh =>
          flow.have /\ (flow.ts <=> asked[c] # "nots")
    BY DEF lookupSynFlow, Recorded, CacheIsAsked
  <2>8. Rewritten = out
    BY DEF Rewritten
  <2> HIDE DEF flow, prof, p
  <2>9. Persona(out, p, prof, flow)
    BY <2>3, <2>5, EgressPersona
  <2> HIDE DEF out
  <2>10. IsLinux /\ IsSynAck(out) /\ p.doff >= 12 /\ c \in DOMAIN synCache /\ synCache[c].fresh =>
           /\ Has(out.opts, "T") <=> asked[c] # "nots"
           /\ Has(out.opts, "T") => out.tsecr = "client"
    BY <2>6, <2>7, <2>9 DEF Persona
  <2>11. /\ out.doff = Bytes(out.opts) /\ out.doff % 4 = 0
         /\ \A k \in {"M", "W", "S", "T"} : Count(out.opts, k) <= 1 \/ (k = "S" /\ MacTail(prof))
         /\ prof.ts /\ Has(out.opts, "T") => out.clk = Clock(prof)
         /\ "ECE" \in out.flags => prof.ecnCC
    BY <2>9 DEF Persona
  <2> QED
    BY <2>8, <2>10, <2>11 DEF EgressIsPersona, prof, p
<1> QED
  BY <1>1, <1>2, <1>3, PTL DEF Spec
-----------------------------------------------------------------------------
(* Inbound packets.                                                        *)

\* A packet is at a handle whose filter takes it, and a handle is closed under
\* it only at shutdown.
Carried ==
    /\ inb.at \in DOMAIN Priority \cup {"wire", "none"}
    /\ inb.at \in DOMAIN Priority => Matches(inb.at, inb.pkt) /\ (inb.at \in open \/ shutdown)
    /\ DOMAIN inb = {"pkt", "at", "seen"}
    /\ stk \in {"disarm", "locked", "stopwd", "joinwd", "close", "join", "done"} => shutdown
    /\ pc \in {"stop", "wait", "exited"} => shutdown

\* Only the handles of the firewall and of the probe responder depend on what
\* kind of persona it is.
LEMMA OpenForPersona ==
  ASSUME IInv
  PROVE  /\ "drop" \in open => Filters
         /\ open \cap {"t46", "t7", "t23"} # {} => IsLinux
<1>1. \A w \in Begun : w \in Responders /\ (w = "fw" => Filters) /\ (w = "probes" => IsLinux)
  <2>1. \A i \in DOMAIN Steps : Steps[i] \in StepSet
    BY StepsAreOwn, LenProperties
  <2> QED
    BY <2>1 DEF Begun, StepSet
<1>2. \A w \in Responders : ("drop" \in Handles[w] => w = "fw") /\ (Handles[w] \cap {"t46", "t7", "t23"} # {} => w = "probes")
  BY DEF Responders, Handles
<1>3. \A h \in open : h = "stack" \/ \E w \in Begun : h \in Handles[w]
  BY DEF IInv, BelongsToBegun
<1> QED
  BY <1>1, <1>2, <1>3

\* No responder answers or drops what is the host's own business.
LEMMA LegitPasses ==
  ASSUME NEW h \in DOMAIN Priority, h # "stack", NEW p, Matches(h, p), Legit(p),
         h = "drop" => Filters, h \in {"t46", "t7", "t23"} => IsLinux
  PROVE  Verdict(h, p) = "pass"
<1>1. DOMAIN Priority = {"t7", "sig", "u1", "t23", "echo", "tstamp", "t46", "drop", "icmpdrop", "rst", "stack"}
  BY DEF Priority
<1>2. ~p.loopback
  BY DEF Matches
<1>3. CASE h = "drop"
  <2>1. BareSyn(p) /\ p.port \notin Allow /\ p.proto = "tcp"
    BY <1>3 DEF Matches, DropFilter, BareSyn
  <2>2. /\ p.port \in (setup.served \cup setup.preservePorts) \ {0}
        /\ setup.behavior = "drop" /\ ~setup.workstation => p.port \in setup.openPorts \cup setup.preservePorts
    BY <1>2, <2>1 DEF Legit
  <2>3. p.port \in Allow
    BY <1>3, <2>2 DEF Allow, Filters, autoDrop
  <2> QED
    BY <2>1, <2>3
<1>4. CASE h \in {"icmpdrop", "echo", "tstamp"}
  <2>1. p.proto = "icmp" /\ p.body \in {"echo", "tstamp"}
    BY <1>4 DEF Matches, ICMPType
  <2> QED
    BY <1>2, <2>1 DEF Legit, BareSyn
<1>5. CASE h = "rst"
  <2>1. BareSyn(p) /\ p.port \in setup.closed /\ p.proto = "tcp"
    BY <1>5 DEF Matches, closedPortFilter, BareSyn
  <2> QED
    BY <1>2, <2>1 DEF Legit
<1>6. CASE h = "u1"
  <2>1. p.proto = "udp" /\ p.port \in setup.closed
    BY <1>6 DEF Matches, udpUnreachableFilter
  <2> QED
    BY <1>2, <2>1 DEF Legit, BareSyn
<1>7. CASE h = "sig"
  <2>1. p.proto = "udp"
    BY <1>7 DEF Matches, u1LengthFilter
  <2>2. p.body # "u1"
    BY <1>2, <2>1 DEF Legit, BareSyn
  <2> QED
    BY <1>7, <2>2 DEF Verdict
<1>8. CASE h = "t23"
  <2>1. p.proto = "tcp" /\ p.port \in ProbePorts /\ (Flags(p) = {} \/ {"SYN", "FIN"} \subseteq p.flags) /\ IsLinux
    BY <1>8 DEF Matches, linuxT2T3DropFilter
  <2>2. BareSyn(p) => "SYN" \in Flags(p)
    BY DEF BareSyn, Flags
  <2>3. CASE BareSyn(p)
    BY <1>2, <2>1, <2>2, <2>3 DEF Legit
  <2>4. CASE ~BareSyn(p)
    BY <1>2, <2>1, <2>4 DEF Legit
  <2> QED
    BY <2>3, <2>4
<1>9. CASE h \in {"t46", "t7"}
  <2>1. p.proto = "tcp" /\ p.port \in ProbePorts /\ IsLinux
    <3>1. T7Ports \subseteq ProbePorts
      BY DEF T7Ports, ProbePorts
    <3>2. h = "t46" => p.proto = "tcp" /\ p.port \in ProbePorts
      BY DEF Matches, linuxTProbeFilter
    <3>3. h = "t7" => p.proto = "tcp" /\ p.port \in T7Ports
      BY DEF Matches, linuxT7ProbeFilter
    <3> QED
      BY <1>9, <3>1, <3>2, <3>3
  <2>2. ~BareSyn(p)
    <3>1. h = "t46" => "ACK" \in Flags(p)
      BY DEF Matches, linuxTProbeFilter
    <3>2. h = "t7" => "SYN" \notin p.flags
      BY DEF Matches, linuxT7ProbeFilter
    <3> QED
      BY <1>9, <3>1, <3>2 DEF BareSyn, Flags
  <2>3. p.v6
    BY <1>2, <2>1, <2>2 DEF Legit
  <2> QED
    BY <1>9, <2>3 DEF Verdict
<1> QED
  BY <1>1, <1>3, <1>4, <1>5, <1>6, <1>7, <1>8, <1>9

\* Filters look at nothing that traffic changes.
LEMMA MatchesStay ==
  ASSUME SameSetup, NEW h, NEW p
  PROVE  Matches(h, p)' <=> Matches(h, p)
<1>1. /\ setup'.behavior = setup.behavior /\ setup'.workstation = setup.workstation
      /\ setup'.closed = setup.closed /\ setup'.served = setup.served
      /\ setup'.openPorts = setup.openPorts /\ setup'.preservePorts = setup.preservePorts
  BY DEF SameSetup, SetupFields
<1>2. Allow' = Allow /\ ProbePorts' = ProbePorts /\ T7Ports' = T7Ports
  BY <1>1 DEF Allow, autoDrop, ProbePorts, T7Ports
<1> QED
  BY <1>1, <1>2 DEF Matches, DropFilter, closedPortFilter, linuxTProbeFilter, linuxT7ProbeFilter,
       linuxT2T3DropFilter, udpUnreachableFilter, u1LengthFilter, winFilter

\* What carries packets, steps that leave them alone, and those that close.
LEMMA CarriedStep == ASSUME Carried, IInv, [Next]_vars PROVE Carried'
<1>1. DOMAIN setup = SetupFields
  BY DEF IInv, Places
<1>2. SameSetup
  <2>1. ASSUME Counted PROVE SameSetup
    BY <1>1, <2>1 DEF Counted, SameSetup
  <2>2. ASSUME setup' = setup PROVE SameSetup
    BY <2>2 DEF SameSetup
  <2>3. setup' = setup \/ Counted
    BY DEF Next, vars, Main, StartStep, StartFails, Started, Joined, StopResponder, CloseHandle, ResponderStopped, Exit,
         Stacking, Load, LoadFails, Enable, maybeArmHiFi, ShutdownSeen, LockHiFi, disarmHiFi, StopWatchdog,
         WatchdogJoined, Close, LoopJoined, Shutdown, Exited, Tick, watchdogTrip, WatchdogReturns, NetworkChanges,
         Carry, Captured, Delivered, LostAtClose, Arrive, HostSends, Respond, RecvFails, Expire, LoopInbound,
         LoopOutbound, HostAnswers
  <2> QED
    BY <2>1, <2>2, <2>3
<1>3. \A h, p : Matches(h, p)' <=> Matches(h, p)
  BY <1>2, MatchesStay
<1>4. shutdown => shutdown'
  BY DEF Next, vars, Main, StartStep, StartFails, Started, Joined, StopResponder, CloseHandle, ResponderStopped, Exit,
       Stacking, Load, LoadFails, Enable, maybeArmHiFi, ShutdownSeen, LockHiFi, disarmHiFi, StopWatchdog,
       WatchdogJoined, Close, LoopJoined, Shutdown, Exited, Tick, watchdogTrip, WatchdogReturns, NetworkChanges,
       Carry, Captured, Delivered, LostAtClose, Arrive, HostSends, Respond, RecvFails, Expire, LoopInbound,
       LoopOutbound, HostAnswers, Elsewhere
<1>5. ASSUME inb' = inb \/ inb'.at \in {"wire", "none"}, DOMAIN inb' = {"pkt", "at", "seen"},
             open \subseteq open' \/ shutdown,
             stk' = stk \/ stk' \notin {"disarm", "locked", "stopwd", "joinwd", "close", "join", "done"} \/ shutdown',
             pc' = pc \/ pc' \in {"start", "run"} \/ shutdown'
      PROVE  Carried'
  <2>1. /\ inb'.at \in DOMAIN Priority \cup {"wire", "none"}
        /\ inb'.at \in DOMAIN Priority => inb' = inb
    <3>1. "wire" \notin DOMAIN Priority /\ "none" \notin DOMAIN Priority
      BY DEF Priority
    <3> QED
      BY <1>5, <3>1 DEF Carried
  <2>2. inb'.at \in DOMAIN Priority => Matches(inb.at, inb.pkt)' /\ (inb'.at \in open' \/ shutdown')
    BY <1>3, <1>4, <1>5, <2>1 DEF Carried
  <2>3. /\ stk' \in {"disarm", "locked", "stopwd", "joinwd", "close", "join", "done"} => shutdown'
        /\ pc' \in {"stop", "wait", "exited"} => shutdown'
    BY <1>4, <1>5 DEF Carried
  <2> QED
    BY <1>5, <2>1, <2>2, <2>3 DEF Carried
<1>6. inb.at = "none" \/ inb.at # "none"
  OBVIOUS
<1>7. DOMAIN NoPacket = {"pkt", "at", "seen"} /\ NoPacket.at = "none" /\ DOMAIN inb = {"pkt", "at", "seen"}
  BY DEF NoPacket, Carried
<1>8. CASE StartStep \/ StartFails \/ Started
  <2>1. inb' = inb /\ open \subseteq open' /\ pc' \in {"start", "run"} /\ (stk' = stk \/ stk' = "load")
    BY <1>8 DEF StartStep, Install, StartFails, Started, traffic
  <2> QED
    BY <1>5, <1>7, <2>1
<1>9. CASE Joined \/ StopResponder \/ CloseHandle \/ ResponderStopped \/ Exit
  <2>1. shutdown /\ (inb' = inb \/ inb' = NoPacket) /\ stk' = stk
    <3>1. Joined => shutdown
      BY DEF Joined
    <3>2. StopResponder \/ CloseHandle \/ ResponderStopped \/ Exit => pc \in {"stop", "wait"}
      BY DEF StopResponder, CloseHandle, ResponderStopped, Exit
    <3>3. shutdown
      BY <1>9, <3>1, <3>2 DEF Carried
    <3>4. (inb' = inb \/ inb' = NoPacket) /\ stk' = stk
      BY <1>9 DEF Joined, StopResponder, CloseHandle, ResponderStopped, Exit, traffic
    <3> QED
      BY <3>3, <3>4
  <2> QED
    BY <1>4, <1>5, <1>7, <2>1
<1>10. CASE Load \/ LoadFails \/ Enable \/ maybeArmHiFi \/ ShutdownSeen
  <2>1. /\ inb' = inb /\ open \subseteq open' /\ pc' = pc
        /\ stk' \in {"enable", "arm", "wait"} \/ shutdown'
    <3>1. CASE Load \/ LoadFails \/ Enable \/ maybeArmHiFi
      BY <3>1 DEF Load, LoadFails, Enable, maybeArmHiFi, Stack, traffic, main
    <3>2. CASE ShutdownSeen
      BY <3>2 DEF ShutdownSeen, Stack, traffic, main
    <3> QED
      BY <1>10, <3>1, <3>2
  <2> QED
    BY <1>5, <1>7, <2>1
<1>11. CASE LockHiFi \/ disarmHiFi \/ StopWatchdog \/ WatchdogJoined \/ Close \/ LoopJoined
  <2>1. stk \in {"disarm", "locked", "stopwd", "joinwd", "close", "join"} /\ pc' = pc
        /\ (inb' = inb \/ inb' = NoPacket)
    BY <1>11 DEF LockHiFi, disarmHiFi, StopWatchdog, WatchdogJoined, Close, LoopJoined, Stack, traffic, main
  <2>2. shutdown
    BY <2>1 DEF Carried
  <2> QED
    BY <1>4, <1>5, <1>7, <2>1, <2>2
<1>12. CASE Shutdown \/ Exited \/ UNCHANGED vars \/ Tick \/ watchdogTrip \/ WatchdogReturns \/ NetworkChanges
  <2>1. UNCHANGED <<inb, open, stk, pc>>
    BY <1>12 DEF Shutdown, Exited, vars, Tick, watchdogTrip, WatchdogReturns, NetworkChanges, traffic, main
  <2> QED
    BY <1>5, <1>7, <2>1
<1>13. ASSUME Elsewhere, inb' = inb \/ inb' = NoPacket \/ inb'.at = "wire", DOMAIN inb' = {"pkt", "at", "seen"}
       PROVE  Carried'
  BY <1>5, <1>7, <1>13 DEF Elsewhere, main
<1>14. ASSUME NEW h \in DOMAIN Priority, Captured(h) PROVE Carried'
  <2>1. h \in open /\ Matches(h, inb.pkt) /\ inb' = [inb EXCEPT !.at = h] /\ UNCHANGED <<open, stk, pc>>
    BY <1>14 DEF Captured, Contenders, Elsewhere, main
  <2>2. inb'.at = h /\ inb'.pkt = inb.pkt /\ DOMAIN inb' = {"pkt", "at", "seen"}
    BY <1>7, <2>1
  <2>3. Matches(inb.at, inb.pkt)'
    BY <1>3, <2>1, <2>2
  <2> QED
    BY <1>4, <2>1, <2>2, <2>3 DEF Carried
<1>15. ASSUME NEW p, Arrive(p) \/ HostSends(p) PROVE Carried'
  <2>1. CASE Arrive(p)
    <3>1. Elsewhere /\ inb' = [pkt |-> p, at |-> "wire", seen |-> {}]
      BY <2>1 DEF Arrive
    <3> QED
      BY <1>13, <3>1
  <2>2. CASE HostSends(p)
    BY <1>7, <1>13, <2>2 DEF HostSends
  <2> QED
    BY <1>15, <2>1, <2>2
<1>16. ASSUME NEW h, Respond(h) \/ RecvFails(h) PROVE Carried'
  <2>1. /\ Elsewhere
        /\ \/ inb' = inb \/ inb' = NoPacket
           \/ inb' = [inb EXCEPT !.at = "wire", !.seen = @ \cup {h}]
    BY <1>16 DEF Respond, RecvFails, traffic
  <2> QED
    BY <1>7, <1>13, <2>1
<1>17. CASE LoopInbound
  <2>1. Elsewhere /\ inb' = [inb EXCEPT !.at = "wire", !.seen = @ \cup {"stack"}]
    BY <1>17 DEF LoopInbound
  <2> QED
    BY <1>7, <1>13, <2>1
<1>18. CASE Delivered \/ LostAtClose \/ LoopOutbound \/ HostAnswers \/ \E c \in DOMAIN synCache : Expire(c)
  <2>1. Elsewhere /\ (inb' = inb \/ inb' = NoPacket)
    BY <1>18 DEF Delivered, LostAtClose, LoopOutbound, HostAnswers, Expire
  <2> QED
    BY <1>7, <1>13, <2>1
<1> QED
  BY <1>8, <1>9, <1>10, <1>11, <1>12, <1>14, <1>15, <1>16, <1>17, <1>18 DEF Next, Main, Stacking, Carry

\* The end of the way of a packet that is the host's own business: it reaches
\* the host, or a handle is closed under it while runMimic shuts down.
NoneLost ==
    inb.at # "none" /\ Legit(inb.pkt) /\ inb'.at = "none" =>
        fate' = "delivered" \/ (fate' = "closed" /\ shutdown)

LEMMA NoneLostStep == ASSUME Carried, IInv, [Next]_vars PROVE NoneLost
<1> SUFFICES ASSUME inb.at # "none", Legit(inb.pkt), inb'.at = "none"
             PROVE  fate' = "delivered" \/ (fate' = "closed" /\ shutdown)
  BY DEF NoneLost
<1>1. inb' # inb
  OBVIOUS
<1>2. CASE Main
  <2>1. Exit /\ pc = "stop"
    BY <1>1, <1>2 DEF Main, StartStep, StartFails, Started, Joined, StopResponder, CloseHandle, ResponderStopped, Exit, traffic
  <2> QED
    BY <2>1 DEF Exit, Carried
<1>3. CASE Stacking
  <2>1. Close
    BY <1>1, <1>3 DEF Stacking, Load, LoadFails, Enable, maybeArmHiFi, ShutdownSeen, LockHiFi, disarmHiFi,
         StopWatchdog, WatchdogJoined, LoopJoined, traffic
  <2>2. stk = "close" /\ fate' = "closed"
    BY <1>1, <2>1 DEF Close, Stack
  <2> QED
    BY <2>2 DEF Carried
<1>4. CASE \/ Shutdown \/ Exited \/ UNCHANGED vars \/ Tick \/ watchdogTrip \/ WatchdogReturns \/ NetworkChanges
           \/ LoopOutbound \/ HostAnswers \/ (\E p \in setup.host : HostSends(p))
           \/ (\E h \in DOMAIN Priority : RecvFails(h)) \/ (\E c \in DOMAIN synCache : Expire(c))
  <2>1. inb' = inb
    BY <1>4 DEF Shutdown, Exited, vars, Tick, watchdogTrip, WatchdogReturns, NetworkChanges, LoopOutbound,
         HostAnswers, HostSends, RecvFails, Expire, traffic
  <2> QED
    BY <1>1, <2>1
<1>5. CASE (\E p \in setup.inbound : Arrive(p)) \/ (\E h \in DOMAIN Priority : Captured(h)) \/ LoopInbound
  <2>1. DOMAIN inb = {"pkt", "at", "seen"} /\ "none" \notin DOMAIN Priority
    BY DEF Carried, Priority
  <2>2. inb'.at # "none"
    <3>1. CASE \E p \in setup.inbound : Arrive(p)
      BY <3>1 DEF Arrive
    <3>2. CASE \E h \in DOMAIN Priority : Captured(h)
      BY <2>1, <3>2 DEF Captured
    <3>3. CASE LoopInbound
      BY <2>1, <3>3 DEF LoopInbound
    <3> QED
      BY <1>5, <3>1, <3>2, <3>3
  <2> QED
    BY <2>2
<1>6. CASE Delivered
  BY <1>6 DEF Delivered
<1>7. CASE LostAtClose
  BY <1>7 DEF LostAtClose, Carried
<1>8. ASSUME NEW h \in DOMAIN Priority, Respond(h) PROVE FALSE
  <2>1. inb.at = h /\ h \in open /\ h # "stack" /\ Matches(h, inb.pkt)
    BY <1>8 DEF Respond, Carried
  <2>2. /\ h = "drop" => Filters
        /\ h \in {"t46", "t7", "t23"} => IsLinux
    BY <2>1, OpenForPersona
  <2>3. Verdict(h, inb.pkt) = "pass"
    BY <2>1, <2>2, LegitPasses
  <2>4. inb' = [inb EXCEPT !.at = "wire", !.seen = @ \cup {h}]
    BY <1>8, <2>3 DEF Respond
  <2> QED
    BY <2>4 DEF Carried
<1> QED
  BY <1>2, <1>3, <1>4, <1>5, <1>6, <1>7, <1>8 DEF Next, Carry

\* icmp_windows.go:275 "legitimate traffic is never dropped": for every
\* configuration and whatever handles are open, started halfway or being
\* closed, no responder drops or answers a packet that is the host's own
\* business; only closing a handle at shutdown may lose one.  That such a
\* packet does not wait for ever is the other half of HostTrafficFlows.
THEOREM LegitimateTrafficKept == Spec => [][NoneLost]_vars
<1>1. Init => Carried
  BY DEF Init, Carried, NoPacket, Priority
<1>2. Carried /\ IInv /\ [Next]_vars => Carried'
  BY CarriedStep
<1>3. Carried /\ IInv /\ [Next]_vars => [NoneLost]_vars
  BY NoneLostStep
<1> QED
  BY <1>1, <1>2, <1>3, Invariance, PTL DEF Spec
-----------------------------------------------------------------------------
(* The watchdog.                                                           *)

\* A driver that is armed and has had a watchdog still has it, and nobody has
\* told it to end: the safety half of Recovers.
Watched == armed /\ wd.st # "none" => wd.st \in {"run", "trip"} /\ ~wd.stop

\* A watchdog begins with the driver, and it has ended, or been told to, only
\* with the driver disarmed.
Watching ==
    /\ stk \in {"none", "load", "enable", "arm"} => wd.st = "none" /\ ~wd.stop
    /\ wd.st \in {"tripped", "gone"} \/ wd.stop => ~armed

\* Only the stack goroutine arms, and only watchdogTrip and disarmHiFi come
\* before the end of a watchdog.
LEMMA WatchingStep == ASSUME Watching, IInv, [Next]_vars PROVE Watching'
<1>1. StackHolds /\ WatchdogKnown /\ Places
  BY DEF IInv
<1>2. CASE UNCHANGED <<stk, armed, wd>>
  BY <1>2 DEF Watching
<1>3. CASE Main
  <2>1. UNCHANGED <<armed, wd>>
    BY <1>3 DEF Main, StartStep, StartFails, Started, Joined, StopResponder, CloseHandle, ResponderStopped, Exit, driver
  <2>2. CASE Started
    BY <1>1, <2>1, <2>2 DEF Started, Places, Watching
  <2>3. CASE StartStep \/ StartFails \/ Joined \/ StopResponder \/ CloseHandle \/ ResponderStopped \/ Exit
    <3>1. stk' = stk
      BY <2>3 DEF StartStep, StartFails, Joined, StopResponder, CloseHandle, ResponderStopped, Exit
    <3> QED
      BY <1>2, <2>1, <3>1
  <2> QED
    BY <1>3, <2>2, <2>3 DEF Main
<1>4. CASE Stacking
  <2>1. CASE Load \/ LoadFails \/ Enable \/ ShutdownSeen \/ LockHiFi \/ WatchdogJoined \/ Close \/ LoopJoined
    <3>1. UNCHANGED <<armed, wd>>
      BY <2>1 DEF Load, LoadFails, Enable, ShutdownSeen, LockHiFi, WatchdogJoined, Close, LoopJoined, driver
    <3>2. stk' \in {"none", "load", "enable", "arm"} => stk \in {"none", "load", "enable", "arm"}
      BY <2>1 DEF Load, LoadFails, Enable, ShutdownSeen, LockHiFi, WatchdogJoined, Close, LoopJoined, Stack
    <3> QED
      BY <3>1, <3>2 DEF Watching
  <2>2. CASE maybeArmHiFi
    <3>1. wd.st = "none" /\ ~wd.stop /\ stk' = "wait"
      BY <2>2 DEF maybeArmHiFi, Stack, Watching
    <3>2. wd' = wd \/ wd' = [st |-> "run", fails |-> 0, stop |-> FALSE]
      BY <2>2 DEF maybeArmHiFi, NoWatchdog
    <3> QED
      BY <3>1, <3>2 DEF Watching
  <2>3. CASE disarmHiFi
    <3>1. armed' = FALSE /\ stk' \in {"stopwd", "close"}
      BY <2>3 DEF disarmHiFi, Stack
    <3> QED
      BY <3>1 DEF Watching
  <2>4. CASE StopWatchdog
    <3>1. armed' = FALSE /\ stk' = "joinwd"
      BY <1>1, <2>4 DEF StopWatchdog, Stack, StackHolds
    <3> QED
      BY <3>1 DEF Watching
  <2> QED
    BY <1>4, <2>1, <2>2, <2>3, <2>4 DEF Stacking
<1>5. CASE Tick
  <2>1. wd.st = "run" /\ UNCHANGED <<stk, armed>>
    BY <1>5 DEF Tick
  <2>2. wd'.st \in {"run", "trip"} /\ wd'.stop = wd.stop
    BY <1>1, <1>5 DEF Tick, WatchdogKnown
  <2> QED
    BY <2>1, <2>2 DEF Watching
<1>6. CASE watchdogTrip
  <2>1. wd.st = "trip" /\ armed' = FALSE /\ stk' = stk
    BY <1>6 DEF watchdogTrip
  <2> QED
    BY <2>1 DEF Watching
<1>7. CASE WatchdogReturns
  <2>1. ~armed /\ armed' = armed /\ wd.st # "none" /\ stk' = stk
    BY <1>1, <1>7 DEF WatchdogReturns, Watching
  <2> QED
    BY <2>1 DEF Watching
<1>8. CASE Quiet
  BY <1>2, <1>8 DEF Quiet
<1>9. CASE Shutdown \/ NetworkChanges \/ Exited \/ UNCHANGED vars
  BY <1>2, <1>9 DEF Shutdown, NetworkChanges, Exited, vars, main, driver
<1>10. CASE \/ \E p \in setup.inbound : Arrive(p)
            \/ \E p \in setup.host : HostSends(p)
            \/ \E h \in DOMAIN Priority : Captured(h) \/ Respond(h) \/ RecvFails(h)
            \/ \E c \in DOMAIN synCache : Expire(c)
            \/ Delivered \/ LostAtClose \/ LoopInbound \/ LoopOutbound \/ HostAnswers
  <2>1. Quiet
    BY <1>1, <1>10, TrafficIsQuiet DEF Places
  <2> QED
    BY <1>8, <2>1
<1> QED
  BY <1>3, <1>4, <1>5, <1>6, <1>7, <1>9, <1>10 DEF Next, Carry

\* connmon_windows.go:17-21: while the driver is armed on a host that has a
\* watchdog, the watchdog is at work, so that three failed probes disarm it.
THEOREM ArmedIsWatched == Spec => []Watched
<1>1. Init => Watching
  BY DEF Init, Watching, NoWatchdog
<1>2. Watching /\ IInv /\ [Next]_vars => Watching'
  BY WatchingStep
<1>3. Watching /\ IInv => Watched
  BY DEF Watching, Watched, IInv, WatchdogKnown
<1> QED
  BY <1>1, <1>2, <1>3, Invariance, PTL DEF Spec
=============================================================================
