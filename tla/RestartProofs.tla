---------------------------- MODULE RestartProofs ----------------------------
(***************************************************************************)
(* Proofs about Restart, for every number of ports, requests and kills,    *)
(* and for servers that stop fast or slowly.                               *)
(*                                                                         *)
(* What a regular restart promises is an invariant of the whole handoff.   *)
(* It holds because a regular restart has two instances only, and the      *)
(* second never exists before the first is gone: under systemd because the *)
(* unit is busy until then, and without it because the one helper waits.   *)
(* RegularInv says so, and what each of the two holds of the host at each  *)
(* place of its startup or teardown.                                       *)
(***************************************************************************)
EXTENDS Restart, FiniteSetTheorems, TLAPS

\* Requests take the helpers in order.
HelpersInOrder == \A h \in Helpers : \A g \in 1 .. (h - 1) : helper[h] # "none" => helper[g] # "none"

\* The second instance is the last, and it starts when the first is gone.
Handoff ==
    /\ inst[1] \in Stopping \cup {"up", "gone"}
    /\ \A i \in Inst \ {1} :
         /\ i # 2 => inst[i] = "none"
         /\ inst[i] \in Starting \cup {"none", "up", "gone"}
         /\ inst[i] # "none" => inst[1] = "gone"

\* With systemd, what the unit says of the two; without, what the helper says.
Supervised ==
    /\ inst[1] # "gone" => unit = "active"
    /\ unit \in {"cleanup", "queued"} => inst[1] = "gone" /\ \A i \in Inst \ {1} : inst[i] = "none"
    /\ inst[1] # "up" => 2 \in Inst
Unsupervised ==
    /\ unit = "inactive"
    /\ \A h \in Helpers :
         /\ helper[h] # "none" => h = 1
         /\ helper[h] = "start" =>
              inst[1] = "gone" /\ \A i \in Inst \ {1} : inst[i] = "none"
         /\ helper[h] = "wait" => \A i \in Inst \ {1} : inst[i] = "none"

\* What the first instance still has of the host.
FirstHolds ==
    /\ inst[1] = "up" =>
         /\ socket = 1 /\ rules = {1} /\ filter = 1 /\ served[1] = Ports
    /\ inst[1] \in {"up", "drain"} =>
         \A k \in 1 .. Ports : port[k] = IF k > Ports - served[1] THEN 1 ELSE None
    /\ inst[1] \in {"delTable", "delSocket"} => \A k \in 1 .. Ports : port[k] = None

\* What the second one has of it already.
SecondHolds ==
    \A i \in Inst \ {1} :
       /\ inst[i] \in {"clean", "rules", "filter", "ports", "up"} => socket = i
       /\ inst[i] = "rules" => rules = {}
       /\ inst[i] \in {"filter", "ports", "up"} => rules = {i}
       /\ inst[i] \in {"rules", "filter"} => filter = None
       /\ inst[i] \in {"ports", "up"} => filter = i
       /\ inst[i] = "up" => \A k \in 1 .. Ports : port[k] = i
PortsFree ==
    inst[1] = "gone" /\ (\A i \in Inst \ {1} : inst[i] # "up") => \A k \in 1 .. Ports : port[k] = None

RegularInv ==
    Handoff /\ (service => Supervised) /\ (~service => Unsupervised)
            /\ FirstHolds /\ SecondHolds /\ PortsFree

\* The inductive invariant.
IInv == TypeOK /\ HelpersInOrder /\ (Regular => RegularInv)
-----------------------------------------------------------------------------
\* Instances and helpers are numbered, and there is a first instance.
LEMMA InstanceOne == 1 \in Inst /\ Inst \subseteq Nat /\ Helpers \subseteq Nat
BY RestartAssumption DEF Inst, Helpers

\* Startup, teardown, helpers and systemd keep the types.
LEMMA TypeStep == TypeOK /\ [Next]_vars => TypeOK'
<1> SUFFICES ASSUME TypeOK, [Next]_vars PROVE TypeOK'
  OBVIOUS
<1> USE RestartAssumption, InstanceOne
<1> USE DEF TypeOK, Starting, Stopping, setting, host
<1>1. ASSUME NEW i \in Inst, Step(i) PROVE TypeOK'
  <2>1. CASE Listen(i)
    BY <2>1 DEF Listen, Goto
  <2>2. CASE Clean(i)
    BY <2>2 DEF Clean, Goto
  <2>3. CASE AddRules(i)
    BY <2>3 DEF AddRules, Goto
  <2>4. CASE Attach(i)
    BY <2>4 DEF Attach, Goto
  <2>5. CASE Serve(i)
    BY <2>5 DEF Serve, Goto
  <2>6. CASE CloseFilter(i)
    BY <2>6 DEF CloseFilter
  <2>7. CASE StopServer(i)
    BY <2>7 DEF StopServer
  <2>8. CASE Drained(i)
    BY <2>8 DEF Drained, Goto
  <2>9. CASE DeleteTable(i)
    BY <2>9 DEF DeleteTable, Goto
  <2>10. CASE Exit(i)
    BY <2>10 DEF Exit, Goto, UnitAfterExit
  <2> QED
    BY <1>1, <2>1, <2>2, <2>3, <2>4, <2>5, <2>6, <2>7, <2>8, <2>9, <2>10 DEF Step
<1>2. CASE Request
  BY <1>2 DEF Request, Goto
<1>3. CASE Kill
  BY <1>3 DEF Kill, Goto, UnitAfterKill
<1>4. CASE UnitCleanup
  BY <1>4 DEF UnitCleanup, Spawn
<1>5. ASSUME NEW h \in Helpers, WaitForProcessExit(h) PROVE TypeOK'
  BY <1>5 DEF WaitForProcessExit
<1>6. ASSUME NEW h \in Helpers, PerformPendingRestart(h) PROVE TypeOK'
  BY <1>6 DEF PerformPendingRestart, Spawn
<1>7. CASE UNCHANGED vars
  BY <1>7 DEF vars
<1> QED
  BY <1>1, <1>2, <1>3, <1>4, <1>5, <1>6, <1>7 DEF Next, Help

\* A helper, once used, stays used; whether Mimic is a unit does not change,
\* and impatience is not forgotten.
LEMMA Progress ==
    ASSUME TypeOK, HelpersInOrder, [Next]_vars
    PROVE  /\ HelpersInOrder'
           /\ \A h \in Helpers : helper[h] # "none" => helper'[h] # "none"
           /\ service' = service /\ (impatient => impatient')
<1> DEFINE Goal == /\ HelpersInOrder'
                   /\ \A h \in Helpers : helper[h] # "none" => helper'[h] # "none"
                   /\ service' = service /\ (impatient => impatient')
           Same == /\ \A h \in Helpers : helper[h] # "none" <=> helper'[h] # "none"
                   /\ service' = service /\ (impatient => impatient')
<1>1. \A h \in Helpers : \A g \in 1 .. (h - 1) : g \in Helpers
  BY RestartAssumption DEF Helpers
<1>2. ASSUME Same PROVE Goal
  BY <1>1, <1>2 DEF HelpersInOrder
<1>3. ASSUME NEW i \in Inst, Step(i) PROVE Goal
  <2>1. UNCHANGED <<helper, service, impatient>>
    BY <1>3 DEF Step, Listen, Clean, AddRules, Attach, Serve, CloseFilter, StopServer, Drained,
         DeleteTable, Exit, setting, host
  <2> QED
    BY <1>2, <2>1
<1>4. ASSUME Request PROVE Goal
  <2>1. PICK h \in Helpers :
          /\ helper[h] = "none"
          /\ \A g \in 1 .. (h - 1) : helper[g] # "none"
          /\ helper' = [helper EXCEPT ![h] = "wait"]
    BY <1>4 DEF Request
  <2>2. \A g \in Helpers : helper'[g] = IF g = h THEN "wait" ELSE helper[g]
    BY <2>1 DEF TypeOK
  <2>3. service' = service /\ impatient' = impatient
    BY <1>4 DEF Request, setting
  <2> QED
    BY <1>1, <2>1, <2>2, <2>3 DEF HelpersInOrder
<1>5. ASSUME Kill PROVE Goal
  BY <1>2, <1>5 DEF Kill, setting
<1>6. ASSUME UnitCleanup PROVE Goal
  BY <1>2, <1>6 DEF UnitCleanup, setting
<1>7. ASSUME NEW h \in Helpers, WaitForProcessExit(h) PROVE Goal
  BY <1>2, <1>7 DEF WaitForProcessExit, setting, TypeOK
<1>8. ASSUME NEW h \in Helpers, PerformPendingRestart(h) PROVE Goal
  BY <1>2, <1>8 DEF PerformPendingRestart, setting, TypeOK
<1>9. ASSUME UNCHANGED vars PROVE Goal
  BY <1>2, <1>9 DEF vars, setting
<1> HIDE DEF Goal
<1>10. Goal
  BY <1>3, <1>4, <1>5, <1>6, <1>7, <1>8, <1>9 DEF Next, Help
<1> QED
  BY <1>10 DEF Goal

\* One request at most, said without counting.
Alone == \A h \in Helpers : helper[h] # "none" => h = 1

\* Counting the used helpers comes to the same.
LEMMA CountOfUsed ==
    ASSUME TypeOK, HelpersInOrder
    PROVE  Cardinality(Used) <= 1 <=> Alone
<1>1. IsFiniteSet(Helpers)
  BY FS_Interval, RestartAssumption DEF Helpers
<1>2. IsFiniteSet(Used) /\ Cardinality(Used) \in Nat
  BY <1>1, FS_Subset, FS_CardinalityType DEF Used
<1>3. ASSUME Alone PROVE Cardinality(Used) <= 1
  <2>1. IsFiniteSet({1}) /\ Cardinality({1}) = 1
    BY FS_Singleton
  <2>2. Used \subseteq {1}
    BY <1>3 DEF Alone, Used
  <2> QED
    BY <2>1, <2>2, <1>2, FS_Subset
<1>4. ASSUME ~Alone PROVE ~(Cardinality(Used) <= 1)
  <2>1. PICK h \in Helpers : helper[h] # "none" /\ h # 1
    BY <1>4 DEF Alone
  <2>2. 1 \in Used /\ h \in Used
    <3>1. 1 \in Helpers /\ 1 \in 1 .. (h - 1)
      BY <2>1, RestartAssumption DEF Helpers
    <3> QED
      BY <2>1, <3>1 DEF HelpersInOrder, Used
  <2>3. IsFiniteSet({1}) /\ Cardinality({1}) = 1
    BY FS_Singleton
  <2>4. IsFiniteSet({1} \cup {h}) /\ Cardinality({1} \cup {h}) = 2
    <3>1. h \notin {1}
      BY <2>1
    <3> QED
      BY <2>3, <3>1, FS_AddElement
  <2>5. {1} \cup {h} \subseteq Used
    BY <2>2
  <2>6. Cardinality({1} \cup {h}) <= Cardinality(Used)
    BY <2>5, <1>2, FS_Subset
  <2> QED
    BY <2>4, <2>6, <1>2
<1> QED
  BY <1>3, <1>4

\* A new process is the second one, if none but the first ever ran.
LEMMA SpawnsSecond ==
    ASSUME TypeOK, 2 \in Inst, inst[1] # "none", \A i \in Inst \ {1} : inst[i] = "none", Spawn
    PROVE  inst' = [inst EXCEPT ![2] = "listen"]
<1> DEFINE P(i) == inst[i] = "none" /\ \A j \in 1 .. (i - 1) : inst[j] # "none"
<1>1. P(2)
  <2>1. \A j \in 1 .. (2 - 1) : j = 1
    OBVIOUS
  <2> QED
    BY <2>1
<1>2. \A i \in Inst : P(i) => i = 2
  <2> SUFFICES ASSUME NEW i \in Inst, P(i), i # 2 PROVE FALSE
    OBVIOUS
  <2>1. i # 1 /\ i \in Nat \ {0} 
    BY InstanceOne, RestartAssumption DEF Inst
  <2>2. 2 \in 1 .. (i - 1)
    BY <2>1
  <2> QED
    BY <2>2
<1>3. (CHOOSE i \in Inst : P(i)) = 2
  <2> HIDE DEF P
  <2> QED
    BY <1>1, <1>2
<1> QED
  BY <1>3 DEF Spawn

\* A regular restart was regular all along.
LEMMA RegularBefore ==
    ASSUME IInv, [Next]_vars, Regular'
    PROVE  /\ TypeOK /\ TypeOK' /\ RegularInv /\ service' = service
           /\ ~service => ~impatient /\ ~impatient' /\ Alone /\ Alone'
<1>1. TypeOK /\ TypeOK' /\ HelpersInOrder
  BY TypeStep DEF IInv
<1>2. /\ HelpersInOrder'
      /\ \A h \in Helpers : helper[h] # "none" => helper'[h] # "none"
      /\ service' = service /\ (impatient => impatient')
  BY <1>1, Progress
<1>3. Cardinality(Used) <= 1 <=> Alone
  BY <1>1, CountOfUsed
<1>4. (Cardinality(Used) <= 1 <=> Alone)'
  <2>1. (TypeOK /\ HelpersInOrder => (Cardinality(Used) <= 1 <=> Alone))'
    BY CountOfUsed, PTL
  <2> QED
    BY <1>1, <1>2, <2>1
<1>5. ~service => ~impatient' /\ Alone'
  BY <1>2, <1>4 DEF Regular
<1>6. ~service => ~impatient /\ Alone
  BY <1>2, <1>5 DEF Alone
<1>7. Regular
  BY <1>3, <1>6 DEF Regular
<1> QED
  BY <1>1, <1>2, <1>5, <1>6, <1>7 DEF IInv

\* Every step of a regular restart keeps the handoff in order.
LEMMA RegularStep ==
    ASSUME IInv, [Next]_vars, Regular'
    PROVE  RegularInv'
<1>1. /\ TypeOK /\ TypeOK' /\ RegularInv /\ service' = service
      /\ ~service => ~impatient /\ ~impatient' /\ Alone /\ Alone'
  BY RegularBefore
<1>2. service \in BOOLEAN
  BY <1>1 DEF TypeOK
<1>11. \A j \in Inst : j # 1 /\ j # 2 => inst[j] = "none"
  BY <1>1 DEF RegularInv, Handoff
<1>12. ASSUME NEW i \in Inst, i # 1, inst[i] \in Starting
      PROVE  i = 2 /\ 2 \in Inst
  BY <1>11, <1>12 DEF Starting
<1> USE <1>1, <1>2, InstanceOne, RestartAssumption
<1> USE DEF RegularInv, Handoff, Supervised, Unsupervised, FirstHolds, SecondHolds, PortsFree,
            TypeOK, Starting, Stopping, None, setting, host
\* The second instance's startup.
<1>3. ASSUME NEW i \in Inst, \/ Listen(i) \/ Clean(i) \/ AddRules(i) \/ Attach(i) \/ Serve(i)
      PROVE  RegularInv'
  <2>1. i # 1 /\ inst[1] = "gone" /\ inst[i] \in Starting
    BY <1>3 DEF Listen, Clean, AddRules, Attach, Serve
  <2>2. i = 2 /\ 2 \in Inst
    BY <2>1, <1>12, Zenon
  <2>3. CASE Listen(2)
    <3>1. \/ inst' = [inst EXCEPT ![2] = "clean"] /\ socket' = 2
          \/ inst' = [inst EXCEPT ![2] = "gone"] /\ socket' = socket
      BY <2>3 DEF Listen, Goto
    <3>2. UNCHANGED <<served, holds, helper, rules, filter, port, unit>>
      BY <2>3 DEF Listen
    <3> QED
      BY <2>1, <2>2, <3>1, <3>2
  <2>4. CASE Clean(2)
    BY <2>1, <2>2, <2>4 DEF Clean, Goto
  <2>5. CASE AddRules(2)
    <3>1. inst[2] = "rules" /\ rules' = rules \cup {2} /\ inst' = [inst EXCEPT ![2] = "filter"]
      BY <2>5 DEF AddRules, Goto
    <3>2. rules = {}
      BY <2>2, <3>1
    <3>3. rules' = {2}
      BY <3>1, <3>2
    <3> QED
      BY <2>1, <2>2, <2>5, <3>1, <3>3 DEF AddRules
  <2>6. CASE Attach(2)
    BY <2>1, <2>2, <2>6 DEF Attach, Goto
  <2>7. CASE Serve(2)
    BY <2>1, <2>2, <2>7 DEF Serve, Goto
  <2> QED
    BY <1>3, <2>2, <2>3, <2>4, <2>5, <2>6, <2>7
\* The first one's teardown.
<1>4. ASSUME NEW i \in Inst,
             \/ CloseFilter(i) \/ StopServer(i) \/ Drained(i) \/ DeleteTable(i) \/ Exit(i)
      PROVE  RegularInv'
  <2>1. i = 1 /\ inst[1] \in Stopping
    BY <1>4 DEF CloseFilter, StopServer, Drained, DeleteTable, Exit
  <2>2. \A j \in Inst \ {1} : inst[j] = "none"
    BY <2>1
  <2>3. CASE CloseFilter(1)
    BY <2>1, <2>2, <2>3 DEF CloseFilter
  <2>4. CASE StopServer(1)
    <3>1. /\ inst[1] = "drain" /\ served[1] \in 1 .. Ports
          /\ served'[1] = served[1] - 1 /\ inst' = inst /\ helper' = helper /\ unit' = unit
      BY <2>4 DEF StopServer
    <3>2. \A k \in 1 .. Ports : port'[k] = IF k > Ports - served'[1] THEN 1 ELSE None
      <4> DEFINE l == Ports - served[1] + 1
      <4>1. /\ \A k \in 1 .. Ports : port[k] = IF k > Ports - served[1] THEN 1 ELSE None
            /\ DOMAIN port = 1 .. Ports
        BY <3>1
      <4>2. port' = IF port[l] = 1 THEN [port EXCEPT ![l] = None] ELSE port
        BY <2>1, <2>4 DEF StopServer
      <4>3. l \in 1 .. Ports /\ l > Ports - served[1]
        BY ONLY <3>1, RestartAssumption
      <4>4. port[l] = 1
        BY ONLY <4>1, <4>3
      <4> HIDE DEF l
      <4>5. \A k \in 1 .. Ports : port'[k] = IF k = l THEN None ELSE port[k]
        BY ONLY <4>1, <4>2, <4>4
      <4> QED
        BY ONLY <3>1, <4>1, <4>5, RestartAssumption DEF l
    <3> QED
      BY <2>1, <2>2, <3>1, <3>2
  <2>5. CASE Drained(1)
    BY <2>1, <2>2, <2>5 DEF Drained, Goto
  <2>6. CASE DeleteTable(1)
    BY <2>1, <2>2, <2>6 DEF DeleteTable, Goto
  <2>7. CASE Exit(1)
    BY <2>1, <2>2, <2>7 DEF Exit, Goto, UnitAfterExit
  <2> QED
    BY <1>4, <2>1, <2>3, <2>4, <2>5, <2>6, <2>7
<1>5. CASE Request
  <2>1. inst[1] \in Stopping \cup {"up"} /\ \A j \in Inst \ {1} : inst[j] = "none"
    BY <1>5 DEF Request
  <2>2. PICK h \in Helpers : helper' = [helper EXCEPT ![h] = "wait"]
    BY <1>5 DEF Request
  <2>3. 2 \in Inst
    BY <2>2 DEF Helpers, Inst
  <2>4. inst' = IF inst[1] = "up" THEN [inst EXCEPT ![1] = "drain"] ELSE inst
    BY <1>5 DEF Request, Goto
  <2>5. inst'[1] \in Stopping /\ \A j \in Inst \ {1} : inst'[j] = "none"
    BY <2>1, <2>4
  <2>6. UNCHANGED <<served, holds, host, unit>>
    BY <1>5 DEF Request
  <2>7. ~service => Unsupervised'
    BY <2>2, <2>5, <2>6 DEF Alone
  <2>8. FirstHolds'
    BY <2>1, <2>4, <2>6
  <2> QED
    BY <2>1, <2>3, <2>5, <2>6, <2>7, <2>8
<1>6. CASE Kill
  BY <1>6 DEF Kill, Goto, UnitAfterKill
<1>7. CASE UnitCleanup
  <2>1. service /\ inst[1] = "gone" /\ 2 \in Inst /\ \A j \in Inst \ {1} : inst[j] = "none"
    BY <1>7 DEF UnitCleanup
  <2>2. \/ inst' = [inst EXCEPT ![2] = "listen"] /\ unit' = "active"
        \/ inst' = inst /\ unit' = "inactive"
    BY <1>7, <2>1, SpawnsSecond DEF UnitCleanup
  <2> QED
    BY <1>7, <2>1, <2>2 DEF UnitCleanup
<1>8. ASSUME NEW h \in Helpers, WaitForProcessExit(h) PROVE RegularInv'
  BY <1>8 DEF WaitForProcessExit
<1>9. ASSUME NEW h \in Helpers, PerformPendingRestart(h) PROVE RegularInv'
  <2>1. CASE service
    BY <1>9, <2>1 DEF PerformPendingRestart
  <2>2. CASE ~service
    <3>1. inst[1] = "gone" /\ 2 \in Inst /\ (\A j \in Inst \ {1} : inst[j] = "none") /\ h = 1
      BY <1>9, <2>2 DEF PerformPendingRestart, Helpers, Inst
    <3>2. inst' = [inst EXCEPT ![2] = "listen"] /\ unit' = unit
      BY <1>9, <2>2, <3>1, SpawnsSecond DEF PerformPendingRestart
    <3>3. helper' = [helper EXCEPT ![h] = "done"] /\ UNCHANGED <<served, holds, host>>
      BY <1>9 DEF PerformPendingRestart
    <3> QED
      BY <2>2, <3>1, <3>2, <3>3
  <2> QED
    BY <2>1, <2>2
<1>10. CASE UNCHANGED vars
  BY <1>10 DEF vars
<1> HIDE DEF RegularInv
<1> QED
  BY <1>3, <1>4, <1>5, <1>6, <1>7, <1>8, <1>9, <1>10 DEF Next, Step, Help

\* The first instance has everything, and nobody else runs.
LEMMA InitEstablishes == Init => IInv
<1> SUFFICES ASSUME Init PROVE IInv
  OBVIOUS
<1> USE RestartAssumption, InstanceOne
<1>1. TypeOK
  <2>1. {service, complete, impatient} \subseteq BOOLEAN /\ holds \in [Inst -> BOOLEAN]
    BY Zenon DEF Init
  <2>2. inst \in [Inst -> Starting \cup Stopping \cup {"none", "up", "gone"}]
    BY DEF Init
  <2>3. /\ served \in [Inst -> 0 .. Ports] /\ port \in [1 .. Ports -> Inst \cup {None}]
        /\ kills \in 0 .. MaxKills
    BY DEF Init
  <2>4. helper \in [Helpers -> {"none", "wait", "start", "done", "killed"}]
    BY DEF Init
  <2>5. /\ socket \in Inst \cup {None} /\ filter \in Inst \cup {None} /\ rules \subseteq Inst
        /\ unit \in {"active", "cleanup", "queued", "inactive"}
    BY DEF Init
  <2> QED
    BY <2>1, <2>2, <2>3, <2>4, <2>5 DEF TypeOK
<1>2. HelpersInOrder
  BY DEF Init, HelpersInOrder, Helpers
<1>3. Handoff /\ SecondHolds /\ PortsFree
  BY DEF Init, Handoff, SecondHolds, PortsFree, Stopping, Starting
<1>4. (service => Supervised) /\ (~service => Unsupervised)
  BY DEF Init, Supervised, Unsupervised
<1>5. FirstHolds
  <2>1. \A k \in 1 .. Ports : port[k] = IF k > Ports - served[1] THEN 1 ELSE None
    <3>1. served[1] = Ports /\ \A k \in 1 .. Ports : port[k] = 1
      BY DEF Init
    <3>2. \A k \in 1 .. Ports : k > Ports - Ports
      OBVIOUS
    <3> QED
      BY <3>1, <3>2
  <2>2. inst[1] = "up" /\ socket = 1 /\ rules = {1} /\ filter = 1 /\ served[1] = Ports
    BY DEF Init
  <2> QED
    BY <2>1, <2>2 DEF FirstHolds
<1> QED
  BY <1>1, <1>2, <1>3, <1>4, <1>5 DEF IInv, RegularInv

\* The inductive invariant holds in every reachable state.
LEMMA Invariance == Spec => []IInv
<1>1. Init => IInv
  BY InitEstablishes
<1>2. IInv /\ [Next]_vars => IInv'
  <2> SUFFICES ASSUME IInv, [Next]_vars PROVE IInv'
    OBVIOUS
  <2>1. TypeOK' /\ HelpersInOrder'
    BY TypeStep, Progress DEF IInv
  <2>2. Regular' => RegularInv'
    BY RegularStep
  <2> QED
    BY <2>1, <2>2 DEF IInv
<1> QED
  BY <1>1, <1>2, PTL DEF Spec

\* The state stays typed through every interleaving of instances, helpers and
\* systemd, regular or not.
THEOREM TypeCorrect == Spec => []TypeOK
<1>1. IInv => TypeOK
  BY DEF IInv
<1> QED
  BY <1>1, Invariance, PTL

\* PerformPendingRestart starts Mimic "after the parent process has exited":
\* however many ports, requests and kills, a regular restart never has two
\* instances at a time.
THEOREM NeverTwo == Spec => []OneInstance
<1>1. IInv => OneInstance
  <2> SUFFICES ASSUME IInv, Regular PROVE Cardinality({i \in Inst : Live(i)}) <= 1
    BY DEF OneInstance
  <2>1. Handoff
    BY DEF IInv, RegularInv
  <2>2. \/ {i \in Inst : Live(i)} \subseteq {1}
        \/ {i \in Inst : Live(i)} \subseteq {2}
    BY <2>1 DEF Handoff, Live, Starting, Stopping
  <2>3. ASSUME NEW x, {i \in Inst : Live(i)} \subseteq {x}
        PROVE  Cardinality({i \in Inst : Live(i)}) <= 1
    <3>1. IsFiniteSet({x}) /\ Cardinality({x}) = 1
      BY FS_Singleton
    <3>2. /\ Cardinality({i \in Inst : Live(i)}) <= Cardinality({x})
      BY <2>3, <3>1, FS_Subset
    <3> QED
      BY <3>1, <3>2
  <2> QED
    BY <2>2, <2>3
<1> QED
  BY <1>1, Invariance, PTL

\* Whoever is left when a regular restart is over has the socket, the rules,
\* the filter and every port, whatever the old instance had left behind.
THEOREM RestartIsWhole == Spec => []Intact
<1>1. IInv => Intact
  <2> SUFFICES ASSUME IInv, NEW i \in Inst, inst[i] = "up", Regular
               PROVE  /\ socket = i /\ rules = {i} /\ filter = i
                      /\ \A k \in 1 .. Ports : port[k] = i
    BY DEF Intact
  <2>1. FirstHolds /\ SecondHolds
    BY DEF IInv, RegularInv
  <2>2. CASE i = 1
    <3>1. /\ socket = 1 /\ rules = {1} /\ filter = 1
          /\ \A k \in 1 .. Ports : port[k] = IF k > Ports - Ports THEN 1 ELSE None
      BY <2>1, <2>2 DEF FirstHolds
    <3> QED
      BY <2>2, <3>1, RestartAssumption
  <2>3. CASE i # 1
    BY <2>1, <2>3 DEF SecondHolds
  <2> QED
    BY <2>2, <2>3
<1> QED
  BY <1>1, Invariance, PTL
=============================================================================
