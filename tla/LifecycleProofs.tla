--------------------------- MODULE LifecycleProofs ---------------------------
(* Proofs about Lifecycle and the Ruleset it drives, for every set of ports, *)
(* every configuration, any number of services, requests and "mimic stop"s.  *)
EXTENDS Lifecycle, SequenceTheorems, WellFoundedInduction, TLAPS

-----------------------------------------------------------------------------
(* What the operators of Ruleset return.                                   *)

\* Min is a member of every set of positions that is not empty, and no member
\* is before it: Verdict and StageAfter take the first position.
LEMMA MinOfPositions ==
  ASSUME NEW S \in SUBSET Nat, S # {}
  PROVE  Min(S) \in S /\ \A y \in S : Min(S) <= y
<1> DEFINE Less == {ss \in Nat \X Nat : ss[1] < ss[2]}
<1>1. IsWellFoundedOn(Less, Nat)
  BY NatLessThanWellFounded, Zenon DEF OpToRel
<1> HIDE DEF Less
<1>2. PICK x \in S : \A y \in S : ~(<<y, x>> \in Less)
  BY <1>1, WFMin
<1>3. ASSUME NEW y \in S PROVE x <= y
  <2>1. <<y, x>> \in Nat \X Nat /\ <<y, x>>[1] = y /\ <<y, x>>[2] = x
    OBVIOUS
  <2>2. ~(y < x)
    BY <1>2, <2>1, Zenon DEF Less
  <2> QED
    BY <2>2
<1> QED
  BY <1>2, <1>3 DEF Min

\* runMimic sets the managers up in one order: it never returns to an earlier
\* one, and the ICMP drop comes only directly behind the default-drop.
LEMMA StagesAdvance ==
  /\ FirstStage \in {"closed", "probe", "drop", "up"}
  /\ FirstStage = "closed" => ClosedPorts # <<>>
  /\ NextStage("closed") \in {"probe", "drop", "up"}
  /\ NextStage("probe") \in {"drop", "up"}
  /\ NextStage("drop") \in {"icmp", "up"}
  /\ NextStage("icmp") = "up"
<1> DEFINE next(i) == {j \in DOMAIN StageOrder : j > i /\ Configured(StageOrder[j])}
<1>1. DOMAIN StageOrder = 1 .. 4 /\ StageOrder[1] = "closed" /\ StageOrder[2] = "probe"
      /\ StageOrder[3] = "drop" /\ StageOrder[4] = "icmp"
  BY DEF StageOrder
<1>2. Configured("icmp") => Configured("drop")
  BY DEF Configured, dropMode
<1>3. ASSUME NEW i \in 0 .. 4, next(i) # {}
      PROVE  Min(next(i)) \in next(i) /\ \A j \in next(i) : Min(next(i)) <= j
  BY <1>1, <1>3, MinOfPositions
<1>4. ASSUME NEW i \in 0 .. 4
      PROVE  \/ StageAfter(i) = "up"
             \/ \E j \in i + 1 .. 4 : /\ StageAfter(i) = StageOrder[j] /\ Configured(StageOrder[j])
                                      /\ \A m \in i + 1 .. j - 1 : ~Configured(StageOrder[m])
  <2>1. CASE next(i) = {}
    BY <2>1 DEF StageAfter
  <2>2. CASE next(i) # {}
    <3>1. StageAfter(i) = StageOrder[Min(next(i))]
      BY <2>2 DEF StageAfter
    <3>2. Min(next(i)) \in next(i) /\ \A j \in next(i) : Min(next(i)) <= j
      BY <2>2, <1>3
    <3> HIDE DEF next
    <3> DEFINE k == Min(next(i))
    <3>3. k \in i + 1 .. 4 /\ Configured(StageOrder[k])
      BY <3>2, <1>1 DEF next
    <3>4. ASSUME NEW m \in i + 1 .. k - 1 PROVE ~Configured(StageOrder[m])
      <4>1. m \in DOMAIN StageOrder /\ m > i /\ ~(k <= m)
        BY <3>3, <1>1
      <4> QED
        BY <3>2, <4>1 DEF next
    <3> QED
      BY <3>1, <3>3, <3>4
  <2> QED
    BY <2>1, <2>2
<1>5. /\ NextStage("closed") = StageAfter(1) /\ NextStage("probe") = StageAfter(2)
      /\ NextStage("drop") = StageAfter(3) /\ NextStage("icmp") = StageAfter(4)
  BY <1>1 DEF NextStage
<1>6. FirstStage \in {"closed", "probe", "drop", "up"} /\ (FirstStage = "closed" => Configured("closed"))
  BY <1>1, <1>2, <1>4 DEF FirstStage
<1>7. NextStage("closed") \in {"probe", "drop", "up"}
  BY <1>1, <1>2, <1>4, <1>5
<1>8. NextStage("probe") \in {"drop", "up"}
  BY <1>1, <1>2, <1>4, <1>5
<1>9. NextStage("drop") \in {"icmp", "up"} /\ NextStage("icmp") = "up"
  BY <1>1, <1>4, <1>5
<1>10. Configured("closed") => ClosedPorts # <<>>
  BY DEF Configured
<1> QED
  BY <1>6, <1>7, <1>8, <1>9, <1>10

Ensure == {[do |-> "table"], [do |-> "chain"]}

\* The nft commands a stage may run.
CommandsOf(s) ==
    CASE s = "closed" -> Ensure \cup {Add("closed", {p}) : p \in Closed}
      [] s = "probe"  -> Ensure \cup {Add("t2", {}), Add("t3", {})}
      [] s = "drop"   -> Ensure \cup {Add("established", {}), Add("loopback", {}),
                                      Add("allow", Allow), Add("drop", {})}
      [] s = "icmp"   -> Ensure \cup {Add("icmp", {})}
      [] s = "up"     -> {}

\* nftEnsureTable and then other commands.
LEMMA EnsureFirst ==
  ASSUME NEW C, [do |-> "table"] \in C, [do |-> "chain"] \in C, NEW t \in Seq(C)
  PROVE  /\ EnsureTable \o t \in Seq(C) /\ Len(EnsureTable \o t) = 2 + Len(t)
         /\ (EnsureTable \o t)[1] = [do |-> "table"] /\ (EnsureTable \o t)[2] = [do |-> "chain"]
         /\ \A i \in 1 .. Len(t) : (EnsureTable \o t)[i + 2] = t[i]
<1>1. /\ EnsureTable \in Seq(C) /\ Len(EnsureTable) = 2
      /\ EnsureTable[1] = [do |-> "table"] /\ EnsureTable[2] = [do |-> "chain"]
  BY DEF EnsureTable
<1>2. Len(t) \in Nat
  BY LenProperties
<1>3. /\ EnsureTable \o t \in Seq(C) /\ Len(EnsureTable \o t) = 2 + Len(t)
      /\ \A i \in 1 .. 2 + Len(t) : (EnsureTable \o t)[i] = IF i <= 2 THEN EnsureTable[i] ELSE t[i - 2]
  <2>1. /\ EnsureTable \o t \in Seq(C) /\ Len(EnsureTable \o t) = Len(EnsureTable) + Len(t)
        /\ \A i \in 1 .. Len(EnsureTable) + Len(t) :
              (EnsureTable \o t)[i] = IF i <= Len(EnsureTable) THEN EnsureTable[i] ELSE t[i - Len(EnsureTable)]
    BY <1>1, ConcatProperties, Zenon
  <2> QED
    BY <1>1, <2>1, Zenon
<1>4. ASSUME NEW i \in 1 .. Len(t) PROVE (EnsureTable \o t)[i + 2] = t[i]
  <2>1. i + 2 \in 1 .. 2 + Len(t) /\ ~(i + 2 <= 2) /\ (i + 2) - 2 = i
    BY <1>2
  <2> QED
    BY <1>3, <2>1
<1> QED
  BY <1>1, <1>2, <1>3, <1>4

\* EnableDrop makes the chain first; its last rule is the drop, and behind
\* the chain come the rules that let established sessions, loopback and the
\* allow-list through.
LEMMA DropProgram ==
  /\ EnableDrop \in Seq(CommandsOf("drop")) /\ Len(EnableDrop) \in {5, 6}
  /\ EnableDrop[1] = [do |-> "table"] /\ EnableDrop[2] = [do |-> "chain"]
  /\ EnableDrop[3] = Add("established", {}) /\ EnableDrop[4] = Add("loopback", {})
  /\ Allow # {} => Len(EnableDrop) = 6 /\ EnableDrop[5] = Add("allow", Allow)
  /\ Allow = {} => Len(EnableDrop) = 5
  /\ EnableDrop[Len(EnableDrop)] = Add("drop", {})
<1> DEFINE C == CommandsOf("drop")
<1>1. /\ [do |-> "table"] \in C /\ [do |-> "chain"] \in C /\ Add("established", {}) \in C
      /\ Add("loopback", {}) \in C /\ Add("allow", Allow) \in C /\ Add("drop", {}) \in C
  BY DEF CommandsOf, Ensure
<1> DEFINE e == Add("established", {})
           l == Add("loopback", {})
           a == Add("allow", Allow)
           d == Add("drop", {})
           mid == IF Allow # {} THEN <<a>> ELSE <<>>
           two == <<e, l>>
           four == EnsureTable \o two
           most == four \o mid
           one == <<d>>
<1>2. EnableDrop = most \o one
  BY Zenon DEF EnableDrop
<1> HIDE DEF C, e, l, a, d
<1>3. e \in C /\ l \in C /\ a \in C /\ d \in C
  BY <1>1 DEF e, l, a, d
<1>4. /\ two \in Seq(C) /\ Len(two) = 2 /\ two[1] = e /\ two[2] = l
      /\ one \in Seq(C) /\ Len(one) = 1 /\ one[1] = d
  BY <1>3
<1>5. /\ mid \in Seq(C) /\ Len(mid) \in {0, 1}
      /\ Allow # {} => Len(mid) = 1 /\ mid[1] = a
      /\ Allow = {} => Len(mid) = 0
  BY <1>3, EmptySeq
<1> HIDE DEF two, one, mid
<1>6. /\ four \in Seq(C) /\ Len(four) = 4
      /\ four[1] = [do |-> "table"] /\ four[2] = [do |-> "chain"] /\ four[3] = e /\ four[4] = l
  <2>1. /\ four \in Seq(C) /\ Len(four) = 2 + Len(two)
        /\ four[1] = [do |-> "table"] /\ four[2] = [do |-> "chain"]
        /\ \A i \in 1 .. Len(two) : four[i + 2] = two[i]
    BY <1>1, <1>4, EnsureFirst, Zenon DEF C
  <2> HIDE DEF four
  <2>2. four[1 + 2] = two[1] /\ four[2 + 2] = two[2]
    BY <2>1, <1>4
  <2> QED
    BY <1>4, <2>1, <2>2
<1> HIDE DEF four
<1>7. /\ most \in Seq(C) /\ Len(most) = 4 + Len(mid)
      /\ \A i \in 1 .. 4 + Len(mid) : most[i] = IF i <= 4 THEN four[i] ELSE mid[i - 4]
  <2>1. /\ most \in Seq(C) /\ Len(most) = Len(four) + Len(mid)
        /\ \A i \in 1 .. Len(four) + Len(mid) :
              most[i] = IF i <= Len(four) THEN four[i] ELSE mid[i - Len(four)]
    BY <1>5, <1>6, ConcatProperties, Zenon
  <2> QED
    BY <1>6, <2>1, Zenon
<1> HIDE DEF most
<1>8. /\ EnableDrop \in Seq(C) /\ Len(EnableDrop) = 4 + Len(mid) + 1
      /\ \A i \in 1 .. 4 + Len(mid) + 1 :
            EnableDrop[i] = IF i <= 4 + Len(mid) THEN most[i] ELSE one[i - (4 + Len(mid))]
  <2>1. /\ EnableDrop \in Seq(C) /\ Len(EnableDrop) = Len(most) + Len(one)
        /\ \A i \in 1 .. Len(most) + Len(one) :
              EnableDrop[i] = IF i <= Len(most) THEN most[i] ELSE one[i - Len(most)]
    BY <1>2, <1>4, <1>7, ConcatProperties, Zenon
  <2> QED
    BY <1>4, <1>7, <2>1, Zenon
<1>9. \A i \in 1 .. 4 : EnableDrop[i] = four[i]
  BY <1>5, <1>7, <1>8
<1>10. Allow # {} => EnableDrop[5] = a
  BY <1>5, <1>7, <1>8
<1>11. EnableDrop[Len(EnableDrop)] = d
  BY <1>4, <1>5, <1>8
<1>12. /\ Len(EnableDrop) \in {5, 6}
       /\ Allow # {} => Len(EnableDrop) = 6
       /\ Allow = {} => Len(EnableDrop) = 5
  <2>1. Len(EnableDrop) = 4 + Len(mid) + 1
    BY <1>8
  <2>2. CASE Len(mid) = 0
    BY <2>1, <2>2, <1>5
  <2>3. CASE Len(mid) = 1
    BY <2>1, <2>3, <1>5
  <2> QED
    BY <1>5, <2>2, <2>3
<1>13. /\ EnableDrop[1] = [do |-> "table"] /\ EnableDrop[2] = [do |-> "chain"]
       /\ EnableDrop[3] = e /\ EnableDrop[4] = l
  BY <1>6, <1>9
<1> QED
  BY <1>8, <1>10, <1>11, <1>12, <1>13, Zenon DEF e, l, a, d, C

\* The order of EnableDrop's rules.
LEMMA DropOrder ==
  ASSUME NEW n \in 1 .. Len(EnableDrop)
  PROVE  /\ EnableDrop[n].do = "rule" <=> n >= 3
         /\ EnableDrop[n].do = "rule" /\ EnableDrop[n].rule.kind = "drop" => n = Len(EnableDrop)
         /\ Len(EnableDrop) \in {5, 6}
         /\ EnableDrop[3].rule.kind = "established" /\ EnableDrop[4].rule.kind = "loopback"
         /\ Allow # {} => Len(EnableDrop) = 6 /\ EnableDrop[5].rule = Rule("allow", Allow)
<1>1. /\ Len(EnableDrop) \in {5, 6}
      /\ Allow # {} => Len(EnableDrop) = 6
      /\ Allow = {} => Len(EnableDrop) = 5
  BY DropProgram
<1>2. /\ EnableDrop[1].do = "table" /\ EnableDrop[2].do = "chain"
      /\ EnableDrop[3].do = "rule" /\ EnableDrop[3].rule.kind = "established"
      /\ EnableDrop[4].do = "rule" /\ EnableDrop[4].rule.kind = "loopback"
      /\ EnableDrop[Len(EnableDrop)].do = "rule"
  BY DropProgram DEF Add, Rule
<1>3. Allow # {} => EnableDrop[5].do = "rule" /\ EnableDrop[5].rule = Rule("allow", Allow)
                    /\ EnableDrop[5].rule.kind = "allow"
  BY DropProgram DEF Add, Rule
<1>4. n \in {1, 2, 3, 4} \/ n = Len(EnableDrop) \/ (n = 5 /\ Allow # {})
  <2>1. CASE Len(EnableDrop) = 5
    BY <2>1
  <2>2. CASE Len(EnableDrop) = 6
    BY <2>2, <1>1
  <2> QED
    BY <2>1, <2>2, <1>1
<1>5. EnableDrop[n].do = "rule" <=> n >= 3
  <2>1. CASE n \in {1, 2, 3, 4}
    BY <2>1, <1>2
  <2>2. CASE n = Len(EnableDrop)
    BY <2>2, <1>1, <1>2
  <2>3. CASE n = 5 /\ Allow # {}
    BY <2>3, <1>3
  <2> QED
    BY <2>1, <2>2, <2>3, <1>4
<1>6. EnableDrop[n].do = "rule" /\ EnableDrop[n].rule.kind = "drop" => n = Len(EnableDrop)
  BY <1>2, <1>3, <1>4
<1> QED
  BY <1>1, <1>2, <1>3, <1>5, <1>6

\* Every stage runs only its own commands, and a stage that is configured has
\* some; the probe manager makes the chain before its two rules.
LEMMA ProgramOfStage ==
  /\ \A s \in {"closed", "probe", "drop", "icmp", "up"} : Program(s) \in Seq(CommandsOf(s))
  /\ \A s \in {"probe", "drop", "icmp"} : Program(s) # <<>>
  /\ ClosedPorts # <<>> => Program("closed") # <<>>
  /\ Program("up") = <<>>
  /\ Program("drop") = EnableDrop
  /\ Len(Program("probe")) = 4
  /\ \A n \in 1 .. 4 : Program("probe")[n].do = "rule" <=> n > 2
<1>1. Program("closed") = AddPorts /\ AddPorts \in Seq(CommandsOf("closed"))
      /\ (ClosedPorts # <<>> => AddPorts # <<>>)
  <2>1. Len(ClosedPorts) \in Nat /\ \A i \in 1 .. Len(ClosedPorts) : ClosedPorts[i] \in Closed
    BY RulesetAssumption, LenProperties DEF Closed, ToSet
  <2>2. ASSUME NEW n \in 1 .. 3 * Len(ClosedPorts) PROVE AddPorts[n] \in CommandsOf("closed")
    <3>1. CASE n % 3 = 1 \/ n % 3 = 2
      BY <2>1, <3>1 DEF AddPorts, CommandsOf, Ensure, EnsureTable
    <3>2. CASE n % 3 # 1 /\ n % 3 # 2
      <4>1. n \div 3 \in 1 .. Len(ClosedPorts)
        BY <2>1, <3>2
      <4>2. AddPorts[n] = Add("closed", {ClosedPorts[n \div 3]})
        BY <2>1, <3>2 DEF AddPorts
      <4> QED
        BY <2>1, <4>1, <4>2 DEF CommandsOf
    <3> QED
      BY <3>1, <3>2
  <2>3. AddPorts = [n \in 1 .. 3 * Len(ClosedPorts) |-> AddPorts[n]] /\ 3 * Len(ClosedPorts) \in Nat
    BY <2>1 DEF AddPorts
  <2>4. AddPorts \in Seq(CommandsOf("closed")) /\ Len(AddPorts) = 3 * Len(ClosedPorts)
    BY <2>2, <2>3, IsASeq
  <2> QED
    <3>1. Program("closed") = AddPorts
      BY Zenon DEF Program
    <3>2. ClosedPorts # <<>> => Len(ClosedPorts) > 0
      <4>1. ClosedPorts \in Seq(Ports)
        BY RulesetAssumption
      <4>2. Len(ClosedPorts) = 0 => ClosedPorts = <<>>
        BY <4>1, EmptySeq
      <4> QED
        BY <2>1, <4>2
    <3> QED
      BY <2>1, <2>4, <3>1, <3>2, EmptySeq
<1>2. /\ Program("probe") = EnsureTable \o <<Add("t2", {}), Add("t3", {})>>
      /\ Program("icmp") = EnsureTable \o <<Add("icmp", {})>>
      /\ Program("up") = <<>> /\ Program("drop") = EnableDrop
  BY Zenon DEF Program, StartProbes, EnableICMPDrop
<1>3. ASSUME NEW C, NEW x \in C, NEW y \in C
      PROVE <<x, y>> \in Seq(C) /\ <<x>> \in Seq(C) /\ Len(<<x, y>>) = 2 /\ Len(<<x>>) = 1
            /\ <<x, y>>[1] = x /\ <<x, y>>[2] = y
  OBVIOUS
<1>4. /\ Program("probe") \in Seq(CommandsOf("probe")) /\ Len(Program("probe")) = 4
      /\ \A n \in 1 .. 4 : Program("probe")[n].do = "rule" <=> n > 2
  <2> DEFINE C == CommandsOf("probe")
             t2 == Add("t2", {})
             t3 == Add("t3", {})
             P == EnsureTable \o <<t2, t3>>
  <2>1. [do |-> "table"] \in C /\ [do |-> "chain"] \in C /\ t2 \in C /\ t3 \in C
    BY DEF CommandsOf, Ensure
  <2>2. t2.do = "rule" /\ t3.do = "rule"
    BY DEF Add
  <2> HIDE DEF C, t2, t3
  <2>3. <<t2, t3>> \in Seq(C) /\ Len(<<t2, t3>>) = 2 /\ <<t2, t3>>[1] = t2 /\ <<t2, t3>>[2] = t3
    BY <1>3, <2>1
  <2>4. /\ P \in Seq(C) /\ Len(P) = 2 + Len(<<t2, t3>>)
        /\ P[1] = [do |-> "table"] /\ P[2] = [do |-> "chain"]
        /\ \A i \in 1 .. Len(<<t2, t3>>) : P[i + 2] = <<t2, t3>>[i]
    BY <2>1, <2>3, EnsureFirst, Zenon
  <2> HIDE DEF P
  <2>5. P[1 + 2] = t2 /\ P[2 + 2] = t3
    BY <2>3, <2>4
  <2>6. /\ P \in Seq(C) /\ Len(P) = 4 /\ P[1].do = "table" /\ P[2].do = "chain"
        /\ P[3] = t2 /\ P[4] = t3
    BY <2>3, <2>4, <2>5
  <2>7. \A n \in 1 .. 4 : P[n].do = "rule" <=> n > 2
    BY <2>2, <2>6
  <2> QED
    BY <1>2, <2>6, <2>7, Zenon DEF P, C, t2, t3
<1>5. Program("icmp") \in Seq(CommandsOf("icmp")) /\ Program("icmp") # <<>>
  <2> DEFINE C == CommandsOf("icmp")
             c == Add("icmp", {})
             P == EnsureTable \o <<c>>
  <2>1. [do |-> "table"] \in C /\ [do |-> "chain"] \in C /\ c \in C
    BY DEF CommandsOf, Ensure
  <2> HIDE DEF C, c
  <2>2. <<c>> \in Seq(C) /\ Len(<<c>>) = 1
    BY <1>3, <2>1
  <2>3. P \in Seq(C) /\ Len(P) = 2 + Len(<<c>>)
    BY <2>1, <2>2, EnsureFirst, Zenon
  <2> HIDE DEF P
  <2>4. P # <<>>
    BY <2>2, <2>3, EmptySeq
  <2> QED
    BY <1>2, <2>3, <2>4, Zenon DEF P, C, c
<1>6. Program("up") \in Seq(CommandsOf("up"))
  BY <1>2, EmptySeq
<1> QED
  BY <1>1, <1>2, <1>3, <1>4, <1>5, <1>6, DropProgram

\* What is left of a program behind its first n - 1 commands.
LEMMA SuffixOfProgram ==
  ASSUME NEW S, NEW p \in Seq(S), NEW n \in 1 .. Len(p)
  PROVE  /\ SubSeq(p, n, Len(p)) \in Seq(S)
         /\ Head(SubSeq(p, n, Len(p))) = p[n]
         /\ Len(SubSeq(p, n, Len(p))) = Len(p) - n + 1
         /\ Tail(SubSeq(p, n, Len(p))) = SubSeq(p, n + 1, Len(p))
         /\ SubSeq(p, 1, Len(p)) = p
<1>1. \A i \in n .. Len(p) : p[i] \in S
  BY ElementOfSeq
<1>2. n \in Int /\ Len(p) \in Int /\ n <= Len(p)
  BY LenProperties
<1>3. SubSeq(p, n, Len(p)) \in Seq(S) /\ Len(SubSeq(p, n, Len(p))) = Len(p) - n + 1
  BY <1>1, <1>2, SubSeqProperties
<1>4. Head(SubSeq(p, n, Len(p))) = p[n] /\ Tail(SubSeq(p, n, Len(p))) = SubSeq(p, n + 1, Len(p))
  <2>1. Len(p) \in n .. Len(p)
    BY <1>2
  <2> QED
    BY <2>1, HeadTailOfSubSeq, Zenon
<1> QED
  BY <1>3, <1>4, SubSeqFull, Zenon

-----------------------------------------------------------------------------
(* The goroutines of runMimic.                                             *)

\* Nothing runs before Spawn; shutdown is closed on the way out of the main
\* loop and not before.
NotYetSpawned ==
    /\ main = "setup" => svc = "off" /\ stack = "off"
    /\ main \in {"setup", "settle", "loop"} => ~shutdown

\* A services goroutine that is not there, or is done, leaves no server.
DoneHasStopped == svc \in {"off", "done"} => running = 0

\* A close() that sleeps belongs to a request.
TimersOfRequests == \A c \in Channels : timers[c] <= requests[c]

\* Unless Load failed, filters are there only between the first FilterAdd and
\* the end of the stack goroutine, and after it those that Close failed to delete.
FiltersOfStack ==
    ~loadFailed /\ stack \in {"off", "new", "egress", "failing", "done"} => tc \subseteq stuck

ProcessInv == /\ LifecycleTypeOK
              /\ NotYetSpawned
              /\ DoneHasStopped
              /\ TimersOfRequests
              /\ FiltersOfStack
              /\ ServersStopFirst

\* After FingerprintManager.Close the filters that are left are those whose
\* delete failed.
LEMMA ClosedFilters ==
  ASSUME tc \subseteq Hooks, Close
  PROVE  tc' \subseteq Hooks /\ stuck' \subseteq Hooks /\ tc' \subseteq stuck'
<1>1. PICK failing \in SUBSET tc : tc' = FiltersAfterClose(failing) /\ stuck' = failing
  BY DEF Close
<1> QED
  BY <1>1 DEF FiltersAfterClose

\* The goroutine steps of runMimic keep that invariant, whatever happens to the
\* ruleset meanwhile.
LEMMA ProcessStep == ProcessInv /\ [Next]_vars => ProcessInv'
<1> SUFFICES ASSUME ProcessInv, [Next]_vars PROVE ProcessInv'
  OBVIOUS
<1> USE LifecycleAssumption
    DEF ProcessInv, LifecycleTypeOK, NotYetSpawned, DoneHasStopped, TimersOfRequests,
        FiltersOfStack, ServersStopFirst, Channels, Hooks, Gone
<1>0. /\ DOMAIN AfterStop = {"closed", "probe", "fw"}
      /\ AfterStop["closed"] = "probe" /\ AfterStop["probe"] = "fw" /\ AfterStop["fw"] = "exited"
  BY DEF AfterStop
<1>00. /\ DOMAIN AfterStack = {"new", "egress", "ingress", "profile", "enable"}
       /\ AfterStack["new"] = "egress" /\ AfterStack["egress"] = "ingress"
       /\ AfterStack["ingress"] = "profile" /\ AfterStack["profile"] = "enable"
       /\ AfterStack["enable"] = "up"
  BY DEF AfterStack
<1>1. CASE SetupStep
  BY <1>0, <1>1 DEF SetupStep, lifecycle
<1>2. CASE Spawn
  BY <1>0, <1>00, <1>2 DEF Spawn
<1>3. CASE Settle
  <2>1. CASE errs > 0
    <3>1. errs' \in 0 .. ErrCap
      BY <1>3, <2>1 DEF Settle, ErrCap
    <3>2. main' = "wait" /\ path' = "early" /\ shutdown' = TRUE /\ signalled' = FALSE
      BY <1>3, <2>1 DEF Settle
    <3> QED
      BY <1>0, <1>3, <3>1, <3>2 DEF Settle
  <2>2. CASE ~(errs > 0)
    BY <1>0, <1>3, <2>2 DEF Settle
  <2> QED
    BY <2>1, <2>2
<1>4. CASE Wait
  BY <1>0, <1>4 DEF Wait
<1>5. CASE Teardown
  BY <1>0, <1>5 DEF Teardown
<1>6. CASE StackOk
  <2>1. stack \in {"new", "egress", "ingress", "profile", "enable"} /\ stack' = AfterStack[stack]
    BY <1>6, <1>00 DEF StackOk
  <2>2. stack' \in {"egress", "ingress", "profile", "enable", "up"} /\ (stack' = "egress" => stack = "new")
    BY <1>00, <2>1
  <2>3. tc' \subseteq Hooks /\ (stack = "new" => tc' = tc)
    BY <1>6 DEF StackOk
  <2> QED
    BY <1>0, <1>00, <1>6, <2>1, <2>2, <2>3 DEF StackOk
<1>7. CASE StackErr
  <2>1. stack \in {"new", "egress", "ingress", "profile", "enable"} /\ stack' = "failing"
    BY <1>7, <1>00 DEF StackErr
  <2>2. loadFailed' \in BOOLEAN
    BY <1>7 DEF StackErr
  <2>3. tc' \subseteq Hooks /\ stuck' \subseteq Hooks /\ (~loadFailed' => tc' \subseteq stuck')
    <3>1. CASE stack \in {"profile", "enable"}
      BY <1>7, <3>1, ClosedFilters DEF StackErr
    <3>2. CASE stack \notin {"profile", "enable"}
      BY <1>7, <2>1, <3>2 DEF StackErr
    <3> QED
      BY <3>1, <3>2
  <2> QED
    BY <1>0, <1>00, <1>7, <2>1, <2>2, <2>3 DEF StackErr
<1>8. CASE StackSend
  BY <1>0, <1>8 DEF StackSend, SendErr, ErrCap
<1>9. CASE StackClose
  <2>1. tc' \subseteq Hooks /\ stuck' \subseteq Hooks /\ tc' \subseteq stuck'
    BY <1>9, ClosedFilters DEF StackClose
  <2> QED
    BY <1>0, <1>9, <2>1 DEF StackClose
<1>10. CASE ServiceOk
  BY <1>0, <1>10 DEF ServiceOk
<1>11. CASE ServiceErr
  BY <1>0, <1>11 DEF ServiceErr
<1>12. CASE ServiceSend
  BY <1>0, <1>12 DEF ServiceSend, SendErr, ErrCap
<1>13. CASE ServiceStop
  BY <1>0, <1>13 DEF ServiceStop
<1>14. CASE Signal
  BY <1>0, <1>14 DEF Signal
<1>15. CASE MimicStop
  <2>1. tc' \subseteq tc /\ stuck' = stuck \cap tc'
    BY <1>15 DEF MimicStop
  <2> QED
    BY <1>0, <1>15, <2>1 DEF MimicStop
<1>16. ASSUME NEW p \in Channels \cup {"error", "signal"}, Select(p) PROVE ProcessInv'
  <2>1. errs' \in 0 .. ErrCap
    BY <1>16 DEF Select, ErrCap
  <2>2. path' \in {"none", "early", "error", "signal"} \cup Channels
    BY <1>16 DEF Select
  <2> QED
    BY <1>0, <1>16, <2>1, <2>2 DEF Select
<1>17. ASSUME NEW c \in Channels, Request(c) PROVE ProcessInv'
  BY <1>0, <1>17 DEF Request, Alive
<1>18. ASSUME NEW c \in Channels, Fire(c) PROVE ProcessInv'
  <2>1. timers' \in [Channels -> 0 .. MaxRequests] /\ \A d \in Channels : timers'[d] <= requests'[d]
    BY <1>18 DEF Fire
  <2>2. chan' \in [Channels -> BOOLEAN]
    BY <1>18 DEF Fire
  <2>3. main' = main \/ main' = "panicked"
    BY <1>18 DEF Fire
  <2> QED
    BY <1>0, <1>18, <2>1, <2>2, <2>3 DEF Fire, Alive
<1>19. CASE UNCHANGED vars
  BY <1>0, <1>19 DEF vars, lifecycle
<1> QED
  BY <1>1, <1>2, <1>3, <1>4, <1>5, <1>6, <1>7, <1>8, <1>9, <1>10, <1>11, <1>12, <1>13,
     <1>14, <1>15, <1>16, <1>17, <1>18, <1>19 DEF Next, Main, Stack, Service

-----------------------------------------------------------------------------
(* The ruleset while it is built.                                          *)

NftRules == [kind : Kinds, ports : SUBSET Ports]
ResetKinds == {"closed", "t2", "t3"}
Nowhere(kinds) == \A i \in DOMAIN rules : rules[i].kind \notin kinds

\* The rules are rules, and the closed ports' name closed ports.
RulesTyped ==
    /\ rules \in Seq(NftRules)
    /\ \A i \in DOMAIN rules : rules[i].kind = "closed" => rules[i].ports \subseteq Closed

\* Resets stand before everything else: while the managers that add them are
\* at work there is nothing else.
ResetsFirst ==
    /\ stage = "closed" => Nowhere(Kinds \ {"closed"})
    /\ stage = "probe" => Nowhere(Kinds \ ResetKinds)
    /\ \A i \in DOMAIN rules : \A j \in 1 .. i - 1 :
          rules[i].kind \in ResetKinds => rules[j].kind \in ResetKinds

\* In front of a drop stand the rules that let sessions through.
DropIsGuarded ==
    \A i \in DOMAIN rules : rules[i].kind = "drop" =>
        /\ \E j \in 1 .. i - 1 : rules[j].kind = "established"
        /\ \E j \in 1 .. i - 1 : rules[j].kind = "loopback"
        /\ Allow # {} => \E j \in 1 .. i - 1 : rules[j] = Rule("allow", Allow)

\* todo is the rest of the stage's program.  Of EnableDrop, what has been run
\* is in the chain, if the chain is still there; of the probe manager's, no
\* rule is there before the chain is made.
InProgress ==
    stage # "up" =>
        \E n \in 1 .. Len(Program(stage)) :
            /\ todo = SubSeq(Program(stage), n, Len(Program(stage)))
            /\ stage = "probe" /\ n <= 2 => Nowhere({"t2", "t3"})
            /\ stage = "drop" /\ table = "chain" =>
                 \A m \in 3 .. n - 1 : \E j \in DOMAIN rules : rules[j] = EnableDrop[m].rule

\* Every rule belongs to a manager that runMimic will stop and that will then
\* delete the table, or is setting up now; not so behind a delete that failed,
\* until another one succeeds.
RulesHaveOwner ==
    ~dropFailed /\ ~undeleted => \A i \in DOMAIN rules :
        /\ rules[i].kind = "closed" => mgr["closed"]
        /\ rules[i].kind \in {"t2", "t3"} => mgr["probe"] /\ (active["probe"] \/ stage = "probe")
        /\ rules[i].kind \notin ResetKinds => mgr["fw"] /\ (active["fw"] \/ stage = "drop")
ManagersSetUp ==
    /\ stage # "up" => mgr[Manager(stage)]
    /\ stage = "icmp" /\ ~dropFailed => active["fw"]

RulesInv == /\ RulesetTypeOK
            /\ RulesTyped
            /\ ResetsFirst
            /\ DropIsGuarded
            /\ InProgress
            /\ RulesHaveOwner
            /\ ManagersSetUp

\* The Stop calls: what they have passed is gone.
StoppedInOrder ==
    /\ main \notin {"setup", "panicked"} => stage = "up"
    /\ ~dropFailed /\ ~undeleted =>
         /\ main \in {"probe", "fw", "exited"} => Nowhere({"closed"})
         /\ main \in {"fw", "exited"} => Nowhere({"t2", "t3"})
         /\ main = "exited" /\ path # "error" => rules = <<>>

IInv == ProcessInv /\ RulesInv /\ StoppedInOrder

\* What a command of a stage is.
LEMMA CommandOfStage ==
  ASSUME NEW s \in {"closed", "probe", "drop", "icmp"}, NEW c \in CommandsOf(s)
  PROVE  /\ c.do \in {"table", "chain", "rule"}
         /\ c.do = "rule" =>
              /\ c.rule \in NftRules
              /\ s = "closed" => c.rule.kind = "closed" /\ c.rule.ports \subseteq Closed
              /\ s = "probe" => c.rule.kind \in {"t2", "t3"}
              /\ s = "drop" => c.rule.kind \in {"established", "loopback", "allow", "drop"}
              /\ s = "icmp" => c.rule.kind = "icmp"
<1> USE DEF Add, Rule, NftRules, Kinds
<1>0. Allow \subseteq Ports /\ Closed \subseteq Ports
  <2>1. ClosedPorts \in [1 .. Len(ClosedPorts) -> Ports] /\ DOMAIN ClosedPorts = 1 .. Len(ClosedPorts)
    BY RulesetAssumption, LenProperties
  <2>2. Closed \subseteq Ports
    BY <2>1 DEF Closed, ToSet
  <2> QED
    BY <2>2, RulesetAssumption DEF Allow
<1>1. CASE c \in Ensure
  BY <1>1 DEF Ensure
<1>2. CASE s = "closed" /\ c \notin Ensure
  BY <1>0, <1>2 DEF CommandsOf
<1>3. CASE s = "probe" /\ c \notin Ensure
  BY <1>3 DEF CommandsOf
<1>4. CASE s = "drop" /\ c \notin Ensure
  BY <1>0, <1>4 DEF CommandsOf
<1>5. CASE s = "icmp" /\ c \notin Ensure
  BY <1>5 DEF CommandsOf
<1> QED
  BY <1>1, <1>2, <1>3, <1>4, <1>5

\* The command whose turn it is, and what is left behind it.
LEMMA NextCommand ==
  ASSUME RulesInv, stage # "up",
         NEW n \in 1 .. Len(Program(stage)),
         todo = SubSeq(Program(stage), n, Len(Program(stage)))
  PROVE  /\ Head(todo) = Program(stage)[n] /\ Head(todo) \in CommandsOf(stage)
         /\ Len(Program(stage)) \in Nat
         /\ Len(todo) > 1 <=> n < Len(Program(stage))
         /\ Tail(todo) = SubSeq(Program(stage), n + 1, Len(Program(stage)))
         /\ stage \in {"closed", "probe", "drop", "icmp"}
<1>1. stage \in {"closed", "probe", "drop", "icmp"}
  BY DEF RulesInv, RulesetTypeOK
<1>2. Program(stage) \in Seq(CommandsOf(stage))
  BY <1>1, ProgramOfStage
<1>3. Len(Program(stage)) \in Nat /\ Program(stage)[n] \in CommandsOf(stage)
  BY <1>2, LenProperties, ElementOfSeq
<1>4. /\ Head(todo) = Program(stage)[n]
      /\ Len(todo) = Len(Program(stage)) - n + 1
      /\ Tail(todo) = SubSeq(Program(stage), n + 1, Len(Program(stage)))
  BY <1>2, SuffixOfProgram
<1> QED
  BY <1>1, <1>3, <1>4

\* The rules after one has been appended.
LEMMA AppendedRule ==
  ASSUME RulesInv, NEW r \in NftRules, rules' = Append(rules, r)
  PROVE  /\ rules' \in Seq(NftRules) /\ Len(rules) \in Nat
         /\ DOMAIN rules = 1 .. Len(rules) /\ DOMAIN rules' = 1 .. Len(rules) + 1
         /\ \A i \in 1 .. Len(rules) : rules'[i] = rules[i]
         /\ rules'[Len(rules) + 1] = r
<1>1. rules \in Seq(NftRules)
  BY DEF RulesInv, RulesTyped
<1>2. /\ rules' \in Seq(NftRules) /\ Len(rules') = Len(rules) + 1
      /\ \A i \in 1 .. Len(rules) : rules'[i] = rules[i]
      /\ rules'[Len(rules) + 1] = r
  BY <1>1, AppendProperties, Zenon
<1>3. /\ Len(rules) \in Nat /\ DOMAIN rules = 1 .. Len(rules)
      /\ DOMAIN rules' = 1 .. Len(rules')
  BY <1>1, <1>2, LenProperties
<1> QED
  BY <1>2, <1>3

\* On to the next manager: its program lies ahead, it is not nil, and the
\* managers that were kept stay.
LEMMA Leaving ==
  ASSUME RulesInv, stage # "up", NEW keep \in BOOLEAN, Leave(keep)
  PROVE  /\ stage = "closed" => stage' \in {"probe", "drop", "up"}
         /\ stage = "probe" => stage' \in {"drop", "up"}
         /\ stage = "drop" => stage' \in {"icmp", "up"}
         /\ stage = "icmp" => stage' = "up"
         /\ (todo' = <<>>) = (stage' = "up")
         /\ stage' # "up" =>
              /\ 1 \in 1 .. Len(Program(stage'))
              /\ todo' = SubSeq(Program(stage'), 1, Len(Program(stage')))
              /\ mgr'[Manager(stage')]
         /\ mgr' \in [{"closed", "probe", "fw"} -> BOOLEAN]
         /\ keep => mgr'[Manager(stage)]
         /\ \A m \in {"closed", "probe", "fw"} : m # Manager(stage) /\ mgr[m] => mgr'[m]
<1>1. stage \in {"closed", "probe", "drop", "icmp"} /\ mgr \in [{"closed", "probe", "fw"} -> BOOLEAN]
  BY DEF RulesInv, RulesetTypeOK
<1>2. stage' = NextStage(stage) /\ todo' = Program(stage')
  BY DEF Leave
<1>3. /\ stage = "closed" => stage' \in {"probe", "drop", "up"}
      /\ stage = "probe" => stage' \in {"drop", "up"}
      /\ stage = "drop" => stage' \in {"icmp", "up"}
      /\ stage = "icmp" => stage' = "up"
  BY <1>2, StagesAdvance
<1>4. stage' \in {"probe", "drop", "icmp", "up"}
  BY <1>1, <1>3
<1>5. (todo' = <<>>) = (stage' = "up")
  BY <1>2, <1>4, ProgramOfStage
<1>6. ASSUME stage' # "up"
      PROVE  1 \in 1 .. Len(Program(stage')) /\ todo' = SubSeq(Program(stage'), 1, Len(Program(stage')))
  <2>1. Program(stage') \in Seq(CommandsOf(stage')) /\ Program(stage') # <<>>
    BY <1>4, <1>6, ProgramOfStage
  <2>2. Len(Program(stage')) \in Nat /\ Len(Program(stage')) # 0
    BY <2>1, LenProperties, EmptySeq
  <2> QED
    BY <1>2, <2>1, <2>2, SubSeqFull
<1>7. mgr' = [m \in {"closed", "probe", "fw"} |->
                \/ m = Manager(stage) /\ keep
                \/ m # Manager(stage) /\ mgr[m]
                \/ stage' # "up" /\ m = Manager(stage')]
  BY <1>1, <1>2 DEF Leave
<1>8. Manager(stage) \in {"closed", "probe", "fw"} /\ Manager(stage') \in {"closed", "probe", "fw"}
  BY <1>1, <1>4 DEF Manager
<1> QED
  BY <1>3, <1>5, <1>6, <1>7, <1>8

\* A command that succeeds: the rules it leaves.
LEMMA CommandRules ==
  ASSUME RulesInv, Command,
         NEW n \in 1 .. Len(Program(stage)),
         todo = SubSeq(Program(stage), n, Len(Program(stage)))
  PROVE  LET c == Program(stage)[n] IN
         /\ c.do = "rule" => table = "chain" /\ table' = "chain" /\ rules' = Append(rules, c.rule)
         /\ c.do = "chain" => table' = "chain" /\ rules' = rules
         /\ c.do = "table" => table' \in {"table", "chain"} /\ rules' = rules
                              /\ (table' = "chain" <=> table = "chain")
         /\ \/ /\ n < Len(Program(stage)) /\ UNCHANGED <<stage, mgr, active>>
               /\ todo' = SubSeq(Program(stage), n + 1, Len(Program(stage)))
            \/ /\ n = Len(Program(stage)) /\ Leave(TRUE)
               /\ active' = [m \in DOMAIN active |->
                               active[m] \/ (stage \in {"probe", "drop"} /\ m = Manager(stage))]
         /\ UNCHANGED <<stops, dropFailed, undeleted>> /\ stage # "up"
<1> DEFINE c == Program(stage)[n]
<1>1. stage # "up"
  BY DEF Command
<1>2. /\ Head(todo) = c /\ c \in CommandsOf(stage) /\ Len(Program(stage)) \in Nat
      /\ Len(todo) > 1 <=> n < Len(Program(stage))
      /\ Tail(todo) = SubSeq(Program(stage), n + 1, Len(Program(stage)))
      /\ stage \in {"closed", "probe", "drop", "icmp"}
  BY <1>1, NextCommand
<1>3. c.do \in {"table", "chain", "rule"}
  BY <1>2, CommandOfStage
<1>4. table \in {"absent", "table", "chain"}
  BY DEF RulesInv, RulesetTypeOK
<1> HIDE DEF c
<1>5. /\ Possible(c)
      /\ table' = CASE c.do = "table" -> IF table = "absent" THEN "table" ELSE table
                    [] OTHER -> "chain"
      /\ rules' = IF c.do = "rule" THEN Append(rules, c.rule) ELSE rules
  BY <1>2, Zenon DEF Command
<1>6. /\ c.do = "rule" => table = "chain" /\ table' = "chain" /\ rules' = Append(rules, c.rule)
      /\ c.do = "chain" => table' = "chain" /\ rules' = rules
      /\ c.do = "table" => table' \in {"table", "chain"} /\ rules' = rules
                           /\ (table' = "chain" <=> table = "chain")
  BY <1>3, <1>4, <1>5 DEF Possible
<1>7. CASE Len(todo) > 1
  BY <1>1, <1>2, <1>6, <1>7, Zenon DEF Command, c
<1>8. CASE ~(Len(todo) > 1)
  <2>1. n = Len(Program(stage))
    BY <1>2, <1>8
  <2> QED
    BY <1>1, <1>6, <1>8, <2>1, Zenon DEF Command, c
<1> QED
  BY <1>7, <1>8

\* A command that succeeds keeps the ruleset's invariant.
LEMMA CommandStep == RulesInv /\ Command => RulesInv'
<1> SUFFICES ASSUME RulesInv, Command PROVE RulesInv'
  OBVIOUS
<1>0. stage # "up"
  BY DEF Command
<1>1. PICK n \in 1 .. Len(Program(stage)) :
        /\ todo = SubSeq(Program(stage), n, Len(Program(stage)))
        /\ stage = "probe" /\ n <= 2 => Nowhere({"t2", "t3"})
        /\ stage = "drop" /\ table = "chain" =>
             \A m \in 3 .. n - 1 : \E j \in DOMAIN rules : rules[j] = EnableDrop[m].rule
  BY <1>0 DEF RulesInv, InProgress
<1> DEFINE c == Program(stage)[n]
           r == c.rule
           Adds == c.do = "rule"
           Leaves == n = Len(Program(stage)) /\ Leave(TRUE)
           Stays == n < Len(Program(stage)) /\ UNCHANGED <<stage, mgr, active>>
                    /\ todo' = SubSeq(Program(stage), n + 1, Len(Program(stage)))
<1>2. /\ Adds => table = "chain" /\ table' = "chain" /\ rules' = Append(rules, r)
      /\ c.do = "chain" => table' = "chain" /\ rules' = rules
      /\ c.do = "table" => table' \in {"table", "chain"} /\ rules' = rules
                           /\ (table' = "chain" <=> table = "chain")
      /\ Stays \/ (Leaves /\ active' = [m \in DOMAIN active |->
                               active[m] \/ (stage \in {"probe", "drop"} /\ m = Manager(stage))])
      /\ UNCHANGED <<stops, dropFailed, undeleted>>
  BY <1>1, CommandRules
<1>3. c \in CommandsOf(stage) /\ Len(Program(stage)) \in Nat /\ stage \in {"closed", "probe", "drop", "icmp"}
  BY <1>0, <1>1, NextCommand
<1>4. /\ c.do \in {"table", "chain", "rule"}
      /\ Adds =>
           /\ r \in NftRules
           /\ stage = "closed" => r.kind = "closed" /\ r.ports \subseteq Closed
           /\ stage = "probe" => r.kind \in {"t2", "t3"}
           /\ stage = "drop" => r.kind \in {"established", "loopback", "allow", "drop"}
           /\ stage = "icmp" => r.kind = "icmp"
  BY <1>3, CommandOfStage
<1>5. Adds => /\ rules' \in Seq(NftRules) /\ Len(rules) \in Nat
              /\ DOMAIN rules = 1 .. Len(rules) /\ DOMAIN rules' = 1 .. Len(rules) + 1
              /\ \A i \in 1 .. Len(rules) : rules'[i] = rules[i]
              /\ rules'[Len(rules) + 1] = r
  BY <1>2, <1>4, AppendedRule
<1>6. ~Adds => rules' = rules
  BY <1>2, <1>4
<1>7. Leaves =>
         /\ stage = "closed" => stage' \in {"probe", "drop", "up"}
         /\ stage = "probe" => stage' \in {"drop", "up"}
         /\ stage = "drop" => stage' \in {"icmp", "up"}
         /\ stage = "icmp" => stage' = "up"
         /\ (todo' = <<>>) = (stage' = "up")
         /\ stage' # "up" =>
              /\ 1 \in 1 .. Len(Program(stage'))
              /\ todo' = SubSeq(Program(stage'), 1, Len(Program(stage')))
              /\ mgr'[Manager(stage')]
         /\ mgr' \in [{"closed", "probe", "fw"} -> BOOLEAN]
         /\ mgr'[Manager(stage)]
         /\ \A m \in {"closed", "probe", "fw"} : m # Manager(stage) /\ mgr[m] => mgr'[m]
  BY <1>0, Leaving
<1>8. \A m \in {"closed", "probe", "fw"} : mgr[m] => mgr'[m]
  BY <1>2, <1>7
<1> HIDE DEF c, r, Adds, Leaves, Stays
<1>9. active' \in [{"probe", "fw"} -> BOOLEAN] /\ \A m \in {"probe", "fw"} : active[m] => active'[m]
  BY <1>2 DEF Stays, RulesInv, RulesetTypeOK
<1>10. RulesTyped'
  <2>1. CASE Adds
    <3>1. ASSUME NEW i \in DOMAIN rules', rules'[i].kind = "closed" PROVE rules'[i].ports \subseteq Closed
      <4>1. CASE i \in 1 .. Len(rules)
        BY <2>1, <3>1, <4>1, <1>5 DEF RulesInv, RulesTyped
      <4>2. CASE i = Len(rules) + 1
        BY <2>1, <3>1, <4>2, <1>3, <1>4, <1>5
      <4> QED
        BY <2>1, <3>1, <4>1, <4>2, <1>5
    <3> QED
      BY <2>1, <3>1, <1>5 DEF RulesTyped, Closed
  <2>2. CASE ~Adds
    BY <2>2, <1>6 DEF RulesInv, RulesTyped, Closed
  <2> QED
    BY <2>1, <2>2
<1>11. ResetsFirst'
  <2>1. ASSUME NEW i \in DOMAIN rules'
        PROVE  \/ i \in DOMAIN rules /\ rules'[i] = rules[i]
               \/ Adds /\ i = Len(rules) + 1 /\ rules'[i] = r
    BY <1>5, <1>6
  <2>2. stage' = "closed" => Nowhere(Kinds \ {"closed"})'
    BY <1>2, <1>3, <1>4, <1>7, <2>1 DEF Stays, Nowhere, RulesInv, ResetsFirst
  <2>3. stage' = "probe" => Nowhere(Kinds \ ResetKinds)'
    BY <1>2, <1>3, <1>4, <1>7, <2>1 DEF Stays, Nowhere, RulesInv, ResetsFirst, ResetKinds
  <2>4. ASSUME NEW i \in DOMAIN rules', NEW j \in 1 .. i - 1, rules'[i].kind \in ResetKinds
        PROVE  rules'[j].kind \in ResetKinds
    <3>1. DOMAIN rules = 1 .. Len(rules) /\ Len(rules) \in Nat
          /\ \A k \in DOMAIN rules : rules[k] \in NftRules
      BY LenProperties, ElementOfSeq DEF RulesInv, RulesTyped
    <3>2. CASE i \in DOMAIN rules /\ rules'[i] = rules[i]
      <4>1. j \in DOMAIN rules /\ j \in 1 .. i - 1
        BY <3>1, <3>2
      <4>2. rules'[j] = rules[j]
        BY <4>1, <3>1, <1>5, <1>6
      <4> QED
        BY <2>4, <3>2, <4>1, <4>2 DEF RulesInv, ResetsFirst
    <3>3. CASE Adds /\ i = Len(rules) + 1 /\ rules'[i] = r
      <4>1. stage \in {"closed", "probe"}
        BY <2>4, <3>3, <1>3, <1>4 DEF ResetKinds
      <4>2. j \in DOMAIN rules /\ rules'[j] = rules[j]
        BY <3>1, <3>3, <1>5
      <4>3. rules[j].kind \in Kinds
        BY <3>1, <4>2 DEF NftRules
      <4> QED
        BY <4>1, <4>2, <4>3 DEF RulesInv, ResetsFirst, Nowhere, ResetKinds
    <3> QED
      BY <2>1, <3>2, <3>3
  <2> QED
    BY <2>2, <2>3, <2>4 DEF ResetsFirst
<1>12. DropIsGuarded'
  <2>1. CASE ~Adds
    BY <2>1, <1>6 DEF RulesInv, DropIsGuarded
  <2>2. CASE Adds
    <3> SUFFICES ASSUME NEW i \in DOMAIN rules', rules'[i].kind = "drop"
                 PROVE  /\ \E j \in 1 .. i - 1 : rules'[j].kind = "established"
                        /\ \E j \in 1 .. i - 1 : rules'[j].kind = "loopback"
                        /\ Allow # {} => \E j \in 1 .. i - 1 : rules'[j] = Rule("allow", Allow)
      BY DEF DropIsGuarded
    <3>1. CASE i \in DOMAIN rules
      <4>1. rules[i].kind = "drop" /\ \A j \in 1 .. i - 1 : rules'[j] = rules[j]
        BY <2>2, <3>1, <1>5
      <4> QED
        BY <3>1, <4>1 DEF RulesInv, DropIsGuarded
    <3>2. CASE i = Len(rules) + 1
      <4>1. stage = "drop" /\ r.kind = "drop" /\ table = "chain"
        BY <2>2, <3>2, <1>2, <1>3, <1>4, <1>5
      <4>2. c = EnableDrop[n] /\ n \in 1 .. Len(EnableDrop)
        BY <4>1, ProgramOfStage DEF c
      <4>3. n = Len(EnableDrop) /\ Len(EnableDrop) \in {5, 6}
            /\ EnableDrop[3].rule.kind = "established" /\ EnableDrop[4].rule.kind = "loopback"
            /\ (Allow # {} => Len(EnableDrop) = 6 /\ EnableDrop[5].rule = Rule("allow", Allow))
        BY <2>2, <4>1, <4>2, DropOrder DEF r, Adds
      <4>4. \A m \in 3 .. n - 1 : \E j \in 1 .. i - 1 : rules'[j] = EnableDrop[m].rule
        BY <1>1, <2>2, <3>2, <4>1, <1>5
      <4>5. 3 \in 3 .. n - 1 /\ 4 \in 3 .. n - 1 /\ (Allow # {} => 5 \in 3 .. n - 1)
        BY <4>3
      <4> QED
        BY <4>3, <4>4, <4>5, Zenon
    <3> QED
      BY <2>2, <3>1, <3>2, <1>5
  <2> QED
    BY <2>1, <2>2
<1>13. InProgress'
  <2>1. CASE Stays
    <3>1. n + 1 \in 1 .. Len(Program(stage')) /\ stage' = stage
          /\ todo' = SubSeq(Program(stage'), n + 1, Len(Program(stage')))
      BY <2>1, <1>3 DEF Stays
    <3>2. ASSUME stage' = "probe", n + 1 <= 2 PROVE Nowhere({"t2", "t3"})'
      <4>1. ~Adds
        BY <3>1, <3>2, ProgramOfStage DEF Adds, c
      <4> QED
        BY <3>1, <3>2, <4>1, <1>1, <1>6 DEF Nowhere
    <3>3. ASSUME stage' = "drop", table' = "chain", NEW m \in 3 .. (n + 1) - 1
          PROVE  \E j \in DOMAIN rules' : rules'[j] = EnableDrop[m].rule
      <4>1. c = EnableDrop[n] /\ n \in 1 .. Len(EnableDrop) /\ n >= 3
        BY <3>1, <3>3, ProgramOfStage DEF c
      <4>2. Adds
        BY <4>1, DropOrder DEF Adds
      <4>3. CASE m = n
        BY <4>1, <4>2, <4>3, <1>5 DEF r
      <4>4. CASE m \in 3 .. n - 1
        <5>1. PICK j \in DOMAIN rules : rules[j] = EnableDrop[m].rule
          BY <1>1, <1>2, <3>1, <3>3, <4>2, <4>4
        <5> QED
          BY <4>2, <5>1, <1>5
      <4> QED
        BY <4>3, <4>4
    <3> QED
      BY <3>1, <3>2, <3>3 DEF InProgress
  <2>2. CASE Leaves
    <3>1. ASSUME stage' # "up", stage' = "probe" PROVE Nowhere({"t2", "t3"})'
      <4>1. stage = "closed"
        BY <2>2, <3>1, <1>3, <1>7
      <4> QED
        BY <4>1, <1>4, <1>5, <1>6 DEF Nowhere, RulesInv, ResetsFirst, Kinds
    <3>2. \A m \in 3 .. 1 - 1 : FALSE
      OBVIOUS
    <3> QED
      BY <2>2, <3>1, <3>2, <1>7 DEF InProgress
  <2> QED
    BY <2>1, <2>2, <1>2
<1>14. RulesHaveOwner'
  <2> SUFFICES ASSUME ~dropFailed', ~undeleted', NEW i \in DOMAIN rules'
               PROVE  /\ rules'[i].kind = "closed" => mgr'["closed"]
                      /\ rules'[i].kind \in {"t2", "t3"} =>
                           mgr'["probe"] /\ (active'["probe"] \/ stage' = "probe")
                      /\ rules'[i].kind \notin ResetKinds =>
                           mgr'["fw"] /\ (active'["fw"] \/ stage' = "drop")
    BY DEF RulesHaveOwner
  <2>1. /\ stage = "probe" => active'["probe"] \/ stage' = "probe"
        /\ stage = "drop" => active'["fw"] \/ stage' = "drop"
    BY <1>2 DEF Stays, Manager, RulesInv, RulesetTypeOK
  <2>2. CASE i \in DOMAIN rules /\ rules'[i] = rules[i]
    BY <1>2, <1>8, <1>9, <2>1, <2>2 DEF RulesInv, RulesHaveOwner
  <2>3. CASE Adds /\ i = Len(rules) + 1 /\ rules'[i] = r
    <3>1. mgr'[Manager(stage)]
      BY <1>3, <1>8 DEF RulesInv, ManagersSetUp, Manager
    <3>2. stage = "icmp" => active'["fw"]
      BY <1>2, <1>9 DEF RulesInv, ManagersSetUp
    <3> QED
      BY <1>3, <1>4, <2>1, <2>3, <3>1, <3>2 DEF Manager, ResetKinds
  <2> QED
    BY <2>2, <2>3, <1>5, <1>6
<1>15. ManagersSetUp'
  <2>1. CASE Stays
    BY <2>1, <1>2 DEF Stays, RulesInv, ManagersSetUp
  <2>2. CASE Leaves /\ active' = [m \in DOMAIN active |->
                               active[m] \/ (stage \in {"probe", "drop"} /\ m = Manager(stage))]
    <3>1. stage' = "icmp" => stage = "drop"
      BY <2>2, <1>3, <1>7
    <3>2. stage' = "icmp" => active'["fw"]
      BY <2>2, <3>1 DEF Manager, RulesInv, RulesetTypeOK
    <3> QED
      BY <2>2, <3>2, <1>7 DEF ManagersSetUp
  <2> QED
    BY <2>1, <2>2, <1>2
<1>16. RulesetTypeOK'
  <2>1. table' \in {"absent", "table", "chain"} /\ (table' # "chain" => rules' = <<>>)
    BY <1>2, <1>4 DEF Adds, RulesInv, RulesetTypeOK
  <2>2. \A i \in DOMAIN rules' : rules'[i].kind \in Kinds /\ rules'[i].ports \subseteq Ports
    <3>1. rules' \in [1 .. Len(rules') -> NftRules] /\ DOMAIN rules' = 1 .. Len(rules')
      BY <1>10, LenProperties DEF RulesTyped
    <3>2. \A i \in DOMAIN rules' : rules'[i] \in NftRules
      BY <3>1
    <3> QED
      BY <3>2 DEF NftRules
  <2>3. stage' \in {"closed", "probe", "drop", "icmp", "up"} /\ mgr' \in [{"closed", "probe", "fw"} -> BOOLEAN]
    BY <1>2, <1>3, <1>7 DEF Stays, RulesInv, RulesetTypeOK
  <2>4. (todo' = <<>>) = (stage' = "up")
    <3>1. CASE Stays
      <4>1. Program(stage) \in Seq(CommandsOf(stage)) /\ n + 1 \in 1 .. Len(Program(stage))
        <5>1. Program(stage) \in Seq(CommandsOf(stage))
          BY <1>3, ProgramOfStage
        <5> QED
          BY <3>1, <5>1, <1>3 DEF Stays
      <4>2. todo' \in Seq(CommandsOf(stage)) /\ Len(todo') = Len(Program(stage)) - (n + 1) + 1
        BY <3>1, <4>1, SuffixOfProgram DEF Stays
      <4>3. Len(todo') # 0
        BY <3>1, <4>2, <1>3 DEF Stays
      <4>4. todo' # <<>>
        BY <4>3, EmptySeq
      <4> QED
        BY <3>1, <4>4, <1>0 DEF Stays
    <3> QED
      BY <3>1, <1>2, <1>7
  <2> QED
    BY <1>2, <1>9, <2>1, <2>2, <2>3, <2>4 DEF RulesInv, RulesetTypeOK
<1> QED
  BY <1>10, <1>11, <1>12, <1>13, <1>14, <1>15, <1>16 DEF RulesInv

\* A command that fails keeps it as well.
LEMMA FailureStep == RulesInv /\ CommandFails => RulesInv'
<1> SUFFICES ASSUME RulesInv, CommandFails PROVE RulesInv'
  OBVIOUS
<1>0. stage # "up"
  BY DEF CommandFails
<1>1. PICK n \in 1 .. Len(Program(stage)) :
        /\ todo = SubSeq(Program(stage), n, Len(Program(stage)))
        /\ stage = "probe" /\ n <= 2 => Nowhere({"t2", "t3"})
        /\ stage = "drop" /\ table = "chain" =>
             \A m \in 3 .. n - 1 : \E j \in DOMAIN rules : rules[j] = EnableDrop[m].rule
  BY <1>0 DEF RulesInv, InProgress
<1>2. /\ Head(todo) = Program(stage)[n] /\ Len(Program(stage)) \in Nat
      /\ Len(todo) > 1 <=> n < Len(Program(stage))
      /\ Tail(todo) = SubSeq(Program(stage), n + 1, Len(Program(stage)))
      /\ stage \in {"closed", "probe", "drop", "icmp"}
  BY <1>0, <1>1, NextCommand
<1>3. stage = "probe" => (Head(todo).do = "rule" <=> n > 2)
  BY <1>2, ProgramOfStage
<1>4. /\ \/ stage = "closed" /\ TableGone
         \/ stage = "closed" /\ UNCHANGED <<table, rules>> /\ undeleted' = (rules # <<>>)
         \/ stage # "closed" /\ UNCHANGED <<table, rules, undeleted>>
      /\ dropFailed' = (dropFailed \/ stage = "drop") /\ stops' = stops
  BY DEF CommandFails, DeleteTable
<1>40. /\ (rules' = <<>> /\ table' = "absent" /\ undeleted' = FALSE) \/ UNCHANGED <<table, rules>>
       /\ undeleted' \in BOOLEAN
       /\ stage = "closed" /\ ~undeleted' => rules' = <<>>
  BY <1>4 DEF TableGone, RulesInv, RulesetTypeOK
<1> DEFINE Stays == /\ stage = "probe" /\ n > 2 /\ n < Len(Program(stage))
                    /\ todo' = Tail(todo) /\ UNCHANGED <<stage, mgr, active>>
           Gives == /\ stage = "probe" /\ n > 2
                    /\ Leave(TRUE) /\ active' = [active EXCEPT !["probe"] = TRUE]
           Leaves == /\ stage = "probe" => n <= 2
                     /\ Leave(stage = "icmp") /\ UNCHANGED active
<1>5. Stays \/ Gives \/ Leaves
  <2>1. CASE stage = "probe" /\ Head(todo).do = "rule" /\ Len(todo) > 1
    BY <2>1, <1>2, <1>3 DEF CommandFails
  <2>2. CASE stage = "probe" /\ Head(todo).do = "rule" /\ ~(Len(todo) > 1)
    BY <2>2, <1>3 DEF CommandFails
  <2>3. CASE ~(stage = "probe" /\ Head(todo).do = "rule")
    <3>1. stage = "probe" => n <= 2
      BY <2>3, <1>2, <1>3
    <3> QED
      BY <2>3, <3>1 DEF CommandFails
  <2> QED
    BY <2>1, <2>2, <2>3
<1> DEFINE Next1 ==
             /\ stage = "closed" => stage' \in {"probe", "drop", "up"}
             /\ stage = "probe" => stage' \in {"drop", "up"}
             /\ stage = "drop" => stage' \in {"icmp", "up"}
             /\ stage = "icmp" => stage' = "up"
             /\ (todo' = <<>>) = (stage' = "up")
             /\ stage' # "up" =>
                  /\ 1 \in 1 .. Len(Program(stage'))
                  /\ todo' = SubSeq(Program(stage'), 1, Len(Program(stage')))
                  /\ mgr'[Manager(stage')]
             /\ mgr' \in [{"closed", "probe", "fw"} -> BOOLEAN]
             /\ \A m \in {"closed", "probe", "fw"} : m # Manager(stage) /\ mgr[m] => mgr'[m]
<1>6. Gives => Next1 /\ mgr'[Manager(stage)]
  BY <1>0, Leaving
<1>7. Leaves => Next1 /\ (stage = "icmp" => mgr'[Manager(stage)])
  <2>1. (stage = "icmp") \in BOOLEAN
    OBVIOUS
  <2> QED
    BY <1>0, <2>1, Leaving
<1>8. active \in [{"probe", "fw"} -> BOOLEAN] /\ active' \in [{"probe", "fw"} -> BOOLEAN]
      /\ \A m \in {"probe", "fw"} : active[m] => active'[m]
  BY <1>5 DEF RulesInv, RulesetTypeOK
<1> HIDE DEF Next1
<1>9. RulesTyped'
  <2>1. CASE rules' = rules
    BY <2>1 DEF RulesInv, RulesTyped
  <2>2. CASE rules' = <<>>
    BY <2>2, EmptySeq DEF RulesTyped
  <2> QED
    BY <1>40, <2>1, <2>2
<1>10. ResetsFirst'
  <2>1. \A i \in DOMAIN rules' : i \in DOMAIN rules /\ rules'[i] = rules[i]
    BY <1>40
  <2>2. DOMAIN rules' = {} \/ rules' = rules
    BY <1>40
  <2>3. stage' # "closed" /\ (stage' = "probe" => stage \in {"closed", "probe"})
    BY <1>2, <1>5, <1>6, <1>7 DEF Next1
  <2>4. stage' = "probe" => Nowhere(Kinds \ ResetKinds)'
    BY <2>1, <2>3 DEF Nowhere, RulesInv, ResetsFirst, ResetKinds
  <2> QED
    BY <2>2, <2>3, <2>4 DEF RulesInv, ResetsFirst
<1>11. DropIsGuarded'
  BY <1>40 DEF RulesInv, DropIsGuarded
<1>12. InProgress'
  <2>1. CASE Stays
    <3>1. n + 1 \in 1 .. Len(Program(stage')) /\ stage' = "probe"
          /\ todo' = SubSeq(Program(stage'), n + 1, Len(Program(stage'))) /\ ~(n + 1 <= 2)
      BY <2>1, <1>2
    <3> QED
      BY <3>1 DEF InProgress
  <2>2. CASE Gives \/ Leaves
    <3>1. ASSUME stage' = "probe" PROVE Nowhere({"t2", "t3"})'
      <4>1. stage = "closed"
        BY <2>2, <3>1, <1>2, <1>6, <1>7 DEF Next1
      <4>2. Nowhere(Kinds \ {"closed"}) /\ {"t2", "t3"} \subseteq Kinds \ {"closed"}
        BY <4>1 DEF RulesInv, ResetsFirst, Kinds
      <4> QED
        BY <4>2, <1>40 DEF Nowhere
    <3>2. \A m \in 3 .. 1 - 1 : FALSE
      OBVIOUS
    <3> QED
      BY <2>2, <3>1, <3>2, <1>6, <1>7 DEF InProgress, Next1
  <2> QED
    BY <2>1, <2>2, <1>5
<1>13. RulesHaveOwner'
  <2> SUFFICES ASSUME ~dropFailed', ~undeleted', NEW i \in DOMAIN rules'
               PROVE  /\ rules'[i].kind = "closed" => mgr'["closed"]
                      /\ rules'[i].kind \in {"t2", "t3"} =>
                           mgr'["probe"] /\ (active'["probe"] \/ stage' = "probe")
                      /\ rules'[i].kind \notin ResetKinds =>
                           mgr'["fw"] /\ (active'["fw"] \/ stage' = "drop")
    BY DEF RulesHaveOwner
  <2>1. stage \in {"probe", "icmp"} /\ rules' = rules /\ i \in DOMAIN rules /\ ~dropFailed /\ ~undeleted
    <3>1. stage # "closed"
      BY <1>40
    <3>2. stage # "drop" /\ ~dropFailed
      BY <1>4
    <3> QED
      BY <1>2, <1>4, <3>1, <3>2
  <2>2. rules[i].kind \in Kinds
    BY <2>1 DEF RulesInv, RulesetTypeOK
  <2>3. /\ rules[i].kind = "closed" => mgr["closed"]
        /\ rules[i].kind \in {"t2", "t3"} => mgr["probe"] /\ (active["probe"] \/ stage = "probe")
        /\ rules[i].kind \notin ResetKinds => mgr["fw"] /\ (active["fw"] \/ stage = "drop")
    BY <2>1 DEF RulesInv, RulesHaveOwner
  <2>4. CASE Stays
    BY <2>1, <2>3, <2>4
  <2>5. CASE Gives
    <3>1. mgr'["probe"] /\ active'["probe"] /\ (mgr["closed"] => mgr'["closed"])
      BY <2>5, <1>6, <1>8 DEF Next1, Manager
    <3>2. rules[i].kind \in ResetKinds
      BY <2>1, <2>2, <2>5 DEF RulesInv, ResetsFirst, Nowhere
    <3> QED
      BY <2>1, <2>3, <3>1, <3>2
  <2>6. CASE Leaves /\ stage = "probe"
    <3>1. mgr["closed"] => mgr'["closed"]
      BY <2>6, <1>7 DEF Next1, Manager
    <3>2. rules[i].kind = "closed"
      BY <2>1, <2>2, <2>6, <1>1 DEF RulesInv, ResetsFirst, Nowhere, ResetKinds
    <3> QED
      BY <2>1, <2>3, <3>1, <3>2 DEF ResetKinds
  <2>7. CASE Leaves /\ stage = "icmp"
    <3>1. \A m \in {"closed", "probe", "fw"} : mgr[m] => mgr'[m]
      BY <2>7, <1>7 DEF Next1, Manager
    <3> QED
      BY <2>1, <2>3, <2>7, <3>1
  <2> QED
    BY <2>1, <2>4, <2>5, <2>6, <2>7, <1>5
<1>14. ManagersSetUp'
  <2>1. stage' = "icmp" => stage = "drop" /\ dropFailed'
    BY <1>2, <1>4, <1>5, <1>6, <1>7 DEF Next1
  <2>2. stage' # "up" => mgr'[Manager(stage')]
    BY <1>0, <1>5, <1>6, <1>7 DEF Next1, RulesInv, ManagersSetUp
  <2> QED
    BY <2>1, <2>2 DEF ManagersSetUp
<1>15. RulesetTypeOK'
  <2>1. table' \in {"absent", "table", "chain"} /\ (table' # "chain" => rules' = <<>>)
        /\ \A i \in DOMAIN rules' : rules'[i].kind \in Kinds /\ rules'[i].ports \subseteq Ports
    BY <1>40 DEF RulesInv, RulesetTypeOK
  <2>2. stage' \in {"closed", "probe", "drop", "icmp", "up"} /\ mgr' \in [{"closed", "probe", "fw"} -> BOOLEAN]
    BY <1>2, <1>5, <1>6, <1>7 DEF Next1, RulesInv, RulesetTypeOK
  <2>3. (todo' = <<>>) = (stage' = "up")
    <3>1. CASE Stays
      <4>1. Program(stage) \in Seq(CommandsOf(stage))
        BY <1>2, ProgramOfStage
      <4>2. n + 1 \in 1 .. Len(Program(stage))
        BY <3>1, <1>2
      <4>3. todo' \in Seq(CommandsOf(stage)) /\ Len(todo') = Len(Program(stage)) - (n + 1) + 1
        <5>1. todo' = SubSeq(Program(stage), n + 1, Len(Program(stage)))
          BY <3>1, <1>2
        <5> QED
          BY <4>1, <4>2, <5>1, SuffixOfProgram
      <4>4. Len(todo') # 0
        BY <4>2, <4>3, <1>2
      <4>5. todo' # <<>>
        BY <4>4, EmptySeq
      <4> QED
        BY <3>1, <4>5
    <3> QED
      BY <3>1, <1>5, <1>6, <1>7 DEF Next1
  <2> QED
    BY <1>4, <1>40, <1>8, <2>1, <2>2, <2>3 DEF RulesInv, RulesetTypeOK
<1> QED
  BY <1>9, <1>10, <1>11, <1>12, <1>13, <1>14, <1>15 DEF RulesInv

\* Deleting the table keeps it: a Stop method, or "mimic stop" at any moment.
LEMMA DeletedStep ==
  ASSUME RulesInv, TableGone, UNCHANGED <<stage, todo, mgr, dropFailed>>,
         stops' \in 0 .. MaxStops, active' \in [{"probe", "fw"} -> BOOLEAN],
         stage = "up" \/ UNCHANGED active
  PROVE  RulesInv'
<1>1. rules' = <<>> /\ table' = "absent" /\ DOMAIN rules' = {} /\ undeleted' = FALSE
  BY DEF TableGone
<1>2. RulesetTypeOK' /\ RulesTyped'
  BY <1>1, EmptySeq DEF RulesInv, RulesetTypeOK, RulesTyped
<1>3. ResetsFirst' /\ DropIsGuarded' /\ RulesHaveOwner'
  BY <1>1 DEF ResetsFirst, DropIsGuarded, RulesHaveOwner, Nowhere
<1>4. InProgress'
  BY <1>1 DEF RulesInv, InProgress, Nowhere
<1>5. ManagersSetUp'
  BY DEF RulesInv, ManagersSetUp
<1> QED
  BY <1>2, <1>3, <1>4, <1>5 DEF RulesInv

\* So does a delete that fails: the rules stay as they are, if there are any,
\* and it is remembered.
LEMMA UndeletedStep ==
  ASSUME RulesInv, undeleted' = (rules # <<>>) \/ UNCHANGED <<undeleted, active>>,
         UNCHANGED <<table, rules, stage, todo, mgr, dropFailed>>,
         stops' \in 0 .. MaxStops, active' \in [{"probe", "fw"} -> BOOLEAN],
         stage = "up" \/ UNCHANGED active
  PROVE  RulesInv'
<1>1. RulesetTypeOK' /\ RulesTyped'
  BY DEF RulesInv, RulesetTypeOK, RulesTyped
<1>2. ResetsFirst' /\ DropIsGuarded' /\ InProgress'
  BY DEF RulesInv, ResetsFirst, DropIsGuarded, InProgress, Nowhere
<1>3. RulesHaveOwner'
  <2>1. CASE undeleted' = (rules # <<>>)
    <3>1. CASE rules = <<>>
      BY <3>1 DEF RulesHaveOwner
    <3>2. CASE rules # <<>>
      BY <2>1, <3>2 DEF RulesHaveOwner
    <3> QED
      BY <3>1, <3>2
  <2>2. CASE UNCHANGED <<undeleted, active>>
    BY <2>2 DEF RulesInv, RulesHaveOwner
  <2> QED
    BY <2>1, <2>2
<1>4. ManagersSetUp'
  BY DEF RulesInv, ManagersSetUp
<1> QED
  BY <1>1, <1>2, <1>3, <1>4 DEF RulesInv

-----------------------------------------------------------------------------
(* The inductive invariant.                                                *)

\* At the start teardownStack has run and nothing is there.
LEMMA InitEstablishes == Init => IInv
<1> SUFFICES ASSUME Init PROVE IInv
  OBVIOUS
<1>1. ProcessInv
  <2>1. LifecycleTypeOK
    <3>1. Services \in Nat /\ MaxRequests \in Nat
      BY LifecycleAssumption
    <3>2. begun \in 0 .. Services /\ running \in 0 .. begun /\ errs \in 0 .. ErrCap
      BY <3>1 DEF Init, ErrCap
    <3>3. requests \in [Channels -> 0 .. MaxRequests] /\ timers \in [Channels -> 0 .. MaxRequests]
      BY <3>1 DEF Init
    <3> QED
      BY <3>2, <3>3 DEF Init, LifecycleTypeOK
  <2> QED
    BY <2>1 DEF Init, ProcessInv, NotYetSpawned, DoneHasStopped, TimersOfRequests,
                FiltersOfStack, ServersStopFirst, Channels, AfterStop
<1>2. /\ table = "absent" /\ rules = <<>> /\ DOMAIN rules = {} /\ stage = FirstStage /\ todo = Program(stage)
      /\ mgr = [m \in {"closed", "probe", "fw"} |-> m = Manager(FirstStage) /\ stage # "up"]
      /\ active = [m \in {"probe", "fw"} |-> FALSE] /\ stops = 0 /\ dropFailed = FALSE
      /\ undeleted = FALSE
  BY DEF Init, RulesetInit
<1>3. stage \in {"closed", "probe", "drop", "up"} /\ (stage = "closed" => ClosedPorts # <<>>)
  BY <1>2, StagesAdvance
<1>4. Program(stage) \in Seq(CommandsOf(stage)) /\ (Program(stage) = <<>>) = (stage = "up")
  BY <1>3, ProgramOfStage
<1>5. RulesetTypeOK /\ RulesTyped
  <2>0. MaxStops \in Nat
    BY RulesetAssumption
  <2>1. stops \in 0 .. MaxStops
    BY <1>2, <2>0
  <2> QED
    BY <1>2, <1>3, <1>4, <2>1, EmptySeq DEF RulesetTypeOK, RulesTyped
<1>6. ResetsFirst /\ DropIsGuarded /\ RulesHaveOwner
  BY <1>2 DEF ResetsFirst, DropIsGuarded, RulesHaveOwner, Nowhere
<1>7. InProgress
  <2>1. ASSUME stage # "up" PROVE Len(Program(stage)) \in Nat \ {0}
    BY <1>4, <2>1, EmptySeq
  <2>2. stage # "up" => 1 \in 1 .. Len(Program(stage)) /\ todo = SubSeq(Program(stage), 1, Len(Program(stage)))
    BY <1>2, <1>4, <2>1, SubSeqFull
  <2> QED
    BY <1>2, <2>2 DEF InProgress, Nowhere
<1>8. ManagersSetUp
  BY <1>2, <1>3 DEF ManagersSetUp, Manager
<1>9. StoppedInOrder
  BY DEF Init, StoppedInOrder
<1> QED
  BY <1>1, <1>5, <1>6, <1>7, <1>8, <1>9 DEF IInv, RulesInv

\* A step that leaves the ruleset alone keeps its invariant.
LEMMA RulesetUnchanged == RulesInv /\ UNCHANGED ruleset => RulesInv'
<1> SUFFICES ASSUME RulesInv, UNCHANGED ruleset PROVE RulesInv'
  OBVIOUS
<1>1. UNCHANGED <<table, rules, stage, todo, mgr, active, stops, dropFailed, undeleted>>
  BY DEF ruleset
<1>2. stops' \in 0 .. MaxStops /\ active' \in [{"probe", "fw"} -> BOOLEAN]
  BY <1>1 DEF RulesInv, RulesetTypeOK
<1> QED
  BY <1>1, <1>2, UndeletedStep

\* A Stop call removes the rules of its manager, or finds none, or remembers
\* that it could not.
LEMMA StopStep ==
  ASSUME RulesInv, stage = "up", NEW m \in {"closed", "probe", "fw"}, StopManager(m)
  PROVE  /\ RulesInv' /\ stage' = "up" /\ dropFailed' = dropFailed
         /\ rules' = <<>> \/ (rules' = rules /\ (~undeleted' => ~undeleted))
         /\ ~dropFailed /\ ~undeleted' /\ m = "closed" => Nowhere({"closed"})'
         /\ ~dropFailed /\ ~undeleted' /\ m = "probe" => Nowhere({"t2", "t3"})'
         /\ ~dropFailed /\ ~undeleted' /\ m = "fw" => Nowhere(Kinds \ ResetKinds)'
<1>1. mgr \in [{"closed", "probe", "fw"} -> BOOLEAN] /\ active \in [{"probe", "fw"} -> BOOLEAN]
      /\ stops \in 0 .. MaxStops
  BY DEF RulesInv, RulesetTypeOK
<1>2. UNCHANGED <<stage, todo, mgr, stops, dropFailed>>
  BY DEF StopManager
<1>3. CASE mgr[m] /\ (m = "closed" \/ active[m])
  <2>1. DeleteTable /\ active' = [a \in DOMAIN active |-> active[a] /\ a # m]
    BY <1>3 DEF StopManager, RunStop
  <2>2. active' \in [{"probe", "fw"} -> BOOLEAN]
    BY <1>1, <2>1
  <2>3. CASE TableGone
    <3>1. RulesInv'
      BY <1>1, <1>2, <2>2, <2>3, DeletedStep
    <3> QED
      BY <1>2, <2>3, <3>1 DEF TableGone, Nowhere
  <2>4. CASE undeleted' = (rules # <<>>) /\ UNCHANGED <<table, rules>>
    <3>1. RulesInv'
      BY <1>1, <1>2, <2>2, <2>4, UndeletedStep
    <3>2. CASE rules = <<>>
      BY <1>2, <2>4, <3>1, <3>2 DEF Nowhere
    <3>3. CASE rules # <<>>
      BY <1>2, <2>4, <3>1, <3>3 DEF Nowhere
    <3> QED
      BY <3>2, <3>3
  <2> QED
    BY <2>1, <2>3, <2>4 DEF DeleteTable
<1>4. CASE ~(mgr[m] /\ (m = "closed" \/ active[m]))
  <2>1. UNCHANGED <<table, rules, undeleted, active>>
    BY <1>4 DEF StopManager, RunStop
  <2>2. RulesInv'
    BY <1>2, <2>1, RulesetUnchanged DEF ruleset
  <2>3. ~dropFailed /\ ~undeleted => \A i \in DOMAIN rules :
          /\ rules[i].kind = "closed" => mgr["closed"]
          /\ rules[i].kind \in {"t2", "t3"} => mgr["probe"] /\ active["probe"]
          /\ rules[i].kind \notin ResetKinds => mgr["fw"] /\ active["fw"]
    BY DEF RulesInv, RulesHaveOwner
  <2> QED
    BY <1>2, <1>4, <2>1, <2>2, <2>3 DEF Nowhere
<1> QED
  BY <1>3, <1>4

\* Every step of Lifecycle keeps the inductive invariant.
LEMMA InvStep == IInv /\ [Next]_vars => IInv'
<1> SUFFICES ASSUME IInv, [Next]_vars PROVE RulesInv' /\ StoppedInOrder'
  BY ProcessStep DEF IInv
<1> USE DEF IInv
<1>1. CASE SetupStep
  <2>1. RulesInv'
    BY <1>1, CommandStep, FailureStep DEF SetupStep
  <2>2. main' = "setup"
    BY <1>1 DEF SetupStep, lifecycle
  <2> QED
    BY <2>1, <2>2 DEF StoppedInOrder
<1>2. CASE Teardown
  <2>1. main \in {"closed", "probe", "fw"} /\ main' = AfterStop[main] /\ path' = path
    BY <1>2 DEF Teardown, AfterStop
  <2>2. /\ main = "closed" => main' = "probe"
        /\ main = "probe" => main' = "fw"
        /\ main = "fw" => main' = "exited"
    BY <2>1 DEF AfterStop
  <2>3. stage = "up"
    BY <2>1 DEF StoppedInOrder
  <2>4. CASE main = "fw" /\ ~StopsFirewall
    <3>1. UNCHANGED ruleset /\ path = "error"
      BY <1>2, <2>4 DEF Teardown, StopsFirewall
    <3>2. RulesInv'
      BY <3>1, RulesetUnchanged
    <3> QED
      BY <2>1, <2>2, <2>4, <3>1, <3>2 DEF StoppedInOrder, Nowhere, ruleset
  <2>5. CASE ~(main = "fw" /\ ~StopsFirewall)
    <3>1. StopManager(main)
      BY <1>2, <2>5 DEF Teardown
    <3>2. /\ RulesInv' /\ stage' = "up" /\ dropFailed' = dropFailed
          /\ rules' = <<>> \/ (rules' = rules /\ (~undeleted' => ~undeleted))
          /\ ~dropFailed /\ ~undeleted' /\ main = "closed" => Nowhere({"closed"})'
          /\ ~dropFailed /\ ~undeleted' /\ main = "probe" => Nowhere({"t2", "t3"})'
          /\ ~dropFailed /\ ~undeleted' /\ main = "fw" => Nowhere(Kinds \ ResetKinds)'
      BY <2>1, <2>3, <3>1, StopStep
    <3>3. ~dropFailed /\ ~undeleted' /\ main \in {"probe", "fw"} => Nowhere({"closed"})'
      BY <3>2 DEF StoppedInOrder, Nowhere
    <3>4. ~dropFailed /\ ~undeleted' /\ main = "fw" => Nowhere({"t2", "t3"})'
      BY <3>2 DEF StoppedInOrder, Nowhere
    <3>5. ~dropFailed /\ ~undeleted' /\ main = "fw" => rules' = <<>>
      <4>1. rules' \in Seq(NftRules) /\ \A i \in DOMAIN rules' : rules'[i].kind \in Kinds
        BY <3>2 DEF RulesInv, RulesTyped, RulesetTypeOK
      <4>2. ~dropFailed /\ ~undeleted' /\ main = "fw" => DOMAIN rules' = {}
        BY <3>2, <3>3, <3>4, <4>1 DEF Nowhere, ResetKinds
      <4>3. DOMAIN rules' = 1 .. Len(rules') /\ Len(rules') \in Nat
        BY <4>1, LenProperties
      <4>4. DOMAIN rules' = {} => Len(rules') = 0
        BY <4>3
      <4> QED
        BY <4>1, <4>2, <4>4, EmptySeq
    <3> QED
      BY <2>1, <2>2, <3>2, <3>3, <3>4, <3>5 DEF StoppedInOrder
  <2> QED
    BY <2>4, <2>5
<1>3. CASE MimicStop
  <2>1. /\ TableGone \/ UNCHANGED <<table, rules, undeleted>>
        /\ UNCHANGED <<stage, todo, mgr, active, dropFailed>>
        /\ stops' = stops + 1 /\ stops < MaxStops /\ UNCHANGED <<main, path>>
    BY <1>3 DEF MimicStop, OperatorStop
  <2>0. MaxStops \in Nat
    BY RulesetAssumption
  <2>2. stops' \in 0 .. MaxStops /\ active' \in [{"probe", "fw"} -> BOOLEAN]
    BY <2>0, <2>1 DEF RulesInv, RulesetTypeOK
  <2>3. CASE TableGone
    <3>1. RulesInv'
      BY <2>1, <2>2, <2>3, DeletedStep
    <3> QED
      BY <2>1, <2>3, <3>1 DEF StoppedInOrder, Nowhere, TableGone
  <2>4. CASE UNCHANGED <<table, rules, undeleted>>
    <3>1. RulesInv'
      BY <2>1, <2>2, <2>4, UndeletedStep
    <3> QED
      BY <2>1, <2>4, <3>1 DEF StoppedInOrder, Nowhere
  <2> QED
    BY <2>1, <2>3, <2>4
<1>4. ASSUME UNCHANGED ruleset,
             main' \notin {"probe", "fw", "exited"} \/ UNCHANGED <<main, path>>,
             main' \notin {"setup", "panicked"} => stage = "up"
      PROVE  RulesInv' /\ StoppedInOrder'
  <2>1. UNCHANGED <<stage, dropFailed, undeleted, rules>> /\ RulesInv'
    BY <1>4, RulesetUnchanged DEF ruleset
  <2> QED
    BY <1>4, <2>1 DEF StoppedInOrder, Nowhere
<1>5. CASE Spawn \/ Settle \/ Wait \/ \E p \in Channels \cup {"error", "signal"} : Select(p)
  BY <1>4, <1>5 DEF Spawn, Settle, Wait, Select, StoppedInOrder
<1>6. CASE Stack \/ Service \/ Signal \/ UNCHANGED vars
  <2>1. UNCHANGED <<ruleset, main, path>>
    BY <1>6 DEF Stack, Service, StackOk, StackErr, StackSend, StackClose, ServiceOk, ServiceErr,
                ServiceSend, ServiceStop, Signal, vars, lifecycle
  <2> QED
    BY <1>4, <2>1 DEF StoppedInOrder
<1>7. CASE \E c \in Channels : Request(c) \/ Fire(c)
  <2>1. UNCHANGED <<ruleset, path>> /\ main' \in {main, "panicked"}
    BY <1>7 DEF Request, Fire
  <2> QED
    BY <1>4, <2>1 DEF StoppedInOrder
<1> QED
  BY <1>1, <1>2, <1>3, <1>5, <1>6, <1>7 DEF Next, Main

\* The inductive invariant holds throughout.
LEMMA Invariance == Spec => []IInv
<1>1. Init => IInv
  BY InitEstablishes
<1>2. IInv /\ [Next]_vars => IInv'
  BY InvStep
<1> QED
  BY <1>1, <1>2, PTL DEF Spec

-----------------------------------------------------------------------------
(* What it means.                                                          *)

\* Every state of a run is well typed: errChan never holds more than its two
\* errors, at most as many servers listen as were begun, and there is no rule
\* without a chain.
THEOREM TypeCorrect == Spec => []TypeOK
<1>1. IInv => TypeOK
  BY DEF IInv, ProcessInv, RulesInv, TypeOK
<1> QED
  BY <1>1, Invariance, PTL

\* When the Stop calls begin, no goroutine is left to add a filter or a
\* listener, however the run ended.
THEOREM GoroutinesEndFirst == Spec => []ServersStopFirst
<1>1. IInv => ServersStopFirst
  BY DEF IInv, ProcessInv
<1> QED
  BY <1>1, Invariance, PTL

\* A return of runMimic leaves no rule and no filter, although every nft
\* command, every eBPF step and every delete may fail, with the exceptions that
\* CleanExit names: what a failed delete left is left only if no later manager's
\* delete succeeded, and a filter only if its own delete failed.
THEOREM ExitIsClean == Spec => []CleanExit
<1>1. IInv => CleanExit
  BY DEF IInv, ProcessInv, StoppedInOrder, ServersStopFirst, FiltersOfStack, CleanExit, AfterStop
<1> QED
  BY <1>1, Invariance, PTL

\* The chain never drops what the policy lets through, however far its
\* commands got.
THEOREM SessionsAreSafe == Spec => []SessionsSurvive
<1>1. ASSUME IInv PROVE SessionsSurvive
  <2> SUFFICES ASSUME NEW k \in Packets, k.proto = "tcp", k.flags = "ordinary", k.port \notin Closed,
                      k.ct = "established" \/ k.lo \/ k.port \in Allow
               PROVE  Verdict(k) = "accept"
    BY DEF SessionsSurvive
  <2> DEFINE hits == {i \in DOMAIN rules : Matches(rules[i], k)}
  <2>1. CASE hits = {}
    BY <2>1 DEF Verdict
  <2>2. CASE hits # {}
    <3> DEFINE i == Min(hits)
    <3>1. rules \in Seq(NftRules) /\ RulesTyped /\ DropIsGuarded
      BY <1>1 DEF IInv, RulesInv, RulesTyped
    <3>2. hits \in SUBSET Nat /\ DOMAIN rules = 1 .. Len(rules) /\ Len(rules) \in Nat
      BY <3>1, LenProperties
    <3>3. i \in hits /\ \A j \in hits : i <= j
      BY <2>2, <3>2, MinOfPositions, Zenon
    <3>4. Verdict(k) = Target(rules[i])
      BY <2>2 DEF Verdict
    <3> HIDE DEF i
    <3>5. i \in DOMAIN rules /\ Matches(rules[i], k) /\ rules[i] \in NftRules
      BY <3>1, <3>2, <3>3, ElementOfSeq
    <3>6. rules[i].kind \in {"established", "loopback", "allow", "drop"}
      BY <3>1, <3>5 DEF Matches, RulesTyped, NftRules, Kinds
    <3>7. rules[i].kind # "drop"
      <4> SUFFICES ASSUME rules[i].kind = "drop" PROVE FALSE
        OBVIOUS
      <4>1. \A j \in 1 .. i - 1 : ~Matches(rules[j], k)
        BY <3>2, <3>3, <3>5
      <4>2. /\ \E j \in 1 .. i - 1 : rules[j].kind = "established"
            /\ \E j \in 1 .. i - 1 : rules[j].kind = "loopback"
            /\ Allow # {} => \E j \in 1 .. i - 1 : rules[j] = Rule("allow", Allow)
        BY <3>1, <3>5 DEF DropIsGuarded
      <4>3. CASE k.ct = "established"
        BY <4>1, <4>2, <4>3 DEF Matches
      <4>4. CASE k.lo
        BY <4>1, <4>2, <4>4 DEF Matches
      <4>5. CASE k.port \in Allow
        <5>1. PICK j \in 1 .. i - 1 : rules[j] = Rule("allow", Allow)
          BY <4>2, <4>5
        <5>2. Matches(rules[j], k)
          BY <4>5, <5>1 DEF Matches, Rule
        <5> QED
          BY <4>1, <5>2
      <4> QED
        BY <4>3, <4>4, <4>5
    <3> QED
      BY <3>4, <3>6, <3>7 DEF Target
  <2> QED
    BY <2>1, <2>2
<1> QED
  BY <1>1, Invariance, PTL

\* No accept or drop rule stands before a reset that it would shadow: there is
\* none before any reset.
THEOREM ResetsMatchFirst == Spec => []ResetsNotShadowed
<1>1. ASSUME IInv PROVE ResetsNotShadowed
  <2> SUFFICES ASSUME NEW i \in DOMAIN rules, Target(rules[i]) = "reset",
                      NEW j \in 1 .. i - 1, Target(rules[j]) # "reset"
               PROVE  FALSE
    BY DEF ResetsNotShadowed
  <2>1. rules \in Seq(NftRules) /\ ResetsFirst
    BY <1>1 DEF IInv, RulesInv, RulesTyped
  <2>2. DOMAIN rules = 1 .. Len(rules) /\ Len(rules) \in Nat
    BY <2>1, LenProperties
  <2>3. j \in DOMAIN rules
    BY <2>2
  <2>4. rules[i].kind \in Kinds /\ rules[j].kind \in Kinds
    BY <1>1, <2>3 DEF IInv, RulesInv, RulesetTypeOK
  <2>5. rules[i].kind \in ResetKinds /\ rules[j].kind \notin ResetKinds
    BY <2>4 DEF Target, Kinds, ResetKinds
  <2> QED
    BY <2>1, <2>5 DEF ResetsFirst
<1> QED
  BY <1>1, Invariance, PTL

\* The services goroutine of runMimic keeps the contract of ServiceGroup:
\* every step of the process is a step of the contract or leaves it alone.
THEOREM Refinement == Spec => KeepsContract
<1>1. Init => Group!Init
  BY DEF Init, Group!Init
<1>2. ASSUME IInv, [Next]_vars PROVE [Group!Next]_(Group!group)
  <2> USE DEF Group!group, Group!Next, Group!Spawn, Group!Start, Group!Fail, Group!Send,
              Group!Shutdown, Group!StopOne, Group!Done
  <2>0. running \in Nat /\ shutdown \in BOOLEAN /\ NotYetSpawned
    BY <1>2, LifecycleAssumption DEF IInv, ProcessInv, LifecycleTypeOK
  <2>1. CASE Spawn
    BY <2>0, <2>1 DEF Spawn, NotYetSpawned
  <2>2. CASE Settle
    BY <2>0, <2>2 DEF Settle, NotYetSpawned
  <2>3. ASSUME NEW p \in Channels \cup {"error", "signal"}, Select(p) PROVE [Group!Next]_(Group!group)
    BY <2>0, <2>3 DEF Select, NotYetSpawned
  <2>4. CASE ServiceOk
    BY <2>0, <2>4 DEF ServiceOk
  <2>5. CASE ServiceErr \/ ServiceSend
    BY <2>0, <2>5 DEF ServiceErr, ServiceSend
  <2>6. CASE ServiceStop
    BY <2>0, <2>6 DEF ServiceStop
  <2>7. CASE UNCHANGED <<svc, running, shutdown>>
    BY <2>7
  <2>8. CASE SetupStep \/ Wait \/ Teardown \/ Stack \/ Signal \/ MimicStop \/ UNCHANGED vars
             \/ \E c \in Channels : Request(c) \/ Fire(c)
    <3>1. UNCHANGED <<svc, running, shutdown>>
      BY <2>8 DEF SetupStep, Wait, Teardown, Stack, StackOk, StackErr, StackSend, StackClose,
                  Signal, MimicStop, Request, Fire, vars, lifecycle
    <3> QED
      BY <3>1, <2>7
  <2> QED
    BY <1>2, <2>1, <2>2, <2>3, <2>4, <2>5, <2>6, <2>8 DEF Next, Main, Service
<1> QED
  BY <1>1, <1>2, Invariance, PTL DEF Spec, KeepsContract, Group!Spec
=============================================================================
