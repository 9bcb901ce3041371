---------------------------- MODULE DefenseProofs ----------------------------
(* Proofs about Defense, for every number of emitters, sources and events.  *)
EXTENDS Defense, FiniteSetTheorems, TLAPS

\* The inductive invariant.  An event on its way to the detector was emitted
\* by a honeypot unless it is a Block event.
InFlightWasEmitted ==
    \A p \in Emitters :
        pc[p] = "sinks" => ev[p].type = "block" \/ ev[p] \in emitted

\* What the detector remembers of a source, that source emitted.
HitsAreOwn ==
    \A s \in Sources : \A h \in hits[s] : h \in emitted /\ h.src = s

\* lastBlock is an upper bound of the decisions taken so far.
LastBlockIsLast ==
    \A tr \in triggers : tr.time <= lastBlock[tr.src]

Enforcing == EnsureSteps \cup {"lock", "element", "report"}

\* A goroutine inside Block carries the event of a recorded decision, and past
\* the whitelist check its source is not whitelisted.
BlockingWasDecided ==
    \A p \in Emitters :
        /\ pc[p] \in Enforcing \cup {"block"} =>
              \E tr \in triggers : tr.src = ev[p].src /\ tr.time = ev[p].time
        /\ pc[p] \in Enforcing => ev[p].src \notin Whitelist

\* Only the holder of Blocker.mu runs nft commands; ensured says whether it
\* runs ensure or goes straight to the element, and once it is set the table
\* is complete or gone.
TableIsBuiltOnce ==
    /\ \A p \in Emitters :
          pc[p] \in EnsureSteps \cup {"element"} => mu = {p}
    /\ \A p \in Emitters : pc[p] \in EnsureSteps => ~ensured
    /\ \A p \in Emitters : pc[p] = "element" => ensured
    /\ ensured => nft \in {{}, EnsureSteps}

IInv == /\ TypeOK
        /\ InFlightWasEmitted
        /\ HitsAreOwn
        /\ LastBlockIsLast
        /\ BlockingWasDecided
        /\ TableIsBuiltOnce
        /\ TriggersJustified
        /\ CooldownRespected
        /\ BlocksAreDecided
        /\ ElementsAreDropped

-----------------------------------------------------------------------------
\* Every step of Defense keeps the types.
LEMMA TypeStep == TypeOK /\ [Next]_vars => TypeOK'
<1> USE DefenseAssumption
<1> SUFFICES ASSUME TypeOK, [Next]_vars PROVE TypeOK'
  OBVIOUS
<1>1. CASE Tick
  BY <1>1 DEF Tick, TypeOK, detector, kernel, history
<1>2. ASSUME NEW p \in Emitters, NEW t \in Types, NEW s \in Sources, Emit(p, t, s)
      PROVE  TypeOK'
  <2> DEFINE e == [id |-> Cardinality(emitted) + 1, type |-> t, src |-> s, time |-> clock]
  <2>1. Cardinality(emitted) \in Nat
    BY FS_CardinalityType DEF TypeOK
  <2>2. e \in Event
    BY <1>2, <2>1 DEF Emit, TypeOK, Event
  <2>3. IsFiniteSet(emitted \cup {e})
    BY FS_AddElement DEF TypeOK
  <2> QED
    BY <1>2, <2>2, <2>3 DEF Emit, TypeOK, Goto, Steps, detector, kernel
<1>3. ASSUME NEW p \in Emitters, Write(p) PROVE TypeOK'
  <2>1. ev[p] \in Event /\ ev[p].src \in Sources /\ ev[p].time \in 0 .. MaxTime
    BY DEF TypeOK, Event
  <2>2. Kept(ev[p]) \in SUBSET Event
    BY <2>1 DEF Kept, TypeOK
  <2>3. hits' \in [Sources -> SUBSET Event]
    BY <1>3, <2>1, <2>2 DEF Write, TypeOK, detector
  <2>4. lastBlock' \in [Sources -> {Never} \cup (0 .. MaxTime)]
    BY <1>3, <2>1 DEF Write, TypeOK, detector
  <2>5. triggers' \subseteq [src : Sources, time : 0 .. MaxTime, hits : SUBSET Event]
    BY <1>3, <2>1, <2>2 DEF Write, TypeOK
  <2>6. pc' \in [Emitters -> Steps]
    BY <1>3 DEF Write, TypeOK, Goto, Steps
  <2> QED
    BY <1>3, <2>3, <2>4, <2>5, <2>6 DEF Write, TypeOK, kernel
<1>4. ASSUME NEW p \in Emitters, Block(p) PROVE TypeOK'
  BY <1>4 DEF Block, TypeOK, Goto, Steps, detector, kernel, history
<1>5. ASSUME NEW p \in Emitters, nftBlock(p) PROVE TypeOK'
  BY <1>5 DEF nftBlock, TypeOK, Goto, Steps, EnsureSteps, detector, kernel, history
<1>6. ASSUME NEW p \in Emitters, nftFails(p) PROVE TypeOK'
  BY <1>6 DEF nftFails, TypeOK, Goto, Steps, detector, kernel, history
<1>7. ASSUME NEW p \in Emitters, ensure(p) PROVE TypeOK'
  <2>1. pc[p] \in EnsureSteps /\ After[pc[p]] \in Steps
    <3>1. pc[p] = "table" \/ pc[p] = "set" \/ pc[p] = "chain" \/ pc[p] = "rule"
      BY <1>7 DEF ensure, EnsureSteps
    <3> QED
      BY <3>1 DEF After, Steps, EnsureSteps
  <2>2. ensured' \in BOOLEAN
    BY <1>7 DEF ensure
  <2> QED
    BY <1>7, <2>1, <2>2 DEF ensure, TypeOK, Goto, detector, history
<1>8. ASSUME NEW p \in Emitters, addElement(p) PROVE TypeOK'
  BY <1>8 DEF addElement, TypeOK, Goto, Steps, Event, detector, history
<1>9. ASSUME NEW p \in Emitters, Report(p) PROVE TypeOK'
  <2>1. ev[p] \in Event /\ ev[p].src \in Sources /\ ev[p].time \in 0 .. MaxTime
    BY DEF TypeOK, Event
  <2>2. [id |-> 0, type |-> "block", src |-> ev[p].src, time |-> clock] \in Event
    BY <2>1 DEF TypeOK, Event
  <2> QED
    BY <1>9, <2>1, <2>2 DEF Report, TypeOK, Goto, Steps, detector, kernel
<1>10. ASSUME NEW s \in Sources, Expire(s) PROVE TypeOK'
  BY <1>10 DEF Expire, TypeOK, detector, history
<1>11. CASE Close
  BY <1>11 DEF Close, TypeOK, kernel, detector, history
<1>12. CASE CloseGlobal
  BY <1>12 DEF CloseGlobal, TypeOK, kernel, detector, history
<1>13. CASE Exit
  BY <1>13 DEF Exit, TypeOK, Steps, kernel, detector, history
<1>14. CASE UNCHANGED vars
  BY <1>14 DEF vars, TypeOK
<1> QED
  BY <1>1, <1>2, <1>3, <1>4, <1>5, <1>6, <1>7, <1>8, <1>9, <1>10, <1>11,
     <1>12, <1>13, <1>14 DEF Next, Goroutine

\* The initial state is well typed.
LEMMA InitType == Init => TypeOK
<1> SUFFICES ASSUME Init PROVE TypeOK
  OBVIOUS
<1>1. NoEvent \in Event
  BY DefenseAssumption DEF NoEvent, Event
<1>2. IsFiniteSet({})
  BY FS_EmptySet
<1>3. pc \in [Emitters -> Steps] /\ ev \in [Emitters -> Event]
  BY <1>1 DEF Init, Steps
<1>4. /\ hits \in [Sources -> SUBSET Event]
      /\ lastBlock \in [Sources -> {Never} \cup (0 .. MaxTime)]
  BY DEF Init
<1>5. clock \in 0 .. MaxTime
  BY DefenseAssumption DEF Init
<1>6. ensured \in BOOLEAN
  BY DEF Init
<1> QED
  BY <1>2, <1>3, <1>4, <1>5, <1>6 DEF Init, TypeOK

\* Every reachable state of the detector and the blocker is well typed.
THEOREM TypeCorrect == Spec => []TypeOK
<1> QED
  BY InitType, TypeStep, PTL DEF Spec

-----------------------------------------------------------------------------
\* The steps of the goroutines keep the history of what was emitted, decided
\* and remembered consistent (Detector.Write).
LEMMA DetectorStep ==
    IInv /\ [Next]_vars =>
        (InFlightWasEmitted /\ HitsAreOwn /\ LastBlockIsLast
          /\ TriggersJustified /\ CooldownRespected)'
<1> USE DefenseAssumption
<1> DEFINE Goal == (InFlightWasEmitted /\ HitsAreOwn /\ LastBlockIsLast
                      /\ TriggersJustified /\ CooldownRespected)'
<1> SUFFICES ASSUME IInv, [Next]_vars PROVE Goal
  OBVIOUS
<1>1. ASSUME NEW p \in Emitters, NEW t \in Types, NEW s \in Sources, Emit(p, t, s)
      PROVE  Goal
  <2>1. emitted \subseteq emitted' /\ UNCHANGED <<hits, lastBlock, triggers>>
    BY <1>1 DEF Emit, detector
  <2>2. InFlightWasEmitted'
    BY <1>1 DEF Emit, IInv, InFlightWasEmitted, TypeOK, Goto
  <2> QED
    BY <2>1, <2>2 DEF IInv, HitsAreOwn, LastBlockIsLast, TriggersJustified,
                      CooldownRespected
<1>2. ASSUME NEW p \in Emitters, Write(p) PROVE Goal
  <2> DEFINE e == ev[p]
  <2> DEFINE new == [src |-> e.src, time |-> e.time, hits |-> Kept(e)]
  <2>1. /\ e \in Event /\ e.src \in Sources /\ e.time \in 0 .. MaxTime
        /\ UNCHANGED <<ev, emitted>>
    BY <1>2 DEF IInv, TypeOK, Event, Write
  <2>2. InFlightWasEmitted'
    BY <1>2 DEF Write, IInv, InFlightWasEmitted, TypeOK, Goto
  <2>3. CASE ~Scored(e)
    <3>1. UNCHANGED <<hits, lastBlock, triggers, emitted>>
      BY <1>2, <2>3 DEF Write, detector
    <3> QED
      BY <2>2, <3>1 DEF IInv, HitsAreOwn, LastBlockIsLast, TriggersJustified,
                        CooldownRespected
  <2>4. CASE Scored(e)
    <3>1. e \in emitted
      BY <1>2, <2>4 DEF Write, Scored, IInv, InFlightWasEmitted
    <3>2. \A h \in Kept(e) : h \in emitted /\ h.src = e.src
      BY <2>1, <3>1 DEF Kept, IInv, HitsAreOwn
    <3>3. hits' = [hits EXCEPT ![e.src] = Kept(e)]
      BY <1>2, <2>4 DEF Write
    <3>4. HitsAreOwn'
      BY <2>1, <3>2, <3>3 DEF IInv, HitsAreOwn, TypeOK
    <3>5. CASE ~Trigger(e)
      <4>1. UNCHANGED <<lastBlock, triggers, emitted>>
        BY <1>2, <2>4, <3>5 DEF Write
      <4> QED
        BY <2>2, <3>4, <4>1 DEF IInv, LastBlockIsLast, TriggersJustified,
                                CooldownRespected
    <3>6. CASE Trigger(e)
      <4>1. /\ triggers' = triggers \cup {new}
            /\ lastBlock' = [lastBlock EXCEPT ![e.src] = e.time]
        BY <1>2, <2>4, <3>6 DEF Write
      <4>2. /\ Score(Kept(e)) >= Threshold
            /\ e.time - lastBlock[e.src] > Cooldown
        BY <3>6 DEF Trigger
      <4>3. lastBlock \in [Sources -> Int] /\ Never \in Int
        BY DEF IInv, TypeOK, Never
      <4>4. \A tr \in triggers : /\ tr.src \in Sources /\ tr.time \in 0 .. MaxTime
                                 /\ tr.time <= lastBlock[tr.src]
        BY DEF IInv, TypeOK, LastBlockIsLast
      <4>5. \A tr \in triggers : tr.src = e.src => e.time - tr.time > Cooldown
        BY <2>1, <4>2, <4>3, <4>4
      <4>6. LastBlockIsLast'
        BY <2>1, <4>1, <4>3, <4>4, <4>5 DEF LastBlockIsLast
      <4>7. CooldownRespected'
        BY <4>1, <4>5 DEF CooldownRespected, IInv
      <4>8. \A h \in Kept(e) : h.time > e.time - Window
        BY <2>1 DEF Kept
      <4>9. TriggersJustified'
        BY <2>1, <3>2, <4>1, <4>2, <4>8 DEF TriggersJustified, IInv
      <4> QED
        BY <2>2, <3>4, <4>6, <4>7, <4>9
    <3> QED
      BY <3>5, <3>6
  <2> QED
    BY <2>3, <2>4
<1>3. CASE /\ UNCHANGED <<hits, lastBlock, emitted, triggers>>
           /\ InFlightWasEmitted'
  BY <1>3 DEF IInv, HitsAreOwn, LastBlockIsLast, TriggersJustified,
              CooldownRespected
<1>4. ASSUME UNCHANGED <<pc, ev, emitted>> PROVE InFlightWasEmitted'
  BY <1>4 DEF IInv, InFlightWasEmitted
<1>5. CASE Tick \/ Close \/ CloseGlobal \/ (\E s \in Sources : Expire(s)) \/ UNCHANGED vars
  <2>1. UNCHANGED <<pc, ev, hits, lastBlock, emitted, triggers>>
    BY <1>5 DEF Tick, Close, CloseGlobal, Expire, vars, detector, history
  <2> QED
    BY <1>3, <1>4, <2>1
<1>6. CASE Exit
  BY <1>3, <1>6 DEF Exit, InFlightWasEmitted, detector, history
<1>7. ASSUME NEW p \in Emitters,
             Block(p) \/ nftBlock(p) \/ nftFails(p) \/ addElement(p) \/ Report(p)
      PROVE  Goal
  <2>1. UNCHANGED <<hits, lastBlock, emitted, triggers>>
    BY <1>7 DEF Block, nftBlock, nftFails, addElement, Report, detector, history
  <2>2. InFlightWasEmitted'
    BY <1>7 DEF Block, nftBlock, nftFails, addElement, Report, Goto,
                history, IInv, TypeOK, InFlightWasEmitted
  <2> QED
    BY <1>3, <2>1, <2>2
<1>8. ASSUME NEW p \in Emitters, ensure(p) PROVE Goal
  <2>1. UNCHANGED <<hits, lastBlock, emitted, triggers, ev>>
    BY <1>8 DEF ensure, detector, history
  <2>2. pc' = [pc EXCEPT ![p] = After[pc[p]]] /\ After[pc[p]] # "sinks"
    <3>1. pc[p] = "table" \/ pc[p] = "set" \/ pc[p] = "chain" \/ pc[p] = "rule"
      BY <1>8 DEF ensure, EnsureSteps
    <3> QED
      BY <1>8, <3>1 DEF ensure, Goto, After
  <2> QED
    BY <1>3, <2>1, <2>2 DEF IInv, TypeOK, InFlightWasEmitted
<1> QED
  BY <1>1, <1>2, <1>5, <1>6, <1>7, <1>8 DEF Next, Goroutine

-----------------------------------------------------------------------------
\* The steps of the blocker keep the decisions and the kernel's table in step
\* (Blocker.Block, nftBlock, ensure, Close).
LEMMA BlockerStep ==
    IInv /\ [Next]_vars => (BlockingWasDecided /\ BlocksAreDecided)'
<1> USE DefenseAssumption
<1> DEFINE Goal == (BlockingWasDecided /\ BlocksAreDecided)'
<1> SUFFICES ASSUME IInv, [Next]_vars PROVE Goal
  OBVIOUS
<1> USE DEF IInv, Enforcing
<1>1. ASSUME NEW p \in Emitters, NEW t \in Types, NEW s \in Sources, Emit(p, t, s)
      PROVE  Goal
  BY <1>1 DEF Emit, Goto, TypeOK, EnsureSteps, BlockingWasDecided, BlocksAreDecided, kernel
<1>2. ASSUME NEW p \in Emitters, Write(p) PROVE Goal
  <2>1. triggers \subseteq triggers' /\ UNCHANGED <<ev, elements, reports>>
    BY <1>2 DEF Write, kernel
  <2>2. BlocksAreDecided'
    BY <2>1 DEF BlocksAreDecided
  <2>3. \/ pc' = [pc EXCEPT ![p] = "idle"]
        \/ /\ pc' = [pc EXCEPT ![p] = "block"]
           /\ \E tr \in triggers' : tr.src = ev[p].src /\ tr.time = ev[p].time
    <3> DEFINE new == [src |-> ev[p].src, time |-> ev[p].time, hits |-> Kept(ev[p])]
    <3>1. \/ pc' = [pc EXCEPT ![p] = "idle"]
          \/ pc' = [pc EXCEPT ![p] = "block"] /\ new \in triggers'
      BY <1>2 DEF Write, Goto
    <3>2. new.src = ev[p].src /\ new.time = ev[p].time
      OBVIOUS
    <3> HIDE DEF new
    <3> QED
      BY <3>1, <3>2
  <2>4. BlockingWasDecided'
    BY <2>1, <2>3 DEF BlockingWasDecided, TypeOK, EnsureSteps
  <2> QED
    BY <2>2, <2>4
<1>3. ASSUME NEW p \in Emitters, Block(p) PROVE Goal
  BY <1>3 DEF Block, Goto, TypeOK, EnsureSteps, BlockingWasDecided, BlocksAreDecided,
              kernel, history, whitelisted
<1>4. ASSUME NEW p \in Emitters, nftBlock(p) \/ nftFails(p) PROVE Goal
  BY <1>4 DEF nftBlock, nftFails, Goto, TypeOK, EnsureSteps, BlockingWasDecided,
              BlocksAreDecided, kernel, history
<1>5. ASSUME NEW p \in Emitters, ensure(p) PROVE Goal
  <2>1. pc[p] \in Enforcing /\ After[pc[p]] \in Enforcing
    <3>1. pc[p] = "table" \/ pc[p] = "set" \/ pc[p] = "chain" \/ pc[p] = "rule"
      BY <1>5 DEF ensure, EnsureSteps
    <3> QED
      BY <3>1 DEF After, EnsureSteps
  <2>2. /\ pc' = [pc EXCEPT ![p] = After[pc[p]]]
        /\ UNCHANGED <<ev, elements, triggers, reports>>
    BY <1>5 DEF ensure, Goto, history
  <2> QED
    BY <2>1, <2>2 DEF TypeOK, BlockingWasDecided, BlocksAreDecided
<1>6. ASSUME NEW p \in Emitters, addElement(p) PROVE Goal
  BY <1>6 DEF addElement, Goto, TypeOK, EnsureSteps, BlockingWasDecided,
              BlocksAreDecided, history
<1>7. ASSUME NEW p \in Emitters, Report(p) PROVE Goal
  <2>1. /\ ev[p].src \notin Whitelist
        /\ \E tr \in triggers : tr.src = ev[p].src /\ tr.time = ev[p].time
    BY <1>7 DEF Report, BlockingWasDecided
  <2>2. BlocksAreDecided'
    BY <1>7, <2>1 DEF Report, BlocksAreDecided, kernel
  <2>3. BlockingWasDecided'
    BY <1>7 DEF Report, Goto, TypeOK, EnsureSteps, BlockingWasDecided
  <2> QED
    BY <2>2, <2>3
<1>8. CASE Exit
  BY <1>8 DEF Exit, EnsureSteps, BlockingWasDecided, BlocksAreDecided, kernel, history
<1>9. CASE Tick \/ CloseGlobal \/ Close \/ (\E s \in Sources : Expire(s)) \/ UNCHANGED vars
  <2>1. UNCHANGED <<pc, ev, triggers, reports>> /\ elements' \subseteq elements
    BY <1>9 DEF Tick, CloseGlobal, Close, Expire, vars, kernel, history
  <2> QED
    BY <2>1 DEF BlockingWasDecided, BlocksAreDecided
<1> QED
  BY <1>1, <1>2, <1>3, <1>4, <1>5, <1>6, <1>7, <1>8, <1>9 DEF Next, Goroutine

\* The nft table stays in one of the shapes TableIsBuiltOnce allows, and its
\* elements are never without the drop rule (Blocker.ensure, Close).
LEMMA TableStep ==
    IInv /\ [Next]_vars => (TableIsBuiltOnce /\ ElementsAreDropped)'
<1> DEFINE Goal == (TableIsBuiltOnce /\ ElementsAreDropped)'
<1> SUFFICES ASSUME IInv, [Next]_vars PROVE Goal
  OBVIOUS
<1> USE DEF IInv
<1>1. ASSUME NEW p \in Emitters, NEW t \in Types, NEW s \in Sources, Emit(p, t, s)
      PROVE  Goal
  BY <1>1 DEF Emit, Goto, TypeOK, EnsureSteps, TableIsBuiltOnce, ElementsAreDropped, kernel
<1>2. ASSUME NEW p \in Emitters, Write(p) \/ Block(p) \/ Report(p) PROVE Goal
  <2>1. /\ UNCHANGED <<mu, ensured, nft, elements>>
        /\ \/ pc' = [pc EXCEPT ![p] = "idle"] \/ pc' = [pc EXCEPT ![p] = "block"]
           \/ pc' = [pc EXCEPT ![p] = "lock"] \/ pc' = [pc EXCEPT ![p] = "report"]
           \/ pc' = [pc EXCEPT ![p] = "sinks"]
    BY <1>2 DEF Write, Block, Report, Goto, kernel
  <2> QED
    BY <2>1 DEF TypeOK, EnsureSteps, TableIsBuiltOnce, ElementsAreDropped
<1>3. ASSUME NEW p \in Emitters, nftBlock(p) PROVE Goal
  BY <1>3 DEF nftBlock, Goto, TypeOK, EnsureSteps, TableIsBuiltOnce, ElementsAreDropped, kernel
<1>4. ASSUME NEW p \in Emitters, nftFails(p) PROVE Goal
  BY <1>4 DEF nftFails, Goto, TypeOK, EnsureSteps, TableIsBuiltOnce, ElementsAreDropped, kernel
<1>5. ASSUME NEW p \in Emitters, ensure(p) PROVE Goal
  <2>1. pc[p] \in EnsureSteps /\ mu = {p} /\ ~ensured
    BY <1>5 DEF ensure, TableIsBuiltOnce
  <2>2. \A q \in Emitters \ {p} : pc[q] \notin EnsureSteps \cup {"element"}
    BY <2>1 DEF TableIsBuiltOnce
  <2>3. /\ pc' = [pc EXCEPT ![p] = After[pc[p]]]
        /\ nft' = nft \cup {pc[p]} /\ UNCHANGED <<mu, elements>>
        /\ ensured' = (ensured \/ pc[p] = "rule")
        /\ Needs[pc[p]] \subseteq nft
    BY <1>5 DEF ensure, Goto, EnsuredAfter
  <2>4. CASE pc[p] = "rule"
    <3>1. After[pc[p]] = "element" /\ Needs[pc[p]] = {"table", "set", "chain"}
      BY <2>4 DEF After, Needs
    <3>2. nft' = EnsureSteps
      BY <2>3, <2>4, <3>1 DEF EnsureSteps, TypeOK
    <3>3. ensured'
      BY <2>3, <2>4
    <3> QED
      BY <2>1, <2>2, <2>3, <3>1, <3>2, <3>3 DEF TypeOK, EnsureSteps, TableIsBuiltOnce, ElementsAreDropped
  <2>5. CASE pc[p] # "rule"
    <3>1. pc[p] = "table" \/ pc[p] = "set" \/ pc[p] = "chain"
      BY <2>1, <2>5 DEF EnsureSteps
    <3>2. After[pc[p]] \in EnsureSteps
      BY <3>1 DEF After, EnsureSteps
    <3>4. ~ensured'
      BY <2>1, <2>3, <2>5
    <3>3. elements # {} => nft' = EnsureSteps
      BY <2>1, <2>3 DEF ElementsAreDropped
    <3> QED
      BY <2>1, <2>2, <2>3, <3>2, <3>3, <3>4 DEF TypeOK, EnsureSteps, TableIsBuiltOnce, ElementsAreDropped
  <2> QED
    BY <2>4, <2>5
<1>6. ASSUME NEW p \in Emitters, addElement(p) PROVE Goal
  <2>1. mu = {p} /\ ensured /\ nft = EnsureSteps
    <3>1. pc[p] = "element" /\ "table" \in nft
      BY <1>6 DEF addElement, Needs
    <3> QED
      BY <3>1 DEF TableIsBuiltOnce
  <2> QED
    BY <1>6, <2>1 DEF addElement, Goto, TypeOK, EnsureSteps, TableIsBuiltOnce, ElementsAreDropped
<1>7. CASE Exit
  BY <1>7 DEF Exit, EnsureSteps, TableIsBuiltOnce, ElementsAreDropped, kernel
<1>8. CASE Close
  BY <1>8 DEF Close, TableIsBuiltOnce, ElementsAreDropped, kernel
<1>9. CASE Tick \/ CloseGlobal \/ (\E s \in Sources : Expire(s)) \/ UNCHANGED vars
  <2>1. UNCHANGED <<pc, mu, ensured, nft>> /\ elements' \subseteq elements
    BY <1>9 DEF Tick, CloseGlobal, Expire, vars, kernel
  <2> QED
    BY <2>1 DEF TableIsBuiltOnce, ElementsAreDropped
<1> QED
  BY <1>1, <1>2, <1>3, <1>4, <1>5, <1>6, <1>7, <1>8, <1>9 DEF Next, Goroutine

\* The inductive invariant holds in every reachable state.
LEMMA Invariance == Spec => []IInv
<1>1. Init => IInv
  <2> SUFFICES ASSUME Init PROVE IInv
    OBVIOUS
  <2>1. TypeOK
    BY InitType
  <2> QED
    BY <2>1 DEF Init, IInv, InFlightWasEmitted, HitsAreOwn, LastBlockIsLast,
         BlockingWasDecided, Enforcing, EnsureSteps, TableIsBuiltOnce,
         TriggersJustified, CooldownRespected, BlocksAreDecided, ElementsAreDropped
<1>2. IInv /\ [Next]_vars => IInv'
  BY TypeStep, DetectorStep, BlockerStep, TableStep DEF IInv
<1> QED
  BY <1>1, <1>2, PTL DEF Spec

\* The detector is right whatever the interleaving: decisions rest on the
\* source's own events, worth the threshold, and respect the cooldown.
THEOREM DetectorSound == Spec => [](TriggersJustified /\ CooldownRespected)
<1>1. IInv => TriggersJustified /\ CooldownRespected
  BY DEF IInv
<1> QED
  BY <1>1, Invariance, PTL

\* Nobody is blocked or reported who was not decided against, and no
\* whitelisted source ever is.
THEOREM BlockerSound == Spec => []BlocksAreDecided
<1>1. IInv => BlocksAreDecided
  BY DEF IInv
<1> QED
  BY <1>1, Invariance, PTL

\* An element of the block set is always backed by the drop rule.
THEOREM TableSound == Spec => []ElementsAreDropped
<1>1. IInv => ElementsAreDropped
  BY DEF IInv
<1> QED
  BY <1>1, Invariance, PTL

\* Two decisions against a source are a cooldown apart, however the emitters
\* interleave and however late they run.
THEOREM CooldownSound == Spec => []CooldownRespected
<1>1. IInv => CooldownRespected
  BY DEF IInv
<1> QED
  BY <1>1, Invariance, PTL

-----------------------------------------------------------------------------
(* The end of the process.                                                 *)

\* Without Enforce nothing touches the firewall; behind an orderly Close no
\* goroutine is left that could rebuild the table, which is gone unless its
\* delete failed.
EnforceFirst ==
    nft # {} \/ elements # {} \/ (\E p \in Emitters : pc[p] \in EnsureSteps \cup {"lock", "element"})
        => Enforce
ClosedForGood ==
    phase # "running" /\ orderly =>
        /\ \A p \in Emitters : pc[p] \in {"idle", "gone"}
        /\ ~undeleted => nft = {}

LEMMA EndStep ==
    TypeOK /\ EnforceFirst /\ ClosedForGood /\ [Next]_vars => (EnforceFirst /\ ClosedForGood)'
<1> DEFINE Goal == (EnforceFirst /\ ClosedForGood)'
<1> SUFFICES ASSUME TypeOK, EnforceFirst, ClosedForGood, [Next]_vars PROVE Goal
  OBVIOUS
<1>1. ASSUME NEW p \in Emitters, NEW l \in Steps, pc' = [pc EXCEPT ![p] = l], pc[p] \notin {"idle", "gone"},
             UNCHANGED <<phase, orderly, undeleted>>, nft' # {} => nft # {} \/ Enforce,
             elements' # {} => elements # {} \/ Enforce,
             l \in EnsureSteps \cup {"lock", "element"} => Enforce
      PROVE  Goal
  <2>1. EnforceFirst'
    BY <1>1 DEF EnforceFirst, TypeOK
  <2>2. ~(phase # "running" /\ orderly)
    BY <1>1 DEF ClosedForGood
  <2> QED
    BY <1>1, <2>1, <2>2 DEF ClosedForGood
<1>2. ASSUME NEW p \in Emitters, NEW t \in Types, NEW s \in Sources, Emit(p, t, s) PROVE Goal
  <2>1. /\ pc' = [pc EXCEPT ![p] = "sinks"] /\ UNCHANGED <<nft, elements, phase, orderly, undeleted>>
        /\ orderly => phase = "running"
    BY <1>2 DEF Emit, Goto, kernel
  <2>2. EnforceFirst'
    BY <2>1 DEF EnforceFirst, TypeOK, EnsureSteps
  <2> QED
    BY <2>1, <2>2 DEF ClosedForGood
<1>3. ASSUME NEW p \in Emitters, Write(p) \/ Report(p) PROVE Goal
  <2>1. /\ \E l \in {"idle", "block", "sinks"} : pc' = [pc EXCEPT ![p] = l]
        /\ pc[p] \in {"sinks", "report"} /\ UNCHANGED <<nft, elements, phase, orderly, undeleted>>
    BY <1>3 DEF Write, Report, Goto, kernel
  <2>2. PICK l \in {"idle", "block", "sinks"} : pc' = [pc EXCEPT ![p] = l]
    BY <2>1
  <2>3. l \in Steps /\ l \notin EnsureSteps \cup {"lock", "element"}
    BY DEF Steps, EnsureSteps
  <2> QED
    BY <1>1, <2>1, <2>2, <2>3
<1>4. ASSUME NEW p \in Emitters, Block(p) PROVE Goal
  <2>1. PICK l \in {"idle", "lock", "report"} : pc' = [pc EXCEPT ![p] = l] /\ (l = "lock" => Enforce)
    BY <1>4 DEF Block, Goto
  <2>2. pc[p] = "block" /\ UNCHANGED <<nft, elements, phase, orderly, undeleted>>
    BY <1>4 DEF Block, kernel
  <2>3. l \in Steps /\ (l \in EnsureSteps \cup {"lock", "element"} => Enforce)
    BY <2>1 DEF Steps, EnsureSteps
  <2> QED
    BY <1>1, <2>1, <2>2, <2>3
<1>5. ASSUME NEW p \in Emitters, nftBlock(p) \/ nftFails(p) \/ ensure(p) \/ addElement(p) PROVE Goal
  <2>1. pc[p] \in EnsureSteps \cup {"lock", "element"} /\ UNCHANGED <<phase, orderly, undeleted>>
    BY <1>5 DEF nftBlock, nftFails, ensure, addElement, EnsureSteps
  <2>2. Enforce
    BY <2>1 DEF EnforceFirst
  <2>3. \E l \in Steps : pc' = [pc EXCEPT ![p] = l]
    <3>1. ASSUME ensure(p) PROVE After[pc[p]] \in Steps
      <4>1. pc[p] = "table" \/ pc[p] = "set" \/ pc[p] = "chain" \/ pc[p] = "rule"
        BY <3>1 DEF ensure, EnsureSteps
      <4> QED
        BY <4>1 DEF After, Steps, EnsureSteps
    <3>2. {"report", "element", "table"} \subseteq Steps
      BY DEF Steps, EnsureSteps
    <3>3. CASE nftBlock(p)
      BY <3>2, <3>3 DEF nftBlock, Goto
    <3>4. CASE nftFails(p) \/ addElement(p)
      BY <3>2, <3>4 DEF nftFails, addElement, Goto
    <3>5. CASE ensure(p)
      BY <3>1, <3>5 DEF ensure, Goto
    <3> QED
      BY <1>5, <3>3, <3>4, <3>5
  <2>4. pc[p] \notin {"idle", "gone"}
    BY <2>1 DEF EnsureSteps
  <2> QED
    BY <1>1, <2>1, <2>2, <2>3, <2>4
<1>6. CASE Close
  <2>1. pc' = pc /\ (orderly' => \A p \in Emitters : pc[p] = "idle")
    BY <1>6 DEF Close
  <2>2. (nft' = {} /\ elements' = {}) \/ UNCHANGED kernel
    BY <1>6 DEF Close
  <2>3. EnforceFirst'
    BY <2>1, <2>2 DEF EnforceFirst, kernel
  <2>4. ~undeleted' => nft' = {}
    <3>1. CASE Enforce
      <4>1. CASE nft = {}
        BY <1>6, <3>1, <4>1 DEF Close, kernel
      <4>2. CASE nft # {}
        BY <1>6, <3>1, <4>2 DEF Close
      <4> QED
        BY <4>1, <4>2
    <3>2. CASE ~Enforce
      BY <1>6, <3>2 DEF Close, EnforceFirst, kernel
    <3> QED
      BY <3>1, <3>2
  <2> QED
    BY <2>1, <2>3, <2>4 DEF ClosedForGood
<1>7. CASE CloseGlobal
  BY <1>7 DEF CloseGlobal, EnforceFirst, ClosedForGood, kernel
<1>8. CASE Exit
  <2>1. UNCHANGED <<nft, elements, orderly, undeleted>> /\ pc' = [p \in Emitters |-> "gone"] /\ phase # "running"
    BY <1>8 DEF Exit, kernel
  <2>2. EnforceFirst'
    BY <2>1 DEF EnforceFirst, EnsureSteps
  <2> QED
    BY <2>1, <2>2 DEF ClosedForGood
<1>9. CASE Tick \/ (\E s \in Sources : Expire(s)) \/ UNCHANGED vars
  <2>1. UNCHANGED <<pc, nft, phase, orderly, undeleted>> /\ elements' \subseteq elements
    BY <1>9 DEF Tick, Expire, vars, kernel
  <2> QED
    BY <2>1 DEF EnforceFirst, ClosedForGood
<1> QED
  BY <1>2, <1>3, <1>4, <1>5, <1>6, <1>7, <1>8, <1>9 DEF Next, Goroutine

\* The safety half of EndsOrderly: when the servers were stopped before
\* blocker.Close and its delete did not fail, the process leaves no block table
\* in the kernel.
THEOREM ExitLeavesNoTable == Spec => []NothingLeft
<1>1. Init => EnforceFirst /\ ClosedForGood
  BY DEF Init, EnforceFirst, ClosedForGood, EnsureSteps
<1>2. ClosedForGood => NothingLeft
  BY DEF ClosedForGood, NothingLeft
<1> QED
  BY <1>1, <1>2, EndStep, TypeCorrect, PTL DEF Spec

-----------------------------------------------------------------------------
(* The way from a decision to its report.                                  *)

Carries(p, tr) == pc[p] \in Enforcing \cup {"block"} /\ ev[p].src = tr.src /\ ev[p].time = tr.time

\* A decision that is not reported yet is in somebody's hands, until the bus
\* is closed.
Owed ==
    \A tr \in triggers : tr.src \notin Whitelist /\ ParseIP(tr.src) =>
        \/ Reported(tr) \/ phase \in {"busClosed", "exited"}
        \/ \E p \in Emitters : Carries(p, tr)

LEMMA OwedStep == TypeOK /\ Owed /\ [Next]_vars => Owed'
<1> SUFFICES ASSUME TypeOK, Owed, [Next]_vars PROVE Owed'
  OBVIOUS
<1>0. ASSUME NEW tr PROVE Reported(tr)' <=> [src |-> tr.src, time |-> tr.time] \in reports'
  BY DEF Reported
<1> DEFINE Due(tr) == tr.src \notin Whitelist /\ ParseIP(tr.src)
           Safe(tr) == Reported(tr) \/ phase \in {"busClosed", "exited"} \/ \E p \in Emitters : Carries(p, tr)
           SafeThen(tr) == Reported(tr)' \/ phase' \in {"busClosed", "exited"} \/ \E p \in Emitters : Carries(p, tr)'
<1>1. ASSUME \A tr \in triggers' : Due(tr) => SafeThen(tr) PROVE Owed'
  BY <1>1 DEF Owed, ParseIP
<1>2. \A tr \in triggers : Due(tr) => Safe(tr)
  BY DEF Owed
<1> HIDE DEF Due
\* A goroutine that is not carrying a decision moves, or one that carries it
\* goes on carrying it.
<1>3. ASSUME NEW p \in Emitters, triggers' = triggers, reports \subseteq reports', phase' = phase,
             DOMAIN pc = Emitters, DOMAIN ev = Emitters,
             NEW l, pc' = [pc EXCEPT ![p] = l],
             \A q \in Emitters : q # p => ev'[q] = ev[q],
             pc[p] \in Enforcing \cup {"block"} => l \in Enforcing \cup {"block"} /\ ev'[p] = ev[p]
      PROVE  Owed'
  <2>1. ASSUME NEW tr \in triggers, Due(tr) PROVE SafeThen(tr)
    <3>1. Safe(tr)
      BY <1>2, <2>1
    <3>2. ASSUME NEW q \in Emitters, Carries(q, tr) PROVE Carries(q, tr)'
      BY <1>3, <3>2 DEF Carries
    <3>3. Reported(tr) => Reported(tr)'
      BY <1>3 DEF Reported
    <3> QED
      BY <1>3, <3>1, <3>2, <3>3
  <2> QED
    BY <1>1, <1>3, <2>1
<1>4. DOMAIN pc = Emitters /\ DOMAIN ev = Emitters
  BY DEF TypeOK
<1>5. "sinks" \notin Enforcing \cup {"block"} /\ "idle" \notin Enforcing \cup {"block"}
  BY DEF Enforcing, EnsureSteps
<1>6. ASSUME NEW p \in Emitters, NEW t \in Types, NEW s \in Sources, Emit(p, t, s) PROVE Owed'
  <2>1. /\ triggers' = triggers /\ reports' = reports /\ phase' = phase /\ pc[p] = "idle"
        /\ pc' = [pc EXCEPT ![p] = "sinks"] /\ \A q \in Emitters : q # p => ev'[q] = ev[q]
    BY <1>4, <1>6 DEF Emit, Goto
  <2> QED
    BY <1>3, <1>4, <1>5, <2>1
<1>7. ASSUME NEW p \in Emitters, Write(p) PROVE Owed'
  <2>1. pc[p] = "sinks" /\ ev' = ev /\ reports' = reports /\ phase' = phase
    BY <1>7 DEF Write
  <2>2. CASE triggers' = triggers
    <3>1. \E l : pc' = [pc EXCEPT ![p] = l]
      BY <1>7 DEF Write, Goto
    <3> QED
      BY <1>3, <1>4, <1>5, <2>1, <2>2, <3>1
  <2>3. CASE triggers' # triggers
    <3>1. /\ pc' = [pc EXCEPT ![p] = "block"]
          /\ triggers' = triggers \cup {[src |-> ev[p].src, time |-> ev[p].time, hits |-> Kept(ev[p])]}
      BY <1>7, <2>3 DEF Write, Goto
    <3>2. PICK new : new = [src |-> ev[p].src, time |-> ev[p].time, hits |-> Kept(ev[p])]
      OBVIOUS
    <3>3. Carries(p, new)'
      BY <1>4, <2>1, <3>1, <3>2 DEF Carries
    <3>4. ASSUME NEW tr \in triggers, Due(tr) PROVE SafeThen(tr)
      <4>1. Safe(tr)
        BY <1>2, <3>4
      <4>2. ASSUME NEW q \in Emitters, Carries(q, tr) PROVE Carries(q, tr)'
        BY <1>4, <1>5, <2>1, <3>1, <4>2 DEF Carries
      <4>3. Reported(tr) => Reported(tr)'
        BY <2>1 DEF Reported
      <4> QED
        BY <2>1, <4>1, <4>2, <4>3
    <3> QED
      BY <1>1, <3>1, <3>2, <3>3, <3>4
  <2> QED
    BY <2>2, <2>3
<1>8. ASSUME NEW p \in Emitters, Block(p) PROVE Owed'
  <2>1. /\ pc[p] = "block" /\ ev' = ev /\ UNCHANGED <<triggers, reports, phase>>
        /\ pc' = [pc EXCEPT ![p] = IF ~ParseIP(ev[p].src) \/ whitelisted(ev[p].src) THEN "idle"
                                   ELSE IF Enforce /\ SourceForm[ev[p].src] = "v4" THEN "lock" ELSE "report"]
    BY <1>8 DEF Block, Goto, history
  <2>2. {"lock", "report"} \subseteq Enforcing
    BY DEF Enforcing
  <2>3. ASSUME NEW tr \in triggers, Due(tr) PROVE SafeThen(tr)
    <3>1. Safe(tr)
      BY <1>2, <2>3
    <3>2. ASSUME NEW q \in Emitters, Carries(q, tr) PROVE Carries(q, tr)'
      <4>1. CASE q # p
        BY <1>4, <2>1, <3>2, <4>1 DEF Carries
      <4>2. CASE q = p
        <5>1. ParseIP(ev[p].src) /\ ~whitelisted(ev[p].src)
          BY <2>3, <3>2, <4>2 DEF Carries, Due, whitelisted
        <5>2. pc'[p] \in Enforcing
          BY <1>4, <2>1, <2>2, <5>1
        <5> QED
          BY <2>1, <3>2, <4>2, <5>2 DEF Carries
      <4> QED
        BY <4>1, <4>2
    <3>3. Reported(tr) => Reported(tr)'
      BY <2>1 DEF Reported
    <3> QED
      BY <2>1, <3>1, <3>2, <3>3
  <2> QED
    BY <1>1, <2>1, <2>3
<1>9. ASSUME NEW p \in Emitters, nftBlock(p) \/ nftFails(p) \/ ensure(p) \/ addElement(p) PROVE Owed'
  <2>1. ev' = ev /\ UNCHANGED <<triggers, reports, phase>>
    BY <1>9 DEF nftBlock, nftFails, ensure, addElement, history
  <2>2. \E l \in Enforcing : pc' = [pc EXCEPT ![p] = l]
    <3>1. ASSUME ensure(p) PROVE After[pc[p]] \in Enforcing
      <4>1. pc[p] = "table" \/ pc[p] = "set" \/ pc[p] = "chain" \/ pc[p] = "rule"
        BY <3>1 DEF ensure, EnsureSteps
      <4> QED
        BY <4>1 DEF After, Enforcing, EnsureSteps
    <3>2. {"report", "element", "table"} \subseteq Enforcing
      BY DEF Enforcing, EnsureSteps
    <3>3. CASE nftBlock(p)
      BY <3>2, <3>3 DEF nftBlock, Goto
    <3>4. CASE nftFails(p) \/ addElement(p)
      BY <3>2, <3>4 DEF nftFails, addElement, Goto
    <3>5. CASE ensure(p)
      BY <3>1, <3>5 DEF ensure, Goto
    <3> QED
      BY <1>9, <3>3, <3>4, <3>5
  <2>3. PICK l \in Enforcing : pc' = [pc EXCEPT ![p] = l]
    BY <2>2
  <2> QED
    BY <1>3, <1>4, <2>1, <2>3
<1>10. ASSUME NEW p \in Emitters, Report(p) PROVE Owed'
  <2>1. pc[p] = "report" /\ UNCHANGED <<triggers, phase>>
    BY <1>10 DEF Report
  <2>2. CASE phase \in {"running", "blockerClosed"}
    <3>1. /\ reports' = reports \cup {[src |-> ev[p].src, time |-> ev[p].time]}
          /\ \E l : pc' = [pc EXCEPT ![p] = l]
          /\ \A q \in Emitters : q # p => ev'[q] = ev[q]
      BY <1>4, <1>10, <2>2 DEF Report, Goto
    <3>2. ASSUME NEW tr \in triggers, Due(tr) PROVE SafeThen(tr)
      <4>1. Safe(tr)
        BY <1>2, <3>2
      <4>2. ASSUME NEW q \in Emitters, q # p, Carries(q, tr) PROVE Carries(q, tr)'
        BY <1>4, <3>1, <4>2 DEF Carries
      <4>3. Carries(p, tr) => Reported(tr)'
        BY <3>1 DEF Carries, Reported
      <4>4. Reported(tr) => Reported(tr)'
        BY <3>1 DEF Reported
      <4> QED
        BY <2>1, <4>1, <4>2, <4>3, <4>4
    <3> QED
      BY <1>1, <2>1, <3>2
  <2>3. CASE phase \notin {"running", "blockerClosed"}
    <3>1. phase' \in {"busClosed", "exited"}
      BY <2>1, <2>3 DEF TypeOK
    <3> QED
      BY <1>1, <3>1
  <2> QED
    BY <2>2, <2>3
<1>11. CASE CloseGlobal \/ Exit
  <2>1. phase' \in {"busClosed", "exited"}
    BY <1>11 DEF CloseGlobal, Exit
  <2> QED
    BY <1>1, <2>1
<1>12. CASE Tick \/ Close \/ (\E s \in Sources : Expire(s)) \/ UNCHANGED vars
  <2>1. UNCHANGED <<pc, ev, triggers, reports>> /\ (phase' = phase \/ phase = "running")
    BY <1>12 DEF Tick, Close, Expire, vars, history
  <2>2. \A tr, q : (Carries(q, tr) => Carries(q, tr)') /\ (Reported(tr) => Reported(tr)')
    BY <2>1 DEF Carries, Reported
  <2> QED
    BY <1>1, <1>2, <2>1, <2>2
<1> QED
  BY <1>6, <1>7, <1>8, <1>9, <1>10, <1>11, <1>12 DEF Next, Goroutine

\* The safety half of TriggersReported: no decision against a source that can
\* be blocked is lost on its way to the bus, whatever fails in the firewall;
\* until it is reported some goroutine in Block still has it to report.
THEOREM NoDecisionLost == Spec => []Owed
<1>1. Init => Owed
  BY DEF Init, Owed
<1> QED
  BY <1>1, OwedStep, TypeCorrect, PTL DEF Spec
=============================================================================
