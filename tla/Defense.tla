------------------------------- MODULE Defense -------------------------------
(***************************************************************************)
(* Abuse detection and active response (internal/defense), fed by the      *)
(* event bus (internal/events) and wired up in cmd/mimic/run.go.           *)
(*                                                                         *)
(* Every honeypot connection runs in a goroutine of its own and calls      *)
(* events.Emit, which stamps the event and hands it synchronously to each  *)
(* sink; the detector is the last sink.  Detector.Write scores the source  *)
(* under Detector.mu, and when the score crosses the threshold it calls    *)
(* Blocker.Block AFTER releasing the lock, in the same goroutine.  Block   *)
(* runs nft commands one by one under Blocker.mu and then emits an event   *)
(* of its own through the same bus.  Meanwhile runMimic may return and run *)
(* its deferred blocker.Close and events.CloseGlobal.                      *)
(*                                                                         *)
(* Between the stamp and Detector.Write an event passes the other sinks    *)
(* (see EventBus): goroutines overtake each other there, so the detector   *)
(* sees time stamps out of order.                                          *)
(***************************************************************************)
EXTENDS Integers, FiniteSets, FiniteSetsExt

CONSTANTS
    Emitters,      \* honeypot goroutines that emit events
    Sources,       \* remote addresses, as the honeypots report them
    SourceForm,    \* how net.ParseIP reads each of them
    Whitelist,     \* sources inside defense.whitelist
    Types,         \* the event types the honeypots emit in this instance
    Window, Cooldown, Threshold, Enforce,   \* defense.Config after withDefaults
    MaxTime, MaxEvents                      \* bounds of the instance

\* Forms of a source: an IPv4 or IPv6 literal, or an IPv6 literal with a zone
\* (a link-local peer), which net.ParseIP refuses.
Forms == {"v4", "v6", "zoned"}

\* events.Type, without the ones no honeypot emits.
AllTypes == {"auth_attempt", "cred_capture", "maze_descent", "file_download",
             "enumeration", "connection", "auth_success", "probe"}

ASSUME DefenseAssumption ==
    /\ SourceForm \in [Sources -> Forms]
    /\ Sources # {} /\ Whitelist \subseteq Sources
    /\ Types \subseteq AllTypes
    /\ Window \in Nat \ {0} /\ Cooldown \in Nat /\ Threshold \in Int
    /\ Enforce \in BOOLEAN
    /\ MaxTime \in Nat /\ MaxEvents \in Nat

VARIABLES
    clock,      \* time.Now()
    pc,         \* per emitter: where it is between Emit and its return
    ev,         \* per emitter: the event it carries
    hits,       \* Detector.src[s].hits, as the set of events that scored
    lastBlock,  \* Detector.src[s].lastBlock
    mu,         \* holder of Blocker.mu, as a set: empty when it is free
    ensured,    \* Blocker.ensured
    nft,        \* objects of table inet mimic_block present in the kernel
    elements,   \* elements of the set mimic_block/blocked
    phase,      \* how far runMimic's return has come
    orderly,    \* FALSE when Close ran with servers that still listen
    undeleted,  \* history: the delete of Close failed with a table there
    emitted,    \* history: every event a honeypot emitted
    triggers,   \* history: every decision to block
    reports     \* history: every Block event put on the bus

vars == <<clock, pc, ev, hits, lastBlock, mu, ensured, nft, elements, phase,
          orderly, undeleted, emitted, triggers, reports>>
detector == <<hits, lastBlock>>
kernel   == <<nft, elements>>
history  == <<emitted, triggers, reports>>

\* The zero time.Time: time.Sub saturates, so it is further back than any
\* cooldown reaches.
Never == -(Cooldown + 1)

Event == [id : 0 .. MaxEvents, type : AllTypes \cup {"block"},
          src : Sources, time : 0 .. MaxTime]

\* What an emitter that has emitted nothing yet carries.
NoEvent == [id |-> 0, type |-> "block", src |-> CHOOSE s \in Sources : TRUE,
            time |-> 0]

\* The four nft commands of Blocker.ensure, in order, then the element.
EnsureSteps == {"table", "set", "chain", "rule"}
Steps == {"idle", "sinks", "block", "lock", "element", "report", "gone"}
           \cup EnsureSteps

-----------------------------------------------------------------------------
(* The detector.                                                           *)

weight(t) ==
    CASE t = "auth_attempt" -> 3
      [] t \in {"cred_capture", "maze_descent", "file_download"} -> 2
      [] t \in {"enumeration", "connection", "auth_success"} -> 1
      [] OTHER -> 0

WeightOf(e) == weight(e.type)
Score(H) == MapThenSumSet(WeightOf, H)

\* Detector.Write looks at the event at all.
Scored(e) == e.type # "block" /\ weight(e.type) # 0

\* The hits that survive the pruning loop, with the new one appended.
\* Mutants: no pruning; the hit is stamped with the cutoff.
Unpruned(e) == hits[e.src] \cup {e}
StampedCutoff(e) == {h \in hits[e.src] : h.time > e.time - Window} \cup
                      {[e EXCEPT !.time = e.time - Window]}
Kept(e) == {h \in hits[e.src] : h.time > e.time - Window} \cup {e}

\* Mutant: no cooldown.
NoCooldown(e) == Score(Kept(e)) >= Threshold
Trigger(e) == /\ Score(Kept(e)) >= Threshold
              /\ e.time - lastBlock[e.src] > Cooldown

-----------------------------------------------------------------------------
(* The blocker.                                                            *)

\* Mutant: the whitelist is not consulted.
NeverWhitelisted(s) == FALSE
whitelisted(s) == s \in Whitelist
ParseIP(s) == SourceForm[s] # "zoned"

\* Objects an nft command needs; the command fails without them.
Needs == [table |-> {}, set |-> {"table"}, chain |-> {"table"},
          rule |-> {"table", "set", "chain"}, element |-> {"table", "set"}]

\* ensured is set once ensure has returned without error.
\* Mutant: set after the first command.
EnsuredAtOnce(cmd) == TRUE
EnsuredAfter(cmd) == cmd = "rule"

After == [table |-> "set", set |-> "chain", chain |-> "rule", rule |-> "element"]

-----------------------------------------------------------------------------
Init ==
    /\ clock = 0
    /\ pc = [p \in Emitters |-> "idle"]
    /\ ev = [p \in Emitters |-> NoEvent]
    /\ hits = [s \in Sources |-> {}]
    /\ lastBlock = [s \in Sources |-> Never]
    /\ mu = {}
    /\ ensured = FALSE
    /\ nft = {} /\ elements = {}
    /\ phase = "running"
    /\ orderly = TRUE /\ undeleted = FALSE
    /\ emitted = {} /\ triggers = {} /\ reports = {}

\* The bound on events bounds the time too: no stamp taken after the last of
\* them is scored.
Tick ==
    /\ clock < MaxTime /\ Cardinality(emitted) < MaxEvents
    /\ clock' = clock + 1
    /\ UNCHANGED <<pc, ev, detector, mu, ensured, kernel, phase, history, orderly, undeleted>>

Goto(p, l) == pc' = [pc EXCEPT ![p] = l]

\* A honeypot observes something and calls events.Emit.  Once CloseGlobal has
\* cleared the global bus the call does nothing; a stopped server has no
\* goroutine left to make it.
Emit(p, t, s) ==
    /\ pc[p] = "idle"
    /\ phase \in {"running", "blockerClosed"}
    /\ orderly => phase = "running"
    /\ Cardinality(emitted) < MaxEvents
    /\ LET e == [id |-> Cardinality(emitted) + 1, type |-> t, src |-> s, time |-> clock]
       IN  /\ ev' = [ev EXCEPT ![p] = e]
           /\ emitted' = emitted \cup {e}
    /\ Goto(p, "sinks")
    /\ UNCHANGED <<clock, detector, mu, ensured, kernel, phase, triggers, reports, orderly, undeleted>>

\* Detector.Write: the critical section under Detector.mu is one step.
Write(p) ==
    /\ pc[p] = "sinks"
    /\ LET e == ev[p] IN
         \/ /\ ~Scored(e)
            /\ Goto(p, "idle")
            /\ UNCHANGED <<detector, triggers>>
         \/ /\ Scored(e)
            /\ hits' = [hits EXCEPT ![e.src] = Kept(e)]
            /\ IF Trigger(e)
               THEN /\ lastBlock' = [lastBlock EXCEPT ![e.src] = e.time]
                    /\ triggers' = triggers \cup
                         {[src |-> e.src, time |-> e.time, hits |-> Kept(e)]}
                    /\ Goto(p, "block")
               ELSE /\ Goto(p, "idle")
                    /\ UNCHANGED <<lastBlock, triggers>>
    /\ UNCHANGED <<clock, ev, mu, ensured, kernel, phase, emitted, reports, orderly, undeleted>>

\* Blocker.Block up to the firewall: an address that does not parse and a
\* whitelisted one return; IPv6 is refused by nftBlock before it locks.
Block(p) ==
    /\ pc[p] = "block"
    /\ LET s == ev[p].src IN
         Goto(p, IF ~ParseIP(s) \/ whitelisted(s) THEN "idle"
                 ELSE IF Enforce /\ SourceForm[s] = "v4" THEN "lock"
                 ELSE "report")
    /\ UNCHANGED <<clock, ev, detector, mu, ensured, kernel, phase, history, orderly, undeleted>>

\* nftBlock takes Blocker.mu and runs ensure first if no call has finished it.
nftBlock(p) ==
    /\ pc[p] = "lock"
    /\ mu = {}
    /\ mu' = {p}
    /\ Goto(p, IF ensured THEN "element" ELSE "table")
    /\ UNCHANGED <<clock, ev, detector, ensured, kernel, phase, history, orderly, undeleted>>

\* An nft command of nftBlock or ensure fails (it may for any reason): the
\* error is returned, Blocker.mu released, and the event says "not enforced".
\* Mutants: the lock is kept; no event.
FailsLocked(p) ==
    /\ pc[p] \in EnsureSteps \cup {"element"}
    /\ Goto(p, "report")
    /\ UNCHANGED <<clock, ev, detector, mu, ensured, kernel, phase, history, orderly, undeleted>>
FailsSilently(p) ==
    /\ pc[p] \in EnsureSteps \cup {"element"}
    /\ mu' = {}
    /\ Goto(p, "idle")
    /\ UNCHANGED <<clock, ev, detector, ensured, kernel, phase, history, orderly, undeleted>>
nftFails(p) ==
    /\ pc[p] \in EnsureSteps \cup {"element"}
    /\ mu' = {}
    /\ Goto(p, "report")
    /\ UNCHANGED <<clock, ev, detector, ensured, kernel, phase, history, orderly, undeleted>>

\* One command of ensure succeeds.
ensure(p) ==
    /\ pc[p] \in EnsureSteps
    /\ Needs[pc[p]] \subseteq nft
    /\ nft' = nft \cup {pc[p]}
    /\ ensured' = (ensured \/ EnsuredAfter(pc[p]))
    /\ Goto(p, After[pc[p]])
    /\ UNCHANGED <<clock, ev, detector, mu, elements, phase, history, orderly, undeleted>>

\* "nft add element" succeeds and nftBlock returns nil.
addElement(p) ==
    /\ pc[p] = "element"
    /\ Needs["element"] \subseteq nft
    /\ elements' = elements \cup {ev[p].src}
    /\ mu' = {}
    /\ Goto(p, "report")
    /\ UNCHANGED <<clock, ev, detector, ensured, nft, phase, history, orderly, undeleted>>

\* Block emits its event (nothing happens once the global bus is gone); the
\* event travels through the sinks like any other and reaches the detector.
Report(p) ==
    /\ pc[p] = "report"
    /\ IF phase \in {"running", "blockerClosed"}
       THEN /\ reports' = reports \cup {[src |-> ev[p].src, time |-> ev[p].time]}
            /\ ev' = [ev EXCEPT ![p] = [id |-> 0, type |-> "block",
                                        src |-> ev[p].src, time |-> clock]]
            /\ Goto(p, "sinks")
       ELSE /\ Goto(p, "idle")
            /\ UNCHANGED <<ev, reports>>
    /\ UNCHANGED <<clock, detector, mu, ensured, kernel, phase, emitted, triggers, orderly, undeleted>>

-----------------------------------------------------------------------------
(* The kernel expires elements; runMimic's deferred calls.                 *)

Expire(s) ==
    /\ s \in elements
    /\ elements' = elements \ {s}
    /\ UNCHANGED <<clock, pc, ev, detector, mu, ensured, nft, phase, history, orderly, undeleted>>

\* blocker.Close takes no lock and leaves ensured alone; it discards the error
\* of its one nft command, which may fail like any other.  It comes after the
\* servers' Stop, unless the services goroutine failed (see Lifecycle): then
\* they go on emitting.
Close ==
    /\ phase = "running"
    /\ orderly' \in BOOLEAN /\ (orderly' => \A p \in Emitters : pc[p] = "idle")
    /\ phase' = "blockerClosed"
    /\ \/ Enforce /\ nft' = {} /\ elements' = {} /\ undeleted' = FALSE
       \/ Enforce /\ undeleted' = (nft # {}) /\ UNCHANGED kernel
       \/ ~Enforce /\ UNCHANGED <<kernel, undeleted>>
    /\ UNCHANGED <<clock, pc, ev, detector, mu, ensured, history>>

\* events.CloseGlobal, the next deferred call.
CloseGlobal ==
    /\ phase = "blockerClosed"
    /\ phase' = "busClosed"
    /\ UNCHANGED <<clock, pc, ev, detector, mu, ensured, kernel, history, orderly, undeleted>>

\* The process exits and its goroutines with it; the kernel keeps its tables.
Exit ==
    /\ phase = "busClosed"
    /\ phase' = "exited"
    /\ pc' = [p \in Emitters |-> "gone"]
    /\ UNCHANGED <<clock, ev, detector, mu, ensured, kernel, history, orderly, undeleted>>

-----------------------------------------------------------------------------
Goroutine(p) == \/ Write(p) \/ Block(p) \/ nftBlock(p) \/ nftFails(p)
                \/ ensure(p) \/ addElement(p) \/ Report(p)

Next ==
    \/ Tick
    \/ \E p \in Emitters : \/ \E t \in Types, s \in Sources : Emit(p, t, s)
                           \/ Goroutine(p)
    \/ \E s \in Sources : Expire(s)
    \/ Close \/ CloseGlobal \/ Exit

\* A goroutine that can run is scheduled eventually, and nft returns.
Fairness == \A p \in Emitters : WF_vars(Goroutine(p))

Spec == Init /\ [][Next]_vars /\ Fairness
-----------------------------------------------------------------------------
\* Types of the state; the history variables included.
TypeOK ==
    /\ clock \in 0 .. MaxTime
    /\ pc \in [Emitters -> Steps]
    /\ ev \in [Emitters -> Event]
    /\ hits \in [Sources -> SUBSET Event]
    /\ lastBlock \in [Sources -> {Never} \cup (0 .. MaxTime)]
    /\ mu \subseteq Emitters
    /\ ensured \in BOOLEAN
    /\ nft \subseteq EnsureSteps
    /\ elements \subseteq Sources
    /\ phase \in {"running", "blockerClosed", "busClosed", "exited"}
    /\ orderly \in BOOLEAN /\ undeleted \in BOOLEAN
    /\ emitted \subseteq Event /\ IsFiniteSet(emitted)
    /\ triggers \subseteq [src : Sources, time : 0 .. MaxTime, hits : SUBSET Event]
    /\ reports \subseteq [src : Sources, time : 0 .. MaxTime]

\* Every decision to block rests on events that source itself emitted, none of
\* them a Block event (no feedback), all newer than the window before the
\* event that tripped it, and worth the threshold together -- whatever order
\* the goroutines reach the detector in (Detector.Write).
TriggersJustified ==
    \A tr \in triggers :
        /\ Score(tr.hits) >= Threshold
        /\ tr.hits \subseteq emitted
        /\ \A h \in tr.hits : h.src = tr.src /\ h.time > tr.time - Window

\* Two decisions against one source are more than a cooldown apart, even when
\* the event that trips the second carries the older time stamp.
CooldownRespected ==
    \A a, b \in triggers :
        a.src = b.src /\ a # b =>
            a.time - b.time > Cooldown \/ b.time - a.time > Cooldown

\* What reaches the firewall or the SIEM was decided by the detector, and is
\* never a whitelisted source, although the whitelist is consulted long after
\* the decision (Blocker.Block).
BlocksAreDecided ==
    /\ \A s \in elements : s \notin Whitelist /\ \E tr \in triggers : tr.src = s
    /\ \A r \in reports : r.src \notin Whitelist /\
                          \E tr \in triggers : tr.src = r.src /\ tr.time = r.time

\* An element in the set is dropped by a rule: nftBlock never reports an
\* enforced block over a half-built table, whichever nft command failed and
\* wherever Close came between two of them.
ElementsAreDropped == elements # {} => nft = EnsureSteps

\* A decision against a source that is not whitelisted is always reported
\* (Blocker.Block: "A block event is always emitted") while the bus is up,
\* unless net.ParseIP refuses the address.
Reported(tr) == [src |-> tr.src, time |-> tr.time] \in reports
Pending(s) == \E tr \in triggers : tr.src = s /\ ~Reported(tr)
TriggersReported ==
    \A s \in {x \in Sources \ Whitelist : ParseIP(x)} :
        Pending(s) ~> (phase \in {"busClosed", "exited"} \/ ~Pending(s))

\* Behind a Close that every server was stopped for and whose delete did not
\* fail, no part of the block table is left when the process has exited
\* (Blocker.Close).
NothingLeft == phase = "exited" /\ orderly /\ ~undeleted => nft = {}

\* Everybody gets home: Emit returns to the honeypot, because the nested
\* emission of the Block event does not chase its own tail and nobody waits for
\* Blocker.mu for ever; and nothing of the block table outlives the process
\* (Blocker.Close: "removes the block table"), if every server was stopped
\* before Close (a goroutine that is still blocking a source rebuilds it) and
\* the delete succeeded (Close tries once and discards the error).
EndsOrderly ==
    /\ []NothingLeft
    /\ \A p \in Emitters : pc[p] # "idle" ~> pc[p] \in {"idle", "gone"}
=============================================================================
