------------------------------ MODULE Lifecycle ------------------------------
(***************************************************************************)
(* "mimic run" on Linux (cmd/mimic/run.go): runMimic builds the nft        *)
(* ruleset (module Ruleset), starts the stack goroutine (eBPF filters on   *)
(* TC) and the services goroutine, waits 500 ms for early errors and then  *)
(* sits in its main loop until an error, a signal, or a control-plane stop *)
(* or restart ends it.  Every way out closes `shutdown`, waits for the two *)
(* goroutines and runs its own list of Stop calls.                         *)
(*                                                                         *)
(* The control server keeps answering until runMimic's deferred Stop, so   *)
(* stop and restart requests arrive at any time, each in a goroutine that  *)
(* sleeps 200 ms and then closes its channel (control_hooks.go).           *)
(***************************************************************************)
EXTENDS Ruleset

CONSTANTS
    HasProfile,     \* a profile is set: the stack goroutine runs
    Services,       \* number of services to start; 0: no services goroutine
    StackFails,     \* the eBPF/TC calls may fail
    ServiceFails,   \* starting a service may fail (other than a bind conflict)
    LateErrors,     \* goroutines may still be starting when the 500 ms are over
    Foreign,        \* clsact hooks whose slot a co-tenant's filter occupies
    Asked,          \* what control clients ask for: "stop", "restart" or both
    MaxRequests     \* bound: stop and restart requests, together

ASSUME LifecycleAssumption ==
    /\ {HasProfile, StackFails, ServiceFails, LateErrors} \subseteq BOOLEAN
    /\ Services \in Nat /\ MaxRequests \in Nat
    /\ Foreign \subseteq {"egress", "ingress"} /\ Asked \subseteq {"restart", "stop"}

VARIABLES
    main,       \* runMimic: where it is
    path,       \* which way out it took
    errs,       \* errors buffered in errChan
    shutdown,   \* the shutdown channel is closed
    stack,      \* the stack goroutine
    tc,         \* hooks that carry a Mimic filter
    svc,        \* the services goroutine
    begun,      \* services it has dealt with
    running,    \* servers that are listening
    requests,   \* control requests accepted, per channel
    timers,     \* of those, goroutines still sleeping before their close()
    chan,       \* restartReq and stopReq: closed?
    signalled,  \* SIGINT/SIGTERM waits in sigChan and main will still read it
    loadFailed, \* history: FingerprintManager.Load returned an error
    stuck       \* history: hooks with a filter that fm.Close failed to delete

lifecycle == <<main, path, errs, shutdown, stack, tc, svc, begun, running,
               requests, timers, chan, signalled, loadFailed, stuck>>
vars == <<ruleset, lifecycle>>

Channels == {"restart", "stop"}
Hooks == {"egress", "ingress"}

\* make(chan error, 2)
\* Mutant: make(chan error, 1).
ErrCapOne == 1
ErrCap == 2

Gone == {"exited", "panicked"}
Alive == main \notin Gone

Init ==
    /\ RulesetInit
    /\ main = "setup" /\ path = "none"
    /\ errs = 0 /\ shutdown = FALSE
    /\ stack = "off" /\ tc = {}
    /\ svc = "off" /\ begun = 0 /\ running = 0
    /\ requests = [c \in Channels |-> 0]
    /\ timers = [c \in Channels |-> 0]
    /\ chan = [c \in Channels |-> FALSE]
    /\ signalled = FALSE /\ loadFailed = FALSE /\ stuck = {}

-----------------------------------------------------------------------------
(* Startup.                                                                *)

SetupStep ==
    /\ main = "setup"
    /\ Command \/ CommandFails
    /\ UNCHANGED lifecycle

\* Both goroutines are started; main sleeps.
Spawn ==
    /\ main = "setup" /\ stage = "up"
    /\ main' = "settle"
    /\ stack' = IF HasProfile THEN "new" ELSE "done"
    /\ svc' = IF Services > 0 THEN "starting" ELSE "done"
    /\ UNCHANGED <<ruleset, path, errs, shutdown, tc, begun, running, requests,
                   timers, chan, signalled, loadFailed, stuck>>

Starting == \/ stack \in {"new", "egress", "ingress", "profile", "enable", "failing"}
            \/ svc \in {"starting", "failing"}

\* The early check takes an error that is there after 500 ms.
Settle ==
    /\ main = "settle"
    /\ ~LateErrors => ~Starting
    /\ IF errs > 0
       THEN main' = "wait" /\ path' = "early" /\ errs' = errs - 1 /\ shutdown' = TRUE /\ signalled' = FALSE
       ELSE main' = "loop" /\ UNCHANGED <<path, errs, shutdown, signalled>>
    /\ UNCHANGED <<ruleset, stack, tc, svc, begun, running, requests, timers, chan, loadFailed, stuck>>

-----------------------------------------------------------------------------
(* The stack goroutine: stack.New, Load (objects, egress filter, ingress   *)
(* filter), SetProfile, Enable, and Close on the way out.                  *)

\* errChan <- err, the last thing a goroutine that fails does; it blocks when
\* the buffer is full.
SendErr == errs < ErrCap /\ errs' = errs + 1

AfterStack == [new |-> "egress", egress |-> "ingress", ingress |-> "profile",
               profile |-> "enable", enable |-> "up"]

StackOk ==
    /\ stack \in DOMAIN AfterStack
    /\ stack \in Hooks => stack \notin Foreign
    /\ tc' = tc \cup ({stack} \cap Hooks)
    /\ stack' = AfterStack[stack]
    /\ UNCHANGED <<ruleset, main, path, errs, shutdown, svc, begun, running,
                   requests, timers, chan, signalled, loadFailed, stuck>>

\* FingerprintManager.Close removes both filters, each with a FilterDel that may
\* fail and whose error nobody looks at; the clsact qdisc stays.
\* Mutant: only the egress filter is removed.
CloseKeepsIngress(failing) == tc \ ({"egress"} \ failing)
FiltersAfterClose(failing) == tc \ (Hooks \ failing)

Close == \E failing \in IF StackFails THEN SUBSET tc ELSE {{}} :
            /\ tc' = FiltersAfterClose(failing)
            /\ stuck' = failing

\* A step fails.  SetProfile and Enable are followed by fm.Close; a failure
\* inside Load closes the eBPF objects but leaves a filter that is attached.
StackErr ==
    /\ stack \in DOMAIN AfterStack
    /\ StackFails \/ (stack \in Hooks /\ stack \in Foreign)
    /\ IF stack \in {"profile", "enable"} THEN Close ELSE UNCHANGED <<tc, stuck>>
    /\ stack' = "failing"
    /\ loadFailed' = (loadFailed \/ stack \in Hooks)
    /\ UNCHANGED <<ruleset, main, path, errs, shutdown, svc, begun, running,
                   requests, timers, chan, signalled>>

StackSend ==
    /\ stack = "failing"
    /\ SendErr
    /\ stack' = "done"
    /\ UNCHANGED <<ruleset, main, path, shutdown, tc, svc, begun, running,
                   requests, timers, chan, signalled, loadFailed, stuck>>

StackClose ==
    /\ stack = "up" /\ shutdown
    /\ Close
    /\ stack' = "done"
    /\ UNCHANGED <<ruleset, main, path, errs, shutdown, svc, begun, running,
                   requests, timers, chan, signalled, loadFailed>>

-----------------------------------------------------------------------------
(* The services goroutine.                                                 *)

\* The next service listens, or is skipped (edition gate or bind conflict).
ServiceOk ==
    /\ svc = "starting" /\ begun < Services
    /\ begun' = begun + 1
    /\ running' \in {running, running + 1}
    /\ svc' = IF begun' = Services THEN "up" ELSE "starting"
    /\ UNCHANGED <<ruleset, main, path, errs, shutdown, stack, tc, requests,
                   timers, chan, signalled, loadFailed, stuck>>

\* Any other error ends the goroutine; what it started keeps running.
ServiceErr ==
    /\ svc = "starting" /\ ServiceFails
    /\ svc' = "failing"
    /\ UNCHANGED <<ruleset, main, path, errs, shutdown, stack, tc, begun, running,
                   requests, timers, chan, signalled, loadFailed, stuck>>

ServiceSend ==
    /\ svc = "failing"
    /\ SendErr
    /\ svc' = "failed"
    /\ UNCHANGED <<ruleset, main, path, shutdown, stack, tc, begun, running,
                   requests, timers, chan, signalled, loadFailed, stuck>>

\* After <-shutdown: StopAll and the honeypots' Stop, one server at a time;
\* each waits for its connections.
\* Mutant: the goroutine leaves its servers to the end of the process.
ServiceLeaves ==
    /\ svc = "up" /\ shutdown
    /\ svc' = "done" /\ UNCHANGED running
    /\ UNCHANGED <<ruleset, main, path, errs, shutdown, stack, tc, begun,
                   requests, timers, chan, signalled, loadFailed, stuck>>
ServiceStop ==
    /\ svc = "up" /\ shutdown
    /\ IF running > 0 THEN running' = running - 1 /\ UNCHANGED svc
                      ELSE svc' = "done" /\ UNCHANGED running
    /\ UNCHANGED <<ruleset, main, path, errs, shutdown, stack, tc, begun,
                   requests, timers, chan, signalled, loadFailed, stuck>>

-----------------------------------------------------------------------------
(* Control plane and signals.                                              *)

\* Once main has left its loop nobody reads sigChan any more.
Signal ==
    /\ main \in {"setup", "settle", "loop"} /\ ~signalled
    /\ signalled' = TRUE
    /\ UNCHANGED <<ruleset, main, path, errs, shutdown, stack, tc, svc, begun,
                   running, requests, timers, chan, loadFailed, stuck>>

\* Hooks.Stop or Hooks.Restart answers OK and leaves the close to a goroutine.
Request(c) ==
    /\ Alive /\ c \in Asked /\ requests["stop"] + requests["restart"] < MaxRequests
    /\ requests' = [requests EXCEPT ![c] = @ + 1]
    /\ timers' = [timers EXCEPT ![c] = @ + 1]
    /\ UNCHANGED <<ruleset, main, path, errs, shutdown, stack, tc, svc, begun,
                   running, chan, signalled, loadFailed, stuck>>

\* The goroutine wakes up and closes the channel; closing a closed channel is
\* a panic, which ends the process without any deferred call of main.
Fire(c) ==
    /\ Alive /\ timers[c] > 0
    /\ timers' = [timers EXCEPT ![c] = @ - 1]
    /\ IF chan[c] THEN main' = "panicked" /\ UNCHANGED chan
                  ELSE chan' = [chan EXCEPT ![c] = TRUE] /\ UNCHANGED main
    /\ UNCHANGED <<ruleset, path, errs, shutdown, stack, tc, svc, begun,
                   running, requests, signalled, loadFailed, stuck>>

-----------------------------------------------------------------------------
(* The main loop and the ways out.                                         *)

\* select: any case that is ready.
Select(p) ==
    /\ main = "loop"
    /\ \/ p = "error" /\ errs > 0
       \/ p = "signal" /\ signalled
       \/ p \in Channels /\ chan[p]
    /\ errs' = IF p = "error" THEN errs - 1 ELSE errs
    /\ main' = "wait" /\ path' = p /\ shutdown' = TRUE /\ signalled' = FALSE
    /\ UNCHANGED <<ruleset, stack, tc, svc, begun, running, requests, timers, chan, loadFailed, stuck>>

\* wg.Wait()
\* Mutant: the services goroutine is not in the WaitGroup.
WaitForStack ==
    /\ main = "wait" /\ stack = "done"
    /\ main' = "closed"
    /\ UNCHANGED <<ruleset, path, errs, shutdown, stack, tc, svc, begun,
                   running, requests, timers, chan, signalled, loadFailed, stuck>>
Wait ==
    /\ main = "wait" /\ stack = "done" /\ svc \in {"done", "failed"}
    /\ main' = "closed"
    /\ UNCHANGED <<ruleset, path, errs, shutdown, stack, tc, svc, begun,
                   running, requests, timers, chan, signalled, loadFailed, stuck>>

\* closedMgr.StopAll, probeMgr.Stop, fwMgr.Stop: the error case of the main
\* loop is the one that has no fwMgr.Stop.
AfterStop == [closed |-> "probe", probe |-> "fw", fw |-> "exited"]
StopsFirewall == path # "error"

Teardown ==
    /\ main \in DOMAIN AfterStop
    /\ IF main = "fw" /\ ~StopsFirewall THEN UNCHANGED ruleset ELSE StopManager(main)
    /\ main' = AfterStop[main]
    /\ UNCHANGED <<path, errs, shutdown, stack, tc, svc, begun, running,
                   requests, timers, chan, signalled, loadFailed, stuck>>

\* teardownStack, run by somebody else: nft tables and filters by name, of
\* which those stay whose delete fails.
MimicStop ==
    /\ OperatorStop
    /\ tc' \in IF StackFails THEN SUBSET tc ELSE {{}}
    /\ stuck' = stuck \cap tc'
    /\ UNCHANGED <<main, path, errs, shutdown, stack, svc, begun, running,
                   requests, timers, chan, signalled, loadFailed>>

-----------------------------------------------------------------------------
Main == SetupStep \/ Spawn \/ Settle \/ Wait \/ Teardown
        \/ \E p \in Channels \cup {"error", "signal"} : Select(p)
Stack == Alive /\ (StackOk \/ StackErr \/ StackSend \/ StackClose)
Service == Alive /\ (ServiceOk \/ ServiceErr \/ ServiceSend \/ ServiceStop)

Next ==
    \/ Main \/ Stack \/ Service
    \/ Signal \/ MimicStop
    \/ \E c \in Channels : Request(c) \/ Fire(c)

\* Goroutines run, nft and netlink return, connections of a stopped server end.
Fairness ==
    /\ WF_vars(Main) /\ WF_vars(Stack) /\ WF_vars(Service)
    /\ \A c \in Channels : WF_vars(Fire(c))

Spec == Init /\ [][Next]_vars /\ Fairness
-----------------------------------------------------------------------------
LifecycleTypeOK ==
    /\ main \in {"setup", "settle", "loop", "wait"} \cup DOMAIN AfterStop \cup Gone
    /\ path \in {"none", "early", "error", "signal"} \cup Channels
    /\ errs \in 0 .. ErrCap
    /\ {shutdown, signalled} \subseteq BOOLEAN
    /\ stack \in {"off", "up", "failing", "done"} \cup DOMAIN AfterStack
    /\ tc \subseteq Hooks
    /\ svc \in {"off", "starting", "up", "done", "failing", "failed"}
    /\ begun \in 0 .. Services /\ running \in 0 .. begun
    /\ requests \in [Channels -> 0 .. MaxRequests]
    /\ timers \in [Channels -> 0 .. MaxRequests]
    /\ chan \in [Channels -> BOOLEAN] /\ loadFailed \in BOOLEAN
    /\ stuck \subseteq Hooks

\* Types of the state; errChan never holds more than its capacity.
TypeOK == RulesetTypeOK /\ LifecycleTypeOK

\* When runMimic returns, nothing of Mimic is left in the packet path of the
\* host: no rule, and no filter.  Excepted are the error case of the main loop
\* (it has no fwMgr.Stop), a default-drop that failed half way (its manager is
\* forgotten, or replaced by one that Stop takes for inactive), a Load that
\* failed behind its first filter, and what the kernel refused to delete: the
\* table when the last manager that tried to delete it failed (a delete that
\* failed is made good by the next one), and a filter whose own FilterDel
\* failed, but not the other filter.  So it is whatever else fails, whichever
\* way out is taken, and also if "mimic stop" cuts in.
CleanExit ==
    main = "exited" =>
        /\ path # "error" /\ ~dropFailed /\ ~undeleted => rules = <<>>
        /\ ~loadFailed => tc \subseteq stuck

\* Orphaned rules come only from an "unclean exit": a return of runMimic leaves
\* none (comment on the cleaning at startup).
NothingLeft == main = "exited" => rules = <<>>

\* The ruleset goes last: when the Stop calls begin (wg.Wait comes before
\* them) no goroutine of the stack or the services is left to add filters or
\* listeners, and no server listens unless the goroutine that owned it failed.
ServersStopFirst ==
    main \in DOMAIN AfterStop \cup {"exited"} =>
        /\ stack = "done" /\ svc \in {"done", "failed"}
        /\ svc = "done" => running = 0

\* A control client's stop or restart never crashes the process ("graceful
\* stop").
NoPanic == main # "panicked"

\* Whatever asks for the end, it comes: no goroutine is stuck on errChan while
\* main waits for it.
ShutdownCompletes ==
    (signalled \/ chan["stop"] \/ chan["restart"] \/ errs > 0) ~> main \in Gone

\* Of the services goroutine this module uses only what ServiceGroup promises,
\* whatever else happens to the process; module Servers keeps the same contract
\* with the real servers, so what is shown here holds with them in place.
Group == INSTANCE ServiceGroup
KeepsContract == Group!Spec
=============================================================================
