---------------------------- MODULE ServiceGroup ----------------------------
(***************************************************************************)
(* What the services goroutine of "mimic run" promises to runMimic,        *)
(* whatever the servers are: it starts servers one by one, it ends early   *)
(* only with an error, and after `shutdown` it stops every server before   *)
(* it is done.  Module Lifecycle builds on this contract with anonymous    *)
(* servers; module Servers implements it with ports, accept loops and      *)
(* connections.                                                            *)
(***************************************************************************)
EXTENDS Naturals

VARIABLES
    svc,        \* the goroutine: off, starting, up, done, or failing, failed
    running,    \* servers that have been started and not stopped
    shutdown    \* the shutdown channel is closed

group == <<svc, running, shutdown>>

Init == svc = "off" /\ running = 0 /\ shutdown = FALSE

\* The goroutine exists only if there is something to start.
Spawn ==
    /\ svc = "off" /\ svc' \in {"starting", "done"}
    /\ UNCHANGED <<running, shutdown>>

\* A service is started or skipped; after the last one the goroutine waits.
Start ==
    /\ svc = "starting" /\ svc' \in {"starting", "up"}
    /\ running' \in {running, running + 1}
    /\ UNCHANGED shutdown

\* An error ends the goroutine; what runs keeps running.
Fail ==
    /\ svc = "starting" /\ svc' = "failing"
    /\ UNCHANGED <<running, shutdown>>

Send ==
    /\ svc = "failing" /\ svc' = "failed"
    /\ UNCHANGED <<running, shutdown>>

\* main closes the channel, whatever the goroutine is doing.
Shutdown ==
    /\ ~shutdown /\ shutdown' = TRUE
    /\ UNCHANGED <<svc, running>>

StopOne ==
    /\ svc = "up" /\ shutdown /\ running > 0
    /\ running' = running - 1
    /\ UNCHANGED <<svc, shutdown>>

Done ==
    /\ svc = "up" /\ shutdown /\ running = 0
    /\ svc' = "done"
    /\ UNCHANGED <<running, shutdown>>

Next == Spawn \/ Start \/ Fail \/ Send \/ Shutdown \/ StopOne \/ Done

Spec == Init /\ [][Next]_group
=============================================================================
