------------------------------- MODULE Restart -------------------------------
(***************************************************************************)
(* services.restart on Linux: ScheduleRestart spawns a detached            *)
(* "mimic restart-pending" helper, which polls until the old process is    *)
(* gone -- or 30 s have passed -- and then starts a new one, directly or   *)
(* through systemctl.  Instances share what the host has only once: the    *)
(* control socket's path, the nft table, the TC filter slot and the ports. *)
(*                                                                         *)
(* Startup takes them in the order of runMimic: the socket (removing what  *)
(* is at the path), teardownStack, the nft rules, the filter, the ports.   *)
(* On the way out the filter goes while the servers are stopped one after  *)
(* the other, then the table, then the socket.  Module Lifecycle has the   *)
(* inside of one instance; here each of these is one step.                 *)
(***************************************************************************)
EXTENDS Naturals, FiniteSets

CONSTANTS
    Ports,         \* number of services, stopped in the order 1 .. Ports
    SlowStop,      \* a server's connections may keep it busy for over 30 s
    MaxRequests,   \* bound: restart requests
    MaxKills       \* bound: SIGKILLs

ASSUME RestartAssumption ==
    /\ Ports \in Nat /\ MaxRequests \in Nat /\ MaxKills \in Nat
    /\ SlowStop \in BOOLEAN

\* Instance 1 runs at the start; each helper starts at most one more.
Inst == 1 .. (MaxRequests + 1)
Helpers == 1 .. MaxRequests
None == 0

VARIABLES
    service,   \* Mimic runs as a systemd unit
    complete,  \* the configuration file names interface and profile
    inst,      \* per instance: where it is
    served,    \* per instance: how many servers it started or has yet to stop
    holds,     \* per instance: fm.filter is set
    helper,    \* per restart request: its helper
    socket,    \* the instance whose control socket the path names
    rules,     \* the instances whose rules are in the nft table
    filter,    \* the instance whose filter is in the slot
    port,      \* per port: the instance that listens
    unit,      \* the systemd unit; "queued": being cleaned up, with a start job
    kills,     \* how often an instance was killed
    impatient  \* history: a helper went on while its parent was alive

setting == <<service, complete>>
host == <<socket, rules, filter, port>>
vars == <<setting, inst, served, holds, helper, host, unit, kills, impatient>>

Starting == {"listen", "clean", "rules", "filter", "ports"}
Stopping == {"drain", "delTable", "delSocket"}
Live(i) == inst[i] \in Starting \cup Stopping \cup {"up"}

Init ==
    /\ service \in BOOLEAN /\ complete \in BOOLEAN
    /\ inst = [i \in Inst |-> IF i = 1 THEN "up" ELSE "none"]
    /\ served = [i \in Inst |-> IF i = 1 THEN Ports ELSE 0]
    /\ holds = [i \in Inst |-> i = 1]
    /\ helper = [h \in Helpers |-> "none"]
    /\ socket = 1 /\ rules = {1} /\ filter = 1
    /\ port = [k \in 1 .. Ports |-> 1]
    /\ unit = IF service THEN "active" ELSE "inactive"
    /\ kills = 0 /\ impatient = FALSE

Goto(i, l) == inst' = [inst EXCEPT ![i] = l]

-----------------------------------------------------------------------------
(* Startup.                                                                *)

\* listen() removes whatever is at the path and binds.  The configuration has
\* been read before: the helper passes on the -c flag and nothing else of the
\* old command line, so without a complete file the new process ends here.
\* Mutant: bind without os.Remove; the control plane is skipped.
ListenOnly(i) ==
    /\ inst[i] = "listen"
    /\ IF complete
       THEN Goto(i, "clean") /\ socket' = IF socket = None THEN i ELSE socket
       ELSE Goto(i, "gone") /\ UNCHANGED socket
    /\ UNCHANGED <<served, holds, helper, rules, filter, port, unit, kills, setting, impatient>>
Listen(i) ==
    /\ inst[i] = "listen"
    /\ IF complete THEN Goto(i, "clean") /\ socket' = i
                       ELSE Goto(i, "gone") /\ UNCHANGED socket
    /\ UNCHANGED <<served, holds, helper, rules, filter, port, unit, kills, setting, impatient>>

\* teardownStack: tables and filters by name, whoever they belong to.
\* Mutant: stale state is not cleaned.
NoClean(i) ==
    /\ inst[i] = "clean"
    /\ Goto(i, "rules")
    /\ UNCHANGED <<served, holds, helper, host, unit, kills, setting, impatient>>
Clean(i) ==
    /\ inst[i] = "clean"
    /\ rules' = {} /\ filter' = None
    /\ Goto(i, "rules")
    /\ UNCHANGED <<served, holds, helper, socket, port, unit, kills, setting, impatient>>

AddRules(i) ==
    /\ inst[i] = "rules"
    /\ rules' = rules \cup {i}
    /\ Goto(i, "filter")
    /\ UNCHANGED <<served, holds, helper, socket, filter, port, unit, kills, setting, impatient>>

\* FilterAdd; a slot that is taken is an error, which ends the instance.
Attach(i) ==
    /\ inst[i] = "filter"
    /\ IF filter = None
       THEN /\ filter' = i
            /\ holds' = [holds EXCEPT ![i] = TRUE]
            /\ Goto(i, "ports")
       ELSE Goto(i, "drain") /\ UNCHANGED <<filter, holds>>
    /\ UNCHANGED <<served, helper, socket, rules, port, unit, kills, setting, impatient>>

\* The servers start; skipBindConflict passes over a port that is taken.
Serve(i) ==
    /\ inst[i] = "ports"
    /\ port' = [k \in DOMAIN port |-> IF port[k] = None THEN i ELSE port[k]]
    /\ served' = [served EXCEPT ![i] = Ports]
    /\ Goto(i, "up")
    /\ UNCHANGED <<holds, helper, socket, rules, filter, unit, kills, setting, impatient>>

-----------------------------------------------------------------------------
(* The request and the way out.                                            *)

\* Hooks.Restart: one helper per request.  (A second request also closes a
\* closed channel; that is module Lifecycle's subject.)
Request ==
    /\ inst[1] \in Stopping \cup {"up"}
    /\ \E h \in Helpers :
         /\ helper[h] = "none"
         /\ \A g \in 1 .. (h - 1) : helper[g] # "none"
         /\ helper' = [helper EXCEPT ![h] = "wait"]
    /\ IF inst[1] = "up" THEN Goto(1, "drain") ELSE UNCHANGED inst
    /\ UNCHANGED <<served, holds, host, unit, kills, setting, impatient>>

\* fm.Close: FilterDel names a slot, not a program.
CloseFilter(i) ==
    /\ inst[i] = "drain" /\ holds[i]
    /\ holds' = [holds EXCEPT ![i] = FALSE]
    /\ filter' = None
    /\ UNCHANGED <<inst, served, helper, socket, rules, port, unit, kills, setting, impatient>>

\* Stop of the next server: its listener closes (the port may never have been
\* this instance's) and then it waits for its connections; the wait is over
\* when this is possible again for the next one.
StopServer(i) ==
    /\ inst[i] = "drain" /\ served[i] > 0
    /\ served' = [served EXCEPT ![i] = @ - 1]
    /\ LET k == Ports - served[i] + 1 IN
       port' = IF port[k] = i THEN [port EXCEPT ![k] = None] ELSE port
    /\ UNCHANGED <<inst, holds, helper, socket, rules, filter, unit, kills, setting, impatient>>

\* wg.Wait
Drained(i) ==
    /\ inst[i] = "drain" /\ served[i] = 0 /\ ~holds[i]
    /\ Goto(i, "delTable")
    /\ UNCHANGED <<served, holds, helper, host, unit, kills, setting, impatient>>

\* closedMgr, probeMgr, fwMgr: the whole table goes.
DeleteTable(i) ==
    /\ inst[i] = "delTable"
    /\ rules' = {}
    /\ Goto(i, "delSocket")
    /\ UNCHANGED <<served, holds, helper, socket, filter, port, unit, kills, setting, impatient>>

\* The main process is gone: systemd has the unit to clean up, and to start it
\* again if it did not exit by itself (Restart=on-failure).
UnitAfterExit == IF service THEN "cleanup" ELSE unit
UnitAfterKill == IF service THEN "queued" ELSE unit

\* cleanupSocket removes the path; then the process exits.
Exit(i) ==
    /\ inst[i] = "delSocket"
    /\ socket' = None
    /\ Goto(i, "gone")
    /\ unit' = UnitAfterExit
    /\ UNCHANGED <<served, holds, helper, rules, filter, port, kills, setting, impatient>>

\* SIGKILL on the old instance: the kernel closes its ports; path, table and
\* filter stay.
Kill ==
    /\ kills < MaxKills /\ inst[1] \in Stopping
    /\ kills' = kills + 1
    /\ Goto(1, "gone")
    /\ port' = [k \in DOMAIN port |-> IF port[k] = 1 THEN None ELSE port[k]]
    /\ unit' = UnitAfterKill
    /\ UNCHANGED <<served, holds, helper, socket, rules, filter, setting, impatient>>

-----------------------------------------------------------------------------
(* The helper.                                                             *)

\* WaitForProcessExit: the poll sees that the parent is gone, or the 30 s are
\* over while a server waits for its connections (the other steps are quick).
\* Mutant: the helper does not wait.
Unwaited(h) ==
    /\ helper[h] = "wait"
    /\ helper' = [helper EXCEPT ![h] = "start"]
    /\ UNCHANGED <<inst, served, holds, host, unit, kills, setting, impatient>>
WaitForProcessExit(h) ==
    /\ helper[h] = "wait"
    /\ \/ inst[1] = "gone"
       \/ SlowStop /\ inst[1] = "drain" /\ ~holds[1]
    /\ helper' = [helper EXCEPT ![h] = "start"]
    /\ impatient' = (impatient \/ inst[1] # "gone")
    /\ UNCHANGED <<setting, inst, served, holds, host, unit, kills>>

Spawn == LET i == CHOOSE i \in Inst : inst[i] = "none" /\ \A j \in 1 .. (i - 1) : inst[j] # "none"
         IN  inst' = [inst EXCEPT ![i] = "listen"]

\* PerformPendingRestart: "mimic run", or "systemctl start mimic", which does
\* nothing for an active unit and queues a job for one that is cleaned up.
PerformPendingRestart(h) ==
    /\ helper[h] = "start"
    /\ helper' = [helper EXCEPT ![h] = "done"]
    /\ IF service THEN unit' = (IF unit = "cleanup" THEN "queued" ELSE unit) /\ UNCHANGED inst
                  ELSE Spawn /\ UNCHANGED unit
    /\ UNCHANGED <<served, holds, host, kills, setting, impatient>>

\* systemd, once the main process is gone: it ends what is left of the unit's
\* control group, the helpers included, runs ExecStopPost, "mimic stop", and
\* then a start job that is queued.
UnitCleanup ==
    /\ unit \in {"cleanup", "queued"}
    /\ IF unit = "queued" THEN Spawn /\ unit' = "active"
                          ELSE unit' = "inactive" /\ UNCHANGED inst
    /\ helper' = [h \in Helpers |-> IF helper[h] \in {"wait", "start"} THEN "killed" ELSE helper[h]]
    /\ rules' = {} /\ filter' = None
    /\ UNCHANGED <<served, holds, socket, port, kills, setting, impatient>>

-----------------------------------------------------------------------------
Step(i) == \/ Listen(i) \/ Clean(i) \/ AddRules(i) \/ Attach(i) \/ Serve(i)
           \/ CloseFilter(i) \/ StopServer(i) \/ Drained(i) \/ DeleteTable(i) \/ Exit(i)
Help(h) == WaitForProcessExit(h) \/ PerformPendingRestart(h)

Next ==
    \/ Request \/ Kill \/ UnitCleanup
    \/ \E i \in Inst : Step(i)
    \/ \E h \in Helpers : Help(h)

\* Processes run, connections of a stopped server end some day.
Fairness ==
    /\ \A i \in Inst : WF_vars(Step(i))
    /\ \A h \in Helpers : WF_vars(Help(h))
    /\ WF_vars(UnitCleanup)

Spec == Init /\ [][Next]_vars /\ Fairness
-----------------------------------------------------------------------------
\* Types of the state.
TypeOK ==
    /\ inst \in [Inst -> Starting \cup Stopping \cup {"none", "up", "gone"}]
    /\ served \in [Inst -> 0 .. Ports] /\ holds \in [Inst -> BOOLEAN]
    /\ helper \in [Helpers -> {"none", "wait", "start", "done", "killed"}]
    /\ socket \in Inst \cup {None} /\ filter \in Inst \cup {None}
    /\ rules \subseteq Inst
    /\ port \in [1 .. Ports -> Inst \cup {None}]
    /\ unit \in {"active", "cleanup", "queued", "inactive"}
    /\ kills \in 0 .. MaxKills
    /\ {service, complete, impatient} \subseteq BOOLEAN

\* systemd serializes the starts of a unit.  Without it, a second request makes
\* a second helper, and a helper whose 30 s are over starts beside its parent.
Used == {h \in Helpers : helper[h] # "none"}
Regular == service \/ (~impatient /\ Cardinality(Used) <= 1)

\* The instance that is left when a regular restart is over has everything an
\* instance has: its control socket can be reached, its rules are in the kernel
\* and nobody else's are, its filter is attached and it listens on its ports --
\* even if the old instance was killed half way through its own teardown.
Intact ==
    \A i \in Inst :
        inst[i] = "up" /\ (\A j \in Inst \ {i} : ~Live(j)) /\ Regular =>
            /\ socket = i /\ rules = {i} /\ filter = i
            /\ \A k \in 1 .. Ports : port[k] = i

\* PerformPendingRestart "starts Mimic again after the parent process has
\* exited": a regular restart never has two instances at a time.
OneInstance == Regular => Cardinality({i \in Inst : Live(i)}) <= 1

\* ScheduleRestart: the helper "will bring Mimic back after the current
\* process exits", whoever else restarts or kills it meanwhile -- if it is not
\* a unit, whose helpers systemd ends with it, and if the configuration file
\* says all that the command line said.
ComesBack ==
    (Used # {} /\ ~service /\ complete) ~> (\E i \in Inst \ {1} : inst[i] = "up")
=============================================================================
