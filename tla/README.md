# TLA+ specifications of Mimic

Mimic makes a host look like another operating system: it rewrites the TCP/IP
fingerprint (eBPF/TC on Linux, WinDivert or an NDIS driver on Windows), shapes
closed ports with packet-filter rules, runs decoy services and honeypots, turns
what they observe into security events, detects and blocks abuse, and is managed
through a local control plane. These modules model the parts of it where several
actors, failures or shutdowns meet.

## Inventory

| Component | State | Operations | Interacts with | Hard behaviour | What makes it correct |
|---|---|---|---|---|---|
| Abuse detector, blocker (`internal/defense`) | hits and last block per source; `ensured`; nft table `mimic_block` | `Write`, `Block`, `ensure`, `Close` | is a sink of the bus and emits on it; runs nft | many goroutines, time stamps out of order, half-built tables, shutdown | decisions are justified and spaced; only decided sources are blocked; every element has its rule |
| Event bus (`internal/events`) | sinks, global bus, syslog connection | `Emit`, sink `Write`, `Close`, `CloseGlobal` | called by every honeypot; feeds file, syslog, ring, detector | nested `Emit`, locks across network I/O, reconnects | evidence before response; records coherent; `Emit` returns |
| nft managers (`internal/services/closed.go`, `firewall.go`) | table `mimic_reject`, `active` flags | `AddPorts`, `Start`, `EnableDrop`, `EnableICMPDrop`, `Stop` | share one table with each other and with `mimic stop` | commands fail one by one | live sessions survive; RST rules match first |
| Run lifecycle (`cmd/mimic/run.go`) | channels, wait group, managers | start, early check, main loop, six ways out | owns everything above | errors, signals and control requests race | clean kernel at exit; shutdown completes; no panic |
| Stateless teardown (`cmd/mimic/stop.go`, `internal/ebpf/teardown.go`) | none | delete tables and filters by name | runs beside a live instance | concurrent with start and stop | idempotent, never half a ruleset |
| eBPF loader (`internal/ebpf/loader.go`) | objects, filter slots | `Load`, `SetProfile`, `Enable`, `Close` | TC slots shared with co-tenants | partial attach | no filter left behind |
| Control plane (`internal/control`) | connections, roles, ring | `accept`, `handle`, `Authorize`, `audit`, `Stop` | hooks into the run lifecycle and the configuration file | concurrent handlers, silent clients | nothing without an audit record; `Stop` returns |
| Configuration store (`configctl.go`, `config/loader.go`) | file and `.bak` | load, patch, validate, persist | control plane | no lock, crash between truncate and write | patches touch only their fields; a whole configuration survives |
| Restart handoff (`internal/platform/restart*.go`, `restart_pending.go`) | helper process, two instances on one host | schedule, wait, start | systemd; socket, table, filter, ports | timeouts, two instances | one instance, and it owns everything |
| Service resolution (`internal/config/services.go`, `edition_ports.go`) | none | `ResolveRunServices`, `ShouldStartService`, `ServiceListenPorts` | run lifecycle, firewall | precedence rules | what is served is what the firewall opens, each port once |
| Service manager, template listeners (`internal/services`) | listeners, connections, dynamic RPC pool, statistics | `LoadService`, `StartService`, `StopService`, accept loops, conversations, TLS, `Match`, `GetResponse` | bus, credential store | accept loops against `Stop`, partial binds, silent clients | every connection ends, nothing is held after a stop, one web-server identity |
| SMB honeypot (`internal/honeypot/smb`) | session, trees, handles, pipes, both dialects | one handler per command, `Start`, `Stop` | bus, deception tree, seeded accounts | re-authentication, fragments, buffer limits | identity gates what is reached; replies belong to their requests |
| SSH, FTP, RDP honeypots | sessions | login, commands, data connections, `Stop` | bus, credential store, deception content | long-lived sessions, deadlines | authentication before access; `Stop` returns |
| Windows stack backend (`internal/stack/*_windows.go`) | profile, SYN cache, IP-ID counter, handle, driver handle and watchdog | `Load`, `Enable`, `loop`, `applyEgress`, arm, disarm, trip, `Close` | WinDivert, NDIS driver, run lifecycle | SYN before SYN-ACK, watchdog against `Close` | egress looks like the persona; exit returns; the host stays reachable |
| Windows packet filter (`internal/netfilter`, `platform/closed_fw_windows.go`) | handles, goroutines, host firewall rules | `EnableDrop`, `AddPorts`, `Start`, loops, `Stop` | WinDivert, netsh, WFP | priorities, starts that fail half-way | the host's own traffic flows; nothing is left |
| Deception content | credential pool, trees | generation, lookup | honeypots | none | a leaked credential is accepted |
| eBPF program (`fingerprint.c`) | maps, sequence cache | two packet hooks | loader | kernel code | consistent rewriting |
| NDIS driver (`src/driver`) | module states, armed flag | attach, pause, restart, detach, IOCTL | stack backend | kernel callbacks | no packet lost or sent twice |
| Capture, verify, coherence, logging, install | files | offline tools | | none | out of scope (text and I/O) |

PROJECT.json lists the hazards of this code line by line and the property that
covers each of them.

## Modules

| Module | Models | Variables that are code state |
|---|---|---|
| `Defense` | detector and blocker | `hits`, `lastBlock` = `Detector.src`; `mu`, `ensured` = `Blocker`; `nft`, `elements` = the kernel's table |
| `EventBus` | the bus and its four sinks | `frames` = the `Emit` calls on each goroutine's stack; `mu`, `conn` = `SyslogSink`; `ring` = `Ring.buf` |
| `Ruleset` | the table `mimic_reject` and its three managers | `table`, `rules` = the kernel; `todo` = nft commands left; `active`, `mgr` = the managers |
| `Lifecycle` | `runMimic` on Linux; extends `Ruleset` | `errs` = `errChan`; `shutdown`, `chan` = channels; `stack`, `svc` = the two goroutines; `tc` = filters |
| `ControlPlane` | control server and the configuration file | `pc`, `req`, `work`, `copy` = handlers; `file`, `bak` = disk; `roles` = `RoleAuthorizer` |
| `Restart` | restart helper, systemd, two instances | `socket`, `rules`, `filter`, `port` = what the host has once; `helper` = `restart-pending` processes |
| `ServicePlan` | `ResolveRunServices` and what it calls, the allow list, the ports that are listened on | none (operators) |
| `Probes` | probe matching, response rules, web-server identity, the TLS backend's pages | none (operators) |
| `Sessions` | what a command does to an FTP, SSH or RDP session | none (operators on session records) |
| `ServiceGroup` | abstract: what the services goroutine promises to `runMimic` | `svc`, `running`, `shutdown` |
| `Servers` | the services goroutine with its servers; uses `ServicePlan`, `Probes`, `Sessions`; implements `ServiceGroup` | `open`, `loops`, `cancelled` = sockets, accept loops, contexts; `conns` = connection goroutines with their session and deadline; `srv`, `stage`, `victim` = where `Start` and `Stop` are |
| `SmbPipe` | an RPC pipe: fragments, requests, queued replies | none (operators on `PipeState` records) |
| `SmbSession` | one SMB connection, both dialects; uses `SmbPipe` | `sess` = `Session`; `trees`, `handles`, `trees1`, `fids` = its tables; `conn` = the goroutine |
| `Egress` | `applyEgress`, `applyTCP`, `applyICMP` on outbound packets | none (operators) |
| `WinHost` | the Windows block of `runMimic`: responders, stack goroutine, driver, watchdog, traffic; uses `Egress` | `open`, `loops`, `rules` = handles, goroutines, host firewall; `synCache`, `counter`, `armed`, `hifiMu`, `wd` = `windowsBackend` |
| `DefenseProofs`, `EventBusProofs`, `LifecycleProofs`, `ControlPlaneProofs`, `RestartProofs`, `SmbSessionProofs`, `ServersProofs`, `WinHostProofs` | theorems about the module named, with TLAPS proofs | |
| `MC*` | the instances TLC checks | |

`Lifecycle` extends `Ruleset`; `Servers` puts `ServicePlan`, `Probes` and
`Sessions` together; `WinHost` does so with `Egress`, `SmbSession` with `SmbPipe`.
`ServiceGroup` is the joint between `Lifecycle`, which sees the servers as a
number, and `Servers`, which has them with ports and connections: both are shown
to implement it (`KeepsContract`), so what `Lifecycle` shows about the exit holds
with the real servers in place, but for the time a server takes to stop.

One action is one step of one goroutine between points where others can
intervene: a critical section under a mutex, one nft command, one system call.
Operators under a comment "Mutant" are deliberate mistakes, used to check
that each property notices a plausible bug; no specification uses them.

Abstractions. Events, sources, ports and configurations are small values; the
text of events, log lines and rules is left out. Time is a counter (`Defense`)
or an ordering (`Restart`: 30 s pass only while a server waits for its
connections, every other step being quick; the kernel's deletes succeed there, and
`Lifecycle`, where they may fail, starts on a host that `teardownStack` has cleaned). A hit is represented by the event
that scored it. In `ControlPlane` the section "rbac" stands for everything that
no patch can name. HTTP replies are their page, `Server` header and lengths; probe
data and patterns are short sequences of words. A TCP segment is its flags, the
sequence of its option kinds, its data offset and the clock its timestamp runs
on; window values are names. An SMB frame is its command and the arguments that
the handlers look at; NTLM proofs are the challenge they were made for. A write to a file another writer has written since its own
truncation leaves either file or a mixture, and a write that fails leaves what was
there or a prefix. Of a Server string only the brand is kept, so `PagesAgree` says
nothing about versions.

Some variables are history: they exist only so that a property can speak of the
past (`emitted`, `triggers`, `reports`; `written`; `dropFailed`, `loadFailed`,
`undeleted`, `stuck`;
`trail`, `effects`, `committed`, `disturbed`; `impatient`; `seen` and `reply` in
`SmbSession`, the fields `got`, `ended`, `whole`, `fresh` of its handles and
pipes; `asked`, `fate` and `kept` in `WinHost`; `as` and `moved` in `Sessions`). `orderly` says how
the process stops: `Close` and `CloseGlobal` come after the servers' `Stop` unless
the services goroutine failed, in which case its servers are never stopped and
their goroutines go on (`Lifecycle` shows how this comes about).

## Runs

Passing runs:

| Run | Bounds | Shows |
|---|---|---|
| `defense` | 2 goroutines, 3 sources (IPv4, whitelisted, IPv6), 3 events, time 0..3, window 3, cooldown 1, threshold 4 | two events trip the threshold, the third may come inside or outside window and cooldown and with an older time stamp; nft fails anywhere, also in `Close`; `Close` at any time; decisions, blocks, reports and the table are right, and `Emit` returns |
| `bus` | 2 goroutines, 2 events, 1 Block event, ring of 2, one fault: an outage or stall of the collector, or an error of the file | order and uniqueness of every record, evidence before response, events reach the detector, `Emit` and `Close` return |
| `lifecycle` | workstation persona, 1 closed port, 1 service, all failures, those of table and filter deletes included, one restart request, a signal, one `mimic stop` | every intermediate ruleset keeps sessions alive and RST rules unshadowed; goroutines end before teardown; the exit is clean; shutdown completes |
| `control` | 2 connections, 3 peers, 2 roles, 5 operations, 4 patches, 2 requests, failing credentials and writes, a crash | audit trail complete and true; patches, backup, stop |
| `restart` | with and without systemd, complete or incomplete file, 3 ports, 2 requests, slow stops, one kill | one instance, intact, comes back |
| `smb` | three hosts (modern with guests, locked down with SMBv1, SMBv1 only on 139), 3 session set-ups, one tree connect and one open per connection, 2 calls in up to 2 fragments, a directory of two names behind `.` and `..`, buffers of up to 2 entries | replies are made of their own fragments and answer the latest PDU that was acted on; listings are exact; a proof counts for the latest challenge only; admin shares and the user list need a seeded account |
| `servers` | 12 service lists on Linux, Windows server, Windows 11, macOS and without a profile; 2 connections; ports taken by others, binds that fail | the plan can be served behind its firewall; pages agree; a stopped or failed server is gone; sessions are sound; stopping ends; `ServiceGroup` is implemented |
| `windows` | Linux and Windows personas (Debian, Windows 11, Server 2008, Server 2019, XP) and a macOS one, the packets nmap sends and the host's own, up to 3 of them, queue of 2, cache limit 1, failing starts and rule removals, driver with and without watchdog | what leaves looks like the persona; the host's traffic flows; the exit is clean and returns; an unreachable network disarms the driver |

Two of everything that is symmetric are enough here because no code distinguishes
more than "me" and "another one"; three events are the smallest number for which
a second decision, a pruned hit and a reordering can happen together (the clock of
`Defense` stops with the last event: no later step reads it); one Block
event is what the detector's cooldown allows a source; one service is enough for
every state of the services goroutine, since `StopAll` treats servers alike (the
order in which they release their ports matters in `Restart`, which has three, and
in `Servers`, which has the real ones). A stop request leaves the main loop by the
same calls as a restart request, so `lifecycle` asks for restarts only (`Asked`);
`double_stop` has both, the theorems hold for both. In `smb`, three set-ups are a seeded login, a
later one as guest and a replayed proof; handles
never touch each other's state, so one is enough, and two fragments are enough for a
request that is given up and begun again. In `servers` each setup pairs services
that could disturb each other (a honeypot and the template it replaces, SMB and
NetBIOS on 139, two users of the dynamic ports) and the second connection is
there for the servers that serve several clients at once. In `windows` a cache
limit of 1 makes the cache overflow with the third client, and three packets are
a SYN, the next one from the same client and the answer to either.

Every module states a type invariant `TypeOK`; the runs check that of `Defense` and
spend the others' time on the properties above. All but `WinHost`'s are proved.

Runs that find a disagreement with what the code's own comments promise, each
explained under "findings" in PROJECT.json:

| Run | Shows |
|---|---|
| `bus_stall` | a collector that stops reading blocks `Emit` for ever |
| `late_error` | the error case of the main loop leaves the firewall in the kernel |
| `double_stop` | a second stop request panics the process |
| `config_race` | two concurrent `config.set` undo each other's fields |

Deadlock is checked in `windows` (its only terminal state is the exited process).
It is not in the others: each of these systems may stop (the process exits, or the
bounded supply of events, frames and requests is used up).

### Known disagreements that properties except

The passing properties state these exceptions in their formulas. Dropping the
exception makes TLC find the behaviour in the same instance or the one named.

| Property and its exception | What the code does |
|---|---|
| `TriggersReported`: `ParseIP(x)` | `Block` returns without an event for a zoned IPv6 address, which `net.ParseIP` refuses (`blocker.go:83`; line 79: "event is always emitted"). Needs a source whose form is `"zoned"` |
| `EndsOrderly`: `orderly` | a `Block` call of a server that was never stopped rebuilds the table after `Close` (`blocker.go:153`) |
| `SinksAreCoherent`: `orderly` | an `Emit` call under way dials syslog again after `Close` |
| `SessionsSurvive`: `port \notin Closed` | a port in both `closed_ports` and `preserve_ports` is reset (`firewall.go:39`: "always accepted (management)"). Needs such a port |
| `CleanExit`: `~dropFailed` | after a failed `EnableDrop` the manager that installs the ICMP rule is not `active`, so its `Stop` leaves the rule, and what `EnableDrop` had added (`firewall.go:91`, 105) |
| `CleanExit`: `~undeleted` | `nftDeleteTable` discards its error (`closed.go:33`): if the last manager that tries fails, the rules stay. An earlier failure is made good by the next delete |
| `CleanExit`: `tc \subseteq stuck` | `Close` tries each filter once and runMimic ignores its error (`ebpf/loader.go:197`, `run.go:554`): a filter whose `FilterDel` failed stays, the other does not |
| `EndsOrderly`: `~undeleted` | `Blocker.Close` tries its delete once and discards the error (`blocker.go:155`) |
| `CleanExit`: `~loadFailed` | `Load` failing at the ingress filter leaves the egress filter (`ebpf/loader.go:66`) |
| `OmittedUnchanged`, `Recoverable`: `~disturbed` | besides `config_race`: after a write that failed behind its truncation the next `config.set` starts from an empty file (`config/loader.go:186`) |
| `Intact`, `OneInstance`: `Regular` | a helper whose 30 s are over starts an instance beside its parent (`restart_pending.go:29`), which then deletes the new one's table and socket; two requests make two instances |
| `ComesBack`: `~service` | the helper stays in the unit's control group and systemd ends it with the main process (`restart_linux.go:28`) |
| `ComesBack`: `complete` | the helper passes on `-c` only, not the rest of the command line (`restart_linux.go:45`) |
| `IdentityGates`: `seen.legacySetup` | an SMBv1 session set-up sets no guest flag, SMBv1 handlers look at neither session state nor `SMB1Enabled` (`server.go:1387`) |
| `PagesAgree`: family, service | for macOS the generic IIS pages mix with nginx's (`services/http/manifest.yaml:10`); a Linux run of "all" puts its header on the HTTP.sys page of port 5357 |
| `SessionsAreSound`: `moved` | the home of an SSH user whose name is typed in capitals is not in the tree (`ssh/server.go:279`) |
| `StopCompletes`: `Held` | an open shell has no deadline and an FTP transfer none for its writes, so `Stop` waits for the client (`ssh/server.go:163`, `ftp/server.go:403`) |
| `HostTrafficFlows`: `Legit` | for a Linux persona on Windows the T4/T6 filters do take bare ACKs on served ports, the T7 filter client FINs when no closed port is configured (`run.go:470`: "do not swallow normal client traffic"); the T2/T3 filter names no IP version and takes IPv6 segments without flags or with SYN and FIN (`probes_windows.go:45`); with an explicit "drop" on anything but a workstation a served port that is not listed as open is dropped (`run.go:419`) |
| `ExitClean`: `kept` | the removals of host firewall rules discard netsh's errors (`closed_fw_windows.go:50`, 77, 139): such a rule stays |
| `ExitClean`: `broken` | a responder whose start fails half-way is forgotten with the handles and rules it had (`run.go:400`: "Torn down via defer on every return path") |
| `EgressIsPersona`: `MacTail` | the macOS template appends a SACK option to a layout that may have one, and its `default` layout cannot be reached (`backend_windows.go:797`, 829) |
| `EgressIsPersona`: `doff >= 12` | the SYN-ACK of a host without timestamps to a SYN without window scale has 8 bytes of options and is not grown, so it lacks the timestamp the client offered (`backend_windows.go:668`) |

Met while modelling, without a property of their own: QUERY_INFO for a file class
on a pipe handle dereferences a nil node, and nothing recovers the panic
(`smb/server.go:1025`; `conn = "panicked"` in the model);
re-negotiation changes the dialect but keeps the signing key; `wsd` is described
as workstation-only but an empty edition passes (`services/wsd/manifest.yaml`);
"ssh" next to "ssh_honeypot" on a Windows profile leaves port 22 unserved; `nbns`'s UDP port is in the TCP allow list and an FTP passive port is
not; the RDP write deadline of 5 s is never renewed (`rdp/server.go:181`); SSH
session goroutines are not in the wait group (`ssh/server.go:241`); `rstLoop`
loses IPv6 SYNs to closed ports; after a watchdog trip `Close` does not join the
watchdog goroutine; the SYN cache's key has no server port; the detector never forgets
a source (`detector.go:84`); the statistics ticker reads `svcMgr`, which the services
goroutine assigns without synchronization (`run.go:864`).

### Fairness

Goroutines that can run are scheduled, nft and netlink calls return, timers fire
(weak fairness per goroutine). In `EventBus` this also covers `SyslogSink.mu`:
finitely many events cannot keep taking it. Nothing is assumed of clients (a
control client may stay silent), of the collector, of signals or of operators.
`Lifecycle` and `Restart` assume that the connections of a stopped server end some
day; `Servers` says when that is so (`StopCompletes`). There the services goroutine,
the accept loops and each connection's own steps (its deadline included) are
weakly fair, and nothing is assumed of clients: they may stay silent for ever. The
one strong fairness is on `ControlClosed`: the goroutine beside every FTP control
connection closes it on shutdown whatever the handler is doing, so commands that
keep arriving cannot keep it open (`ftp/server.go:207`). In `WinHost` every goroutine and WinDivert itself are
weakly fair; packets, the network and the shutdown are not. `SmbSession` has no
liveness and no fairness: a connection ends when its client says so.

## Proofs

TLC settles the instances above; the theorems hold for every value of the
constants (any number of goroutines, connections, events, ports, requests and
services, every configuration) under the named assumptions of the modules. Each
proof module extends the module it is about.

| Module | Theorem | States |
|---|---|---|
| `DefenseProofs` | `TypeCorrect`, `DetectorSound`, `CooldownSound`, `BlockerSound`, `TableSound`, `ExitLeavesNoTable`, `NoDecisionLost` | `TypeOK`, `TriggersJustified`, `CooldownRespected`, `BlocksAreDecided`, `ElementsAreDropped`, `NothingLeft` (the safety half of `EndsOrderly`), `Owed` (that of `TriggersReported`) |
| `EventBusProofs` | `TypeCorrect`, `EvidenceFirst`, `RecordsAreCoherent` | `TypeOK`, `RecordedBeforeScored`, `SinksAreCoherent` |
| `LifecycleProofs` | `TypeCorrect`, `SessionsAreSafe`, `ResetsMatchFirst`, `GoroutinesEndFirst`, `ExitIsClean`, `Refinement` | `TypeOK`, `SessionsSurvive`, `ResetsNotShadowed`, `ServersStopFirst`, `CleanExit`, `KeepsContract` |
| `ControlPlaneProofs` | `TypeCorrect`, `NothingUnaudited`, `AuthorizationIsExact`, `ConfigSurvives`, `PatchesCompose` | `TypeOK`, `EffectsAudited`, `TrailIsTrue`, `Recoverable`, `OmittedUnchanged` (an action property) |
| `RestartProofs` | `TypeCorrect`, `NeverTwo`, `RestartIsWhole` | `TypeOK`, `OneInstance`, `Intact` |
| `SmbSessionProofs` | `TypeCorrect`, `OneRequestPerReply`, `NoLateReply`, `DirectoriesListExactly`, `NoStaleProof`, `OnlyProvenIdentities` | `TypeOK`, `RepliesAreWhole`, `ReadsAnswerLatest`, `ListingExact`, `ProofForLatestChallenge`, `IdentityGates` |
| `ServersProofs` | `TypeCorrect`, `StopLeavesNothing`, `SessionsStaySound`, `EveryPlanIsServable`, `OneIdentity`, `ServersImplementGroup` | `TypeOK`, `StoppedIsGone`, `SessionsAreSound`, `PlanIsServable`, `PagesAgree`, `KeepsContract` |
| `WinHostProofs` | `ReturnIsClean`, `PersonaKept`, `LegitimateTrafficKept`, `ArmedIsWatched` | `ExitClean`, `EgressIsPersona`, the safety halves of `HostTrafficFlows` and `Recovers` |

None of the properties is inductive. What each `IInv` adds is what the code relies
on without saying so:

- `Defense`: an event on its way to the detector, unless it is a Block event, was
  emitted; the hits kept for a source are that source's own; `lastBlock` is never
  older than any decision against the source (this makes the cooldown hold for
  reordered events); a goroutine past the whitelist check carries a source that was
  decided against; the holder of the lock is at the command whose predecessors have
  run, unless `Close` has wiped the table since; behind an orderly `Close` nobody is
  left to rebuild it, and what is there then is what its delete failed to remove
  (`ClosedForGood`). `Owed`: a decision that has not been reported
  is carried by a goroutine inside `Block`, whichever nft command fails. A window of 0 would break
  `TriggersJustified`; `withDefaults` maps it to 60 s, and `DefenseAssumption` has
  the window positive.
- `EventBus`: the detector is the last sink of the list, so the `Emit` call whose
  event it answers with a Block event has nothing left to do, and a goroutine never
  has two calls in their loops (`FramesInv`); a sink that a call has not reached has
  no record of its event (`NotYet`), so nothing is recorded twice; past the file the
  event is recorded (`FileFirst`); a Block event exists only once its cause is done
  with (`BlocksFollow`), which orders every sink; and behind `Bus.Close`, with nobody
  inside `Emit`, a closed sink stays closed (`CloseInv`).
- `Lifecycle` with `Ruleset`: the chain always has its RST rules in front
  (`ResetsFirst`), a drop only behind the rules that let sessions, loopback and the
  allow list through (`DropIsGuarded`), and of a manager under way a prefix of its
  commands (`InProgress`); every rule belongs to a manager that will try to remove it
  (`RulesHaveOwner`); the Stop calls that main has passed left nothing, unless the
  latest delete failed (`StoppedInOrder`); of the filters only those are left behind
  `Close` whose own delete failed; a request's timer, the goroutines and the filters follow main's
  place (`ProcessInv`). `Verdict` takes the first match, whose existence rests on the
  well-foundedness of the naturals.
- `ControlPlane`: a handler past authorization has its event in the trail
  (`HandlersAreAudited`), and `Authorize` finds a role whenever there is one, whatever
  the order; as long as no save disturbed another there is one saver, and its place in
  `PersistConfig` says what both files hold (`OneSaver`, `SaverHolds`,
  `FilesAreCoherent`).
- `Restart`: in a regular restart the second instance never exists before the first is
  gone, under systemd because the unit is busy until then, without it because the one
  helper waits (`Handoff`, `Supervised`, `Unsupervised`); `FirstHolds` and
  `SecondHolds` say what each has of the host at each place.
- `SmbSession`: what a pipe has reassembled is the request begun last (`PipeInv`),
  what a handle has listed is the listing up to its index (`ListedSoFar`), the session
  holds the challenge sent last, and behind every handle, administrative tree and user
  list stands an admitted or a proven client, also after a re-negotiation.
- `Servers`: the goroutine's place in the plan says which services are settled
  (`StartInv`), a Stop under way is of a server that is up or was skipped, or of the
  endpoint mapper that could not be started (`StopInv`), and ports of services that are
  not up have no listener, those of stopped ones no loop and no connection
  (`PortsInv`). That a stopped server's ports stay quiet rests on services not sharing
  ports, and that is proved of `ResolveRunServices` for every request and profile: a
  sequence without some of its places keeps the order and the members of the rest
  (`SubsequenceFacts`, from numbering the places, `Ranks`), so each filter keeps the
  absence of repetitions (`Resolved`); the ports are then apart because the manifests'
  are, because a template on a honeypot's port is superseded, and because the edition
  gates leave netbios out where the SMB honeypot has port 139 (`PortsApart`). A second
  invariant is over the sessions alone (`SessionInv`): while a
  transfer is under way the login stands and is the current user's, and a working
  directory exists. A third, `PageInv`, follows every reply from the probe that chose it
  through the rewrites: `Match` takes the first probe (`MinOfPlaces`), so the file it names
  shows the profile's make (`MatchedShows`), the rewrites keep that and the declared length
  (`ResponseFacts`), and behind TLS a Linux profile never falls back on the IIS page
  (`BackendFits`). In the refinement the abstract `running` is the number of services
  that are up.
- `WinHost`: every start step installs something of its own responder, behind main's
  place in the stop order nothing of a kept responder is left but rules whose removal
  failed, and a watchdog that may
  still act is one the backend knows or waits for. For the persona, `Recorded`: what
  the SYN cache says of a client is what that client's latest SYN had, and what waits in
  the loop's queue is a host's segment or a responder's. The rest is about `Egress`:
  options are counted by kind (`CountConcat`), so each block of `applyTCP` is a lemma
  about how many of each kind it leaves and which of the SACK and timestamp places are
  taken (`Templated`, `FirstBlocks`, `EcnBlock`, `OutboundBlock`, `O6Block`,
  `LastBlocks`), and `EgressPersona` joins them. For the host's traffic, `Carried`: a
  packet is held only by a handle whose filter names it, and `LegitPasses` shows filter
  by filter that the verdict on the host's own business is to pass it. For the watchdog,
  `Watching`: it begins with the driver's arming and ends only after its disarming.

`KeepsContract` is proved on both sides of the joint: `Lifecycle`, with a number for
the servers, and `Servers`, with ports and connections, implement `ServiceGroup`.

Assumptions, each evaluated by TLC in the run of its module, are of four kinds:
types and signs of parameters; `TreeAssumption`, that the FTP tree has a root and is
closed under `..`; `PersonaAssumption`, that the host's segments are those of a Windows
TCP and the profile is laid out the way those under `profiles/` are (timestamps come with
window scale and an option order, and who echoes ECE has SACK in front of them);
and what a run is given to start with: requests name services that exist
(`ServersAssumption`), and the templates under `services/` have ports of their own, a
honeypot's only if the honeypot replaces them (`ManifestAssumption`). Of the pages of
`services/http` and `services/https`, `PagesAssumption` says what an author of manifests
has to see to: a probe that the profile admits shows the profile's make, or one with the
same signature stands in front of it.

### Only model-checked

- Liveness, which the prover cannot treat: the leads-to halves of `EndsOrderly`,
  `TriggersReported`, `HostTrafficFlows` and `Recovers`, and `EmitReturns`,
  `ShutdownCompletes`, `StopReturns`, `ComesBack`, `StopCompletes`, `ExitReturns`.

No module declares a RECURSIVE operator.

## Plan

The system's own logic is modelled and every safety invariant that a run checks is
proved; `WinHost` alone has no type invariant of its own. What is left to the runs is
liveness.

## Not modelled

Listed with reasons under "components" in PROJECT.json. In short:

- wire encodings and texts (NDR, NTLM, ASN.1, TLS records, page bodies): data;
- UDP listeners beyond bind, stop and join: they answer each datagram on its own;
- the eBPF packet program and the NDIS driver: kernel code whose contract is not in
  the repository (the rewriting done in Go on Windows is in `Egress`);
- deception content: computed once before the servers start;
- the offline tools, logging and installation: files and text;
- Windows control pipes, the service wrapper and the statistics ticker.
