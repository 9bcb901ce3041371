------------------------------- MODULE Servers -------------------------------
(***************************************************************************)
(* The services goroutine of "mimic run" (cmd/mimic/run.go) with the       *)
(* servers it starts: which services (ServicePlan), their listeners, their *)
(* accept loops, the connections they hold and how each is stopped.  The   *)
(* template listeners are internal/services/listener.go and                *)
(* dynamic_rpc.go, answering as module Probes says; the FTP, SSH and RDP   *)
(* honeypots keep the sessions of module Sessions; of the SMB honeypot     *)
(* only the connection's life is here (module SmbSession has the rest).    *)
(*                                                                         *)
(* Every read that a handler waits in is a phase of its connection.  A     *)
(* failed write ends a connection as the failed read behind it would.      *)
(***************************************************************************)
EXTENDS ServicePlan, Probes, Sessions, FiniteSets

CONSTANTS
    Setups,         \* runs to consider: [requested, profile, taken, fails, slots]
    Slots,          \* bound: connections open at a time
    DynPorts,       \* RPC ports advertised in the endpoint mapper's template
    LeakStore,      \* credential id -> length it adds to a page
    ClientData,     \* what a client may send to a template service
    FtpCommands,    \* [cmd, arg] a client may send
    Logins,         \* <<user, password>> a client may try
    CdArgs          \* arguments of cd in a shell

\* Requests name services that exist, and a port is a number.
ASSUME ServersAssumption ==
    /\ \A s \in Setups : s.requested \in Seq(Honeypots \cup DOMAIN Manifests \cup {"all"})
    /\ ListTemplateServices \in Seq(DOMAIN Manifests) /\ ToSet(ListTemplateServices) = DOMAIN Manifests
    /\ \A n \in DOMAIN Manifests : Manifests[n].port \in Nat \ {0}
    /\ DynPorts \in Seq(Nat \ {0})

\* The files under services/: each template has a port of its own, and one that
\* has a honeypot's is what the honeypot replaces.
ASSUME ManifestAssumption ==
    LET templates == DOMAIN Manifests \ Honeypots
    IN  /\ \A m, n \in templates : Manifests[m].port = Manifests[n].port => m = n
        /\ \A n \in templates, h \in Honeypots : Manifests[n].port \in honeypotListenPorts[h] =>
                n \in DOMAIN templateSupersededBy /\ templateSupersededBy[n] = h
        /\ \A n \in templates : Manifests[n].port = 139 => n = "netbios"
        /\ ToSet(DynPorts) \cap ({139, 445, 3389, 21, 22} \cup {Manifests[n].port : n \in templates}) = {}

VARIABLES
    setup,          \* the run: configuration, and ports that others hold
    plan,           \* appCfg.Services
    svc,            \* the goroutine, as in ServiceGroup
    idx, bound,     \* service being started, ports of it that are bound
    srv,            \* service -> none, up, skipped, failed, down
    victim, stage,  \* server whose Stop is under way: none, pool, wait
    err,            \* why it is being stopped while starting
    open,           \* ports with a listener
    cancelled,      \* ports whose server's context is cancelled
    loops,          \* ports with an accept (or UDP read) loop
    conns,          \* slot -> connection
    shutdown        \* the shutdown channel is closed

goroutine == <<svc, idx, bound, srv, victim, stage, err, open, cancelled>>
vars == <<setup, plan, goroutine, loops, conns, shutdown>>

Free == [port |-> 0, ph |-> "free", out |-> NoReply, s |-> NoSession]

\* SetProfileOptions: what the manifests' `requires` and the pages depend on.
SetProfileOptions(profile) ==
    LET all  == [os_family |-> profile.family, os_name |-> profile.os,
                 os_server |-> webServerForOS(profile.os), os_edition |-> ResolvedEdition(profile)]
        keys == {"os_family", "os_name"}
                \cup (IF profile.family = "linux" THEN {"os_server"} ELSE {})
                \cup (IF all.os_edition # "" THEN {"os_edition"} ELSE {})
    IN  [k \in IF profile = NoProfile THEN {} ELSE keys |-> all[k]]

\* The make of the run's web server, and whether a response template shows it
\* once its Server header is rewritten.
Make(profile) == IF profile.family = "linux" THEN webServerForOS(profile.os) ELSE "iis"
Shows(file, profile) ==
    file \in DOMAIN Files /\ Files[file].http =>
        LET resp == applyServerHeader(Files[file], SetProfileOptions(profile))
        IN  resp.server = Make(profile) /\ resp.page \in {"plain", resp.server}

SameSignature(p, q) ==
    /\ p.contains = q.contains /\ p.pattern = q.pattern
    /\ p.offset = q.offset /\ p.min = q.min /\ p.max = q.max

\* The files of services/http and services/https: of the probes whose
\* requirements are met, each shows the profile's make or has one with the
\* same signature in front of it, which takes everything it would match; and
\* the pages behind TLS are there.
ASSUME PagesAssumption ==
    \A s \in Setups : s.profile.family \in {"windows", "linux", "nil"} =>
        /\ \A n \in {"http", "https"} \cap DOMAIN Manifests :
             LET probes == Manifests[n].probes
                 met    == DOMAIN NewProbeMatcher(probes, SetProfileOptions(s.profile))
             IN  /\ met \subseteq Nat
                 /\ Shows(Manifests[n].default, s.profile)
                 /\ \A i \in met :
                      \/ Shows(probes[i].file, s.profile)
                      \/ \E j \in met : j < i /\ SameSignature(probes[j], probes[i])
        /\ s.profile.family = "linux" =>
             \A method \in {"GET", "HEAD"}, path \in {"/", "/other"} :
                 LET file == linuxHTTPResponseFile(method, path, s.profile.os)
                 IN  /\ file \in DOMAIN Files /\ Files[file].http /\ Files[file].head > 0
                     /\ Shows(file, s.profile)
ASSUME LeakAssumption == \A id \in DOMAIN LeakStore : LeakStore[id] \in Nat

\* The ports of a service in the order it binds them.
PortsOf(n) == ListenPorts(n, setup.profile) \o (IF n = "msrpc" THEN DynPorts ELSE <<>>)
Ports(n) == ToSet(PortsOf(n))
Dynamic == ToSet(DynPorts)
Owner(p) == CHOOSE n \in ToSet(plan) : p \in Ports(n)

Init ==
    /\ setup \in Setups
    /\ plan = ResolveRunServices(setup.requested, setup.profile)
    /\ svc = "off" /\ idx = 1 /\ bound = 0
    /\ srv = [n \in ToSet(plan) |-> "none"]
    /\ victim = "" /\ stage = "none" /\ err = "none"
    /\ open = {} /\ cancelled = {} /\ loops = {}
    /\ conns = [c \in Slots |-> Free]
    /\ shutdown = FALSE
-----------------------------------------------------------------------------
(* The goroutine: start every service, wait for shutdown, stop them.       *)

Spawn ==
    /\ svc = "off"
    /\ svc' = IF plan = <<>> THEN "done" ELSE "starting"
    /\ UNCHANGED <<setup, plan, idx, bound, srv, victim, stage, err, open, cancelled, loops, conns, shutdown>>

\* The service at hand is settled; on to the next one.
Settle(result) ==
    /\ srv' = [srv EXCEPT ![plan[idx]] = result]
    /\ idx' = idx + 1 /\ bound' = 0
    /\ svc' = IF idx = Len(plan) THEN "up" ELSE "starting"

\* skipBindConflict, or errChan <- err.
GiveUp(e) ==
    IF e = "inuse" THEN Settle("skipped")
    ELSE /\ srv' = [srv EXCEPT ![plan[idx]] = "failed"]
         /\ svc' = "failing"
         /\ UNCHANGED <<idx, bound>>

Starting == svc = "starting" /\ stage = "none"
NextPort == PortsOf(plan[idx])[bound + 1]
InUse == NextPort \in setup.taken \cup open

\* net.Listen succeeds and the accept loop is started.
Listen ==
    /\ Starting /\ ~InUse
    /\ open' = open \cup {NextPort} /\ loops' = loops \cup {NextPort}
    /\ IF bound + 1 = Len(PortsOf(plan[idx]))
       THEN Settle("up")
       ELSE bound' = bound + 1 /\ UNCHANGED <<idx, srv, svc>>
    /\ UNCHANGED <<setup, plan, victim, stage, err, cancelled, conns, shutdown>>

\* net.Listen fails.  The SMB server closes what it has bound; the endpoint
\* mapper stops its pool of dynamic ports and then itself, and waits for both.
\* Mutant: the listeners that are bound already stay open.
ListenFailsKeepingPorts ==
    /\ Starting /\ (InUse \/ setup.fails)
    /\ LET e == IF InUse THEN "inuse" ELSE "other"
       IN  /\ GiveUp(e) /\ err' = e
    /\ UNCHANGED <<setup, plan, victim, stage, open, cancelled, loops, conns, shutdown>>
ListenFails ==
    /\ Starting /\ (InUse \/ setup.fails)
    /\ LET n == plan[idx]
           e == IF InUse THEN "inuse" ELSE "other"
       IN  IF n = "msrpc" /\ bound > 0
           THEN /\ victim' = n /\ stage' = "pool" /\ err' = e
                /\ open' = open \ Dynamic /\ cancelled' = cancelled \cup Dynamic
                /\ UNCHANGED <<svc, idx, bound, srv>>
           ELSE /\ GiveUp(e)
                /\ open' = IF bound > 0 THEN open \ Ports(n) ELSE open
                /\ cancelled' = IF bound > 0 THEN cancelled \cup Ports(n) ELSE cancelled
                /\ UNCHANGED <<victim, stage, err>>
    /\ UNCHANGED <<setup, plan, loops, conns, shutdown>>

\* The error reaches errChan and the goroutine returns.
Fail ==
    /\ svc = "failing"
    /\ svc' = "failed"
    /\ UNCHANGED <<setup, plan, idx, bound, srv, victim, stage, err, open, cancelled, loops, conns, shutdown>>

\* StopAll takes the templates in the order of a map; then the honeypots that
\* were created, whether they listen or not.
\* Mutant: the honeypot that was added last has no Stop.
StopOrderShort == <<"smb_honeypot", "ftp_honeypot", "ssh_honeypot">>
StopOrder == <<"smb_honeypot", "ftp_honeypot", "ssh_honeypot", "rdp">>
ToStop ==
    LET templates == {n \in ToSet(plan) \ Honeypots : srv[n] = "up"}
        pots      == {i \in DOMAIN StopOrder : /\ StopOrder[i] \in ToSet(plan)
                                              /\ srv[StopOrder[i]] \in {"up", "skipped"}}
    IN  IF templates # {} THEN templates
        ELSE {StopOrder[i] : i \in {j \in pots : \A k \in pots : j <= k}}

\* Stop: cancel the context, close the listeners and wait; the endpoint
\* mapper's own listener stays open until its pool has drained.
BeginStop(n) ==
    /\ svc = "up" /\ shutdown /\ stage = "none" /\ n \in ToStop
    /\ victim' = n
    /\ cancelled' = cancelled \cup Ports(n)
    /\ stage' = IF n = "msrpc" THEN "pool" ELSE "wait"
    /\ open' = open \ (IF n = "msrpc" THEN Dynamic ELSE Ports(n))
    /\ UNCHANGED <<setup, plan, svc, idx, bound, srv, err, loops, conns, shutdown>>

\* wg.Wait: accept loops and handlers.
Quiet(ports) == loops \cap ports = {} /\ \A c \in Slots : conns[c].port \notin ports

PoolDrained ==
    /\ stage = "pool" /\ Quiet(Dynamic)
    /\ stage' = "wait"
    /\ open' = open \ Ports(victim) /\ cancelled' = cancelled \cup Ports(victim)
    /\ UNCHANGED <<setup, plan, svc, idx, bound, srv, victim, err, loops, conns, shutdown>>

ServerEnded == Quiet(Ports(victim))

StopReturns ==
    /\ stage = "wait" /\ ServerEnded
    /\ stage' = "none" /\ victim' = ""
    /\ IF svc = "starting" THEN GiveUp(err)
       ELSE srv' = [srv EXCEPT ![victim] = "down"] /\ UNCHANGED <<svc, idx, bound>>
    /\ UNCHANGED <<setup, plan, err, open, cancelled, loops, conns, shutdown>>

AllStopped ==
    /\ svc = "up" /\ shutdown /\ stage = "none" /\ ToStop = {}
    /\ svc' = "done"
    /\ UNCHANGED <<setup, plan, idx, bound, srv, victim, stage, err, open, cancelled, loops, conns, shutdown>>

\* runMimic, on its way out.
Shutdown ==
    /\ ~shutdown /\ shutdown' = TRUE
    /\ UNCHANGED <<setup, plan, goroutine, loops, conns>>

\* Accept fails on a closed listener, and the context says why; a UDP loop
\* looks at the context every second.
LoopEnds(p) ==
    /\ p \in loops /\ p \notin open /\ p \in cancelled
    /\ loops' = loops \ {p}
    /\ UNCHANGED <<setup, plan, goroutine, conns, shutdown>>
-----------------------------------------------------------------------------
(* Connections.                                                            *)

At(c, phases) == conns[c].ph \in phases
Service(c) == Owner(conns[c].port)
Is(c, n) == conns[c].port # 0 /\ Service(c) = n
IsTemplate(c) == conns[c].port # 0 /\ Service(c) \notin Honeypots
Manifest(c) == Manifests[Service(c)]
Options == SetProfileOptions(setup.profile)
Matched(c, data) == Match(NewProbeMatcher(Manifest(c).probes, Options), data)

Become(c, ph, out, s) ==
    /\ conns' = [conns EXCEPT ![c] = [port |-> @.port, ph |-> ph, out |-> out, s |-> s]]
    /\ UNCHANGED <<setup, plan, goroutine, loops, shutdown>>
Move(c, ph) == Become(c, ph, conns[c].out, conns[c].s)

\* Where a handler starts.
FirstPhase(n, p) ==
    CASE n = "smb_honeypot" -> IF p = 139 THEN "nbss" ELSE "loop"
      [] n = "ftp_honeypot" -> "ctl"
      [] n = "ssh_honeypot" -> "auth"
      [] n = "rdp"          -> "x224"
      [] p \in Dynamic      -> "rpc"
      [] OTHER              -> IF Manifests[n].tls THEN "hello" ELSE "greet"

FirstSession(n) ==
    CASE n = "ftp_honeypot" -> ftpSession
      [] n = "ssh_honeypot" -> [tries |-> 0]
      [] n = "rdp"          -> rdpSession
      [] OTHER              -> NoSession

IsTCP(p) == Owner(p) \in DOMAIN Manifests \ Honeypots => Manifests[Owner(p)].protocol = "tcp"

Accept(c, p) ==
    /\ conns[c] = Free /\ p \in open /\ (IsTCP(p) = TRUE)
    /\ Cardinality({d \in Slots : conns[d] # Free}) < setup.slots
    /\ conns' = [conns EXCEPT ![c] = [port |-> p, ph |-> FirstPhase(Owner(p), p),
                                      out |-> NoReply, s |-> FirstSession(Owner(p))]]
    /\ UNCHANGED <<setup, plan, goroutine, loops, shutdown>>

\* The handler returns: the connection is closed and leaves the wait group.
Close(c) ==
    /\ At(c, {"end", "stray"})
    /\ conns' = [conns EXCEPT ![c] = Free]
    /\ UNCHANGED <<setup, plan, goroutine, loops, shutdown>>

\* A read ends without data: the peer is gone, or the read deadline passed.
\* An authenticated shell has no deadline.
Timed == {"first", "next", "hello", "handshake", "rpc", "drain", "nbss", "x224", "auth"}
ReadFails(c) == At(c, Timed \cup {"ctl", "shell"}) /\ Move(c, "end")

\* The conversation loops look at the context before every read.
\* Mutant: they do not.
NextRoundAnyway(c) == At(c, {"loop"}) /\ Move(c, "next")
NextRound(c) ==
    /\ At(c, {"loop"})
    /\ Move(c, IF conns[c].port \in cancelled THEN "end" ELSE "next")

\* The banner of a server that speaks first: the probe that nothing matches.
Greet(c) ==
    /\ At(c, {"greet"})
    /\ Become(c, "first", IF Manifest(c).speaksFirst THEN Answer(Matched(c, <<>>), Options, LeakStore)
                          ELSE NoReply, NoSession)

\* Data for a template service.  The first probe that matches nothing gets
\* the default response, a later one is passed over; without an answer the
\* first probe ends the connection, and with one only a stateful service
\* goes on.
Probe(c, data) ==
    /\ At(c, {"first", "next"}) /\ IsTemplate(c)
    /\ LET probe == Matched(c, data)
           reply == IF probe = NoProbe /\ At(c, {"first"})
                    THEN GetResponse(Manifest(c).default, <<>>, Options, LeakStore)
                    ELSE Answer(probe, Options, LeakStore)
           goes  == \/ At(c, {"next"})
                    \/ probe # NoProbe /\ reply # NoReply /\ Manifest(c).stateful
       IN  Become(c, IF goes THEN "loop" ELSE "end", reply, NoSession)

\* A ClientHello: a scanner's is answered with a canned ServerHello.
ScannerHello == <<"hello", "jarm">>
Hello(c, data) ==
    /\ At(c, {"hello"})
    /\ LET replayed == IF Is(c, "rdp") THEN data = ScannerHello ELSE Matched(c, data) # NoProbe
       IN  Move(c, IF replayed THEN "end" ELSE "handshake")

\* The X.224 reply set a write deadline that covers the rest of the RDP
\* connection; the handshake and the challenge are written under it.
WriteDeadlinePasses(c) ==
    /\ Is(c, "rdp") /\ At(c, {"hello", "handshake", "loop", "next"}) /\ ~conns[c].s.late
    /\ Become(c, conns[c].ph, NoReply, [conns[c].s EXCEPT !.late = TRUE])

Handshake(c) ==
    /\ At(c, {"handshake"})
    /\ IF Is(c, "rdp") THEN Move(c, IF conns[c].s.late THEN "end" ELSE "loop")
       ELSE Move(c, IF Manifest(c).backend = "http" THEN "backend" ELSE "drain")

\* serveTLSBackend answers whatever the read returned, nothing included.
Backend(c, req) ==
    /\ At(c, {"backend"})
    /\ Become(c, "end", TLSBackendHTTPResponse(req, Options, LeakStore), NoSession)

\* A dynamic RPC port acknowledges or refuses a bind and drains; what is not
\* a PDU ends the connection.
RpcRequest(c, pdu) ==
    /\ At(c, {"rpc"})
    /\ Move(c, IF pdu THEN "drain" ELSE "end")

\* The NetBIOS session request, X.224 request or SMB frame is good or not.
Frame(c, good) ==
    /\ At(c, {"nbss", "x224"}) \/ (At(c, {"next"}) /\ Is(c, "smb_honeypot"))
    /\ Move(c, IF ~good THEN "end" ELSE IF Is(c, "rdp") THEN "hello" ELSE "loop")

TsRequest(c, pdu) ==
    /\ At(c, {"next"}) /\ Is(c, "rdp")
    /\ LET then == serveCredSSP(conns[c].s, pdu)
       IN  Become(c, then.ph, NoReply, then.sess)

FtpCommand(c, command) ==
    /\ At(c, {"ctl"})
    /\ LET then == dispatch(conns[c].s, command.cmd, command.arg)
       IN  Become(c, then.ph, NoReply, then.sess)

\* The goroutine beside every control connection closes it on shutdown; a
\* transfer under way does not notice.
ControlClosed(c) ==
    /\ At(c, {"ctl"}) /\ conns[c].port \in cancelled
    /\ Move(c, "end")

\* acceptData waits 10 s; the transfer itself has no deadline.
DataAccepted(c) == At(c, {"accept"}) /\ Become(c, "data", NoReply, acceptData(conns[c].s))
NoDataConnection(c) == At(c, {"accept"}) /\ Become(c, "ctl", NoReply, acceptData(conns[c].s))
Transferred(c) == At(c, {"data"}) /\ Move(c, "ctl")

\* The password callback; the SSH library gives up after MaxAuthTries.
SshLogin(c, login) ==
    /\ At(c, {"auth"})
    /\ LET tries == conns[c].s.tries + 1
       IN  IF checkCred(login[1], login[2]) THEN Become(c, "shell", NoReply, shellSession(login[1]))
           ELSE IF tries < MaxAuthTries THEN Become(c, "auth", NoReply, [tries |-> tries])
           ELSE Move(c, "end")

\* A session channel is served by a goroutine of its own, with its own working
\* directory, which is not in the wait group: it may outlive its connection
\* until the command it executes is over.
Channel(c) == At(c, {"shell"}) /\ Become(c, "shell", NoReply, shellSession(conns[c].s.user))
SessionLeft(c) ==
    /\ At(c, {"shell"})
    /\ conns' = [conns EXCEPT ![c] = [Free EXCEPT !.ph = "stray"]]
    /\ UNCHANGED <<setup, plan, goroutine, loops, shutdown>>

Cd(c, arg) == At(c, {"shell"}) /\ Become(c, "shell", NoReply, cmdCd(conns[c].s, arg))
-----------------------------------------------------------------------------
Goroutine ==
    Spawn \/ Listen \/ ListenFails \/ Fail \/ (\E n \in ToStop : BeginStop(n))
    \/ PoolDrained \/ StopReturns \/ AllStopped

Client(c) ==
    \/ \E p \in open : Accept(c, p)
    \/ ReadFails(c)
    \/ \E d \in ClientData : Probe(c, d) \/ Hello(c, d) \/ Backend(c, d)
    \/ \E b \in BOOLEAN : Frame(c, b) \/ RpcRequest(c, b)
    \/ Handshake(c) \/ WriteDeadlinePasses(c)
    \/ \E pdu \in {"negotiate", "auth", "other"} : TsRequest(c, pdu)
    \/ \E cmd \in FtpCommands : FtpCommand(c, cmd)
    \/ DataAccepted(c) \/ Transferred(c)
    \/ \E l \in Logins : SshLogin(c, l)
    \/ Channel(c) \/ SessionLeft(c) \/ \E a \in CdArgs : Cd(c, a)

\* What the server does by itself: steps, and deadlines that pass.
Server(c) ==
    \/ Close(c) \/ NextRound(c) \/ Greet(c)
    \/ At(c, Timed) /\ ReadFails(c)
    \/ Backend(c, <<>>) \/ NoDataConnection(c) \/ ControlClosed(c)

Next ==
    \/ Goroutine \/ Shutdown
    \/ \E p \in loops : LoopEnds(p)
    \/ \E c \in Slots : Client(c) \/ Server(c)

AllPorts == UNION {Ports(n) : n \in ToSet(plan)}

\* Goroutines run and deadlines pass.  The goroutine that closes an FTP control
\* connection does so whatever the client and the handler are at, so that the
\* reads of the control connection cannot win for ever.  Nothing makes a client
\* answer, leave a shell or read what a transfer writes.
Fairness ==
    /\ WF_vars(Goroutine)
    /\ WF_vars(\E p \in loops : LoopEnds(p))
    /\ \A c \in Slots : WF_vars(Server(c)) /\ SF_vars(ControlClosed(c))

Spec == Init /\ [][Next]_vars /\ Fairness
-----------------------------------------------------------------------------
\* Types of the state: a service listens only once it has begun, and every
\* loop and every connection is on a port of the plan.
TypeOK ==
    /\ svc \in {"off", "starting", "failing", "failed", "up", "done"}
    /\ idx \in 1 .. Len(plan) + 1 /\ bound \in 0 .. 1 + Len(DynPorts)
    /\ srv \in [ToSet(plan) -> {"none", "up", "skipped", "failed", "down"}]
    /\ stage \in {"none", "pool", "wait"} /\ victim \in ToSet(plan) \cup {""}
    /\ open \subseteq loops /\ loops \subseteq AllPorts /\ cancelled \subseteq AllPorts
    /\ \A c \in Slots : conns[c].port \in AllPorts \cup {0}

\* The resolved list is one that can be served: no two services of it want the
\* same port (they would take each other for a bind conflict), and on a
\* workstation, whose firewall drops what ServiceListenPorts does not name,
\* every TCP port that is bound is one a client can reach.
PlanIsServable ==
    /\ \A m, n \in ToSet(plan) : m # n => Ports(m) \cap Ports(n) = {}
    /\ Len(plan) = Cardinality(ToSet(plan))
    /\ DropsUnserved(setup.profile) => open \subseteq ServiceListenPorts(plan, setup.profile)

\* The web server has one identity: every HTTP reply declares the length it
\* has, its page and its Server header are of the same make, and that is the
\* make of the profile, on port 80 as behind TLS.  (On a profile that is
\* neither Windows nor Linux the manifests mix IIS and nginx, and a Linux run
\* of "all" puts its Server header on the HTTP.sys page of port 5357.)
PagesAgree ==
    \A c \in Slots : LET r == conns[c].out IN r.http =>
        /\ r.clen = r.body
        /\ setup.profile.family \in {"windows", "linux", "nil"} /\ Service(c) \in {"http", "https"} =>
              /\ r.page \in {"plain", r.server}
              /\ r.server = Make(setup.profile)

\* A server that was stopped is gone, and one that was given up holds no
\* port: Stop returns only when no accept loop and no connection is left that
\* could still take or serve clients.  (A command of an SSH session whose
\* connection is gone may still be executing.)
StoppedIsGone ==
    /\ \A n \in ToSet(plan) :
         /\ srv[n] = "down" => Quiet(Ports(n))
         /\ srv[n] \in {"down", "skipped", "failed"} => open \cap Ports(n) = {}
    /\ svc = "done" => open = {} /\ loops = {} /\ \A c \in Slots : conns[c].port = 0

\* FTP hands out listings and files only to the user whose password it
\* accepted last, and always from a directory that exists; a shell stands in
\* a directory once a cd has succeeded (before, a user name typed in capitals
\* has a home that the file system lacks).
SessionsAreSound ==
    \A c \in Slots :
        /\ At(c, {"accept", "data"}) => conns[c].s.as = conns[c].s.user
        /\ At(c, {"ctl", "accept", "data"}) => IsDir(FtpTree, conns[c].s.cwd)
        /\ At(c, {"shell"}) /\ conns[c].s.moved => IsDir(buildVFS, conns[c].s.cwd)

\* Stopping ends: the goroutine is done (or has failed while starting) unless
\* the server it waits for is held by a client with an open shell or with a
\* transfer that it does not read.
Held == \E c \in Slots : At(c, {"shell", "data"}) /\ stage = "wait" /\ conns[c].port \in Ports(victim)
StopCompletes == shutdown ~> (svc \in {"done", "failed"} \/ Held)

\* The servers keep the contract that runMimic relies on: ServiceGroup, with
\* the servers that are up as the running ones.
Group == INSTANCE ServiceGroup
            WITH running <- Cardinality({n \in ToSet(plan) : srv[n] = "up"})
KeepsContract == Group!Spec
=============================================================================
