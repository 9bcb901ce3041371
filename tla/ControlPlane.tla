---------------------------- MODULE ControlPlane ----------------------------
(***************************************************************************)
(* The local control plane (internal/control) of a running instance, and   *)
(* the configuration file it edits.  Server.accept starts one goroutine    *)
(* per connection; handle decodes one request, authorizes the peer's       *)
(* kernel-attested credentials, emits an audit event and then performs the *)
(* operation.  config.set (cmd/mimic/control_hooks.go) loads the file,     *)
(* patches and validates it, copies the old file to .bak and rewrites the  *)
(* file, each write being an O_TRUNC open followed by the write proper.    *)
(* No lock orders two handlers, the process may be killed between any two  *)
(* of these calls, and a write may fail after its truncation.              *)
(*                                                                         *)
(* Linux peers only: a peer is a uid and a gid.                            *)
(***************************************************************************)
EXTENDS Naturals, Sequences, SequencesExt, FiniteSets

CONSTANTS
    Conns,        \* connections that may be open at a time
    Peers,        \* [uid, gid] of the processes that connect
    Roles,        \* rbac.roles: sequence of [uids, gids, allow]
    Ops,          \* operations clients ask for
    Patches,      \* config patches clients send
    Initial,      \* the configuration on disk at the start
    KnownProfiles,  \* values of the profile field that name a profile
    DiskFails,    \* a write may fail (disk full)
    CredFails,    \* SO_PEERCRED may fail
    MaxRequests, MaxCrashes     \* bounds

\* A configuration, by section: "rbac" stands for everything that no patch can
\* name (rbac, control, events, credentials ...).  0: unset.
Fields == {"profile", "services", "rbac"}
Editable == {"profile", "services"}
Value == 0 .. 3
Config == [Fields -> Value]
Defaults == [f \in Fields |-> 0]
Role == [uids : SUBSET Nat, gids : SUBSET Nat, allow : SUBSET STRING]

ASSUME ControlAssumption ==
    /\ Peers \subseteq [uid : Nat, gid : Nat]
    /\ Initial \in Config
    /\ Roles \in Seq(Role)
    /\ \A q \in Patches : DOMAIN q \subseteq Editable /\ \A f \in DOMAIN q : q[f] \in Value
    /\ KnownProfiles \subseteq Value
    /\ {DiskFails, CredFails} \subseteq BOOLEAN
    /\ MaxRequests \in Nat /\ MaxCrashes \in Nat

VARIABLES
    server,     \* "up", "stopping", "stopped" or "crashed"
    pc,         \* per connection: where its handler is
    req,        \* the request it serves
    work,       \* the patched configuration it holds
    copy,       \* the old file it holds for the backup
    file, bak,  \* the configuration file and its .bak
    roles,      \* RoleAuthorizer.roles, fixed when the instance starts
    crashes,
    trail,      \* audit events
    effects,    \* history: requests that changed something
    committed,  \* history: the last configuration a handler finished saving
    disturbed   \* history: two saves overlapped, or one could not be written

disk == <<file, bak>>
history == <<trail, effects, committed>>
vars == <<server, pc, req, work, copy, disk, roles, crashes, history, disturbed>>

\* Contents of a file.
Whole(c) == [kind |-> "whole", cfg |-> c]
Empty == [kind |-> "empty", cfg |-> Defaults]
Absent == [kind |-> "absent", cfg |-> Defaults]
Torn == [kind |-> "torn", cfg |-> Defaults]

-----------------------------------------------------------------------------
(* Authorization.                                                          *)

NormalizeOp(op) ==
    CASE op = "service.restart" -> "services.restart"
      [] op = "service.stop"    -> "services.stop"
      [] op = "service.start"   -> "services.start"
      [] OTHER -> op

\* The "<prefix>.*" pattern that covers an operation, if it has a prefix.
Wildcard(op) ==
    CASE op \in {"services.restart", "services.stop", "services.start", "services.list"} -> "services.*"
      [] op \in {"config.get", "config.set", "config.validate"} -> "config.*"
      [] op = "logs.file" -> "logs.*"
      [] op = "profiles.list" -> "profiles.*"
      [] op \in {"service.restart", "service.stop", "service.start"} -> "service.*"
      [] OTHER -> op

opAllowed(allow, op) == {"*", op, Wildcard(op)} \cap allow # {}
roleMatchesPeer(r, p) == p.uid \in r.uids \/ p.gid \in r.gids

\* Authorize: root, or the first role that matches the peer and allows the
\* operation; a matching role that does not allow it is passed over.
\* Mutant: the first role that matches the peer decides.
FirstRoleDecides(p, op) ==
    \/ p.uid = 0
    \/ LET i == SelectInSeq(roles, LAMBDA r : roleMatchesPeer(r, p))
       IN  i # 0 /\ opAllowed(roles[i].allow, op)
Authorize(p, op) ==
    \/ p.uid = 0
    \/ SelectInSeq(roles, LAMBDA r : roleMatchesPeer(r, p) /\ opAllowed(r.allow, op)) # 0

\* The zero Peer that peerCred returns with an error.
NoPeer == [uid |-> 0, gid |-> 0]
\* Mutant: the error of peerCred is not looked at.
CredUnchecked(q) == Authorize(q.peer, q.op)
Permitted(q) == Authorize(q.peer, q.op) /\ q.cred

-----------------------------------------------------------------------------
(* Configuration.                                                          *)

\* Mutant: the patch goes on top of the defaults.
PatchDefaults(c, q) == [f \in Fields |-> IF f \in DOMAIN q THEN q[f] ELSE Defaults[f]]
ApplyPatch(c, q) == [f \in Fields |-> IF f \in DOMAIN q THEN q[f] ELSE c[f]]

ValidateEditableConfig(c) ==
    /\ c["profile"] # 0 \/ c["services"] # 0
    /\ c["profile"] # 0 => c["profile"] \in KnownProfiles

\* What LoadAppConfig may make of a file: a torn one fails to parse or parses
\* as something.  {}: an error.
LoadAppConfig(f) == IF f.kind = "torn" THEN {{}} \cup {{c} : c \in Config} ELSE {{f.cfg}}

\* What a write at offset 0 leaves: beyond its end the bytes of another writer
\* stay, unless the file was truncated meanwhile.
Written(old, new) ==
    IF new.kind = "empty" THEN {old}
    ELSE IF old.kind \in {"empty", "absent"} \/ old = new THEN {new}
    ELSE {new, Torn}

-----------------------------------------------------------------------------
Idle == [id |-> 0, op |-> "ping", peer |-> NoPeer, cred |-> FALSE, dry |-> FALSE,
         patch |-> <<>>]

RolesOf(c) == IF c["rbac"] # 0 THEN Roles ELSE <<>>

Init ==
    /\ server = "up"
    /\ pc = [c \in Conns |-> "none"]
    /\ req = [c \in Conns |-> Idle]
    /\ work = [c \in Conns |-> Defaults]
    /\ copy = [c \in Conns |-> Empty]
    /\ file = Whole(Initial) /\ bak = Absent
    /\ roles = RolesOf(Initial)
    /\ crashes = 0
    /\ trail = {} /\ effects = {} /\ committed = Initial
    /\ disturbed = FALSE

Goto(c, l) == pc' = [pc EXCEPT ![c] = l]
\* The response is written, the connection closed, the handler's data gone.
Respond(c) ==
    /\ pc' = [pc EXCEPT ![c] = "none"]
    /\ req' = [req EXCEPT ![c] = Idle]
    /\ work' = [work EXCEPT ![c] = Defaults]
    /\ copy' = [copy EXCEPT ![c] = Empty]

\* What clients ask: only the config operations carry a patch.
ConfigOps == {"config.set", "config.validate"}
Asked == [op : Ops \cap ConfigOps, dry : BOOLEAN, patch : Patches]
           \cup [op : Ops \ ConfigOps, dry : {FALSE}, patch : {<<>>}]

\* A client connects and the accept loop starts its handler.
Connect(c) ==
    /\ server = "up" /\ pc[c] = "none"
    /\ \/ \E p \in Peers : req' = [req EXCEPT ![c].peer = p, ![c].cred = TRUE]
       \/ CredFails /\ UNCHANGED req
    /\ Goto(c, "decode")
    /\ UNCHANGED <<server, work, copy, disk, roles, crashes, history, disturbed>>

\* Nothing decodable arrives before the deadline: "bad request", no audit.
\* Mutant: the connection has no deadline.
NoDeadline(c) == pc[c] = "decode" /\ server = "crashed" /\ UNCHANGED vars
Deadline(c) ==
    /\ pc[c] = "decode"
    /\ Respond(c)
    /\ UNCHANGED <<server, disk, roles, crashes, history, disturbed>>

\* A request arrives: normalize, authorize, audit, and refuse or go on.
Request(c, op, dry, patch) ==
    /\ pc[c] = "decode"
    /\ Cardinality(trail) < MaxRequests
    /\ LET q == [req[c] EXCEPT !.id = Cardinality(trail) + 1, !.op = NormalizeOp(op),
                               !.dry = dry \/ op = "config.validate", !.patch = patch]
       IN  /\ trail' = trail \cup
                  {[id |-> q.id, peer |-> q.peer, cred |-> q.cred, op |-> q.op, asked |-> op,
                    roles |-> roles, allowed |-> Permitted(q)]}
           /\ IF Permitted(q)
              THEN /\ Goto(c, IF q.op \in ConfigOps THEN "load" ELSE "perform")
                   /\ req' = [req EXCEPT ![c] = q]
                   /\ UNCHANGED <<work, copy>>
              ELSE Respond(c)
    /\ UNCHANGED <<server, disk, roles, crashes, effects, committed, disturbed>>

\* Every other operation: stop and (unless ScheduleRestart fails) restart take
\* effect, services.start is not implemented, the rest only reads.
Perform(c) ==
    /\ pc[c] = "perform"
    /\ \/ req[c].op \in {"services.stop", "services.restart"} /\ effects' = effects \cup {req[c]}
       \/ req[c].op # "services.stop" /\ UNCHANGED effects
    /\ Respond(c)
    /\ UNCHANGED <<server, disk, roles, crashes, trail, committed, disturbed>>

\* A handler between its LoadAppConfig and the end of its SaveAppConfig.
Saving(c) == pc[c] \in {"backup", "bakTrunc", "bakWrite", "trunc", "write"}

\* SetConfig up to PersistConfig: load, patch (an empty patch is an error),
\* validate, and stop there for a dry run.
Load(c) ==
    /\ pc[c] = "load"
    /\ \E got \in LoadAppConfig(file) :
         LET new == {ApplyPatch(x, req[c].patch) : x \in got} IN
         IF /\ new # {} /\ DOMAIN req[c].patch # {}
            /\ \A x \in new : ValidateEditableConfig(x)
            /\ ~req[c].dry
         THEN /\ work' = [work EXCEPT ![c] = CHOOSE x \in new : TRUE]
              /\ Goto(c, "backup")
              /\ disturbed' = (disturbed \/ \E d \in Conns : Saving(d))
              /\ UNCHANGED <<req, copy>>
         ELSE Respond(c) /\ UNCHANGED disturbed
    /\ UNCHANGED <<server, disk, roles, crashes, history>>

\* PersistConfig reads the old file.
\* Mutant: no copy is kept.
NoBackup(c) ==
    /\ pc[c] = "backup"
    /\ Goto(c, "trunc")
    /\ UNCHANGED <<server, req, work, copy, disk, roles, crashes, history, disturbed>>
Backup(c) ==
    /\ pc[c] = "backup"
    /\ copy' = [copy EXCEPT ![c] = file]
    /\ Goto(c, "bakTrunc")
    /\ UNCHANGED <<server, req, work, disk, roles, crashes, history, disturbed>>

BakTruncate(c) ==
    /\ pc[c] = "bakTrunc"
    /\ bak' = Empty
    /\ Goto(c, "bakWrite")
    /\ UNCHANGED <<server, req, work, copy, file, roles, crashes, history, disturbed>>

BakWrite(c) ==
    /\ pc[c] = "bakWrite"
    /\ bak' \in Written(bak, copy[c])
    /\ Goto(c, "trunc")
    /\ UNCHANGED <<server, req, work, copy, file, roles, crashes, history, disturbed>>

\* SaveAppConfig.
Truncate(c) ==
    /\ pc[c] = "trunc"
    /\ file' = Empty
    /\ Goto(c, "write")
    /\ UNCHANGED <<server, req, work, copy, bak, roles, crashes, history, disturbed>>

Write(c) ==
    /\ pc[c] = "write"
    /\ file' \in Written(file, Whole(work[c]))
    /\ committed' = work[c]
    /\ effects' = effects \cup {req[c]}
    /\ Respond(c)
    /\ UNCHANGED <<server, bak, roles, crashes, trail, disturbed>>

\* A write fails after its truncation, with nothing or a prefix of the data
\* written; the error goes to the client.
WriteFails(c) ==
    /\ DiskFails
    /\ \/ /\ pc[c] = "bakWrite"
          /\ bak' \in {bak, Torn}
          /\ UNCHANGED <<file, disturbed>>
       \/ /\ pc[c] = "write"
          /\ file' \in {file, Torn} /\ disturbed' = TRUE
          /\ UNCHANGED bak
    /\ Respond(c)
    /\ UNCHANGED <<server, roles, crashes, history>>

-----------------------------------------------------------------------------
(* The instance and its operator.                                          *)

\* runMimic returns and its deferred Server.Stop closes the listener ...
Stop ==
    /\ server = "up"
    /\ server' = "stopping"
    /\ UNCHANGED <<pc, req, work, copy, disk, roles, crashes, history, disturbed>>

\* ... and waits for the handlers.
Stopped ==
    /\ server = "stopping" /\ \A c \in Conns : pc[c] = "none"
    /\ server' = "stopped"
    /\ UNCHANGED <<pc, req, work, copy, disk, roles, crashes, history, disturbed>>

Crash ==
    /\ server \in {"up", "stopping"} /\ crashes < MaxCrashes
    /\ server' = "crashed"
    /\ crashes' = crashes + 1
    /\ pc' = [c \in Conns |-> "none"]
    /\ req' = [c \in Conns |-> Idle]
    /\ work' = [c \in Conns |-> Defaults]
    /\ copy' = [c \in Conns |-> Empty]
    /\ UNCHANGED <<disk, roles, history, disturbed>>

\* The next instance: without a readable, valid file that enables it there is
\* no control plane.
Boot ==
    /\ server \in {"stopped", "crashed"}
    /\ file.kind = "whole" /\ ValidateEditableConfig(file.cfg)
    /\ server' = "up"
    /\ roles' = RolesOf(file.cfg)
    /\ UNCHANGED <<pc, req, work, copy, disk, crashes, history, disturbed>>

\* The operator puts the backup in place of a file that is damaged.
Restore ==
    /\ server \in {"stopped", "crashed"}
    /\ file.kind # "whole" /\ bak.kind = "whole"
    /\ file' = bak
    /\ UNCHANGED <<server, pc, req, work, copy, bak, roles, crashes, history, disturbed>>

-----------------------------------------------------------------------------
Handler(c) == \/ Perform(c) \/ Load(c) \/ Backup(c) \/ BakTruncate(c) \/ BakWrite(c)
              \/ Truncate(c) \/ Write(c) \/ WriteFails(c)

Next ==
    \/ \E c \in Conns :
         \/ Connect(c) \/ Deadline(c) \/ Handler(c)
         \/ \E q \in Asked : Request(c, q.op, q.dry, q.patch)
    \/ Stop \/ Stopped \/ Crash \/ Boot \/ Restore

\* Handlers are scheduled, the 30 s deadline passes, Stop returns once it can.
\* Nothing makes a client send its request.
Fairness ==
    /\ \A c \in Conns : WF_vars(Handler(c)) /\ WF_vars(Deadline(c))
    /\ WF_vars(Stopped)

Spec == Init /\ [][Next]_vars /\ Fairness
-----------------------------------------------------------------------------
Contents == {Whole(c) : c \in Config} \cup {Empty, Absent, Torn}

\* Types of the state; at most one request is counted per audit event.
TypeOK ==
    /\ server \in {"up", "stopping", "stopped", "crashed"}
    /\ pc \in [Conns -> {"none", "decode", "perform", "load", "backup", "bakTrunc",
                         "bakWrite", "trunc", "write"}]
    /\ work \in [Conns -> Config] /\ copy \in [Conns -> Contents]
    /\ file \in Contents \ {Absent} /\ bak \in Contents
    /\ \A c \in Conns : req[c].id \in 0 .. MaxRequests
    /\ roles \in {Roles, <<>>} /\ crashes \in 0 .. MaxCrashes
    /\ committed \in Config /\ disturbed \in BOOLEAN

\* Nothing is changed without a trace: a saved configuration, a stop or a
\* restart goes back to one request that is in the audit trail as granted,
\* whose peer the kernel identified, and a configuration is never saved by a
\* dry run.
EffectsAudited ==
    \A e \in effects :
        /\ e.cred /\ (e.op = "config.set" => ~e.dry)
        /\ e.op \in {"config.set", "services.stop", "services.restart"}
        /\ \E t \in trail : t.id = e.id /\ t.op = e.op /\ t.peer = e.peer /\ t.allowed

\* The trail tells the truth about who may do what: access is granted exactly
\* when the peer is root or some role of that instance that names the peer
\* lists the operation, a pattern that covers it, or "*" -- whatever the order
\* of the roles, and an old operation name counts as its new one.
Names(r, p) == p.uid \in r.uids \/ p.gid \in r.gids
Lists(r, op) == \E a \in r.allow : a \in {"*", NormalizeOp(op), Wildcard(NormalizeOp(op))}
TrailIsTrue ==
    \A t \in trail :
        t.allowed <=> /\ t.cred
                      /\ \/ t.peer.uid = 0
                         \/ \E i \in DOMAIN t.roles :
                                Names(t.roles[i], t.peer) /\ Lists(t.roles[i], t.asked)

\* ConfigPatch: "Omitted fields are left unchanged": what a finished save
\* leaves behind differs from the save before it only in fields of its patch.
Saves(c) == pc[c] = "write" /\ effects' # effects /\ pc'[c] = "none"
PatchesExact ==
    [][\A c \in Conns : Saves(c) =>
           \A f \in Fields \ DOMAIN req[c].patch : committed'[f] = committed[f]]_vars

\* The same as long as no two saves overlapped and none failed to write the
\* file: requests one after the other compose, across crashes, restores and
\* instances.
OmittedUnchanged ==
    [][\A c \in Conns : Saves(c) /\ ~disturbed =>
           \A f \in Fields \ DOMAIN req[c].patch : committed'[f] = committed[f]]_vars

\* Wherever the process is killed, a whole configuration is on disk, in the
\* file or in the .bak PersistConfig keeps, and it is at most one save old;
\* a second save at the same time is what can spoil both.  An instance that
\* stops in an orderly way does not cut a save in half.
Recoverable ==
    ~disturbed =>
        /\ \/ file = Whole(committed)
           \/ bak.kind = "whole" /\ file.kind = "empty" /\ bak.cfg = committed
        /\ server = "stopped" => file.kind = "whole"

\* Server.Stop returns although a client may stay silent for ever.
StopReturns == server = "stopping" ~> server # "stopping"
=============================================================================
