----------------------------- MODULE SmbSession -----------------------------
(***************************************************************************)
(* One connection of the SMB honeypot (internal/honeypot/smb/server.go,    *)
(* server_smb1.go, session.go, negotiate.go, nbss.go).  handleConn reads a *)
(* frame and runs one handler to its end before it reads the next, so a    *)
(* frame is one action.  The client may send any command in any state and  *)
(* may mix SMBv1 and SMBv2 frames on the connection.                       *)
(*                                                                         *)
(* A response is reduced to its status class.  Counters, log lines, event  *)
(* emission (EventBus takes it from there) and wire layouts are left out.  *)
(* Starting and stopping the server is in module Servers.                 *)
(***************************************************************************)
EXTENDS SmbPipe

CONSTANTS Configs,        \* server configurations: [maxDialect, smb1, allowGuest, nbss]
          Offers,         \* dialect sets an SMBv2 NEGOTIATE may offer
          Children,       \* entries of a directory of the file system
          MaxSetups,      \* bound: negotiations and session setups on the connection
          MaxTrees,       \* bound: tree connects of the connection, both protocols
          MaxHandles,     \* bound: handles opened on the connection, both protocols
          MaxFrags,       \* bound: fragments of one request
          MaxRoom         \* bound: entries a client's output buffer can hold

ASSUME SmbAssumption ==
    /\ MaxSetups \in Nat /\ MaxTrees \in Nat /\ MaxHandles \in Nat
    /\ MaxFrags \in Nat \ {0} /\ MaxRoom \in Nat
    /\ Children \in Seq(STRING)

VARIABLES cfg,       \* the server's configuration, fixed
          conn,      \* "nbss", "serving", "closed", or "panicked" (nil dereference)
          sess,      \* the Session: id, state, dialect, challenge, flags
          trees,     \* SMBv2 tree id -> share, trees1 for SMBv1
          trees1,
          handles,   \* SMBv2 volatile id -> FileHandle, fids for SMBv1 pipes
          fids,
          next,      \* the id counters: tree, tid, handle, fid (and the setups, for the bound)
          reply,     \* status class of the last response, "none" if there was none
          seen       \* history: challenges sent, a proof for another one accepted,
                     \* an SMBv1 session setup

vars == <<cfg, conn, sess, trees, trees1, handles, fids, next, reply, seen>>

-----------------------------------------------------------------------------
(* The configuration and the protocol's constants.                         *)

dialectSMB1 == 257
dialect311  == 785
supportedDialects == <<785, 770, 768, 528, 514>>

StateNew == 0
StateNegotiated == 1
StateSetupPending == 2
StateAuthenticated == 3

AdminShares == {"ADMIN$"}           \* isAdminShare: C$ and ADMIN$
KnownShares == {"IPC$", "ADMIN$", "PUBLIC"}
ShareNames  == KnownShares \cup {"NOSUCH"}

isKnownShare(share) == share \in KnownShares
isAdminShare(share) == share \in AdminShares

\* VFS.resolve: what a path of a share can name; nil when nothing matches.
resolve(share) == IF share \in KnownShares \ {"IPC$"} THEN {"dir", "file", "hive", "nil"}
                  ELSE {"nil"}

\* selectDialect: the first supported dialect offered at or below the ceiling.
selectDialect(offered, max) ==
    LET ok == {i \in 1..Len(supportedDialects) :
                  supportedDialects[i] <= max /\ supportedDialects[i] \in offered}
    IN  IF ok = {} THEN 0
        ELSE supportedDialects[CHOOSE i \in ok : \A j \in ok : i <= j]

\* What smb1ParseSMB2Dialects reads out of a COM_NEGOTIATE.
Smb1Offers == {{}, {514}, {514, 528, 768, 770, 785}}

newSession == [id |-> 0, state |-> StateNew, dialect |-> 0, challenge |-> 0,
               preauth |-> FALSE, signing |-> FALSE, guest |-> FALSE, seeded |-> FALSE]

NoIds == [tree |-> 0, tid |-> 0, handle |-> 0, fid |-> 0, setup |-> 0]

canAccessAdminShare == sess.seeded \/ ~sess.guest

-----------------------------------------------------------------------------
(* Handles.                                                                *)

Listing == <<".", "..">> \o Children

DirHandle      == [kind |-> "dir", idx |-> 0, got |-> <<>>, ended |-> FALSE]
FileHandle(k)  == [kind |-> k, idx |-> 0, got |-> <<>>, ended |-> FALSE]
PipeHandle(nm) == [kind |-> "pipe", pipe |-> newPipeState(nm)]

\* The PDUs a client writes to a pipe; what Write does not look at is fixed.
PDUsFor == [name \in PipeNames |->
    {d \in PDUs : /\ d.op \in OpsOf(name)
                  /\ d.ptype # "request" \/ ~d.first \/ d.len \in {"tiny", "short"}
                        => d.op = "other" /\ d.call = CHOOSE c \in Calls : TRUE
                  /\ d.ptype # "request" \/ d.len = "tiny" => d.first /\ d.last
                  /\ d.ptype # "request" => d.len = "full"}]

\* Within the bound on fragments.
Sendable(p) == IF Len(p.reasm) < MaxFrags THEN PDUsFor[p.name]
               ELSE {d \in PDUsFor[p.name] : d.first}

\* The entries QUERY_DIRECTORY packs: at least one, then what fits; the one
\* that does not fit is put back.
PackedEntries(idx, room) ==
    LET left == Len(Listing) - idx
        fit  == IF room = 0 THEN 1 ELSE room
    IN  IF left < fit THEN left ELSE fit

\* Mutant: the entry that did not fit is not put back.
NextIdxLost(idx, room) ==
    LET n == idx + PackedEntries(idx, room) IN IF n < Len(Listing) THEN n + 1 ELSE n

NextIdx(idx, room) == idx + PackedEntries(idx, room)

\* getHandle: the kind of an open handle, "none" for an id not in the table.
Kind(h) == IF h \in DOMAIN handles THEN handles[h].kind ELSE "none"

-----------------------------------------------------------------------------
(* Actions.  Serving is the guard every frame's handler shares.            *)

Serving == conn = "serving"

Answer(status) == reply' = status

\* A frame whose handler only answers: parse errors and refusals.
JustAnswer(status) == /\ Answer(status)
                      /\ UNCHANGED <<cfg, conn, sess, trees, trees1, handles, fids, next, seen>>

SessionStep(s) == /\ next.setup < MaxSetups
                  /\ sess' = s
                  /\ next' = [next EXCEPT !.setup = @ + 1]
                  /\ UNCHANGED <<cfg, conn, trees, trees1, handles, fids>>

\* negotiateNetBIOSSession: port 139 wants a session request for a name of
\* this host first; anything else is refused and the connection closed.
NetBIOSSession(accepted) ==
    /\ conn = "nbss"
    /\ conn' = IF accepted THEN "serving" ELSE "closed"
    /\ Answer(IF accepted THEN "ok" ELSE "refused")
    /\ UNCHANGED <<cfg, sess, trees, trees1, handles, fids, next, seen>>

\* The session, its trees and its handles live in handleConn's frame.
ConnectionGone(how) ==
    /\ conn' = how
    /\ sess' = newSession
    /\ trees' = <<>> /\ trees1' = <<>> /\ handles' = <<>> /\ fids' = <<>>
    /\ next' = NoIds
    /\ Answer("none")
    /\ seen' = [issued |-> 0, staleProof |-> FALSE, legacySetup |-> FALSE]
    /\ UNCHANGED cfg

\* readFrame fails: the peer closed, the read deadline passed, the frame is
\* too large; or the frame is not SMB2; or the response cannot be written.
ConnectionEnds ==
    /\ conn \in {"nbss", "serving"}
    /\ ConnectionGone("closed")

\* A keep-alive or a frame shorter than a header is skipped without a response.
SkipFrame == Serving /\ UNCHANGED vars

Negotiated(d) == [sess EXCEPT !.state = StateNegotiated, !.dialect = d]

\* NEGOTIATE, and the preauth hash it seeds once the dialect is 3.1.1.
handleNegotiate(offered) ==
    /\ Serving
    /\ LET d == selectDialect(offered, cfg.maxDialect)
           s == IF d = 0 THEN sess ELSE Negotiated(d)
       IN  /\ SessionStep([s EXCEPT !.preauth = @ \/ s.dialect = dialect311])
           /\ Answer(IF d = 0 THEN "refused" ELSE "ok")
    /\ UNCHANGED seen

WithId(s) == [s EXCEPT !.id = 1]

\* SESSION_SETUP round 1: a new challenge replaces the one before.
doChallenge ==
    /\ Serving
    /\ SessionStep([WithId(sess) EXCEPT !.challenge = seen.issued + 1,
                                        !.state = StateSetupPending])
    /\ seen' = [seen EXCEPT !.issued = @ + 1]
    /\ Answer("ok")

\* Mutant: the session does not remember that it is a guest's.
GuestForgotten(s) == IF cfg.allowGuest THEN [s EXCEPT !.state = StateAuthenticated] ELSE s

Guest(s) == IF cfg.allowGuest THEN [s EXCEPT !.state = StateAuthenticated, !.guest = TRUE] ELSE s

\* Mutant: the challenge is not part of the proof.
verifyAnyChallenge(auth) == auth.password

\* verifyCredential: the proof was made with the seeded password over the
\* challenge the session holds.
verifyCredential(auth) == auth.password /\ auth.challenge = sess.challenge

\* deriveSigningKey has a key for every dialect but 3.1.1 without a preauth hash.
CanSign(s) == s.dialect < dialect311 \/ s.preauth

\* SESSION_SETUP round 2.  An AUTH message is its user and its proof; one
\* that does not parse names no seeded user.
doAccept(auth) ==
    /\ Serving
    /\ IF auth.user = "seeded" /\ verifyCredential(auth)
       THEN /\ SessionStep([WithId(sess) EXCEPT !.state = StateAuthenticated, !.seeded = TRUE,
                               !.guest = FALSE, !.signing = @ \/ CanSign(sess)])
            /\ seen' = [seen EXCEPT !.staleProof = @ \/ auth.challenge # seen.issued]
            /\ Answer("ok")
       ELSE /\ SessionStep(Guest(WithId(sess)))
            /\ Answer(IF cfg.allowGuest THEN "ok" ELSE "refused")
            /\ UNCHANGED seen

\* SESSION_SETUP with an empty security buffer.
doAnonymous ==
    /\ Serving
    /\ SessionStep(Guest(WithId(sess)))
    /\ Answer(IF cfg.allowGuest THEN "ok" ELSE "refused")
    /\ UNCHANGED seen

\* A security buffer without a usable NTLM message; CREATE, CLOSE, READ and
\* the others with a body too short for their fields; commands not handled.
Refused == Serving /\ JustAnswer("refused")

handleLogoff == Serving /\ JustAnswer("ok")

handleTreeConnect(share) ==
    /\ Serving
    /\ \/ /\ \/ sess.state < StateAuthenticated
             \/ ~canAccessAdminShare /\ isAdminShare(share)
          /\ JustAnswer("refused")
       \/ /\ sess.state >= StateAuthenticated
          /\ canAccessAdminShare \/ ~isAdminShare(share)
          /\ ~isKnownShare(share)
          /\ JustAnswer("refused")
       \/ /\ sess.state >= StateAuthenticated
          /\ canAccessAdminShare \/ ~isAdminShare(share)
          /\ isKnownShare(share)
          /\ next.tree + next.tid < MaxTrees
          /\ next' = [next EXCEPT !.tree = @ + 1]
          /\ trees' = [t \in DOMAIN trees \cup {next.tree + 1} |->
                          IF t = next.tree + 1 THEN share ELSE trees[t]]
          /\ Answer("ok")
          /\ UNCHANGED <<cfg, conn, sess, trees1, handles, fids, seen>>

\* The tree goes; the handles opened on it stay.
TreeDisconnect(t) ==
    /\ Serving
    /\ trees' = [u \in DOMAIN trees \ {t} |-> trees[u]]
    /\ Answer("ok")
    /\ UNCHANGED <<cfg, conn, sess, trees1, handles, fids, next, seen>>

treePathFor(t) == IF t \in DOMAIN trees THEN trees[t] ELSE ""

Opened(h) ==
    /\ next.handle + next.fid < MaxHandles
    /\ next' = [next EXCEPT !.handle = @ + 1]
    /\ handles' = [i \in DOMAIN handles \cup {next.handle + 1} |->
                      IF i = next.handle + 1 THEN h ELSE handles[i]]
    /\ Answer("ok")
    /\ UNCHANGED <<cfg, conn, sess, trees, trees1, fids>>

\* CREATE: a pipe on IPC$, else a node of the share's tree.
handleCreate(t, name) ==
    /\ Serving
    /\ \/ /\ sess.state < StateAuthenticated
          /\ JustAnswer("refused")
       \/ /\ sess.state >= StateAuthenticated
          /\ treePathFor(t) = "IPC$"
          /\ Opened(PipeHandle(name))
          /\ UNCHANGED seen
       \/ /\ sess.state >= StateAuthenticated
          /\ treePathFor(t) # "IPC$"
          /\ \E node \in resolve(treePathFor(t)) :
                \/ node = "nil" /\ JustAnswer("refused")
                \/ node = "dir" /\ Opened(DirHandle) /\ UNCHANGED seen
                \/ node \in {"file", "hive"} /\ Opened(FileHandle(node)) /\ UNCHANGED seen

\* CLOSE releases any handle; a pipe handle has no node to report on.
handleClose(h) ==
    /\ Serving
    /\ \/ Kind(h) = "none" /\ JustAnswer("refused")
       \/ /\ h \in DOMAIN handles
          /\ handles' = [i \in DOMAIN handles \ {h} |-> handles[i]]
          /\ Answer("ok")
          /\ UNCHANGED <<cfg, conn, sess, trees, trees1, fids, next, seen>>

HandleStep(h, new) == /\ handles' = [handles EXCEPT ![h] = new]
                      /\ UNCHANGED <<cfg, conn, sess, trees, trees1, fids, next>>

\* A handler that dereferences the nil node of a pipe handle panics, and no
\* handler recovers.
Panics == ConnectionGone("panicked")

\* QUERY_DIRECTORY, with or without SL_RESTART_SCAN.
handleQueryDirectory(h, restart, room) ==
    /\ Serving
    /\ \/ /\ Kind(h) # "dir"
          /\ JustAnswer("refused")
       \/ /\ Kind(h) = "dir"
          /\ LET d == IF restart THEN DirHandle ELSE handles[h]
             IN  IF d.idx >= Len(Listing)
                 THEN HandleStep(h, [d EXCEPT !.ended = TRUE]) /\ Answer("refused")
                 ELSE /\ HandleStep(h, [d EXCEPT !.idx = NextIdx(d.idx, room),
                             !.got = @ \o SubSeq(Listing, d.idx + 1,
                                                 d.idx + PackedEntries(d.idx, room))])
                      /\ Answer("ok")
          /\ UNCHANGED seen

\* QUERY_INFO: the file classes read the handle's node, the filesystem
\* classes answer from constants, other classes are not supported.
handleQueryInfo(h, info) ==
    /\ Serving
    /\ \/ Kind(h) = "none" /\ JustAnswer("refused")
       \/ h \in DOMAIN handles /\ info = "unknown" /\ JustAnswer("refused")
       \/ h \in DOMAIN handles /\ info = "filesystem" /\ JustAnswer("ok")
       \/ info = "file" /\ Kind(h) \notin {"none", "pipe"} /\ JustAnswer("ok")
       \/ info = "file" /\ Kind(h) = "pipe" /\ Panics

ReadPipe(p) == IF p.pending = NoReply THEN "refused" ELSE "ok"

\* READ: the queued reply of a pipe, or the content of a file from an offset.
handleRead(h, inside) ==
    /\ Serving
    /\ \/ Kind(h) = "none" /\ JustAnswer("refused")
       \/ /\ Kind(h) = "pipe"
          /\ HandleStep(h, [handles[h] EXCEPT !.pipe = Read(@)])
          /\ Answer(ReadPipe(handles[h].pipe))
          /\ UNCHANGED seen
       \/ Kind(h) = "dir" /\ JustAnswer("refused")
       \/ Kind(h) = "hive" /\ JustAnswer("refused")
       \/ /\ Kind(h) = "file"
          /\ JustAnswer(IF inside THEN "ok" ELSE "refused")

\* pipeContext: the caller counts as authenticated unless it is a guest.
Authenticated == ~sess.guest

\* WRITE: a PDU for a pipe; a write to a file is acknowledged and dropped.
handleWrite(h) ==
    /\ Serving
    /\ \/ Kind(h) = "none" /\ JustAnswer("refused")
       \/ Kind(h) \notin {"none", "pipe"} /\ JustAnswer("ok")
       \/ /\ Kind(h) = "pipe"
          /\ \E d \in Sendable(handles[h].pipe) :
                HandleStep(h, [handles[h] EXCEPT !.pipe = Write(@, d, Authenticated)])
          /\ Answer("ok") /\ UNCHANGED seen

\* IOCTL: FSCTL_PIPE_TRANSCEIVE writes and reads in one frame.
handleIOCtl(h) ==
    /\ Serving
    /\ \/ /\ Kind(h) # "pipe"
          /\ JustAnswer("refused")
       \/ /\ Kind(h) = "pipe"
          /\ \E d \in Sendable(handles[h].pipe) :
                HandleStep(h, [handles[h] EXCEPT !.pipe = Transceive(@, d, Authenticated)])
          /\ Answer("ok") /\ UNCHANGED seen

-----------------------------------------------------------------------------
(* SMBv1.  The handlers keep their own trees and pipe handles and never    *)
(* look at the session's state.                                            *)

\* COM_NEGOTIATE decides the protocol; an upgrade to SMB2 made here does not
\* seed the preauth hash.
handleSMBv1Negotiate(offered) ==
    /\ Serving
    /\ LET d == selectDialect(offered, cfg.maxDialect)
           legacy == cfg.maxDialect = dialectSMB1 \/ (offered = {} /\ cfg.smb1)
       IN  IF legacy THEN SessionStep([sess EXCEPT !.state = StateNegotiated]) /\ Answer("ok")
           ELSE IF d # 0 THEN SessionStep(Negotiated(d)) /\ Answer("ok")
           ELSE SessionStep(sess) /\ Answer("refused")
    /\ UNCHANGED seen

\* COM_SESSION_SETUP_ANDX accepts everyone; the guest flag goes on the wire
\* and not into the session.
handleSMBv1SessionSetup ==
    /\ Serving
    /\ SessionStep([WithId(sess) EXCEPT !.state = StateAuthenticated])
    /\ seen' = [seen EXCEPT !.legacySetup = TRUE]
    /\ Answer("ok")

handleSMBv1TreeConnect(share) ==
    /\ Serving
    /\ \/ ~canAccessAdminShare /\ isAdminShare(share) /\ JustAnswer("refused")
       \/ /\ canAccessAdminShare \/ ~isAdminShare(share)
          /\ ~isKnownShare(share) /\ JustAnswer("refused")
       \/ /\ canAccessAdminShare \/ ~isAdminShare(share)
          /\ isKnownShare(share)
          /\ next.tree + next.tid < MaxTrees
          /\ next' = [next EXCEPT !.tid = @ + 1]
          /\ trees1' = [t \in DOMAIN trees1 \cup {next.tid + 1} |->
                           IF t = next.tid + 1 THEN share ELSE trees1[t]]
          /\ Answer("ok")
          /\ UNCHANGED <<cfg, conn, sess, trees, handles, fids, seen>>

handleSMBv1TreeDisconnect(t) ==
    /\ Serving
    /\ trees1' = [u \in DOMAIN trees1 \ {t} |-> trees1[u]]
    /\ Answer("ok")
    /\ UNCHANGED <<cfg, conn, sess, trees, handles, fids, next, seen>>

\* COM_NT_CREATE_ANDX opens pipes on IPC$ and nothing else.
handleSMBv1NTCreateAndX(t, name) ==
    /\ Serving
    /\ \/ ~(t \in DOMAIN trees1 /\ trees1[t] = "IPC$") /\ JustAnswer("refused")
       \/ /\ t \in DOMAIN trees1 /\ trees1[t] = "IPC$"
          /\ next.handle + next.fid < MaxHandles
          /\ next' = [next EXCEPT !.fid = @ + 1]
          /\ fids' = [f \in DOMAIN fids \cup {next.fid + 1} |->
                         IF f = next.fid + 1 THEN newPipeState(name) ELSE fids[f]]
          /\ Answer("ok")
          /\ UNCHANGED <<cfg, conn, sess, trees, trees1, handles, seen>>

FidStep(f, new) == /\ fids' = [fids EXCEPT ![f] = new]
                   /\ UNCHANGED <<cfg, conn, sess, trees, trees1, handles, next>>

handleSMBv1WriteAndX(f) ==
    /\ Serving
    /\ \/ f \notin DOMAIN fids /\ JustAnswer("refused")
       \/ /\ f \in DOMAIN fids
          /\ \E d \in Sendable(fids[f]) :
                FidStep(f, Write(fids[f], d, Authenticated))
          /\ Answer("ok") /\ UNCHANGED seen

handleSMBv1ReadAndX(f) ==
    /\ Serving
    /\ \/ f \notin DOMAIN fids /\ JustAnswer("refused")
       \/ /\ f \in DOMAIN fids
          /\ FidStep(f, Read(fids[f]))
          /\ Answer(ReadPipe(fids[f]))
          /\ UNCHANGED seen

\* COM_TRANSACTION: TransactNamedPipe, else a LANMAN call or a refusal, which
\* touch no state.
handleSMBv1Transaction(f) ==
    /\ Serving
    /\ \/ JustAnswer("refused")
       \/ /\ f \in DOMAIN fids
          /\ \E d \in Sendable(fids[f]) :
                FidStep(f, Transceive(fids[f], d, Authenticated))
          /\ Answer("ok") /\ UNCHANGED seen

handleSMBv1TransactionLANMAN == Serving /\ JustAnswer("ok")

handleSMBv1Close(f) ==
    /\ Serving
    /\ fids' = [g \in DOMAIN fids \ {f} |-> fids[g]]
    /\ Answer("ok")
    /\ UNCHANGED <<cfg, conn, sess, trees, trees1, handles, next, seen>>

-----------------------------------------------------------------------------
Init ==
    /\ cfg \in Configs
    /\ conn = IF cfg.nbss THEN "nbss" ELSE "serving"
    /\ sess = newSession
    /\ trees = <<>> /\ trees1 = <<>>
    /\ handles = <<>> /\ fids = <<>>
    /\ next = NoIds
    /\ reply = "none"
    /\ seen = [issued |-> 0, staleProof |-> FALSE, legacySetup |-> FALSE]

\* The AUTH messages worth telling apart: no user or an unknown one, a wrong
\* password, and a proof over any challenge sent so far (0: over none).
Auths == {a \in [user : {"seeded", "other"}, password : BOOLEAN, challenge : 0..seen.issued] :
             ~(a.user = "seeded" /\ a.password) => a.challenge = 0}

SetupFrame ==
    \/ \E offered \in Offers : handleNegotiate(offered)
    \/ doChallenge
    \/ \E auth \in Auths : doAccept(auth)
    \/ doAnonymous
    \/ handleLogoff
    \/ \E share \in ShareNames : handleTreeConnect(share)
    \/ \E t \in 1..MaxTrees : TreeDisconnect(t)

HandleFrame ==
    \/ \E t \in 0..MaxTrees, name \in PipeNames : handleCreate(t, name)
    \/ \E h \in 1..MaxHandles :
          \/ handleClose(h)
          \/ \E restart \in BOOLEAN, room \in 0..MaxRoom : handleQueryDirectory(h, restart, room)
          \/ \E info \in {"file", "filesystem", "unknown"} : handleQueryInfo(h, info)
          \/ \E inside \in BOOLEAN : handleRead(h, inside)
          \/ handleWrite(h)
          \/ handleIOCtl(h)

LegacyFrame ==
    \/ \E offered \in Smb1Offers : handleSMBv1Negotiate(offered)
    \/ handleSMBv1SessionSetup
    \/ \E share \in ShareNames : handleSMBv1TreeConnect(share)
    \/ \E t \in 1..MaxTrees : handleSMBv1TreeDisconnect(t)
    \/ \E t \in 0..MaxTrees, name \in PipeNames : handleSMBv1NTCreateAndX(t, name)
    \/ \E f \in 1..MaxHandles :
          \/ handleSMBv1WriteAndX(f)
          \/ handleSMBv1ReadAndX(f)
          \/ handleSMBv1Transaction(f)
          \/ handleSMBv1Close(f)
    \/ handleSMBv1TransactionLANMAN

Next ==
    \/ \E accepted \in BOOLEAN : NetBIOSSession(accepted)
    \/ ConnectionEnds
    \/ SkipFrame
    \/ Refused
    \/ SetupFrame
    \/ HandleFrame
    \/ LegacyFrame

Spec == Init /\ [][Next]_vars

-----------------------------------------------------------------------------
(* Properties.                                                             *)

Pipes == {handles[h].pipe : h \in {i \in DOMAIN handles : handles[i].kind = "pipe"}}
         \cup {fids[f] : f \in DOMAIN fids}

\* Every variable has its type; no session holds a dialect above the
\* configured ceiling, and ids are never handed out twice.
TypeOK ==
    /\ cfg \in Configs
    /\ conn \in {"nbss", "serving", "closed", "panicked"}
    /\ sess \in [id : 0..1, state : StateNew..StateAuthenticated,
                 dialect : {0} \cup {d \in {785, 770, 768, 528, 514} : d <= cfg.maxDialect},
                 challenge : 0..MaxSetups, preauth : BOOLEAN, signing : BOOLEAN,
                 guest : BOOLEAN, seeded : BOOLEAN]
    /\ DOMAIN trees \subseteq 1..next.tree /\ DOMAIN trees1 \subseteq 1..next.tid
    /\ DOMAIN handles \subseteq 1..next.handle /\ DOMAIN fids \subseteq 1..next.fid
    /\ \A p \in Pipes : Len(p.reasm) <= MaxFrags
    /\ reply \in {"none", "ok", "refused"}

\* A request is answered from its own fragments: the reply queued on a pipe
\* is computed from a run that starts at the latest first fragment written,
\* under that fragment's header, and holds no other first fragment, whatever
\* requests the client began and gave up before (PipeState.Write, pipe.go:66).
RepliesAreWhole == \A p \in Pipes : p.pending.whole

\* What a READ returns answers the latest PDU that Write acted on (it ignores
\* what is too short and requests before the bind), never an earlier one whose
\* reply was left in the queue (PipeState.Read, pipe.go:109).
ReadsAnswerLatest == \A p \in Pipes : p.pending.fresh

\* A directory is listed exactly once from each restart: the entries handed
\* out so far are a prefix of the listing, and "no more files" is answered
\* only when all of it went out, whatever the sizes of the output buffers
\* (handleQueryDirectory, server.go:961).
ListingExact ==
    \A h \in DOMAIN handles : handles[h].kind = "dir" =>
        /\ handles[h].got = SubSeq(Listing, 1, handles[h].idx)
        /\ handles[h].ended => handles[h].got = Listing

\* A seeded credential is accepted only for a proof made over the challenge
\* sent last on this connection: an AUTH recorded against an earlier
\* challenge is not good again (doAccept, server.go:522).
ProofForLatestChallenge == ~seen.staleProof

\* Over SMBv2 the administrative shares and the SAM user list are reached
\* with a verified credential only, across every order of re-authentication,
\* re-negotiation and tree reuse; the one other way is an SMBv1 session
\* setup earlier on the connection (session.go:130, samr.go:85).
IdentityGates ==
    (\/ \E t \in DOMAIN trees : isAdminShare(trees[t])
     \/ \E h \in DOMAIN handles : /\ handles[h].kind = "pipe"
                                   /\ handles[h].pipe.name = "samr"
                                   /\ handles[h].pipe.pending.body = "users")
    => sess.seeded \/ seen.legacySetup
=============================================================================
