------------------------------ MODULE Sessions ------------------------------
(***************************************************************************)
(* What one client's requests do to its session with the FTP honeypot      *)
(* (internal/honeypot/ftp/server.go), the SSH honeypot (ssh/server.go,     *)
(* shell.go, vfs.go) and the RDP honeypot (rdp/server.go, credssp.go).     *)
(* Operators on session records: each maps a session and a request to the  *)
(* next session and the phase its connection is in; module Servers owns    *)
(* the connections.  Replies, listings and file contents are left out.     *)
(*                                                                         *)
(* Paths are sequences of names; a tree is a function from the paths that  *)
(* exist to "dir" or "file".                                               *)
(***************************************************************************)
EXTENDS Naturals, Sequences, SequencesExt

CONSTANTS
    FtpTree,            \* the deception tree under the FTP root
    AllowAnonymous,     \* FtpHoneypot.AllowAnonymous
    Creds,              \* pooled credentials: lower-case user -> password
    Lower               \* strings.ToLower on the login names

NoSession == [user |-> ""]
IsDir(tree, p) == p \in DOMAIN tree /\ tree[p] = "dir"
IsFile(tree, p) == p \in DOMAIN tree /\ tree[p] = "file"

\* path.Clean of an absolute path.
Clean(p) == FoldLeft(LAMBDA out, s : IF s = ".." THEN SubSeq(out, 1, Len(out) - 1)
                                     ELSE IF s = "." THEN out ELSE Append(out, s), <<>>, p)

\* An argument is absolute ("/a") or relative to the working directory;
\* FTP's resolvePath and the shell's resolveAbs.
resolvePath(cwd, arg) == Clean(IF arg.abs THEN arg.path ELSE cwd \o arg.path)

\* The root is a directory, and so is what ".." leads to from a directory.
ASSUME TreeAssumption ==
    /\ IsDir(FtpTree, <<>>)
    /\ \A p \in DOMAIN FtpTree : IsDir(FtpTree, p) =>
          IsDir(FtpTree, resolvePath(p, [abs |-> FALSE, path |-> <<"..">>]))

checkCred(user, pass) == user \in DOMAIN Lower /\ Lower[user] \in DOMAIN Creds /\ Creds[Lower[user]] = pass
-----------------------------------------------------------------------------
(* FTP.  `as` is history: whom the last accepted password was for.         *)

ftpSession == [user |-> "", authed |-> FALSE, cwd |-> <<>>, dataLn |-> FALSE, as |-> "nobody"]

\* A command leaves the connection in "ctl" (waiting for the next one), in
\* "accept" (waiting for the data connection) or at its "end".
Then(sess, ph) == [sess |-> sess, ph |-> ph]

handlePass(sess, pass) ==
    IF \/ AllowAnonymous /\ sess.user \in DOMAIN Lower /\ Lower[sess.user] \in {"anonymous", "ftp"}
       \/ checkCred(sess.user, pass)
    THEN [sess EXCEPT !.authed = TRUE, !.as = sess.user]
    ELSE sess

\* handleList and handleRetr: the node, then the passive listener, then the wait.
handleTransfer(sess, exists) == Then(sess, IF exists /\ sess.dataLn THEN "accept" ELSE "ctl")

ChangeDir(sess, arg) ==
    LET target == resolvePath(sess.cwd, arg)
    IN  IF IsDir(FtpTree, target) THEN [sess EXCEPT !.cwd = target] ELSE sess

\* handlePasv closes the previous data listener; opening the new one may fail.
handlePasv(sess, opens) == [sess EXCEPT !.dataLn = opens]

dispatchAuthed(sess, cmd, arg) ==
    CASE cmd = "CWD"       -> Then(ChangeDir(sess, arg), "ctl")
      [] cmd = "CDUP"      -> Then([sess EXCEPT !.cwd = resolvePath(@, [abs |-> FALSE, path |-> <<"..">>])], "ctl")
      [] cmd = "PASV"      -> Then(handlePasv(sess, TRUE), "ctl")
      [] cmd = "PASVfails" -> Then(handlePasv(sess, FALSE), "ctl")
      [] cmd = "LIST"      -> handleTransfer(sess, IsDir(FtpTree, resolvePath(sess.cwd, arg)))
      [] cmd = "RETR"      -> handleTransfer(sess, IsFile(FtpTree, resolvePath(sess.cwd, arg)))
      [] OTHER             -> Then(sess, "ctl")

\* Mutant: a new user name keeps the old login.
UserKeepsLogin(sess, user) == [sess EXCEPT !.user = user]
NewUser(sess, user) == [sess EXCEPT !.user = user, !.authed = FALSE]

dispatch(sess, cmd, arg) ==
    CASE cmd = "USER" -> Then(NewUser(sess, arg.name), "ctl")
      [] cmd = "PASS" -> Then(handlePass(sess, arg.name), "ctl")
      [] cmd = "QUIT" -> Then(sess, "end")
      [] OTHER        -> IF sess.authed THEN dispatchAuthed(sess, cmd, arg) ELSE Then(sess, "ctl")

\* acceptData: the listener is gone whether a connection came or not.
acceptData(sess) == [sess EXCEPT !.dataLn = FALSE]
-----------------------------------------------------------------------------
(* SSH.  The session starts in the home directory of the user as typed;    *)
(* the file system has the homes of the lower-case user list.              *)

MaxAuthTries == 6

buildVFS ==
    LET dirs  == {<<>>, <<"etc">>, <<"home">>, <<"root">>, <<"var">>, <<"var", "log">>, <<"tmp">>}
                    \cup {<<"home", u>> : u \in DOMAIN Creds \ {"root"}}
        files == {<<"etc", "passwd">>, <<"var", "log", "syslog">>}
                    \cup {<<"home", u, ".bashrc">> : u \in DOMAIN Creds \ {"root"}}
                    \cup {<<"root", ".credentials">> : u \in DOMAIN Creds}
    IN  [p \in dirs \cup files |-> IF p \in dirs THEN "dir" ELSE "file"]

homeFor(user) == IF Lower[user] = "root" THEN <<"root">> ELSE <<"home", user>>

\* moved is history: a cd has succeeded.
shellSession(user) == [user |-> user, cwd |-> homeFor(user), moved |-> FALSE]

\* The one command that changes a session; no argument means the home.
cmdCd(sess, arg) ==
    LET target == IF arg = NoSession THEN homeFor(sess.user) ELSE resolvePath(sess.cwd, arg)
    IN  IF IsDir(buildVFS, target) THEN [sess EXCEPT !.cwd = target, !.moved = TRUE] ELSE sess
-----------------------------------------------------------------------------
(* RDP after the TLS handshake: a TSRequest with an NTLM negotiate is      *)
(* challenged, one with an NTLM authenticate is captured and ends the      *)
(* connection, anything else is read over.                                 *)

\* late: the write deadline of the connection has passed.
rdpSession == [challenged |-> FALSE, captured |-> FALSE, late |-> FALSE]

serveCredSSP(sess, pdu) ==
    CASE pdu = "negotiate" -> IF sess.late THEN Then(sess, "end")
                              ELSE Then([sess EXCEPT !.challenged = TRUE], "loop")
      [] pdu = "auth"      -> Then([sess EXCEPT !.captured = TRUE], "end")
      [] OTHER             -> Then(sess, "loop")
=============================================================================
