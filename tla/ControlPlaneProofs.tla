------------------------- MODULE ControlPlaneProofs -------------------------
(***************************************************************************)
(* Proofs about ControlPlane, for any number of connections, any peers,    *)
(* roles and patches, with and without failing disks and credentials.      *)
(*                                                                         *)
(* The audit trail is right because a handler past authorization always    *)
(* has its event in the trail (HandlersAreAudited).  The two files are     *)
(* right, as long as no save disturbed another, because there is one saver *)
(* at a time and its place in PersistConfig says what both files hold      *)
(* (SaverHolds), while nobody saves a running instance has a whole file    *)
(* (FilesAreCoherent), and handlers do not outlive their instance.         *)
(***************************************************************************)
EXTENDS ControlPlane, FiniteSetTheorems, SequenceTheorems, WellFoundedInduction, TLAPS

\* Past authorization.
Granted(c) == pc[c] \notin {"none", "decode"}

\* A request is a record whatever the handler does with it; the trail is finite.
PatchSet == Patches \cup {<<>>}
OpNames == {NormalizeOp(o) : o \in Ops} \cup {"ping"}
Requests ==
    [id : Nat, op : OpNames, peer : [uid : Nat, gid : Nat], cred : BOOLEAN, dry : BOOLEAN,
     patch : PatchSet]
RequestsOK == req \in [Conns -> Requests] /\ IsFiniteSet(trail)

\* The kernel knew the peer of the request, and the trail has it as granted.
Audited(c) ==
    /\ req[c].cred
    /\ \E t \in trail : t.id = req[c].id /\ t.op = req[c].op /\ t.peer = req[c].peer /\ t.allowed

\* A handler past authorization has its granted event in the trail; a dry run
\* is none of those that save.
HandlersAreAudited ==
    \A c \in Conns :
       /\ Granted(c) => Audited(c)
       /\ pc[c] = "load" => /\ req[c].op \in ConfigOps
                            /\ req[c].op = "config.validate" => req[c].dry
       /\ Saving(c) => req[c].op = "config.set" /\ ~req[c].dry
       /\ pc[c] = "perform" => req[c].op # "config.set"

\* Handlers end with their instance, or before it.
HandlersEnd == server \in {"stopped", "crashed"} => \A c \in Conns : pc[c] = "none"

\* Saves do not overlap, and each knows what it works on.
OneSaver == \A c, d \in Conns : Saving(c) /\ Saving(d) => c = d
SaverHolds ==
    \A c \in Conns :
       /\ Saving(c) => work[c] = ApplyPatch(committed, req[c].patch)
       /\ pc[c] \in {"backup", "bakTrunc", "bakWrite", "trunc"} => file = Whole(committed)
       /\ pc[c] \in {"bakTrunc", "bakWrite"} => copy[c] = Whole(committed)
       /\ pc[c] = "bakWrite" => bak = Empty
       /\ pc[c] \in {"trunc", "write"} => bak = Whole(committed)
       /\ pc[c] = "write" => file = Empty
FilesAreCoherent ==
    \/ file = Whole(committed)
    \/ /\ file = Empty /\ bak = Whole(committed)
       /\ server = "crashed" \/ \E c \in Conns : pc[c] = "write"

\* The inductive invariant.
AuditInv == HandlersAreAudited /\ EffectsAudited /\ TrailIsTrue
DiskInv == HandlersEnd /\ (~disturbed => OneSaver /\ SaverHolds /\ FilesAreCoherent)
IInv == TypeOK /\ RequestsOK /\ AuditInv /\ DiskInv
-----------------------------------------------------------------------------
(* Authorization.                                                          *)

\* A set of positions that is not empty has a least member.
LEMMA LeastPosition ==
  ASSUME NEW S \in SUBSET Nat, S # {}
  PROVE  Min(S) \in S
<1> DEFINE Less == {ss \in Nat \X Nat : ss[1] < ss[2]}
<1>1. IsWellFoundedOn(Less, Nat)
  BY NatLessThanWellFounded, Zenon DEF OpToRel
<1> HIDE DEF Less
<1>2. PICK x \in S : \A y \in S : ~(<<y, x>> \in Less)
  BY <1>1, WFMin
<1>3. ASSUME NEW y \in S PROVE x <= y
  <2>1. <<y, x>> \in Nat \X Nat /\ <<y, x>>[1] = y /\ <<y, x>>[2] = x
    OBVIOUS
  <2>2. ~(y < x)
    BY <1>2, <2>1, Zenon DEF Less
  <2> QED
    BY <2>2
<1> QED
  BY <1>2, <1>3 DEF Min

\* Authorize's search through the roles finds one if there is one: the order
\* of the roles, and a role that matches without allowing, do not matter.
LEMMA Authorized ==
  ASSUME NEW p, NEW op, roles \in Seq(Role)
  PROVE  Authorize(p, op) <=>
           \/ p.uid = 0
           \/ \E i \in DOMAIN roles :
                 roleMatchesPeer(roles[i], p) /\ opAllowed(roles[i].allow, op)
<1> DEFINE I == {i \in 1 .. Len(roles) : roleMatchesPeer(roles[i], p) /\ opAllowed(roles[i].allow, op)}
<1>1. Authorize(p, op) <=> p.uid = 0 \/ (IF I # {} THEN Min(I) ELSE 0) # 0
  BY Zenon DEF Authorize, SelectInSeq
<1>2. I \in SUBSET Nat /\ 0 \notin I
  OBVIOUS
<1>3. I # {} => Min(I) \in I
  BY <1>2, LeastPosition
<1>4. (IF I # {} THEN Min(I) ELSE 0) # 0 <=> I # {}
  <2> HIDE DEF I
  <2> QED
    BY <1>2, <1>3
<1>5. I # {} <=> \E i \in DOMAIN roles : roleMatchesPeer(roles[i], p) /\ opAllowed(roles[i].allow, op)
  OBVIOUS
<1> QED
  BY <1>1, <1>4, <1>5

\* The audit event of a request says what Lists and Names say.
LEMMA EventIsTrue ==
  ASSUME NEW p, NEW asked, NEW cred, roles \in Seq(Role)
  PROVE  (Authorize(p, NormalizeOp(asked)) /\ cred) <=>
           /\ cred
           /\ \/ p.uid = 0
              \/ \E i \in DOMAIN roles : Names(roles[i], p) /\ Lists(roles[i], asked)
<1>1. \A i : roleMatchesPeer(roles[i], p) <=> Names(roles[i], p)
  BY DEF roleMatchesPeer, Names
<1>2. \A i : opAllowed(roles[i].allow, NormalizeOp(asked)) <=> Lists(roles[i], asked)
  BY DEF opAllowed, Lists
<1> QED
  BY <1>1, <1>2, Authorized
-----------------------------------------------------------------------------
(* Types.                                                                  *)

\* What the handlers work with is of its type.
LEMMA Values ==
  /\ Defaults \in Config /\ Idle \in Requests /\ Idle.id = 0
  /\ Empty \in Contents /\ Torn \in Contents /\ Absent \in Contents
  /\ Empty # Absent /\ Torn # Absent
  /\ \A c \in Config : Whole(c) \in Contents \ {Absent}
<1>1. Defaults \in Config
  BY DEF Defaults, Config, Value
<1>2. Idle \in Requests /\ Idle.id = 0
  <2>1. NoPeer \in [uid : Nat, gid : Nat]
    BY DEF NoPeer
  <2>2. <<>> \in PatchSet
    BY Zenon DEF PatchSet
  <2>3. 0 \in Nat /\ "ping" \in OpNames
    BY DEF OpNames
  <2> QED
    BY <2>1, <2>2, <2>3 DEF Idle, Requests
<1>3. \A c : Whole(c).kind = "whole"
  BY DEF Whole
<1>4. Empty.kind = "empty" /\ Torn.kind = "torn" /\ Absent.kind = "absent"
  BY DEF Empty, Torn, Absent
<1>5. \A c : Whole(c) # Absent
  BY <1>3, <1>4
<1>6. \A c \in Config : Whole(c) \in Contents
  BY DEF Contents
<1>7. Empty \in Contents /\ Torn \in Contents /\ Absent \in Contents
  BY DEF Contents
<1> QED
  BY <1>1, <1>2, <1>4, <1>5, <1>6, <1>7

\* A patch leaves a configuration one.
LEMMA PatchedConfig ==
  ASSUME NEW c \in Config, NEW q \in PatchSet
  PROVE  ApplyPatch(c, q) \in Config
<1>1. \A f \in DOMAIN q : q[f] \in Value
  BY ControlAssumption DEF PatchSet
<1> QED
  BY <1>1 DEF ApplyPatch, Config

\* The request a handler serves once it is decoded.
Decoded(c, op, dry, patch) ==
    [req[c] EXCEPT !.id = Cardinality(trail) + 1, !.op = NormalizeOp(op),
                   !.dry = dry \/ op = "config.validate", !.patch = patch]

\* Decoding fills in the request and leaves the peer alone.
LEMMA DecodedRequest ==
  ASSUME RequestsOK, NEW c \in Conns, NEW q \in Asked
  PROVE  LET r == Decoded(c, q.op, q.dry, q.patch) IN
         /\ r \in Requests /\ r.id = Cardinality(trail) + 1 /\ r.id \in Nat
         /\ r.op = NormalizeOp(q.op) /\ r.dry = (q.dry \/ q.op = "config.validate")
         /\ r.patch = q.patch /\ r.peer = req[c].peer /\ r.cred = req[c].cred
<1>1. Cardinality(trail) \in Nat
  BY FS_CardinalityType DEF RequestsOK
<1>2. q.op \in Ops /\ q.dry \in BOOLEAN /\ q.patch \in PatchSet
  <2>1. CASE q \in [op : Ops \cap ConfigOps, dry : BOOLEAN, patch : Patches]
    BY <2>1 DEF PatchSet
  <2>2. CASE q \in [op : Ops \ ConfigOps, dry : {FALSE}, patch : {<<>>}]
    BY <2>2, Zenon DEF PatchSet
  <2> QED
    BY <2>1, <2>2 DEF Asked
<1>3. NormalizeOp(q.op) \in OpNames
  BY <1>2 DEF OpNames
<1>4. (q.dry \/ q.op = "config.validate") \in BOOLEAN
  OBVIOUS
<1>5. req[c] \in Requests
  BY DEF RequestsOK
<1> DEFINE n == Cardinality(trail) + 1
           o == NormalizeOp(q.op)
           d == (q.dry \/ q.op = "config.validate")
           r == [req[c] EXCEPT !.id = n, !.op = o, !.dry = d, !.patch = q.patch]
<1>6. n \in Nat
  BY <1>1
<1> HIDE DEF n, o, d
<1>7. r.id = n /\ r.op = o /\ r.dry = d /\ r.patch = q.patch /\ r.peer = req[c].peer /\ r.cred = req[c].cred
  BY <1>5 DEF Requests
<1>8. r \in Requests
  <2>1. o \in OpNames /\ d \in BOOLEAN
    BY <1>3, <1>4 DEF o, d
  <2> QED
    BY <1>2, <1>5, <1>6, <2>1 DEF Requests
<1> QED
  BY <1>6, <1>7, <1>8, Zenon DEF Decoded, n, o, d

\* A handler that responds leaves its connection as it was at the start.
LEMMA RespondTypes ==
  ASSUME TypeOK, RequestsOK, NEW c \in Conns, Respond(c)
  PROVE  /\ pc' \in [Conns -> {"none", "decode", "perform", "load", "backup", "bakTrunc",
                               "bakWrite", "trunc", "write"}]
         /\ work' \in [Conns -> Config] /\ copy' \in [Conns -> Contents]
         /\ req' \in [Conns -> Requests] /\ \A d \in Conns : req'[d].id \in 0 .. MaxRequests
<1>1. pc' \in [Conns -> {"none", "decode", "perform", "load", "backup", "bakTrunc",
                        "bakWrite", "trunc", "write"}]
  BY DEF TypeOK, Respond
<1>2. work' \in [Conns -> Config] /\ copy' \in [Conns -> Contents]
  BY Values DEF TypeOK, Respond
<1>3. req' \in [Conns -> Requests]
  BY Values DEF RequestsOK, Respond
<1>4. ASSUME NEW d \in Conns PROVE req'[d].id \in 0 .. MaxRequests
  <2>1. req'[d] = Idle \/ req'[d] = req[d]
    BY DEF RequestsOK, Respond
  <2>2. 0 \in 0 .. MaxRequests
    BY ControlAssumption
  <2> QED
    BY <2>1, <2>2, Values DEF TypeOK
<1> QED
  BY <1>1, <1>2, <1>3, <1>4

\* Every step keeps the types.
LEMMA TypeStep ==
  ASSUME TypeOK, RequestsOK, [Next]_vars
  PROVE  TypeOK' /\ RequestsOK'
<1> DEFINE Goal == TypeOK' /\ RequestsOK'
<1> USE ControlAssumption
<1>1. ASSUME NEW c \in Conns, Connect(c) PROVE Goal
  <2>1. req' \in [Conns -> Requests] /\ \A d \in Conns : req'[d].id = req[d].id
    <3>1. CASE UNCHANGED req
      BY <3>1 DEF RequestsOK
    <3>2. ASSUME NEW p \in Peers, req' = [req EXCEPT ![c].peer = p, ![c].cred = TRUE]
          PROVE  req' \in [Conns -> Requests] /\ \A d \in Conns : req'[d].id = req[d].id
      BY <3>2 DEF RequestsOK, Requests
    <3> QED
      BY <1>1, <3>1, <3>2 DEF Connect
  <2> QED
    BY <1>1, <2>1 DEF Connect, Goto, TypeOK, RequestsOK, disk, history
<1>2. ASSUME NEW c \in Conns, Deadline(c) PROVE Goal
  BY <1>2, RespondTypes DEF Deadline, TypeOK, RequestsOK, disk, history
<1>3. ASSUME NEW c \in Conns, NEW q \in Asked, Request(c, q.op, q.dry, q.patch) PROVE Goal
  <2> DEFINE r == Decoded(c, q.op, q.dry, q.patch)
  <2>1. Cardinality(trail) \in Nat /\ Cardinality(trail) < MaxRequests
    BY <1>3, FS_CardinalityType DEF Request, RequestsOK
  <2>2. r \in Requests /\ r.id \in 0 .. MaxRequests
    <3>1. r \in Requests /\ r.id = Cardinality(trail) + 1
      BY DecodedRequest
    <3> HIDE DEF r
    <3> QED
      BY <2>1, <3>1
  <2>3. IsFiniteSet(trail')
    <3>1. PICK t : trail' = trail \cup {t}
      BY <1>3 DEF Request
    <3> QED
      BY <3>1, FS_AddElement DEF RequestsOK
  <2>4. UNCHANGED <<server, disk, roles, crashes, effects, committed, disturbed>>
    BY <1>3 DEF Request
  <2>5. CASE Respond(c)
    BY <2>3, <2>4, <2>5, RespondTypes DEF TypeOK, RequestsOK, disk
  <2>6. CASE /\ Goto(c, IF r.op \in ConfigOps THEN "load" ELSE "perform")
             /\ req' = [req EXCEPT ![c] = r] /\ UNCHANGED <<work, copy>>
    <3>1. req' \in [Conns -> Requests] /\ \A d \in Conns : req'[d].id \in 0 .. MaxRequests
      <4> HIDE DEF r
      <4> QED
        BY <2>2, <2>6 DEF TypeOK, RequestsOK
    <3>2. pc' = [pc EXCEPT ![c] = "load"] \/ pc' = [pc EXCEPT ![c] = "perform"]
      BY <2>6 DEF Goto
    <3> HIDE DEF r
    <3> QED
      BY <2>3, <2>4, <2>6, <3>1, <3>2 DEF TypeOK, RequestsOK, disk
  <2> QED
    BY <1>3, <2>5, <2>6 DEF Request, Decoded
<1>4. ASSUME NEW c \in Conns, Perform(c) PROVE Goal
  BY <1>4, RespondTypes DEF Perform, TypeOK, RequestsOK, disk
<1>5. ASSUME NEW c \in Conns, Load(c) PROVE Goal
  <2>1. UNCHANGED <<server, file, bak, roles, crashes, trail, effects, committed>>
    BY <1>5 DEF Load, disk, history
  <2>2. CASE Respond(c) /\ UNCHANGED disturbed
    BY <2>1, <2>2, RespondTypes DEF TypeOK, RequestsOK
  <2>3. ASSUME NEW got \in LoadAppConfig(file),
               LET new == {ApplyPatch(x, req[c].patch) : x \in got} IN
               /\ new # {} /\ work' = [work EXCEPT ![c] = CHOOSE x \in new : TRUE]
               /\ Goto(c, "backup")
               /\ disturbed' = (disturbed \/ \E d \in Conns : Saving(d))
               /\ UNCHANGED <<req, copy>>
        PROVE  Goal
    <3> DEFINE new == {ApplyPatch(x, req[c].patch) : x \in got}
               w == CHOOSE x \in new : TRUE
    <3>1. file.cfg \in Config
      BY DEF TypeOK, Contents, Whole, Empty, Absent, Torn, Config, Defaults, Value
    <3>2. got \subseteq Config
      BY <3>1 DEF LoadAppConfig
    <3>3. req[c].patch \in PatchSet
      BY DEF RequestsOK, Requests
    <3>4. new \subseteq Config
      BY <3>2, <3>3, PatchedConfig
    <3>5. w \in Config
      BY <2>3, <3>4
    <3> HIDE DEF w
    <3>6. work' = [work EXCEPT ![c] = w] /\ pc' = [pc EXCEPT ![c] = "backup"]
      BY <2>3, Zenon DEF w, Goto
    <3>7. disturbed' \in BOOLEAN
      BY <2>3
    <3> QED
      BY <2>1, <2>3, <3>5, <3>6, <3>7 DEF TypeOK, RequestsOK
  <2> QED
    BY <1>5, <2>2, <2>3 DEF Load
<1>6. ASSUME NEW c \in Conns, Backup(c) \/ BakTruncate(c) PROVE Goal
  BY <1>6, Values DEF Backup, BakTruncate, Goto, TypeOK, RequestsOK, disk, history
<1>7. ASSUME NEW old \in Contents, NEW new \in Contents PROVE Written(old, new) \subseteq Contents
  BY Values DEF Written
<1>8. ASSUME NEW c \in Conns, BakWrite(c) PROVE Goal
  <2>1. bak' \in Contents
    BY <1>7, <1>8 DEF BakWrite, TypeOK
  <2> QED
    BY <1>8, <2>1 DEF BakWrite, Goto, TypeOK, RequestsOK, history
<1>9. ASSUME NEW c \in Conns, Truncate(c) PROVE Goal
  BY <1>9, Values DEF Truncate, Goto, TypeOK, RequestsOK, disk, history
<1>10. ASSUME NEW c \in Conns, Write(c) PROVE Goal
  <2>1. work[c] \in Config /\ Whole(work[c]) \in Contents \ {Absent}
    BY Values DEF TypeOK
  <2>2. file' \in Contents \ {Absent}
    <3>1. file' \in {file, Whole(work[c]), Torn}
      BY <1>10 DEF Write, Written
    <3> QED
      BY <2>1, <3>1, Values DEF TypeOK
  <2> QED
    BY <1>10, <2>1, <2>2, RespondTypes DEF Write, TypeOK, RequestsOK
<1>11. ASSUME NEW c \in Conns, WriteFails(c) PROVE Goal
  <2>1. disturbed' \in BOOLEAN
    BY <1>11 DEF WriteFails, TypeOK
  <2>2. file' \in {file, Torn} /\ bak' \in {bak, Torn}
    BY <1>11 DEF WriteFails
  <2>3. file' \in Contents \ {Absent} /\ bak' \in Contents
    BY <2>2, Values DEF TypeOK
  <2>4. Respond(c) /\ UNCHANGED <<server, roles, crashes, history>>
    BY <1>11 DEF WriteFails
  <2> QED
    BY <2>1, <2>3, <2>4, RespondTypes DEF TypeOK, RequestsOK, history
<1>12. ASSUME Stop \/ Stopped \/ UNCHANGED vars PROVE Goal
  BY <1>12 DEF Stop, Stopped, vars, TypeOK, RequestsOK, disk, history
<1>13. ASSUME Crash PROVE Goal
  <2>1. UNCHANGED <<file, bak, roles, trail, committed, disturbed>> /\ server' = "crashed"
    BY <1>13 DEF Crash, disk, history
  <2>2. /\ pc' = [c \in Conns |-> "none"] /\ req' = [c \in Conns |-> Idle]
        /\ work' = [c \in Conns |-> Defaults] /\ copy' = [c \in Conns |-> Empty]
        /\ crashes' = crashes + 1 /\ crashes < MaxCrashes
    BY <1>13 DEF Crash
  <2>3. req' \in [Conns -> Requests] /\ \A c \in Conns : req'[c].id \in 0 .. MaxRequests
    BY <2>2, Values
  <2> QED
    BY <2>1, <2>2, <2>3, Values DEF TypeOK, RequestsOK
<1>14. ASSUME Boot PROVE Goal
  BY <1>14 DEF Boot, RolesOf, TypeOK, RequestsOK, disk, history
<1>15. ASSUME Restore PROVE Goal
  <2>1. file' \in Contents \ {Absent}
    BY <1>15 DEF Restore, TypeOK, Absent
  <2> QED
    BY <1>15, <2>1 DEF Restore, TypeOK, RequestsOK, history
<1> HIDE DEF Goal
<1> QED
  BY <1>1, <1>2, <1>3, <1>4, <1>5, <1>6, <1>8, <1>9, <1>10, <1>11, <1>12, <1>13, <1>14, <1>15
     DEF Next, Handler, Goal
-----------------------------------------------------------------------------
(* The audit trail.                                                        *)

\* A handler that moves on within its request, or responds, stays audited.
LEMMA HandlersMoveOn ==
  ASSUME TypeOK, RequestsOK, HandlersAreAudited, NEW c \in Conns,
         trail \subseteq trail',
         \/ Respond(c)
         \/ /\ UNCHANGED req
            /\ \/ Saving(c) /\ \E l \in {"bakTrunc", "bakWrite", "trunc", "write"} : Goto(c, l)
               \/ pc[c] = "load" /\ ~req[c].dry /\ Goto(c, "backup")
  PROVE  HandlersAreAudited'
<1> SUFFICES ASSUME NEW d \in Conns
             PROVE /\ Granted(d)' => Audited(d)'
                   /\ (pc[d] = "load" => /\ req[d].op \in ConfigOps
                                         /\ req[d].op = "config.validate" => req[d].dry)'
                   /\ Saving(d)' => (req[d].op = "config.set" /\ ~req[d].dry)'
                   /\ (pc[d] = "perform" => req[d].op # "config.set")'
  BY DEF HandlersAreAudited, Audited
<1>1. CASE d # c \/ UNCHANGED <<pc, req>>
  <2>1. pc'[d] = pc[d] /\ req'[d] = req[d]
    BY <1>1 DEF TypeOK, RequestsOK, Respond, Goto
  <2> QED
    BY <2>1 DEF HandlersAreAudited, Audited, Granted, Saving
<1>2. CASE d = c /\ Respond(c)
  BY <1>2 DEF Respond, TypeOK, Granted, Saving
<1>3. CASE /\ d = c /\ UNCHANGED req
           /\ Saving(c) /\ \E l \in {"bakTrunc", "bakWrite", "trunc", "write"} : Goto(c, l)
  <2>1. Granted(c) /\ pc'[c] \in {"bakTrunc", "bakWrite", "trunc", "write"} /\ Saving(c)
    BY <1>3 DEF Granted, Saving, Goto, TypeOK
  <2> QED
    BY <1>3, <2>1 DEF HandlersAreAudited, Audited
<1>4. CASE d = c /\ UNCHANGED req /\ pc[c] = "load" /\ ~req[c].dry /\ Goto(c, "backup")
  <2>1. Granted(c) /\ pc'[c] = "backup"
    BY <1>4 DEF Granted, Goto, TypeOK
  <2> QED
    BY <1>4, <2>1 DEF HandlersAreAudited, Audited, ConfigOps
<1> QED
  BY <1>1, <1>2, <1>3, <1>4

\* Every step keeps the trail true and complete.
LEMMA AuditStep ==
  ASSUME IInv, [Next]_vars
  PROVE  AuditInv'
<1>1. TypeOK /\ RequestsOK /\ TypeOK' /\ RequestsOK'
  BY TypeStep DEF IInv
<1>2. HandlersAreAudited /\ EffectsAudited /\ TrailIsTrue
  BY DEF IInv, AuditInv
<1> USE <1>1, <1>2
\* Most steps of a handler leave trail and effects alone.
<1>3. ASSUME UNCHANGED <<trail, effects>>, HandlersAreAudited' PROVE AuditInv'
  BY <1>3 DEF AuditInv, EffectsAudited, TrailIsTrue
<1>4. ASSUME NEW c \in Conns, Connect(c) PROVE AuditInv'
  <2>1. UNCHANGED <<trail, effects>> /\ pc' = [pc EXCEPT ![c] = "decode"]
    BY <1>4 DEF Connect, Goto, history
  <2>2. \A d \in Conns \ {c} : req'[d] = req[d]
    BY <1>4 DEF Connect, RequestsOK
  <2>3. HandlersAreAudited'
    <3> SUFFICES ASSUME NEW d \in Conns \ {c}
                 PROVE /\ Granted(d)' => Audited(d)'
                       /\ (pc[d] = "load" => /\ req[d].op \in ConfigOps
                                             /\ req[d].op = "config.validate" => req[d].dry)'
                       /\ Saving(d)' => (req[d].op = "config.set" /\ ~req[d].dry)'
                       /\ (pc[d] = "perform" => req[d].op # "config.set")'
      BY <2>1 DEF HandlersAreAudited, Granted, Saving, TypeOK
    <3> QED
      BY <2>1, <2>2 DEF HandlersAreAudited, Audited, Granted, Saving, TypeOK
  <2> QED
    BY <1>3, <2>1, <2>3
<1>5. ASSUME NEW c \in Conns,
             \/ Deadline(c) \/ Load(c) \/ Backup(c) \/ BakTruncate(c) \/ BakWrite(c)
             \/ Truncate(c) \/ WriteFails(c)
      PROVE  AuditInv'
  <2>1. UNCHANGED <<trail, effects>>
    BY <1>5 DEF Deadline, Load, Backup, BakTruncate, BakWrite, Truncate, WriteFails, history
  <2>2. \/ Respond(c)
        \/ /\ UNCHANGED req
           /\ \/ Saving(c) /\ \E l \in {"bakTrunc", "bakWrite", "trunc", "write"} : Goto(c, l)
              \/ pc[c] = "load" /\ ~req[c].dry /\ Goto(c, "backup")
    BY <1>5 DEF Deadline, Load, Backup, BakTruncate, BakWrite, Truncate, WriteFails, Saving
  <2>3. HandlersAreAudited'
    BY <2>1, <2>2, HandlersMoveOn
  <2> QED
    BY <1>3, <2>1, <2>3
<1>6. ASSUME NEW c \in Conns, Perform(c) \/ Write(c) PROVE AuditInv'
  <2>1. trail' = trail /\ Respond(c)
    BY <1>6 DEF Perform, Write
  <2>2. HandlersAreAudited'
    BY <2>1, HandlersMoveOn
  <2>3. \/ effects' = effects
        \/ /\ effects' = effects \cup {req[c]} /\ Granted(c)
           /\ req[c].op = "config.set" => ~req[c].dry
           /\ req[c].op \in {"config.set", "services.stop", "services.restart"}
    BY <1>6 DEF Perform, Write, Granted, HandlersAreAudited, Saving
  <2>4. EffectsAudited'
    BY <2>1, <2>3 DEF EffectsAudited, HandlersAreAudited, Audited
  <2> QED
    BY <2>1, <2>2, <2>4 DEF AuditInv, TrailIsTrue
<1>7. ASSUME NEW c \in Conns, NEW q \in Asked, Request(c, q.op, q.dry, q.patch) PROVE AuditInv'
  <2> DEFINE r == Decoded(c, q.op, q.dry, q.patch)
             t == [id |-> r.id, peer |-> r.peer, cred |-> r.cred, op |-> r.op, asked |-> q.op,
                   roles |-> roles, allowed |-> Permitted(r)]
  <2>1. /\ r \in Requests /\ r.op = NormalizeOp(q.op)
        /\ r.dry = (q.dry \/ q.op = "config.validate") /\ r.peer = req[c].peer /\ r.cred = req[c].cred
    BY DecodedRequest
  <2>2. trail' = trail \cup {t} /\ effects' = effects
    BY <1>7 DEF Request, Decoded
  <2>3. \/ Respond(c)
        \/ /\ Permitted(r) /\ req' = [req EXCEPT ![c] = r]
           /\ Goto(c, IF r.op \in ConfigOps THEN "load" ELSE "perform")
    BY <1>7 DEF Request, Decoded
  <2>4. /\ t.id = r.id /\ t.peer = r.peer /\ t.cred = r.cred /\ t.op = r.op /\ t.asked = q.op
        /\ t.roles = roles /\ t.allowed = Permitted(r)
    BY Zenon
  <2> HIDE DEF t
  <2>5. t.allowed <=> /\ t.cred
                      /\ \/ t.peer.uid = 0
                         \/ \E i \in DOMAIN t.roles :
                                Names(t.roles[i], t.peer) /\ Lists(t.roles[i], t.asked)
    <3>1. roles \in Seq(Role)
      <4>1. Roles \in Seq(Role) /\ <<>> \in Seq(Role)
        BY ControlAssumption, EmptySeq
      <4> QED
        BY <4>1, Zenon DEF TypeOK
    <3>2. Permitted(r) <=> Authorize(r.peer, NormalizeOp(q.op)) /\ r.cred
      BY <2>1 DEF Permitted
    <3>3. (Authorize(r.peer, NormalizeOp(q.op)) /\ r.cred) <=>
             /\ r.cred
             /\ \/ r.peer.uid = 0
                \/ \E i \in DOMAIN roles : Names(roles[i], r.peer) /\ Lists(roles[i], q.op)
      BY <3>1, EventIsTrue
    <3> HIDE DEF r
    <3> QED
      BY <2>4, <3>2, <3>3
  <2>6. TrailIsTrue'
    BY <2>2, <2>5 DEF TrailIsTrue
  <2>7. EffectsAudited'
    BY <2>2 DEF EffectsAudited
  <2>8. HandlersAreAudited'
    <3>1. CASE Respond(c)
      BY <2>2, <3>1, HandlersMoveOn
    <3>2. CASE /\ Permitted(r) /\ req' = [req EXCEPT ![c] = r]
               /\ Goto(c, IF r.op \in ConfigOps THEN "load" ELSE "perform")
      <4>1. r.cred
        BY <3>2 DEF Permitted
      <4>2. req'[c] = r /\ pc'[c] = (IF r.op \in ConfigOps THEN "load" ELSE "perform")
        BY <3>2 DEF RequestsOK, TypeOK, Goto
      <4>3. \A d \in Conns \ {c} : req'[d] = req[d] /\ pc'[d] = pc[d]
        BY <3>2 DEF RequestsOK, TypeOK, Goto
      <4>4. Audited(c)'
        BY <2>2, <2>4, <3>2, <4>1, <4>2 DEF Audited
      <4>5. r.op = "config.validate" => r.dry
        BY <2>1 DEF NormalizeOp
      <4> HIDE DEF r
      <4>6. /\ (pc[c] = "load" => /\ req[c].op \in ConfigOps
                                  /\ req[c].op = "config.validate" => req[c].dry)'
            /\ ~Saving(c)'
            /\ (pc[c] = "perform" => req[c].op # "config.set")'
        BY <4>2, <4>5 DEF Saving, ConfigOps
      <4>7. ASSUME NEW d \in Conns \ {c}
            PROVE /\ Granted(d)' => Audited(d)'
                  /\ (pc[d] = "load" => /\ req[d].op \in ConfigOps
                                        /\ req[d].op = "config.validate" => req[d].dry)'
                  /\ Saving(d)' => (req[d].op = "config.set" /\ ~req[d].dry)'
                  /\ (pc[d] = "perform" => req[d].op # "config.set")'
        BY <2>2, <4>3 DEF HandlersAreAudited, Audited, Granted, Saving
      <4> QED
        BY <4>4, <4>6, <4>7 DEF HandlersAreAudited
    <3> QED
      BY <2>3, <3>1, <3>2
  <2> QED
    BY <2>6, <2>7, <2>8 DEF AuditInv
<1>8. ASSUME Stop \/ Stopped \/ Boot \/ Restore \/ UNCHANGED vars PROVE AuditInv'
  <2>1. UNCHANGED <<pc, req, trail, effects>>
    BY <1>8 DEF Stop, Stopped, Boot, Restore, vars, history
  <2>2. HandlersAreAudited'
    BY <2>1 DEF HandlersAreAudited, Audited, Granted, Saving
  <2> QED
    BY <1>3, <2>1, <2>2
<1>9. ASSUME Crash PROVE AuditInv'
  <2>1. UNCHANGED <<trail, effects>> /\ \A c \in Conns : pc'[c] = "none"
    BY <1>9 DEF Crash, history
  <2>2. HandlersAreAudited'
    BY <2>1 DEF HandlersAreAudited, Granted, Saving
  <2> QED
    BY <1>3, <2>1, <2>2
<1> QED
  BY <1>4, <1>5, <1>6, <1>7, <1>8, <1>9 DEF Next, Handler
-----------------------------------------------------------------------------
(* The configuration file and its backup.                                  *)

\* What LoadAppConfig reads from a whole file is what was saved, so that a
\* handler that finds one works on the saved configuration, patched.
LEMMA LoadsCommitted ==
  ASSUME NEW c \in Conns, Load(c), file = Whole(committed), pc'[c] = "backup", TypeOK
  PROVE  work' = [work EXCEPT ![c] = ApplyPatch(committed, req[c].patch)]
<1>1. LoadAppConfig(file) = {{committed}}
  BY DEF LoadAppConfig, Whole
<1>2. ~Respond(c)
  BY DEF Respond, TypeOK
<1>3. LET new == {ApplyPatch(x, req[c].patch) : x \in {committed}} IN
      work' = [work EXCEPT ![c] = CHOOSE x \in new : TRUE]
  BY <1>1, <1>2 DEF Load
<1> DEFINE w == ApplyPatch(committed, req[c].patch)
<1>4. {ApplyPatch(x, req[c].patch) : x \in {committed}} = {w}
  OBVIOUS
<1> HIDE DEF w
<1>5. (CHOOSE x \in {w} : TRUE) = w
  OBVIOUS
<1> QED
  BY <1>3, <1>4, <1>5 DEF w

\* The contents a file can have are told apart.
LEMMA ContentsDiffer ==
  /\ \A c : Whole(c) # Empty /\ Whole(c).kind = "whole" /\ Whole(c).cfg = c
  /\ Empty.kind = "empty"
  /\ \A c : Written(Empty, Whole(c)) = {Whole(c)}
<1>1. /\ \A c : Whole(c).kind = "whole" /\ Whole(c).cfg = c
      /\ Empty.kind = "empty"
  BY DEF Whole, Empty
<1>2. \A c : Whole(c) # Empty
  BY <1>1
<1>3. \A c : Written(Empty, Whole(c)) = {Whole(c)}
  BY <1>1 DEF Written
<1> QED
  BY <1>1, <1>2, <1>3

\* A handler that does not save, or stops saving without touching the file,
\* disturbs nobody.
LEMMA SaverLeaves ==
  ASSUME TypeOK, RequestsOK, OneSaver, SaverHolds, NEW c \in Conns, Respond(c),
         UNCHANGED <<file, bak, committed>>
  PROVE  OneSaver' /\ SaverHolds'
<1>1. \A d \in Conns : \/ pc'[d] = "none"
                       \/ /\ pc'[d] = pc[d] /\ work'[d] = work[d] /\ copy'[d] = copy[d]
                          /\ req'[d] = req[d]
  BY DEF TypeOK, RequestsOK, Respond
<1>2. \A d \in Conns : Saving(d)' => Saving(d)
  BY <1>1 DEF Saving
<1> QED
  BY <1>1, <1>2 DEF OneSaver, SaverHolds, Saving

\* The step of the one saver c: all other handlers are elsewhere.
LEMMA SaverMoves ==
  ASSUME TypeOK, RequestsOK, TypeOK', OneSaver, SaverHolds, FilesAreCoherent, HandlersEnd, NEW c \in Conns,
         Backup(c) \/ BakTruncate(c) \/ BakWrite(c) \/ Truncate(c)
  PROVE  OneSaver' /\ SaverHolds' /\ FilesAreCoherent'
<1>1. Saving(c)
  BY DEF Backup, BakTruncate, BakWrite, Truncate, Saving
<1>2. \A d \in Conns \ {c} : ~Saving(d)
  BY <1>1 DEF OneSaver
<1>3. UNCHANGED <<req, work, committed, server>>
  BY DEF Backup, BakTruncate, BakWrite, Truncate, history
<1>4. PICK l \in {"bakTrunc", "bakWrite", "trunc", "write"} : pc' = [pc EXCEPT ![c] = l]
  BY DEF Backup, BakTruncate, BakWrite, Truncate, Goto
<1>5. \A d \in Conns \ {c} : pc'[d] = pc[d] /\ ~Saving(d)' /\ pc'[d] # "write"
  BY <1>2, <1>4 DEF Saving, TypeOK
<1>6. OneSaver'
  BY <1>5 DEF OneSaver
<1>7. work'[c] = ApplyPatch(committed', req'[c].patch) /\ pc'[c] = l
  BY <1>1, <1>3, <1>4 DEF SaverHolds, TypeOK
<1>8. /\ l \in {"bakTrunc", "bakWrite", "trunc"} => file' = Whole(committed)
      /\ l \in {"bakTrunc", "bakWrite"} => copy'[c] = Whole(committed)
      /\ l = "bakWrite" => bak' = Empty
      /\ l \in {"trunc", "write"} => bak' = Whole(committed)
      /\ l = "write" => file' = Empty
  <2>1. CASE Backup(c)
    BY <2>1, <1>4 DEF Backup, Goto, SaverHolds, TypeOK, disk
  <2>2. CASE BakTruncate(c)
    BY <2>2, <1>4 DEF BakTruncate, Goto, SaverHolds, TypeOK
  <2>3. CASE BakWrite(c)
    <3>1. pc[c] = "bakWrite" /\ pc'[c] = "trunc" /\ bak' \in Written(bak, copy[c]) /\ file' = file
      BY <2>3 DEF BakWrite, Goto, TypeOK
    <3>2. bak = Empty /\ copy[c] = Whole(committed) /\ file = Whole(committed)
      BY <3>1 DEF SaverHolds
    <3> QED
      BY <1>7, <3>1, <3>2, ContentsDiffer
  <2>4. CASE Truncate(c)
    BY <2>4, <1>4 DEF Truncate, Goto, SaverHolds, TypeOK
  <2> QED
    BY <2>1, <2>2, <2>3, <2>4
<1>9. SaverHolds'
  BY <1>3, <1>5, <1>7, <1>8 DEF SaverHolds, Saving
<1>10. FilesAreCoherent'
  BY <1>3, <1>4, <1>7, <1>8 DEF FilesAreCoherent
<1> QED
  BY <1>6, <1>9, <1>10

\* Every step keeps what is on disk recoverable, unless it disturbs a save.
LEMMA DiskStep ==
  ASSUME IInv, [Next]_vars
  PROVE  DiskInv'
<1>1. TypeOK /\ RequestsOK /\ TypeOK' /\ RequestsOK' /\ HandlersEnd
  BY TypeStep DEF IInv, DiskInv
<1> USE <1>1
<1>2. disturbed \in BOOLEAN /\ disturbed' \in BOOLEAN
  BY DEF TypeOK
<1>3. ~disturbed => OneSaver /\ SaverHolds /\ FilesAreCoherent
  BY DEF IInv, DiskInv
<1> DEFINE Goal == ~disturbed' => OneSaver' /\ SaverHolds' /\ FilesAreCoherent'
\* A handler is at work: its instance runs.
<1>4. ASSUME NEW c \in Conns, pc[c] # "none", server' = server PROVE HandlersEnd' /\ server # "crashed"
  BY <1>4 DEF HandlersEnd
<1>5. ASSUME NEW c \in Conns, Respond(c), pc[c] # "write", UNCHANGED <<file, bak, committed, server>>,
             disturbed' = disturbed
      PROVE  Goal
  <2>1. ~disturbed => OneSaver' /\ SaverHolds'
    BY <1>3, <1>5, SaverLeaves
  <2>2. \A d \in Conns : pc[d] = "write" => pc'[d] = "write"
    BY <1>5 DEF Respond, TypeOK
  <2>3. ~disturbed => FilesAreCoherent'
    BY <1>3, <1>5, <2>2 DEF FilesAreCoherent
  <2> QED
    BY <1>5, <2>1, <2>3
<1>6. ASSUME NEW c \in Conns, Connect(c) PROVE Goal /\ HandlersEnd'
  <2>1. /\ pc' = [pc EXCEPT ![c] = "decode"] /\ pc[c] = "none" /\ server = "up"
        /\ UNCHANGED <<server, work, copy, file, bak, committed, disturbed>>
    BY <1>6 DEF Connect, Goto, disk, history
  <2>2. \A d \in Conns \ {c} : req'[d] = req[d]
    BY <1>6 DEF Connect, RequestsOK
  <2>3. ~disturbed => OneSaver'
    BY <1>3, <2>1 DEF OneSaver, Saving, TypeOK
  <2>4. ~disturbed => SaverHolds'
    BY <1>3, <2>1, <2>2 DEF SaverHolds, Saving, TypeOK
  <2>5. ~disturbed => FilesAreCoherent'
    BY <1>3, <2>1 DEF FilesAreCoherent, TypeOK
  <2> QED
    BY <2>1, <2>3, <2>4, <2>5 DEF HandlersEnd
<1>7. ASSUME NEW c \in Conns, Deadline(c) \/ Perform(c) PROVE Goal /\ HandlersEnd'
  <2>1. /\ Respond(c) /\ pc[c] \notin {"none", "write"}
        /\ UNCHANGED <<server, file, bak, committed, disturbed>>
    BY <1>7 DEF Deadline, Perform, disk, history
  <2> QED
    BY <1>4, <1>5, <2>1
<1>8. ASSUME NEW c \in Conns, NEW q \in Asked, Request(c, q.op, q.dry, q.patch)
      PROVE  Goal /\ HandlersEnd'
  <2>1. pc[c] = "decode" /\ UNCHANGED <<server, file, bak, committed, disturbed>>
    BY <1>8 DEF Request, disk
  <2>2. CASE Respond(c)
    BY <1>4, <1>5, <2>1, <2>2
  <2>3. CASE ~Respond(c)
    <3>1. PICK l \in {"load", "perform"} : pc' = [pc EXCEPT ![c] = l]
      BY <1>8, <2>3 DEF Request, Goto
    <3>2. UNCHANGED <<work, copy>> /\ \A d \in Conns \ {c} : req'[d] = req[d]
      BY <1>8, <2>3 DEF Request, RequestsOK
    <3>3. \A d \in Conns : \/ ~Saving(d)' /\ pc'[d] # "write" /\ pc[d] # "write"
                           \/ pc'[d] = pc[d] /\ req'[d] = req[d]
      BY <2>1, <3>1, <3>2 DEF Saving, TypeOK
    <3>4. ~disturbed => OneSaver'
      BY <1>3, <3>3 DEF OneSaver, Saving
    <3>5. ~disturbed => SaverHolds'
      BY <1>3, <2>1, <3>2, <3>3 DEF SaverHolds, Saving
    <3>6. ~disturbed => FilesAreCoherent'
      BY <1>3, <2>1, <3>3 DEF FilesAreCoherent
    <3> QED
      BY <1>4, <2>1, <3>4, <3>5, <3>6
  <2> QED
    BY <2>2, <2>3
<1>9. ASSUME NEW c \in Conns, Load(c) PROVE Goal /\ HandlersEnd'
  <2>1. pc[c] = "load" /\ UNCHANGED <<server, file, bak, committed>>
    BY <1>9 DEF Load, disk, history
  <2>2. CASE Respond(c) /\ UNCHANGED disturbed
    BY <1>4, <1>5, <2>1, <2>2
  <2>3. CASE /\ Goto(c, "backup") /\ disturbed' = (disturbed \/ \E d \in Conns : Saving(d))
             /\ UNCHANGED <<req, copy>>
    <3> SUFFICES ASSUME ~disturbed' PROVE OneSaver' /\ SaverHolds' /\ FilesAreCoherent'
      BY <1>4, <2>1
    <3>1. ~disturbed /\ \A d \in Conns : ~Saving(d)
      BY <2>3
    <3>2. file = Whole(committed)
      BY <1>3, <1>4, <2>1, <3>1 DEF FilesAreCoherent, Saving
    <3>3. pc' = [pc EXCEPT ![c] = "backup"] /\ pc'[c] = "backup"
      BY <2>3 DEF Goto, TypeOK
    <3>4. work' = [work EXCEPT ![c] = ApplyPatch(committed, req[c].patch)]
      BY <1>9, <3>2, <3>3, LoadsCommitted
    <3>5. work'[c] = ApplyPatch(committed, req[c].patch)
      BY <3>4 DEF TypeOK
    <3>6. \A d \in Conns \ {c} : ~Saving(d)'
      BY <3>1, <3>3 DEF Saving, TypeOK
    <3> QED
      BY <2>1, <2>3, <3>2, <3>3, <3>5, <3>6 DEF OneSaver, SaverHolds, FilesAreCoherent, Saving
  <2> QED
    BY <1>9, <2>2, <2>3 DEF Load
<1>10. ASSUME NEW c \in Conns, Backup(c) \/ BakTruncate(c) \/ BakWrite(c) \/ Truncate(c)
       PROVE  Goal /\ HandlersEnd'
  <2>1. pc[c] # "none" /\ UNCHANGED <<server, disturbed>>
    BY <1>10 DEF Backup, BakTruncate, BakWrite, Truncate
  <2> QED
    BY <1>3, <1>4, <1>10, <2>1, SaverMoves
<1>11. ASSUME NEW c \in Conns, Write(c) PROVE Goal /\ HandlersEnd'
  <2>1. /\ pc[c] = "write" /\ UNCHANGED <<server, bak, disturbed>> /\ Respond(c)
        /\ committed' = work[c] /\ file' \in Written(file, Whole(work[c]))
    BY <1>11 DEF Write
  <2> SUFFICES ASSUME ~disturbed PROVE OneSaver' /\ SaverHolds' /\ FilesAreCoherent'
    BY <1>4, <2>1
  <2>2. \A d \in Conns : pc'[d] \in {"none", pc[d]} /\ (d = c => pc'[d] = "none")
    BY <2>1 DEF Respond, TypeOK
  <2>3. \A d \in Conns : ~Saving(d)'
    BY <1>3, <2>1, <2>2 DEF OneSaver, Saving
  <2>4. file' = Whole(work[c])
    BY <1>3, <2>1, ContentsDiffer DEF SaverHolds
  <2> QED
    BY <2>1, <2>3, <2>4 DEF OneSaver, SaverHolds, FilesAreCoherent, Saving
<1>12. ASSUME NEW c \in Conns, WriteFails(c) PROVE Goal /\ HandlersEnd'
  <2>1. pc[c] \in {"bakWrite", "write"} /\ Respond(c) /\ UNCHANGED <<server, committed>>
    BY <1>12 DEF WriteFails, history
  <2>2. CASE pc[c] = "write"
    <3>1. disturbed' = TRUE
      BY <1>12, <2>2 DEF WriteFails
    <3> QED
      BY <1>4, <2>1, <2>2, <3>1
  \* The backup is torn, the file is not: it still holds the committed configuration.
  <2>3. CASE pc[c] = "bakWrite"
    <3>1. UNCHANGED <<file, disturbed>>
      BY <1>12, <2>3 DEF WriteFails
    <3> SUFFICES ASSUME ~disturbed PROVE OneSaver' /\ SaverHolds' /\ FilesAreCoherent'
      BY <1>4, <2>1, <2>3, <3>1
    <3>2. file' = Whole(committed)
      BY <1>3, <2>3, <3>1 DEF SaverHolds, Saving
    <3>3. \A d \in Conns : pc'[d] \in {"none", pc[d]} /\ (d = c => pc'[d] = "none")
      BY <2>1 DEF Respond, TypeOK
    <3>4. \A d \in Conns : ~Saving(d)'
      BY <1>3, <2>3, <3>3 DEF OneSaver, Saving
    <3> QED
      BY <2>1, <3>2, <3>4 DEF OneSaver, SaverHolds, FilesAreCoherent, Saving
  <2> QED
    BY <2>1, <2>2, <2>3
<1>13. ASSUME Stop \/ Stopped \/ Boot \/ UNCHANGED vars PROVE Goal /\ HandlersEnd'
  <2>1. UNCHANGED <<pc, req, work, copy, file, bak, committed, disturbed>>
    BY <1>13 DEF Stop, Stopped, Boot, vars, disk, history
  <2>2. HandlersEnd' /\ (server = "crashed" => server' = "crashed" \/ file.kind = "whole")
    BY <1>13, <2>1 DEF Stop, Stopped, Boot, vars, HandlersEnd
  <2>3. ~disturbed => FilesAreCoherent'
    BY <1>3, <2>1, <2>2, ContentsDiffer DEF FilesAreCoherent
  <2> QED
    BY <1>3, <2>1, <2>2, <2>3 DEF OneSaver, SaverHolds, Saving
<1>14. ASSUME Crash PROVE Goal /\ HandlersEnd'
  <2>1. /\ \A c \in Conns : pc'[c] = "none"
        /\ server' = "crashed" /\ UNCHANGED <<file, bak, committed, disturbed>>
    BY <1>14 DEF Crash, disk, history
  <2> QED
    BY <1>3, <2>1 DEF OneSaver, SaverHolds, FilesAreCoherent, HandlersEnd, Saving
<1>15. ASSUME Restore PROVE Goal /\ HandlersEnd'
  <2>1. /\ file.kind # "whole" /\ file' = bak /\ server \in {"stopped", "crashed"}
        /\ UNCHANGED <<server, pc, bak, committed, disturbed>>
    BY <1>15 DEF Restore, history
  <2>2. \A c \in Conns : pc'[c] = "none"
    BY <2>1 DEF HandlersEnd
  <2>3. ~disturbed => file' = Whole(committed)
    BY <1>3, <2>1, ContentsDiffer DEF FilesAreCoherent
  <2> QED
    BY <2>1, <2>2, <2>3 DEF OneSaver, SaverHolds, FilesAreCoherent, HandlersEnd, Saving
<1> HIDE DEF Goal
<1>16. Goal /\ HandlersEnd'
  BY <1>6, <1>7, <1>8, <1>9, <1>10, <1>11, <1>12, <1>13, <1>14, <1>15 DEF Next, Handler
<1> QED
  BY <1>16 DEF Goal, DiskInv
-----------------------------------------------------------------------------
(* The theorems.                                                           *)

\* The inductive invariant holds in every reachable state.
LEMMA Invariance == Spec => []IInv
<1>1. Init => IInv
  <2> SUFFICES ASSUME Init PROVE IInv
    OBVIOUS
  <2>1. TypeOK /\ RequestsOK
    <3>1. IsFiniteSet(trail)
      BY FS_EmptySet DEF Init
    <3>2. req \in [Conns -> Requests] /\ \A c \in Conns : req[c].id \in 0 .. MaxRequests
      BY Values, ControlAssumption DEF Init
    <3>3. /\ pc \in [Conns -> {"none", "decode", "perform", "load", "backup", "bakTrunc",
                               "bakWrite", "trunc", "write"}]
          /\ work \in [Conns -> Config] /\ copy \in [Conns -> Contents]
      BY Values DEF Init
    <3>4. roles \in {Roles, <<>>}
      BY Zenon DEF Init, RolesOf
    <3>5. crashes \in 0 .. MaxCrashes /\ committed \in Config /\ disturbed \in BOOLEAN
      <4>1. crashes = 0 /\ committed = Initial /\ disturbed = FALSE
        BY Zenon DEF Init
      <4>2. MaxCrashes \in Nat /\ Initial \in Config
        BY Zenon, ControlAssumption
      <4>3. disturbed \in BOOLEAN
        BY <4>1, Zenon
      <4> QED
        BY <4>1, <4>2, <4>3
    <3>6. file \in Contents \ {Absent} /\ bak \in Contents
      BY Values, ControlAssumption DEF Init
    <3>7. server = "up"
      BY DEF Init
    <3> QED
      BY <3>1, <3>2, <3>3, <3>4, <3>5, <3>6, <3>7 DEF TypeOK, RequestsOK
  <2>2. AuditInv
    BY DEF Init, AuditInv, HandlersAreAudited, Granted, Saving, EffectsAudited, TrailIsTrue
  <2>3. DiskInv
    BY DEF Init, DiskInv, HandlersEnd, OneSaver, SaverHolds, FilesAreCoherent, Saving
  <2> QED
    BY <2>1, <2>2, <2>3 DEF IInv
<1>2. IInv /\ [Next]_vars => IInv'
  <2> SUFFICES ASSUME IInv, [Next]_vars PROVE IInv'
    OBVIOUS
  <2>1. TypeOK' /\ RequestsOK'
    BY TypeStep DEF IInv
  <2> QED
    BY <2>1, AuditStep, DiskStep DEF IInv
<1> QED
  BY <1>1, <1>2, PTL DEF Spec

\* The state stays typed, whatever the handlers, the disk and crashes do.
THEOREM TypeCorrect == Spec => []TypeOK
<1>1. IInv => TypeOK
  BY DEF IInv
<1> QED
  BY <1>1, Invariance, PTL

\* No configuration is saved and no instance stopped or restarted but by a
\* request in the audit trail that was granted to a peer the kernel identified:
\* for any number of handlers at once.
THEOREM NothingUnaudited == Spec => []EffectsAudited
<1>1. IInv => EffectsAudited
  BY DEF IInv, AuditInv
<1> QED
  BY <1>1, Invariance, PTL

\* For every list of roles, Authorize grants exactly what the roles say, in
\* whatever order they are.
THEOREM AuthorizationIsExact == Spec => []TrailIsTrue
<1>1. IInv => TrailIsTrue
  BY DEF IInv, AuditInv
<1> QED
  BY <1>1, Invariance, PTL

\* Wherever PersistConfig is cut off, the last saved configuration is whole in
\* the file or in its .bak.
THEOREM ConfigSurvives == Spec => []Recoverable
<1>1. IInv => Recoverable
  <2> SUFFICES ASSUME IInv, ~disturbed
               PROVE /\ \/ file = Whole(committed)
                        \/ bak.kind = "whole" /\ file.kind = "empty" /\ bak.cfg = committed
                     /\ server = "stopped" => file.kind = "whole"
    BY DEF Recoverable
  <2>1. FilesAreCoherent /\ HandlersEnd
    BY DEF IInv, DiskInv
  <2> QED
    BY <2>1, ContentsDiffer DEF FilesAreCoherent, HandlersEnd
<1> QED
  BY <1>1, Invariance, PTL

\* ConfigPatch: "Omitted fields are left unchanged", as long as saves do not
\* overlap and the disk takes them.
THEOREM PatchesCompose == Spec => OmittedUnchanged
<1>1. ASSUME IInv, [Next]_vars, NEW c \in Conns, Saves(c), ~disturbed
      PROVE  \A f \in Fields \ DOMAIN req[c].patch : committed'[f] = committed[f]
  <2>1. pc[c] = "write" /\ pc'[c] = "none" /\ effects' # effects
    BY <1>1 DEF Saves
  <2>2. TypeOK /\ SaverHolds
    BY <1>1 DEF IInv, DiskInv
  <2>3. work[c] = ApplyPatch(committed, req[c].patch)
    BY <2>1, <2>2 DEF SaverHolds, Saving
  <2>4. ASSUME NEW d \in Conns, Write(d) PROVE committed' = work[c]
    <3>1. d = c
      BY <2>1, <2>2, <2>4 DEF Write, Respond, TypeOK
    <3> QED
      BY <2>4, <3>1 DEF Write
  <2>5. committed' = committed \/ committed' = work[c]
    BY <1>1, <2>1, <2>4
       DEF Next, Handler, Connect, Deadline, Request, Perform, Load, Backup, BakTruncate, BakWrite,
           Truncate, WriteFails, Stop, Stopped, Crash, Boot, Restore, vars, history
  <2> QED
    BY <2>3, <2>5 DEF ApplyPatch
<1> DEFINE A == \A c \in Conns : Saves(c) /\ ~disturbed =>
                   \A f \in Fields \ DOMAIN req[c].patch : committed'[f] = committed[f]
<1>2. IInv /\ [Next]_vars => [A]_vars
  BY <1>1
<1>3. OmittedUnchanged <=> [][A]_vars
  BY DEF OmittedUnchanged
<1> HIDE DEF A
<1> QED
  BY <1>2, <1>3, Invariance, PTL DEF Spec
=============================================================================
