-------------------------- MODULE SmbSessionProofs --------------------------
(***************************************************************************)
(* What holds of one connection of the SMB honeypot for every              *)
(* configuration, directory, set of call ids and every bound of module     *)
(* SmbSession: replies on pipes, directory listings and who is let in.     *)
(***************************************************************************)
EXTENDS SmbSession, SequenceTheorems, TLAPS

-----------------------------------------------------------------------------
(* The inductive invariant.                                                *)

Fragments == [call : Calls, first : BOOLEAN, op : Ops]
Headers   == {Nil} \cup {<<f>> : f \in Fragments}
Bodies    == {"none", "ack", "users", "denied", "ok"}
Replies   == [body : Bodies, whole : BOOLEAN, fresh : BOOLEAN]

PipeStates == [name : PipeNames, bound : BOOLEAN, pending : Replies,
               reasmHdr : Headers, reasm : Seq(Fragments), opener : Headers]

\* What Write has put together so far is the request begun last: the header
\* kept is its first fragment's, and no later fragment starts a request.
Reassembling(p) ==
    p.reasm # Nil => /\ p.opener = <<p.reasm[1]>>
                     /\ p.reasmHdr = p.opener
                     /\ \A i \in 2 .. Len(p.reasm) : ~p.reasm[i].first

PipeInv(p) == /\ p \in PipeStates
              /\ p.pending.whole /\ p.pending.fresh
              /\ Reassembling(p)
              /\ Len(p.reasm) <= MaxFrags

Entries == {".", ".."} \cup STRING

PipeHandles == [kind : {"pipe"}, pipe : PipeStates]
NodeHandles == [kind : {"dir", "file", "hive"}, idx : Nat, got : Seq(Entries), ended : BOOLEAN]

\* The entries handed out are the listing up to the index kept in the handle.
ListedSoFar(x) == /\ x.idx <= Len(Listing)
                  /\ x.got = SubSeq(Listing, 1, x.idx)
                  /\ x.ended => x.idx = Len(Listing)

HandleInv(x) == \/ x \in PipeHandles /\ PipeInv(x.pipe)
                \/ x \in NodeHandles /\ ListedSoFar(x)

HandlesInv == \A h \in DOMAIN handles : HandleInv(handles[h])
FidsInv    == \A f \in DOMAIN fids : PipeInv(fids[f])

Ids == [tree : Nat, tid : Nat, handle : Nat, fid : Nat, setup : Nat]

Dialects == {0} \cup {d \in {785, 770, 768, 528, 514} : d <= cfg.maxDialect}

States == StateNew..StateAuthenticated

Sessions == [id : 0..1, state : States, dialect : Dialects,
             challenge : Nat, preauth : BOOLEAN, signing : BOOLEAN,
             guest : BOOLEAN, seeded : BOOLEAN]

StateInv ==
    /\ cfg \in Configs
    /\ conn \in {"nbss", "serving", "closed", "panicked"}
    /\ sess \in Sessions
    /\ next \in Ids
    /\ seen \in [issued : Nat, staleProof : BOOLEAN, legacySetup : BOOLEAN]
    /\ reply \in {"none", "ok", "refused"}
    /\ sess.challenge <= next.setup /\ next.setup <= MaxSetups
    /\ DOMAIN trees \subseteq 1..next.tree /\ DOMAIN trees1 \subseteq 1..next.tid
    /\ DOMAIN handles \subseteq 1..next.handle /\ DOMAIN fids \subseteq 1..next.fid

\* The session holds the challenge sent last.
ChallengeInv == sess.challenge = seen.issued /\ ~seen.staleProof

\* A session that got as far as a handle is a guest's or somebody's who proved
\* a credential, or was set up over SMBv1 -- and stays so when it negotiates,
\* or begins to authenticate, again.
Admitted == sess.guest \/ sess.seeded \/ seen.legacySetup
AdmittedFirst == sess.state = StateAuthenticated \/ DOMAIN handles # {} => Admitted

\* Behind an administrative share, or a reply that names the accounts, is a
\* proven credential or an SMBv1 setup.
Proven == sess.seeded \/ seen.legacySetup
TellsUsers(x) == x.kind = "pipe" /\ x.pipe.name = "samr" /\ x.pipe.pending.body = "users"
TreesGated   == \A t \in DOMAIN trees : isAdminShare(trees[t]) => Proven
HandlesGated == \A h \in DOMAIN handles : TellsUsers(handles[h]) => Proven

IInv == /\ StateInv
        /\ HandlesInv
        /\ FidsInv
        /\ ChallengeInv
        /\ AdmittedFirst
        /\ TreesGated
        /\ HandlesGated

-----------------------------------------------------------------------------
(* Pipes.                                                                  *)

\* A fragment of a PDU that a client may send is a fragment.
LEMMA FragOfPDU ==
  ASSUME NEW d \in PDUs
  PROVE  Frag(d) \in Fragments /\ Frag(d).first = d.first /\ <<Frag(d)>> \in Headers
<1>1. Frag(d) \in Fragments /\ Frag(d).first = d.first
  BY DEF Frag, Fragments, PDUs, Ops
<1> QED
  BY <1>1 DEF Headers

\* The first element of a sequence, as a sequence.
LEMMA FirstOf ==
  ASSUME NEW S, NEW s \in Seq(S), s # <<>>
  PROVE  SubSeq(s, 1, 1) = <<s[1]>>
<1>1. Len(s) \in Nat /\ Len(s) # 0 /\ s[1] \in S
  BY EmptySeq, LenProperties
<1>2. /\ SubSeq(s, 1, 1) \in Seq(S) /\ Len(SubSeq(s, 1, 1)) = 1
      /\ SubSeq(s, 1, 1)[1] = s[1]
  BY <1>1, SubSeqProperties
<1>3. \A x \in S : <<x>> \in Seq(S) /\ Len(<<x>>) = 1 /\ <<x>>[1] = x
  OBVIOUS
<1>4. <<s[1]>> \in Seq(S) /\ Len(<<s[1]>>) = 1 /\ <<s[1]>>[1] = s[1]
  BY <1>1, <1>3, Zenon
<1> DEFINE t == SubSeq(s, 1, 1)
           u == <<s[1]>>
<1>5. t \in Seq(S) /\ u \in Seq(S) /\ Len(t) = 1 /\ Len(u) = 1 /\ t[1] = u[1]
  BY <1>2, <1>4, Zenon
<1> HIDE DEF t, u
<1>6. t = u
  BY <1>5, SeqEqual
<1> QED
  BY <1>6 DEF t, u

\* Only a caller that counts as authenticated is told the users over SAMR, and
\* a reply computed from the fragments of the request begun last is whole.
LEMMA ReplyOfRequest ==
  ASSUME NEW p \in PipeStates, NEW frags, NEW a \in BOOLEAN,
         SubSeq(frags, 1, 1) = p.opener, \A i \in 2..Len(frags) : ~frags[i].first
  PROVE  LET r == handleRequest(p, p.opener, frags, a)
         IN  /\ r \in Replies /\ r.fresh /\ r.whole
             /\ p.name = "samr" /\ r.body = "users" => a
<1> DEFINE b == IF p.name = "samr" THEN handleSamrRequest(p.opener[1].op, a)
                ELSE IF p.name = "lsarpc" THEN handleLsarpcRequest(p.opener[1].op)
                ELSE handleSrvsvcRequest(p.opener[1].op)
           w == /\ p.opener = p.opener /\ SubSeq(frags, 1, 1) = p.opener
                /\ \A i \in 2..Len(frags) : ~frags[i].first
<1>1. handleRequest(p, p.opener, frags, a) = [body |-> b, fresh |-> TRUE, whole |-> w]
  BY DEF handleRequest
<1>2. w = TRUE
  OBVIOUS
<1>3. b \in Bodies /\ (p.name = "samr" /\ b = "users" => a)
  BY DEF handleSamrRequest, handleLsarpcRequest, handleSrvsvcRequest, Bodies
<1> HIDE DEF b, w
<1> QED
  BY <1>1, <1>2, <1>3 DEF Replies

\* A PDU the client may send leaves room for its fragment.
LEMMA PDUWithinBound ==
  ASSUME NEW p, PipeInv(p), NEW d \in Sendable(p)
  PROVE  d \in PDUs /\ (~d.first => Len(p.reasm) < MaxFrags)
  BY DEF Sendable, PDUsFor, PipeInv, PipeStates

\* What Write makes of a pipe p: still a good pipe, and the users are told over
\* SAMR only to a caller that counts as authenticated.
Outcome(p, q, a) == /\ PipeInv(q) /\ q.name = p.name
                    /\ q.name = "samr" /\ q.pending.body = "users"
                           => a \/ p.pending.body = "users"

\* The nil reply is a reply that discloses nothing.
LEMMA Nothing == NoReply \in Replies /\ NoReply.whole /\ NoReply.fresh /\ NoReply.body = "none"
  BY DEF NoReply, Replies, Bodies

\* Noted marks the queued reply as out of date and notes a first fragment.
LEMMA NotedEffective ==
  ASSUME NEW p, PipeInv(p), NEW d \in PDUs, Effective(p, d)
  PROVE  LET q == Noted(p, d)
         IN  /\ q \in PipeStates /\ q.pending.body = p.pending.body
             /\ q.name = p.name /\ q.bound = p.bound
             /\ q.reasm = p.reasm /\ q.reasmHdr = p.reasmHdr
             /\ q.opener = IF d.ptype = "request" /\ d.first THEN <<Frag(d)>> ELSE p.opener
<1> DEFINE r == IF p.pending = NoReply THEN p.pending ELSE [p.pending EXCEPT !.fresh = FALSE]
           o == IF d.ptype = "request" /\ d.first THEN <<Frag(d)>> ELSE p.opener
<1>1. p \in PipeStates /\ p.pending \in Replies /\ p.opener \in Headers
  BY DEF PipeInv, PipeStates
<1>2. r \in Replies /\ r.body = p.pending.body
  BY <1>1 DEF Replies
<1>3. Noted(p, d) = [p EXCEPT !.pending = r, !.opener = o]
  BY <1>1 DEF Noted
<1>4. o \in Headers
  BY <1>1, FragOfPDU
<1>5. o = IF d.ptype = "request" /\ d.first THEN <<Frag(d)>> ELSE p.opener
  OBVIOUS
<1> HIDE DEF r, o
<1>6. LET q == [p EXCEPT !.pending = r, !.opener = o]
      IN  /\ q \in PipeStates /\ q.pending = r /\ q.name = p.name /\ q.bound = p.bound
          /\ q.reasm = p.reasm /\ q.reasmHdr = p.reasmHdr /\ q.opener = o
  BY <1>1, <1>2, <1>4 DEF PipeStates
<1> DEFINE n == Noted(p, d)
<1>7. /\ n \in PipeStates /\ n.pending = r /\ n.name = p.name /\ n.bound = p.bound
      /\ n.reasm = p.reasm /\ n.reasmHdr = p.reasmHdr /\ n.opener = o
  BY <1>3, <1>6, Zenon
<1> HIDE DEF n
<1>8. /\ n \in PipeStates /\ n.pending.body = p.pending.body
      /\ n.name = p.name /\ n.bound = p.bound
      /\ n.reasm = p.reasm /\ n.reasmHdr = p.reasmHdr
      /\ n.opener = IF d.ptype = "request" /\ d.first THEN <<Frag(d)>> ELSE p.opener
  BY <1>2, <1>5, <1>7
<1> QED
  BY <1>8 DEF n

\* A whole request, and the bind before it.
LEMMA WholeWritten ==
  ASSUME NEW p \in PipeStates, NEW d \in PDUs, NEW a \in BOOLEAN, Len(p.reasm) <= MaxFrags,
         p.reasm = Nil, p.opener = <<Frag(d)>>, d.len # "short"
  PROVE  Outcome(p, WriteWhole(p, d, a), a)
<1> DEFINE f == <<Frag(d)>>
           r == handleRequest(p, f, f, a)
<1>1. Frag(d) \in Fragments
  BY FragOfPDU
<1>2. \A x \in Fragments : <<x>> \in Seq(Fragments) /\ <<x>> # <<>> /\ Len(<<x>>) = 1 /\ <<x>>[1] = x
  OBVIOUS
<1>3. SubSeq(f, 1, 1) = f
  BY <1>1, <1>2, FirstOf, Zenon
<1>4. \A i \in 2 .. Len(f) : ~f[i].first
  BY <1>1, <1>2
<1>5. r \in Replies /\ r.fresh /\ r.whole /\ (p.name = "samr" /\ r.body = "users" => a)
  BY <1>3, <1>4, ReplyOfRequest, Zenon
<1>6. Nil \in Headers
  BY DEF Headers
<1>7. WriteWhole(p, d, a) = [p EXCEPT !.pending = r, !.opener = Nil]
  BY DEF WriteWhole
<1> HIDE DEF r, f
<1> DEFINE q == [p EXCEPT !.pending = r, !.opener = Nil]
<1>8. /\ q \in PipeStates /\ q.name = p.name /\ q.pending = r
      /\ q.reasm = p.reasm /\ q.opener = Nil
  BY <1>5, <1>6 DEF PipeStates
<1> HIDE DEF q
<1>9. Outcome(p, q, a)
  BY <1>5, <1>8 DEF Outcome, PipeInv, Reassembling
<1> QED
  BY <1>7, <1>9 DEF q

\* A fragment.  p is the pipe as Noted leaves it, s what has been put together
\* with it; the first fragment begins anew.
LEMMA FragmentWritten ==
  ASSUME NEW p \in PipeStates, NEW d \in PDUs, NEW a \in BOOLEAN, Len(p.reasm) <= MaxFrags,
         d.first => p.opener = <<Frag(d)>>,
         ~d.first => Reassembling(p) /\ Len(p.reasm) < MaxFrags
  PROVE  Outcome(p, WriteFragment(p, d, a), a)
<1> DEFINE s == Reassembled(p, d)
           h == IF d.first THEN <<Frag(d)>> ELSE p.reasmHdr
           r == handleRequest(p, h, s, a)
<1>1. /\ Frag(d) \in Fragments /\ Frag(d).first = d.first /\ <<Frag(d)>> \in Headers
      /\ Nil \in Headers /\ p.reasm \in Seq(Fragments) /\ p.reasmHdr \in Headers
      /\ p.opener \in Headers /\ d.first \in BOOLEAN
  BY FragOfPDU DEF Headers, PipeStates, PDUs
<1>2. \A x \in Fragments : <<x>> \in Seq(Fragments) /\ <<x>> # <<>> /\ Len(<<x>>) = 1 /\ <<x>>[1] = x
  OBVIOUS
<1>3. h \in Headers
  BY <1>1
<1>4. /\ s \in Seq(Fragments) /\ Len(s) <= MaxFrags
      /\ s # Nil => /\ p.opener = <<s[1]>> /\ h = p.opener
                    /\ \A i \in 2 .. Len(s) : ~s[i].first
  <2>1. CASE d.first /\ d.len = "bare"
    <3>1. s = <<>>
      BY <2>1 DEF Reassembled, Nil
    <3> QED
      BY <3>1, EmptySeq, SmbAssumption DEF Nil
  <2>2. CASE d.first /\ d.len # "bare"
    <3>1. s = <<Frag(d)>> /\ h = <<Frag(d)>>
      BY <2>2 DEF Reassembled
    <3>2. s \in Seq(Fragments) /\ Len(s) = 1 /\ s[1] = Frag(d)
      BY <1>1, <1>2, <3>1, Zenon
    <3> HIDE DEF s, h
    <3> QED
      BY <2>2, <3>1, <3>2, SmbAssumption
  <2>3. CASE ~d.first /\ p.reasm = Nil
    <3>1. s = <<>>
      BY <2>3 DEF Reassembled, Nil
    <3> QED
      BY <3>1, EmptySeq, SmbAssumption DEF Nil
  <2>4. CASE ~d.first /\ p.reasm # Nil
    <3>1. s = Append(p.reasm, Frag(d)) /\ h = p.reasmHdr
      BY <2>4 DEF Reassembled
    <3>2. /\ Len(p.reasm) \in Nat /\ Len(p.reasm) # 0
      BY <1>1, <2>4, EmptySeq, LenProperties DEF Nil
    <3>3. /\ s \in Seq(Fragments) /\ Len(s) = Len(p.reasm) + 1
          /\ \A i \in 1 .. Len(p.reasm) : s[i] = p.reasm[i]
          /\ s[Len(p.reasm) + 1] = Frag(d)
      BY <1>1, <3>1, <3>2, AppendProperties
    <3>4. /\ p.opener = <<p.reasm[1]>> /\ p.reasmHdr = p.opener
          /\ \A i \in 2 .. Len(p.reasm) : ~p.reasm[i].first
      BY <2>4 DEF Reassembling
    <3> HIDE DEF s, h
    <3>5. s[1] = p.reasm[1]
      BY <3>2, <3>3
    <3>6. ASSUME NEW i \in 2 .. Len(s) PROVE ~s[i].first
      <4>1. i \in 2 .. Len(p.reasm) \/ i = Len(p.reasm) + 1
        BY <3>2, <3>3
      <4> QED
        BY <1>1, <2>4, <3>2, <3>3, <3>4, <4>1
    <3>7. Len(s) <= MaxFrags
      BY <2>4, <3>2, <3>3, SmbAssumption
    <3>8. p.opener = <<s[1]>> /\ h = p.opener
      BY <3>1, <3>4, <3>5
    <3> QED
      BY <3>3, <3>6, <3>7, <3>8
  <2> QED
    BY <1>1, <2>1, <2>2, <2>3, <2>4
<1>5. s # Nil => r \in Replies /\ r.fresh /\ r.whole /\ (p.name = "samr" /\ r.body = "users" => a)
  <2> SUFFICES ASSUME s # Nil PROVE r \in Replies /\ r.fresh /\ r.whole
                                    /\ (p.name = "samr" /\ r.body = "users" => a)
    OBVIOUS
  <2> HIDE DEF s, h
  <2>1. SubSeq(s, 1, 1) = p.opener
    BY <1>4, FirstOf DEF Nil
  <2>2. h = p.opener /\ \A i \in 2 .. Len(s) : ~s[i].first
    BY <1>4
  <2> QED
    BY <2>1, <2>2, ReplyOfRequest, Zenon
<1> DEFINE q == WriteFragment(p, d, a)
<1>6. q = IF d.last /\ s # Nil
          THEN [p EXCEPT !.pending = r, !.reasm = Nil, !.reasmHdr = Nil, !.opener = Nil]
          ELSE [p EXCEPT !.pending = NoReply, !.reasm = s, !.reasmHdr = h]
  BY DEF WriteFragment, Unanswered
<1> HIDE DEF s, h, r, q
<1>7. ASSUME d.last, s # Nil PROVE Outcome(p, q, a)
  <2>1. Nil \in Seq(Fragments) /\ Len(Nil) = 0
    BY EmptySeq DEF Nil
  <2>2. q = [p EXCEPT !.pending = r, !.reasm = Nil, !.reasmHdr = Nil, !.opener = Nil]
    BY <1>6, <1>7
  <2>3. q \in PipeStates /\ q.name = p.name /\ q.pending = r /\ q.reasm = Nil
    BY <1>1, <1>5, <1>7, <2>1, <2>2 DEF PipeStates
  <2> QED
    BY <1>5, <1>7, <2>1, <2>3, SmbAssumption DEF Outcome, PipeInv, Reassembling
<1>8. ASSUME ~(d.last /\ s # Nil) PROVE Outcome(p, q, a)
  <2>1. q = [p EXCEPT !.pending = NoReply, !.reasm = s, !.reasmHdr = h]
    BY <1>6, <1>8
  <2>2. /\ q \in PipeStates /\ q.name = p.name /\ q.pending = NoReply
        /\ q.reasm = s /\ q.reasmHdr = h /\ q.opener = p.opener
    BY <1>3, <1>4, <2>1, Nothing DEF PipeStates
  <2> QED
    BY <1>4, <2>2, Nothing DEF Outcome, PipeInv, Reassembling
<1> QED
  BY <1>7, <1>8 DEF q

\* Write on a pipe of the connection, for every PDU a client may send.
LEMMA Written ==
  ASSUME NEW p, PipeInv(p), NEW d \in Sendable(p), NEW a \in BOOLEAN
  PROVE  Outcome(p, Write(p, d, a), a)
<1> DEFINE n == Noted(p, d)
           q == Write(p, d, a)
<1>1. d \in PDUs /\ (~d.first => Len(p.reasm) < MaxFrags)
  BY PDUWithinBound
<1>2. /\ p \in PipeStates /\ p.pending.whole /\ p.pending.fresh /\ Reassembling(p)
      /\ Len(p.reasm) <= MaxFrags
      /\ d.ptype \in {"bind", "request", "other"} /\ d.len \in Lengths
  BY <1>1 DEF PipeInv, PDUs
<1>3. Outcome(p, p, a)
  BY DEF Outcome
<1>4. q = WritePDU(n, d, a)
  BY DEF Write
<1>5. ASSUME d.ptype = "bind", d.len # "tiny" PROVE Outcome(p, q, a)
  <2>1. Effective(p, d)
    BY <1>5 DEF Effective
  <2>2. /\ n \in PipeStates /\ n.name = p.name /\ n.reasm = p.reasm
        /\ n.reasmHdr = p.reasmHdr /\ n.opener = p.opener
    BY <1>1, <1>5, <2>1, NotedEffective
  <2>3. q = [n EXCEPT !.bound = TRUE, !.pending = buildBindAck(d)]
    BY <1>4, <1>5 DEF WritePDU
  <2>4. buildBindAck(d) \in Replies /\ buildBindAck(d).whole /\ buildBindAck(d).fresh
        /\ buildBindAck(d).body = "ack"
    BY DEF buildBindAck, Replies, Bodies
  <2> HIDE DEF q, n
  <2>5. /\ q \in PipeStates /\ q.name = n.name /\ q.pending = buildBindAck(d)
        /\ q.reasm = n.reasm /\ q.reasmHdr = n.reasmHdr /\ q.opener = n.opener
    BY <2>2, <2>3, <2>4 DEF PipeStates
  <2> QED
    BY <1>2, <2>2, <2>4, <2>5 DEF Outcome, PipeInv, Reassembling
<1>6. ASSUME d.ptype = "request", p.bound, d.len \in {"bare", "full"} PROVE Outcome(p, q, a)
  <2>1. Effective(p, d)
    BY <1>6 DEF Effective
  <2>2. /\ n \in PipeStates /\ n.pending.body = p.pending.body /\ n.name = p.name /\ n.bound = p.bound
        /\ n.reasm = p.reasm /\ n.reasmHdr = p.reasmHdr
        /\ n.opener = IF d.first THEN <<Frag(d)>> ELSE p.opener
    BY <1>1, <1>6, <2>1, NotedEffective
  <2>3. q = WriteRequest(n, d, a)
    BY <1>4, <1>6, <2>2 DEF WritePDU
  <2> HIDE DEF q, n
  <2>4. ASSUME d.first, d.last, n.reasm = Nil PROVE Outcome(n, q, a)
    <3>1. q = WriteWhole(n, d, a)
      BY <2>3, <2>4 DEF WriteRequest
    <3> QED
      BY <1>1, <1>2, <1>6, <2>2, <2>4, <3>1, WholeWritten
  <2>5. ASSUME ~(d.first /\ d.last /\ n.reasm = Nil) PROVE Outcome(n, q, a)
    <3>1. q = WriteFragment(n, d, a)
      BY <1>6, <2>3, <2>5 DEF WriteRequest
    <3>2. ~d.first => Reassembling(n) /\ Len(n.reasm) < MaxFrags
      BY <1>1, <1>2, <2>2 DEF Reassembling
    <3> QED
      BY <1>1, <1>2, <2>2, <3>1, <3>2, FragmentWritten
  <2> QED
    BY <2>2, <2>4, <2>5 DEF Outcome
<1>7. ASSUME d.ptype = "request", p.bound, d.len = "short" PROVE Outcome(p, q, a)
  <2>1. n = p
    BY <1>7 DEF Effective, Noted
  <2>2. q = p \/ q = [p EXCEPT !.pending = NoReply]
    BY <1>4, <1>7, <2>1 DEF WritePDU, WriteRequest, WriteWhole
  <2> DEFINE e == [p EXCEPT !.pending = NoReply]
  <2>3. /\ e \in PipeStates /\ e.name = p.name /\ e.pending = NoReply
        /\ e.reasm = p.reasm /\ e.reasmHdr = p.reasmHdr /\ e.opener = p.opener
    BY <1>2, Nothing DEF PipeStates
  <2> HIDE DEF e
  <2>4. Outcome(p, e, a)
    BY <1>2, <2>3, Nothing DEF Outcome, PipeInv, Reassembling
  <2> QED
    BY <1>3, <2>2, <2>4 DEF e
<1>8. ASSUME d.len = "tiny" \/ d.ptype = "other" \/ (d.ptype = "request" /\ ~p.bound)
      PROVE  Outcome(p, q, a)
  <2>1. n = p
    BY <1>8 DEF Effective, Noted
  <2>2. q = p
    BY <1>4, <1>8, <2>1 DEF WritePDU
  <2> QED
    BY <1>3, <2>2
<1> QED
  BY <1>2, <1>5, <1>6, <1>7, <1>8 DEF Lengths

\* Read takes the reply and leaves the rest.
LEMMA ReadOut ==
  ASSUME NEW p, PipeInv(p)
  PROVE  PipeInv(Read(p)) /\ Read(p).name = p.name /\ Read(p).pending.body = "none"
<1> DEFINE e == [p EXCEPT !.pending = NoReply]
<1>1. p \in PipeStates
  BY DEF PipeInv
<1>2. /\ e \in PipeStates /\ e.name = p.name /\ e.pending = NoReply
      /\ e.reasm = p.reasm /\ e.reasmHdr = p.reasmHdr /\ e.opener = p.opener
  BY <1>1, Nothing DEF PipeStates
<1>3. Read(p) = e
  BY DEF Read
<1> HIDE DEF e
<1> QED
  BY <1>2, <1>3, Nothing DEF PipeInv, Reassembling

\* A pipe that was just opened.
LEMMA NewPipe ==
  ASSUME NEW name \in PipeNames
  PROVE  LET p == newPipeState(name)
         IN  PipeInv(p) /\ p.name = name /\ p.pending.body = "none"
<1>1. <<>> \in Seq(Fragments) /\ Len(<<>>) = 0 /\ Nil = <<>> /\ Nil \in Headers
  BY EmptySeq DEF Nil, Headers
<1> QED
  BY <1>1, Nothing, SmbAssumption DEF newPipeState, PipeInv, PipeStates, Reassembling

-----------------------------------------------------------------------------
(* Directories.                                                            *)

LEMMA ListingIsSeq == Listing \in Seq(Entries) /\ Len(Listing) \in Nat
<1>1. Children \in Seq(Entries)
  <2>1. Children \in Seq(STRING) /\ STRING \subseteq Entries
    BY SmbAssumption DEF Entries
  <2>2. Len(Children) \in Nat /\ Children \in [1 .. Len(Children) -> STRING]
    BY <2>1, LenProperties
  <2>3. Children \in [1 .. Len(Children) -> Entries]
    BY <2>1, <2>2
  <2> QED
    BY <2>2, <2>3, SeqDef
<1>2. \A x, y \in Entries : <<x, y>> \in Seq(Entries)
  OBVIOUS
<1>3. "." \in Entries /\ ".." \in Entries
  BY DEF Entries
<1>4. <<".", "..">> \in Seq(Entries)
  BY <1>2, <1>3, Zenon
<1>5. Listing \in Seq(Entries)
  BY <1>1, <1>4, ConcatProperties DEF Listing
<1> QED
  BY <1>5, LenProperties

\* A directory handle starts with nothing listed.
LEMMA DirStarts == DirHandle \in NodeHandles /\ DirHandle.kind = "dir" /\ ListedSoFar(DirHandle)
                   /\ ~DirHandle.ended
<1>1. SubSeq(Listing, 1, 0) = <<>>
  BY SubSeqEmpty
<1>2. <<>> \in Seq(Entries)
  BY EmptySeq
<1> QED
  BY <1>1, <1>2, ListingIsSeq DEF DirHandle, NodeHandles, ListedSoFar

LEMMA FileStarts ==
  ASSUME NEW k \in {"file", "hive"}
  PROVE  FileHandle(k) \in NodeHandles /\ FileHandle(k).kind = k /\ ListedSoFar(FileHandle(k))
<1>1. SubSeq(Listing, 1, 0) = <<>>
  BY SubSeqEmpty
<1>2. <<>> \in Seq(Entries)
  BY EmptySeq
<1> QED
  BY <1>1, <1>2, ListingIsSeq DEF FileHandle, NodeHandles, ListedSoFar

\* One QUERY_DIRECTORY moves the index past exactly the entries it packs.
LEMMA ListsOn ==
  ASSUME NEW x \in NodeHandles, ListedSoFar(x), x.idx < Len(Listing), NEW room \in Nat
  PROVE  LET y == [x EXCEPT !.idx = NextIdx(x.idx, room),
                            !.got = @ \o SubSeq(Listing, x.idx + 1,
                                                x.idx + PackedEntries(x.idx, room))]
         IN  y \in NodeHandles /\ y.kind = x.kind /\ ListedSoFar(y)
<1> DEFINE n == x.idx + PackedEntries(x.idx, room)
           g == x.got \o SubSeq(Listing, x.idx + 1, n)
<1>1. x.idx \in Nat /\ x.got \in Seq(Entries) /\ x.ended = FALSE
  BY ListingIsSeq DEF NodeHandles, ListedSoFar
<1>2. n \in x.idx .. Len(Listing) /\ NextIdx(x.idx, room) = n
  BY <1>1, ListingIsSeq DEF PackedEntries, NextIdx
<1> HIDE DEF n
<1>3. g = SubSeq(Listing, 1, n)
  <2>1. x.got = SubSeq(Listing, 1, x.idx)
    BY DEF ListedSoFar
  <2>2. x.idx \in 1 - 1 .. Len(Listing) /\ 1 \in 1 .. Len(Listing) + 1
    BY <1>1, ListingIsSeq
  <2> QED
    BY <1>2, <2>1, <2>2, ListingIsSeq, ConcatAdjacentSubSeq
<1>4. g \in Seq(Entries)
  <2>1. \A i \in 1 .. n : Listing[i] \in Entries
    BY <1>1, <1>2, ListingIsSeq, LenProperties
  <2> QED
    BY <1>1, <1>2, <1>3, <2>1, SubSeqProperties, ListingIsSeq
<1> HIDE DEF g
<1> DEFINE y == [x EXCEPT !.idx = n, !.got = g]
<1>5. y \in NodeHandles /\ y.kind = x.kind /\ y.idx = n /\ y.got = g /\ y.ended = x.ended
  <2>1. n \in Nat
    BY <1>1, <1>2, ListingIsSeq
  <2> QED
    BY ONLY <1>4, <2>1, x \in NodeHandles DEF NodeHandles
<1> HIDE DEF y
<1>6. ListedSoFar(y)
  BY <1>1, <1>2, <1>3, <1>5, ListingIsSeq DEF ListedSoFar
<1>7. y = [x EXCEPT !.idx = NextIdx(x.idx, room),
                    !.got = @ \o SubSeq(Listing, x.idx + 1,
                                        x.idx + PackedEntries(x.idx, room))]
  <2>1. y = [x EXCEPT !.idx = n, !.got = x.got \o SubSeq(Listing, x.idx + 1, n)]
    BY DEF y, g
  <2>2. n = x.idx + PackedEntries(x.idx, room)
    BY DEF n
  <2> QED
    BY <1>2, <2>1, <2>2, Zenon
<1> QED
  BY <1>5, <1>6, <1>7, Zenon

\* "No more files" is answered at the end of the listing.
LEMMA ListEnds ==
  ASSUME NEW x \in NodeHandles, ListedSoFar(x), x.idx >= Len(Listing)
  PROVE  LET y == [x EXCEPT !.ended = TRUE]
         IN  y \in NodeHandles /\ y.kind = x.kind /\ ListedSoFar(y)
<1> DEFINE y == [x EXCEPT !.ended = TRUE]
<1>1. y \in NodeHandles /\ y.kind = x.kind /\ y.idx = x.idx /\ y.got = x.got /\ x.idx \in Nat
  BY DEF NodeHandles
<1> HIDE DEF y
<1>2. ListedSoFar(y)
  BY <1>1, ListingIsSeq DEF ListedSoFar
<1> QED
  BY <1>1, <1>2 DEF y

\* What ListingExact says of a handle.
LEMMA ListedIsExact ==
  ASSUME NEW x \in NodeHandles, ListedSoFar(x)
  PROVE  x.got = SubSeq(Listing, 1, x.idx) /\ (x.ended => x.got = Listing)
  BY ListingIsSeq, SubSeqFull DEF ListedSoFar

-----------------------------------------------------------------------------
(* The steps of the connection, by what they change.                       *)

Statuses == {"none", "ok", "refused"}
History == [issued : Nat, staleProof : BOOLEAN, legacySetup : BOOLEAN]

\* Authenticated is the highest of the session's states.
LEMMA StatesKnown ==
  /\ StateNew \in States /\ StateNegotiated \in States /\ StateSetupPending \in States
  /\ StateAuthenticated \in States
  /\ StateAuthenticated \notin {StateNew, StateNegotiated, StateSetupPending}
  /\ \A x \in States : x >= StateAuthenticated => x = StateAuthenticated
  BY DEF States, StateNew, StateNegotiated, StateSetupPending, StateAuthenticated

\* selectDialect keeps to the ceiling.
LEMMA DialectWithinCeiling ==
  ASSUME NEW offered
  PROVE  selectDialect(offered, cfg.maxDialect) \in Dialects
<1> DEFINE ok == {i \in 1..5 : supportedDialects[i] <= cfg.maxDialect
                                /\ supportedDialects[i] \in offered}
<1>1. Len(supportedDialects) = 5
  BY DEF supportedDialects
<1>2. selectDialect(offered, cfg.maxDialect) =
         IF ok = {} THEN 0 ELSE supportedDialects[CHOOSE i \in ok : \A j \in ok : i <= j]
  BY <1>1 DEF selectDialect
<1>3. ASSUME ok # {} PROVE \E i \in ok : \A j \in ok : i <= j
  <2>1. ok \subseteq {1, 2, 3, 4, 5}
    OBVIOUS
  <2> HIDE DEF ok
  <2>2. CASE 1 \in ok
    BY <2>1, <2>2
  <2>3. CASE 1 \notin ok /\ 2 \in ok
    BY <2>1, <2>3
  <2>4. CASE 1 \notin ok /\ 2 \notin ok /\ 3 \in ok
    BY <2>1, <2>4
  <2>5. CASE 1 \notin ok /\ 2 \notin ok /\ 3 \notin ok /\ 4 \in ok
    BY <2>1, <2>5
  <2>6. CASE 1 \notin ok /\ 2 \notin ok /\ 3 \notin ok /\ 4 \notin ok
    <3>1. PICK i : i \in ok
      BY <1>3
    <3>2. i = 5 /\ \A j \in ok : j = 5
      BY <2>1, <2>6, <3>1
    <3> QED
      BY <3>1, <3>2
  <2> QED
    BY <2>2, <2>3, <2>4, <2>5, <2>6
<1>4. \A i \in 1..5 : supportedDialects[i] \in {785, 770, 768, 528, 514}
  BY DEF supportedDialects
<1>5. ASSUME ok # {} PROVE (CHOOSE i \in ok : \A j \in ok : i <= j) \in ok
  <2> HIDE DEF ok
  <2> QED
    BY <1>3, <1>5
<1>6. \A i \in ok : supportedDialects[i] \in Dialects
  BY <1>4 DEF Dialects
<1>7. 0 \in Dialects
  BY DEF Dialects
<1> HIDE DEF ok
<1> QED
  BY <1>2, <1>5, <1>6, <1>7

\* A frame that is only answered.
LEMMA AnswerKeeps ==
  ASSUME IInv, NEW status \in Statuses, JustAnswer(status)
  PROVE  IInv'
  BY DEF IInv, JustAnswer, Answer, Statuses, StateInv, Sessions, Dialects, HandlesInv, FidsInv,
         ChallengeInv, AdmittedFirst, Admitted, Proven, TreesGated, HandlesGated

\* A step of the session: the challenge it holds is the one sent last, and
\* what the connection was admitted by is not forgotten.
LEMMA SessionKeeps ==
  ASSUME IInv, NEW s \in Sessions, SessionStep(s), reply' \in Statuses,
         seen' \in History, s.challenge = seen'.issued, seen'.staleProof = FALSE,
         seen'.issued <= seen.issued + 1,
         s.state = StateAuthenticated \/ Admitted => s.guest \/ s.seeded \/ seen'.legacySetup,
         Proven => s.seeded \/ seen'.legacySetup
  PROVE  IInv'
<1>1. /\ sess' = s /\ next' = [next EXCEPT !.setup = @ + 1] /\ next.setup < MaxSetups
      /\ UNCHANGED <<cfg, conn, trees, trees1, handles, fids>>
  BY DEF SessionStep
<1>2. /\ next \in Ids /\ next.setup \in Nat /\ seen.issued \in Nat /\ seen.issued <= next.setup
      /\ MaxSetups \in Nat
  BY SmbAssumption DEF IInv, StateInv, ChallengeInv, Ids
<1>3. /\ next' \in Ids /\ next'.setup = next.setup + 1
      /\ next'.tree = next.tree /\ next'.tid = next.tid
      /\ next'.handle = next.handle /\ next'.fid = next.fid
  BY <1>1, <1>2 DEF Ids
<1>4. sess' \in Sessions'
  BY <1>1 DEF Sessions, Dialects
<1>5. seen'.issued \in Nat
  BY DEF History
<1>6. StateInv'
  <2>1. s.challenge <= next.setup + 1 /\ next.setup + 1 <= MaxSetups
    BY <1>1, <1>2, <1>5
  <2> QED
    BY <1>1, <1>3, <1>4, <2>1 DEF IInv, StateInv, Statuses, History
<1>7. HandlesInv' /\ FidsInv'
  BY <1>1 DEF IInv, HandlesInv, FidsInv
<1>8. ChallengeInv' /\ AdmittedFirst' /\ TreesGated' /\ HandlesGated'
  BY <1>1 DEF IInv, ChallengeInv, AdmittedFirst, Admitted, TreesGated, HandlesGated, Proven
<1> QED
  BY <1>6, <1>7, <1>8 DEF IInv

\* The end of the connection leaves nothing of it.
LEMMA GoneKeeps ==
  ASSUME IInv, NEW how \in {"closed", "panicked"}, ConnectionGone(how)
  PROVE  IInv'
<1>1. /\ conn' = how /\ sess' = newSession /\ trees' = <<>> /\ trees1' = <<>>
      /\ handles' = <<>> /\ fids' = <<>> /\ next' = NoIds /\ reply' = "none" /\ cfg' = cfg
      /\ seen' = [issued |-> 0, staleProof |-> FALSE, legacySetup |-> FALSE]
  BY DEF ConnectionGone, Answer
<1>2. sess' \in Sessions' /\ next' \in Ids
  BY <1>1, StatesKnown DEF newSession, Sessions, Dialects, NoIds, Ids
<1>3. StateInv'
  BY <1>1, <1>2, SmbAssumption DEF IInv, StateInv, newSession, NoIds
<1> QED
  BY <1>1, <1>3 DEF IInv, HandlesInv, FidsInv, ChallengeInv, AdmittedFirst, Admitted,
     TreesGated, HandlesGated, newSession, StateNew, StateAuthenticated

\* A tree is added or dropped.
LEMMA TreesKeep ==
  ASSUME IInv, UNCHANGED <<cfg, conn, sess, handles, fids, seen>>, reply' \in Statuses,
         next' \in Ids, next'.setup = next.setup, next'.handle = next.handle, next'.fid = next.fid,
         DOMAIN trees' \subseteq 1..next'.tree, DOMAIN trees1' \subseteq 1..next'.tid,
         \A t \in DOMAIN trees' : isAdminShare(trees'[t]) => Proven
  PROVE  IInv'
<1>1. StateInv'
  <2>1. Sessions' = Sessions
    BY DEF Sessions, Dialects
  <2> QED
    BY <2>1 DEF IInv, StateInv, Statuses
<1>2. TreesGated'
  BY DEF TreesGated, Proven
<1> QED
  BY <1>1, <1>2 DEF IInv, HandlesInv, FidsInv, ChallengeInv, AdmittedFirst, Admitted,
     HandlesGated, Proven

\* An SMBv2 handle is opened, used or closed.
LEMMA HandlesKeep ==
  ASSUME IInv, UNCHANGED <<cfg, conn, sess, trees, trees1, fids, seen>>, reply' \in Statuses,
         next' \in Ids, next'.setup = next.setup, next'.tree = next.tree,
         next'.tid = next.tid, next'.fid = next.fid,
         DOMAIN handles' \subseteq 1..next'.handle,
         \A h \in DOMAIN handles' : HandleInv(handles'[h]) /\ (TellsUsers(handles'[h]) => Proven),
         DOMAIN handles' # {} => sess.state = StateAuthenticated \/ DOMAIN handles # {}
  PROVE  IInv'
<1>1. StateInv'
  <2>1. Sessions' = Sessions
    BY DEF Sessions, Dialects
  <2> QED
    BY <2>1 DEF IInv, StateInv, Statuses
<1>2. HandlesInv' /\ HandlesGated' /\ AdmittedFirst'
  BY DEF IInv, HandlesInv, HandlesGated, Proven, AdmittedFirst, Admitted
<1> QED
  BY <1>1, <1>2 DEF IInv, FidsInv, ChallengeInv, TreesGated, Proven

\* An SMBv1 pipe is opened, used or closed.
LEMMA FidsKeep ==
  ASSUME IInv, UNCHANGED <<cfg, conn, sess, trees, trees1, handles, seen>>, reply' \in Statuses,
         next' \in Ids, next'.setup = next.setup, next'.tree = next.tree,
         next'.tid = next.tid, next'.handle = next.handle,
         DOMAIN fids' \subseteq 1..next'.fid,
         \A f \in DOMAIN fids' : PipeInv(fids'[f])
  PROVE  IInv'
<1>1. StateInv'
  <2>1. Sessions' = Sessions
    BY DEF Sessions, Dialects
  <2> QED
    BY <2>1 DEF IInv, StateInv, Statuses
<1>2. FidsInv'
  BY DEF FidsInv
<1> QED
  BY <1>1, <1>2 DEF IInv, HandlesInv, ChallengeInv, AdmittedFirst, Admitted, TreesGated,
     HandlesGated, Proven

\* What a handle of a kind is.
LEMMA HandleOfKind ==
  ASSUME IInv, NEW h
  PROVE  /\ Kind(h) = "pipe" => /\ h \in DOMAIN handles /\ handles[h] \in PipeHandles
                                /\ PipeInv(handles[h].pipe)
         /\ Kind(h) = "dir" => /\ h \in DOMAIN handles /\ handles[h] \in NodeHandles
                               /\ ListedSoFar(handles[h])
<1>1. /\ h \in DOMAIN handles => Kind(h) = handles[h].kind /\ HandleInv(handles[h])
      /\ h \notin DOMAIN handles => Kind(h) = "none"
  BY DEF Kind, IInv, HandlesInv
<1>2. \A x : HandleInv(x) => /\ x.kind = "pipe" => x \in PipeHandles /\ PipeInv(x.pipe)
                             /\ x.kind = "dir" => x \in NodeHandles /\ ListedSoFar(x)
  BY DEF HandleInv, PipeHandles, NodeHandles
<1> QED
  BY <1>1, <1>2

\* One handle is replaced by another that is as good.
LEMMA HandleStepKeeps ==
  ASSUME IInv, NEW h \in DOMAIN handles, NEW new, HandleStep(h, new), UNCHANGED seen,
         reply' \in Statuses, HandleInv(new), TellsUsers(new) => Proven
  PROVE  IInv'
<1>1. /\ handles' = [handles EXCEPT ![h] = new]
      /\ UNCHANGED <<cfg, conn, sess, trees, trees1, fids, next>>
  BY DEF HandleStep
<1>2. DOMAIN handles' = DOMAIN handles
      /\ \A i \in DOMAIN handles : handles'[i] = IF i = h THEN new ELSE handles[i]
  BY <1>1
<1>3. next \in Ids /\ DOMAIN handles \subseteq 1..next.handle
  BY DEF IInv, StateInv
<1>4. \A i \in DOMAIN handles' : HandleInv(handles'[i]) /\ (TellsUsers(handles'[i]) => Proven)
  BY <1>2 DEF IInv, HandlesInv, HandlesGated
<1> QED
  BY <1>1, <1>2, <1>3, <1>4, HandlesKeep

-----------------------------------------------------------------------------
(* The handlers.                                                           *)

\* A session step that keeps the history and the credentials.
LEMMA SameIdentity ==
  ASSUME IInv, NEW s \in Sessions, SessionStep(s), reply' \in Statuses, UNCHANGED seen,
         s.challenge = sess.challenge, s.seeded = sess.seeded,
         s.guest = sess.guest \/ s.guest = TRUE,
         s.state = StateAuthenticated => sess.state = StateAuthenticated \/ s.guest = TRUE
  PROVE  IInv'
<1>1. /\ seen \in History /\ sess.challenge = seen.issued /\ seen.staleProof = FALSE
      /\ seen.issued \in Nat
      /\ sess.state = StateAuthenticated => Admitted
  BY DEF IInv, StateInv, ChallengeInv, AdmittedFirst, History
<1>2. Proven => s.seeded \/ seen'.legacySetup
  BY DEF Proven
<1>3. Admitted => s.guest \/ s.seeded \/ seen'.legacySetup
  BY DEF Admitted
<1>4. s.state = StateAuthenticated \/ Admitted => s.guest \/ s.seeded \/ seen'.legacySetup
  BY <1>1, <1>3
<1>5. /\ seen' \in History /\ s.challenge = seen'.issued /\ seen'.staleProof = FALSE
      /\ seen'.issued <= seen.issued + 1
  BY <1>1
<1> QED
  BY <1>2, <1>4, <1>5, SessionKeeps

LEMMA SetupFrameKeeps ==
  ASSUME IInv, SetupFrame
  PROVE  IInv'
<1>1. /\ sess \in Sessions /\ seen \in History /\ sess.challenge = seen.issued
      /\ seen.staleProof = FALSE /\ seen.issued \in Nat
      /\ sess.state = StateAuthenticated => Admitted
      /\ sess.guest \in BOOLEAN /\ sess.seeded \in BOOLEAN /\ seen.legacySetup \in BOOLEAN
  BY DEF IInv, StateInv, ChallengeInv, AdmittedFirst, History, Sessions
<1>2. Statuses = {"none", "ok", "refused"}
  BY DEF Statuses
<1>3. ASSUME NEW offered \in Offers, handleNegotiate(offered) PROVE IInv'
  <2> DEFINE d == selectDialect(offered, cfg.maxDialect)
             s == IF d = 0 THEN sess ELSE Negotiated(d)
             b == s.preauth \/ s.dialect = dialect311
             u == [s EXCEPT !.preauth = b]
  <2>1. d \in Dialects
    BY DialectWithinCeiling
  <2>2. SessionStep(u) /\ reply' \in Statuses /\ UNCHANGED seen
    BY <1>3, <1>2 DEF handleNegotiate, Answer
  <2> HIDE DEF d
  <2>3. /\ s \in Sessions /\ s.challenge = sess.challenge /\ s.guest = sess.guest
        /\ s.seeded = sess.seeded /\ (s.state = StateAuthenticated => sess.state = StateAuthenticated)
    BY <1>1, <2>1, StatesKnown DEF Negotiated, Sessions
  <2> HIDE DEF s
  <2>4. b \in BOOLEAN
    OBVIOUS
  <2> HIDE DEF b
  <2>5. /\ u \in Sessions /\ u.challenge = s.challenge /\ u.guest = s.guest
        /\ u.seeded = s.seeded /\ u.state = s.state
    BY <2>3, <2>4 DEF Sessions
  <2> HIDE DEF u
  <2> QED
    BY <2>2, <2>3, <2>5, SameIdentity
<1>4. ASSUME doChallenge PROVE IInv'
  <2> DEFINE u == [WithId(sess) EXCEPT !.challenge = seen.issued + 1, !.state = StateSetupPending]
  <2>1. SessionStep(u) /\ reply' \in Statuses /\ seen' = [seen EXCEPT !.issued = @ + 1]
    BY <1>4, <1>2 DEF doChallenge, Answer
  <2>2. /\ u \in Sessions /\ u.challenge = seen.issued + 1 /\ u.guest = sess.guest
        /\ u.seeded = sess.seeded /\ u.state = StateSetupPending
    <3> DEFINE w == WithId(sess)
    <3>1. w \in Sessions /\ w.guest = sess.guest /\ w.seeded = sess.seeded
      BY <1>1 DEF WithId, Sessions
    <3> HIDE DEF w
    <3>2. \A c \in Nat : LET x == [w EXCEPT !.challenge = c, !.state = StateSetupPending]
                          IN  /\ x \in Sessions /\ x.challenge = c /\ x.guest = w.guest
                              /\ x.seeded = w.seeded /\ x.state = StateSetupPending
      BY <3>1, StatesKnown DEF Sessions
    <3>3. seen.issued + 1 \in Nat
      BY <1>1
    <3> QED
      BY <3>1, <3>2, <3>3 DEF w
  <2>3. /\ seen' \in History /\ seen'.issued = seen.issued + 1
        /\ seen'.staleProof = seen.staleProof /\ seen'.legacySetup = seen.legacySetup
    BY <1>1, <2>1 DEF History
  <2> HIDE DEF u
  <2>4. u.state # StateAuthenticated
    BY <2>2, StatesKnown
  <2>5. u.state = StateAuthenticated \/ Admitted => u.guest \/ u.seeded \/ seen'.legacySetup
    BY <2>2, <2>3, <2>4 DEF Admitted
  <2>6. Proven => u.seeded \/ seen'.legacySetup
    BY <2>2, <2>3 DEF Proven
  <2>7. u.challenge = seen'.issued /\ seen'.staleProof = FALSE /\ seen'.issued <= seen.issued + 1
    BY <1>1, <2>2, <2>3
  <2> QED
    BY <2>1, <2>2, <2>3, <2>5, <2>6, <2>7, SessionKeeps
<1>5. LET s == Guest(WithId(sess))
      IN  /\ s \in Sessions /\ s.challenge = sess.challenge /\ s.seeded = sess.seeded
          /\ s.guest = sess.guest \/ s.guest = TRUE
          /\ s.state = StateAuthenticated => sess.state = StateAuthenticated \/ s.guest = TRUE
  <2> DEFINE w == WithId(sess)
  <2>1. /\ w \in Sessions /\ w.challenge = sess.challenge /\ w.seeded = sess.seeded
        /\ w.guest = sess.guest /\ w.state = sess.state
    BY <1>1 DEF WithId, Sessions
  <2> HIDE DEF w
  <2> DEFINE g == [w EXCEPT !.state = StateAuthenticated, !.guest = TRUE]
  <2>2. g \in Sessions /\ g.challenge = w.challenge /\ g.seeded = w.seeded /\ g.guest = TRUE
    BY <2>1, StatesKnown DEF Sessions
  <2>3. Guest(w) = IF cfg.allowGuest THEN g ELSE w
    BY DEF Guest
  <2> HIDE DEF g
  <2> DEFINE s == Guest(w)
  <2>4. s = g \/ s = w
    BY <2>3
  <2> HIDE DEF s
  <2>5. /\ s \in Sessions /\ s.challenge = sess.challenge /\ s.seeded = sess.seeded
        /\ s.guest = sess.guest \/ s.guest = TRUE
        /\ s.state = StateAuthenticated => sess.state = StateAuthenticated \/ s.guest = TRUE
    BY <2>1, <2>2, <2>4
  <2> QED
    BY <2>5 DEF s, w
<1>6. ASSUME SessionStep(Guest(WithId(sess))), UNCHANGED seen, reply' \in Statuses PROVE IInv'
  BY <1>5, <1>6, SameIdentity
<1>7. ASSUME NEW auth \in Auths, doAccept(auth) PROVE IInv'
  <2>1. ASSUME auth.user = "seeded", verifyCredential(auth) PROVE IInv'
    <3> DEFINE b == WithId(sess).signing \/ CanSign(sess)
               u == [WithId(sess) EXCEPT !.state = StateAuthenticated, !.seeded = TRUE,
                        !.guest = FALSE, !.signing = b]
    <3>1. SessionStep(u) /\ reply' \in Statuses
          /\ seen' = [seen EXCEPT !.staleProof = @ \/ auth.challenge # seen.issued]
      BY <1>7, <1>2, <2>1 DEF doAccept, Answer
    <3>2. u \in Sessions /\ u.challenge = sess.challenge /\ u.seeded = TRUE
      <4>1. b \in BOOLEAN
        OBVIOUS
      <4>2. WithId(sess) \in Sessions /\ WithId(sess).challenge = sess.challenge
        BY <1>1 DEF WithId, Sessions
      <4> DEFINE w == WithId(sess)
      <4> HIDE DEF b, w
      <4>3. LET x == [w EXCEPT !.state = StateAuthenticated, !.seeded = TRUE,
                               !.guest = FALSE, !.signing = b]
            IN  x \in Sessions /\ x.challenge = w.challenge /\ x.seeded = TRUE
        BY <4>1, <4>2, StatesKnown DEF Sessions, w
      <4> QED
        BY <4>2, <4>3 DEF w
    <3>3. auth.challenge = seen.issued
      BY <1>1, <2>1 DEF verifyCredential
    <3>4. /\ seen' \in History /\ seen'.issued = seen.issued
          /\ seen'.staleProof = FALSE /\ seen'.legacySetup = seen.legacySetup
      BY <1>1, <3>1, <3>3 DEF History
    <3> HIDE DEF u
    <3>5. u.challenge = seen'.issued /\ seen'.issued <= seen.issued + 1
      BY <1>1, <3>2, <3>4
    <3> QED
      BY <3>1, <3>2, <3>4, <3>5, SessionKeeps
  <2>2. ASSUME ~(auth.user = "seeded" /\ verifyCredential(auth)) PROVE IInv'
    BY <1>2, <1>6, <1>7, <2>2 DEF doAccept, Answer
  <2> QED
    BY <2>1, <2>2
<1>8. ASSUME doAnonymous PROVE IInv'
  BY <1>2, <1>6, <1>8 DEF doAnonymous, Answer
<1>9. ASSUME handleLogoff PROVE IInv'
  BY <1>2, <1>9, AnswerKeeps DEF handleLogoff
<1>10. /\ next \in Ids /\ DOMAIN trees \subseteq 1..next.tree /\ DOMAIN trees1 \subseteq 1..next.tid
       /\ \A t \in DOMAIN trees : isAdminShare(trees[t]) => Proven
  BY DEF IInv, StateInv, TreesGated
<1>11. ASSUME NEW share \in ShareNames, handleTreeConnect(share) PROVE IInv'
  <2>1. CASE JustAnswer("refused")
    BY <1>2, <2>1, AnswerKeeps
  <2>2. CASE ~JustAnswer("refused")
    <3>1. /\ sess.state >= StateAuthenticated
          /\ canAccessAdminShare \/ ~isAdminShare(share)
          /\ next' = [next EXCEPT !.tree = @ + 1]
          /\ trees' = [t \in DOMAIN trees \cup {next.tree + 1} |->
                          IF t = next.tree + 1 THEN share ELSE trees[t]]
          /\ reply' = "ok"
          /\ UNCHANGED <<cfg, conn, sess, trees1, handles, fids, seen>>
      BY <1>11, <2>2 DEF handleTreeConnect, Answer
    <3>2. isAdminShare(share) => Proven
      BY <1>1, <3>1, StatesKnown DEF canAccessAdminShare, Admitted, Proven, Sessions
    <3>3. /\ next' \in Ids /\ next'.tree = next.tree + 1 /\ next'.tid = next.tid
          /\ next'.setup = next.setup /\ next'.handle = next.handle /\ next'.fid = next.fid
      BY <1>10, <3>1 DEF Ids
    <3>4. DOMAIN trees' \subseteq 1..next'.tree
      BY <1>10, <3>1, <3>3 DEF Ids
    <3>5. \A t \in DOMAIN trees' : isAdminShare(trees'[t]) => Proven
      BY <1>10, <3>1, <3>2
    <3> QED
      BY <1>2, <1>10, <3>1, <3>3, <3>4, <3>5, TreesKeep
  <2> QED
    BY <2>1, <2>2
<1>12. ASSUME NEW t \in 1..MaxTrees, TreeDisconnect(t) PROVE IInv'
  <2>1. /\ trees' = [u \in DOMAIN trees \ {t} |-> trees[u]] /\ reply' = "ok"
        /\ UNCHANGED <<cfg, conn, sess, trees1, handles, fids, next, seen>>
    BY <1>12 DEF TreeDisconnect, Answer
  <2>2. DOMAIN trees' \subseteq 1..next'.tree
        /\ \A u \in DOMAIN trees' : isAdminShare(trees'[u]) => Proven
    BY <1>10, <2>1
  <2> QED
    BY <1>2, <1>10, <2>1, <2>2, TreesKeep
<1> QED
  BY <1>3, <1>4, <1>7, <1>8, <1>9, <1>11, <1>12 DEF SetupFrame

LEMMA HandleFrameKeeps ==
  ASSUME IInv, HandleFrame
  PROVE  IInv'
<1>1. Statuses = {"none", "ok", "refused"}
  BY DEF Statuses
<1>2. ASSUME NEW status \in {"ok", "refused"}, JustAnswer(status) PROVE IInv'
  BY <1>1, <1>2, AnswerKeeps
<1>3. /\ next \in Ids /\ DOMAIN handles \subseteq 1..next.handle
      /\ \A h \in DOMAIN handles : HandleInv(handles[h]) /\ (TellsUsers(handles[h]) => Proven)
      /\ sess \in Sessions
  BY DEF IInv, StateInv, HandlesInv, HandlesGated
<1>4. ASSUME NEW x, Opened(x), UNCHANGED seen, sess.state >= StateAuthenticated,
             HandleInv(x), ~TellsUsers(x)
      PROVE  IInv'
  <2>1. /\ next' = [next EXCEPT !.handle = @ + 1]
        /\ handles' = [i \in DOMAIN handles \cup {next.handle + 1} |->
                          IF i = next.handle + 1 THEN x ELSE handles[i]]
        /\ reply' = "ok" /\ UNCHANGED <<cfg, conn, sess, trees, trees1, fids, seen>>
    BY <1>4 DEF Opened, Answer
  <2>2. /\ next' \in Ids /\ next'.handle = next.handle + 1 /\ next'.setup = next.setup
        /\ next'.tree = next.tree /\ next'.tid = next.tid /\ next'.fid = next.fid
    BY <1>3, <2>1 DEF Ids
  <2>3. DOMAIN handles' \subseteq 1..next'.handle
    BY <1>3, <2>1, <2>2 DEF Ids
  <2>4. \A h \in DOMAIN handles' : HandleInv(handles'[h]) /\ (TellsUsers(handles'[h]) => Proven)
    BY <1>3, <1>4, <2>1
  <2>5. sess.state = StateAuthenticated
    BY <1>3, <1>4, StatesKnown DEF Sessions
  <2> QED
    BY <1>1, <2>1, <2>2, <2>3, <2>4, <2>5, HandlesKeep
<1>5. ASSUME NEW h, NEW p, NEW status \in {"ok", "refused"}, Kind(h) = "pipe",
             HandleStep(h, [handles[h] EXCEPT !.pipe = p]), Answer(status), UNCHANGED seen,
             PipeInv(p), p.name = "samr" /\ p.pending.body = "users" => Proven
      PROVE  IInv'
  <2>1. h \in DOMAIN handles /\ handles[h] \in PipeHandles
    BY <1>5, HandleOfKind
  <2> DEFINE x == [handles[h] EXCEPT !.pipe = p]
  <2>2. x \in PipeHandles /\ x.pipe = p
    BY <1>5, <2>1 DEF PipeHandles, PipeInv
  <2>3. HandleStep(h, x)
    BY <1>5
  <2> HIDE DEF x
  <2>4. HandleInv(x) /\ (TellsUsers(x) => Proven)
    BY <1>5, <2>2 DEF HandleInv, TellsUsers
  <2>5. reply' \in Statuses
    BY <1>1, <1>5 DEF Answer
  <2> QED
    BY <1>5, <2>1, <2>3, <2>4, <2>5, HandleStepKeeps
<1>6. ASSUME NEW t \in 0..MaxTrees, NEW name \in PipeNames, handleCreate(t, name) PROVE IInv'
  <2>1. /\ HandleInv(PipeHandle(name)) /\ ~TellsUsers(PipeHandle(name))
    <3> DEFINE p == newPipeState(name)
               x == PipeHandle(name)
    <3>1. PipeInv(p) /\ p.pending.body = "none" /\ p \in PipeStates
      BY NewPipe DEF PipeInv
    <3>2. x = [kind |-> "pipe", pipe |-> p]
      BY DEF PipeHandle
    <3> HIDE DEF p, x
    <3>3. HandleInv(x) /\ ~TellsUsers(x)
      BY <3>1, <3>2 DEF HandleInv, PipeHandles, TellsUsers
    <3> QED
      BY <3>3 DEF x
  <2>2. HandleInv(DirHandle) /\ ~TellsUsers(DirHandle)
    BY DirStarts DEF HandleInv, TellsUsers
  <2>3. \A k \in {"file", "hive"} : HandleInv(FileHandle(k)) /\ ~TellsUsers(FileHandle(k))
    BY FileStarts DEF HandleInv, TellsUsers
  <2>4. \/ JustAnswer("refused")
        \/ /\ sess.state >= StateAuthenticated /\ UNCHANGED seen
           /\ \/ Opened(PipeHandle(name)) \/ Opened(DirHandle)
              \/ \E k \in {"file", "hive"} : Opened(FileHandle(k))
    BY <1>6 DEF handleCreate
  <2>5. CASE JustAnswer("refused")
    BY <1>2, <2>5
  <2>6. CASE /\ sess.state >= StateAuthenticated /\ UNCHANGED seen
             /\ \/ Opened(PipeHandle(name)) \/ Opened(DirHandle)
                \/ \E k \in {"file", "hive"} : Opened(FileHandle(k))
    BY <1>4, <2>1, <2>2, <2>3, <2>6
  <2> QED
    BY <2>4, <2>5, <2>6
<1>7. ASSUME NEW h \in 1..MaxHandles, handleClose(h) PROVE IInv'
  <2>1. CASE JustAnswer("refused")
    BY <1>2, <2>1
  <2>2. CASE ~JustAnswer("refused")
    <3>1. /\ handles' = [i \in DOMAIN handles \ {h} |-> handles[i]] /\ h \in DOMAIN handles
          /\ reply' = "ok" /\ UNCHANGED <<cfg, conn, sess, trees, trees1, fids, next, seen>>
      BY <1>7, <2>2 DEF handleClose, Answer
    <3>2. /\ DOMAIN handles' \subseteq 1..next'.handle
          /\ \A i \in DOMAIN handles' : HandleInv(handles'[i]) /\ (TellsUsers(handles'[i]) => Proven)
          /\ DOMAIN handles # {}
      BY <1>3, <3>1
    <3> QED
      BY <1>1, <1>3, <3>1, <3>2, HandlesKeep
  <2> QED
    BY <2>1, <2>2
<1>8. ASSUME NEW h \in 1..MaxHandles, NEW restart \in BOOLEAN, NEW room \in 0..MaxRoom,
             handleQueryDirectory(h, restart, room)
      PROVE  IInv'
  <2>1. CASE Kind(h) # "dir"
    BY <1>2, <1>8, <2>1 DEF handleQueryDirectory
  <2>2. CASE Kind(h) = "dir"
    <3> DEFINE d == IF restart THEN DirHandle ELSE handles[h]
               y == [d EXCEPT !.ended = TRUE]
               z == [d EXCEPT !.idx = NextIdx(d.idx, room),
                              !.got = @ \o SubSeq(Listing, d.idx + 1,
                                                  d.idx + PackedEntries(d.idx, room))]
    <3>1. h \in DOMAIN handles /\ d \in NodeHandles /\ d.kind = "dir" /\ ListedSoFar(d)
      <4>1. h \in DOMAIN handles /\ handles[h] \in NodeHandles /\ ListedSoFar(handles[h])
            /\ handles[h].kind = "dir"
        BY <2>2, HandleOfKind DEF Kind
      <4> QED
        BY <4>1, DirStarts
    <3>2. /\ UNCHANGED seen
          /\ IF d.idx >= Len(Listing) THEN HandleStep(h, y) /\ Answer("refused")
             ELSE HandleStep(h, z) /\ Answer("ok")
      BY <1>8, <2>2 DEF handleQueryDirectory
    <3> HIDE DEF d
    <3>3. CASE d.idx >= Len(Listing)
      <4>1. y \in NodeHandles /\ y.kind = "dir" /\ ListedSoFar(y)
        BY <3>1, <3>3, ListEnds
      <4> HIDE DEF y
      <4>2. HandleInv(y) /\ ~TellsUsers(y)
        BY <4>1 DEF HandleInv, TellsUsers
      <4>3. HandleStep(h, y) /\ reply' \in Statuses
        BY <1>1, <3>2, <3>3 DEF Answer
      <4> QED
        BY <3>1, <3>2, <4>2, <4>3, HandleStepKeeps
    <3>4. CASE ~(d.idx >= Len(Listing))
      <4>1. room \in Nat /\ d.idx < Len(Listing)
        BY <3>1, <3>4, SmbAssumption, ListingIsSeq DEF NodeHandles
      <4>2. z \in NodeHandles /\ z.kind = "dir" /\ ListedSoFar(z)
        BY <3>1, <4>1, ListsOn
      <4> HIDE DEF z
      <4>3. HandleInv(z) /\ ~TellsUsers(z)
        BY <4>2 DEF HandleInv, TellsUsers
      <4>4. HandleStep(h, z) /\ reply' \in Statuses
        BY <1>1, <3>2, <3>4 DEF Answer
      <4> QED
        BY <3>1, <3>2, <4>3, <4>4, HandleStepKeeps
    <3> QED
      BY <3>3, <3>4
  <2> QED
    BY <2>1, <2>2
<1>9. ASSUME NEW h \in 1..MaxHandles, NEW info \in {"file", "filesystem", "unknown"},
             handleQueryInfo(h, info)
      PROVE  IInv'
  BY <1>2, <1>9, GoneKeeps DEF handleQueryInfo, Panics
<1>10. ASSUME NEW h \in 1..MaxHandles, NEW inside \in BOOLEAN, handleRead(h, inside) PROVE IInv'
  <2>1. \/ JustAnswer("ok") \/ JustAnswer("refused")
        \/ /\ Kind(h) = "pipe" /\ UNCHANGED seen
           /\ HandleStep(h, [handles[h] EXCEPT !.pipe = Read(handles[h].pipe)])
           /\ Answer(ReadPipe(handles[h].pipe))
    BY <1>10 DEF handleRead
  <2>2. CASE JustAnswer("ok") \/ JustAnswer("refused")
    BY <1>2, <2>2
  <2>3. CASE /\ Kind(h) = "pipe" /\ UNCHANGED seen
             /\ HandleStep(h, [handles[h] EXCEPT !.pipe = Read(handles[h].pipe)])
             /\ Answer(ReadPipe(handles[h].pipe))
    <3>1. ReadPipe(handles[h].pipe) \in {"ok", "refused"}
      BY DEF ReadPipe
    <3>2. PipeInv(handles[h].pipe)
      BY <2>3, HandleOfKind
    <3>3. PipeInv(Read(handles[h].pipe)) /\ Read(handles[h].pipe).pending.body # "users"
      BY <3>2, ReadOut
    <3> QED
      BY <1>5, <2>3, <3>1, <3>3
  <2> QED
    BY <2>1, <2>2, <2>3
<1>11. ASSUME NEW h, Kind(h) = "pipe"
       PROVE  /\ PipeInv(handles[h].pipe) /\ (Authenticated => Proven) /\ Authenticated \in BOOLEAN
              /\ handles[h].pipe.name = "samr" /\ handles[h].pipe.pending.body = "users" => Proven
  <2>1. h \in DOMAIN handles /\ PipeInv(handles[h].pipe) /\ handles[h].kind = "pipe"
    BY <1>11, HandleOfKind DEF Kind
  <2>2. Admitted
    BY <2>1 DEF IInv, AdmittedFirst
  <2>3. (Authenticated => Proven) /\ Authenticated \in BOOLEAN
    BY <2>2 DEF Admitted, Proven, Authenticated
  <2>4. TellsUsers(handles[h]) => Proven
    BY <1>3, <2>1
  <2> QED
    BY <2>1, <2>3, <2>4 DEF TellsUsers
<1>12. ASSUME NEW h \in 1..MaxHandles, handleWrite(h) PROVE IInv'
  <2>1. \/ JustAnswer("ok") \/ JustAnswer("refused")
        \/ /\ Kind(h) = "pipe" /\ UNCHANGED seen /\ Answer("ok")
           /\ \E d \in Sendable(handles[h].pipe) :
                 HandleStep(h, [handles[h] EXCEPT !.pipe = Write(handles[h].pipe, d, Authenticated)])
    BY <1>12 DEF handleWrite
  <2>2. CASE JustAnswer("ok") \/ JustAnswer("refused")
    BY <1>2, <2>2
  <2>3. CASE /\ Kind(h) = "pipe" /\ UNCHANGED seen /\ Answer("ok")
             /\ \E d \in Sendable(handles[h].pipe) :
                   HandleStep(h, [handles[h] EXCEPT !.pipe = Write(handles[h].pipe, d, Authenticated)])
    <3>1. PICK d \in Sendable(handles[h].pipe) :
             HandleStep(h, [handles[h] EXCEPT !.pipe = Write(handles[h].pipe, d, Authenticated)])
      BY <2>3
    <3> DEFINE q == Write(handles[h].pipe, d, Authenticated)
    <3>2. Outcome(handles[h].pipe, q, Authenticated)
      BY <1>11, <2>3, Written
    <3> HIDE DEF q
    <3>3. PipeInv(q) /\ (q.name = "samr" /\ q.pending.body = "users" => Proven)
      BY <1>11, <2>3, <3>2 DEF Outcome
    <3>4. HandleStep(h, [handles[h] EXCEPT !.pipe = q])
      BY <3>1 DEF q
    <3> QED
      BY <1>5, <2>3, <3>3, <3>4
  <2> QED
    BY <2>1, <2>2, <2>3
<1>13. ASSUME NEW h \in 1..MaxHandles, handleIOCtl(h) PROVE IInv'
  <2>1. \/ JustAnswer("refused")
        \/ /\ Kind(h) = "pipe" /\ UNCHANGED seen /\ Answer("ok")
           /\ \E d \in Sendable(handles[h].pipe) :
                 HandleStep(h, [handles[h] EXCEPT !.pipe = Transceive(handles[h].pipe, d, Authenticated)])
    BY <1>13 DEF handleIOCtl
  <2>2. CASE JustAnswer("refused")
    BY <1>2, <2>2
  <2>3. CASE /\ Kind(h) = "pipe" /\ UNCHANGED seen /\ Answer("ok")
             /\ \E d \in Sendable(handles[h].pipe) :
                   HandleStep(h, [handles[h] EXCEPT !.pipe = Transceive(handles[h].pipe, d, Authenticated)])
    <3>1. PICK d \in Sendable(handles[h].pipe) :
             HandleStep(h, [handles[h] EXCEPT !.pipe = Transceive(handles[h].pipe, d, Authenticated)])
      BY <2>3
    <3> DEFINE w == Write(handles[h].pipe, d, Authenticated)
               q == Transceive(handles[h].pipe, d, Authenticated)
    <3>2. Outcome(handles[h].pipe, w, Authenticated) /\ q = Read(w)
      BY <1>11, <2>3, Written DEF Transceive
    <3>3. HandleStep(h, [handles[h] EXCEPT !.pipe = q])
      BY <3>1
    <3> HIDE DEF q, w
    <3>4. PipeInv(q) /\ q.pending.body # "users"
      BY <3>2, ReadOut DEF Outcome
    <3> QED
      BY <1>5, <2>3, <3>3, <3>4
  <2> QED
    BY <2>1, <2>2, <2>3
<1> QED
  BY <1>6, <1>7, <1>8, <1>9, <1>10, <1>12, <1>13 DEF HandleFrame

LEMMA LegacyFrameKeeps ==
  ASSUME IInv, LegacyFrame
  PROVE  IInv'
<1>1. Statuses = {"none", "ok", "refused"}
  BY DEF Statuses
<1>2. ASSUME NEW status \in {"ok", "refused"}, JustAnswer(status) PROVE IInv'
  BY <1>1, <1>2, AnswerKeeps
<1>3. /\ sess \in Sessions /\ seen \in History /\ sess.challenge = seen.issued
      /\ seen.staleProof = FALSE /\ seen.issued \in Nat
      /\ next \in Ids /\ DOMAIN trees \subseteq 1..next.tree /\ DOMAIN trees1 \subseteq 1..next.tid
      /\ \A t \in DOMAIN trees : isAdminShare(trees[t]) => Proven
      /\ DOMAIN fids \subseteq 1..next.fid
      /\ \A f \in DOMAIN fids : PipeInv(fids[f])
  BY DEF IInv, StateInv, ChallengeInv, History, TreesGated, FidsInv
<1>4. ASSUME NEW offered \in Smb1Offers, handleSMBv1Negotiate(offered) PROVE IInv'
  <2> DEFINE d == selectDialect(offered, cfg.maxDialect)
             u == [sess EXCEPT !.state = StateNegotiated]
  <2>1. d \in Dialects
    BY DialectWithinCeiling
  <2>2. /\ SessionStep(u) \/ SessionStep(Negotiated(d)) \/ SessionStep(sess)
        /\ reply' \in Statuses /\ UNCHANGED seen
    BY <1>1, <1>4 DEF handleSMBv1Negotiate, Answer
  <2> HIDE DEF d
  <2>3. /\ u \in Sessions /\ u.challenge = sess.challenge /\ u.guest = sess.guest
        /\ u.seeded = sess.seeded /\ u.state # StateAuthenticated
    BY <1>3, StatesKnown DEF Sessions
  <2>4. LET v == Negotiated(d)
        IN  /\ v \in Sessions /\ v.challenge = sess.challenge /\ v.guest = sess.guest
            /\ v.seeded = sess.seeded /\ v.state # StateAuthenticated
    BY <1>3, <2>1, StatesKnown DEF Sessions, Negotiated
  <2> HIDE DEF u
  <2>5. CASE SessionStep(u)
    BY <2>2, <2>3, <2>5, SameIdentity
  <2>6. CASE SessionStep(Negotiated(d))
    BY <2>2, <2>4, <2>6, SameIdentity
  <2>7. CASE SessionStep(sess)
    BY <1>3, <2>2, <2>7, SameIdentity
  <2> QED
    BY <2>2, <2>5, <2>6, <2>7
<1>5. ASSUME handleSMBv1SessionSetup PROVE IInv'
  <2> DEFINE w == WithId(sess)
             u == [w EXCEPT !.state = StateAuthenticated]
  <2>1. SessionStep(u) /\ reply' \in Statuses /\ seen' = [seen EXCEPT !.legacySetup = TRUE]
    BY <1>1, <1>5 DEF handleSMBv1SessionSetup, Answer
  <2>2. w \in Sessions /\ w.challenge = sess.challenge
    BY <1>3 DEF WithId, Sessions
  <2> HIDE DEF w
  <2>3. u \in Sessions /\ u.challenge = w.challenge
    BY <2>2, StatesKnown DEF Sessions
  <2> HIDE DEF u
  <2>4. /\ seen' \in History /\ seen'.issued = seen.issued
        /\ seen'.staleProof = seen.staleProof /\ seen'.legacySetup = TRUE
    BY <1>3, <2>1 DEF History
  <2>5. u.challenge = seen'.issued /\ seen'.staleProof = FALSE /\ seen'.issued <= seen.issued + 1
    BY <1>3, <2>2, <2>3, <2>4
  <2> QED
    BY <2>1, <2>3, <2>4, <2>5, SessionKeeps
<1>6. ASSUME NEW share \in ShareNames, handleSMBv1TreeConnect(share) PROVE IInv'
  <2>1. CASE JustAnswer("refused")
    BY <1>2, <2>1
  <2>2. CASE ~JustAnswer("refused")
    <3>1. /\ next' = [next EXCEPT !.tid = @ + 1]
          /\ trees1' = [t \in DOMAIN trees1 \cup {next.tid + 1} |->
                           IF t = next.tid + 1 THEN share ELSE trees1[t]]
          /\ reply' = "ok" /\ UNCHANGED <<cfg, conn, sess, trees, handles, fids, seen>>
      BY <1>6, <2>2 DEF handleSMBv1TreeConnect, Answer
    <3>2. /\ next' \in Ids /\ next'.tree = next.tree /\ next'.tid = next.tid + 1
          /\ next'.setup = next.setup /\ next'.handle = next.handle /\ next'.fid = next.fid
      BY <1>3, <3>1 DEF Ids
    <3>3. DOMAIN trees1' \subseteq 1..next'.tid
      BY <1>3, <3>1, <3>2 DEF Ids
    <3> QED
      BY <1>1, <1>3, <3>1, <3>2, <3>3, TreesKeep
  <2> QED
    BY <2>1, <2>2
<1>7. ASSUME NEW t \in 1..MaxTrees, handleSMBv1TreeDisconnect(t) PROVE IInv'
  <2>1. /\ trees1' = [u \in DOMAIN trees1 \ {t} |-> trees1[u]] /\ reply' = "ok"
        /\ UNCHANGED <<cfg, conn, sess, trees, handles, fids, next, seen>>
    BY <1>7 DEF handleSMBv1TreeDisconnect, Answer
  <2>2. DOMAIN trees1' \subseteq 1..next'.tid
    BY <1>3, <2>1
  <2> QED
    BY <1>1, <1>3, <2>1, <2>2, TreesKeep
<1>8. ASSUME NEW t \in 0..MaxTrees, NEW name \in PipeNames, handleSMBv1NTCreateAndX(t, name)
      PROVE  IInv'
  <2>1. CASE JustAnswer("refused")
    BY <1>2, <2>1
  <2>2. CASE ~JustAnswer("refused")
    <3>1. /\ next' = [next EXCEPT !.fid = @ + 1]
          /\ fids' = [f \in DOMAIN fids \cup {next.fid + 1} |->
                         IF f = next.fid + 1 THEN newPipeState(name) ELSE fids[f]]
          /\ reply' = "ok" /\ UNCHANGED <<cfg, conn, sess, trees, trees1, handles, seen>>
      BY <1>8, <2>2 DEF handleSMBv1NTCreateAndX, Answer
    <3>2. /\ next' \in Ids /\ next'.tree = next.tree /\ next'.tid = next.tid
          /\ next'.setup = next.setup /\ next'.handle = next.handle /\ next'.fid = next.fid + 1
      BY <1>3, <3>1 DEF Ids
    <3>3. DOMAIN fids' \subseteq 1..next'.fid
      BY <1>3, <3>1, <3>2 DEF Ids
    <3>4. PipeInv(newPipeState(name))
      BY NewPipe
    <3>5. \A f \in DOMAIN fids' : PipeInv(fids'[f])
      BY <1>3, <3>1, <3>4
    <3> QED
      BY <1>1, <3>1, <3>2, <3>3, <3>5, FidsKeep
  <2> QED
    BY <2>1, <2>2
<1>9. ASSUME NEW f \in DOMAIN fids, NEW q, FidStep(f, q), UNCHANGED seen,
             reply' \in Statuses, PipeInv(q)
      PROVE  IInv'
  <2>1. /\ fids' = [fids EXCEPT ![f] = q]
        /\ UNCHANGED <<cfg, conn, sess, trees, trees1, handles, next>>
    BY <1>9 DEF FidStep
  <2>2. /\ DOMAIN fids' \subseteq 1..next'.fid
        /\ \A g \in DOMAIN fids' : PipeInv(fids'[g])
    BY <1>3, <1>9, <2>1
  <2> QED
    BY <1>3, <1>9, <2>1, <2>2, FidsKeep
<1>10. ASSUME NEW f \in DOMAIN fids, NEW d \in Sendable(fids[f])
       PROVE  /\ PipeInv(Write(fids[f], d, Authenticated))
              /\ PipeInv(Transceive(fids[f], d, Authenticated))
  <2>1. Authenticated \in BOOLEAN
    BY DEF Authenticated
  <2>2. PipeInv(Write(fids[f], d, Authenticated))
    BY <1>3, <2>1, Written DEF Outcome
  <2> QED
    BY <2>2, ReadOut DEF Transceive
<1>11. ASSUME NEW f \in 1..MaxHandles, handleSMBv1WriteAndX(f) PROVE IInv'
  BY <1>1, <1>2, <1>9, <1>10, <1>11 DEF handleSMBv1WriteAndX, Answer
<1>12. ASSUME NEW f \in 1..MaxHandles, handleSMBv1ReadAndX(f) PROVE IInv'
  <2>1. f \in DOMAIN fids => PipeInv(Read(fids[f])) /\ ReadPipe(fids[f]) \in {"ok", "refused"}
    BY <1>3, ReadOut DEF ReadPipe
  <2> QED
    BY <1>1, <1>2, <1>9, <1>12, <2>1 DEF handleSMBv1ReadAndX, Answer
<1>13. ASSUME NEW f \in 1..MaxHandles, handleSMBv1Transaction(f) PROVE IInv'
  BY <1>1, <1>2, <1>9, <1>10, <1>13 DEF handleSMBv1Transaction, Answer
<1>14. ASSUME NEW f \in 1..MaxHandles, handleSMBv1Close(f) PROVE IInv'
  <2>1. /\ fids' = [g \in DOMAIN fids \ {f} |-> fids[g]] /\ reply' = "ok"
        /\ UNCHANGED <<cfg, conn, sess, trees, trees1, handles, next, seen>>
    BY <1>14 DEF handleSMBv1Close, Answer
  <2>2. /\ DOMAIN fids' \subseteq 1..next'.fid
        /\ \A g \in DOMAIN fids' : PipeInv(fids'[g])
    BY <1>3, <2>1
  <2> QED
    BY <1>1, <1>3, <2>1, <2>2, FidsKeep
<1>15. ASSUME handleSMBv1TransactionLANMAN PROVE IInv'
  BY <1>2, <1>15 DEF handleSMBv1TransactionLANMAN
<1> QED
  BY <1>4, <1>5, <1>6, <1>7, <1>8, <1>11, <1>12, <1>13, <1>14, <1>15 DEF LegacyFrame

-----------------------------------------------------------------------------
(* The theorems.                                                           *)

LEMMA InitEstablishes == Init => IInv
<1> SUFFICES ASSUME Init PROVE IInv
  OBVIOUS
<1>1. sess \in Sessions /\ next \in Ids
  BY StatesKnown DEF Init, newSession, Sessions, Dialects, NoIds, Ids
<1>2. StateInv
  BY <1>1, SmbAssumption DEF Init, StateInv, newSession, NoIds
<1> QED
  BY <1>2 DEF IInv, Init, HandlesInv, FidsInv, ChallengeInv, AdmittedFirst, Admitted,
     TreesGated, HandlesGated, newSession, StateNew, StateAuthenticated

LEMMA NextKeeps == IInv /\ [Next]_vars => IInv'
<1> SUFFICES ASSUME IInv, [Next]_vars PROVE IInv'
  OBVIOUS
<1>1. CASE UNCHANGED vars
  <2>1. Sessions' = Sessions
    BY <1>1 DEF Sessions, Dialects, vars
  <2> QED
    BY <1>1, <2>1 DEF vars, IInv, StateInv, HandlesInv, FidsInv, ChallengeInv, AdmittedFirst,
       Admitted, Proven, TreesGated, HandlesGated
<1>2. ASSUME NEW accepted \in BOOLEAN, NetBIOSSession(accepted) PROVE IInv'
  <2>1. /\ conn' \in {"serving", "closed"} /\ reply' \in {"ok", "refused"}
        /\ UNCHANGED <<cfg, sess, trees, trees1, handles, fids, next, seen>>
    BY <1>2 DEF NetBIOSSession, Answer
  <2>2. Sessions' = Sessions
    BY <2>1 DEF Sessions, Dialects
  <2> QED
    BY <2>1, <2>2 DEF IInv, StateInv, HandlesInv, FidsInv, ChallengeInv, AdmittedFirst,
       Admitted, Proven, TreesGated, HandlesGated
<1>3. CASE ConnectionEnds
  BY <1>3, GoneKeeps DEF ConnectionEnds
<1>4. CASE SkipFrame
  BY <1>1, <1>4 DEF SkipFrame
<1>5. CASE Refused
  BY <1>5, AnswerKeeps DEF Refused, Statuses
<1> QED
  BY <1>1, <1>2, <1>3, <1>4, <1>5, SetupFrameKeeps, HandleFrameKeeps, LegacyFrameKeeps DEF Next

LEMMA Invariance == Spec => []IInv
  BY InitEstablishes, NextKeeps, PTL DEF Spec

\* What the invariant says of the pipes of the connection.
LEMMA PipesAreGood == IInv => \A p \in Pipes : PipeInv(p)
<1> SUFFICES ASSUME IInv, NEW p \in Pipes PROVE PipeInv(p)
  OBVIOUS
<1>1. \A h \in DOMAIN handles : handles[h].kind = "pipe" => PipeInv(handles[h].pipe)
  BY HandleOfKind DEF Kind
<1> QED
  BY <1>1 DEF Pipes, IInv, FidsInv

\* Every variable of a connection keeps its type: no negotiation of either
\* protocol gets a dialect above the configured ceiling, ids are not handed
\* out twice, and no request is put together from more fragments than the
\* bound lets a client send (session.go, negotiate.go).
THEOREM TypeCorrect == Spec => []TypeOK
<1>1. IInv => TypeOK
  <2> SUFFICES ASSUME IInv PROVE TypeOK
    OBVIOUS
  <2>1. sess \in [id : 0..1, state : StateNew..StateAuthenticated,
                  dialect : {0} \cup {d \in {785, 770, 768, 528, 514} : d <= cfg.maxDialect},
                  challenge : 0..MaxSetups, preauth : BOOLEAN, signing : BOOLEAN,
                  guest : BOOLEAN, seeded : BOOLEAN]
    <3>1. sess.challenge \in 0..MaxSetups
      BY SmbAssumption DEF IInv, StateInv, Sessions, Ids
    <3> QED
      BY <3>1 DEF IInv, StateInv, Sessions, States, Dialects
  <2>2. \A p \in Pipes : Len(p.reasm) <= MaxFrags
    BY PipesAreGood DEF PipeInv
  <2> QED
    BY <2>1, <2>2 DEF IInv, StateInv, TypeOK
<1> QED
  BY <1>1, Invariance, PTL

\* Every reply queued on a pipe is computed from the fragments of one request,
\* under its own header, for every sequence of PDUs (PipeState.Write, pipe.go).
THEOREM OneRequestPerReply == Spec => []RepliesAreWhole
<1>1. IInv => RepliesAreWhole
  BY PipesAreGood DEF RepliesAreWhole, PipeInv
<1> QED
  BY <1>1, Invariance, PTL

\* A reply that a READ can return answers the latest PDU that Write acted on
\* (PipeState.Read, pipe.go).
THEOREM NoLateReply == Spec => []ReadsAnswerLatest
<1>1. IInv => ReadsAnswerLatest
  BY PipesAreGood DEF ReadsAnswerLatest, PipeInv
<1> QED
  BY <1>1, Invariance, PTL

\* A directory of any length is listed without loss or repetition, through
\* buffers of any size and any number of restarts (handleQueryDirectory).
THEOREM DirectoriesListExactly == Spec => []ListingExact
<1>1. IInv => ListingExact
  <2> SUFFICES ASSUME IInv, NEW h \in DOMAIN handles, handles[h].kind = "dir"
               PROVE  /\ handles[h].got = SubSeq(Listing, 1, handles[h].idx)
                      /\ handles[h].ended => handles[h].got = Listing
    BY DEF ListingExact
  <2>1. handles[h] \in NodeHandles /\ ListedSoFar(handles[h])
    BY HandleOfKind DEF Kind
  <2> QED
    BY <2>1, ListedIsExact
<1> QED
  BY <1>1, Invariance, PTL

\* No accepted credential was proved over a challenge other than the last one
\* sent, whatever the order of challenges, answers and negotiations (doAccept).
THEOREM NoStaleProof == Spec => []ProofForLatestChallenge
<1>1. IInv => ProofForLatestChallenge
  BY DEF IInv, ChallengeInv, ProofForLatestChallenge
<1> QED
  BY <1>1, Invariance, PTL

\* Over SMBv2 nobody is on an administrative share, or is told the accounts,
\* without a verified credential, save after an SMBv1 setup (session.go).
THEOREM OnlyProvenIdentities == Spec => []IdentityGates
<1>1. IInv => IdentityGates
  BY DEF IInv, TreesGated, HandlesGated, TellsUsers, Proven, IdentityGates
<1> QED
  BY <1>1, Invariance, PTL

=============================================================================
