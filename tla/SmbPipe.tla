------------------------------ MODULE SmbPipe ------------------------------
(***************************************************************************)
(* The DCE/RPC end of a named pipe of the SMB honeypot                     *)
(* (internal/honeypot/smb/pipe.go, samr.go, lsarpc.go, srvsvc.go).  A pipe *)
(* is a record and the operations are operators on it: PipeState has no    *)
(* goroutine and no lock of its own, the connection's handler calls it.    *)
(*                                                                         *)
(* A PDU is reduced to what Write looks at: its type, its fragment flags,  *)
(* its length class, its call id and the operation it names.  The NDR      *)
(* encodings of the replies are reduced to what a reply discloses.         *)
(***************************************************************************)
EXTENDS Naturals, Sequences

CONSTANT Calls   \* call ids a client uses

Nil == <<>>      \* an absent slice: reasm, reasmHdr

\* Length classes of a PDU: below the 16-byte header, below the 24 bytes of
\* a request header, exactly 24 (no stub bytes), and longer.
Lengths == {"tiny", "short", "bare", "full"}

\* "enumUsers" stands for the two SAMR operations that name accounts
\* (EnumerateUsersInDomain, OpenUser), "lookupSids" for the LSA one.
Ops == {"enumUsers", "lookupSids", "other"}

\* The operations that an interface tells apart.
OpsOf(name) == IF name = "samr" THEN {"enumUsers", "other"}
               ELSE IF name = "lsarpc" THEN {"lookupSids", "other"} ELSE {"other"}

PDUs == [ptype : {"bind", "request", "other"}, first : BOOLEAN, last : BOOLEAN,
         len : Lengths, call : Calls, op : Ops]

PipeNames == {"srvsvc", "samr", "lsarpc"}

\* A queued reply.  whole and fresh are history: it was computed from one
\* request's fragments; it answers the latest PDU that Write acted on.
NoReply == [body |-> "none", whole |-> TRUE, fresh |-> TRUE]

\* opener is history: the latest first fragment, until its request is answered.
newPipeState(name) == [name |-> name, bound |-> FALSE, pending |-> NoReply,
                       reasmHdr |-> Nil, reasm |-> Nil, opener |-> Nil]

\* buildBindAck accepts whatever interface the client names.
buildBindAck(d) == [body |-> "ack", whole |-> TRUE, fresh |-> TRUE]

\* SAMR: the two operations that name users are refused to a session that is
\* not authenticated; the others answer from constants.
handleSamrRequest(op, authenticated) ==
    IF op = "enumUsers" THEN IF authenticated THEN "users" ELSE "denied"
    ELSE "ok"

\* LSARPC: LookupSids resolves relative ids against the same user list, for
\* every caller.
handleLsarpcRequest(op) ==
    IF op = "lookupSids" THEN "users" ELSE "ok"

\* SRVSVC, the default of the dispatch: the share list and constants.
handleSrvsvcRequest(op) == "ok"

\* The reply to a request made of frags under the header hdr.  whole is
\* history: the fragments are one request's, the latest one begun.
handleRequest(p, hdr, frags, authenticated) ==
    [body |-> IF p.name = "samr" THEN handleSamrRequest(hdr[1].op, authenticated)
              ELSE IF p.name = "lsarpc" THEN handleLsarpcRequest(hdr[1].op)
              ELSE handleSrvsvcRequest(hdr[1].op),
     fresh |-> TRUE,
     whole |-> /\ hdr = p.opener
               /\ SubSeq(frags, 1, 1) = p.opener
               /\ \A i \in 2..Len(frags) : ~frags[i].first]

\* What Write keeps of a fragment: who sent it and whether it starts a request.
Frag(d) == [call |-> d.call, first |-> d.first, op |-> IF d.first THEN d.op ELSE "other"]

\* The reassembly buffer after a fragment.  A first fragment without stub
\* bytes leaves it nil: appending nothing to a nil slice is nil.
Reassembled(p, d) ==
    IF d.first THEN IF d.len = "bare" THEN Nil ELSE <<Frag(d)>>
    ELSE IF p.reasm = Nil THEN Nil ELSE Append(p.reasm, Frag(d))

\* Mutant: the queue is left alone.
UnansweredKept(p) == p.pending

\* No reply is queued until the last fragment arrives.
Unanswered(p) == NoReply

WriteFragment(p, d, authenticated) ==
    LET reasm == Reassembled(p, d)
        hdr   == IF d.first THEN <<Frag(d)>> ELSE p.reasmHdr
    IN  IF d.last /\ reasm # Nil
        THEN [p EXCEPT !.pending = handleRequest(p, hdr, reasm, authenticated),
                       !.reasm = Nil, !.reasmHdr = Nil, !.opener = Nil]
        ELSE [p EXCEPT !.pending = Unanswered(p), !.reasm = reasm, !.reasmHdr = hdr]

\* The fast path needs a request header to answer; without it the reply is nil.
WriteWhole(p, d, authenticated) ==
    IF d.len = "short" THEN [p EXCEPT !.pending = NoReply]
    ELSE [p EXCEPT !.pending = handleRequest(p, <<Frag(d)>>, <<Frag(d)>>, authenticated),
                   !.opener = Nil]

\* Mutant: a whole request is answered at once, whatever is being reassembled.
WriteRequestEager(p, d, authenticated) ==
    IF d.first /\ d.last THEN WriteWhole(p, d, authenticated)
    ELSE IF d.len = "short" THEN p ELSE WriteFragment(p, d, authenticated)

WriteRequest(p, d, authenticated) ==
    IF d.first /\ d.last /\ p.reasm = Nil THEN WriteWhole(p, d, authenticated)
    ELSE IF d.len = "short" THEN p
    ELSE WriteFragment(p, d, authenticated)

\* Write acts on the PDU; any other leaves the pipe as it is.
Effective(p, d) == \/ d.ptype = "bind" /\ d.len # "tiny"
                   \/ d.ptype = "request" /\ p.bound /\ d.len \in {"bare", "full"}

Noted(p, d) ==
    IF ~Effective(p, d) THEN p
    ELSE [p EXCEPT !.pending = IF @ = NoReply THEN @ ELSE [@ EXCEPT !.fresh = FALSE],
                   !.opener = IF d.ptype = "request" /\ d.first THEN <<Frag(d)>> ELSE @]

WritePDU(p, d, authenticated) ==
    IF d.len = "tiny" THEN p
    ELSE IF d.ptype = "bind"
         THEN [p EXCEPT !.bound = TRUE, !.pending = buildBindAck(d)]
    ELSE IF d.ptype = "request" /\ p.bound THEN WriteRequest(p, d, authenticated)
    ELSE p

Write(p, d, authenticated) == WritePDU(Noted(p, d), d, authenticated)

\* Read hands out the queued reply and clears it.
Read(p) == [p EXCEPT !.pending = NoReply]

Transceive(p, d, authenticated) == Read(Write(p, d, authenticated))


=============================================================================
