------------------------------- MODULE Egress -------------------------------
(***************************************************************************)
(* How the Windows backend rewrites an outbound packet so that the host    *)
(* looks like the profile: internal/stack/backend_windows.go, toWinProfile *)
(* and applyEgress with what they call.                                    *)
(*                                                                         *)
(* A packet is a record.  The TCP options are a sequence of kinds, each    *)
(* with its width; doff is the length of the options that the header       *)
(* declares.  TSecr is told apart by where it comes from, TSval by the     *)
(* clock it was read from; checksums, the MSS value and byte coincidences  *)
(* (a value byte that reads as an option kind) are left out, and a         *)
(* client's TSval is never zero.                                           *)
(***************************************************************************)
EXTENDS Integers, Sequences, SequencesExt, FiniteSets

CONSTANTS IdMod    \* IP-IDs: 2^16 in the code

ASSUME IdModAssumption == IdMod \in Nat \ {0}

\* mss, nop, window_scale, sack_permitted, timestamp, eol; 4, 1, 3, 2, 10 and 1
\* bytes wide.
Kinds == {"M", "N", "W", "S", "T", "E"}
Count(opts, kind) == Cardinality({i \in DOMAIN opts : opts[i] = kind})
Bytes(opts) == 4 * Count(opts, "M") + Count(opts, "N") + 3 * Count(opts, "W") + 2 * Count(opts, "S")
                   + 10 * Count(opts, "T") + Count(opts, "E")
Has(opts, kind) == kind \in ToSet(opts)
\* The kind stands at one of the byte offsets.
HasAt(opts, kind, offsets) ==
    \E i \in DOMAIN opts : opts[i] = kind /\ Bytes(SubSeq(opts, 1, i - 1)) \in offsets
Nops(n) == [i \in 1 .. n |-> "N"]

toWinProfile(p) ==
    LET ecnEcho == p.family = "linux"
    IN  [ttl |-> p.ttl, df |-> p.df, ipid |-> p.ipid, window |-> p.window, wscale |-> p.wscale,
         ts |-> p.ts, sack |-> p.sack, ordered |-> p.order # <<>>, rstZero |-> p.rstZero,
         opt1 |-> IF Len(p.order) > 1 THEN p.order[2] ELSE "",
         ecnEcho |-> ecnEcho, ecnCC |-> ecnEcho \/ p.ecn = "echo",
         ecnWindow |-> IF ~ecnEcho THEN "" ELSE IF p.window = "FE88" THEN "FAF0"
                       ELSE IF p.window = "7120" THEN "7210" ELSE "",
         winQuirks |-> p.family = "windows",
         tsSlow |-> p.family = "windows" /\ p.ts /\ p.v6,
         highFidelity |-> p.hifi, hifiWatchdog |-> p.watchdog]

\* tsval: Windows 6.x ticks at 10 ms, everything else at 1 ms.
Clock(prof) == IF prof.tsSlow THEN "10ms" ELSE "ms"

\* A timestamp kind in the middle of old options carries the peer's value.
KeptTSecr(p, flow) ==
    IF flow.have /\ flow.ts THEN "client"
    ELSE IF HasAt(p.opts, "T", {4, 6, 8}) THEN p.tsecr ELSE "synthetic"
-----------------------------------------------------------------------------
(* applyTCP, block by block.  flow is the record of the client's SYN.      *)

IsSyn(p) == "SYN" \in p.flags
IsSynAck(p) == {"SYN", "ACK"} \subseteq p.flags
WithOpts(p, opts) == [p EXCEPT !.opts = opts, !.doff = Bytes(opts)]

\* growTCPHeader: twelve bytes of a Windows SYN-ACK become the twenty of Linux,
\* unless its SYN is known to have had no timestamp.
ExpandSynAck(p, prof, flow) ==
    IF /\ p.doff = 12 /\ IsSynAck(p) /\ prof.ts /\ prof.opt1 = "S" /\ prof.wscale
       /\ ~flow.have \/ flow.ts
    THEN WithOpts(p, p.opts \o [i \in 1 .. 8 |-> "E"])
    ELSE p

SetWindow(p, prof) == IF prof.window # "" THEN [p EXCEPT !.win = prof.window] ELSE p

SackOr(use, filler) == IF use THEN <<"S">> ELSE filler
SackOffsets == {4, 6, 8, 10, 12, 16}

\* The option layout of the profile: XP, Windows without timestamps (shrunk to
\* its real length), Linux, Windows with timestamps, the rest.
Layout20(prof, useSACK) ==
    CASE ~prof.wscale /\ ~prof.ts -> <<"M", "N", "N">> \o SackOr(useSACK, Nops(2)) \o Nops(12)
      [] prof.wscale /\ ~prof.ts  -> <<"M", "N", "W">> \o (IF useSACK THEN <<"N", "N", "S">> ELSE <<>>)
      [] prof.ts /\ prof.opt1 = "S" ->
            <<"M">> \o SackOr(useSACK, Nops(2)) \o <<"T", "N">> \o (IF prof.wscale THEN <<"W">> ELSE Nops(3))
      [] prof.wscale /\ prof.ts /\ prof.opt1 # "S" ->
            <<"M", "N", "W">> \o SackOr(useSACK, Nops(2)) \o <<"T">>
      [] OTHER -> <<"M", "N", "W", "N", "N", "T">>

\* The persona is taken for a macOS one.
MacTail(prof) == ~prof.winQuirks /\ prof.ipid = "zero" /\ prof.ts

\* shrinkTCPHeader is given the new length; growTCPHeader adds the tail of macOS.
Template20(p, prof, flow) ==
    IF ~(p.doff = 20 /\ prof.ordered /\ IsSyn(p)) THEN p
    ELSE LET layout == Layout20(prof, prof.sack /\ HasAt(p.opts, "S", SackOffsets))
         IN  [WithOpts(p, IF MacTail(prof) THEN layout \o <<"S", "E", "E">> ELSE layout) EXCEPT
                 !.tsecr = IF prof.ts THEN KeptTSecr(p, flow) ELSE "none",
                 !.clk = IF prof.ts THEN (IF prof.opt1 = "S" THEN "ms" ELSE Clock(prof)) ELSE "none"]

\* Linux answers a SYN without timestamps without one, with its own window.
EcnSynAck(p, prof, flow) ==
    IF ~(/\ IsSynAck(p) /\ prof.ecnEcho /\ flow.have /\ ~flow.ts
         /\ prof.wscale /\ prof.ordered /\ p.doff >= 12)
    THEN p
    ELSE [p EXCEPT !.win = IF prof.ecnWindow # "" THEN prof.ecnWindow ELSE @,
                   !.opts = <<"M", "N", "N">> \o SackOr(prof.sack /\ Has(@, "S"), Nops(2))
                                \o <<"N", "W">> \o Nops(p.doff - 12),
                   !.tsecr = "none", !.clk = "none"]

\* An outbound SYN of the host itself.
OutboundSyn(p, prof) ==
    IF ~(p.doff = 12 /\ prof.wscale /\ prof.ordered /\ IsSyn(p) /\ ~IsSynAck(p)) THEN p
    ELSE LET sack == prof.sack /\ HasAt(p.opts, "S", {2, 4, 6, 8, 10})
         IN  [p EXCEPT !.opts = IF prof.ecnEcho
                                THEN <<"M", "N", "N">> \o SackOr(sack, Nops(2)) \o <<"N", "W">>
                                ELSE <<"M", "N", "W", "N", "N">> \o SackOr(sack, Nops(2))]

\* Sixteen bytes: the answer to a probe without window scale.
O6(p, prof) ==
    IF p.doff # 16 \/ ~IsSyn(p) THEN p
    ELSE IF prof.ts
    THEN [p EXCEPT !.win = IF prof.window = "FFFF" THEN "FFDC" ELSE @,
                   !.clk = IF HasAt(p.opts, "T", {6}) THEN Clock(prof) ELSE @]
    ELSE IF prof.winQuirks
    THEN [WithOpts(p, <<"M", "N", "N">> \o SackOr(prof.sack, Nops(2))) EXCEPT
             !.win = IF prof.window = "FFFF" THEN "FF70" ELSE @, !.tsecr = "none", !.clk = "none"]
    ELSE p

\* The timestamps of data and pure acknowledgements go on from the SYN-ACK's.
TsCoherence(p, prof) ==
    IF p.opts = <<"N", "N", "T">> /\ ~IsSyn(p) /\ prof.ts /\ prof.wscale
    THEN [p EXCEPT !.clk = Clock(prof)] ELSE p

RstWindow(p, prof) == IF "RST" \in p.flags /\ prof.rstZero THEN [p EXCEPT !.win = "0"] ELSE p

patchSynAckTSval(p, prof) ==
    IF IsSynAck(p) /\ prof.ts /\ prof.opt1 = "S" /\ Has(p.opts, "T")
    THEN [p EXCEPT !.clk = "ms"] ELSE p

\* ECE is cleared for profiles that do not echo it, and set on the SYN-ACK of
\* the ECN probe for those that do.
EcnFlags(p, prof, flow) ==
    IF ~IsSynAck(p) THEN p
    ELSE IF ~prof.ecnCC THEN [p EXCEPT !.flags = @ \ {"ECE"}]
    ELSE IF flow.have /\ ~flow.ts THEN [p EXCEPT !.flags = @ \cup {"ECE"}]
    ELSE p

applyTCP(p, prof, flow) ==
    LET a == Template20(SetWindow(ExpandSynAck(p, prof, flow), prof), prof, flow)
        b == O6(OutboundSyn(EcnSynAck(a, prof, flow), prof), prof)
        c == patchSynAckTSval(RstWindow(TsCoherence(b, prof), prof), prof)
    IN  EcnFlags(c, prof, flow)
-----------------------------------------------------------------------------
(* applyEgress: the IP header first, then the protocol.                    *)

\* The one counter that TCP and ICMP share, and the ID it gives.
Counts(p, prof) ==
    IF prof.winQuirks THEN prof.ipid \notin {"zero", "random"} ELSE p.proto = "icmp"
nextCounter(p, prof, counter) == IF Counts(p, prof) THEN (counter + 1) % IdMod ELSE counter
IpId(p, prof, counter) ==
    IF Counts(p, prof) THEN nextCounter(p, prof, counter)
    ELSE IF prof.winQuirks /\ prof.ipid = "random" THEN p.id ELSE 0

\* applyPortUnreachable and applyICMP both clear DF; only Windows forces the
\* code of an echo reply.
applyICMP(p, prof) ==
    [p EXCEPT !.df = FALSE, !.code = IF p.kind = "echo_reply" /\ prof.winQuirks THEN 0 ELSE @]

applyEgress(p, prof, counter, flow) ==
    LET ip == [p EXCEPT !.ttl = IF prof.ttl > 0 THEN prof.ttl ELSE @, !.df = prof.df,
                        !.id = IpId(p, prof, counter)]
    IN  IF p.proto = "tcp" THEN applyTCP(ip, prof, flow)
        ELSE IF p.proto = "icmp" THEN applyICMP(ip, prof) ELSE ip
=============================================================================
