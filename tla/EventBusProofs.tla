--------------------------- MODULE EventBusProofs ---------------------------
(***************************************************************************)
(* What holds of the event bus for any number of emitting goroutines and   *)
(* events, every choice of sinks, every capacity of the ring and every     *)
(* behaviour of the syslog collector: evidence before response, and        *)
(* coherent records.                                                       *)
(***************************************************************************)
EXTENDS EventBus, SequenceTheorems, FiniteSetTheorems, TLAPS

-----------------------------------------------------------------------------
(* The inductive invariant.                                                *)

N == Len(SinkOrder)
Rest(j) == SubSeq(SinkOrder, j, N)

\* What the loop of an Emit call may still have to serve.
Remainders == {Rest(j) : j \in 1 .. N}

EmitCall(f) == /\ f \in [ev : Events, copied : BOOLEAN, rest : Remainders \cup {<<>>}]
               /\ f.copied <=> f.rest \in Remainders

\* The detector is the last sink, so the call that it answers with a Block
\* event is over by then: no goroutine ever has two calls in their loops.
Idle(p)   == frames[p] = <<>>
FramesInv == /\ DOMAIN frames = Emitters
             /\ \A p \in Emitters : Idle(p) \/ (frames[p] = <<Top(p)>> /\ EmitCall(Top(p)))

RecordsInv == /\ written \in [AllSinks -> Seq(Events)]
              /\ failed \subseteq AllSinks \X Events

In(k, e) == \E i \in DOMAIN written[k] : written[k][i] = e
InFlight(e) == \E p \in Emitters : ~Idle(p) /\ Top(p).ev = e
Recorded(e) == In("file", e) \/ <<"file", e>> \in failed

\* A sink that a call has not served has no record of its event.
NotYet == \A p \in Emitters : \A k \in AllSinks :
             ~Idle(p) /\ In(k, Top(p).ev) => Top(p).copied /\ k \notin ToSet(Top(p).rest)

FileFirst == \A p \in Emitters :
                ~Idle(p) /\ JSONFile /\ Top(p).copied /\ "file" \notin ToSet(Top(p).rest)
                    => Recorded(Top(p).ev)

\* No two goroutines carry the same event.
OneCarrier == \A p, q \in Emitters : ~Idle(p) /\ ~Idle(q) /\ Top(p).ev = Top(q).ev => p = q

\* A Block event exists only once the event it answers is scored and done with.
BlocksFollow == \A e \in Events : BlockOf(e) \in Taken => In("detector", e) /\ ~InFlight(e)

NoRepeats == \A k \in AllSinks : \A i, j \in DOMAIN written[k] : written[k][i] = written[k][j] => i = j

InOrder == \A k \in AllSinks : \A i, j \in DOMAIN written[k] :
              ~IsBlock(written[k][i]) /\ written[k][j] = BlockOf(written[k][i]) => i < j

Scored == JSONFile => \A e \in Events : In("detector", e) => Recorded(e)

Delivered == closing = "no" => \A e \in Taken : In("detector", e) \/ InFlight(e)

\* The honeypots' events are numbered without a gap while the bus is open.
Numbered == closing = "no" => \E n \in 0 .. MaxEvents : Emitted = 1 .. n

BusInv == /\ sinks \in {SinkOrder, <<>>} /\ global \in BOOLEAN /\ orderly \in BOOLEAN
          /\ closing \in AllSinks \cup {"no", "done"}
          /\ closing \in AllSinks \cup {"no"} => sinks = SinkOrder
          /\ global <=> closing = "no"

FlowInv == /\ BusInv /\ FramesInv /\ RecordsInv
           /\ NotYet /\ FileFirst /\ OneCarrier /\ BlocksFollow
           /\ NoRepeats /\ InOrder /\ Scored /\ Delivered /\ Numbered

\* The ring is the end of what it accepted.
RingInv == LET w == written["ring"]
           IN  /\ ring \in Seq(Events) /\ Len(ring) <= Len(w) /\ Len(ring) <= RingMax
               /\ \A i \in 1 .. Len(ring) : ring[i] = w[Len(w) - Len(ring) + i]

\* The holder of SyslogSink.mu is inside SyslogSink.Write.
LockInv == mu = {} \/ \E p \in Emitters : mu = {p} /\ AtSink(p, "syslog")

\* Bus.Close works down the list; once it is past a sink with nobody inside
\* Emit, that sink stays closed.
CloseInv ==
    /\ fileOpen \in BOOLEAN /\ (fileOpen => JSONFile)
    /\ ~Syslog => conn = "none"
    /\ closing # "no" =>
         \E i \in 1 .. N + 1 :
            /\ closing = IF i <= N THEN SinkOrder[i] ELSE "done"
            /\ orderly => /\ \A p \in Emitters : Idle(p)
                          /\ \A j \in 1 .. i - 1 : /\ SinkOrder[j] = "file" => ~fileOpen
                                                   /\ SinkOrder[j] = "syslog" => conn = "none"

CollectorInv == /\ stage \in {"none", "dial", "send", "redial", "resend"}
                /\ conn \in {"none", "live", "stale"}
                /\ collector \in {"up", "down", "stalled"}
                /\ faults \in Nat /\ faults <= MaxFaults

IInv == FlowInv /\ RingInv /\ LockInv /\ CloseInv /\ CollectorInv

-----------------------------------------------------------------------------
(* The list of sinks.                                                      *)

\* s lists the sinks of K once each, the file first.
Lists(s, K) == /\ s \in Seq(AllSinks)
               /\ \A i \in 1 .. Len(s) : s[i] \in K
               /\ \A k \in K : \E i \in 1 .. Len(s) : s[i] = k
               /\ \A i, j \in 1 .. Len(s) : s[i] = s[j] => i = j
               /\ "file" \in K => Len(s) >= 1 /\ s[1] = "file"

LEMMA ListsOneMore ==
  ASSUME NEW s, NEW K, Lists(s, K), NEW k \in AllSinks, k \notin K, k = "file" => Len(s) = 0
  PROVE  Lists(Append(s, k), K \cup {k}) /\ Append(s, k)[Len(Append(s, k))] = k
<1> DEFINE t == Append(s, k)
<1>1. /\ s \in Seq(AllSinks) /\ Len(s) \in Nat
      /\ \A i \in 1 .. Len(s) : s[i] \in K
      /\ \A x \in K : \E i \in 1 .. Len(s) : s[i] = x
      /\ \A i, j \in 1 .. Len(s) : s[i] = s[j] => i = j
      /\ "file" \in K => Len(s) >= 1 /\ s[1] = "file"
  BY LenProperties DEF Lists
<1>2. /\ t \in Seq(AllSinks) /\ Len(t) = Len(s) + 1 /\ t[Len(s) + 1] = k
      /\ \A i \in 1 .. Len(s) : t[i] = s[i]
  BY <1>1, AppendProperties
<1> HIDE DEF t
<1>3. \A i \in 1 .. Len(t) : i \in 1 .. Len(s) \/ i = Len(s) + 1
  BY <1>1, <1>2
<1>4. \A i \in 1 .. Len(t) : t[i] \in K \cup {k}
  BY <1>1, <1>2, <1>3
<1>5. \A x \in K \cup {k} : \E i \in 1 .. Len(t) : t[i] = x
  <2>1. ASSUME NEW x \in K PROVE \E i \in 1 .. Len(t) : t[i] = x
    BY <1>1, <1>2
  <2>2. Len(s) + 1 \in 1 .. Len(t)
    BY <1>1, <1>2
  <2> QED
    BY <1>2, <2>1, <2>2
<1>6. \A i, j \in 1 .. Len(t) : t[i] = t[j] => i = j
  BY <1>1, <1>2, <1>3
<1>7. "file" \in K \cup {k} => Len(t) >= 1 /\ t[1] = "file"
  BY <1>1, <1>2
<1> QED
  BY <1>2, <1>4, <1>5, <1>6, <1>7 DEF Lists, t

\* runMimic's list: each configured sink once, the file first, the detector last.
LEMMA SinkOrderFacts ==
  /\ SinkOrder \in Seq(AllSinks) /\ N \in Nat /\ N >= 1 /\ SinkOrder[N] = "detector"
  /\ \A i \in 1 .. N : SinkOrder[i] \in AllSinks
  /\ \A i, j \in 1 .. N : SinkOrder[i] = SinkOrder[j] => i = j
  /\ JSONFile => SinkOrder[1] = "file"
  /\ Syslog <=> \E i \in 1 .. N : SinkOrder[i] = "syslog"
<1>1. ASSUME NEW s \in Seq(AllSinks), NEW c \in BOOLEAN, NEW k \in AllSinks
      PROVE  s \o Optional(c, k) = IF c THEN Append(s, k) ELSE s
  <2>1. s \o <<>> = s /\ s \o <<k>> = Append(s, k)
    BY ConcatEmptySeq, AppendIsConcat
  <2> QED
    BY <2>1 DEF Optional
<1> DEFINE s1 == Optional(JSONFile, "file")
           s2 == s1 \o Optional(Syslog, "syslog")
           s3 == s2 \o Optional(Control, "ring")
           K1 == IF JSONFile THEN {"file"} ELSE {}
           K2 == K1 \cup (IF Syslog THEN {"syslog"} ELSE {})
           K3 == K2 \cup (IF Control THEN {"ring"} ELSE {})
<1>2. JSONFile \in BOOLEAN /\ Syslog \in BOOLEAN /\ Control \in BOOLEAN
  BY EventBusAssumption
<1>3. {"file", "syslog", "ring", "detector"} = AllSinks
  BY DEF AllSinks
<1>4. Lists(<<>>, {}) /\ <<>> \in Seq(AllSinks) /\ Len(<<>>) = 0
  BY EmptySeq DEF Lists
<1>5. Lists(s1, K1)
  <2>1. Append(<<>>, "file") = <<"file">>
    OBVIOUS
  <2>2. Lists(Append(<<>>, "file"), {} \cup {"file"})
    BY <1>3, <1>4, ListsOneMore
  <2>3. {} \cup {"file"} = {"file"}
    OBVIOUS
  <2>4. Lists(<<"file">>, {"file"})
    BY ONLY <2>1, <2>2, <2>3
  <2>5. CASE JSONFile
    BY <2>4, <2>5 DEF Optional
  <2>6. CASE ~JSONFile
    BY <1>4, <2>6 DEF Optional
  <2> QED
    BY <2>5, <2>6
<1>6. K1 \subseteq {"file"} /\ s1 \in Seq(AllSinks)
  BY <1>5 DEF Lists
<1> HIDE DEF s1
<1>7. Lists(s2, K2)
  <2>1. s2 = IF Syslog THEN Append(s1, "syslog") ELSE s1
    BY <1>1, <1>2, <1>3, <1>6
  <2>2. "syslog" \notin K1
    BY <1>6
  <2>3. Lists(Append(s1, "syslog"), K1 \cup {"syslog"})
    BY <1>3, <1>5, <2>2, ListsOneMore
  <2>4. K2 = IF Syslog THEN K1 \cup {"syslog"} ELSE K1
    OBVIOUS
  <2> HIDE DEF s2, K1, K2
  <2> QED
    BY <1>5, <2>1, <2>3, <2>4
<1>8. K2 \subseteq {"file", "syslog"} /\ s2 \in Seq(AllSinks)
  BY <1>7 DEF Lists
<1> HIDE DEF s2
<1>9. Lists(s3, K3)
  <2>1. s3 = IF Control THEN Append(s2, "ring") ELSE s2
    BY <1>1, <1>2, <1>3, <1>8
  <2>2. "ring" \notin K2
    BY <1>8
  <2>3. Lists(Append(s2, "ring"), K2 \cup {"ring"})
    BY <1>3, <1>7, <2>2, ListsOneMore
  <2>4. K3 = IF Control THEN K2 \cup {"ring"} ELSE K2
    OBVIOUS
  <2> HIDE DEF s3, K2, K3
  <2> QED
    BY <1>7, <2>1, <2>3, <2>4
<1>10. K3 \subseteq {"file", "syslog", "ring"} /\ s3 \in Seq(AllSinks)
  BY <1>9 DEF Lists
<1>11. /\ "syslog" \in K3 <=> Syslog
       /\ JSONFile => "file" \in K3
  BY <1>2
<1>12. SinkOrder = s3 \o <<"detector">>
  BY DEF SinkOrder, s3, s2, s1
<1> HIDE DEF s3, K3
<1>13. SinkOrder = Append(s3, "detector")
  BY <1>3, <1>10, <1>12, AppendIsConcat
<1>14. Lists(SinkOrder, K3 \cup {"detector"}) /\ SinkOrder[N] = "detector"
  <2>1. "detector" \notin K3 /\ "detector" \in AllSinks /\ "detector" # "file"
    BY <1>3, <1>10
  <2> QED
    BY <1>9, <1>13, <2>1, ListsOneMore DEF N
<1>15. N \in Nat /\ SinkOrder \in Seq(AllSinks)
  BY <1>14, LenProperties DEF Lists, N
<1>16. N >= 1 /\ (JSONFile => SinkOrder[1] = "file")
       /\ \A i, j \in 1 .. N : SinkOrder[i] = SinkOrder[j] => i = j
  BY <1>11, <1>14, <1>15 DEF Lists, N
<1>17. Syslog <=> \E i \in 1 .. N : SinkOrder[i] = "syslog"
  BY <1>11, <1>14 DEF Lists, N
<1>18. \A i \in 1 .. N : SinkOrder[i] \in AllSinks
  BY <1>15, LenProperties DEF N
<1> QED
  BY <1>14, <1>15, <1>16, <1>17, <1>18

\* The sinks a remainder names.
LEMMA RestNames ==
  ASSUME NEW j \in 1 .. N
  PROVE  /\ Rest(j) \in Seq(AllSinks) /\ Len(Rest(j)) = N - j + 1
         /\ ToSet(Rest(j)) = {SinkOrder[i] : i \in j .. N}
<1>1. N \in Nat /\ \A i \in j .. N : SinkOrder[i] \in AllSinks
  BY SinkOrderFacts
<1>2. /\ Rest(j) \in Seq(AllSinks) /\ Len(Rest(j)) = N - j + 1
      /\ \A i \in 1 .. N - j + 1 : Rest(j)[i] = SinkOrder[j + i - 1]
  BY <1>1, SubSeqProperties DEF Rest
<1>3. DOMAIN Rest(j) = 1 .. N - j + 1
  BY <1>2, LenProperties
<1>4. ASSUME NEW x \in ToSet(Rest(j)) PROVE x \in {SinkOrder[i] : i \in j .. N}
  <2>1. PICK i \in 1 .. N - j + 1 : x = Rest(j)[i]
    BY <1>3, <1>4 DEF ToSet
  <2>2. x = SinkOrder[j + i - 1] /\ j + i - 1 \in j .. N
    BY <1>1, <1>2, <2>1
  <2> QED
    BY <2>2
<1>5. ASSUME NEW i \in j .. N PROVE SinkOrder[i] \in ToSet(Rest(j))
  <2>1. i - j + 1 \in 1 .. N - j + 1 /\ j + (i - j + 1) - 1 = i
    BY <1>1
  <2>2. Rest(j)[i - j + 1] = SinkOrder[i]
    BY <1>2, <2>1
  <2> QED
    BY <1>3, <2>1, <2>2 DEF ToSet
<1>6. ToSet(Rest(j)) = {SinkOrder[i] : i \in j .. N}
  BY <1>4, <1>5
<1> QED
  BY <1>2, <1>6

\* One turn of the loop of Bus.Emit.
LEMMA RemainderFacts ==
  ASSUME NEW s \in Remainders
  PROVE  /\ s # <<>> /\ Head(s) \in AllSinks /\ Head(s) \in ToSet(s)
         /\ "detector" \in ToSet(s)
         /\ Tail(s) = <<>> \/ Tail(s) \in Remainders
         /\ ToSet(Tail(s)) = ToSet(s) \ {Head(s)}
         /\ Tail(s) = <<>> <=> Head(s) = "detector"
         /\ JSONFile /\ "file" \in ToSet(s) => Head(s) = "file"
         /\ Head(s) = "syslog" => Syslog
<1>1. PICK j \in 1 .. N : s = Rest(j)
  BY DEF Remainders
<1>2. /\ N \in Nat /\ N >= 1 /\ SinkOrder \in Seq(AllSinks) /\ SinkOrder[N] = "detector"
      /\ \A i \in 1 .. N : SinkOrder[i] \in AllSinks
      /\ \A i, k \in 1 .. N : SinkOrder[i] = SinkOrder[k] => i = k
  BY SinkOrderFacts
<1>3. Head(s) = SinkOrder[j] /\ Tail(s) = Rest(j + 1)
  BY <1>1, <1>2, HeadTailOfSubSeq DEF Rest, N
<1>4. s \in Seq(AllSinks) /\ Len(s) >= 1 /\ ToSet(s) = {SinkOrder[i] : i \in j .. N}
  BY <1>1, <1>2, RestNames
<1>5. s # <<>>
  BY <1>4, EmptySeq
<1>6. Head(s) \in AllSinks /\ Head(s) \in ToSet(s)
  BY <1>2, <1>3, <1>4
<1>7. "detector" \in ToSet(s)
  BY <1>2, <1>4
<1>8. JSONFile /\ "file" \in ToSet(s) => Head(s) = "file"
  BY <1>2, <1>3, <1>4, SinkOrderFacts
<1>9. Head(s) = "syslog" => Syslog
  BY <1>3, SinkOrderFacts
<1>10. CASE j = N
  <2>1. Tail(s) = <<>>
    BY <1>2, <1>3, <1>10, SubSeqEmpty DEF Rest
  <2>2. ToSet(Tail(s)) = {}
    BY <2>1 DEF ToSet
  <2>3. ToSet(s) = {Head(s)} /\ Head(s) = "detector"
    BY <1>2, <1>3, <1>4, <1>10
  <2> QED
    BY <1>5, <1>6, <1>7, <1>8, <1>9, <2>1, <2>2, <2>3
<1>11. CASE j # N
  <2>1. j + 1 \in 1 .. N
    BY <1>2, <1>11
  <2>2. Tail(s) \in Remainders
    BY <1>3, <2>1 DEF Remainders
  <2>3. ToSet(Tail(s)) = {SinkOrder[i] : i \in j + 1 .. N} /\ Len(Tail(s)) >= 1
        /\ Tail(s) \in Seq(AllSinks)
    <3>1. /\ Rest(j + 1) \in Seq(AllSinks) /\ Len(Rest(j + 1)) = N - (j + 1) + 1
          /\ ToSet(Rest(j + 1)) = {SinkOrder[i] : i \in j + 1 .. N}
      BY <2>1, RestNames, Zenon
    <3>2. Len(Rest(j + 1)) >= 1
      BY <1>2, <2>1, <3>1
    <3> QED
      BY <1>3, <3>1, <3>2, Zenon
  <2>4. Tail(s) # <<>>
    BY <2>3, EmptySeq
  <2>5. Head(s) # "detector"
    BY <1>2, <1>3, <1>11
  <2>6. ToSet(Tail(s)) = ToSet(s) \ {Head(s)}
    <3>1. \A i \in j .. N : i \in 1 .. N /\ (i = j \/ i \in j + 1 .. N)
      BY <1>2
    <3>2. \A i \in j + 1 .. N : i \in j .. N /\ i \in 1 .. N /\ i # j
      BY <1>2
    <3>3. \A i \in j + 1 .. N : SinkOrder[i] # SinkOrder[j]
      BY <1>2, <3>2
    <3> QED
      BY <1>3, <1>4, <2>3, <3>1, <3>2, <3>3
  <2> QED
    BY <1>5, <1>6, <1>7, <1>8, <1>9, <2>2, <2>4, <2>5, <2>6
<1> QED
  BY <1>10, <1>11

LEMMA WholeListRemains ==
  /\ SinkOrder \in Remainders /\ <<>> \notin Remainders
  /\ JSONFile => "file" \in ToSet(SinkOrder)
<1>1. N \in Nat /\ N >= 1 /\ SinkOrder \in Seq(AllSinks)
  BY SinkOrderFacts
<1>2. SinkOrder = Rest(1) /\ 1 \in 1 .. N
  BY <1>1, SubSeqFull DEF Rest, N
<1>3. SinkOrder \in Remainders
  BY <1>2 DEF Remainders
<1>4. JSONFile => "file" \in ToSet(SinkOrder)
  BY <1>1, <1>2, RestNames, SinkOrderFacts
<1> QED
  BY <1>3, <1>4, RemainderFacts

-----------------------------------------------------------------------------
(* Records.                                                                *)

\* A sink's record grows by one event.
LEMMA RecordGrows ==
  ASSUME RecordsInv, NEW k \in AllSinks, NEW e \in Events,
         written' = [written EXCEPT ![k] = Append(@, e)]
  PROVE  /\ written' \in [AllSinks -> Seq(Events)]
         /\ \A m \in AllSinks : m # k => written'[m] = written[m]
         /\ Len(written[k]) \in Nat /\ DOMAIN written[k] = 1 .. Len(written[k])
         /\ DOMAIN written'[k] = 1 .. Len(written[k]) + 1
         /\ \A i \in 1 .. Len(written[k]) : written'[k][i] = written[k][i]
         /\ written'[k][Len(written[k]) + 1] = e
         /\ \A m \in AllSinks : \A x : In(m, x)' <=> In(m, x) \/ (m = k /\ x = e)
<1> DEFINE L == Len(written[k])
<1>1. written \in [AllSinks -> Seq(Events)] /\ written[k] \in Seq(Events)
  BY DEF RecordsInv
<1>2. L \in Nat /\ DOMAIN written[k] = 1 .. L
  BY <1>1, LenProperties
<1>3. /\ Append(written[k], e) \in Seq(Events) /\ Len(Append(written[k], e)) = L + 1
      /\ \A i \in 1 .. L : Append(written[k], e)[i] = written[k][i]
      /\ Append(written[k], e)[L + 1] = e
  BY <1>1, AppendProperties
<1>4. DOMAIN Append(written[k], e) = 1 .. L + 1
  BY <1>3, LenProperties
<1>5. /\ written' \in [AllSinks -> Seq(Events)]
      /\ \A m \in AllSinks : m # k => written'[m] = written[m]
      /\ written'[k] = Append(written[k], e)
  BY <1>1, <1>3
<1>6. /\ DOMAIN written'[k] = 1 .. L + 1
      /\ \A i \in 1 .. L : written'[k][i] = written[k][i]
      /\ written'[k][L + 1] = e
  BY <1>3, <1>4, <1>5
<1> HIDE DEF L
<1>7. \A x : In(k, x)' <=> In(k, x) \/ x = e
  <2> SUFFICES ASSUME NEW x PROVE In(k, x)' <=> In(k, x) \/ x = e
    OBVIOUS
  <2>1. \A i \in 1 .. L + 1 : i \in 1 .. L \/ i = L + 1
    BY <1>2
  <2>2. L + 1 \in 1 .. L + 1 /\ \A i \in 1 .. L : i \in 1 .. L + 1
    BY <1>2
  <2> QED
    BY <1>2, <1>6, <2>1, <2>2 DEF In
<1>8. \A m \in AllSinks : \A x : In(m, x)' <=> In(m, x) \/ (m = k /\ x = e)
  BY <1>5, <1>7 DEF In
<1> QED
  BY <1>2, <1>5, <1>6, <1>8 DEF L

\* A new event keeps the record free of repetitions and in order.
LEMMA RecordStaysCoherent ==
  ASSUME RecordsInv, NoRepeats, InOrder, NEW k \in AllSinks, NEW e \in Events,
         written' = [written EXCEPT ![k] = Append(@, e)],
         ~In(k, e), ~IsBlock(e) => ~In(k, BlockOf(e))
  PROVE  NoRepeats' /\ InOrder'
<1> DEFINE L == Len(written[k])
<1>1. /\ \A m \in AllSinks : m # k => written'[m] = written[m]
      /\ L \in Nat /\ DOMAIN written[k] = 1 .. L
      /\ DOMAIN written'[k] = 1 .. L + 1
      /\ \A i \in 1 .. L : written'[k][i] = written[k][i]
      /\ written'[k][L + 1] = e
  BY RecordGrows
<1> HIDE DEF L
<1>2. /\ \A i \in 1 .. L : written[k][i] # e
      /\ ~IsBlock(e) => \A i \in 1 .. L : written[k][i] # BlockOf(e)
  BY <1>1 DEF In
<1>3. \A i \in 1 .. L + 1 : i \in 1 .. L \/ i = L + 1
  BY <1>1
<1>4. \A i, j \in 1 .. L + 1 : written'[k][i] = written'[k][j] => i = j
  BY <1>1, <1>2, <1>3 DEF NoRepeats
<1>5. ASSUME NEW i \in 1 .. L + 1, NEW j \in 1 .. L + 1,
             ~IsBlock(written'[k][i]), written'[k][j] = BlockOf(written'[k][i])
      PROVE  i < j
  <2>1. CASE i \in 1 .. L /\ j \in 1 .. L
    BY <1>1, <1>5, <2>1 DEF InOrder
  <2>2. CASE i \in 1 .. L /\ j = L + 1
    BY <1>1, <2>2
  <2>3. CASE i = L + 1 /\ j \in 1 .. L
    BY <1>1, <1>2, <1>5, <2>3
  <2>4. CASE i = L + 1 /\ j = L + 1
    <3>1. ~IsBlock(e) /\ e = BlockOf(e)
      BY <1>1, <1>5, <2>4
    <3> QED
      BY <3>1, EventBusAssumption DEF IsBlock, BlockOf, Events
  <2> QED
    BY <1>3, <2>1, <2>2, <2>3, <2>4
<1>6. NoRepeats'
  BY <1>1, <1>4 DEF NoRepeats
<1>7. InOrder'
  BY <1>1, <1>5 DEF InOrder
<1> QED
  BY <1>6, <1>7

-----------------------------------------------------------------------------
(* Emit calls.                                                             *)

\* A goroutine inside Emit has one call.
LEMMA OneCall ==
  ASSUME FramesInv, NEW p \in Emitters, ~Idle(p)
  PROVE  /\ frames[p] = <<Top(p)>> /\ DOMAIN frames[p] = {1} /\ EmitCall(Top(p))
         /\ Top(p).ev \in Events
  BY DEF FramesInv, EmitCall

\* Where Emit calls are, Taken sees them.
LEMMA TakenIs ==
  ASSUME FramesInv
  PROVE  Taken = {e \in Events : \/ InFlight(e)
                                 \/ \E k \in AllSinks : In(k, e) \/ <<k, e>> \in failed}
<1>1. \A k \in AllSinks : \A e : e \in ToSet(written[k]) <=> In(k, e)
  BY DEF ToSet, In
<1>2. ASSUME NEW e
      PROVE (\E p \in Emitters : \E i \in DOMAIN frames[p] : frames[p][i].ev = e) <=> InFlight(e)
  <2>1. ASSUME NEW p \in Emitters
        PROVE (\E i \in DOMAIN frames[p] : frames[p][i].ev = e) <=> (~Idle(p) /\ Top(p).ev = e)
    <3>1. CASE Idle(p)
      BY <3>1 DEF Idle
    <3>2. CASE ~Idle(p)
      BY <3>2, OneCall DEF Top
    <3> QED
      BY <3>1, <3>2
  <2> QED
    BY <2>1 DEF InFlight
<1> QED
  BY <1>1, <1>2 DEF Taken

\* The same, in the form that also holds of the next state.
TakenSeen == \A e : e \in Taken <=> /\ e \in Events
                                    /\ \/ InFlight(e)
                                       \/ \E k \in AllSinks : In(k, e) \/ <<k, e>> \in failed

LEMMA TakenIsSeen == FramesInv => TakenSeen
  BY TakenIs DEF TakenSeen

LEMMA TakenIsSeenNext == FramesInv' => TakenSeen'
  BY TakenIsSeen, PTL

\* What is left of a call when a sink has been served: after the detector, the
\* last one, nothing.
LEMMA CallServed ==
  ASSUME FramesInv, NEW p \in Emitters, NEW k, AtSink(p, k)
  PROVE  /\ ~Idle(p) /\ Top(p).copied /\ Top(p).rest \in Remainders /\ k \in AllSinks
         /\ k = Head(Top(p).rest) /\ k \in ToSet(Top(p).rest)
         /\ k = "detector" => Served(p) = <<>>
         /\ k # "detector" =>
              \E g : /\ Served(p) = <<g>> /\ EmitCall(g) /\ g.ev = Top(p).ev /\ g.copied
                     /\ ToSet(g.rest) = ToSet(Top(p).rest) \ {k}
<1> DEFINE f == Top(p)
<1>1. ~Idle(p) /\ f.rest # <<>> /\ Head(f.rest) = k
  BY DEF AtSink, Idle
<1>2. frames[p] = <<f>> /\ EmitCall(f)
  BY <1>1, OneCall
<1>3. /\ f \in [ev : Events, copied : BOOLEAN, rest : Remainders \cup {<<>>}]
      /\ f.copied /\ f.rest \in Remainders
  BY <1>1, <1>2 DEF EmitCall
<1> HIDE DEF f
<1>4. /\ k \in AllSinks /\ k \in ToSet(f.rest)
      /\ Tail(f.rest) = <<>> \/ Tail(f.rest) \in Remainders
      /\ ToSet(Tail(f.rest)) = ToSet(f.rest) \ {k}
      /\ Tail(f.rest) = <<>> <=> k = "detector"
  BY <1>1, <1>3, RemainderFacts
<1> DEFINE g == [f EXCEPT !.rest = Tail(f.rest)]
<1>5. [frames[p] EXCEPT ![1].rest = Tail(@)] = <<g>>
  <2>1. \A c, x : [<<c>> EXCEPT ![1] = x] = <<x>>
    OBVIOUS
  <2>2. frames[p][1] = f
    BY DEF f, Top
  <2>3. [frames[p] EXCEPT ![1].rest = Tail(@)] = [frames[p] EXCEPT ![1] = g]
    BY <2>2
  <2>4. [frames[p] EXCEPT ![1] = g] = [<<f>> EXCEPT ![1] = g]
    BY <1>2
  <2> HIDE DEF g
  <2>5. [<<f>> EXCEPT ![1] = g] = <<g>>
    BY ONLY <2>1
  <2> QED
    BY ONLY <2>3, <2>4, <2>5
<1>6. g.ev = f.ev /\ g.copied = f.copied /\ g.rest = Tail(f.rest)
      /\ g \in [ev : Events, copied : BOOLEAN, rest : Remainders \cup {<<>>}]
  BY <1>3, <1>4
<1> HIDE DEF g
<1>7. Served(p) = IF g.copied /\ g.rest = <<>> THEN Tail(<<g>>) ELSE <<g>>
  BY <1>5 DEF Served, Returned
<1>8. Tail(<<g>>) = <<>>
  OBVIOUS
<1>9. CASE k = "detector"
  BY <1>1, <1>3, <1>4, <1>6, <1>7, <1>8, <1>9 DEF f
<1>10. CASE k # "detector"
  <2>1. Served(p) = <<g>> /\ g.rest \in Remainders
    BY <1>4, <1>6, <1>7, <1>10
  <2>2. EmitCall(g) /\ g.copied /\ g.ev = f.ev /\ ToSet(g.rest) = ToSet(f.rest) \ {k}
    BY <1>3, <1>4, <1>6, <2>1 DEF EmitCall
  <2> QED
    BY <1>1, <1>3, <1>4, <1>10, <2>1, <2>2 DEF f
<1> QED
  BY <1>9, <1>10

-----------------------------------------------------------------------------
(* A sink is served: FileWrite, RingWrite, DetectorWrite and the steps of  *)
(* SyslogSink.Write that return.                                           *)

Wrote(k, e) == \/ Accept(k, e)
               \/ k # "detector" /\ Fail(k, e)
               \/ k = "syslog" /\ UNCHANGED <<written, failed>>

Responds(p) == /\ ~IsBlock(Top(p).ev)
               /\ frames' = [frames EXCEPT ![p] = <<Call(BlockOf(Top(p).ev))>> \o Served(p)]

Serve(p, k) == /\ AtSink(p, k) /\ Wrote(k, Top(p).ev)
               /\ frames' = Advance(p) \/ (k = "detector" /\ Responds(p))
               /\ UNCHANGED <<global, sinks, closing, orderly>>

LEMMA CallIsNew ==
  ASSUME NEW e \in Events
  PROVE  /\ EmitCall(Call(e)) /\ Call(e).ev = e /\ ~Call(e).copied /\ Call(e).rest = <<>>
         /\ <<Call(e)>> \o <<>> = <<Call(e)>>
<1>1. /\ Call(e).ev = e /\ ~Call(e).copied /\ Call(e).rest = <<>>
      /\ Call(e) \in [ev : Events, copied : BOOLEAN, rest : Remainders \cup {<<>>}]
  BY DEF Call
<1>2. EmitCall(Call(e))
  BY <1>1, WholeListRemains DEF EmitCall
<1>3. \A f : <<f>> \o <<>> = <<f>>
  OBVIOUS
<1> QED
  BY <1>1, <1>2, <1>3

\* The Block event of an event that is still in flight does not exist yet.
LEMMA NoBlockYet ==
  ASSUME FramesInv, BlocksFollow, NEW e \in Events, InFlight(e), ~IsBlock(e)
  PROVE  /\ BlockOf(e) \in Events /\ BlockOf(e) # e /\ BlockOf(e) \notin Taken
         /\ ~InFlight(BlockOf(e)) /\ \A k \in AllSinks : ~In(k, BlockOf(e))
<1>1. BlockOf(e) \in Events /\ BlockOf(e) # e
  BY EventBusAssumption DEF BlockOf, IsBlock, Events
<1>2. BlockOf(e) \notin Taken
  BY DEF BlocksFollow
<1> QED
  BY <1>1, <1>2, TakenIs

\* The records after the step.
LEMMA ServeRecords ==
  ASSUME FramesInv, RecordsInv, NEW p \in Emitters, NEW k \in AllSinks, Serve(p, k),
         NEW e, e = Top(p).ev
  PROVE  /\ RecordsInv'
         /\ \A m \in AllSinks : \A x : In(m, x) => In(m, x)'
         /\ \A m \in AllSinks : \A x : In(m, x)' => In(m, x) \/ (m = k /\ x = e)
         /\ failed \subseteq failed' /\ failed' \subseteq failed \cup {<<k, e>>}
         /\ k = "detector" => In("detector", e)'
         /\ k = "file" => Recorded(e)'
         /\ \A x : Recorded(x) => Recorded(x)'
<1>1. e \in Events
  BY CallServed, OneCall DEF Serve
<1>2. Wrote(k, e)
  BY DEF Serve
<1>3. CASE Accept(k, e)
  <2>1. written' = [written EXCEPT ![k] = Append(@, e)] /\ failed' = failed
    BY <1>3 DEF Accept
  <2>2. /\ written' \in [AllSinks -> Seq(Events)]
        /\ \A m \in AllSinks : \A x : In(m, x)' <=> In(m, x) \/ (m = k /\ x = e)
    BY <1>1, <2>1, RecordGrows
  <2>3. RecordsInv' /\ In(k, e)'
    <3>1. In(k, e)'
      BY <2>2
    <3>2. RecordsInv'
      BY <2>1, <2>2 DEF RecordsInv
    <3> QED
      BY <3>1, <3>2
  <2>4. "file" \in AllSinks
    BY DEF AllSinks
  <2> QED
    BY <2>1, <2>2, <2>3, <2>4 DEF Recorded
<1>4. CASE k # "detector" /\ Fail(k, e)
  <2>1. written' = written /\ failed' = failed \cup {<<k, e>>}
    BY <1>4 DEF Fail
  <2>2. \A m \in AllSinks : \A x : In(m, x)' <=> In(m, x)
    BY <2>1 DEF In
  <2>3. RecordsInv'
    BY <1>1, <2>1 DEF RecordsInv
  <2>4. "file" \in AllSinks
    BY DEF AllSinks
  <2> QED
    BY <1>4, <2>1, <2>2, <2>3, <2>4 DEF Recorded
<1>5. CASE k = "syslog" /\ UNCHANGED <<written, failed>>
  <2>1. \A m \in AllSinks : \A x : In(m, x)' <=> In(m, x)
    BY <1>5 DEF In
  <2>2. RecordsInv'
    BY <1>5 DEF RecordsInv
  <2>3. "file" \in AllSinks /\ k # "detector" /\ k # "file"
    BY <1>5 DEF AllSinks
  <2> QED
    BY <1>5, <2>1, <2>2, <2>3 DEF Recorded
<1> QED
  BY <1>2, <1>3, <1>4, <1>5 DEF Wrote

\* The calls after the step.
LEMMA ServeCalls ==
  ASSUME FlowInv, NEW p \in Emitters, NEW k \in AllSinks, Serve(p, k),
         NEW e, e = Top(p).ev
  PROVE  /\ FramesInv'
         /\ ~Idle(p) /\ Top(p).copied /\ e \in Events /\ InFlight(e)
         /\ k = Head(Top(p).rest) /\ k \in ToSet(Top(p).rest) /\ Top(p).rest \in Remainders
         /\ \A q \in Emitters : q # p => (Idle(q)' <=> Idle(q)) /\ Top(q)' = Top(q)
         /\ \/ k = "detector" /\ Idle(p)'
            \/ /\ k # "detector" /\ ~Idle(p)' /\ Top(p)'.ev = e /\ Top(p)'.copied
               /\ ToSet(Top(p)'.rest) = ToSet(Top(p).rest) \ {k}
            \/ /\ k = "detector" /\ ~IsBlock(e)
               /\ ~Idle(p)' /\ Top(p)'.ev = BlockOf(e) /\ ~Top(p)'.copied
<1>1. FramesInv /\ AtSink(p, k) /\ BlocksFollow
  BY DEF FlowInv, Serve
<1>2. /\ ~Idle(p) /\ Top(p).copied /\ Top(p).rest \in Remainders
      /\ k = Head(Top(p).rest) /\ k \in ToSet(Top(p).rest)
      /\ k = "detector" => Served(p) = <<>>
      /\ k # "detector" =>
            \E g : /\ Served(p) = <<g>> /\ EmitCall(g) /\ g.ev = Top(p).ev /\ g.copied
                   /\ ToSet(g.rest) = ToSet(Top(p).rest) \ {k}
  BY <1>1, CallServed
<1>3. e \in Events
  BY <1>1, <1>2, OneCall
<1>4. InFlight(e)
  BY <1>2 DEF InFlight
<1>5. PICK c : /\ frames' = [frames EXCEPT ![p] = c]
               /\ c = Served(p) \/ (/\ k = "detector" /\ ~IsBlock(e)
                                    /\ c = <<Call(BlockOf(e))>> \o Served(p))
  BY DEF Serve, Advance, Responds
<1>6. /\ DOMAIN frames' = Emitters /\ frames'[p] = c
      /\ \A q \in Emitters : q # p => frames'[q] = frames[q]
  BY <1>1, <1>5 DEF FramesInv
<1>7. \A q \in Emitters : q # p => (Idle(q)' <=> Idle(q)) /\ Top(q)' = Top(q)
  BY <1>6 DEF Idle, Top
<1>8. \A f : <<f>> # <<>> /\ <<f>>[1] = f
  OBVIOUS
<1>9. ASSUME c = <<>> \/ \E g : c = <<g>> /\ EmitCall(g)
      PROVE  FramesInv'
  <2>1. ASSUME NEW q \in Emitters PROVE Idle(q)' \/ (frames'[q] = <<Top(q)'>> /\ EmitCall(Top(q)'))
    <3>1. CASE q = p
      BY <1>6, <1>8, <1>9, <3>1 DEF Idle, Top
    <3>2. CASE q # p
      BY <1>1, <1>6, <1>7, <3>2 DEF FramesInv
    <3> QED
      BY <3>1, <3>2
  <2> QED
    BY <1>6, <2>1 DEF FramesInv, EmitCall
<1>10. CASE c = Served(p) /\ k = "detector"
  <2>1. c = <<>>
    BY <1>2, <1>10
  <2>2. Idle(p)'
    BY <1>6, <2>1 DEF Idle
  <2> QED
    BY <1>2, <1>3, <1>4, <1>7, <1>9, <1>10, <2>1, <2>2
<1>11. CASE c = Served(p) /\ k # "detector"
  <2>1. PICK g : /\ c = <<g>> /\ EmitCall(g) /\ g.ev = Top(p).ev /\ g.copied
                 /\ ToSet(g.rest) = ToSet(Top(p).rest) \ {k}
    BY <1>2, <1>11
  <2>2. ~Idle(p)' /\ Top(p)' = g
    BY <1>6, <1>8, <2>1 DEF Idle, Top
  <2>3. FramesInv'
    BY <1>9, <2>1
  <2> QED
    BY <1>2, <1>3, <1>4, <1>7, <1>11, <2>1, <2>2, <2>3
<1>12. CASE k = "detector" /\ ~IsBlock(e) /\ c = <<Call(BlockOf(e))>> \o Served(p)
  <2> DEFINE g == Call(BlockOf(e))
  <2>1. BlockOf(e) \in Events
    BY <1>1, <1>3, <1>4, <1>12, NoBlockYet
  <2>2. c = <<g>> /\ EmitCall(g) /\ g.ev = BlockOf(e) /\ ~g.copied
    BY <1>2, <1>12, <2>1, CallIsNew
  <2> HIDE DEF g
  <2>3. ~Idle(p)' /\ Top(p)' = g
    BY <1>6, <1>8, <2>2 DEF Idle, Top
  <2>4. FramesInv'
    BY <1>9, <2>2
  <2> QED
    BY <1>2, <1>3, <1>4, <1>7, <1>12, <2>2, <2>3, <2>4
<1> QED
  BY <1>5, <1>10, <1>11, <1>12

\* Nothing is forgotten, and only a response is new.
LEMMA ServeTaken ==
  ASSUME FlowInv, NEW p \in Emitters, NEW k \in AllSinks, Serve(p, k),
         NEW e, e = Top(p).ev
  PROVE  /\ Taken \subseteq Taken'
         /\ \A x \in Taken' : x \in Taken \/ (x = BlockOf(e) /\ ~IsBlock(e) /\ k = "detector" /\ InFlight(x)')
         /\ \A x : InFlight(x)' => InFlight(x) \/ (x = BlockOf(e) /\ ~IsBlock(e) /\ k = "detector")
         /\ \A x : InFlight(x) => InFlight(x)' \/ (x = e /\ k = "detector")
         /\ k = "detector" => ~InFlight(e)'
<1>1. FramesInv /\ RecordsInv /\ OneCarrier /\ BlocksFollow
  BY DEF FlowInv
<1>2. /\ FramesInv' /\ ~Idle(p) /\ e \in Events /\ InFlight(e)
      /\ \A q \in Emitters : q # p => (Idle(q)' <=> Idle(q)) /\ Top(q)' = Top(q)
      /\ \/ k = "detector" /\ Idle(p)'
         \/ k # "detector" /\ ~Idle(p)' /\ Top(p)'.ev = e
         \/ k = "detector" /\ ~IsBlock(e) /\ ~Idle(p)' /\ Top(p)'.ev = BlockOf(e)
  BY ServeCalls
<1>3. /\ \A m \in AllSinks : \A x : In(m, x) => In(m, x)'
      /\ \A m \in AllSinks : \A x : In(m, x)' => In(m, x) \/ (m = k /\ x = e)
      /\ failed \subseteq failed' /\ failed' \subseteq failed \cup {<<k, e>>}
      /\ k = "detector" => In("detector", e)'
  BY <1>1, ServeRecords
<1>4. TakenSeen /\ TakenSeen'
  BY <1>1, <1>2, TakenIsSeen, TakenIsSeenNext
<1>5. \A q \in Emitters : q # p /\ ~Idle(q) => Top(q).ev # e
  BY <1>1, <1>2 DEF OneCarrier
<1>6. ~IsBlock(e) => BlockOf(e) # e
  BY <1>1, <1>2, NoBlockYet
<1>7. \A x : InFlight(x)' => InFlight(x) \/ (x = BlockOf(e) /\ ~IsBlock(e) /\ k = "detector")
  BY <1>2 DEF InFlight
<1>8. \A x : InFlight(x) => InFlight(x)' \/ (x = e /\ k = "detector")
  BY <1>2 DEF InFlight
<1>9. k = "detector" => ~InFlight(e)'
  BY <1>2, <1>5, <1>6 DEF InFlight
<1>10. ASSUME NEW x \in Taken PROVE x \in Taken'
  <2>1. x \in Events /\ (InFlight(x) \/ \E m \in AllSinks : In(m, x) \/ <<m, x>> \in failed)
    BY <1>4, <1>10 DEF TakenSeen
  <2>2. InFlight(x)' \/ \E m \in AllSinks : In(m, x)' \/ <<m, x>> \in failed'
    BY <1>3, <1>8, <2>1 DEF AllSinks
  <2> QED
    BY <1>4, <2>1, <2>2 DEF TakenSeen
<1>11. ASSUME NEW x \in Taken'
       PROVE  x \in Taken \/ (x = BlockOf(e) /\ ~IsBlock(e) /\ k = "detector" /\ InFlight(x)')
  <2>1. x \in Events /\ (InFlight(x)' \/ \E m \in AllSinks : In(m, x)' \/ <<m, x>> \in failed')
    BY <1>4, <1>11 DEF TakenSeen
  <2>2. e \in Taken
    BY <1>2, <1>4 DEF TakenSeen
  <2>3. CASE InFlight(x)'
    BY <1>4, <1>7, <2>1, <2>3 DEF TakenSeen
  <2>4. CASE \E m \in AllSinks : In(m, x)' \/ <<m, x>> \in failed'
    <3>1. x = e \/ \E m \in AllSinks : In(m, x) \/ <<m, x>> \in failed
      BY <1>3, <2>4
    <3> QED
      BY <1>4, <2>1, <2>2, <3>1 DEF TakenSeen
  <2> QED
    BY <2>1, <2>3, <2>4
<1> QED
  BY <1>7, <1>8, <1>9, <1>10, <1>11

LEMMA ServeKeepsFlow ==
  ASSUME FlowInv, NEW p \in Emitters, NEW k \in AllSinks, Serve(p, k)
  PROVE  FlowInv'
<1>0. PICK e : e = Top(p).ev
  OBVIOUS
<1>1. /\ BusInv /\ FramesInv /\ RecordsInv /\ NotYet /\ FileFirst /\ OneCarrier /\ BlocksFollow
      /\ NoRepeats /\ InOrder /\ Scored /\ Delivered /\ Numbered
  BY DEF FlowInv
<1>2. /\ FramesInv' /\ ~Idle(p) /\ Top(p).copied /\ e \in Events /\ InFlight(e)
      /\ k = Head(Top(p).rest) /\ k \in ToSet(Top(p).rest) /\ Top(p).rest \in Remainders
      /\ \A q \in Emitters : q # p => (Idle(q)' <=> Idle(q)) /\ Top(q)' = Top(q)
      /\ \/ k = "detector" /\ Idle(p)'
         \/ /\ k # "detector" /\ ~Idle(p)' /\ Top(p)'.ev = e /\ Top(p)'.copied
            /\ ToSet(Top(p)'.rest) = ToSet(Top(p).rest) \ {k}
         \/ /\ k = "detector" /\ ~IsBlock(e)
            /\ ~Idle(p)' /\ Top(p)'.ev = BlockOf(e) /\ ~Top(p)'.copied
  BY <1>0, ServeCalls
<1>3. /\ RecordsInv'
      /\ \A m \in AllSinks : \A x : In(m, x) => In(m, x)'
      /\ \A m \in AllSinks : \A x : In(m, x)' => In(m, x) \/ (m = k /\ x = e)
      /\ k = "detector" => In("detector", e)'
      /\ k = "file" => Recorded(e)'
      /\ \A x : Recorded(x) => Recorded(x)'
  BY <1>0, <1>1, ServeRecords
<1>4. /\ Taken \subseteq Taken'
      /\ \A x \in Taken' : x \in Taken \/ (x = BlockOf(e) /\ ~IsBlock(e) /\ k = "detector" /\ InFlight(x)')
      /\ \A x : InFlight(x)' => InFlight(x) \/ (x = BlockOf(e) /\ ~IsBlock(e) /\ k = "detector")
      /\ \A x : InFlight(x) => InFlight(x)' \/ (x = e /\ k = "detector")
      /\ k = "detector" => ~InFlight(e)'
  BY <1>0, ServeTaken
<1>5. ~IsBlock(e) => /\ BlockOf(e) \in Events /\ BlockOf(e) # e /\ BlockOf(e) \notin Taken
                     /\ ~InFlight(BlockOf(e)) /\ \A m \in AllSinks : ~In(m, BlockOf(e))
  BY <1>1, <1>2, NoBlockYet
<1>6. ~In(k, e)
  BY <1>0, <1>1, <1>2 DEF NotYet
<1>7. \A q \in Emitters : q # p /\ ~Idle(q) => Top(q).ev # e
  BY <1>0, <1>1, <1>2 DEF OneCarrier
<1>8. UNCHANGED <<global, sinks, closing, orderly>>
  BY DEF Serve
<1>9. BusInv'
  BY <1>1, <1>8 DEF BusInv
<1>10. NotYet'
  <2>1. ASSUME NEW q \in Emitters, NEW m \in AllSinks, ~Idle(q)', In(m, Top(q).ev)'
        PROVE  Top(q)'.copied /\ m \notin ToSet(Top(q)'.rest)
    <3>1. CASE q # p
      BY <1>1, <1>2, <1>3, <1>7, <2>1, <3>1 DEF NotYet
    <3>2. CASE q = p
      <4>1. PICK x : x = Top(p)'.ev
        OBVIOUS
      <4>2. In(m, x)'
        BY <2>1, <3>2, <4>1
      <4>3. In(m, x) \/ (m = k /\ x = e)
        BY <1>3, <4>2
      <4>4. CASE k # "detector" /\ x = e /\ Top(p)'.copied /\ ToSet(Top(p)'.rest) = ToSet(Top(p).rest) \ {k}
        BY <1>0, <1>1, <1>2, <3>2, <4>3, <4>4 DEF NotYet
      <4>5. CASE k = "detector" /\ ~IsBlock(e) /\ x = BlockOf(e)
        BY <1>5, <4>3, <4>5
      <4> QED
        BY <1>2, <2>1, <3>2, <4>1, <4>4, <4>5
    <3> QED
      BY <3>1, <3>2
  <2> QED
    BY <2>1 DEF NotYet
<1>11. FileFirst'
  <2>1. ASSUME NEW q \in Emitters, ~Idle(q)', JSONFile, Top(q)'.copied, "file" \notin ToSet(Top(q)'.rest)
        PROVE  Recorded(Top(q).ev)'
    <3>1. CASE q # p
      BY <1>1, <1>2, <1>3, <2>1, <3>1 DEF FileFirst
    <3>2. CASE q = p
      <4>1. Top(p)'.ev = e /\ ("file" \notin ToSet(Top(p).rest) \/ k = "file")
        BY <1>2, <2>1, <3>2
      <4>2. "file" \notin ToSet(Top(p).rest) => Recorded(e)
        BY <1>0, <1>1, <1>2, <2>1 DEF FileFirst
      <4>3. Recorded(e)'
        BY <1>3, <4>1, <4>2
      <4> QED
        BY <3>2, <4>1, <4>3
    <3> QED
      BY <3>1, <3>2
  <2> QED
    BY <2>1 DEF FileFirst
<1>12. OneCarrier'
  <2>1. \A q \in Emitters : q # p /\ ~Idle(q) => Top(q).ev # Top(p)'.ev \/ Idle(p)'
    BY <1>2, <1>5, <1>7 DEF InFlight
  <2> QED
    BY <1>1, <1>2, <2>1 DEF OneCarrier
<1>13. BlocksFollow'
  <2>1. ASSUME NEW x \in Events, BlockOf(x) \in Taken'
        PROVE  In("detector", x)' /\ ~InFlight(x)'
    <3>1. "detector" \in AllSinks
      BY DEF AllSinks
    <3>2. CASE BlockOf(x) \in Taken
      <4>1. In("detector", x) /\ ~InFlight(x)
        BY <1>1, <3>2 DEF BlocksFollow
      <4>2. x # BlockOf(e)
        <5>1. BlockOf(x) \in Events
          BY <3>2 DEF Taken
        <5> QED
          BY <1>2, <5>1, EventBusAssumption DEF BlockOf, Events
      <4> QED
        BY <1>3, <1>4, <3>1, <4>1, <4>2
    <3>3. CASE BlockOf(x) = BlockOf(e) /\ k = "detector"
      <4>1. x = e
        BY <1>2, <3>3, EventBusAssumption DEF BlockOf, Events
      <4> QED
        BY <1>3, <1>4, <3>3, <4>1
    <3> QED
      BY <1>4, <2>1, <3>2, <3>3
  <2> QED
    BY <2>1 DEF BlocksFollow, BlockOf, Events
<1>14. NoRepeats' /\ InOrder'
  <2>1. CASE Accept(k, e)
    <3>1. written' = [written EXCEPT ![k] = Append(@, e)]
      BY <2>1 DEF Accept
    <3> QED
      BY <1>1, <1>2, <1>5, <1>6, <3>1, RecordStaysCoherent
  <2>2. CASE written' = written
    BY <1>1, <2>2 DEF NoRepeats, InOrder
  <2> QED
    BY <1>0, <2>1, <2>2 DEF Serve, Wrote, Fail
<1>15. Scored'
  <2>1. ASSUME JSONFile, NEW x \in Events, In("detector", x)' PROVE Recorded(x)'
    <3>1. "detector" \in AllSinks
      BY DEF AllSinks
    <3>2. CASE In("detector", x)
      BY <1>1, <1>3, <2>1, <3>2 DEF Scored
    <3>3. CASE k = "detector" /\ x = e
      <4>1. "file" \notin ToSet(Top(p).rest)
        BY <1>2, <2>1, <3>3, RemainderFacts
      <4>2. Recorded(e)
        BY <1>0, <1>1, <1>2, <2>1, <4>1 DEF FileFirst
      <4> QED
        BY <1>3, <3>3, <4>2
    <3> QED
      BY <1>3, <2>1, <3>1, <3>2, <3>3
  <2> QED
    BY <2>1 DEF Scored
<1>16. Delivered'
  <2>1. ASSUME closing = "no", NEW x \in Taken' PROVE In("detector", x)' \/ InFlight(x)'
    <3>1. "detector" \in AllSinks
      BY DEF AllSinks
    <3>2. CASE x \in Taken
      BY <1>1, <1>3, <1>4, <2>1, <3>1, <3>2 DEF Delivered
    <3>3. CASE x \notin Taken
      BY <1>4, <2>1, <3>3
    <3> QED
      BY <3>2, <3>3
  <2> QED
    BY <1>8, <2>1 DEF Delivered
<1>17. Numbered'
  <2>1. ~IsBlock(e) => IsBlock(BlockOf(e))
    BY <1>2, EventBusAssumption DEF IsBlock, BlockOf, Events
  <2>2. \A x : x \in Emitted' <=> x \in Emitted
    BY <1>4, <2>1 DEF Emitted, IsBlock
  <2>3. Emitted' = Emitted
    BY <2>2 DEF Emitted
  <2> QED
    BY <1>1, <1>8, <2>3 DEF Numbered
<1> QED
  BY <1>2, <1>3, <1>9, <1>10, <1>11, <1>12, <1>13, <1>14, <1>15, <1>16, <1>17 DEF FlowInv

-----------------------------------------------------------------------------
(* The other steps of the bus.                                             *)

\* Steps that touch neither the calls nor the records.
LEMMA QuietKeepsFlow ==
  ASSUME FlowInv, BusInv', UNCHANGED <<frames, written, failed>>, closing' = "no" => closing = "no"
  PROVE  FlowInv'
<1>1. FramesInv' /\ RecordsInv' /\ NotYet' /\ FileFirst' /\ OneCarrier'
  BY DEF FlowInv, FramesInv, RecordsInv, NotYet, FileFirst, OneCarrier, Idle, Top, EmitCall, In,
         Recorded
<1>2. Taken' = Taken
  BY DEF Taken
<1>3. \A e : /\ InFlight(e)' <=> InFlight(e)
             /\ \A k \in AllSinks : In(k, e)' <=> In(k, e)
             /\ Recorded(e)' <=> Recorded(e)
  BY DEF InFlight, Idle, Top, In, Recorded
<1>4. "detector" \in AllSinks
  BY DEF AllSinks
<1>5. BlocksFollow' /\ Scored' /\ Delivered'
  BY <1>2, <1>3, <1>4 DEF FlowInv, BlocksFollow, Scored, Delivered
<1>6. NoRepeats' /\ InOrder'
  BY DEF FlowInv, NoRepeats, InOrder
<1>7. Numbered'
  BY <1>2 DEF FlowInv, Numbered, Emitted
<1> QED
  BY <1>1, <1>5, <1>6, <1>7 DEF FlowInv

\* The next number is fresh.
LEMMA EmitIsFresh ==
  ASSUME FlowInv, NEW p \in Emitters, NEW e \in 1 .. MaxEvents, Emit(p, e)
  PROVE  closing = "no" /\ e \in Events /\ ~IsBlock(e) /\ e \notin Taken /\ Emitted = 1 .. e - 1
<1>1. closing = "no"
  BY DEF FlowInv, BusInv, Emit
<1>2. PICK n \in 0 .. MaxEvents : Emitted = 1 .. n
  BY <1>1 DEF FlowInv, Numbered
<1>3. MaxEvents \in Nat /\ n \in Nat
  BY EventBusAssumption
<1>4. Cardinality(1 .. n) = n
  <2>1. Cardinality(1 .. n) = IF 1 > n THEN 0 ELSE n - 1 + 1
    BY <1>3, FS_Interval
  <2> QED
    BY <1>3, <2>1
<1>5. e = n + 1
  BY <1>2, <1>4 DEF Emit
<1>6. e \notin Emitted /\ e \in Events /\ ~IsBlock(e)
  BY <1>2, <1>3, <1>5 DEF Events, IsBlock
<1>7. Emitted = 1 .. e - 1
  BY <1>2, <1>3, <1>5
<1> QED
  BY <1>1, <1>6, <1>7 DEF Emitted

LEMMA EmitKeepsFlow ==
  ASSUME FlowInv, NEW p \in Emitters, NEW e \in 1 .. MaxEvents, Emit(p, e)
  PROVE  FlowInv'
<1>1. /\ BusInv /\ FramesInv /\ RecordsInv /\ NotYet /\ FileFirst /\ OneCarrier /\ BlocksFollow
      /\ NoRepeats /\ InOrder /\ Scored /\ Delivered /\ Numbered
  BY DEF FlowInv
<1>2. closing = "no" /\ e \in Events /\ ~IsBlock(e) /\ e \notin Taken /\ Emitted = 1 .. e - 1
  BY EmitIsFresh
<1>3. /\ UNCHANGED <<written, failed, global, sinks, closing, orderly>>
      /\ Idle(p) /\ frames' = [frames EXCEPT ![p] = <<Call(e)>>]
  <2>1. <<Call(e)>> \o <<>> = <<Call(e)>>
    BY <1>2, CallIsNew
  <2> QED
    BY <2>1 DEF Emit, Push, Idle
<1>4. EmitCall(Call(e)) /\ Call(e).ev = e /\ ~Call(e).copied
  BY <1>2, CallIsNew
<1>5. /\ DOMAIN frames' = Emitters /\ frames'[p] = <<Call(e)>>
      /\ \A q \in Emitters : q # p => frames'[q] = frames[q]
  BY <1>1, <1>3 DEF FramesInv
<1>6. /\ ~Idle(p)' /\ Top(p)' = Call(e)
      /\ \A q \in Emitters : q # p => (Idle(q)' <=> Idle(q)) /\ Top(q)' = Top(q)
  <2>1. \A f : <<f>> # <<>> /\ <<f>>[1] = f
    OBVIOUS
  <2> QED
    BY <1>5, <2>1 DEF Idle, Top
<1>7. FramesInv'
  <2>1. ASSUME NEW q \in Emitters PROVE Idle(q)' \/ (frames'[q] = <<Top(q)'>> /\ EmitCall(Top(q)'))
    <3>1. CASE q = p
      BY <1>4, <1>5, <1>6, <3>1
    <3>2. CASE q # p
      BY <1>1, <1>5, <1>6, <3>2 DEF FramesInv
    <3> QED
      BY <3>1, <3>2
  <2> QED
    BY <1>5, <2>1 DEF FramesInv, EmitCall
<1> HIDE DEF Call
<1>8. /\ \A m \in AllSinks : \A x : In(m, x)' <=> In(m, x)
      /\ \A x : Recorded(x)' <=> Recorded(x)
  BY <1>3 DEF In, Recorded
<1>9. \A x : InFlight(x)' <=> InFlight(x) \/ x = e
  BY <1>3, <1>4, <1>6 DEF InFlight
<1>10. TakenSeen /\ TakenSeen'
  BY <1>1, <1>7, TakenIsSeen, TakenIsSeenNext
<1>11. \A x : x \in Taken' <=> x \in Taken \/ x = e
  BY <1>2, <1>3, <1>8, <1>9, <1>10 DEF TakenSeen
<1>12. ~InFlight(e) /\ \A m \in AllSinks : ~In(m, e)
  BY <1>2, <1>10 DEF TakenSeen
<1>13. BusInv' /\ RecordsInv' /\ NoRepeats' /\ InOrder'
  BY <1>1, <1>3 DEF BusInv, RecordsInv, NoRepeats, InOrder
<1>14. NotYet'
  <2>1. ASSUME NEW q \in Emitters, NEW m \in AllSinks, ~Idle(q)', In(m, Top(q).ev)'
        PROVE  Top(q)'.copied /\ m \notin ToSet(Top(q)'.rest)
    <3>1. In(m, Top(q)'.ev)
      BY <1>3, <2>1 DEF In
    <3>2. CASE q # p
      BY <1>1, <1>6, <2>1, <3>1, <3>2 DEF NotYet
    <3>3. CASE q = p
      BY <1>4, <1>6, <1>12, <3>1, <3>3
    <3> QED
      BY <3>2, <3>3
  <2> QED
    BY <2>1 DEF NotYet
<1>15. FileFirst'
  BY <1>1, <1>4, <1>6, <1>8 DEF FileFirst
<1>16. OneCarrier'
  BY <1>1, <1>4, <1>6, <1>12 DEF OneCarrier, InFlight
<1>17. BlocksFollow'
  <2>1. ASSUME NEW x \in Events, BlockOf(x) \in Taken' PROVE In("detector", x)' /\ ~InFlight(x)'
    <3>1. "detector" \in AllSinks
      BY DEF AllSinks
    <3>2. BlockOf(x) # e
      BY EventBusAssumption DEF BlockOf, Events
    <3>3. In("detector", x) /\ ~InFlight(x)
      BY <1>1, <1>11, <2>1, <3>2 DEF BlocksFollow
    <3> QED
      BY <1>8, <1>9, <1>12, <3>1, <3>3
  <2> QED
    BY <2>1 DEF BlocksFollow, BlockOf, Events
<1>18. Scored'
  BY <1>1, <1>8 DEF Scored, AllSinks
<1>19. Delivered'
  BY <1>1, <1>3, <1>8, <1>9, <1>11 DEF Delivered, AllSinks
<1>20. Numbered'
  <2>1. \A x : x \in Emitted' <=> x \in Emitted \/ x = e
    BY <1>2, <1>11 DEF Emitted, IsBlock
  <2>2. Emitted' = 1 .. e
    <3>1. MaxEvents \in Nat /\ e \in Nat /\ 1 <= e
      BY EventBusAssumption
    <3>2. \A x : x \in 1 .. e <=> x \in 1 .. e - 1 \/ x = e
      BY <3>1
    <3>3. \A x : x \in Emitted' <=> x \in 1 .. e
      BY <1>2, <2>1, <3>2
    <3> QED
      BY <3>3, Zenon
  <2>3. e \in 0 .. MaxEvents
    OBVIOUS
  <2> QED
    BY <2>2, <2>3 DEF Numbered
<1> QED
  BY <1>7, <1>13, <1>14, <1>15, <1>16, <1>17, <1>18, <1>19, <1>20 DEF FlowInv

\* Bus.Emit has its copy of the list, or finds the bus closed and returns.
LEMMA CopyCalls ==
  ASSUME FlowInv, NEW p \in Emitters, Copy(p)
  PROVE  /\ FramesInv' /\ ~Idle(p) /\ ~Top(p).copied
         /\ \A q \in Emitters : q # p => (Idle(q)' <=> Idle(q)) /\ Top(q)' = Top(q)
         /\ \/ closing = "done" /\ Idle(p)'
            \/ ~Idle(p)' /\ Top(p)'.ev = Top(p).ev /\ Top(p)'.copied /\ Top(p)'.rest = SinkOrder
<1> DEFINE f == Top(p)
           g == [f EXCEPT !.copied = TRUE, !.rest = sinks]
<1>1. /\ FramesInv /\ ~Idle(p) /\ ~f.copied
      /\ frames' = [frames EXCEPT ![p] = Returned([frames[p] EXCEPT ![1].copied = TRUE, ![1].rest = sinks])]
  BY DEF FlowInv, Copy, Idle
<1>2. frames[p] = <<f>> /\ EmitCall(f)
  BY <1>1, OneCall
<1>3. f \in [ev : Events, copied : BOOLEAN, rest : Remainders \cup {<<>>}]
  BY <1>2 DEF EmitCall
<1>4. sinks \in {SinkOrder, <<>>} /\ (sinks = <<>> => closing = "done")
  <2>1. SinkOrder # <<>>
    BY WholeListRemains
  <2> QED
    BY <2>1 DEF FlowInv, BusInv, Copy
<1>5. sinks \in Remainders \cup {<<>>}
  BY <1>4, WholeListRemains
<1>6. [frames[p] EXCEPT ![1].copied = TRUE, ![1].rest = sinks] = <<g>>
  <2>1. frames[p][1] = f
    BY DEF Top
  <2> HIDE DEF f
  <2>2. PICK c : c = f
    OBVIOUS
  <2>3. [<<c>> EXCEPT ![1].copied = TRUE, ![1].rest = sinks] = <<[c EXCEPT !.copied = TRUE, !.rest = sinks]>>
    OBVIOUS
  <2> QED
    BY ONLY <1>2, <2>2, <2>3 DEF g
<1>7. g.ev = f.ev /\ g.copied /\ g.rest = sinks
      /\ g \in [ev : Events, copied : BOOLEAN, rest : Remainders \cup {<<>>}]
  BY <1>3, <1>5
<1>8. frames' = [frames EXCEPT ![p] = Returned(<<g>>)]
  BY ONLY <1>1, <1>6
<1> HIDE DEF f, g
<1>9. Returned(<<g>>) = IF sinks = <<>> THEN <<>> ELSE <<g>>
  <2>1. Tail(<<g>>) = <<>> /\ <<g>>[1] = g
    OBVIOUS
  <2> QED
    BY <1>7, <2>1 DEF Returned
<1>10. /\ DOMAIN frames' = Emitters /\ frames'[p] = (IF sinks = <<>> THEN <<>> ELSE <<g>>)
       /\ \A q \in Emitters : q # p => frames'[q] = frames[q]
  BY <1>1, <1>8, <1>9 DEF FramesInv
<1>11. \A q \in Emitters : q # p => (Idle(q)' <=> Idle(q)) /\ Top(q)' = Top(q)
  BY <1>10 DEF Idle, Top
<1>12. sinks = <<>> => Idle(p)'
  BY <1>10 DEF Idle
<1>13. sinks # <<>> => ~Idle(p)' /\ Top(p)' = g /\ EmitCall(g)
  <2>1. \A x : <<x>> # <<>> /\ <<x>>[1] = x
    OBVIOUS
  <2>2. ASSUME sinks # <<>> PROVE EmitCall(g)
    BY <1>4, <1>7, <2>2, WholeListRemains DEF EmitCall
  <2> QED
    BY <1>10, <2>1, <2>2 DEF Idle, Top
<1>14. FramesInv'
  <2>1. ASSUME NEW q \in Emitters PROVE Idle(q)' \/ (frames'[q] = <<Top(q)'>> /\ EmitCall(Top(q)'))
    <3>1. CASE q = p
      BY <1>10, <1>12, <1>13, <3>1
    <3>2. CASE q # p
      BY <1>1, <1>10, <1>11, <3>2 DEF FramesInv
    <3> QED
      BY <3>1, <3>2
  <2> QED
    BY <1>10, <2>1 DEF FramesInv, EmitCall
<1> QED
  BY <1>1, <1>4, <1>7, <1>11, <1>12, <1>13, <1>14 DEF f

LEMMA CopyKeepsFlow ==
  ASSUME FlowInv, NEW p \in Emitters, Copy(p)
  PROVE  FlowInv'
<1>1. /\ BusInv /\ FramesInv /\ RecordsInv /\ NotYet /\ FileFirst /\ OneCarrier /\ BlocksFollow
      /\ NoRepeats /\ InOrder /\ Scored /\ Delivered /\ Numbered
  BY DEF FlowInv
<1>2. /\ FramesInv' /\ ~Idle(p) /\ ~Top(p).copied
      /\ \A q \in Emitters : q # p => (Idle(q)' <=> Idle(q)) /\ Top(q)' = Top(q)
      /\ \/ closing = "done" /\ Idle(p)'
         \/ ~Idle(p)' /\ Top(p)'.ev = Top(p).ev /\ Top(p)'.copied /\ Top(p)'.rest = SinkOrder
  BY CopyCalls
<1>3. UNCHANGED <<written, failed, global, sinks, closing, orderly>>
  BY DEF Copy
<1>4. /\ \A m \in AllSinks : \A x : In(m, x)' <=> In(m, x)
      /\ \A x : Recorded(x)' <=> Recorded(x)
  BY <1>3 DEF In, Recorded
<1>5. /\ \A x : InFlight(x)' => InFlight(x)
      /\ closing # "done" => \A x : InFlight(x) => InFlight(x)'
  BY <1>2 DEF InFlight
<1>6. TakenSeen /\ TakenSeen'
  BY <1>1, <1>2, TakenIsSeen, TakenIsSeenNext
<1>7. /\ Taken' \subseteq Taken
      /\ closing # "done" => Taken' = Taken
  <2>1. \A x : x \in Taken' => x \in Taken
    BY <1>3, <1>4, <1>5, <1>6 DEF TakenSeen
  <2>2. closing # "done" => \A x : x \in Taken => x \in Taken'
    BY <1>3, <1>4, <1>5, <1>6 DEF TakenSeen
  <2> QED
    BY <2>1, <2>2
<1>8. BusInv' /\ RecordsInv' /\ NoRepeats' /\ InOrder' /\ Scored'
  <2>1. BusInv' /\ RecordsInv' /\ NoRepeats' /\ InOrder'
    BY <1>1, <1>3 DEF BusInv, RecordsInv, NoRepeats, InOrder
  <2>2. Scored'
    BY <1>1, <1>4 DEF Scored, AllSinks
  <2> QED
    BY <2>1, <2>2
<1>9. NotYet'
  <2>1. ASSUME NEW q \in Emitters, NEW m \in AllSinks, ~Idle(q)', In(m, Top(q).ev)'
        PROVE  Top(q)'.copied /\ m \notin ToSet(Top(q)'.rest)
    <3>1. In(m, Top(q)'.ev)
      BY <1>3, <2>1 DEF In
    <3>2. CASE q # p
      BY <1>1, <1>2, <2>1, <3>1, <3>2 DEF NotYet
    <3>3. CASE q = p
      BY <1>1, <1>2, <2>1, <3>1, <3>3 DEF NotYet
    <3> QED
      BY <3>2, <3>3
  <2> QED
    BY <2>1 DEF NotYet
<1>10. FileFirst'
  BY <1>1, <1>2, <1>4, WholeListRemains DEF FileFirst
<1>11. OneCarrier'
  BY <1>1, <1>2 DEF OneCarrier
<1>12. BlocksFollow'
  <2>1. ASSUME NEW x \in Events, BlockOf(x) \in Taken' PROVE In("detector", x)' /\ ~InFlight(x)'
    BY <1>1, <1>4, <1>5, <1>7, <2>1 DEF BlocksFollow, AllSinks
  <2> QED
    BY <2>1 DEF BlocksFollow, BlockOf, Events
<1>13. Delivered'
  BY <1>1, <1>3, <1>4, <1>5, <1>7 DEF Delivered, AllSinks
<1>14. Numbered'
  <2>1. closing # "done" => Emitted' = Emitted
    BY <1>7 DEF Emitted, IsBlock
  <2> QED
    BY <1>1, <1>3, <2>1 DEF Numbered
<1> QED
  BY <1>2, <1>8, <1>9, <1>10, <1>11, <1>12, <1>13, <1>14 DEF FlowInv

\* Every way out of SyslogSink.Write, and the writes of the other sinks, serve
\* one sink.
LEMMA WritesServe ==
  ASSUME LockInv, NEW p \in Emitters
  PROVE  /\ FileWrite(p) => Serve(p, "file")
         /\ RingWrite(p) => Serve(p, "ring")
         /\ DetectorWrite(p) => Serve(p, "detector")
         /\ SyslogDial(p) \/ SyslogSend(p) \/ SyslogSendStale(p) =>
              \/ Serve(p, "syslog") /\ mu' = {}
              \/ UNCHANGED <<frames, written, failed, mu, global, sinks, closing, orderly>>
<1>1. FileWrite(p) => Serve(p, "file")
  BY DEF FileWrite, Serve, Wrote
<1>2. RingWrite(p) => Serve(p, "ring")
  BY DEF RingWrite, Serve, Wrote
<1>3. DetectorWrite(p) => Serve(p, "detector")
  BY DEF DetectorWrite, Serve, Wrote, Responds
<1>4. ASSUME mu = {p} PROVE AtSink(p, "syslog")
  <2>1. \E q \in Emitters : mu = {q} /\ AtSink(q, "syslog")
    BY <1>4 DEF LockInv
  <2> QED
    BY <1>4, <2>1
<1>5. SyslogDial(p) => \/ Serve(p, "syslog") /\ mu' = {}
                       \/ UNCHANGED <<frames, written, failed, mu, global, sinks, closing, orderly>>
  BY <1>4 DEF SyslogDial, Serve, Wrote, Unlock
<1>6. SyslogSend(p) => Serve(p, "syslog") /\ mu' = {}
  BY <1>4 DEF SyslogSend, Serve, Wrote, Unlock
<1>7. SyslogSendStale(p) => \/ Serve(p, "syslog") /\ mu' = {}
                            \/ UNCHANGED <<frames, written, failed, mu, global, sinks, closing, orderly>>
  BY <1>4 DEF SyslogSendStale, Serve, Wrote, Unlock
<1> QED
  BY <1>1, <1>2, <1>3, <1>5, <1>6, <1>7

-----------------------------------------------------------------------------
(* CloseGlobal and Bus.Close.                                              *)

\* Bus.Close goes through the list in order.
LEMMA CloseTurn ==
  ASSUME BusInv, CloseInv, CloseSink
  PROVE  \E i \in 1 .. N :
           /\ closing = SinkOrder[i] /\ sinks = SinkOrder
           /\ \/ i < N /\ closing' = SinkOrder[i + 1] /\ sinks' = sinks
              \/ i = N /\ closing' = "done" /\ sinks' = <<>>
           /\ orderly => /\ \A p \in Emitters : Idle(p)
                         /\ \A j \in 1 .. i - 1 : /\ SinkOrder[j] = "file" => ~fileOpen
                                                  /\ SinkOrder[j] = "syslog" => conn = "none"
<1>1. closing \in AllSinks /\ sinks = SinkOrder /\ closing # "no" /\ closing # "done"
  BY DEF BusInv, CloseSink, AllSinks
<1>2. PICK i \in 1 .. N + 1 :
            /\ closing = IF i <= N THEN SinkOrder[i] ELSE "done"
            /\ orderly => /\ \A p \in Emitters : Idle(p)
                          /\ \A j \in 1 .. i - 1 : /\ SinkOrder[j] = "file" => ~fileOpen
                                                   /\ SinkOrder[j] = "syslog" => conn = "none"
  BY <1>1 DEF CloseInv
<1>3. N \in Nat /\ \A a, b \in 1 .. N : SinkOrder[a] = SinkOrder[b] => a = b
  BY SinkOrderFacts
<1>4. i \in 1 .. N /\ closing = SinkOrder[i]
  BY <1>1, <1>2, <1>3
<1>5. DOMAIN sinks = 1 .. N /\ Len(sinks) = N
  BY <1>1, SinkOrderFacts, LenProperties DEF N
<1> DEFINE c == CHOOSE a \in DOMAIN sinks : sinks[a] = closing
<1>6. c \in 1 .. N /\ SinkOrder[c] = closing
  BY <1>1, <1>4, <1>5
<1>7. c = i
  BY <1>3, <1>4, <1>6
<1>8. IF c < Len(sinks) THEN closing' = sinks[c + 1] /\ UNCHANGED sinks
                        ELSE closing' = "done" /\ sinks' = <<>>
  BY DEF CloseSink
<1> HIDE DEF c
<1>9. \/ i < N /\ closing' = SinkOrder[i + 1] /\ sinks' = sinks
      \/ i = N /\ closing' = "done" /\ sinks' = <<>>
  BY <1>1, <1>3, <1>4, <1>5, <1>7, <1>8
<1> QED
  BY <1>1, <1>2, <1>4, <1>9

LEMMA CloseGlobalTurn ==
  ASSUME BusInv, CloseGlobal
  PROVE  /\ closing = "no" /\ sinks = SinkOrder /\ sinks' = sinks /\ closing' = SinkOrder[1]
         /\ closing' \in AllSinks
<1>1. closing = "no" /\ sinks = SinkOrder /\ sinks' = sinks /\ closing' = FirstOpen
  BY DEF BusInv, CloseGlobal
<1>2. SinkOrder # <<>> /\ Head(SinkOrder) = SinkOrder[1]
  BY WholeListRemains, SinkOrderFacts
<1>3. SinkOrder[1] \in AllSinks
  BY SinkOrderFacts
<1> QED
  BY <1>1, <1>2, <1>3 DEF FirstOpen

LEMMA ClosingKeepsFlow ==
  ASSUME FlowInv, CloseInv, CloseGlobal \/ CloseSink
  PROVE  FlowInv'
<1>1. BusInv /\ "no" \notin AllSinks /\ "done" \notin AllSinks
  BY DEF FlowInv, AllSinks
<1>2. UNCHANGED <<frames, written, failed>>
  BY DEF CloseGlobal, CloseSink
<1>3. CASE CloseGlobal
  <2>1. closing' \in AllSinks /\ sinks' = SinkOrder /\ global' = FALSE /\ orderly' \in BOOLEAN
    BY <1>1, <1>3, CloseGlobalTurn DEF CloseGlobal
  <2>2. BusInv'
    BY <1>1, <2>1 DEF BusInv
  <2>3. closing' # "no"
    BY <1>1, <2>1
  <2> QED
    BY <1>2, <2>2, <2>3, QuietKeepsFlow
<1>4. CASE CloseSink
  <2>1. closing \in AllSinks /\ global' = global /\ orderly' = orderly
    BY <1>4 DEF CloseSink
  <2>2. ~global
    BY <1>1, <2>1 DEF BusInv
  <2>3. PICK i \in 1 .. N : /\ closing = SinkOrder[i] /\ sinks = SinkOrder
           /\ \/ i < N /\ closing' = SinkOrder[i + 1] /\ sinks' = sinks
              \/ i = N /\ closing' = "done" /\ sinks' = <<>>
    BY <1>1, <1>4, CloseTurn
  <2>4. \/ closing' \in AllSinks /\ sinks' = SinkOrder
        \/ closing' = "done" /\ sinks' = <<>>
    <3>1. i < N => i + 1 \in 1 .. N
      BY SinkOrderFacts
    <3> QED
      BY <2>3, <3>1, SinkOrderFacts
  <2>5. BusInv' /\ closing' # "no"
    BY <1>1, <2>1, <2>2, <2>4 DEF BusInv
  <2> QED
    BY <1>2, <2>5, QuietKeepsFlow
<1> QED
  BY <1>3, <1>4

\* Bus.Close closes what it passes.
LEMMA ClosingKeepsClosed ==
  ASSUME BusInv, CloseInv, CloseGlobal \/ CloseSink
  PROVE  CloseInv'
<1>1. N \in Nat /\ N >= 1
  BY SinkOrderFacts
<1>2. CASE CloseGlobal
  <2>1. closing' = SinkOrder[1]
    BY <1>2, CloseGlobalTurn
  <2>2. UNCHANGED <<frames, conn, fileOpen>> /\ (orderly' => \A p \in Emitters : Idle(p)')
    BY <1>2 DEF CloseGlobal, syslog, Idle
  <2>3. /\ 1 \in 1 .. N + 1 /\ closing' = (IF 1 <= N THEN SinkOrder[1] ELSE "done")
        /\ \A j \in 1 .. 1 - 1 : FALSE
    BY <1>1, <2>1
  <2> QED
    BY <2>2, <2>3 DEF CloseInv
<1>3. CASE CloseSink
  <2>1. PICK i \in 1 .. N :
           /\ closing = SinkOrder[i]
           /\ \/ i < N /\ closing' = SinkOrder[i + 1]
              \/ i = N /\ closing' = "done"
           /\ orderly => /\ \A p \in Emitters : Idle(p)
                         /\ \A j \in 1 .. i - 1 : /\ SinkOrder[j] = "file" => ~fileOpen
                                                  /\ SinkOrder[j] = "syslog" => conn = "none"
    BY <1>3, CloseTurn
  <2>2. /\ orderly' = orderly /\ frames' = frames
        /\ fileOpen' = (fileOpen /\ closing # "file")
        /\ conn' = IF closing = "syslog" THEN "none" ELSE conn
    BY <1>3 DEF CloseSink, ConnAfter
  <2>3. fileOpen' \in BOOLEAN /\ (fileOpen' => JSONFile) /\ (~Syslog => conn' = "none")
    BY <2>2 DEF CloseInv
  <2>4. i + 1 \in 1 .. N + 1 /\ closing' = IF i + 1 <= N THEN SinkOrder[i + 1] ELSE "done"
    BY <1>1, <2>1
  <2>5. ASSUME orderly'
        PROVE  /\ \A p \in Emitters : Idle(p)'
               /\ \A j \in 1 .. (i + 1) - 1 : /\ SinkOrder[j] = "file" => ~fileOpen'
                                              /\ SinkOrder[j] = "syslog" => conn' = "none"
    <3>1. \A p \in Emitters : Idle(p)'
      BY <2>1, <2>2, <2>5 DEF Idle
    <3>2. \A j \in 1 .. (i + 1) - 1 : j \in 1 .. i - 1 \/ j = i
      BY <1>1
    <3>3. \A j \in 1 .. (i + 1) - 1 : /\ SinkOrder[j] = "file" => ~fileOpen'
                                      /\ SinkOrder[j] = "syslog" => conn' = "none"
      BY <2>1, <2>2, <2>5, <3>2
    <3> QED
      BY <3>1, <3>3
  <2> QED
    BY <2>3, <2>4, <2>5 DEF CloseInv
<1> QED
  BY <1>2, <1>3

\* The other steps reopen nothing behind an orderly Close.
LEMMA OthersKeepClosed ==
  ASSUME CloseInv, UNCHANGED <<closing, orderly, fileOpen>>,
         conn' # conn => Syslog,
         closing # "no" /\ orderly /\ (\A p \in Emitters : Idle(p)) =>
            frames' = frames /\ (conn = "none" => conn' = "none")
  PROVE  CloseInv'
<1>1. fileOpen' \in BOOLEAN /\ (fileOpen' => JSONFile) /\ (~Syslog => conn' = "none")
  BY DEF CloseInv
<1>2. ASSUME closing # "no"
      PROVE \E i \in 1 .. N + 1 :
            /\ closing = IF i <= N THEN SinkOrder[i] ELSE "done"
            /\ orderly => /\ \A p \in Emitters : Idle(p)'
                          /\ \A j \in 1 .. i - 1 : /\ SinkOrder[j] = "file" => ~fileOpen
                                                   /\ SinkOrder[j] = "syslog" => conn' = "none"
  <2>1. PICK i \in 1 .. N + 1 :
            /\ closing = IF i <= N THEN SinkOrder[i] ELSE "done"
            /\ orderly => /\ \A p \in Emitters : Idle(p)
                          /\ \A j \in 1 .. i - 1 : /\ SinkOrder[j] = "file" => ~fileOpen
                                                   /\ SinkOrder[j] = "syslog" => conn = "none"
    BY <1>2 DEF CloseInv
  <2>2. orderly => frames' = frames /\ (conn = "none" => conn' = "none")
    BY <1>2, <2>1
  <2>3. orderly => /\ \A p \in Emitters : Idle(p)'
                   /\ \A j \in 1 .. i - 1 : /\ SinkOrder[j] = "file" => ~fileOpen
                                            /\ SinkOrder[j] = "syslog" => conn' = "none"
    BY <2>1, <2>2 DEF Idle
  <2> QED
    BY <2>1, <2>3
<1> QED
  BY <1>1, <1>2 DEF CloseInv

-----------------------------------------------------------------------------
(* SyslogSink.mu and the ring.                                             *)

LEMMA LockStays ==
  ASSUME LockInv, mu' = mu, \A q \in Emitters : AtSink(q, "syslog") => frames'[q] = frames[q]
  PROVE  LockInv'
  BY DEF LockInv, AtSink, Top

LEMMA RingGrows ==
  ASSUME RecordsInv, RingInv, NEW e \in Events,
         written' = [written EXCEPT !["ring"] = Append(@, e)], ring' = Trim(Append(ring, e))
  PROVE  RingInv'
<1> DEFINE w == written["ring"]
           v == Append(w, e)
           r == Append(ring, e)
           L == Len(w)
           M == Len(ring)
<1>1. /\ ring \in Seq(Events) /\ M <= L /\ M <= RingMax
      /\ \A i \in 1 .. M : ring[i] = w[L - M + i]
  BY DEF RingInv
<1>2. w \in Seq(Events) /\ written'["ring"] = v
  BY DEF RecordsInv, AllSinks
<1>3. L \in Nat /\ M \in Nat /\ RingMax \in Nat /\ RingMax >= 1
  BY <1>1, <1>2, LenProperties, EventBusAssumption
<1>4. Len(v) = L + 1 /\ v[L + 1] = e /\ \A i \in 1 .. L : v[i] = w[i]
  BY <1>2, AppendProperties
<1>5. r \in Seq(Events) /\ Len(r) = M + 1 /\ r[M + 1] = e /\ \A i \in 1 .. M : r[i] = ring[i]
  BY <1>1, AppendProperties
<1>6. ring' = IF Len(r) > RingMax THEN SubSeq(r, Len(r) - RingMax + 1, Len(r)) ELSE r
  BY DEF Trim
<1>7. RingInv' <=> /\ ring' \in Seq(Events) /\ Len(ring') <= Len(v) /\ Len(ring') <= RingMax
                   /\ \A i \in 1 .. Len(ring') : ring'[i] = v[Len(v) - Len(ring') + i]
  BY <1>2 DEF RingInv
<1> HIDE DEF w, v, r, L, M
<1>8. \A i \in 1 .. M + 1 : r[i] = v[L - M + i]
  <2>1. ASSUME NEW i \in 1 .. M PROVE r[i] = v[L - M + i]
    <3>1. L - M + i \in 1 .. L
      BY <1>1, <1>3
    <3> QED
      BY <1>1, <1>4, <1>5, <3>1
  <2>2. r[M + 1] = v[L - M + (M + 1)]
    <3>1. L - M + (M + 1) = L + 1
      BY <1>3
    <3> QED
      BY <1>4, <1>5, <3>1
  <2>3. \A i \in 1 .. M + 1 : i \in 1 .. M \/ i = M + 1
    BY <1>3
  <2> QED
    BY <2>1, <2>2, <2>3
<1>9. CASE M + 1 > RingMax
  <2>1. M = RingMax /\ ring' = SubSeq(r, 2, M + 1)
    <3>1. M = RingMax
      BY <1>1, <1>3, <1>9
    <3>2. Len(r) = M + 1 /\ Len(r) > RingMax /\ Len(r) - RingMax + 1 = 2
      BY <1>3, <1>5, <1>9, <3>1
    <3> QED
      BY <1>6, <3>1, <3>2
  <2>2. /\ SubSeq(r, 2, M + 1) \in Seq(Events)
        /\ Len(SubSeq(r, 2, M + 1)) = M
        /\ \A i \in 1 .. M : SubSeq(r, 2, M + 1)[i] = r[i + 1]
    <3>1. \A i \in 2 .. M + 1 : r[i] \in Events
      BY <1>3, <1>5, LenProperties
    <3>2. /\ SubSeq(r, 2, M + 1) \in Seq(Events)
          /\ Len(SubSeq(r, 2, M + 1)) = IF 2 <= M + 1 THEN M + 1 - 2 + 1 ELSE 0
          /\ \A i \in 1 .. M + 1 - 2 + 1 : SubSeq(r, 2, M + 1)[i] = r[2 + i - 1]
      BY <1>3, <3>1, SubSeqProperties
    <3>3. M + 1 - 2 + 1 = M /\ \A i \in 1 .. M : 2 + i - 1 = i + 1
      BY <1>3
    <3>4. 2 <= M + 1
      BY <1>3, <2>1
    <3> QED
      BY <3>2, <3>3, <3>4
  <2>3. \A i \in 1 .. M : ring'[i] = v[Len(v) - M + i]
    <3>1. \A i \in 1 .. M : i + 1 \in 1 .. M + 1 /\ L - M + (i + 1) = (L + 1) - M + i
      BY <1>3
    <3> QED
      BY <1>4, <1>8, <2>1, <2>2, <3>1
  <2>4. M <= Len(v)
    BY <1>1, <1>3, <1>4
  <2> QED
    BY <1>1, <1>7, <2>1, <2>2, <2>3, <2>4
<1>10. CASE ~(M + 1 > RingMax)
  <2>1. ring' = r /\ M + 1 <= RingMax /\ M + 1 <= Len(v)
    BY <1>1, <1>3, <1>4, <1>5, <1>6, <1>10
  <2>2. \A i \in 1 .. M + 1 : r[i] = v[Len(v) - (M + 1) + i]
    <3>1. \A i \in 1 .. M + 1 : (L + 1) - (M + 1) + i = L - M + i
      BY <1>3
    <3> QED
      BY <1>4, <1>8, <3>1
  <2> QED
    BY <1>5, <1>7, <2>1, <2>2
<1> QED
  BY <1>9, <1>10

-----------------------------------------------------------------------------
(* The inductive invariant holds.                                          *)

LEMMA InitEstablishesFlow ==
  ASSUME Init
  PROVE  FlowInv
<1>1. /\ \A p \in Emitters : Idle(p)
      /\ \A k \in AllSinks : written[k] = <<>> /\ DOMAIN written[k] = {}
      /\ failed = {} /\ DOMAIN frames = Emitters
  BY DEF Init, Idle
<1>2. /\ \A k \in AllSinks : \A x : ~In(k, x)
      /\ \A x : ~InFlight(x)
  BY <1>1 DEF In, InFlight
<1>3. BusInv
  BY DEF Init, BusInv, AllSinks
<1>4. FramesInv
  BY <1>1 DEF FramesInv
<1>5. RecordsInv
  <2>1. <<>> \in Seq(Events)
    BY EmptySeq
  <2>2. written = [k \in AllSinks |-> <<>>] /\ failed = {}
    BY DEF Init
  <2> QED
    BY <2>1, <2>2 DEF RecordsInv
<1>6. \A x : x \notin Taken
  BY <1>1, <1>2, <1>4, TakenIsSeen DEF TakenSeen
<1>7. NotYet /\ FileFirst /\ OneCarrier
  BY <1>1 DEF NotYet, FileFirst, OneCarrier
<1>8. BlocksFollow /\ Delivered
  BY <1>6 DEF BlocksFollow, Delivered
<1>9. NoRepeats /\ InOrder
  BY <1>1 DEF NoRepeats, InOrder
<1>10. Scored
  BY <1>2 DEF Scored, AllSinks
<1>11. Numbered
  <2>1. 0 \in 0 .. MaxEvents /\ \A x : x \notin 1 .. 0
    BY EventBusAssumption
  <2>2. Emitted = 1 .. 0
    BY <1>6, <2>1 DEF Emitted
  <2> QED
    BY <2>1, <2>2 DEF Numbered
<1> QED
  BY <1>3, <1>4, <1>5, <1>7, <1>8, <1>9, <1>10, <1>11 DEF FlowInv

LEMMA InitEstablishes ==
  ASSUME Init
  PROVE  IInv
<1>1. RingInv
  <2>1. ring = <<>> /\ written["ring"] = <<>>
    BY DEF Init, AllSinks
  <2>2. <<>> \in Seq(Events) /\ Len(<<>>) = 0 /\ \A i \in 1 .. 0 : FALSE
    BY EmptySeq
  <2>3. RingMax >= 0
    BY EventBusAssumption
  <2> QED
    BY <2>1, <2>2, <2>3 DEF RingInv
<1>2. LockInv
  BY DEF Init, LockInv
<1>3. CloseInv
  BY EventBusAssumption DEF Init, CloseInv
<1>4. CollectorInv
  BY EventBusAssumption DEF Init, CollectorInv
<1> QED
  BY <1>1, <1>2, <1>3, <1>4, InitEstablishesFlow DEF IInv

\* Emit and Copy.
LEMMA EntryPreserves ==
  ASSUME IInv, NEW p \in Emitters, (\E e \in 1 .. MaxEvents : Emit(p, e)) \/ Copy(p)
  PROVE  IInv'
<1>1. FlowInv /\ RingInv /\ LockInv /\ CloseInv /\ CollectorInv
  BY DEF IInv
<1>2. /\ UNCHANGED <<written, failed, ring, mu, stage, conn, collector, faults>>
      /\ UNCHANGED <<closing, orderly, fileOpen>>
  BY DEF Emit, Copy, syslog
<1>3. FlowInv'
  BY <1>1, EmitKeepsFlow, CopyKeepsFlow
<1>4. FramesInv /\ (Idle(p) \/ ~Top(p).copied)
  BY <1>1 DEF FlowInv, Emit, Copy, Idle
<1>5. \A k \in AllSinks : ~AtSink(p, k)
  BY <1>4, CallServed DEF AtSink, Idle
<1>6. \A q \in Emitters : q # p => frames'[q] = frames[q]
  BY <1>4 DEF Emit, Copy, Push, FramesInv
<1>7. LockInv'
  <2>1. \A q \in Emitters : AtSink(q, "syslog") => frames'[q] = frames[q]
    BY <1>5, <1>6 DEF AllSinks
  <2> QED
    BY <1>1, <1>2, <2>1, LockStays
<1>8. CloseInv'
  <2>1. closing = "no" \/ ~Idle(p)
    BY <1>1 DEF FlowInv, BusInv, Emit, Copy, Idle
  <2> QED
    BY <1>1, <1>2, <2>1, OthersKeepClosed
<1>9. RingInv' /\ CollectorInv'
  BY <1>1, <1>2 DEF RingInv, CollectorInv
<1> QED
  BY <1>3, <1>7, <1>8, <1>9 DEF IInv

\* A sink is served.
LEMMA ServePreserves ==
  ASSUME IInv, NEW p \in Emitters, NEW k \in AllSinks, Serve(p, k),
         fileOpen' = fileOpen, CollectorInv',
         IF k = "syslog" THEN mu' = {} ELSE UNCHANGED <<mu, conn>>,
         k # "ring" => ring' = ring,
         k = "ring" => Accept("ring", Top(p).ev) /\ ring' = Trim(Append(ring, Top(p).ev))
  PROVE  IInv'
<1>1. FlowInv /\ RingInv /\ LockInv /\ CloseInv /\ FramesInv /\ RecordsInv
  BY DEF IInv, FlowInv
<1>2. FlowInv'
  BY <1>1, ServeKeepsFlow
<1>3. AtSink(p, k) /\ UNCHANGED <<closing, orderly>> /\ ~Idle(p) /\ k = Head(Top(p).rest)
      /\ Top(p).rest \in Remainders /\ Top(p).ev \in Events
  BY <1>1, CallServed, OneCall DEF Serve
<1>4. \A q \in Emitters : q # p => frames'[q] = frames[q]
  BY <1>1 DEF Serve, Advance, Responds, FramesInv
<1>5. LockInv'
  <2>1. CASE k = "syslog"
    BY <2>1 DEF LockInv
  <2>2. CASE k # "syslog"
    <3>1. ~AtSink(p, "syslog")
      BY <1>3, <2>2 DEF AtSink
    <3>2. \A q \in Emitters : AtSink(q, "syslog") => frames'[q] = frames[q]
      BY <1>4, <3>1
    <3> QED
      BY <1>1, <2>2, <3>2, LockStays
  <2> QED
    BY <2>1, <2>2
<1>6. CloseInv'
  <2>1. conn' # conn => Syslog
    BY <1>3, RemainderFacts
  <2> QED
    BY <1>1, <1>3, <2>1, OthersKeepClosed
<1>7. RingInv'
  <2>1. CASE k = "ring"
    <3>1. PICK e : e = Top(p).ev
      OBVIOUS
    <3>2. e \in Events /\ written' = [written EXCEPT !["ring"] = Append(@, e)] /\ ring' = Trim(Append(ring, e))
      BY <1>3, <2>1, <3>1 DEF Accept
    <3> QED
      BY <1>1, <3>2, RingGrows
  <2>2. CASE k # "ring"
    <3>1. written'["ring"] = written["ring"]
      BY <1>1, <2>2 DEF Serve, Wrote, Accept, Fail, RecordsInv, AllSinks
    <3> QED
      BY <1>1, <2>2, <3>1 DEF RingInv
  <2> QED
    BY <2>1, <2>2
<1> QED
  BY <1>2, <1>5, <1>6, <1>7 DEF IInv

\* Steps of SyslogSink.Write that stay inside it.
LEMMA InsideSyslogPreserves ==
  ASSUME IInv, NEW p \in Emitters, AtSink(p, "syslog"), mu' \in {mu, {p}},
         UNCHANGED <<frames, written, failed, global, sinks, closing, orderly, fileOpen, ring>>,
         CollectorInv'
  PROVE  IInv'
<1>1. FlowInv /\ RingInv /\ LockInv /\ CloseInv /\ FramesInv /\ BusInv
  BY DEF IInv, FlowInv
<1>2. BusInv' /\ RingInv'
  BY <1>1 DEF BusInv, RingInv
<1>3. FlowInv'
  BY <1>1, <1>2, QuietKeepsFlow
<1>4. LockInv'
  BY <1>1 DEF LockInv, AtSink, Top
<1>5. ~Idle(p) /\ Syslog
  BY <1>1, CallServed, RemainderFacts
<1>6. CloseInv'
  BY <1>1, <1>5, OthersKeepClosed
<1> QED
  BY <1>2, <1>3, <1>4, <1>6 DEF IInv

LEMMA GoroutinePreserves ==
  ASSUME IInv, NEW p \in Emitters, Goroutine(p)
  PROVE  IInv'
<1>1. LockInv /\ CollectorInv
  BY DEF IInv
<1>2. {"file", "syslog", "ring", "detector"} = AllSinks
  BY DEF AllSinks
<1>3. CASE Copy(p)
  BY <1>3, EntryPreserves
<1>4. CASE FileWrite(p)
  <2>1. Serve(p, "file")
    BY <1>1, <1>4, WritesServe
  <2>2. UNCHANGED <<fileOpen, mu, conn, ring, stage, collector>>
    BY <1>4 DEF FileWrite
  <2>3. CollectorInv'
    <3>1. faults' = faults \/ (faults < MaxFaults /\ faults' = faults + 1)
      BY <1>4 DEF FileWrite
    <3>2. MaxFaults \in Nat
      BY EventBusAssumption
    <3> QED
      BY <1>1, <2>2, <3>1, <3>2 DEF CollectorInv
  <2> QED
    BY <1>2, <2>1, <2>2, <2>3, ServePreserves
<1>5. CASE RingWrite(p)
  <2>1. Serve(p, "ring")
    BY <1>1, <1>5, WritesServe
  <2>2. /\ UNCHANGED <<fileOpen, mu, conn, stage, collector, faults>>
        /\ Accept("ring", Top(p).ev) /\ ring' = Trim(Append(ring, Top(p).ev))
    BY <1>5 DEF RingWrite, syslog
  <2>3. CollectorInv'
    BY <1>1, <2>2 DEF CollectorInv
  <2> QED
    BY <1>2, <2>1, <2>2, <2>3, ServePreserves
<1>6. CASE DetectorWrite(p)
  <2>1. Serve(p, "detector")
    BY <1>1, <1>6, WritesServe
  <2>2. UNCHANGED <<fileOpen, mu, conn, ring, stage, collector, faults>>
    BY <1>6 DEF DetectorWrite, syslog
  <2>3. CollectorInv'
    BY <1>1, <2>2 DEF CollectorInv
  <2> QED
    BY <1>2, <2>1, <2>2, <2>3, ServePreserves
<1>7. CASE SyslogLock(p)
  <2>1. /\ AtSink(p, "syslog") /\ mu' = {p}
        /\ UNCHANGED <<frames, written, failed, global, sinks, closing, orderly, fileOpen, ring>>
    BY <1>7 DEF SyslogLock
  <2>2. CollectorInv'
    BY <1>1, <1>7 DEF SyslogLock, CollectorInv
  <2> QED
    BY <2>1, <2>2, InsideSyslogPreserves
<1>8. CASE SyslogDial(p) \/ SyslogSend(p) \/ SyslogSendStale(p)
  <2>1. CollectorInv'
    <3>1. stage' \in {"none", "dial", "send", "redial", "resend"} /\ conn' \in {"none", "live", "stale"}
      BY <1>1, <1>8 DEF SyslogDial, SyslogSend, SyslogSendStale, Unlock, CollectorInv
    <3>2. UNCHANGED <<collector, faults>>
      BY <1>8 DEF SyslogDial, SyslogSend, SyslogSendStale
    <3> QED
      BY <1>1, <3>1, <3>2 DEF CollectorInv
  <2>2. UNCHANGED <<fileOpen, ring>> /\ mu = {p}
    BY <1>8 DEF SyslogDial, SyslogSend, SyslogSendStale
  <2>3. \/ Serve(p, "syslog") /\ mu' = {}
        \/ UNCHANGED <<frames, written, failed, mu, global, sinks, closing, orderly>>
    BY <1>1, <1>8, WritesServe
  <2>4. AtSink(p, "syslog")
    <3>1. \E q \in Emitters : mu = {q} /\ AtSink(q, "syslog")
      BY <1>1, <2>2 DEF LockInv
    <3> QED
      BY <2>2, <3>1
  <2>5. CASE Serve(p, "syslog") /\ mu' = {}
    BY <1>2, <2>1, <2>2, <2>5, ServePreserves
  <2>6. CASE UNCHANGED <<frames, written, failed, mu, global, sinks, closing, orderly>>
    BY <2>1, <2>2, <2>4, <2>6, InsideSyslogPreserves
  <2> QED
    BY <2>3, <2>5, <2>6
<1> QED
  BY <1>3, <1>4, <1>5, <1>6, <1>7, <1>8 DEF Goroutine

LEMMA ClosingPreserves ==
  ASSUME IInv, CloseGlobal \/ CloseSink
  PROVE  IInv'
<1>1. FlowInv /\ RingInv /\ LockInv /\ CloseInv /\ CollectorInv /\ BusInv
  BY DEF IInv, FlowInv
<1>2. UNCHANGED <<frames, mu, stage, collector, faults, written, ring>> /\ conn' \in {conn, "none"}
  BY DEF CloseGlobal, CloseSink, ConnAfter, syslog
<1>3. RingInv' /\ CollectorInv'
  BY <1>1, <1>2 DEF RingInv, CollectorInv
<1>4. LockInv'
  BY <1>1, <1>2, LockStays
<1> QED
  BY <1>1, <1>3, <1>4, ClosingKeepsFlow, ClosingKeepsClosed DEF IInv

LEMMA CollectorPreserves ==
  ASSUME IInv, CollectorDown \/ CollectorUp \/ CollectorStall
  PROVE  IInv'
<1>1. FlowInv /\ RingInv /\ LockInv /\ CloseInv /\ CollectorInv /\ BusInv
  BY DEF IInv, FlowInv
<1>2. /\ UNCHANGED <<global, sinks, frames, mu, stage, fileOpen, closing, written, failed, ring, orderly>>
      /\ conn' = conn \/ (conn = "live" /\ conn' = "stale")
  BY DEF CollectorDown, CollectorUp, CollectorStall
<1>3. BusInv' /\ RingInv'
  BY <1>1, <1>2 DEF BusInv, RingInv
<1>4. FlowInv' /\ LockInv'
  BY <1>1, <1>2, <1>3, QuietKeepsFlow, LockStays
<1>5. CloseInv'
  <2>1. conn' # conn => Syslog
    BY <1>1, <1>2 DEF CloseInv
  <2> QED
    BY <1>1, <1>2, <2>1, OthersKeepClosed
<1>6. CollectorInv'
  BY <1>1, EventBusAssumption DEF CollectorInv, CollectorDown, CollectorUp, CollectorStall
<1> QED
  BY <1>3, <1>4, <1>5, <1>6 DEF IInv

LEMMA NextPreserves ==
  ASSUME IInv, [Next]_vars
  PROVE  IInv'
<1>1. CASE \E p \in Emitters : (\E e \in 1 .. MaxEvents : Emit(p, e)) \/ Goroutine(p)
  BY <1>1, EntryPreserves, GoroutinePreserves
<1>2. CASE CloseGlobal \/ CloseSink
  BY <1>2, ClosingPreserves
<1>3. CASE CollectorDown \/ CollectorUp \/ CollectorStall
  BY <1>3, CollectorPreserves
<1>4. CASE UNCHANGED vars
  <2>1. FlowInv /\ RingInv /\ LockInv /\ CloseInv /\ CollectorInv /\ BusInv
    BY DEF IInv, FlowInv
  <2>2. UNCHANGED <<global, sinks, frames, mu, stage, conn, collector, faults, fileOpen,
                    closing, orderly, written, failed, ring>>
    BY <1>4 DEF vars
  <2>3. BusInv' /\ RingInv' /\ CollectorInv'
    BY <2>1, <2>2 DEF BusInv, RingInv, CollectorInv
  <2>4. FlowInv' /\ LockInv'
    BY <2>1, <2>2, <2>3, QuietKeepsFlow, LockStays
  <2>5. CloseInv'
    BY <2>1, <2>2, OthersKeepClosed
  <2> QED
    BY <2>3, <2>4, <2>5 DEF IInv
<1> QED
  BY <1>1, <1>2, <1>3, <1>4 DEF Next

LEMMA Invariance == Spec => []IInv
<1>1. Init => IInv
  BY InitEstablishes
<1>2. IInv /\ [Next]_vars => IInv'
  BY NextPreserves
<1> QED
  BY <1>1, <1>2, PTL DEF Spec

-----------------------------------------------------------------------------
(* What follows.                                                           *)

\* Every variable keeps its type; in particular a goroutine's stack of Emit
\* calls stays bounded although the detector emits from inside Write, and the
\* ring never outgrows its capacity.
THEOREM TypeCorrect == Spec => []TypeOK
<1>1. ASSUME IInv PROVE TypeOK
  <2>1. FlowInv /\ BusInv /\ FramesInv /\ RecordsInv /\ RingInv /\ LockInv /\ CloseInv /\ CollectorInv
    BY <1>1 DEF IInv, FlowInv
  <2>2. {global, fileOpen, orderly} \subseteq BOOLEAN
    BY <2>1 DEF BusInv, CloseInv
  <2>3. ASSUME NEW p \in Emitters
        PROVE  Len(frames[p]) <= 2 /\ \A i \in DOMAIN frames[p] : frames[p][i].ev \in Events
    <3>1. CASE Idle(p)
      BY <3>1 DEF Idle
    <3>2. CASE ~Idle(p)
      <4>1. frames[p] = <<Top(p)>> /\ DOMAIN frames[p] = {1} /\ Top(p).ev \in Events
        BY <2>1, <3>2, OneCall
      <4>2. \A f : Len(<<f>>) = 1 /\ <<f>>[1] = f
        OBVIOUS
      <4>3. Len(frames[p]) = 1 /\ frames[p][1] = Top(p)
        BY <4>1, <4>2
      <4> QED
        BY <4>1, <4>3
    <3> QED
      BY <3>1, <3>2
  <2>4. mu \subseteq Emitters
    BY <2>1 DEF LockInv
  <2>5. ASSUME NEW k \in AllSinks PROVE ToSet(written[k]) \subseteq Events
    <3>1. written[k] \in Seq(Events)
      BY <2>1 DEF RecordsInv
    <3>2. \A i \in DOMAIN written[k] : written[k][i] \in Events
      BY <3>1, LenProperties
    <3> QED
      BY <3>2 DEF ToSet
  <2>6. /\ sinks \in {SinkOrder, <<>>} /\ closing \in AllSinks \cup {"no", "done"}
        /\ failed \subseteq AllSinks \X Events /\ Len(ring) <= RingMax
    BY <2>1 DEF BusInv, RecordsInv, RingInv
  <2> QED
    BY <2>1, <2>2, <2>3, <2>4, <2>5, <2>6 DEF TypeOK, CollectorInv
<1> QED
  BY <1>1, Invariance, PTL

\* The evidence is on record, or its loss reported, before the detector scores
\* an event, and no event is lost on its way to the detector because a sink
\* before it failed, for any number of emitting goroutines and any behaviour
\* of the syslog collector.
THEOREM EvidenceFirst == Spec => []RecordedBeforeScored
<1>1. ASSUME IInv PROVE RecordedBeforeScored
  <2>1. FlowInv /\ FramesInv /\ RecordsInv /\ Scored /\ Delivered
    BY <1>1 DEF IInv, FlowInv
  <2>2. \A k \in AllSinks : \A e : e \in ToSet(written[k]) <=> In(k, e)
    BY DEF ToSet, In
  <2>3. "file" \in AllSinks /\ "detector" \in AllSinks
    BY DEF AllSinks
  <2>4. ASSUME JSONFile, NEW e \in ToSet(written["detector"])
        PROVE  e \in ToSet(written["file"]) \/ <<"file", e>> \in failed
    <3>1. In("detector", e)
      BY <2>2, <2>3, <2>4
    <3>2. e \in Events
      <4>1. written["detector"] \in Seq(Events)
        BY <2>1, <2>3 DEF RecordsInv
      <4>2. \A i \in DOMAIN written["detector"] : written["detector"][i] \in Events
        BY <4>1, LenProperties
      <4> QED
        BY <3>1, <4>2 DEF In
    <3>3. Recorded(e)
      BY <2>1, <2>4, <3>1, <3>2 DEF Scored
    <3> QED
      BY <2>2, <2>3, <3>3 DEF Recorded
  <2>5. ASSUME closing = "no", NEW e \in Taken
        PROVE  \/ e \in ToSet(written["detector"])
               \/ \E p \in Emitters : \E i \in DOMAIN frames[p] : frames[p][i].ev = e
    <3>1. In("detector", e) \/ InFlight(e)
      BY <2>1, <2>5 DEF Delivered
    <3>2. ASSUME NEW p \in Emitters, ~Idle(p), Top(p).ev = e
          PROVE  \E i \in DOMAIN frames[p] : frames[p][i].ev = e
      <4>1. DOMAIN frames[p] = {1}
        BY <2>1, <3>2, OneCall
      <4> QED
        BY <3>2, <4>1 DEF Top
    <3> QED
      BY <2>2, <2>3, <3>1, <3>2 DEF InFlight
  <2> QED
    BY <2>4, <2>5 DEF RecordedBeforeScored
<1> QED
  BY <1>1, Invariance, PTL

\* A sequence without repetitions is as long as the set of its elements.
LEMMA NoRepeatsCounted ==
  ASSUME NEW s \in Seq(Events), \A i, j \in DOMAIN s : s[i] = s[j] => i = j
  PROVE  Cardinality(ToSet(s)) = Len(s)
<1>1. Len(s) \in Nat /\ DOMAIN s = 1 .. Len(s) /\ \A i \in 1 .. Len(s) : s[i] \in Events
  BY LenProperties
<1>2. IsFiniteSet(1 .. Len(s)) /\ Cardinality(1 .. Len(s)) = Len(s)
  <2>1. /\ IsFiniteSet(1 .. Len(s))
        /\ Cardinality(1 .. Len(s)) = IF 1 > Len(s) THEN 0 ELSE Len(s) - 1 + 1
    BY <1>1, FS_Interval
  <2> QED
    BY <1>1, <2>1
<1> DEFINE h == [i \in 1 .. Len(s) |-> s[i]]
<1>3. h \in Bijection(1 .. Len(s), ToSet(s))
  BY <1>1 DEF ToSet, Bijection, Injection, Surjection, IsInjective
<1>4. Cardinality(ToSet(s)) = Cardinality(1 .. Len(s))
  <2>1. ExistsBijection(1 .. Len(s), ToSet(s))
    BY <1>3 DEF ExistsBijection
  <2> QED
    BY <1>2, <2>1, FS_Bijection
<1> QED
  BY <1>2, <1>4

\* The end of a sequence, as IsSuffix has it.
LEMMA EndIsSuffix ==
  ASSUME NEW s \in Seq(Events), NEW t \in Seq(Events), Len(s) <= Len(t),
         \A i \in 1 .. Len(s) : s[i] = t[Len(t) - Len(s) + i]
  PROVE  IsSuffix(s, t)
<1>1. /\ Len(s) \in Nat /\ Len(t) \in Nat
      /\ \A i \in 1 .. Len(s) : s[i] \in Events
      /\ \A i \in 1 .. Len(t) : t[i] \in Events
  BY LenProperties
<1>2. ASSUME NEW u \in Seq(Events)
      PROVE  /\ Reverse(u) \in Seq(Events) /\ Len(Reverse(u)) = Len(u)
             /\ \A i \in 1 .. Len(u) : Reverse(u)[i] = u[(Len(u) - i) + 1]
  <2>1. Len(u) \in Nat /\ \A i \in 1 .. Len(u) : u[i] \in Events
    BY LenProperties
  <2>2. \A i \in 1 .. Len(u) : (Len(u) - i) + 1 \in 1 .. Len(u)
    BY <2>1
  <2>3. Reverse(u) \in [1 .. Len(u) -> Events]
    BY <2>1, <2>2 DEF Reverse
  <2>4. Reverse(u) \in Seq(Events)
    <3>1. \A n \in Nat : \A f \in [1 .. n -> Events] : f \in Seq(Events)
      OBVIOUS
    <3> QED
      BY <2>1, <2>3, <3>1
  <2>5. DOMAIN Reverse(u) = 1 .. Len(u)
    BY DEF Reverse
  <2>6. Len(Reverse(u)) = Len(u)
    BY <2>1, <2>4, <2>5, LenProperties
  <2>7. \A i \in 1 .. Len(u) : Reverse(u)[i] = u[(Len(u) - i) + 1]
    BY DEF Reverse
  <2> QED
    BY <2>4, <2>6, <2>7
<1> DEFINE r == Reverse(s)
           v == Reverse(t)
<1>3. /\ r \in Seq(Events) /\ Len(r) = Len(s) /\ v \in Seq(Events) /\ Len(v) = Len(t)
      /\ \A i \in 1 .. Len(s) : r[i] = s[(Len(s) - i) + 1]
      /\ \A i \in 1 .. Len(t) : v[i] = t[(Len(t) - i) + 1]
  BY <1>2
<1> HIDE DEF r, v
<1>4. ASSUME NEW i \in 1 .. Len(s) PROVE r[i] = v[i]
  <2>1. (Len(s) - i) + 1 \in 1 .. Len(s) /\ i \in 1 .. Len(t)
    BY <1>1
  <2>2. Len(t) - Len(s) + ((Len(s) - i) + 1) = (Len(t) - i) + 1
    BY <1>1
  <2>3. s[(Len(s) - i) + 1] = t[Len(t) - Len(s) + ((Len(s) - i) + 1)]
    BY <2>1
  <2> QED
    BY <1>3, <2>1, <2>2, <2>3
<1>5. ASSUME NEW u \in Seq(Events), NEW n \in Nat, n <= Len(u)
      PROVE  /\ SubSeq(u, 1, n) \in Seq(Events) /\ Len(SubSeq(u, 1, n)) = n
             /\ \A i \in 1 .. n : SubSeq(u, 1, n)[i] = u[i]
  <2>1. Len(u) \in Nat /\ \A i \in 1 .. n : u[i] \in Events
    BY <1>5, LenProperties
  <2>2. /\ SubSeq(u, 1, n) \in Seq(Events)
        /\ Len(SubSeq(u, 1, n)) = IF 1 <= n THEN n - 1 + 1 ELSE 0
        /\ \A i \in 1 .. n - 1 + 1 : SubSeq(u, 1, n)[i] = u[1 + i - 1]
    BY <2>1, SubSeqProperties
  <2>3. n - 1 + 1 = n /\ \A i \in 1 .. n : 1 + i - 1 = i
    OBVIOUS
  <2>4. (IF 1 <= n THEN n - 1 + 1 ELSE 0) = n
    OBVIOUS
  <2> QED
    BY <2>2, <2>3, <2>4
<1>6. /\ SubSeq(r, 1, Len(s)) \in Seq(Events) /\ Len(SubSeq(r, 1, Len(s))) = Len(s)
      /\ SubSeq(v, 1, Len(s)) \in Seq(Events) /\ Len(SubSeq(v, 1, Len(s))) = Len(s)
      /\ \A i \in 1 .. Len(s) : SubSeq(r, 1, Len(s))[i] = SubSeq(v, 1, Len(s))[i]
  BY <1>1, <1>3, <1>4, <1>5
<1>7. SubSeq(r, 1, Len(s)) = SubSeq(v, 1, Len(s))
  BY <1>6, SeqEqual
<1> QED
  BY <1>3, <1>7 DEF IsSuffix, IsPrefix, r, v

\* Every sink's record is free of repetitions and has each Block event after
\* the event that caused it, the ring serves the end of its record without a
\* gap, and an orderly Close leaves neither the file nor a syslog connection
\* open, whatever the collector and the scheduler do.
THEOREM RecordsAreCoherent == Spec => []SinksAreCoherent
<1>1. ASSUME IInv PROVE SinksAreCoherent
  <2>1. RecordsInv /\ NoRepeats /\ InOrder /\ RingInv /\ CloseInv
    BY <1>1 DEF IInv, FlowInv
  <2>2. closing = "done" /\ orderly => conn = "none" /\ ~fileOpen
    <3> SUFFICES ASSUME closing = "done", orderly PROVE conn = "none" /\ ~fileOpen
      OBVIOUS
    <3>1. PICK i \in 1 .. N + 1 :
            /\ closing = IF i <= N THEN SinkOrder[i] ELSE "done"
            /\ \A j \in 1 .. i - 1 : /\ SinkOrder[j] = "file" => ~fileOpen
                                     /\ SinkOrder[j] = "syslog" => conn = "none"
      BY <2>1 DEF CloseInv
    <3>2. N \in Nat /\ N >= 1 /\ \A j \in 1 .. N : SinkOrder[j] \in AllSinks
      BY SinkOrderFacts
    <3>3. i = N + 1
      BY <3>1, <3>2 DEF AllSinks
    <3>4. \A j \in 1 .. N : /\ SinkOrder[j] = "file" => ~fileOpen
                            /\ SinkOrder[j] = "syslog" => conn = "none"
      BY <3>1, <3>2, <3>3
    <3>5. ~fileOpen
      BY <2>1, <3>2, <3>4, SinkOrderFacts DEF CloseInv
    <3>6. conn = "none"
      BY <2>1, <3>4, SinkOrderFacts DEF CloseInv
    <3> QED
      BY <3>5, <3>6
  <2>3. ASSUME NEW k \in AllSinks
        PROVE  /\ Cardinality(ToSet(written[k])) = Len(written[k])
               /\ \A e \in ToSet(written[k]) :
                     ~IsBlock(e) /\ BlockOf(e) \in ToSet(written[k]) =>
                        Position(k, e) < Position(k, BlockOf(e))
    <3>1. written[k] \in Seq(Events)
      BY <2>1 DEF RecordsInv
    <3>2. \A i, j \in DOMAIN written[k] : written[k][i] = written[k][j] => i = j
      BY <2>1 DEF NoRepeats
    <3>3. Cardinality(ToSet(written[k])) = Len(written[k])
      BY <3>1, <3>2, NoRepeatsCounted
    <3>4. ASSUME NEW e \in ToSet(written[k]), ~IsBlock(e), BlockOf(e) \in ToSet(written[k])
          PROVE  Position(k, e) < Position(k, BlockOf(e))
      <4>1. \A x \in ToSet(written[k]) : Position(k, x) \in DOMAIN written[k] /\ written[k][Position(k, x)] = x
        BY DEF ToSet, Position
      <4>2. PICK i \in DOMAIN written[k] : i = Position(k, e) /\ written[k][i] = e
        BY <4>1
      <4>3. PICK j \in DOMAIN written[k] : j = Position(k, BlockOf(e)) /\ written[k][j] = BlockOf(e)
        BY <3>4, <4>1
      <4>4. i < j
        BY <2>1, <3>4, <4>2, <4>3 DEF InOrder
      <4> QED
        BY <4>2, <4>3, <4>4
    <3> QED
      BY <3>3, <3>4
  <2>4. IsSuffix(ring, written["ring"])
    <3>1. written["ring"] \in Seq(Events)
      BY <2>1 DEF RecordsInv, AllSinks
    <3> QED
      BY <2>1, <3>1, EndIsSuffix DEF RingInv
  <2> QED
    BY <2>2, <2>3, <2>4 DEF SinksAreCoherent
<1> QED
  BY <1>1, Invariance, PTL

=============================================================================
