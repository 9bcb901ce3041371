------------------------------ MODULE EventBus ------------------------------
(***************************************************************************)
(* The security-event bus (internal/events) with the sinks runMimic puts   *)
(* on it: the NDJSON file, syslog, the control plane's ring and the abuse  *)
(* detector, in that order.                                                *)
(*                                                                         *)
(* Bus.Emit copies the list of sinks under Bus.mu and then calls each      *)
(* sink's Write in the emitting goroutine.  SyslogSink.Write dials and     *)
(* writes while holding SyslogSink.mu, without a deadline.  The detector   *)
(* may emit a Block event of its own from inside Write: the goroutine then *)
(* has two Emit calls on its stack.  Bus.Close holds Bus.mu while it       *)
(* closes one sink after the other.                                        *)
(***************************************************************************)
EXTENDS Naturals, Sequences, FiniteSets, SequencesExt

CONSTANTS
    Emitters,          \* honeypot goroutines
    JSONFile, Syslog, Control,   \* which optional sinks are configured
    RingMax,           \* capacity of the control plane's ring
    MaxFaults,         \* bound: outages of the collector and errors of the file
    MaxEvents,         \* bound: events the honeypots emit
    MaxBlocks          \* bound: Block events the detector causes

ASSUME EventBusAssumption ==
    /\ {JSONFile, Syslog, Control} \subseteq BOOLEAN
    /\ RingMax \in Nat \ {0}
    /\ {MaxEvents, MaxBlocks, MaxFaults} \subseteq Nat

VARIABLES
    global,     \* events.global is set
    sinks,      \* Bus.sinks
    frames,     \* per emitter: its Emit calls, innermost first
    mu,         \* SyslogSink.mu: its holder, as a set
    stage,      \* what the holder of SyslogSink.mu does
    conn,       \* SyslogSink.conn
    collector,  \* the syslog collector
    faults,     \* how often it went down or stalled, or the file refused a write
    fileOpen,   \* FileSink.f is open
    closing,    \* progress of CloseGlobal
    orderly,    \* no Emit call was under way when CloseGlobal ran
    written,    \* what each sink accepted, in order
    failed,     \* <<sink, event>> pairs handed to onError
    ring        \* Ring.buf

vars == <<global, sinks, frames, mu, stage, conn, collector, faults, fileOpen,
          closing, orderly, written, failed, ring>>
syslog == <<mu, stage, conn, collector, faults>>

AllSinks == {"file", "syslog", "ring", "detector"}

\* Events are numbered; the Block event that event n provokes is n + MaxEvents.
Events == 1 .. (2 * MaxEvents)
IsBlock(e) == e > MaxEvents
BlockOf(e) == e + MaxEvents
Taken == {e \in Events :
            \/ \E k \in AllSinks : e \in ToSet(written[k]) \/ <<k, e>> \in failed
            \/ \E p \in Emitters : \E i \in DOMAIN frames[p] : frames[p][i].ev = e}
Emitted == {e \in Taken : ~IsBlock(e)}
Blocks == {e \in Taken : IsBlock(e)}

Optional(cfg, k) == IF cfg THEN <<k>> ELSE <<>>

\* events.Init followed by the AddSink calls of runMimic.
\* Mutant: the detector is registered first.
DetectorFirst == <<"detector">> \o Optional(JSONFile, "file")
                    \o Optional(Syslog, "syslog") \o Optional(Control, "ring")
SinkOrder == Optional(JSONFile, "file") \o Optional(Syslog, "syslog")
               \o Optional(Control, "ring") \o <<"detector">>

Call(e) == [ev |-> e, copied |-> FALSE, rest |-> <<>>]

Init ==
    /\ global = TRUE
    /\ sinks = SinkOrder
    /\ frames = [p \in Emitters |-> <<>>]
    /\ mu = {} /\ stage = "none"
    /\ collector \in IF MaxFaults > 0 THEN {"up", "down"} ELSE {"up"}
    /\ faults = IF collector = "down" THEN 1 ELSE 0
    /\ conn = IF collector = "up" /\ Syslog THEN "live" ELSE "none"   \* NewSyslogSink
    /\ fileOpen = JSONFile
    /\ closing = "no"
    /\ orderly = TRUE
    /\ written = [k \in AllSinks |-> <<>>]
    /\ failed = {}
    /\ ring = <<>>

-----------------------------------------------------------------------------
(* The stack of an emitter.                                                *)

Top(p) == frames[p][1]
AtSink(p, k) == frames[p] # <<>> /\ Top(p).rest # <<>> /\ Head(Top(p).rest) = k

Push(p, e) == [frames EXCEPT ![p] = <<Call(e)>> \o @]

\* The innermost call returns once it has no sink left to serve; a call below
\* it is still in its loop, or it would have returned before.
Returned(calls) == IF calls[1].copied /\ calls[1].rest = <<>> THEN Tail(calls) ELSE calls

\* The loop of Bus.Emit goes on to the next sink, whether Write failed or not.
Served(p) == Returned([frames[p] EXCEPT ![1].rest = Tail(@)])
Advance(p) == [frames EXCEPT ![p] = Served(p)]

\* events.Emit: reads the global bus.
Emit(p, e) ==
    /\ frames[p] = <<>>
    /\ e = Cardinality(Emitted) + 1 /\ e <= MaxEvents
    /\ global
    /\ frames' = Push(p, e)
    /\ UNCHANGED <<global, sinks, syslog, fileOpen, closing, written, failed, ring, orderly>>

\* Bus.Emit copies the list under Bus.mu, which Bus.Close holds throughout.
Copy(p) ==
    /\ frames[p] # <<>> /\ ~Top(p).copied
    /\ closing \notin AllSinks
    /\ frames' = [frames EXCEPT ![p] =
                    Returned([@ EXCEPT ![1].copied = TRUE, ![1].rest = sinks])]
    /\ UNCHANGED <<global, sinks, syslog, fileOpen, closing, written, failed, ring, orderly>>

Accept(k, e) == written' = [written EXCEPT ![k] = Append(@, e)] /\ UNCHANGED failed
Fail(k, e)   == failed' = failed \cup {<<k, e>>} /\ UNCHANGED written

-----------------------------------------------------------------------------
(* FileSink and Ring.                                                      *)

\* A write to a closed file fails, and one to an open file may (a full disk).
FileWrite(p) ==
    /\ AtSink(p, "file")
    /\ \/ fileOpen /\ Accept("file", Top(p).ev) /\ UNCHANGED faults
       \/ fileOpen /\ faults < MaxFaults /\ Fail("file", Top(p).ev) /\ faults' = faults + 1
       \/ ~fileOpen /\ Fail("file", Top(p).ev) /\ UNCHANGED faults
    /\ frames' = Advance(p)
    /\ UNCHANGED <<global, sinks, mu, stage, conn, collector, fileOpen, closing, ring, orderly>>

\* Ring.Write keeps the last RingMax events.
\* Mutant: the oldest are kept.
KeepFirst(s) == SubSeq(s, 1, IF Len(s) > RingMax THEN RingMax ELSE Len(s))
Trim(s) == IF Len(s) > RingMax THEN SubSeq(s, Len(s) - RingMax + 1, Len(s)) ELSE s

RingWrite(p) ==
    /\ AtSink(p, "ring")
    /\ ring' = Trim(Append(ring, Top(p).ev))
    /\ Accept("ring", Top(p).ev)
    /\ frames' = Advance(p)
    /\ UNCHANGED <<global, sinks, syslog, fileOpen, closing, orderly>>

-----------------------------------------------------------------------------
(* SyslogSink.Write, under SyslogSink.mu.                                  *)

SyslogLock(p) ==
    /\ AtSink(p, "syslog")
    /\ mu = {}
    /\ mu' = {p}
    /\ stage' = IF conn = "none" THEN "dial" ELSE "send"
    /\ UNCHANGED <<global, sinks, frames, conn, collector, faults, fileOpen, closing,
                   written, failed, ring, orderly>>

\* The deferred unlock, and on to the next sink.
\* Mutant: no unlock.
StillLocked(p) == UNCHANGED mu /\ stage' = "none" /\ frames' = Advance(p)
Unlock(p) == mu' = {} /\ stage' = "none" /\ frames' = Advance(p)

\* connect(): a collector that is down refuses; one that merely stopped
\* reading still accepts the connection.
SyslogDial(p) ==
    /\ mu = {p} /\ stage \in {"dial", "redial"}
    /\ IF collector = "down"
       THEN /\ Fail("syslog", Top(p).ev)
            /\ Unlock(p)
            /\ UNCHANGED conn
       ELSE /\ conn' = "live"
            /\ stage' = IF stage = "dial" THEN "send" ELSE "resend"
            /\ UNCHANGED <<mu, frames, written, failed>>
    /\ UNCHANGED <<global, sinks, collector, faults, fileOpen, closing, ring, orderly>>

\* The write goes through (a live connection to a collector that reads).
SyslogSend(p) ==
    /\ mu = {p} /\ stage \in {"send", "resend"}
    /\ conn = "live" /\ collector = "up"
    /\ Accept("syslog", Top(p).ev)
    /\ Unlock(p)
    /\ UNCHANGED <<global, sinks, conn, collector, faults, fileOpen, closing, ring, orderly>>

\* A write to a peer that is gone: the first one may still "succeed" (the
\* frame is lost without an error) or it fails; a failed first write closes
\* the connection and dials once more, a failed second write is returned.
SyslogSendStale(p) ==
    /\ mu = {p} /\ stage \in {"send", "resend"}
    /\ conn = "stale" \/ collector = "down"
    /\ \/ /\ Unlock(p)
          /\ UNCHANGED <<conn, written, failed>>
       \/ /\ stage = "send"
          /\ conn' = "none" /\ stage' = "redial"
          /\ UNCHANGED <<mu, frames, written, failed>>
       \/ /\ stage = "resend"
          /\ Fail("syslog", Top(p).ev)
          /\ Unlock(p)
          /\ UNCHANGED conn
    /\ UNCHANGED <<global, sinks, collector, faults, fileOpen, closing, ring, orderly>>

-----------------------------------------------------------------------------
(* Detector.Write: it scores the event and may block, which emits.         *)

DetectorWrite(p) ==
    /\ AtSink(p, "detector")
    /\ Accept("detector", Top(p).ev)
    /\ \/ frames' = Advance(p)
       \/ /\ ~IsBlock(Top(p).ev) /\ global /\ Cardinality(Blocks) < MaxBlocks
          /\ frames' = [frames EXCEPT ![p] = <<Call(BlockOf(Top(p).ev))>> \o Served(p)]
    /\ UNCHANGED <<global, sinks, syslog, fileOpen, closing, ring, orderly>>

-----------------------------------------------------------------------------
(* CloseGlobal and Bus.Close.                                              *)

FirstOpen == IF sinks = <<>> THEN "done" ELSE Head(sinks)

\* It comes after the servers' Stop, unless the services goroutine failed
\* (see Lifecycle): then goroutines may be inside Emit.
CloseGlobal ==
    /\ closing = "no"
    /\ orderly' = \A p \in Emitters : frames[p] = <<>>
    /\ global' = FALSE
    /\ closing' = FirstOpen
    /\ UNCHANGED <<sinks, frames, syslog, fileOpen, written, failed, ring>>

\* SyslogSink.Close closes and forgets its connection.
ConnAfter(k) == IF k = "syslog" THEN "none" ELSE conn

\* Sink.Close of the sink whose turn it is; SyslogSink.Close needs its lock.
CloseSink ==
    /\ closing \in AllSinks
    /\ closing = "syslog" => mu = {}
    /\ fileOpen' = (fileOpen /\ closing # "file")
    /\ conn' = ConnAfter(closing)
    /\ LET i == CHOOSE i \in DOMAIN sinks : sinks[i] = closing
       IN  IF i < Len(sinks) THEN closing' = sinks[i + 1] /\ UNCHANGED sinks
                             ELSE closing' = "done" /\ sinks' = <<>>
    /\ UNCHANGED <<global, frames, mu, stage, collector, faults, written, failed, ring, orderly>>

-----------------------------------------------------------------------------
(* The collector, outside Mimic.                                           *)

CollectorDown ==
    /\ faults < MaxFaults /\ collector = "up"
    /\ faults' = faults + 1
    /\ collector' = "down"
    /\ conn' = IF conn = "live" THEN "stale" ELSE conn
    /\ UNCHANGED <<global, sinks, frames, mu, stage, fileOpen, closing, written, failed, ring, orderly>>

CollectorUp ==
    /\ collector = "down"
    /\ collector' = "up"
    /\ UNCHANGED <<global, sinks, frames, mu, stage, conn, faults, fileOpen, closing, written, failed, ring, orderly>>

\* It stops reading, for good.
CollectorStall ==
    /\ faults < MaxFaults /\ collector = "up"
    /\ faults' = faults + 1
    /\ collector' = "stalled"
    /\ UNCHANGED <<global, sinks, frames, mu, stage, conn, fileOpen, closing, written,
                   failed, ring, orderly>>

-----------------------------------------------------------------------------
Goroutine(p) == \/ Copy(p) \/ FileWrite(p) \/ RingWrite(p)
                \/ SyslogLock(p) \/ SyslogDial(p) \/ SyslogSend(p)
                \/ SyslogSendStale(p) \/ DetectorWrite(p)

Next ==
    \/ \E p \in Emitters : (\E e \in 1 .. MaxEvents : Emit(p, e)) \/ Goroutine(p)
    \/ CloseGlobal \/ CloseSink
    \/ CollectorDown \/ CollectorUp \/ CollectorStall

\* Goroutines that can run are scheduled.  A finite number of events cannot
\* take SyslogSink.mu for ever, so its hand-over needs no stronger fairness.
Fairness == (\A p \in Emitters : WF_vars(Goroutine(p))) /\ WF_vars(CloseSink)

Spec == Init /\ [][Next]_vars /\ Fairness
-----------------------------------------------------------------------------
\* Types of the state.
TypeOK ==
    /\ {global, fileOpen, orderly} \subseteq BOOLEAN
    /\ sinks \in {SinkOrder, <<>>}
    /\ \A p \in Emitters : /\ Len(frames[p]) <= 2
                           /\ \A i \in DOMAIN frames[p] : frames[p][i].ev \in Events
    /\ mu \subseteq Emitters
    /\ stage \in {"none", "dial", "send", "redial", "resend"}
    /\ conn \in {"none", "live", "stale"}
    /\ collector \in {"up", "down", "stalled"} /\ faults <= MaxFaults
    /\ closing \in AllSinks \cup {"no", "done"}
    /\ \A k \in AllSinks : ToSet(written[k]) \subseteq Events
    /\ failed \subseteq AllSinks \X Events
    /\ Len(ring) <= RingMax

\* The evidence comes before the response: when the detector scores an event
\* (and may block for it), the NDJSON log already holds it or its loss has
\* been reported through onError.  And the response is not lost: an event the
\* bus took on is on its way to the detector or has reached it, whichever sinks
\* before it failed, as long as the bus is not being closed.
RecordedBeforeScored ==
    /\ JSONFile => \A e \in ToSet(written["detector"]) :
                      e \in ToSet(written["file"]) \/ <<"file", e>> \in failed
    /\ closing = "no" =>
          \A e \in Taken : \/ e \in ToSet(written["detector"])
                           \/ \E p \in Emitters : \E i \in DOMAIN frames[p] : frames[p][i].ev = e

\* In every sink's record a Block event stands after the event that caused it
\* whenever both are there, and no sink accepts an event twice although
\* SyslogSink.Write sends again after an error; what "mimic ctl logs" serves
\* from the ring is the end of that record, without a gap.  Once Bus.Close has
\* returned ("Close closes all sinks") no syslog connection stays open and the
\* file is closed, if no goroutine was inside Emit at the time: one that is
\* dials again behind Close.
Position(k, e) == CHOOSE i \in DOMAIN written[k] : written[k][i] = e
SinksAreCoherent ==
    /\ closing = "done" /\ orderly => conn = "none" /\ ~fileOpen
    /\ \A k \in AllSinks :
        /\ Cardinality(ToSet(written[k])) = Len(written[k])
        /\ \A e \in ToSet(written[k]) :
              ~IsBlock(e) /\ BlockOf(e) \in ToSet(written[k]) =>
                  Position(k, e) < Position(k, BlockOf(e))
        /\ IsSuffix(ring, written["ring"])

\* The collector accepts connections but no longer reads: SyslogSink.Write has
\* no deadline and waits for it, with SyslogSink.mu held.
Stalled == collector = "stalled"

\* Emit returns to the honeypot, also from the Emit inside an Emit, and
\* CloseGlobal to runMimic, unless the collector stalls: nobody waits for ever
\* for Bus.mu or SyslogSink.mu.
EmitReturns ==
    /\ \A p \in Emitters : frames[p] # <<>> ~> (frames[p] = <<>> \/ Stalled)
    /\ closing # "no" ~> (closing = "done" \/ Stalled)

\* Emit never blocks the caller ("never block or panic the caller"), whatever
\* the sinks do.
NeverBlocks == \A p \in Emitters : frames[p] # <<>> ~> frames[p] = <<>>
=============================================================================
