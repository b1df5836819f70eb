---------------------------- MODULE PerfTracker ----------------------------
(***************************************************************************)
(* PerfTracker of src/src/torch/observability.py on a GPU: a step is a     *)
(* record of events, read out once the GPU has come past them; events are  *)
(* used again.  One kind of sub-step stands for h2d, compute, fwd, bwd and *)
(* opt, and the GPU comes past events in the order they were recorded.     *)
(***************************************************************************)
EXTENDS Integers, Sequences, FiniteSets

CONSTANTS
    MaxPending,  \* max_pending
    MaxSteps,    \* bound on the steps
    MaxEvents    \* bound on the events recorded

ASSUME PerfTrackerAssumption == MaxPending \in Nat \ {0} /\ MaxSteps \in Nat /\ MaxEvents \in Nat

Unmarked == 0
Event == 1 .. MaxEvents
Mark == Unmarked .. MaxEvents
Slot == {"start", "end", "mark_start", "mark_end"}   \* the keys of a record that hold events

VARIABLES
    trackIo,    \* track_io and track_compute_breakdown
    created,    \* events created
    free,       \* [Event -> how often it is in the clock's free list]
    recorded,   \* recordings so far
    position,   \* [Event -> its last recording]
    passed,     \* the recordings that the GPU has come past
    cur,        \* self._cur: <<>>, or the record of the step under way
    block,      \* inside "with perf.mark(...)"
    pending,    \* self._pending
    total,      \* total_steps
    series      \* the steps of every series: step times, fetch times, marks, bytes

clock == <<created, free, recorded, position, passed>>
perfVars == <<trackIo, clock, cur, block, pending, total, series>>

Series == {"step", "fetch", "mark", "bytes"}

PerfInit ==
    /\ trackIo \in BOOLEAN
    /\ created = 0 /\ free = [e \in Event |-> 0] /\ recorded = 0
    /\ position = [e \in Event |-> 0] /\ passed = 0
    /\ cur = <<>> /\ block = FALSE /\ pending = <<>>
    /\ total = 0 /\ series = [s \in Series |-> <<>>]

-----------------------------------------------------------------------------
(* _CudaClock                                                              *)

Available == {e \in Event : free[e] > 0}

\* The event that mark() takes; which one of the free list makes no difference.
NextEvents == IF Available # {} THEN Available ELSE {created + 1}

FreeWithout(e) == IF Available # {} THEN [free EXCEPT ![e] = @ - 1] ELSE free

TakeEvent(e) ==
    /\ recorded < MaxEvents /\ e \in NextEvents
    /\ recorded' = recorded + 1
    /\ position' = [position EXCEPT ![e] = recorded + 1]
    /\ created' = IF Available # {} THEN created ELSE created + 1

GpuPasses ==
    /\ passed < recorded /\ passed' = passed + 1
    /\ UNCHANGED <<trackIo, created, free, recorded, position, cur, block, pending, total, series>>

-----------------------------------------------------------------------------

\* step_start.  A step that was begun and never ended is forgotten.
StepStart ==
    /\ total < MaxSteps
    /\ \E e \in NextEvents :
        /\ TakeEvent(e) /\ free' = FreeWithout(e)
        /\ cur' = <<[step |-> total + 1, bytes |-> FALSE,
                     events |-> [s \in Slot |-> IF s = "start" THEN e ELSE Unmarked]]>>
    /\ UNCHANGED <<trackIo, passed, block, pending, total, series>>

\* record_bytes, of no effect without a step or without track_io.  (A step that
\* fetch_end did not measure counts as 0.0 in its series.)
RecordBytes ==
    /\ trackIo /\ cur # <<>> /\ cur' = <<[cur[1] EXCEPT !.bytes = TRUE]>>
    /\ UNCHANGED <<trackIo, clock, block, pending, total, series>>

WithEvent(rec, key, e) == [rec EXCEPT !.events[key] = e]

\* The step under way gets an event under a key of its record.
MarkAs(key) ==
    \E e \in NextEvents :
        /\ TakeEvent(e) /\ free' = FreeWithout(e)
        /\ cur' = <<WithEvent(cur[1], key, e)>>

\* mark(key): the end goes to the step that is under way then, if there is one.
MarkBegin ==
    /\ trackIo /\ cur # <<>> /\ ~block
    /\ MarkAs("mark_start") /\ block' = TRUE
    /\ UNCHANGED <<trackIo, passed, pending, total, series>>

MarkEnd ==
    /\ block /\ cur # <<>>
    /\ MarkAs("mark_end") /\ block' = FALSE
    /\ UNCHANGED <<trackIo, passed, pending, total, series>>

\* The clock has marked the event; then item assignment to None raises.
MarkEndRaises ==
    /\ block /\ cur = <<>>
    /\ \E e \in NextEvents : TakeEvent(e) /\ free' = FreeWithout(e)
    /\ block' = FALSE
    /\ UNCHANGED <<trackIo, passed, cur, pending, total, series>>

-----------------------------------------------------------------------------

Ready(p, rec, pos) == pos[rec.events["end"]] <= p

\* _drain: how many of the oldest records are ready, up to the first that is not.
Drained(q, p, pos) ==
    CHOOSE n \in 0 .. Len(q) :
        /\ \A i \in 1 .. n : Ready(p, q[i], pos)
        /\ n < Len(q) => ~Ready(p, q[n + 1], pos)

Steps(q) == [i \in DOMAIN q |-> q[i].step]

\* A step without a sub-step counts as 0.0 in its series.
InMarkSeries(q) == q

\* Bytes have no such default.
WithBytes(q) == SelectSeq(q, LAMBDA rec : rec.bytes)

\* _finalize: what the records q add to a series.
Added(s, q) ==
    CASE s = "step" -> q
      [] s = "fetch" -> IF trackIo THEN q ELSE <<>>
      [] s = "mark" -> IF trackIo THEN InMarkSeries(q) ELSE <<>>
      [] s = "bytes" -> WithBytes(q)

\* Where the records q hold an event.
Places(e, q) == {w \in (DOMAIN q) \X Slot : q[w[1]].events[w[2]] = e}

\* Bug: the last event of a step is recycled twice.
RecycleTwice(e, q) == Cardinality(Places(e, q)) + Cardinality({i \in DOMAIN q : q[i].events["end"] = e})

\* recycle: every event of the records goes to the free list, what is missing does not.
Recycled(e, q) == Cardinality(Places(e, q))

\* Read out what is ready when the GPU has come to p.
ReadOut(q, p, pos, f) ==
    LET n == Drained(q, p, pos)
        done == SubSeq(q, 1, n)
    IN  /\ series' = [s \in Series |-> series[s] \o Steps(Added(s, done))]
        /\ pending' = SubSeq(q, n + 1, Len(q))
        /\ free' = [e \in Event |-> f[e] + Recycled(e, done)]

\* len(self._pending) >= self.max_pending
Full(q) == Len(q) >= MaxPending

\* synchronize(): the GPU comes to the end of the oldest step, if the queue is
\* full, or if no step has been read out so far.
StepEnd ==
    /\ cur # <<>>
    /\ \E e \in NextEvents :
        /\ TakeEvent(e)
        /\ LET q == Append(pending, WithEvent(cur[1], "end", e))
               oldest == position'[q[1].events["end"]]
               none == series["step"] = <<>> /\ Drained(q, passed, position') = 0
           IN  /\ passed' = IF (Full(q) \/ none) /\ passed < oldest THEN oldest ELSE passed
               /\ ReadOut(q, passed', position', FreeWithout(e))
    /\ cur' = <<>> /\ total' = total + 1
    /\ UNCHANGED <<trackIo, block>>

\* summary and raw_series: _drain_all waits for the last step.
Summary ==
    /\ pending # <<>>
    /\ LET last == position[pending[Len(pending)].events["end"]]
       IN  passed' = IF passed < last THEN last ELSE passed
    /\ ReadOut(pending, passed', position, free)
    /\ UNCHANGED <<trackIo, created, recorded, position, cur, block, total>>

PerfNext ==
    \/ GpuPasses \/ StepStart \/ StepEnd \/ Summary
    \/ RecordBytes \/ MarkBegin \/ MarkEnd \/ MarkEndRaises

PerfSpec == PerfInit /\ [][PerfNext]_perfVars

-----------------------------------------------------------------------------
(* Properties.                                                             *)

\* Every step that ended is read out once and in its order, late at most by
\* fewer than max_pending steps, with a value in every series that is tracked;
\* what was measured for it is never overwritten, for no event is in two places:
\* in two records, twice in one, or in a record and the free list.
StepsKept ==
    /\ series["step"] \o Steps(pending) = [i \in 1 .. total |-> i]
    /\ total > 0 => series["step"] # <<>> /\ Len(pending) < MaxPending
    /\ trackIo => series["fetch"] = series["step"] /\ series["mark"] = series["step"]
    /\ \A e \in Event : Cardinality(Places(e, pending \o cur)) + free[e] <= 1

=============================================================================
