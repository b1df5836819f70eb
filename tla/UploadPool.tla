----------------------------- MODULE UploadPool -----------------------------
(***************************************************************************)
(* The background upload pool of src/src/uploads.py: one ThreadPoolExecutor*)
(* worker, the module-level list _PENDING behind _POOL_LOCK, the callers   *)
(* that write a local file and put_async it, wait_for_uploads, and the     *)
(* flush at interpreter exit.  A path stands for a local file and the S3   *)
(* key it is mirrored to (contents.py), a version for the bytes in it.  The*)
(* file is written in place over time, and nothing keeps a transfer of it  *)
(* that is still queued from reading the middle.                           *)
(***************************************************************************)
EXTENDS Integers, Sequences, FiniteSets

CONSTANTS
    Thread,      \* the threads of the program that call the library
    NoPath,      \* no path: a model value
    Path,        \* the local paths uploaded, each to its own S3 key
    Dirs,        \* those that are directories: their files are uploaded one by one
    MaxJobs,     \* bound: put_async calls in a behaviour
    MaxWrites,   \* bound: times a file is opened for writing in a behaviour
    Attempts     \* transfers tried per upload: s3_retries() and the boto3 fallback

ASSUME UploadPoolAssumption ==
    /\ IsFiniteSet(Thread)
    /\ Dirs \subseteq Path
    /\ MaxJobs \in Nat
    /\ MaxWrites \in Nat
    /\ Attempts \in Nat \ {0}
    /\ NoPath \notin Path

Absent == 0

Job == 1 .. MaxJobs

\* Unsettled jobs sit in the executor's queue or are in its worker's hands.
Working == {"transfer", "reading", "landed"}
Unsettled == {"queued"} \cup Working
Status == {"none", "ok", "failed"} \cup Unsettled

VARIABLES
    local,       \* [Path -> version on the local disk, Absent when there is no file]
    remote,      \* [Path -> version under the S3 key, Absent when there is none]
    written,     \* [Path -> number of versions the program has begun to write]
    half,        \* the paths whose file is half written: a write is under way or raised
    cut,         \* the paths whose key holds no whole version: half a file, part of a directory
    made,        \* number of jobs submitted so far; they are numbered in order
    path,        \* [Job -> Path]: the closure of the submitted job
    keep,        \* [Job -> BOOLEAN]: its keep_local
    fut,         \* [Job -> Status]: the state of its Future
    tries,       \* [Job -> transfers that failed]
    seen,        \* [Job -> version read by the transfer in progress]
    mid,         \* the jobs whose transfer has read a file while it was written
    queue,       \* the executor's work queue, a sequence of jobs
    pending,     \* _PENDING, a sequence of jobs
    pc,          \* [Thread -> where the thread is]
    arg,         \* [Thread -> the path it writes or has written and not submitted, or NoPath]
    mine,        \* [Thread -> the job it has submitted and not tracked yet, or 0]
    hands,       \* [Thread -> the futures its wait_for_uploads has still to await]
    phase,       \* of the process: "up", "draining", "exited" or "killed"
    \* History, for the properties only:
    raised,      \* some wait_for_uploads has raised
    overlapped,  \* some wait_for_uploads began while another was waiting
    asked,       \* [Thread -> the jobs tracked when its current wait was called]
    rewritten,   \* the paths opened for writing while an upload of them was unsettled
    promised     \* the jobs a normal return of wait_for_uploads has vouched for

disk == <<local, remote, written, half, cut>>
jobs == <<made, path, keep, fut, tries, seen, mid, queue>>
callers == <<pc, arg, mine, hands>>
history == <<raised, overlapped, rewritten, asked, promised>>
vars == <<disk, jobs, pending, callers, phase, history>>

Elems(s) == {s[i] : i \in 1 .. Len(s)}

\* The threads inside the with-block of contents.open, alone in the file or not.
Inside(t) == pc[t] \in {"writing", "mixing"}

Busy == {j \in Job : fut[j] \in Working}
Tracked == {j \in Job : j <= made /\ \A t \in Thread : mine[t] # j}
Outstanding(p) ==
    \/ \E j \in Job : path[j] = p /\ fut[j] \in Unsettled
    \/ \E t \in Thread : arg[t] = p
Idle(t) == phase = "up" /\ pc[t] = "idle"

Init ==
    /\ local = [p \in Path |-> Absent]
    /\ remote = [p \in Path |-> Absent]
    /\ written = [p \in Path |-> 0]
    /\ half = {} /\ cut = {} /\ mid = {}
    /\ made = 0
    /\ path = [j \in Job |-> NoPath]
    /\ keep = [j \in Job |-> TRUE]
    /\ fut = [j \in Job |-> "none"]
    /\ tries = [j \in Job |-> 0]
    /\ seen = [j \in Job |-> Absent]
    /\ queue = <<>>
    /\ pending = <<>>
    /\ pc = [t \in Thread |-> "idle"]
    /\ arg = [t \in Thread |-> NoPath]
    /\ mine = [t \in Thread |-> 0]
    /\ hands = [t \in Thread |-> <<>>]
    /\ phase = "up"
    /\ raised = FALSE
    /\ overlapped = FALSE
    /\ rewritten = {}
    /\ asked = [t \in Thread |-> {}]
    /\ promised = {}

-----------------------------------------------------------------------------
(* Bugs the properties must tell from the code.                            *)

\* The upload queued in a `finally`: a with-block that raised is sent as well.
RaisesYetQueues(t) ==
    /\ phase = "up" /\ Inside(t)
    /\ pc' = [pc EXCEPT ![t] = "written"]
    /\ UNCHANGED <<disk, jobs, pending, arg, mine, hands, phase, history>>

\* A worker thread that ends with the first upload that fails.
WorkerEndsOnFailure == IF \E j \in Job : fut[j] = "failed" THEN 0 ELSE 1

\* track_future without the lock: an append that overwrites another one.
TrackOverwrites(t) ==
    /\ phase = "up" /\ pc[t] = "submitted"
    /\ pending' = <<mine[t]>>
    /\ mine' = [mine EXCEPT ![t] = 0]
    /\ pc' = [pc EXCEPT ![t] = "idle"]
    /\ UNCHANGED <<disk, jobs, arg, hands, phase, history>>

\* A wait that looks at done() and never at the exception.
IsDone(j) == fut[j] \in {"ok", "failed"}

\* One attempt too many.
RetriesOnceMore(j) == tries[j] < Attempts

\* A `finally` around the removal: a failed upload drops the local copy too.
FailureDropsLocal(j) ==
    /\ phase \in {"up", "draining"} /\ fut[j] \in {"transfer", "reading"}
    /\ tries' = [tries EXCEPT ![j] = @ + 1]
    /\ fut' = [fut EXCEPT ![j] = IF tries[j] + 1 < Attempts THEN "transfer" ELSE "failed"]
    /\ local' = IF tries[j] + 1 < Attempts \/ keep[j] THEN local
                ELSE [local EXCEPT ![path[j]] = Absent]
    /\ seen' = [seen EXCEPT ![j] = Absent]
    /\ mid' = mid \ {j}
    /\ UNCHANGED <<remote, written, half, cut, made, path, keep, queue, pending, callers,
                   phase, history>>

\* An exit that abandons the queue, as with daemon workers.
ExitAbandons == phase = "draining"

-----------------------------------------------------------------------------
(* The callers' threads.                                                   *)

\* ThreadPoolExecutor(max_workers=1).
MaxWorkers == 1

\* contents.open yields the path and the user opens it for writing, over what it
\* holds.  A transfer that is reading it may meet the new bytes or have all of
\* the old ones; a second thread in the same file leaves a mixture.
WriteBegin(t, p) ==
    /\ Idle(t)
    /\ made + Cardinality({u \in Thread : arg[u] # NoPath}) < MaxJobs
    /\ Cardinality({w \in Path \X (1 .. MaxWrites) : w[2] <= written[w[1]]}) < MaxWrites
    /\ written' = [written EXCEPT ![p] = @ + 1]
    /\ local' = [local EXCEPT ![p] = written[p] + 1]
    /\ half' = half \cup {p}
    /\ \E met \in SUBSET {j \in Job : path[j] = p /\ fut[j] = "reading"} : mid' = mid \cup met
    /\ pc' = [u \in Thread |->
                IF u = t THEN IF \E v \in Thread : Inside(v) /\ arg[v] = p
                              THEN "mixing" ELSE "writing"
                ELSE IF Inside(u) /\ arg[u] = p THEN "mixing" ELSE pc[u]]
    /\ arg' = [arg EXCEPT ![t] = p]
    /\ rewritten' = IF Outstanding(p) THEN rewritten \cup {p} ELSE rewritten
    /\ UNCHANGED <<remote, cut, made, path, keep, fut, tries, seen, queue, pending, mine, hands,
                   phase, raised, overlapped, asked, promised>>

\* The with-block ends: the file is whole, unless another thread wrote in it too.
WriteEnd(t) ==
    /\ phase = "up" /\ Inside(t)
    /\ half' = IF pc[t] = "writing" THEN half \ {arg[t]} ELSE half
    /\ pc' = [pc EXCEPT ![t] = "written"]
    /\ UNCHANGED <<local, remote, written, cut, jobs, pending, arg, mine, hands, phase, history>>

\* The with-block raises: what is written stays there, and nothing is queued.
WriteRaises(t) ==
    /\ phase = "up" /\ Inside(t)
    /\ pc' = [pc EXCEPT ![t] = "idle"]
    /\ arg' = [arg EXCEPT ![t] = NoPath]
    /\ UNCHANGED <<disk, jobs, pending, mine, hands, phase, history>>

\* _pool().submit(_do): the job is queued, its future is not tracked yet.
Submit(t) ==
    /\ phase = "up" /\ pc[t] = "written"
    /\ \E k \in BOOLEAN : keep' = [keep EXCEPT ![made + 1] = k]
    /\ made' = made + 1
    /\ path' = [path EXCEPT ![made + 1] = arg[t]]
    /\ fut' = [fut EXCEPT ![made + 1] = "queued"]
    /\ queue' = Append(queue, made + 1)
    /\ mine' = [mine EXCEPT ![t] = made + 1]
    /\ pc' = [pc EXCEPT ![t] = "submitted"]
    /\ arg' = [arg EXCEPT ![t] = NoPath]
    /\ UNCHANGED <<disk, tries, seen, mid, pending, hands, phase, history>>

\* contents.open queues nothing when the file it finds is gone.
SkipMissing(t) ==
    /\ phase = "up" /\ pc[t] = "written" /\ local[arg[t]] = Absent
    /\ pc' = [pc EXCEPT ![t] = "idle"]
    /\ arg' = [arg EXCEPT ![t] = NoPath]
    /\ UNCHANGED <<disk, jobs, pending, mine, hands, phase, history>>

\* track_future: _PENDING.append under the lock.
Track(t) ==
    /\ phase = "up" /\ pc[t] = "submitted"
    /\ pending' = Append(pending, mine[t])
    /\ mine' = [mine EXCEPT ![t] = 0]
    /\ pc' = [pc EXCEPT ![t] = "idle"]
    /\ UNCHANGED <<disk, jobs, arg, hands, phase, history>>

\* wait_for_uploads copies _PENDING and clears it under one lock.
WaitBegin(t) ==
    /\ Idle(t) /\ pending # <<>>
    /\ hands' = [hands EXCEPT ![t] = pending]
    /\ pending' = <<>>
    /\ pc' = [pc EXCEPT ![t] = "waiting"]
    /\ overlapped' = (overlapped \/ \E u \in Thread : pc[u] = "waiting")
    /\ asked' = [asked EXCEPT ![t] = Tracked]
    /\ UNCHANGED <<disk, jobs, arg, mine, phase, raised, rewritten, promised>>

\* ... and returns at once when the list is empty.
WaitEmpty(t) ==
    /\ Idle(t) /\ pending = <<>>
    /\ overlapped' = (overlapped \/ \E u \in Thread : pc[u] = "waiting")
    /\ promised' = promised \cup Tracked
    /\ UNCHANGED <<disk, jobs, pending, callers, phase, raised, rewritten, asked>>

\* fut.result() of the next future comes back without raising.
Succeeds(j) == fut[j] = "ok"

WaitNext(t) ==
    /\ phase = "up" /\ pc[t] = "waiting"
    /\ Succeeds(Head(hands[t]))
    /\ hands' = [hands EXCEPT ![t] = Tail(@)]
    /\ IF Len(hands[t]) = 1
       THEN /\ pc' = [pc EXCEPT ![t] = "idle"]
            /\ promised' = promised \cup asked[t]
            /\ asked' = [asked EXCEPT ![t] = {}]
       ELSE UNCHANGED <<pc, promised, asked>>
    /\ UNCHANGED <<disk, jobs, pending, arg, mine, phase, raised, overlapped, rewritten>>

\* fut.result() raises, and the exception leaves the loop: the rest of the copy
\* is dropped.
Raise(t) ==
    /\ hands' = [hands EXCEPT ![t] = <<>>]
    /\ pc' = [pc EXCEPT ![t] = "idle"]
    /\ raised' = TRUE
    /\ asked' = [asked EXCEPT ![t] = {}]
    /\ UNCHANGED <<disk, jobs, pending, arg, mine, phase, overlapped, rewritten, promised>>

\* The upload awaited has failed.
WaitFails(t) ==
    /\ phase = "up" /\ pc[t] = "waiting"
    /\ fut[Head(hands[t])] = "failed"
    /\ Raise(t)

\* The caller gave a timeout, and it is over before the upload has settled.
WaitTimesOut(t) ==
    /\ phase = "up" /\ pc[t] = "waiting"
    /\ fut[Head(hands[t])] \in Unsettled
    /\ Raise(t)

-----------------------------------------------------------------------------
(* The worker thread of the executor, running _do of put_async.            *)

Alive == phase \in {"up", "draining"}

StartJob ==
    /\ Alive /\ queue # <<>>
    /\ Cardinality(Busy) < MaxWorkers
    /\ fut' = [fut EXCEPT ![Head(queue)] = "transfer"]
    /\ queue' = Tail(queue)
    /\ UNCHANGED <<disk, made, path, keep, tries, seen, mid, pending, callers, phase, history>>

\* A transfer (a CLI run or the boto3 fallback) reads the file that is there now,
\* the middle of it when it is being written.
ReadLocal(j) ==
    /\ Alive /\ fut[j] = "transfer"
    /\ local[path[j]] # Absent
    /\ seen' = [seen EXCEPT ![j] = local[path[j]]]
    /\ mid' = IF path[j] \in half THEN mid \cup {j} ELSE mid
    /\ fut' = [fut EXCEPT ![j] = "reading"]
    /\ UNCHANGED <<disk, made, path, keep, tries, queue, pending, callers, phase, history>>

\* The retry loop has attempts left.
Retries(j) == tries[j] + 1 < Attempts

\* A transfer fails; the retry loop tries again until the attempts are used up.
AttemptFails(j) ==
    /\ Alive /\ fut[j] \in {"transfer", "reading"}
    /\ tries' = [tries EXCEPT ![j] = IF Retries(j) THEN @ + 1 ELSE @]
    /\ fut' = [fut EXCEPT ![j] = IF Retries(j) THEN "transfer" ELSE "failed"]
    /\ seen' = [seen EXCEPT ![j] = Absent]
    /\ mid' = mid \ {j}
    /\ UNCHANGED <<disk, made, path, keep, queue, pending, callers, phase, history>>

\* A directory is uploaded file by file: some objects are replaced, others not yet.
LandSome(j) ==
    /\ Alive /\ fut[j] = "reading" /\ path[j] \in Dirs
    /\ remote' = [remote EXCEPT ![path[j]] = seen[j]]
    /\ cut' = cut \cup {path[j]}
    /\ UNCHANGED <<local, written, half, jobs, pending, callers, phase, history>>

\* The last object is replaced on S3: one PUT is atomic.
Land(j) ==
    /\ Alive /\ fut[j] = "reading"
    /\ remote' = [remote EXCEPT ![path[j]] = seen[j]]
    /\ cut' = IF j \in mid THEN cut \cup {path[j]} ELSE cut \ {path[j]}
    /\ seen' = [seen EXCEPT ![j] = Absent]
    /\ mid' = mid \ {j}
    /\ fut' = [fut EXCEPT ![j] = "landed"]
    /\ UNCHANGED <<local, written, half, made, path, keep, tries, queue,
                   pending, callers, phase, history>>

\* After the transfer: the local copy goes when keep_local is off.
Finish(j) ==
    /\ Alive /\ fut[j] = "landed"
    /\ local' = IF keep[j] THEN local ELSE [local EXCEPT ![path[j]] = Absent]
    /\ fut' = [fut EXCEPT ![j] = "ok"]
    /\ UNCHANGED <<remote, written, half, cut, made, path, keep, tries, seen, mid, queue,
                   pending, callers, phase, history>>

-----------------------------------------------------------------------------
(* The end of the process.                                                 *)

\* The main program ends: concurrent.futures lets its worker finish the queue
\* before the atexit handlers run, and takes no new job.
ExitBegin ==
    /\ phase = "up" /\ \A t \in Thread : pc[t] = "idle"
    /\ phase' = "draining"
    /\ UNCHANGED <<disk, jobs, pending, callers, history>>

Drained == phase = "draining" /\ queue = <<>> /\ Busy = {}

\* _atexit_flush: what is pending is awaited; a failure is logged, not raised.
AtexitFlush ==
    /\ Drained
    /\ pending' = <<>>
    /\ phase' = "exited"
    /\ UNCHANGED <<disk, jobs, callers, history>>

\* Preemption: what was in memory is gone, the disk and the bucket stay.
Kill ==
    /\ Alive
    /\ phase' = "killed"
    /\ fut' = [j \in Job |-> "none"] /\ made' = 0
    /\ path' = [j \in Job |-> NoPath] /\ keep' = [j \in Job |-> TRUE]
    /\ tries' = [j \in Job |-> 0] /\ seen' = [j \in Job |-> Absent]
    /\ mid' = {}
    /\ queue' = <<>> /\ pending' = <<>>
    /\ pc' = [t \in Thread |-> "idle"] /\ arg' = [t \in Thread |-> NoPath]
    /\ mine' = [t \in Thread |-> 0] /\ hands' = [t \in Thread |-> <<>>]
    /\ raised' = FALSE /\ overlapped' = FALSE
    /\ asked' = [t \in Thread |-> {}] /\ promised' = {}
    /\ UNCHANGED <<disk, rewritten>>

Ended == phase \in {"exited", "killed"} /\ UNCHANGED vars

Caller(t) ==
    \/ \E p \in Path : WriteBegin(t, p)
    \/ WriteEnd(t)
    \/ WriteRaises(t)
    \/ Submit(t)
    \/ SkipMissing(t)
    \/ Track(t)
    \/ WaitBegin(t)
    \/ WaitEmpty(t)
    \/ WaitNext(t)
    \/ WaitFails(t)
    \/ WaitTimesOut(t)

Worker ==
    \/ StartJob
    \/ \E j \in Job : ReadLocal(j) \/ AttemptFails(j) \/ LandSome(j) \/ Land(j) \/ Finish(j)

Next ==
    \/ \E t \in Thread : Caller(t)
    \/ Worker
    \/ ExitBegin
    \/ AtexitFlush
    \/ Kill
    \/ Ended

Spec == Init /\ [][Next]_vars

\* The worker thread is scheduled, and a thread inside wait_for_uploads resumes
\* when its future is done.  Nothing obliges the program to call, or to exit.
Fairness ==
    /\ WF_vars(Worker)
    /\ \A t \in Thread : WF_vars(WaitNext(t) \/ WaitFails(t))

FairSpec == Spec /\ Fairness

-----------------------------------------------------------------------------
(* Properties.                                                             *)

TypeOK ==
    /\ local \in [Path -> Nat] /\ remote \in [Path -> Nat] /\ written \in [Path -> Nat]
    /\ half \in SUBSET Path /\ cut \in SUBSET Path /\ mid \in SUBSET Job
    /\ made \in 0 .. MaxJobs
    /\ path \in [Job -> Path \cup {NoPath}] /\ keep \in [Job -> BOOLEAN]
    /\ fut \in [Job -> Status] /\ tries \in [Job -> 0 .. Attempts - 1] /\ seen \in [Job -> Nat]
    /\ queue \in Seq(Job) /\ pending \in Seq(Job)
    /\ pc \in [Thread -> {"idle", "writing", "mixing", "written", "submitted", "waiting"}]
    /\ arg \in [Thread -> Path \cup {NoPath}] /\ mine \in [Thread -> 0 .. MaxJobs]
    /\ hands \in [Thread -> Seq(Job)]
    /\ phase \in {"up", "draining", "exited", "killed"}
    /\ raised \in BOOLEAN /\ overlapped \in BOOLEAN /\ rewritten \in SUBSET Path
    /\ asked \in [Thread -> SUBSET Job] /\ promised \in SUBSET Job

\* Until a wait raises, every upload that has not succeeded is still known to
\* somebody who will report it: it is in _PENDING, in the copy some
\* wait_for_uploads is going through, or about to be tracked by its submitter.
InReach(j) ==
    \/ j \in Elems(pending)
    \/ \E t \in Thread : j \in Elems(hands[t]) \/ mine[t] = j

Accounted ==
    ~raised /\ phase = "up" =>
        \A j \in Job : j <= made /\ fut[j] # "ok" => InReach(j)

\* When wait_for_uploads returns, every upload tracked before the call has
\* finished well (uploads.py: "Block until queued background uploads finish;
\* re-raise any failures").
ReturnMeansFinished == \A j \in promised : fut[j] = "ok"

\* It is so as long as no wait has raised and no two waits have overlapped.
ReturnMeansFinishedAlone == raised \/ overlapped \/ ReturnMeansFinished

\* put_async never destroys the only copy: the last version of a path whose
\* write has ended is whole on the local disk or on S3, in every state, killed
\* processes included.
Whole(p) == remote[p] = written[p] /\ p \notin cut
Safe(p) == p \in half \/ written[p] \in {0, local[p]} \/ Whole(p)
NoContentLost == \A p \in Path : Safe(p)

\* It is so for a path that is left alone while an upload of it is unsettled.
NoContentLostIfLeftAlone == \A p \in Path \ rewritten : Safe(p)

\* A clean exit with no failed upload leaves the last version of every file whose
\* write has ended whole on S3, unless it was opened for writing under an upload.
CleanExitPublishesAll ==
    phase = "exited" /\ (\A j \in Job : fut[j] # "failed") =>
        \A p \in Path \ (rewritten \cup half) : Whole(p)

\* Seen from S3 the pool is a publisher: no key ever goes back to an older
\* version, and the key of a file holds a whole version unless the file was
\* opened for writing while an upload of it was unsettled: that one may have
\* read the middle.  A directory is whole when its upload is over.
Mirror == INSTANCE PublishedCopy WITH published <- remote, torn <- cut, crossed <- rewritten
MirrorSpec == Mirror!Spec

\* Every submitted upload comes to an end, unless the process is killed.
EveryUploadSettles ==
    \A j \in Job : fut[j] = "queued" ~> (fut[j] \in {"ok", "failed"} \/ phase = "killed")

\* No wait_for_uploads blocks for ever, unless the process is killed.
EveryWaitEnds ==
    \A t \in Thread : pc[t] = "waiting" ~> (pc[t] # "waiting" \/ phase = "killed")

=============================================================================
