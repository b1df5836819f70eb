------------------------------- MODULE LogTee -------------------------------
(***************************************************************************)
(* LogTee and _Flusher of src/src/logtee.py: a program appends lines to a  *)
(* local log, a daemon thread uploads the log again while it grows, and    *)
(* close() stops the thread, waits for it for a while and uploads once     *)
(* more.  The pod may be killed and the job started again, on the same     *)
(* disk or on an empty one.  A log is the number of its lines.             *)
(***************************************************************************)
EXTENDS Integers

CONSTANTS
    MaxLines,     \* bound: lines in the log
    MaxCrashes    \* bound: times the job is killed

ASSUME LogTeeAssumption == MaxLines \in Nat /\ MaxCrashes \in Nat

\* Those who run _upload_if_dirty: the thread, and the caller of close().
Actor == {"flusher", "closer"}

NotSent == -1
NoObject == -1

VARIABLES
    local,     \* lines in the local log
    remote,    \* lines in the object on S3, or NoObject
    sent,      \* _uploaded_size
    stop,      \* the event _stop
    pc,        \* [Actor -> where it is]; the closer is "up" until close() is called
    size,      \* [Actor -> what getsize returned]
    read,      \* [Actor -> the lines its upload has read]
    crashes,   \* times the job was killed
    \* History, for the properties only:
    due,       \* lines in the log when close() was called
    failed,    \* the upload of close() has failed
    late,      \* close() has gone on without the thread
    fresh      \* the job runs on an empty disk and has not uploaded from it

log == <<local, stop, crashes, due, late>>
vars == <<local, remote, sent, stop, pc, size, read, crashes, due, failed, late, fresh>>

Lines == 0 .. MaxLines

Goto(a, l) == pc' = [pc EXCEPT ![a] = l]

Init ==
    /\ local = 0 /\ remote = NoObject /\ sent = NotSent /\ stop = FALSE
    /\ pc = [a \in Actor |-> IF a = "flusher" THEN "waiting" ELSE "up"]
    /\ size = [a \in Actor |-> 0] /\ read = [a \in Actor |-> 0]
    /\ crashes = 0 /\ due = 0
    /\ failed = FALSE /\ late = FALSE /\ fresh = FALSE

-----------------------------------------------------------------------------
(* Bugs the properties must tell from the code.                            *)

\* A join that waits for nothing.
JoinsNobody == TRUE

\* The size noted is that of the log after the upload.
MeasuredAfter(a) == local

\* Only the first upload is made.
NeverSent == sent = NotSent

\* A failed upload ends the thread.
EndsOnFailure(a) == IF a = "flusher" THEN "ended" ELSE "closed"

\* The size noted outlives the log.
RemembersSent == sent

-----------------------------------------------------------------------------
(* The program and its streams.                                            *)

\* _TeeStream.write: logging handlers hold the stream after close() has put the
\* old one back, so lines come until the file is closed.
Write ==
    /\ pc["closer"] # "closed" /\ local < MaxLines
    /\ local' = local + 1
    /\ UNCHANGED <<remote, sent, stop, pc, size, read, crashes, due, failed, late, fresh>>

Close ==
    /\ pc["closer"] = "up"
    /\ stop' = TRUE /\ Goto("closer", "joining")
    /\ due' = local
    /\ UNCHANGED <<local, remote, sent, size, read, crashes, failed, late, fresh>>

Joined == pc["flusher"] = "ended"

JoinEnds ==
    /\ pc["closer"] = "joining" /\ Joined
    /\ Goto("closer", "check")
    /\ UNCHANGED <<log, remote, sent, size, read, failed, fresh>>

\* join(timeout=...): an upload with its retries may take longer.
JoinTimesOut ==
    /\ pc["closer"] = "joining" /\ ~Joined
    /\ Goto("closer", "check")
    /\ late' = TRUE
    /\ UNCHANGED <<local, remote, sent, stop, size, read, crashes, due, failed, fresh>>

-----------------------------------------------------------------------------
(* The thread, and _upload_if_dirty.                                       *)

\* The interval is over, or the event is set.
Wake ==
    /\ pc["flusher"] = "waiting"
    /\ Goto("flusher", IF stop THEN "ended" ELSE "check")
    /\ UNCHANGED <<log, remote, sent, size, read, failed, fresh>>

\* Where _upload_if_dirty returns to.
After(a) == IF a = "flusher" THEN "waiting" ELSE "closed"
AfterFailure(a) == After(a)

Dirty == local # sent

CheckClean(a) ==
    /\ pc[a] = "check" /\ ~Dirty
    /\ Goto(a, After(a))
    /\ UNCHANGED <<log, remote, sent, size, read, failed, fresh>>

CheckDirty(a) ==
    /\ pc[a] = "check" /\ Dirty
    /\ size' = [size EXCEPT ![a] = local]
    /\ Goto(a, "send")
    /\ UNCHANGED <<log, remote, sent, read, failed, fresh>>

\* upload_file reads what the log holds by now ...
Read(a) ==
    /\ pc[a] = "send"
    /\ read' = [read EXCEPT ![a] = local]
    /\ Goto(a, "put")
    /\ UNCHANGED <<log, remote, sent, size, failed, fresh>>

\* ... and S3 has it all at once, some time later.
Land(a) ==
    /\ pc[a] = "put"
    /\ remote' = read[a] /\ fresh' = FALSE
    /\ Goto(a, "note")
    /\ UNCHANGED <<log, sent, size, read, failed>>

Measured(a) == size[a]

Note(a) ==
    /\ pc[a] = "note"
    /\ sent' = Measured(a)
    /\ Goto(a, After(a))
    /\ UNCHANGED <<log, remote, size, read, failed, fresh>>

\* The upload raises, even after S3 has the object: a warning, and the size is
\* not noted.
Fails(a) ==
    /\ pc[a] \in {"send", "put", "note"}
    /\ Goto(a, AfterFailure(a))
    /\ failed' = (failed \/ a = "closer")
    /\ UNCHANGED <<log, remote, sent, size, read, fresh>>

-----------------------------------------------------------------------------

SentAfterCrash == NotSent

\* The pod is killed, and the job starts again where the log is still there or
\* where it is not.
Crash(kept) ==
    /\ crashes < MaxCrashes
    /\ crashes' = crashes + 1
    /\ local' = (IF kept THEN local ELSE 0)
    /\ fresh' = (~kept \/ fresh)
    /\ sent' = SentAfterCrash /\ stop' = FALSE
    /\ pc' = [a \in Actor |-> IF a = "flusher" THEN "waiting" ELSE "up"]
    /\ size' = [a \in Actor |-> 0] /\ read' = [a \in Actor |-> 0]
    /\ due' = 0 /\ failed' = FALSE /\ late' = FALSE
    /\ UNCHANGED remote

Upload(a) == CheckClean(a) \/ CheckDirty(a) \/ Read(a) \/ Land(a) \/ Note(a) \/ Fails(a)

Next ==
    \/ Write \/ Close \/ JoinEnds \/ JoinTimesOut \/ Wake
    \/ \E a \in Actor : Upload(a)
    \/ \E kept \in BOOLEAN : Crash(kept)

Spec == Init /\ [][Next]_vars

\* The thread runs, and S3 does not fail for ever.
Fairness ==
    /\ WF_vars(Wake) /\ WF_vars(Upload("flusher"))
    /\ SF_vars(Read("flusher")) /\ SF_vars(Land("flusher"))

FairSpec == Spec /\ Fairness

-----------------------------------------------------------------------------
(* Properties.                                                             *)

\* Types; the size noted is one the log has reached.
TypeOK ==
    /\ local \in Lines /\ remote \in Lines \cup {NoObject}
    /\ sent \in Lines \cup {NotSent} /\ sent <= local
    /\ stop \in BOOLEAN
    /\ pc \in [Actor -> {"waiting", "ended", "up", "joining", "closed",
                         "check", "send", "put", "note"}]
    /\ size \in [Actor -> Lines] /\ read \in [Actor -> Lines]
    /\ crashes \in 0 .. MaxCrashes /\ due \in Lines
    /\ failed \in BOOLEAN /\ late \in BOOLEAN /\ fresh \in BOOLEAN

\* The object on S3 never loses lines, unless close() went on while the thread
\* was uploading, or the job has come up on an empty disk (the tee starts the
\* object again from there).
NeverBack == [][late \/ fresh \/ remote' >= remote]_vars

\* What is noted as uploaded is on S3: a check that finds the log clean leaves
\* nothing behind.
SentIsPublished == ~late => sent <= remote

\* When close() has returned, S3 has every line written before it was called,
\* unless its upload failed or it went on without the thread.
CloseUploadsAll == pc["closer"] = "closed" /\ ~failed /\ ~late => due <= remote

\* While the tee is open every line comes to S3, if S3 does not fail for ever
\* and the log is not lost: a failed upload ("will retry") is made up for.
EveryLineArrives ==
    \A n \in 1 .. MaxLines :
        local >= n ~> remote >= n \/ local < n \/ pc["closer"] # "up"

=============================================================================
