------------------------- MODULE DeepSpeedCheckpoint -------------------------
(***************************************************************************)
(* CheckpointManager of src/src/torch/manager.py on its DeepSpeed path with*)
(* an s3_prefix: every node saves its files under local_dir, meets the     *)
(* others at a barrier and uploads its own directory, in the save call or  *)
(* in its own background pool; global rank 0, on node 0, adds the marker   *)
(* and prunes.  A node stands for all its ranks: they write their files    *)
(* together before the barrier, and after it only local rank 0 acts.       *)
(***************************************************************************)
EXTENDS Integers, FiniteSets

CONSTANTS
    MaxNodes,    \* bound: nodes of a job
    MaxStep,     \* bound: the job saves steps 1 .. MaxStep (in units of the save interval)
    MaxEpoch,    \* bound: incarnations of the job, one more than preemptions
    KeepLast,    \* keep_last
    KeepLocal    \* keep_local

ASSUME DeepSpeedAssumption ==
    /\ MaxNodes \in Nat \ {0} /\ MaxStep \in Nat /\ MaxEpoch \in Nat \ {0}
    /\ KeepLast \in Nat \ {0} /\ KeepLocal \in BOOLEAN

Step == 1 .. MaxStep
Epoch == 1 .. MaxEpoch
Absent == 0
NotYet == -1
Main == 0

\* What a node uploads for one step: DeepSpeed's files and the extras sidecars.
\* They are sent one by one, so an upload may be half there.
File == {"shards", "extras"}

VARIABLES
    nodes,     \* the nodes of this job, 0 .. n-1
    async,     \* async_save
    resave,    \* does the loop save the step it resumed from once more (README)?
    epoch,     \* the current incarnation
    store,     \* [Step -> [File \X Node -> epoch that wrote it]]: the objects on S3
    marker,    \* [Step -> epoch that wrote _ARC_COMPLETE, or Absent]
    local,     \* [Node -> [Step -> epoch of the local copy, or Absent]]
    pc,        \* [Node -> where its main thread is]
    job,       \* [Node -> the state of its upload of step at[n]]
    inflight,  \* [Node -> whether _inflight holds its future]
    target,    \* [Node -> the step load_latest returned, NotYet before]
    at,        \* [Node -> the step of its last save, counting from the resumed one]
    todo,      \* steps _prune_old has still to remove
    swept,     \* history: the last _prune_old saw and removed all it should
    cut,       \* history: steps of which some node's upload was never finished
    missed     \* history: a load_latest has missed the newest checkpoint

config == <<nodes, async, resave>>
control == <<config, epoch, missed>>
s3 == <<store, marker>>
mem == <<pc, job, inflight, target, at>>
vars == <<control, s3, local, mem, todo, swept, cut>>

Node == 0 .. MaxNodes - 1

-----------------------------------------------------------------------------
(* Bugs the properties must tell from the code.                            *)

\* No barrier between the local save and the upload.
NoBarrier(m, s) == TRUE

\* latest_checkpoint returning its initial best_step, -1.
MaxFromMinusOne(S) == CHOOSE x \in S \cup {-1} : \A y \in S : y <= x

\* upload_dir returning with the first file that is up.
SentSome(n) == \E f \in File : store[at[n]][f, n] = local[n][at[n]]

\* A failed asynchronous upload that nobody looks at again.
RaiseInSaveOnly(n) ==
    /\ pc[n] = "uploading" /\ job[n] = "failed"
    /\ pc' = [pc EXCEPT ![n] = "dead"]
    /\ UNCHANGED <<control, s3, local, job, inflight, target, at, todo, swept, cut>>

\* keep_last counts one checkpoint too many.
LastPlusOne(S) == {s \in S : Cardinality({t \in S : t > s}) <= KeepLast}

-----------------------------------------------------------------------------
(* The checkpoints in the store.                                           *)

MaxOf(S) == CHOOSE x \in S \cup {0} : \A y \in S : y <= x

\* _is_complete: DeepSpeed leaves no .metadata, so it is the marker.
Complete == {s \in Step : marker[s] # Absent}

\* Node n's part of step s is on S3, all from incarnation e.
Uploaded(n, s, e) == \A f \in File : store[s][f, n] = e

\* Every node's part is there and was written by one incarnation of the job.
Whole(s) == \E e \in Epoch : \A n \in nodes : Uploaded(n, s, e)

Init ==
    /\ nodes \in {0 .. k - 1 : k \in 1 .. MaxNodes}
    /\ async \in BOOLEAN /\ resave \in BOOLEAN
    /\ epoch = 1 /\ missed = FALSE
    /\ store = [s \in Step |-> [x \in File \X Node |-> Absent]]
    /\ marker = [s \in Step |-> Absent]
    /\ local = [n \in Node |-> [s \in Step |-> Absent]]
    /\ pc = [n \in Node |-> "resume"]
    /\ job = [n \in Node |-> "idle"]
    /\ inflight = [n \in Node |-> FALSE]
    /\ target = [n \in Node |-> NotYet]
    /\ at = [n \in Node |-> 0]
    /\ todo = {}
    /\ swept = FALSE
    /\ cut = {}

-----------------------------------------------------------------------------
(* load_latest, then the loop                                              *)

\* A head that fails is read as "not there", and a listing whose failure looks like
\* "not found" as empty: a process may take an older checkpoint, or none.
Resume(n) ==
    /\ pc[n] = "resume"
    /\ \E found \in SUBSET Complete :
        /\ target' = [target EXCEPT ![n] = MaxOf(found)]
        /\ missed' = (missed \/ MaxOf(found) # MaxOf(Complete))
    /\ pc' = [pc EXCEPT ![n] = "load"]
    /\ UNCHANGED <<config, epoch, s3, local, job, inflight, at, todo, swept, cut>>

\* _stage_from_s3: each node downloads and they meet at a barrier, unless
\* there is nothing to load.  The documented loop, range(start_step, ...), saves the
\* step it resumed from once more.
Load(n) ==
    /\ pc[n] = "load"
    /\ target[n] = 0 \/ \A m \in nodes : pc[m] # "resume" /\ target[m] # 0
    /\ at' = [at EXCEPT ![n] = IF resave /\ target[n] # 0 THEN target[n] - 1 ELSE target[n]]
    /\ pc' = [pc EXCEPT ![n] = "train"]
    /\ UNCHANGED <<control, s3, local, job, inflight, target, todo, swept, cut>>

\* _drain_inflight: the future of the previous save has succeeded.
Drain(n) ==
    /\ inflight[n] => job[n] = "ok"
    /\ inflight' = [inflight EXCEPT ![n] = FALSE]
    /\ job' = [job EXCEPT ![n] = "idle"]

BeginSave(n) ==
    /\ pc[n] = "train" /\ at[n] < MaxStep
    /\ Drain(n)
    /\ at' = [at EXCEPT ![n] = @ + 1]
    /\ pc' = [pc EXCEPT ![n] = "save"]
    /\ UNCHANGED <<control, s3, local, target, todo, swept, cut>>

\* wait() before exit.
Finish(n) ==
    /\ pc[n] = "train" /\ at[n] = MaxStep
    /\ Drain(n)
    /\ pc' = [pc EXCEPT ![n] = "done"]
    /\ UNCHANGED <<control, s3, local, target, at, todo, swept, cut>>

\* An upload that failed raises on its node, out of save() or of the drain, and
\* ends the process: the other nodes can only wait for it until the job restarts.
Raise(n) ==
    /\ \/ pc[n] = "uploading"
       \/ pc[n] = "train" /\ inflight[n]
    /\ job[n] = "failed"
    /\ pc' = [pc EXCEPT ![n] = "dead"]
    /\ UNCHANGED <<control, s3, local, job, inflight, target, at, todo, swept, cut>>

\* On one node the caller may catch it: the list of futures is already empty,
\* and the loop goes on without the step that was not saved.
CatchAlone(n) ==
    /\ nodes = {n}
    /\ \/ pc[n] = "uploading" /\ UNCHANGED at
       \/ pc[n] = "train" /\ inflight[n]
          /\ at' = [at EXCEPT ![n] = IF @ < MaxStep THEN @ + 1 ELSE @]
    /\ job[n] = "failed"
    /\ job' = [job EXCEPT ![n] = "idle"]
    /\ inflight' = [inflight EXCEPT ![n] = FALSE]
    /\ pc' = [pc EXCEPT ![n] = "train"]
    /\ UNCHANGED <<control, s3, local, target, todo, swept, cut>>

-----------------------------------------------------------------------------
(* _save_deepspeed                                                         *)

\* engine.save_checkpoint and write_extras into the local directory.
SaveLocal(n) ==
    /\ pc[n] = "save"
    /\ local' = [local EXCEPT ![n][at[n]] = epoch]
    /\ pc' = [pc EXCEPT ![n] = "barrier"]
    /\ UNCHANGED <<control, s3, job, inflight, target, at, todo, swept, cut>>

\* barrier(), then the upload: run here, or submitted to the pool and tracked,
\* and rank 0 goes on to _prune_old.
AfterSave(n) == IF n = Main THEN "prune" ELSE "train"

Arrived(m, s) == at[m] > s \/ (at[m] = s /\ pc[m] # "save")

Dispatch(n) ==
    /\ pc[n] = "barrier" /\ \A m \in nodes : Arrived(m, at[n])
    /\ job' = [job EXCEPT ![n] = "sending"]
    /\ IF async
       THEN /\ inflight' = [inflight EXCEPT ![n] = TRUE]
            /\ pc' = [pc EXCEPT ![n] = AfterSave(n)]
       ELSE /\ pc' = [pc EXCEPT ![n] = "uploading"]
            /\ UNCHANGED inflight
    /\ UNCHANGED <<control, s3, local, target, at, todo, swept, cut>>

\* The synchronous upload is over.
Return(n) ==
    /\ pc[n] = "uploading" /\ job[n] = "ok"
    /\ pc' = [pc EXCEPT ![n] = AfterSave(n)]
    /\ UNCHANGED <<control, s3, local, job, inflight, target, at, todo, swept, cut>>

-----------------------------------------------------------------------------
(* _upload_and_mark, on one node                                           *)

\* upload_dir sends the files of the directory in some order.
Send(n, f) ==
    /\ job[n] = "sending" /\ store[at[n]][f, n] # local[n][at[n]]
    /\ store' = [store EXCEPT ![at[n]][<<f, n>>] = local[n][at[n]]]
    /\ UNCHANGED <<control, marker, local, mem, todo, swept, cut>>

\* The directory of this node, not of the others, is up.
SentOwn(n) == Uploaded(n, at[n], local[n][at[n]])

\* write_marker(s3_uri): the rank-0 gate inside makes it a no-op elsewhere.
Mark(n) ==
    /\ job[n] = "sending" /\ SentOwn(n)
    /\ marker' = IF n = Main THEN [marker EXCEPT ![at[n]] = epoch] ELSE marker
    /\ job' = [job EXCEPT ![n] = "marked"]
    /\ UNCHANGED <<control, store, local, pc, inflight, target, at, todo, swept, cut>>

\* rmtree of the local copy unless keep_local.
EndJob(n) ==
    /\ job[n] = "marked"
    /\ local' = IF KeepLocal THEN local ELSE [local EXCEPT ![n][at[n]] = Absent]
    /\ job' = [job EXCEPT ![n] = "ok"]
    /\ UNCHANGED <<control, s3, pc, inflight, target, at, todo, swept, cut>>

\* upload_dir or write_marker raises after its retries: the local copy stays.
JobFails(n) ==
    /\ job[n] = "sending"
    /\ job' = [job EXCEPT ![n] = "failed"]
    /\ cut' = cut \cup {at[n]}
    /\ UNCHANGED <<control, s3, local, pc, inflight, target, at, todo, swept>>

-----------------------------------------------------------------------------
(* _prune_old on rank 0.  The local root is listed too, but no local        *)
(* directory carries a marker here, so only the S3 root loses checkpoints.  *)

LastOf(S) == {s \in S : Cardinality({t \in S : t > s}) < KeepLast}
Protected(found) == LastOf(found) \cup {at[Main]}

ListOld ==
    /\ pc[Main] = "prune"
    /\ \E found \in SUBSET Complete :
        /\ todo' = found \ Protected(found)
        /\ swept' = (found = Complete)
    /\ pc' = [pc EXCEPT ![Main] = "remove"]
    /\ UNCHANGED <<control, s3, local, job, inflight, target, at, cut>>

First == CHOOSE s \in todo : \A t \in todo : s <= t

\* remove_prefix, all of it or, when it fails, some: that is logged.
Remove ==
    /\ pc[Main] = "remove" /\ todo # {}
    /\ \E gone \in SUBSET File, unmark \in BOOLEAN :
        /\ store' = [store EXCEPT ![First] =
                        [x \in File \X Node |-> IF x[1] \in gone THEN Absent ELSE @[x]]]
        /\ marker' = IF unmark THEN [marker EXCEPT ![First] = Absent] ELSE marker
        /\ swept' = (swept /\ unmark /\ gone = File)
    /\ todo' = todo \ {First}
    /\ UNCHANGED <<control, local, mem, cut>>

PruneDone ==
    /\ pc[Main] = "remove" /\ todo = {}
    /\ pc' = [pc EXCEPT ![Main] = "train"]
    /\ UNCHANGED <<control, s3, local, job, inflight, target, at, todo, swept, cut>>

-----------------------------------------------------------------------------

\* Preemption of the whole job, and its restart on the same nodes: uploads
\* that were under way are cut; disks and bucket stay.
Unsent(n) == pc[n] \in {"save", "barrier"} \/ (job[n] = "sending" /\ ~SentOwn(n))

Crash ==
    /\ epoch < MaxEpoch /\ \E n \in nodes : pc[n] # "done"
    /\ epoch' = epoch + 1
    /\ cut' = cut \cup {at[n] : n \in {m \in nodes : Unsent(m)}}
    /\ pc' = [n \in Node |-> "resume"]
    /\ job' = [n \in Node |-> "idle"]
    /\ inflight' = [n \in Node |-> FALSE]
    /\ target' = [n \in Node |-> NotYet]
    /\ at' = [n \in Node |-> 0]
    /\ todo' = {} /\ swept' = FALSE
    /\ UNCHANGED <<config, missed, s3, local>>

\* Two nodes have resumed from different steps: they may never meet again.
Apart == \E n, m \in nodes : {target[n], target[m]} \subseteq Step \cup {0} /\ target[n] # target[m]

Over == (\A n \in nodes : pc[n] = "done") \/ (\E n \in nodes : pc[n] = "dead") \/ Apart

\* Nothing more happens, or the job waits for its restart.
Ended == Over /\ UNCHANGED vars

NodeStep(n) ==
    \/ Resume(n) \/ Load(n) \/ BeginSave(n) \/ Finish(n)
    \/ Raise(n) \/ CatchAlone(n)
    \/ SaveLocal(n) \/ Dispatch(n) \/ Return(n)

JobStep(n) ==
    \/ \E f \in File : Send(n, f)
    \/ Mark(n) \/ EndJob(n) \/ JobFails(n)

Prune == ListOld \/ Remove \/ PruneDone

Next ==
    \/ \E n \in nodes : NodeStep(n)
    \/ \E n \in nodes : JobStep(n)
    \/ Prune
    \/ Crash
    \/ Ended

Spec == Init /\ [][Next]_vars

\* Each node's main thread, and each pool worker, is scheduled.
Fairness == 
    /\ \A n \in Node : WF_vars(n \in nodes /\ NodeStep(n)) /\ WF_vars(n \in nodes /\ JobStep(n))
    /\ WF_vars(Prune)

FairSpec == Spec /\ Fairness

-----------------------------------------------------------------------------
(* Properties.                                                             *)

TypeOK ==
    /\ nodes \in SUBSET Node /\ async \in BOOLEAN /\ resave \in BOOLEAN
    /\ epoch \in Epoch /\ missed \in BOOLEAN
    /\ store \in [Step -> [File \X Node -> 0 .. MaxEpoch]]
    /\ marker \in [Step -> 0 .. MaxEpoch]
    /\ local \in [Node -> [Step -> 0 .. MaxEpoch]]
    /\ pc \in [Node -> {"resume", "load", "train", "save", "barrier", "uploading",
                        "prune", "remove", "done", "dead"}]
    /\ job \in [Node -> {"idle", "sending", "marked", "ok", "failed"}]
    /\ inflight \in [Node -> BOOLEAN]
    /\ target \in [Node -> Step \cup {0, NotYet}]
    /\ at \in [Node -> 0 .. MaxStep]
    /\ todo \in SUBSET Step /\ swept \in BOOLEAN /\ cut \in SUBSET Step

\* The checkpoint a restarted job would resume from holds the part of every
\* node, all from one incarnation (manager.py: "a torn (preempted mid-save)
\* checkpoint is never resumed from").
ResumePointWhole == Complete # {} => Whole(MaxOf(Complete))

\* No load_latest has missed the newest checkpoint, to save over it, and no step is
\* saved over the checkpoint it was resumed from.
SavesOnce == ~missed /\ ~resave

\* It is so for a job of one node, whatever is cut or fails, unless a checkpoint was
\* saved over a complete one.
ResumePointWholeOnOneNode == SavesOnce /\ nodes = {Main} => ResumePointWhole

\* The part of every node is on S3 or on its way there, unless an upload was cut or
\* a checkpoint was saved over a complete one.
ResumePointWholeUnlessCut ==
    LET s == MaxOf(Complete)
    IN  SavesOnce /\ Complete # {} /\ s \notin cut =>
            \A n \in nodes : Uploaded(n, s, marker[s]) \/ (at[n] = s /\ pc[n] # "dead")

\* A node gives up its local copy only for one that S3 holds in full.
LocalUntilUploaded ==
    [][\A n \in Node, s \in Step :
            local[n][s] # Absent /\ local'[n][s] = Absent => Uploaded(n, s, local[n][s])]_vars

\* All nodes of one incarnation resume from the same step, also of a loop that saves
\* that step again, unless a look at the bucket missed the newest checkpoint: the
\* first ones to resume do not change what the last ones find.
NodesAgree ==
    ~missed =>
        \A n, m \in Node : target[n] # NotYet /\ target[m] # NotYet => target[n] = target[m]

\* A pass of _prune_old in which no call failed leaves KeepLast checkpoints, and
\* the one just dispatched when saves are asynchronous, as long as none is saved over.
RetentionBounded ==
    SavesOnce /\ swept /\ pc[Main] = "train" =>
        Cardinality(Complete) <= IF async THEN KeepLast + 1 ELSE KeepLast

\* With preemption over, the job comes to its end, or to a process that raised, or
\* to nodes that resumed from different steps: nothing else makes it wait for ever.
JobEnds == <>Over

=============================================================================
