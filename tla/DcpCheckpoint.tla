---------------------------- MODULE DcpCheckpoint ----------------------------
(***************************************************************************)
(* CheckpointManager of src/src/torch/manager.py on its DCP path, with the *)
(* sidecars and the marker of _ckpt_common.py: N ranks train, save         *)
(* checkpoint-{step} straight to S3, prune old steps from rank 0, are      *)
(* preempted together at any point and resume from latest_checkpoint().    *)
(* Each object under checkpoint-{step} remembers which incarnation of the  *)
(* job wrote it, which tells a whole checkpoint from a mixture.            *)
(***************************************************************************)
EXTENDS Integers, FiniteSets

CONSTANTS
    NProc,       \* world size
    MaxStep,     \* bound: the job saves steps 1 .. MaxStep (in units of the save interval)
    MaxEpoch,    \* bound: incarnations of the job, one more than preemptions
    MaxMissed,   \* bound: a look of load_latest at the bucket misses steps up to this one only
    KeepLast,    \* keep_last
    Resave       \* does the loop save the step it resumed from once more (README)?

ASSUME DcpAssumption ==
    /\ NProc \in Nat \ {0} /\ MaxStep \in Nat /\ MaxEpoch \in Nat \ {0}
    /\ MaxMissed \in Nat /\ KeepLast \in Nat \ {0}
    /\ Resave \in BOOLEAN

Rank == 0 .. NProc - 1
Main == 0
Step == 1 .. MaxStep
Epoch == 1 .. MaxEpoch
Absent == 0

\* extras_rank{R}.pt, the DCP files of each rank, .metadata, _ARC_COMPLETE.
Extras(r) == <<"extras", r>>
Shard(r) == <<"shard", r>>
Metadata == <<"metadata", Main>>
Marker == <<"marker", Main>>
Object == ({"extras", "shard"} \X Rank) \cup {Metadata, Marker}
Part == Object \ {Marker}
Nothing == [o \in Object |-> Absent]

VARIABLES
    store,     \* [Step -> [Object -> the epoch that wrote it, or Absent]]: the S3 prefix
    epoch,     \* the current incarnation
    async,     \* its async_save, where dcp.async_save is available
    pc,        \* [Rank -> where it is in load_latest, the loop, save or _prune_old]
    target,    \* [Rank -> the step load_latest returned, NotYet before]
    at,        \* [Rank -> the step of its last save, counting from the resumed one]
    inflight,  \* [Rank -> whether _inflight holds a future]
    bg,        \* [Rank -> its part in the collective dcp.save of step at[r]]
    todo,      \* rank 0: steps _prune_old has still to remove
    torn,      \* rank 0: whether the removal of the first of them is half done
    swept,     \* history: the last _prune_old saw and removed all it should
    missed     \* history: a load_latest has missed the newest checkpoint

mem == <<pc, target, at, inflight, bg>>
gc == <<todo, torn, swept>>
vars == <<store, epoch, async, missed, mem, gc>>

NotYet == -1

-----------------------------------------------------------------------------
(* Bugs the properties must tell from the code.                            *)

\* Counting a checkpoint as soon as any object of it is listed.
HasAnyObject(s) == \E o \in Object : store[s][o] # Absent

\* latest_checkpoint returning its initial best_step, -1.
MaxFromMinusOne(S) == CHOOSE x \in S \cup {-1} : \A y \in S : y <= x

\* A drain that marks the previous save without waiting for its future.
NotFailedYet(r) == bg[r] \in {"joined", "written", "landed"}

\* A failed future that stays in _inflight for ever.
FailureStays(r) ==
    /\ pc[r] = "train" /\ inflight[r] /\ bg[r] = "failed"
    /\ at' = [at EXCEPT ![r] = IF @ < MaxStep THEN @ + 1 ELSE @]
    /\ UNCHANGED <<store, epoch, async, missed, pc, target, inflight, bg, gc>>

\* keep_last off by one, either way: the step in flight counted in, or one more kept.
LastMinusOne(S) == {s \in S : Cardinality({t \in S : t > s}) < KeepLast - 1}
LastPlusOne(S) == {s \in S : Cardinality({t \in S : t > s}) <= KeepLast}

-----------------------------------------------------------------------------
(* The checkpoints in the store.                                           *)

MaxOf(S) == CHOOSE x \in S \cup {0} : \A y \in S : y <= x

\* _is_complete: the marker, or .metadata.
IsComplete(s) == store[s][Marker] # Absent \/ store[s][Metadata] # Absent
Complete == {s \in Step : IsComplete(s)}

\* Every part is there and was written by one incarnation of the job.
Whole(s) == \E e \in Epoch : \A o \in Part : store[s][o] = e

Newest == MaxOf({s \in Complete : Whole(s)})

Put(s, o) == store' = [store EXCEPT ![s][o] = epoch]

Init ==
    /\ store = [s \in Step |-> Nothing]
    /\ epoch = 1
    /\ async \in BOOLEAN
    /\ pc = [r \in Rank |-> "resume"]
    /\ target = [r \in Rank |-> NotYet]
    /\ at = [r \in Rank |-> 0]
    /\ inflight = [r \in Rank |-> FALSE]
    /\ bg = [r \in Rank |-> "idle"]
    /\ todo = {} /\ torn = FALSE
    /\ swept = FALSE /\ missed = FALSE

-----------------------------------------------------------------------------
(* load_latest                                                             *)

\* latest_checkpoint: the highest complete step it sees.  A head that fails is read
\* as "not there", and a listing whose failure looks like "not found" as empty.
Resume(r) ==
    /\ pc[r] = "resume"
    /\ \E found \in {F \in SUBSET Complete : Complete \ F \subseteq 1 .. MaxMissed} :
        /\ target' = [target EXCEPT ![r] = MaxOf(found)]
        /\ missed' = (missed \/ MaxOf(found) # MaxOf(Complete))
    /\ pc' = [pc EXCEPT ![r] = "load"]
    /\ UNCHANGED <<store, epoch, async, at, inflight, bg, gc>>

\* load stages, passes the barrier and runs the collective dcp.load; with no
\* checkpoint load_latest returns 0 without any of these.
Load(r) ==
    /\ pc[r] = "load"
    /\ target[r] = 0 \/ \A q \in Rank : pc[q] # "resume" /\ target[q] # 0
    /\ at' = [at EXCEPT ![r] = IF Resave /\ target[r] # 0 THEN target[r] - 1 ELSE target[r]]
    /\ pc' = [pc EXCEPT ![r] = "train"]
    /\ UNCHANGED <<store, epoch, async, missed, target, inflight, bg, gc>>

-----------------------------------------------------------------------------
(* save: drain, write_extras, dcp_save_app, write_marker                   *)

\* write_marker writes on rank 0 only.
WriteMarker(r, s) == IF r = Main THEN Put(s, Marker) ELSE UNCHANGED store

\* _drain_inflight: the previous future has landed and is marked.
Landed(r) == bg[r] = "landed"

Drain(r) ==
    \/ /\ ~inflight[r]
       /\ UNCHANGED <<store, inflight, bg>>
    \/ /\ inflight[r] /\ Landed(r)
       /\ WriteMarker(r, at[r])
       /\ inflight' = [inflight EXCEPT ![r] = FALSE]
       /\ bg' = [bg EXCEPT ![r] = "idle"]

BeginSave(r) ==
    /\ pc[r] = "train" /\ at[r] < MaxStep
    /\ Drain(r)
    /\ at' = [at EXCEPT ![r] = @ + 1]
    /\ pc' = [pc EXCEPT ![r] = "extras"]
    /\ UNCHANGED <<epoch, async, missed, target, gc>>

\* wait() before exit.
Finish(r) ==
    /\ pc[r] = "train" /\ at[r] = MaxStep
    /\ Drain(r)
    /\ pc' = [pc EXCEPT ![r] = "done"]
    /\ UNCHANGED <<epoch, async, missed, target, at, gc>>

\* A drained future that failed raises out of save(); the list is already
\* empty, the caller goes on and this step is not saved.
DrainFails(r) ==
    /\ pc[r] = "train" /\ inflight[r] /\ bg[r] = "failed"
    /\ inflight' = [inflight EXCEPT ![r] = FALSE]
    /\ bg' = [bg EXCEPT ![r] = "idle"]
    /\ at' = [at EXCEPT ![r] = IF @ < MaxStep THEN @ + 1 ELSE @]
    /\ UNCHANGED <<store, epoch, async, missed, pc, target, gc>>

WriteExtras(r) ==
    /\ pc[r] = "extras"
    /\ Put(at[r], Extras(r))
    /\ pc' = [pc EXCEPT ![r] = "dcp"]
    /\ UNCHANGED <<epoch, async, missed, target, at, inflight, bg, gc>>

\* The rank enters the collective save.  The asynchronous one returns a future,
\* which is tracked; rank 0 goes on to _prune_old.
EnterSave(r) ==
    /\ pc[r] = "dcp"
    /\ bg' = [bg EXCEPT ![r] = "joined"]
    /\ IF async
       THEN /\ inflight' = [inflight EXCEPT ![r] = TRUE]
            /\ pc' = [pc EXCEPT ![r] = IF r = Main THEN "prune" ELSE "train"]
       ELSE /\ pc' = [pc EXCEPT ![r] = "saving"]
            /\ UNCHANGED inflight
    /\ UNCHANGED <<store, epoch, async, missed, target, at, gc>>

\* The synchronous dcp.save is over: mark, then prune.
LeaveSave(r) ==
    /\ pc[r] = "saving" /\ bg[r] = "landed"
    /\ WriteMarker(r, at[r])
    /\ bg' = [bg EXCEPT ![r] = "idle"]
    /\ pc' = [pc EXCEPT ![r] = IF r = Main THEN "prune" ELSE "train"]
    /\ UNCHANGED <<epoch, async, missed, target, at, inflight, gc>>

\* ... or has raised on every rank; the caller goes on.
SaveRaises(r) ==
    /\ pc[r] = "saving" /\ bg[r] = "failed"
    /\ bg' = [bg EXCEPT ![r] = "idle"]
    /\ pc' = [pc EXCEPT ![r] = "train"]
    /\ UNCHANGED <<store, epoch, async, missed, target, at, inflight, gc>>

\* An exception the other ranks do not share ends the process, and they wait for it
\* in the next collective until the job restarts; alone, the caller may catch it.
Raised(r) ==
    \E next \in {"dead"} \cup IF Rank = {r} THEN {"train"} ELSE {} :
        pc' = [pc EXCEPT ![r] = next]

\* write_extras raises out of save(), with the sidecar stored or not.
ExtrasRaise(r) ==
    /\ pc[r] = "extras"
    /\ Put(at[r], Extras(r)) \/ UNCHANGED store
    /\ Raised(r)
    /\ UNCHANGED <<epoch, async, missed, target, at, inflight, bg, gc>>

\* write_marker raises out of save() or out of the drain, which has emptied the list.
MarkerRaises ==
    /\ bg[Main] = "landed"
    /\ \/ pc[Main] = "saving" /\ UNCHANGED at
       \/ /\ pc[Main] = "train" /\ inflight[Main]
          /\ at' = [at EXCEPT ![Main] = IF @ < MaxStep THEN @ + 1 ELSE @]
    /\ Put(at[Main], Marker) \/ UNCHANGED store
    /\ inflight' = [inflight EXCEPT ![Main] = FALSE]
    /\ bg' = [bg EXCEPT ![Main] = "idle"]
    /\ Raised(Main)
    /\ swept' = FALSE
    /\ UNCHANGED <<epoch, async, missed, target, todo, torn>>

-----------------------------------------------------------------------------
(* The collective dcp.save (PyTorch): plan together, write, and let the    *)
(* coordinator write .metadata when everybody has written.                 *)

AllIn(r) == \A q \in Rank : at[q] = at[r] /\ bg[q] \in {"joined", "written"}
AllWritten(r) == \A q \in Rank : at[q] = at[r] /\ bg[q] = "written"

WriteShard(r) ==
    /\ bg[r] = "joined" /\ AllIn(r)
    /\ Put(at[r], Shard(r))
    /\ bg' = [bg EXCEPT ![r] = "written"]
    /\ UNCHANGED <<epoch, async, missed, pc, target, at, inflight, gc>>

WriteMetadata ==
    /\ AllWritten(Main)
    /\ Put(at[Main], Metadata)
    /\ bg' = [r \in Rank |-> "landed"]
    /\ UNCHANGED <<epoch, async, missed, pc, target, at, inflight, gc>>

\* A storage error on some rank makes the save fail on every rank.
SaveFails ==
    /\ AllIn(Main)
    /\ bg' = [r \in Rank |-> "failed"]
    /\ UNCHANGED <<store, epoch, async, missed, pc, target, at, inflight, gc>>

-----------------------------------------------------------------------------
(* _prune_old, on rank 0                                                   *)

\* The steps kept: the last KeepLast complete ones, and the one just saved.
LastOf(S) == {s \in S : Cardinality({t \in S : t > s}) < KeepLast}
Protected(found) == LastOf(found) \cup {at[Main]}

\* A head that fails hides a checkpoint from the list.
ListOld ==
    /\ pc[Main] = "prune"
    /\ \E found \in SUBSET Complete :
        /\ todo' = found \ Protected(found)
        /\ swept' = (found = Complete)
    /\ pc' = [pc EXCEPT ![Main] = "remove"]
    /\ UNCHANGED <<store, epoch, async, missed, target, at, inflight, bg, torn>>

First == CHOOSE s \in todo : \A t \in todo : s <= t

\* remove_prefix is not atomic: some kinds of objects are gone before others.
RemoveSome ==
    /\ pc[Main] = "remove" /\ todo # {} /\ ~torn
    /\ \E K \in SUBSET {"extras", "shard", "metadata", "marker"} :
        store' = [store EXCEPT ![First] = [o \in Object |-> IF o[1] \in K THEN Absent ELSE @[o]]]
    /\ torn' = TRUE
    /\ UNCHANGED <<epoch, async, missed, mem, todo, swept>>

RemoveRest ==
    /\ pc[Main] = "remove" /\ torn
    /\ store' = [store EXCEPT ![First] = Nothing]
    /\ todo' = todo \ {First} /\ torn' = FALSE
    /\ UNCHANGED <<epoch, async, missed, mem, swept>>

\* A removal that fails is logged, and the next one is tried.
RemoveGivesUp ==
    /\ pc[Main] = "remove" /\ torn
    /\ todo' = todo \ {First} /\ torn' = FALSE
    /\ swept' = FALSE
    /\ UNCHANGED <<store, epoch, async, missed, mem>>

PruneDone ==
    /\ pc[Main] = "remove" /\ todo = {}
    /\ pc' = [pc EXCEPT ![Main] = "train"]
    /\ UNCHANGED <<store, epoch, async, missed, target, at, inflight, bg, gc>>

-----------------------------------------------------------------------------

\* The whole job is preempted (or one rank dies and takes the group with it)
\* and started again: memory is lost, the store is what it was.
Crash ==
    /\ epoch < MaxEpoch /\ \E r \in Rank : pc[r] # "done"
    /\ epoch' = epoch + 1
    /\ async' \in BOOLEAN
    /\ pc' = [r \in Rank |-> "resume"]
    /\ target' = [r \in Rank |-> NotYet]
    /\ at' = [r \in Rank |-> 0]
    /\ inflight' = [r \in Rank |-> FALSE]
    /\ bg' = [r \in Rank |-> "idle"]
    /\ todo' = {} /\ torn' = FALSE /\ swept' = FALSE
    /\ UNCHANGED <<store, missed>>

\* Two ranks have resumed from different steps: their collectives do not fit.
Apart ==
    \E r, q \in Rank : {target[r], target[q]} \subseteq Step \cup {0} /\ target[r] # target[q]

Over == (\A r \in Rank : pc[r] = "done") \/ (\E r \in Rank : pc[r] = "dead") \/ Apart

\* Nothing more happens, or the job waits for its restart.
Ended == Over /\ UNCHANGED vars

RankStep(r) ==
    \/ Resume(r) \/ Load(r)
    \/ BeginSave(r) \/ Finish(r) \/ DrainFails(r)
    \/ WriteExtras(r) \/ EnterSave(r) \/ LeaveSave(r) \/ SaveRaises(r)
    \/ ExtrasRaise(r) \/ (r = Main /\ MarkerRaises)

Prune == ListOld \/ RemoveSome \/ RemoveRest \/ RemoveGivesUp \/ PruneDone

Next ==
    \/ \E r \in Rank : RankStep(r)
    \/ \E r \in Rank : WriteShard(r)
    \/ WriteMetadata
    \/ SaveFails
    \/ Prune
    \/ Crash
    \/ Ended

Spec == Init /\ [][Next]_vars

\* Processes and the collectives they take part in are scheduled.
Fairness ==
    /\ \A r \in Rank : WF_vars(RankStep(r)) /\ WF_vars(WriteShard(r))
    /\ WF_vars(WriteMetadata)
    /\ WF_vars(Prune)

FairSpec == Spec /\ Fairness

-----------------------------------------------------------------------------
(* Properties.                                                             *)

TypeOK ==
    /\ store \in [Step -> [Object -> 0 .. MaxEpoch]]
    /\ epoch \in Epoch /\ async \in BOOLEAN /\ missed \in BOOLEAN
    /\ pc \in [Rank -> {"resume", "load", "train", "extras", "dcp", "saving",
                        "prune", "remove", "done", "dead"}]
    /\ target \in [Rank -> Step \cup {0, NotYet}]
    /\ at \in [Rank -> 0 .. MaxStep]
    /\ inflight \in [Rank -> BOOLEAN]
    /\ bg \in [Rank -> {"idle", "joined", "written", "landed", "failed"}]
    /\ todo \in SUBSET Step
    /\ torn \in BOOLEAN /\ swept \in BOOLEAN

\* The checkpoint a restarted job would resume from is never torn: all ranks'
\* parts are there and come from the same incarnation (manager.py: "a torn
\* (preempted mid-save) checkpoint is never resumed from"), unless a load_latest
\* has missed the newest one, which is then saved over.
ResumePointWhole == ~missed /\ Complete # {} => Whole(MaxOf(Complete))

\* All ranks of one incarnation resume from the same step, whichever comes first,
\* unless a look at the bucket missed the newest checkpoint: what the first ones do
\* does not change what the last ones find.
RanksAgree ==
    ~missed =>
        \A r, q \in Rank : target[r] # NotYet /\ target[q] # NotYet => target[r] = target[q]

\* A pass of _prune_old in which no call failed leaves KeepLast checkpoints, and
\* the one just dispatched when saves are asynchronous, also in a loop that saves the
\* resumed step again, unless a load_latest has missed the newest checkpoint.
RetentionBounded ==
    ~missed /\ swept /\ pc[Main] = "train" =>
        Cardinality(Complete) <= IF async THEN KeepLast + 1 ELSE KeepLast

\* The store keeps its promise: the newest whole checkpoint never goes back,
\* through preemption, failed saves and pruning, and every rank resumes from it,
\* until a load_latest misses it.
Store == INSTANCE CheckpointStore WITH newest <- Newest, resumed <- target
StoreSpec == Store!Spec

\* With preemption over, the job gets to its end, or to a process that raised, or to
\* ranks that resumed from different steps: nothing else makes it wait for ever.
JobFinishes == <>Over

=============================================================================
