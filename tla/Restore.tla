------------------------------ MODULE Restore ------------------------------
(***************************************************************************)
(* The ranks of a job load a checkpoint from S3: on every node the local   *)
(* main process downloads it (download_dir of src/src/uploads.py) into a   *)
(* stage directory that may hold files of an earlier load, all ranks meet, *)
(* load, and read their sidecars.  Three callers: load_full_state          *)
(* (src/src/torch/dcp.py), CheckpointManager.load and                      *)
(* load_accelerate_state.  Another job may still be saving the checkpoint. *)
(***************************************************************************)
EXTENDS S3Cli

CONSTANTS
    Ranks,      \* ranks of the job
    MaxSaved,   \* bound on the ranks that saved the checkpoint
    Retries     \* attempts of download_dir with the command line tools

ASSUME RestoreAssumption ==
    Ranks \in Nat \ {0} /\ MaxSaved \in Nat \ {0} /\ Retries \in Nat \ {0}

Rank == 0 .. Ranks - 1
Node == 0 .. Ranks - 1

\* The objects of a checkpoint: extras_rank{k}.pt, the shards, .metadata.
Extras(k) == <<"extras", k>>
Shards == <<"shards", 0>>
Metadata == <<"metadata", 0>>
Object == {Extras(k) : k \in 0 .. MaxSaved - 1} \cup {Shards, Metadata}

Loader == {"full", "manager", "accelerate"}

VARIABLES
    locals,     \* ranks per node
    caller,     \* who loads
    saved,      \* the ranks that save the checkpoint
    written,    \* its objects on S3 so far
    hidden,     \* the tools that do not see them
    stale,      \* history: files that were in the stage directories before
    early,      \* history: the load began before the save was over
    stage,      \* [Node -> [Object -> "none", "stale", "cut" or "new"]]
    pc,         \* [Rank -> where it is]
    tries,      \* [Node -> attempts made by its local main process]
    verifyErr,  \* [Node -> an attempt succeeded and left the directory incomplete]
    blinded,    \* history: nodes whose download was misled
    lacked,     \* history: nodes whose download began with an incomplete prefix
    lagged,     \* history: a tool reported success and had downloaded nothing
    loaded,     \* [Rank -> what it loaded: kinds of file]
    extras      \* [Rank -> where its step and extras came from]

ckpt == <<locals, caller, saved, written, hidden>>
past == <<stale, early, lacked>>
attempt == <<tries, verifyErr, blinded, lagged>>
result == <<loaded, extras>>
restoreVars == <<ckpt, past, stage, pc, attempt, result>>

WholeOf(k) == {Extras(i) : i \in 0 .. k - 1} \cup {Shards, Metadata}
Whole == WholeOf(saved)

NodeOf(r) == r \div locals
IsLocalMain(r) == r % locals = 0

\* required_files: the DCP load asks for .metadata, the others for nothing.
Required == IF caller = "full" THEN {Metadata} ELSE {}

\* upload_dir sends the files of save_accelerate_state in any order.
AnyOrder == caller = "accelerate"

\* What a save may have written: every rank its sidecar, then together the
\* shards, and .metadata when all is there.
Writable(W) ==
    ~AnyOrder =>
        /\ Shards \in W => Whole \ {Shards, Metadata} \subseteq W
        /\ Metadata \in W => W = Whole

\* load_latest takes complete checkpoints only; the others load what they are told.
\* The stage directories have what an earlier load left there, whole or not.
RestoreInit ==
    /\ locals \in 1 .. Ranks
    /\ caller \in Loader /\ saved \in 1 .. MaxSaved
    /\ written \in {W \in SUBSET Whole : Writable(W) /\ (caller = "manager" => W = Whole)}
    /\ hidden \in {{}, {"s5cmd"}}
    /\ stale \in {{}, {Shards}, WholeOf(MaxSaved)}
    /\ early = (written # Whole)
    /\ stage = [n \in Node |-> [o \in Object |-> IF o \in stale THEN "stale" ELSE "none"]]
    /\ pc = [r \in Rank |-> "start"]
    /\ tries = [n \in Node |-> 0] /\ verifyErr = [n \in Node |-> FALSE]
    /\ blinded = {} /\ lacked = {} /\ lagged = FALSE
    /\ loaded = [r \in Rank |-> {}] /\ extras = [r \in Rank |-> "none"]

-----------------------------------------------------------------------------

RankGoto(r, l) == pc' = [pc EXCEPT ![r] = l]

\* save_full_state and save_accelerate_state of the job that saves.
SaverWrites ==
    /\ \E o \in Whole \ written :
        /\ Writable(written \cup {o})
        /\ written' = written \cup {o}
    /\ UNCHANGED <<locals, caller, saved, hidden, past, stage, pc, attempt, result>>

-----------------------------------------------------------------------------
(* download_dir                                                            *)

Complete(W) == Required \subseteq W /\ W # {}

\* The local main process downloads, the others go to the barrier.
Enter(r) ==
    /\ pc[r] = "start"
    /\ RankGoto(r, IF IsLocalMain(r) THEN "cli" ELSE "barrier")
    /\ lacked' = IF IsLocalMain(r) /\ ~Complete(written) THEN lacked \cup {NodeOf(r)} ELSE lacked
    /\ UNCHANGED <<ckpt, stale, early, stage, attempt, result>>

\* _download_verified counts files, whoever left them there.
Verified(s) == Complete({o \in Object : s[o] # "none"})

\* Bug: files that are there already are not downloaded again.
WithMissing(n, O, v) ==
    [o \in Object |-> IF o \in O /\ stage[n][o] = "none" THEN v ELSE stage[n][o]]

\* The download writes over what is there.
With(n, O, v) == [o \in Object |-> IF o \in O THEN v ELSE stage[n][o]]

\* What the code makes of a success.
Taken(s) == Verified(s)

\* A tool succeeds: what is listed is downloaded, or nothing is (a prefix "not
\* yet visible through LIST", aws on an empty one); then it is verified.
CliDone(r) ==
    \E O \in {written, {}} :
        LET got == With(NodeOf(r), O, "new")
        IN  /\ stage' = [stage EXCEPT ![NodeOf(r)] = got]
            /\ lagged' = (lagged \/ O # written)
            /\ IF Taken(got)
               THEN RankGoto(r, "barrier") /\ UNCHANGED <<tries, verifyErr>>
               ELSE /\ tries' = [tries EXCEPT ![NodeOf(r)] = @ + 1]
                    /\ verifyErr' = [verifyErr EXCEPT ![NodeOf(r)] = TRUE]
                    /\ UNCHANGED pc

\* Every tool fails: nothing changes, or one more file is cut short.
CliFails(r) ==
    /\ tries' = [tries EXCEPT ![NodeOf(r)] = @ + 1]
    /\ \E O \in {{}} \cup {{o} : o \in written} :
        stage' = [stage EXCEPT ![NodeOf(r)] = With(NodeOf(r), O, "cut")]
    /\ UNCHANGED <<pc, verifyErr>>

CliDownload(r) ==
    /\ pc[r] = "cli" /\ tries[NodeOf(r)] < Retries
    /\ \E a \in CliResults(written # {}, hidden) \cup {<<"done", FALSE>>} :
        \/ a[1] = "done" /\ CliDone(r) /\ UNCHANGED blinded
        \/ a[1] = "failed" /\ CliFails(r) /\ UNCHANGED <<blinded, lagged>>
        \/ a[1] = "none" /\ RankGoto(r, "boto")
           /\ UNCHANGED <<stage, tries, verifyErr, blinded, lagged>>
        \/ /\ a[1] = "absent" /\ RankGoto(r, "notfound")
           /\ blinded' = IF a[2] THEN blinded \cup {NodeOf(r)} ELSE blinded
           /\ UNCHANGED <<stage, tries, verifyErr, lagged>>
    /\ UNCHANGED <<ckpt, past, result>>

CliExhausted(r) ==
    /\ pc[r] = "cli" /\ tries[NodeOf(r)] = Retries
    /\ RankGoto(r, "boto")
    /\ UNCHANGED <<ckpt, past, stage, attempt, result>>

\* _boto3_download_dir; its failure is a FileNotFoundError too when a tool had
\* reported a success that left the directory incomplete.
BotoDownload(r) ==
    /\ pc[r] = "boto"
    /\ \E b \in BotoAnswers(written # {}) :
        \/ /\ b = "error" /\ UNCHANGED stage
           /\ RankGoto(r, IF verifyErr[NodeOf(r)] THEN "notfound" ELSE "failed")
        \/ b = "absent" /\ UNCHANGED stage /\ RankGoto(r, "notfound")
        \/ LET got == With(NodeOf(r), written, "new")
           IN  /\ b = "done" /\ stage' = [stage EXCEPT ![NodeOf(r)] = got]
               /\ RankGoto(r, IF Verified(got) THEN "barrier" ELSE "notfound")
    /\ UNCHANGED <<ckpt, past, attempt, result>>

\* FileNotFoundError out of the load.
DirNotFound(r) ==
    /\ pc[r] = "notfound" /\ RankGoto(r, "failed")
    /\ UNCHANGED <<ckpt, past, stage, attempt, result>>

-----------------------------------------------------------------------------
(* Loading                                                                 *)

AllArrived == \A r \in Rank : pc[r] = "barrier"

\* barrier(): all ranks of the job.
Barrier ==
    /\ AllArrived
    /\ pc' = [r \in Rank |-> IF pc[r] = "barrier" THEN "load" ELSE pc[r]]
    /\ UNCHANGED <<ckpt, past, stage, attempt, result>>

\* dcp.load, engine.load_checkpoint, load_state, of all ranks together: a missing
\* or a truncated file fails them all, any other is taken for what it says.
Tensors(r) == {stage[NodeOf(r)][o] : o \in {Shards, Metadata}}

LoadState ==
    /\ \A r \in Rank : pc[r] = "load"
    /\ IF \E r \in Rank : {"none", "cut"} \cap Tensors(r) # {}
       THEN pc' = [r \in Rank |-> "failed"] /\ UNCHANGED loaded
       ELSE /\ loaded' = [r \in Rank |-> Tensors(r)]
            /\ pc' = [r \in Rank |-> IF caller = "accelerate" THEN "done" ELSE "extras"]
    /\ UNCHANGED <<ckpt, past, stage, attempt, extras>>

\* Bug: every rank reads the sidecar of rank 0.
SidecarOfZero(r) == {Extras(0)}

Staged(r, o) == o \in Object /\ stage[NodeOf(r)][o] # "none"

\* read_extras_payload: this rank's sidecar, or rank 0's ...
Sidecar(r) ==
    LET Own == {o \in {Extras(r)} : Staged(r, o)}
    IN  IF Own # {} THEN Own ELSE {o \in {Extras(0)} : Staged(r, o)}

\* ... or the step in the name of the directory.
ReadExtras(r) ==
    /\ pc[r] = "extras"
    /\ LET from == Sidecar(r)
       IN  /\ extras' = [extras EXCEPT ![r] =
                IF from = {} THEN "name"
                ELSE LET o == CHOOSE o \in from : TRUE
                     IN  IF stage[NodeOf(r)][o] = "new" /\ o # Extras(r) THEN "zero"
                         ELSE stage[NodeOf(r)][o]]
           /\ RankGoto(r, IF extras'[r] = "cut" THEN "failed" ELSE "done")
    /\ UNCHANGED <<ckpt, past, stage, attempt, loaded>>

RestoreNext ==
    \/ SaverWrites \/ Barrier \/ LoadState
    \/ \E r \in Rank :
        \/ Enter(r) \/ CliDownload(r) \/ CliExhausted(r) \/ BotoDownload(r) \/ DirNotFound(r)
        \/ ReadExtras(r)

-----------------------------------------------------------------------------
(* Properties.                                                             *)

\* Files of an earlier load never pass for what a download should have brought:
\* no empty success, and no .metadata that is not there yet.
NotFooled == (early => Metadata \notin stale) /\ (lagged => stale = {})

\* A rank never loads a mixture: the weights it loads come from the checkpoint
\* alone, whatever an earlier load left in the stage directory and however often
\* the tools failed, unless the old files pass for those of the download.  A
\* checkpoint that is still being saved shows by its missing .metadata; the ones
\* that Accelerate saves have no such last file.
LoadsOneCheckpoint ==
    caller # "accelerate" /\ NotFooled =>
        \A r \in Rank : loaded[r] \subseteq {"new"}

\* A rank's step and extras come from the checkpoint it loads: from its own
\* sidecar if it has one, or else from rank 0's, unless the stage directory still
\* has a sidecar of that rank from a load with more ranks.
ExtrasOfTheCheckpoint ==
    NotFooled =>
        \A r \in Rank : pc[r] = "done" /\ caller # "accelerate" =>
            \/ extras[r] = IF r < saved THEN "new" ELSE "zero"
            \/ extras[r] = "stale" /\ r >= saved /\ Extras(r) \in stale

\* The load of a checkpoint that was on S3 before it began, with what it requires,
\* does not end in FileNotFoundError, however often the tools fail, unless one
\* decided that does not see the checkpoint or whose failure reads like "not
\* found", or one reported a success and had downloaded nothing.
DirFoundIfThere ==
    [][\A r \in Rank : DirNotFound(r) =>
        NodeOf(r) \in lacked \cup blinded \/ verifyErr[NodeOf(r)]]_restoreVars

=============================================================================
