# arcstore: a verification project

arcstore moves training data and checkpoints between local disks and S3. This directory models the parts
of it whose correctness depends on order: what happens when threads, processes and nodes run at the same
time, when transfers fail and are retried, and when a job is preempted between any two writes.
Paths are relative to `src/src/`.

## The system

| component | state | operations | what makes it correct |
|---|---|---|---|
| background uploads (`uploads.py`) | one worker thread and its queue, the list `_PENDING` behind `_POOL_LOCK` | `put_async`, `upload_*_async`, `track_future`, `wait_for_uploads`, flush at exit | no upload is forgotten; a normal return of a wait means all is uploaded; a local file goes only when S3 has its content; a key never goes back to an older version |
| contents manager (`contents.py`) | a mirror directory | `open` for writing and reading | the last content written is on disk or on S3; what S3 and a reader get is not the middle of a write |
| checkpoint manager (`torch/manager.py`, `torch/_ckpt_common.py`) | objects under `checkpoint-{step}`, the marker, `_inflight`, the local directory | `save`, `wait`, `_drain_inflight`, `_prune_old`, `load_latest` | a torn checkpoint is never resumed from; all ranks resume from the same step; the newest checkpoint never goes back; retention is bounded |
| staging cache (`staging.py`) | cache directories, sentinels, a lock file | `stage_to_local`, `ensure_local_file`, `_evict_lru` | a path that is returned names a whole file |
| transfers (`s3cli.py`, `uploads.py`) | – | candidate tools, retries, fallbacks, verification | a reported success means that the data is there; a missing object is reported as missing |
| log tee (`logtee.py`) | a local log, the size last uploaded | `_Flusher`, `LogTee.close`, the chunked writer | S3 gets every line in the end and never goes back |
| code push and pull (`sync.py`) | a worktree, a prefix | `push`, `pull`, `status` | nothing is deleted without a confirmation |
| sharding and shuffling (`torch/scatter.py`, `torch/wds.py`, `data/`) | file lists, a reservoir | split by rank and worker, shuffle | every sample is read by exactly one reader |
| weights (`torch/safetensors.py`) | a file on S3, on a disk or seen through a mount | `save_safetensors_weights`, `load_pretrained` | what is loaded is what was exported |
| full-state checkpoints (`torch/dcp.py`, `torch/accelerate_ckpt.py`) | a stage directory on every node | `load_full_state`, `load_accelerate_state` | a rank loads one checkpoint, and its own sidecar |
| observability (`torch/observability.py`) | shadow weights, CUDA events and records of steps | EMA update, apply and restore; marks and their read-out | weights come back after a swap; every step is measured once |
| environment, formats, registries, workspace | – | lookups | – |

Components interact through the pool (the contents manager, the checkpoint manager and DCP futures share
`_PENDING`), through S3 objects (the ranks of a job, one incarnation of a job and the next), and through the
local disk (staging processes, the ranks of a node). What is hard: preemption between two objects of a
checkpoint, a background save that overlaps training, pruning and the next save, a wait that is cut short, a
file rewritten under its own upload, partial removal, and errors that the code reads as "not there".

## Modules

| module | models | role |
|---|---|---|
| `UploadPool` | `uploads.py`, the write branch of `contents.py` | threads that write, submit, track and wait; the worker with its retries; exit; kill |
| `PublishedCopy` | – | abstract: S3 only moves forward, to versions that were written, whole unless the file was opened again while an upload was due. `UploadPool` implements it (`MirrorSpec`) |
| `DcpCheckpoint` | `torch/manager.py`, DCP path | ranks that resume, save together, mark, prune and are preempted |
| `CheckpointStore` | – | abstract: one newest checkpoint that never goes back, from which every process resumes, until one misses it. `DcpCheckpoint` implements it (`StoreSpec`) |
| `DeepSpeedCheckpoint` | `torch/manager.py`, DeepSpeed path with an `s3_prefix` | nodes that save locally, meet at a barrier and upload on their own |
| `Staging` | `staging.py`, `stage_to_local` and `_evict_lru` | processes that share a cache, evict and are killed |
| `LogTee` | `logtee.py`, `LogTee` and `_Flusher` | a log that grows, the thread that uploads it, `close()`, kills and restarts |
| `S3Cli` | `s3cli.py`: candidate tools and fallback | operators: what one access may answer |
| `FileReads` | `ensure_local_file`, both branches of `contents.py`, `io.py`, `download_file` | callers that read one object while it is written again, by others or through the same mirror |
| `Restore` | `download_dir`, `torch/dcp.py`, `load` of the manager, `torch/accelerate_ckpt.py` | the nodes of a job that download and load one checkpoint |
| `ShardReads` | `torch/scatter.py`, `torch/wds.py`, `data/shuffle.py`, `location.py`, listing in `io.py` | readers that share a dataset |
| `Ema` | `EMA` of `torch/observability.py` | updates, swaps and loads of the shadow |
| `PerfTracker` | `PerfTracker` and `_CudaClock` of `torch/observability.py` | steps, marks, and events that are used again |
| `CodeSync` | `sync.py` | a push, a pull, and others who change the tree and the prefix |
| `ChunkedLog` | `_main_chunked` of `logtee.py` | lines, chunks, uploads, kills and starts |
| `Weights` | `torch/safetensors.py` | the ranks that export weights and load them |
| `MCDownloads`, `MCTrainingParts` | – | instances that hold several of these parts, one of them active in each behaviour |
| `UploadPoolProofs`, `DcpCheckpointProofs`, `DeepSpeedCheckpointProofs`, `StagingProofs`, `LogTeeProofs` | – | the proofs about the modules of those names |
| `DownloadsProofs` | – | the proofs about `FileReads` and `Restore` |
| `TrainingPartsProofs` | – | the proofs about `Ema`, `CodeSync`, `ChunkedLog`, `Weights`, `ShardReads` and `PerfTracker` |
| `StepSets` | – | lemmas about sets of step numbers: least, greatest, the newest few |

### UploadPool
`local`, `remote` give the version of each path on disk and on S3; `queue`, `fut`, `tries`, `seen` are the
executor and `_run_transfer_with_retry`; `pending` is `_PENDING`; `pc`, `arg`, `mine`, `hands` are the
threads: between `Submit` and `Track` a job is running and not in the list, between `WaitBegin` and the last
`WaitNext` a thread holds the copy it is going through. `WaitFails` and `WaitTimesOut` are the two ways
`fut.result()` raises.

`contents.open` hands out the path, and the program writes it in place: from `WriteBegin` to `WriteEnd` (or for ever, when the
with-block raises, `WriteRaises`) the file is in `half`, and two threads in one file leave a mixture (`mixing`). A transfer reads
the file when it runs (`ReadLocal`), the middle of a write as well (`mid`). A file lands in one step (a PUT is atomic), a
directory of `Dirs` file by file (`LandSome`, then `Land`); `cut` are the keys that hold no whole version, since half a file or
part of a directory has landed. Only then is the local copy removed (`Finish`). So the code promises a whole copy of a file only as long
as nobody opens it while an upload of it is unsettled: `rewritten` are the paths of which that is not so, and `PublishedCopy` says it
(`crossed`). `raised`, `overlapped`, `rewritten`, `asked` and `promised` are history, read by the properties alone.

### DcpCheckpoint
Each object remembers the incarnation (`epoch`) that wrote it, so a *whole* checkpoint is one whose parts all
come from one incarnation. `pc` follows `load_latest`, `save` and `_prune_old` from one storage access to the
next; `bg` is a rank's part in the collective `dcp.save`, which lasts beyond `save()` when `async_save` is on.
`dcp.save` itself is PyTorch's, modelled from its use: all ranks plan together, each writes its files, and the
coordinator writes `.metadata` when all have written; a storage error fails the save on every rank.
Pruning lists any subset of the complete steps, since a head that fails hides one, and removes one prefix
in two steps with any kinds of objects gone in between. A restart keeps the store and nothing else. `Resave`
says whether the loop saves the step it resumed from again, as the README of the repository does.

`Resume` sees a subset of the complete steps too: a head that fails is read as "not there" (`torch/manager.py:83-87`), and a listing
whose failure looks like "not found" as an empty one (`s3cli.py:141-142`). A rank that so *misses* the newest checkpoint resumes from an older step or
from none. Ranks may then disagree (`Apart`: their collectives no longer fit, and what they do together is not followed further than that each
waits), or, when all of them miss it, save over complete checkpoints. The code notices neither; `missed` records that it has happened, and
`ResumePointWhole`, `RanksAgree`, `RetentionBounded` and `StoreSpec` are promises up to that moment. `CheckpointStore` says so in its
own words (`Miss`, `Loose`).

`write_extras` and `write_marker` may raise out of `save()` or of the drain on one rank (`ExtrasRaise`, `MarkerRaises`), with the object written
or not. The others know nothing of it and wait in the next collective until the job restarts, so the process counts as ended (`dead`); a
rank that is alone may catch the error and go on (`Raised`).

### DeepSpeedCheckpoint
A node stands for its ranks up to the barrier and for local rank 0 after it. Files go up one by one
(`Send`), `Mark` writes the marker on node 0 only, and `EndJob` removes the local copy. A failed upload raises
out of `save` and ends the process (`Raise`); on one node the caller may catch it and go on (`CatchAlone`). `Resume` may miss
the newest checkpoint as above (`missed`). `resave` is `Resave` of the DCP path, here a choice of the initial state: the loop of the repository's README
saves the resumed step again on this path too, over a marker that stays, and a preemption in the middle of that upload leaves a mixture that counts as
complete. What is promised of the checkpoint resumed from and of retention is therefore promised of jobs that save each step once (`SavesOnce`); that the
nodes agree and that local copies last is promised of all. A removal is one step: of one that succeeds nobody sees the middle, since rank 0
looks only when it is over and all others start with rank 0, and one that fails leaves any part.

### Staging
`file`, `made`, `staged` and `lock` are the disk: the files of each cache directory (absent, cut short or
whole), the directories that exist, those with a `.stage_done` in the order of their mtimes, and the flocks.
`pc` follows a call: `CheckHit` or `CheckMiss` (the first look, outside any lock), then for S3
`SkipFetch`/`Fetch`/`Truncate`/`Fetched` file by file without a lock, for a mount `Lock`, a second look and the
copy, then `WriteSentinel` and the eviction. A tool writes in place or renames a finished file into place
(`Truncate` may happen or not); `siblings` and `copy_whole_dir` are the choice of `Targets`. `rmtree` takes files,
sentinel and directory away one by one (`RemoveOne`, `Removed`) and may stop anywhere (`RemoveFails`). A killed
process leaves its files and loses its lock. `raced`, `reused` and `calm` are history, read by the
properties alone: a directory evicted under somebody's call, a directory copied piecemeal or while it had its
sentinel, an eviction nobody disturbed. The cases that the properties leave out with them are real: the code does
not protect a caller whose directory another process evicts, nor one that hits a directory being copied again.

### LogTee
A log is its number of lines: `local` on disk, `remote` in the object, `sent` in `_uploaded_size`. The thread
(`flusher`) and the caller of `close()` (`closer`) both run `_upload_if_dirty`: `CheckDirty` measures the log, `Read` is
the moment the upload reads it, `Land` that S3 has it, `Note` that the measured size is kept; `Fails` may come
before or after `Land`. `close()` sets the event, joins the thread with a timeout (`JoinEnds`, `JoinTimesOut`) and
uploads once more. `Write` goes on until the file is closed, since logging handlers keep the wrapped stream.
`Crash` starts the job again, on the same disk or on an empty one. `late` (the join timed out) and `fresh` (an empty
disk) mark the two cases in which the code lets the object lose lines: an older upload may land after the final
one, and a new pod starts the same object from its first line.

### S3Cli, FileReads and Restore
An access to S3 is one choice of what each tool answers: not installed, not started, done, absent, alike, error. `RunCli` is
`run_cli_candidates`: the first tool that succeeds or whose output looks like "not found" decides. A tool may be *blind* (another endpoint, other
credentials): it says "absent" of what is there. And `_looks_not_found` goes by the words of the output (`s3cli.py:21-42`), the URI
included: any failure may have them in it ("404" in the name of a checkpoint, a local "no such file or directory"); that is `alike`. The code believes both, and
`Misled` says when it was the believed answer that ended the search; what it does to one call is in `misled` and `blinded`.

In `FileReads` `object` is the version on S3 and `disk` holds the cache file, the mirror and the temporary files, each a version,
nothing, or a file cut short. `ReadCall` begins a call of `ensure_local_file` (head, then `CacheHit` or a download and `os.replace`),
of `ContentsManager.open` (the mirror if it is there, or a download into it) or of `read_bytes`; `StartFile` is a tool that has begun to
write in place, `CliEnds` and `BotoEnds` its end. Versions 2 and 3 have the same size, since the cache compares sizes alone.
`threads` says whether the callers are threads of one process, which share a temporary name. `writer` is an `open` of the same mirror for writing:
`MirrorBegin` to `MirrorEnd` the file is cut short, `MirrorRaises` leaves it so, then it is queued and uploaded (`MirrorUploaded`, which may remove
it) or not (`MirrorUploadFails`). The mirror has no lock, no temporary name and no check: `unsure` says that a reader and a writer, or two who filled it, were
in it at once, or that somebody did not finish, and only up to then is what it hands out known to be whole.

In `Restore` the local main of each node downloads (`CliDownload`, `BotoDownload`) until the required files are there, all ranks meet
(`Barrier`), load what is in their stage directory (`LoadState`) and read their sidecar (`ReadExtras`). `stale` are the files an earlier load
left; `written` is what a job that is still saving has put there, in the order its save writes (`Writable`; any order for
Accelerate). A tool may report a success and have downloaded nothing (`early`, `lagged` mark when old files then pass for it).

### ShardReads
Objects are numbered in the order of their names. Each reader lists the dataset (`ListKeys`, with retries), by the mount of its node or
from S3, takes its `Share` (`files[rank::world]`, then `[worker::workers]`; the S3 connector shards by rank and worker itself), and yields
through the reservoir (`ReadSample`, `Flush`). `ExpandBraces` turns a range `{a..b..step}` into shards. `late` are objects that come while
readers start, which a lagging mount shows later or never.

### Ema and PerfTracker
A tensor is the sequence of the weights blended into it, so that an average is told from any other one. `shadows` are the tensors of each
generation (`load_state_dict` makes a new one) and `cache` says of which model and which generation the tensor lists of `update`
are. `average` and `own` are history: what the shadow and a model's weights ought to be. In `PerfTracker` an event is a number, `position` its last
recording and `passed` how far the GPU is; a record (`cur`, `pending`) holds its events until `_finalize` reads them out and gives them back to `free`,
which counts how often each event is in the list, so that one recycled twice shows. Which free event `mark()` takes is left open.

### CodeSync, ChunkedLog and Weights
`CodeSync` follows `cmd_push` through the guard on submodules, `Preview`, `Confirm` and the mirror, which goes file by file; `Edit` is
anybody else's change. `counted` are the deletions the preview found, `shown` those it named: the first twenty (`MaxShown`), of the others it
says how many they are (`sync.py:192-195`). A dry run that fails may have printed some lines (`dryFailed`). `agreed` is what the user said to them. `ChunkedLog` holds the lines of each chunk file and object;
`Rotate` comes after the upload of a full chunk, `LastUpload` is the `finally`. `Weights` keeps what each node's mount shows apart from the object, and takes for each
rank the branch that `load_safetensors_auto` takes (`ByMount`, `Streams`, `Source`); `MayHang` is the streamer on a path of the mount.

## Runs

| run | bounds | shows |
|---|---|---|
| `upload_pool` | 2 threads, a file and a directory, 2 writes, 2 uploads of 2 attempts | everything below for the pool, with liveness |
| `wait_after_timeout` | 1 thread | **violated**: after a wait that raised, the next returns with uploads still queued (`uploads.py:105`) |
| `rewrite_under_upload` | 1 thread | **violated**: a file written again during its upload is removed unsent (`uploads.py:252`) |
| `dcp_checkpoint` | 2 ranks, 3 steps, 1 preemption, keep_last 1, steps 1 and 2 may be missed | resume point, agreement, retention, refinement, liveness |
| `dcp_resave` | the same, nothing is missed | **violated**: saving the resumed step again can leave a mixture that counts as complete |
| `deepspeed_checkpoint` | 1–2 nodes, 2 steps, 1 preemption, keep_last 1, with and without a second save of the resumed step | whole on one node; on more unless an upload was cut; agreement; local copies; liveness |
| `deepspeed_torn` | the same | **violated**: rank 0's marker does not wait for the other nodes' uploads (`torch/manager.py:258`) |
| `staging` | 2 processes, 3 calls, an S3 and a mounted directory of 2 files, room for 2 files | whole files from a mount, own directory spared, budget kept |
| `staging_torn` | the same | **violated**: the S3 branch returns a file another process is downloading (`staging.py:243`) |
| `log_tee` | 3 lines, 2 kills | the object grows, `close()` is final, every line arrives (liveness) |
| `downloads` | 2 callers, 2 reads, 3 versions; 2 ranks on 1–2 nodes, a checkpoint of 1–2 ranks, 2 attempts | what is read is whole and current, what is loaded is of one checkpoint, what is there is found |
| `training_parts` | 4 objects, 2 ranks of 2 workers, a buffer of 3; 2 models, 2 weights, 1 load; 3 steps, 8 events, 2 pending; 3 files, 2 edits, 1 deletion named; 4 lines in chunks of 2 bytes, 3 starts; 3 ranks | one property for each of the six parts |

Two uploads are enough for an upload behind another one, a rewrite of a path and two waits at once; two writes for an open under a queued
upload or two threads in one file; two attempts for a failure that is retried and one that is final. Three steps with keep_last 1 give a step to
prune, the newest, and one in flight; one preemption gives two incarnations, enough to mix them; two ranks
or nodes tell one that is done from one that is not. That the last of three steps is never missed in `dcp_checkpoint` keeps its size down; the theorems
allow any. With two steps and keep_last 1 the bound of the asynchronous half of `RetentionBounded`, two checkpoints, cannot be exceeded in
`deepspeed_checkpoint`: there the run shows the synchronous half, and the theorem both. `JobFinishes` and `JobEnds` count a process that
raised, and ranks that resumed from different steps, as the end of a job: the others wait for them, in the code as in the model, until
somebody restarts the job. What they show is that nothing else makes it wait. A rank alone that catches an error of a marker (`Raised`) is in the
proofs, and not in the runs, which have two ranks. Three calls on a cache that earlier calls may have filled
give a copy that is killed, one that starts again and one that overlaps it, or an eviction under a call. The two
processes of `staging` are interchangeable, so its safety properties are checked up to symmetry; so are the callers of `downloads`.
In `downloads`, two readers tell one that is done from one that has begun, three versions give a new object of the same size and one of another, and two ranks
on one or two nodes, with checkpoints of one or two, give a rank without a sidecar and a sidecar too many. Accelerate reads no sidecars, so for it
the checkpoints are those of one rank; it and one oddity at a time (a blind tool, a neighbouring key, threads) keep the instance small (`FewSettings`, `OneOddity`). In `training_parts`
four objects over four readers give a remainder for three readers' worth of splits and readers without any; three steps with two
pending ones give one that is read out early, and eight events let the free list be used; two edits come before and after a
preview, which names one deletion and counts the others; four lines of one or two bytes fill and overfill chunks, and three starts continue on a disk twice. `CHECK_DEADLOCK FALSE` stands where
a job or a bound simply ends. `downloads` and `training_parts` put parts side by side that share no variable: `part` says which one a
behaviour is of, and a part is checked as it would be alone.

Fairness: the worker thread, the log flusher (with uploads that do not fail for ever), threads whose future is done, the ranks and the collectives they take part in
are scheduled (weak fairness). Nothing obliges a program to call, to exit, to fail or to be preempted. The
number of calls, steps and preemptions is bounded, so the job ends once no more preemption comes.

## Proofs

All theorems hold for every value of the constants that the named assumption of the module allows. Each rests on an inductive invariant that
is stronger than the property.

`UploadPoolProofs` proves every safety property of the pool: `TypeCorrect`, `NothingForgotten` (`Accounted`), `ReturnVouches`, `NothingLost`, `CleanExit`
and the refinement `Publishes` (`Spec => MirrorSpec`). `Inv` has nine parts. `Numbered` and `Holding` say what goes with the place of a thread;
`Numbered` counts the threads that are about to submit, so that a job is there for each. `OneWorker` makes the executor's queue and the job in hand
disjoint: with two jobs in hand the older content could land last. `Forward` (a transfer has read a version no older than what is on S3) is
what the refinement needs. `LeftAlone` is why a removal after an upload is safe, and why what lands is whole: of a path that nobody opens meanwhile, a transfer
finds the last version and finds it finished. It needs `Alone`: such a path has one unsettled upload or one writer, and not both.
`ToCome` and `OneWorker` give the clean exit: what S3 lacks is still to be uploaded, and after the flush nothing is. `Awaited` says that what a wait
was asked for has succeeded or is still in its hands.

`LogTeeProofs` proves, for every number of lines and of kills, `TypeOK`, `SentIsPublished`, `CloseUploadsAll` and
`NeverBack` of `LogTee`. None is inductive: that S3 does not lose lines needs that an upload reads at least what
was measured (`Measures`), that two uploads never overlap while the join waits (`Alone`), and that the log on disk
has all that S3 has unless the disk is new (`Disk`).

`DcpCheckpointProofs` proves, for every world size, number of steps and of incarnations, and every keep_last:

* `TypeCorrect`: `Spec => []TypeOK`, together with `Loads` (a rank that loads knows its step);
* `ResumePointIsWhole`, `AllRanksAgree`: `Spec => []ResumePointWhole`, `Spec => []RanksAgree`;
* `ImplementsCheckpointStore`: `Spec => StoreSpec`;
* `PruningKeepsFew`: `Spec => []RetentionBounded`.

`ResumePointIsWhole`, `AllRanksAgree` and `ImplementsCheckpointStore` assume `Resave = FALSE`. Of the first, `dcp_resave` shows that it fails
without that; of the other two no run says so.
They rest on the assumption on the constants (`DcpAssumption`) and on the inductive invariant `UnlessMissed`: `TypeOK`, `Loads`, and `Inv` until a
`load_latest` misses the newest checkpoint. A miss is for ever (`MissedStays`), so each step has to keep `Inv` only where nothing is missed before and
after it, and the refinement maps any other step to `Miss` (`MissStep`) or to `Loose`. `ResumePointWhole` alone is
not inductive. A commit makes the step in flight the newest, so that step must hold every rank's
part (`Saved`) and be later than any complete one (`Ahead`), which needs that a save in flight belongs to a rank
that is training or pruning (`Stages`). A removal may touch complete checkpoints, so each of those must have a
complete one after it that stays (`Pruning`); this is where the maximum of a set of steps, and `KeepLast >= 1`, come
in. `Agreed` says that nobody completes a checkpoint while some rank has not resumed. Every step but
the commit *keeps* the newest checkpoint (`Kept`, `KeptNewest`), which is what the refinement needs as well.

`PruningKeepsFew` holds whatever `Resave` is and has an invariant of its own, `RetentionInv`: the step that rank 0 is at is never in the list of a removal
(`Spared`), missed or not; and, where nothing is missed, between the listing of a pass and the next commit, what is complete
and not about to be removed has at most `keep_last` steps. That the listing leaves no more is a fact about sets of steps: those with fewer than
`keep_last` greater ones in the set are at most `keep_last` (`StepSets`).

`DeepSpeedCheckpointProofs` proves every safety property of the DeepSpeed path, for any number of nodes, steps, incarnations and any keep_last: `TypeCorrect`,
`NodesResumeTogether`, `NewestIsWholeUnlessCut`, `NewestIsWholeOnOneNode`, `PruningKeepsFew` and the action property `LocalIsSafe`. Its invariant has a
part that holds always (`Always`, with `NodesAgree`, which needs only that nothing was missed) and one of jobs that save each step once
(`SavesOnce => Regular`). In the order in which it rests on itself: `Stages` says which upload and which target go with each place of the main thread; `Lockstep` that a node uploads only
when all have arrived, so that nobody is more than one save ahead of anybody; `Agreed` that while a node has not resumed, no checkpoint is
completed or removed, which gives `NodesAgree`. `Sent` says what of the step in hand is on S3, and gives `LocalIsSafe`; from here on steps are saved once: `Past` says the same of node 0's step; `Ahead` that
node 0 marks only steps later than all that is complete, so its next marker names the newest; `Pruning` that each step being removed is older than a complete
one that stays. `Newest`, the heart of `ResumePointWholeUnlessCut`, then says of the newest step that all nodes' parts of it are there, from the
incarnation of its marker, on their way, or cut. `Few` is the counterpart of `RetentionInv`.

`StagingProofs` proves, for any number of processes, calls and (finitely many) directories and any budget, `TypeCorrect`, `PresentUnlessRaced`, `MountedIsWhole`
and `WithinBudget`. `Order` and `Counts` say that no directory is listed twice, in the order of use or by an eviction, which also makes the subtraction from the total a
natural number: the sum of the sizes in a list is the number of pairs of an entry and a unit of it, so it splits over what has been removed
and what is still to come. `There` follows a file from its fetch to the return of its path: only an eviction by another process takes it away. For mounted directories
`Locks` says that the flock is held by exactly who is in the copy, so that one process copies; `Copying` that a directory has no
sentinel while it is copied and that what is cut short is still to be copied; `Sentinel` and `Whole` that with a sentinel nothing is cut short.
A process killed in the copy leaves no sentinel, so the next one starts again. `Undisturbed` compares the list of an eviction that nobody interrupts
with what is staged, which gives the budget.

`DownloadsProofs` proves `CurrentReads`, `FileFound`, `OneCheckpoint`, `RightExtras` and `DirFound` for any number of callers, versions,
ranks, nodes, saved ranks and attempts. For `FileReads`, `Seen` says that what a call knows of the object (its size, its absence, what it has
downloaded) was true at some moment of the call; `Mirror` that until somebody is `unsure` the call that fills the mirror is alone with it, since a
second one finds the file there, and that it is cut short only while somebody is writing or filling it. `FileFound` and `DirFound` rest on `Decided`: when the
answers of the tools come to "absent" of what is there, the one that decided was misled. `CurrentReads` is an action property: at each return the two give what is handed out. For `Restore`, `.metadata` is written last and
required, so a directory that has the new one has everything (`Last`, `Copies`); `Together` carries this over the barrier to the other ranks of the
node; `Reached` says why a load reports a checkpoint as missing. `FileFound` and `DirFound` are the two halves of `FoundIfThere`.
`FileReads` assumes that callers are not named like the files they share; a temporary file has the name of its process.

`TrainingPartsProofs` proves the property of each of the six parts of `training_parts`:

* `Averages` (`AveragesAndGivesBack`): the cached lists name the live shadow whenever their key is that of a model (`Caches`), and the backup holds the own
  weights of whoever is swapped.
* `NothingUnannounced` (`DeletesConfirmed`): what the mirror may still remove was named, or counted where the preview names no more, and agreed to, has changed since,
  or the dry run failed.
* `LinesReachS3` (`ChunksOnS3`): that objects only grow needs that each is a prefix of its file, and that no chunk runs past the bound needs a line in every chunk.
* `LoadedAsExported` (`LoadsWhatWasSaved`): from the order in which a rank gathers, saves, uploads and meets.
* `OneReaderEach` (`EveryObjectOnce`): that the splits are a partition takes no induction. A stride `s[r::n]` is given by its positions, and each position has
  one quotient and one remainder by `n`, so the strides of all `r` share out `s` (`StridedIs`, `Splits`), strides of strides do as well, and the S3
  connector's shares too (`ShareSharesOut`, `OnS3SharesOut`). The invariant: while anybody still lists, nothing has been read (`Fresh`), and when all have listed alike every
  object is in the hands of one reader, once, or has been yielded, once (`Dealt`), which each draw from the reservoir keeps.
* `EveryStepKept` (`StepsKept`): no event of the records is on the free list, not created yet, or in a second slot (`Single`): an event that the clock
  gives out is in no slot, and a record gives each of its events back once when it leaves the queue. `Timely` says that the steps read out and the steps pending are 1, 2, …,
  `total`, and that less than `max_pending` are pending: a full queue waits for its oldest record, which is then ready.

Only model-checked: liveness, which rests on fairness and is beyond the prover (`EveryUploadSettles`, `EveryWaitEnds`, `JobFinishes`, `JobEnds`, `EveryLineArrives`), and `FoundIfThere` as one
formula. The bounds on counters (`MaxStep`, `MaxCalls`, `MaxEvents`, …) are constants of which the theorems ask only that they are numbers, so
what they prove holds however far the system is let run.

## Left out of the models

* What a job does after a `load_latest` has missed the newest checkpoint: it is modelled, and nothing is promised of it. What ranks or nodes that resumed from different
  steps do to each other in collectives that do not fit is PyTorch's and not modelled beyond that they wait. A `load_latest` that
  raises ends the process before it has touched anything, which is `Crash`.
* A promise of whole copies for a file that is opened again under its own upload, or by two threads: the code gives none, so `MirrorSpec` says of it only that versions do not go
  back. Nor is there one for waits that overlap or that come between submission and tracking: they are modelled, and `ReturnMeansFinishedAlone` leaves them out.
* What an output with the words of a missing object in it does beyond the download it belongs to: any failure may be so misread, and the properties exclude the calls to
  which it happened.
* A change of the world size between incarnations, and DeepSpeed without an `s3_prefix`, whose marker is written on node 0's disk only.
* Paths that are returned as they are: `stage_to_local` where `_should_stage` says no, local paths everywhere.
* `wds.shuffle` of the shards before `split_by_node`: each process seeds it for itself, so the readers need not agree on an order, and then
  shards are read twice or not at all. `EveryObjectOnce` is stated of readers that agree (`Alike`).
* The freshness of the contents manager's mirror, which is never refreshed: a read may hand out any version that was once there (`contents.py:80`).
* `StageTimer`, memory statistics and the figures of `PerfTracker.summary`; the profiler is torch's. The CPU clock has no events to reuse.
* The tensors and key names of safetensors, the listing output and URI syntax, and the bytes: what torch, s5cmd, aws and boto3 do in one call.
* Registries, plugin tables, formats, environment and workspace: lookups without state, where there is nothing for a model checker to interleave.

## Where the project could go on

1. Abstract specifications of `Staging` (a cache whose entries appear whole) and of `LogTee` (an object that only grows), and their refinements as theorems.
2. `Restore` composed with `DcpCheckpoint`: a load while pruning removes the checkpoint.
3. Ranks that resume from different steps, and what their collectives then do.
