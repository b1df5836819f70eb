------------------------------ MODULE Weights ------------------------------
(***************************************************************************)
(* The weights of a model in one safetensors file                          *)
(* (src/src/torch/safetensors.py): the ranks export them together          *)
(* (save_safetensors_weights) and load them again (load_pretrained), each  *)
(* rank by the way that load_safetensors_auto chooses for it: the streamer *)
(* of run:ai, or mmap.                                                     *)
(***************************************************************************)
EXTENDS Integers, FiniteSets

CONSTANTS MaxRanks   \* bound on the ranks of the job

ASSUME WeightsAssumption == MaxRanks \in Nat \ {0}

Process == 0 .. MaxRanks - 1
Machine == Process

VARIABLES
    perNode,   \* ranks per node
    place,     \* where the weights go and come from: "s3", "disk", or "fuse": to S3,
               \* and back by the path of the mount
    met,       \* the program calls barrier() between export and load
    given,     \* state_dict was passed
    readBy,    \* the read policy
    mounts,    \* the nodes that mount the bucket
    streamer,  \* runai_model_streamer is installed
    stored,    \* "none", "old" or "new": the object on S3
    shows,     \* [Machine -> the file as the mount shows it]
    files,     \* [Machine -> the local file, which may be "torn"]
    doing,     \* [Process -> where it is]
    got        \* [Process -> the weights that it loaded]

job == <<perNode, place, met, given, readBy, mounts, streamer>>
weightVars == <<job, stored, shows, files, doing, got>>

MachineOf(r) == r \div perNode
LocalRank(r) == r % perNode

WeightsInit ==
    /\ perNode \in 1 .. MaxRanks /\ place \in {"s3", "disk", "fuse"}
    /\ met \in BOOLEAN /\ given \in BOOLEAN /\ streamer \in BOOLEAN
    /\ readBy \in {"auto", "mount", "direct_s3"}
    /\ mounts \in {{}, {0}, Machine}
    /\ stored \in {"none", "old"}
    /\ shows = [n \in Machine |-> stored]
    /\ files = [n \in Machine |-> IF n = 0 /\ stored = "old" THEN "old" ELSE "none"]
    /\ doing = [r \in Process |-> "gather"] /\ got = [r \in Process |-> "none"]

To(r, l) == doing' = [doing EXCEPT ![r] = l]

-----------------------------------------------------------------------------
(* save_safetensors_weights                                                *)

\* The gather of the full state is of all ranks, unless a state is given.
Gather(r) ==
    /\ doing[r] = "gather"
    /\ IF given THEN To(r, IF r = 0 THEN "save" ELSE "saved")
       ELSE /\ \A q \in Process : doing[q] = "gather"
            /\ doing' = [q \in Process |-> IF q = 0 THEN "save" ELSE "saved"]
    /\ UNCHANGED <<job, stored, shows, files, got>>

\* save_file of rank 0 writes in place.
SaveBegins ==
    /\ doing[0] = "save" /\ To(0, "writing")
    /\ files' = [files EXCEPT ![0] = "torn"]
    /\ UNCHANGED <<job, stored, shows, got>>

SaveEnds ==
    /\ doing[0] = "writing"
    /\ files' = [files EXCEPT ![0] = "new"]
    /\ To(0, IF place = "disk" THEN "saved" ELSE "upload")
    /\ UNCHANGED <<job, stored, shows, got>>

\* upload_file retries, then raises.
UploadWeights ==
    /\ doing[0] = "upload"
    /\ \/ stored' = "new" /\ To(0, "saved")
       \/ UNCHANGED stored /\ To(0, "raised")
    /\ UNCHANGED <<job, shows, files, got>>

\* A mount lists and serves what is new some time later.
MountShows(n) ==
    /\ n \in mounts /\ shows[n] # stored /\ shows' = [shows EXCEPT ![n] = stored]
    /\ UNCHANGED <<job, stored, files, doing, got>>

\* The caller's barrier, if it has one.
Meet ==
    /\ \/ ~met /\ \E r \in Process : doing[r] = "saved" /\ To(r, "load")
       \/ /\ met /\ \A r \in Process : doing[r] = "saved"
          /\ doing' = [r \in Process |-> "load"]
    /\ UNCHANGED <<job, stored, shows, files, got>>

-----------------------------------------------------------------------------
(* load_safetensors_auto                                                   *)

\* What is at loc.read_path() of an s3:// URI, or at the path itself.
Readable(r) ==
    LET n == MachineOf(r)
    IN  IF place = "disk" THEN files[n] ELSE IF n \in mounts THEN shows[n] ELSE "none"

\* Bug: the policy is not asked.
ByMountAlways(r) == place = "s3" /\ Readable(r) # "none"

\* An s3:// URI is read through the mount if the policy lets it and the path is
\* there: by mmap, on every rank.
ByMount(r) == place = "s3" /\ readBy # "direct_s3" /\ Readable(r) # "none"

\* Directly from S3 all ranks stream, from a path the first of a node does.
Streams(r) == ~ByMount(r) /\ (place = "s3" \/ LocalRank(r) = 0)

\* "the streamer-on-FUSE deadlock": range reads on a mount may hang.
MayHang(r) == streamer /\ Streams(r) /\ (place = "fuse" \/ ByMount(r))

\* What load_safetensors_auto reads on this rank.
Source(r) == IF place = "s3" /\ ~ByMount(r) THEN stored ELSE Readable(r)

\* _list_safetensors finds nothing, or the file is not whole.
Unreadable(w) == w \in {"none", "torn"}

\* Without the package of the streamer load_file stands in for it; from S3 it
\* cannot.
StreamerMissing(r) == Streams(r) /\ place = "s3" /\ ~streamer

\* load_pretrained
LoadWeights(r) ==
    /\ doing[r] = "load"
    /\ \/ /\ (Unreadable(Source(r)) \/ StreamerMissing(r))
          /\ To(r, "raised") /\ UNCHANGED got
       \/ /\ ~Unreadable(Source(r)) /\ ~StreamerMissing(r)
          /\ \/ To(r, "loaded") /\ got' = [got EXCEPT ![r] = Source(r)]
             \/ MayHang(r) /\ To(r, "hung") /\ UNCHANGED got
    /\ UNCHANGED <<job, stored, shows, files>>

WeightsNext ==
    \/ SaveBegins \/ SaveEnds \/ UploadWeights \/ Meet
    \/ \E r \in Process : Gather(r) \/ LoadWeights(r)
    \/ \E n \in Machine : MountShows(n)

WeightsSpec == WeightsInit /\ [][WeightsNext]_weightVars

-----------------------------------------------------------------------------
(* Properties.                                                             *)

\* The ranks that meet between export and load all load what they exported,
\* on whatever node and by whatever way; the one exception is a mount that shows
\* what was there before, which the policy direct_s3 passes by.  No rank hangs in
\* the streamer, unless it was given the path of the mount itself.
LoadsWhatWasSaved ==
    \A r \in Process :
        /\ met /\ doing[r] = "loaded" =>
            \/ got[r] = "new"
            \/ got[r] = "old" /\ MachineOf(r) \in mounts
               /\ (place = "fuse" \/ (place = "s3" /\ readBy # "direct_s3"))
        /\ doing[r] = "hung" => place = "fuse"

=============================================================================
