----------------------------- MODULE ShardReads ----------------------------
(***************************************************************************)
(* How the readers of a job (the DataLoader workers of its ranks) share a  *)
(* dataset: one object per sample (src/src/torch/scatter.py) or tar shards *)
(* (src/src/torch/wds.py), listed through a mount or from S3, split by     *)
(* rank and worker, and streamed through reservoir_shuffle                 *)
(* (src/src/data/shuffle.py).  Objects are numbered in the order of their  *)
(* names; the dataset may grow while the readers start.                    *)
(***************************************************************************)
EXTENDS Integers, Sequences, FiniteSets, SequencesExt

CONSTANTS
    MaxKey,      \* objects, at most
    MaxWorld,    \* ranks, at most
    MaxWorkers,  \* DataLoader workers of a rank, at most
    MaxBuffer,   \* bound on shuffle_buffer
    ListTries    \* ARCSTORE_WDS_LIST_RETRIES

ASSUME ShardReadsAssumption ==
    /\ MaxKey \in Nat /\ MaxWorld \in Nat \ {0} /\ MaxWorkers \in Nat \ {0}
    /\ MaxBuffer \in Nat /\ ListTries \in Nat \ {0}

Key == 0 .. MaxKey
Ranks == 0 .. MaxWorld - 1
Reader == Ranks \X (0 .. MaxWorkers - 1)

VARIABLES
    dataset,   \* "scatter", "glob" (wds, shards listed) or "brace" (wds, shards counted)
    world,     \* ranks
    workers,   \* workers of each rank
    buffer,    \* shuffle_buffer
    span,      \* a brace range: start, end and step
    bucket,    \* the objects on S3
    late,      \* one that is still to come
    behind,    \* those the mounts list, possibly late
    mounted,   \* the ranks whose node has the mount
    policy,    \* the read policy
    shuffled,  \* shuffle_shards: wds.shuffle before the split, seeded by the process
    names,     \* [Reader -> what it listed]
    todo,      \* [Reader -> its share, not read yet]
    buf,       \* [Reader -> the reservoir]
    yielded,   \* [Key -> how often it was yielded]
    at,        \* [Reader -> "list", "read", "flush", "done" or "failed"]
    listings   \* [Ranks -> listings that found nothing]

sharing == <<dataset, world, workers, buffer, span, policy, shuffled>>
storage == <<bucket, late, behind, mounted>>
stream == <<todo, buf, yielded>>
shardVars == <<sharing, storage, names, stream, at, listings>>

Active(c) == c[1] < world /\ c[2] < workers

\* sorted(): as many keys as its place says do not come after a key.
Sorted(S) ==
    [i \in 1 .. Cardinality(S) |-> CHOOSE k \in S : Cardinality({j \in S : j <= k}) = i]

-----------------------------------------------------------------------------
(* Brace ranges                                                            *)

Abs(n) == IF n < 0 THEN -n ELSE n

\* range(start, stop, step)
RangeOf(start, stop, step) ==
    [i \in 1 .. IF (stop - start) * step <= 0 THEN 0
                ELSE (Abs(stop - start) + Abs(step) - 1) \div Abs(step)
        |-> start + (i - 1) * step]

\* _expand_brace_ranges: the sign of the step is that of the range, the end is in it.
ExpandBraces(start, end, step) ==
    LET s == IF (end - start) * step < 0 THEN -step ELSE step
    IN  RangeOf(start, IF s > 0 THEN end + 1 ELSE end - 1, s)

-----------------------------------------------------------------------------
(* Shares                                                                  *)

\* s[first :: step]
Strided(s, first, step) ==
    [i \in 1 .. IF first >= Len(s) THEN 0 ELSE (Len(s) - first + step - 1) \div step
        |-> s[first + (i - 1) * step + 1]]

\* Bug: workers split the whole list, not the share of their rank.
ShareOfAll(c, s) == Strided(s, c[2], workers)

\* files[rank::world] and then [id::num_workers]; split_by_node and split_by_worker.
Share(c, s) == Strided(Strided(s, c[1], world), c[2], workers)

\* s3torchconnector, enable_sharding: every worker of the job in one round.
ShareOnS3(c, s) == Strided(s, c[1] * workers + c[2], world * workers)

-----------------------------------------------------------------------------

ShardsInit ==
    /\ dataset \in {"scatter", "glob", "brace"}
    /\ world \in 1 .. MaxWorld /\ workers \in 1 .. MaxWorkers
    /\ buffer \in IF dataset = "scatter" THEN 0 .. MaxBuffer ELSE {0}
    /\ span \in IF dataset = "brace" THEN Key \X Key \X {-2, -1, 1, 2, 3} ELSE {<<0, 0, 1>>}
    /\ \E n \in IF dataset = "brace" THEN {0} ELSE 0 .. MaxKey + 1 :
        /\ late \in {{}} \cup {{k} : k \in 0 .. n - 1}
        /\ bucket = (0 .. n - 1) \ late
    /\ behind = bucket
    /\ policy \in IF dataset = "brace" THEN {"direct_s3"} ELSE {"auto", "direct_s3"}
    /\ shuffled \in IF dataset = "glob" THEN BOOLEAN ELSE {FALSE}
    /\ mounted \in IF policy = "direct_s3" THEN {{}} ELSE SUBSET (0 .. world - 1)
    /\ names = [c \in Reader |-> <<>>] /\ todo = [c \in Reader |-> <<>>]
    /\ buf = [c \in Reader |-> <<>>] /\ yielded = [k \in Key |-> 0]
    /\ at = [c \in Reader |-> IF Active(c) THEN "list" ELSE "done"]
    /\ listings = [r \in Ranks |-> 0]

\* Somebody has still to look; what comes after is of no concern to the readers.
Starting == dataset # "brace" /\ \E c \in Reader : at[c] = "list"

\* A new object comes, anywhere in the order of names; the mounts see it later.
NewObject ==
    /\ Starting /\ late # {}
    /\ bucket' = bucket \cup late /\ late' = {}
    /\ UNCHANGED <<sharing, behind, mounted, names, stream, at, listings>>

MountSees ==
    /\ Starting /\ behind # bucket /\ behind' = bucket
    /\ UNCHANGED <<sharing, bucket, late, mounted, names, stream, at, listings>>

\* ScatterPtDataset.__init__, mount_root_for, read_policy: whether a rank reads
\* through a mount is decided once in its process.
ViaMount(r) == policy # "direct_s3" /\ r \in mounted

Listing(c) ==
    IF dataset = "brace" THEN ExpandBraces(span[1], span[2], span[3])
    ELSE Sorted(IF ViaMount(c[1]) THEN behind ELSE bucket)

Split(c, s) == IF dataset = "scatter" /\ ~ViaMount(c[1]) THEN ShareOnS3(c, s) ELSE Share(c, s)

\* A worker of a ScatterPtDataset lists for itself, expand_urls once for all
\* workers of its rank.
Listers(c) ==
    {d \in Reader : Active(d) /\ d[1] = c[1] /\ (dataset = "scatter" => d = c)}

Lists(c) ==
    /\ at[c] = "list"
    /\ dataset # "scatter" => c[2] = 0

\* _local_keys, expand_urls.  A shuffle leaves each of the readers with the order
\* of the listing, or with another one.
ListKeys(c) ==
    /\ Lists(c) /\ (dataset # "scatter" => Listing(c) # <<>>)
    /\ \E other \in IF shuffled THEN SUBSET Listers(c) ELSE {{}} :
        /\ names' = [d \in Reader |->
                IF d \in other THEN Reverse(Listing(c))
                ELSE IF d \in Listers(c) THEN Listing(c) ELSE names[d]]
        /\ todo' = [d \in Reader |-> IF d \in Listers(c) THEN Split(d, names'[d]) ELSE todo[d]]
    /\ at' = [d \in Reader |-> IF d \in Listers(c) THEN "read" ELSE at[d]]
    /\ UNCHANGED <<sharing, storage, buf, yielded, listings>>

\* A pattern that matches nothing is listed again; FileNotFoundError in the end.
ListNothing(c) ==
    /\ Lists(c) /\ dataset # "scatter" /\ Listing(c) = <<>>
    /\ listings' = [listings EXCEPT ![c[1]] = @ + 1]
    /\ at' = [d \in Reader |->
                IF d \in Listers(c) /\ listings'[c[1]] = ListTries THEN "failed" ELSE at[d]]
    /\ UNCHANGED <<sharing, storage, names, stream>>

-----------------------------------------------------------------------------
(* reservoir_shuffle: a buffer of at most one passes everything through.   *)

\* Readers share nothing from here on: they are taken in turn.
Turn(c) ==
    /\ \A d \in Reader : at[d] \notin {"list"}
    /\ \A d \in Reader : d[1] < c[1] \/ (d[1] = c[1] /\ d[2] < c[2]) => at[d] \in {"done", "failed"}

\* buf[j], buf[-1] = buf[-1], buf[j]; buf.pop()
Draw(b, j) == <<b[j], Front([b EXCEPT ![j] = Last(b)])>>

ReadSample(c) ==
    /\ at[c] = "read" /\ Turn(c) /\ todo[c] # <<>>
    /\ todo' = [todo EXCEPT ![c] = Tail(@)]
    /\ LET b == Append(buf[c], Head(todo[c]))
       IN  \/ /\ Len(b) < buffer
              /\ buf' = [buf EXCEPT ![c] = b] /\ UNCHANGED yielded
           \/ /\ Len(b) >= buffer
              /\ \E j \in DOMAIN b :
                    /\ yielded' = [yielded EXCEPT ![Draw(b, j)[1]] = @ + 1]
                    /\ buf' = [buf EXCEPT ![c] = Draw(b, j)[2]]
    /\ UNCHANGED <<sharing, storage, names, at, listings>>

\* The rest is shuffled and yielded, sample by sample.
Flush(c) ==
    /\ at[c] = "read" /\ Turn(c) /\ todo[c] = <<>> /\ buf[c] # <<>>
    /\ \E j \in DOMAIN buf[c] :
        /\ yielded' = [yielded EXCEPT ![Draw(buf[c], j)[1]] = @ + 1]
        /\ buf' = [buf EXCEPT ![c] = Draw(buf[c], j)[2]]
    /\ UNCHANGED <<sharing, storage, names, todo, at, listings>>

Exhausted(c) ==
    /\ at[c] = "read" /\ Turn(c) /\ todo[c] = <<>> /\ buf[c] = <<>>
    /\ at' = [at EXCEPT ![c] = "done"]
    /\ UNCHANGED <<sharing, storage, names, stream, listings>>

ShardsNext ==
    \/ NewObject \/ MountSees
    \/ \E c \in Reader :
        \/ ListKeys(c) \/ ListNothing(c) \/ ReadSample(c) \/ Flush(c) \/ Exhausted(c)

-----------------------------------------------------------------------------
(* Properties.                                                             *)

\* What a brace range stands for, in whatever direction it counts.
Meant(s) ==
    {k \in Key : /\ k \in s[1] .. s[2] \cup s[2] .. s[1]
                 /\ Abs(k - s[1]) % Abs(s[3]) = 0}

\* All readers that read at all listed the same and read the same way.
Alike == \A c, d \in Reader : Active(c) /\ Active(d) =>
            names[c] = names[d] /\ (dataset = "scatter" => (ViaMount(c[1]) <=> ViaMount(d[1])))

\* When every reader is done, every object of the listing (for a brace range,
\* every shard that it stands for) has been yielded by exactly one reader and
\* exactly once, whatever the numbers of ranks, workers and objects and the size
\* of the buffer, provided that all readers listed the same objects the same way
\* and in the same order (a wds.shuffle that each process seeds for itself breaks
\* that); nothing is yielded twice before, either.
EveryObjectOnce ==
    Alike =>
        /\ \A k \in Key : yielded[k] <= 1
        /\ (\A c \in Reader : at[c] = "done") =>
            \A k \in Key : yielded[k] = 1 <=>
                IF dataset = "brace" THEN k \in Meant(span) ELSE k \in ToSet(names[<<0, 0>>])

=============================================================================
