------------------------ MODULE TrainingPartsProofs ------------------------
(***************************************************************************)
(* Proofs about the parts a training process uses besides its checkpoints: *)
(* Ema, CodeSync, ChunkedLog, Weights, ShardReads and PerfTracker.         *)
(***************************************************************************)
EXTENDS Ema, CodeSync, ChunkedLog, Weights, ShardReads, PerfTracker,
        StepSets, FiniteSetTheorems, SequenceTheorems, TLAPS

-----------------------------------------------------------------------------
(* Ema: any models, weights and loads.                                     *)

\* What is needed of the types: no tensor of a model is ever missing.
Tensors ==
    /\ ids \in [Model -> 1 .. Cardinality(Model)]
    /\ live \in Gen
    /\ weights \in [Model -> [Name -> Seq(Int)]] /\ own \in [Model -> Seq(Int)]
    /\ shadows \in [Gen -> [Name -> Seq(Int)]]
    /\ average \in [Name -> Seq(Int)]
    /\ backup \in Seq(Int)
    /\ trained \in Nat /\ swapped \subseteq Model
    /\ \A m \in Model : weights[m]["param"] # None

\* Tensor lists that are kept are of the shadow that is live, and of a model
\* whose id they have: of the model that update() is given, if ids tell.
Caches ==
    /\ cache.key # NoCache.key =>
        cache.gen = live /\ cache.model \in Model /\ cache.key = ids[cache.model]
    /\ Distinct => shadows[live] = average

\* While the swap is used in order, at most one model is swapped, and its own
\* weights are in the backup, or still in the model when there is no shadow.
Swap ==
    ~misused =>
        /\ \A m, n \in swapped : m = n
        /\ swapped = {} => backup = None
        /\ \A m \in swapped :
            IF backup = None THEN weights[m]["param"] = own[m] ELSE backup = own[m]
        /\ \A m \in Model \ swapped : weights[m]["param"] = own[m]

EmaInv == Tensors /\ Caches /\ Swap

\* Every action keeps the invariant.
LEMMA EmaNextInv == EmaInv /\ [EmaNext]_emaVars => EmaInv'
<1> SUFFICES ASSUME EmaInv, [EmaNext]_emaVars PROVE EmaInv'
  OBVIOUS
<1> USE DEF EmaInv, Tensors, Caches, Swap, Distinct, Shadowed, None, Name
<1>1. ASSUME NEW m \in Model, TrainStep(m) PROVE EmaInv'
  <2>1. <<trained + 1>> \in Seq(Int) /\ <<trained + 1>> # None
    OBVIOUS
  <2>2. weights' \in [Model -> [Name -> Seq(Int)]] /\ own' \in [Model -> Seq(Int)]
    BY <1>1, <2>1 DEF TrainStep
  <2>4. \A n \in Model : weights'[n]["param"] # None
    BY <1>1, <2>1 DEF TrainStep
  <2>5. Tensors'
    BY <1>1, <2>2, <2>4 DEF TrainStep
  <2>6. Caches'
    BY <1>1 DEF TrainStep
  <2>3. Swap'
    BY <1>1 DEF TrainStep
  <2> QED
    BY <2>3, <2>5, <2>6
<1>2. ASSUME NEW m \in Model, Update(m) PROVE EmaInv'
  <2> DEFINE c == IF Cached(m) THEN cache ELSE BuildCache(m)
  <2>1. ids[m] # NoCache.key /\ ids[m] \in Nat
    <3>1. Cardinality(Model) \in Nat
      BY EmaAssumption, FS_CardinalityType
    <3> QED
      BY <3>1 DEF NoCache
  <2>2. CASE c.key = NoCache.key
    BY <1>2, <2>2 DEF Update
  <2>3. CASE c.key # NoCache.key
    <3>1. c.gen = live /\ c.key = ids[c.model] /\ c.key = ids[m] /\ c.model \in Model
      BY <2>1, <2>3 DEF Cached, BuildCache
    <3>2. /\ cache' = c /\ shadows' = [shadows EXCEPT ![live] = Blended(@, c.model)]
          /\ average' = Blended(average, m)
      BY <1>2, <2>3, <3>1 DEF Update
    <3>3. UNCHANGED <<ids, buffers, weights, trained, live, backup, own, swapped, misused>>
      BY <1>2 DEF Update
    <3>4. \A s \in [Name -> Seq(Int)], n \in Model : Blended(s, n) \in [Name -> Seq(Int)]
      BY DEF Blended, Blend
    <3>5. Distinct => c.model = m
      BY <3>1
    <3>6. Caches'
      BY <3>1, <3>2, <3>3, <3>5
    <3>7. Tensors' /\ Swap'
      BY <3>1, <3>2, <3>3, <3>4
    <3> QED
      BY <3>6, <3>7
  <2> QED
    BY <2>2, <2>3
<1>3. ASSUME NEW m \in Model, ApplyShadow(m) PROVE EmaInv'
  <2>1. weights' \in [Model -> [Name -> Seq(Int)]] /\ backup' \in Seq(Int)
    <3>1. shadows[live]["param"] \in Seq(Int) /\ weights[m]["param"] \in Seq(Int) /\ <<>> \in Seq(Int)
      OBVIOUS
    <3>2. CASE "param" \in Shadowed(shadows[live])
      <4>1. weights' = [weights EXCEPT ![m]["param"] = shadows[live]["param"]]
        BY <1>3, <3>2 DEF ApplyShadow
      <4>2. backup' = weights[m]["param"]
        BY <1>3, <3>2 DEF ApplyShadow, Saved
      <4> QED
        BY <3>1, <4>1, <4>2
    <3>3. CASE "param" \notin Shadowed(shadows[live])
      BY <1>3, <3>1, <3>3 DEF ApplyShadow
    <3> QED
      BY <3>2, <3>3
  <2>3. \A n \in Model : weights'[n]["param"] # None
    BY <1>3 DEF ApplyShadow
  <2>4. Tensors' /\ Caches'
    BY <1>3, <2>1, <2>3 DEF ApplyShadow
  <2>2. Swap'
    BY <1>3 DEF ApplyShadow, Saved
  <2> QED
    BY <2>2, <2>4
<1>4. ASSUME NEW m \in Model, Restore(m) PROVE EmaInv'
  <2>1. weights' \in [Model -> [Name -> Seq(Int)]] /\ backup' \in Seq(Int)
    BY <1>4, EmptySeq DEF Restore
  <2>3. \A n \in Model : weights'[n]["param"] # None
    BY <1>4 DEF Restore
  <2>4. Tensors' /\ Caches'
    BY <1>4, <2>1, <2>3 DEF Restore
  <2>2. Swap'
    BY <1>4 DEF Restore
  <2> QED
    BY <2>2, <2>4
<1>5. ASSUME NEW g \in Gen, NEW N \in SUBSET Name, LoadStateDict(g, N) PROVE EmaInv'
  <2>1. live + 1 \in Gen /\ None \in Seq(Int)
    BY <1>5, EmaAssumption DEF LoadStateDict, Gen
  <2>2. shadows'[live'] = average' /\ cache'.key = NoCache.key /\ cache'.model = cache.model
    BY <1>5, <2>1 DEF LoadStateDict, DropsCache
  <2>3. shadows' \in [Gen -> [Name -> Seq(Int)]] /\ average' \in [Name -> Seq(Int)]
    BY <1>5, <2>1 DEF LoadStateDict
  <2>4. Tensors' /\ Swap'
    BY <1>5, <2>1, <2>3 DEF LoadStateDict
  <2> QED
    BY <2>2, <2>4 DEF NoCache
<1>6. CASE UNCHANGED emaVars
  BY <1>6 DEF emaVars
<1> QED
  BY <1>1, <1>2, <1>3, <1>4, <1>5, <1>6 DEF EmaNext

\* The shadow is the average of what update() was given, and a model that is not
\* swapped has its own weights, for any number of models, updates and loads
\* (EMA of src/src/torch/observability.py).
THEOREM Averages == EmaSpec => []AveragesAndGivesBack
<1>1. EmaInit => EmaInv
  <2> SUFFICES ASSUME EmaInit PROVE EmaInv
    OBVIOUS
  <2>1. <<1>> \in Seq(Int) /\ None \in Seq(Int) /\ <<1>> # None
    BY DEF None
  <2>2. 0 \in Gen
    BY EmaAssumption DEF Gen
  <2>3. Tensors
    <3>1. weights \in [Model -> [Name -> Seq(Int)]] /\ own \in [Model -> Seq(Int)]
      BY <2>1 DEF EmaInit
    <3>2. shadows \in [Gen -> [Name -> Seq(Int)]]
      BY <2>1 DEF EmaInit
    <3>3. average \in [Name -> Seq(Int)]
      BY <2>2, <3>2 DEF EmaInit
    <3>4. \A m \in Model : weights[m]["param"] # None
      BY <2>1 DEF EmaInit, Name
    <3> QED
      BY <2>1, <2>2, <3>1, <3>2, <3>3, <3>4 DEF EmaInit, Tensors
  <2>4. Caches /\ Swap
    BY <2>1 DEF EmaInit, Caches, Swap, NoCache, Name
  <2> QED
    BY <2>3, <2>4 DEF EmaInv
<1>2. EmaInv => AveragesAndGivesBack
  BY DEF EmaInv, Caches, Swap, AveragesAndGivesBack
<1> QED
  BY <1>1, <1>2, EmaNextInv, PTL DEF EmaSpec

-----------------------------------------------------------------------------
(* CodeSync: any files and any changes by others.                          *)

Commands == {"none", "preview", "confirm", "sync", "pull"}

\* What a push may still remove was found by the preview, or changed since, and
\* what was found is agreed to once the mirroring begins.
Previewed ==
    /\ cmd \in {"confirm", "sync"} =>
        \A f \in Stale : f \in counted \/ f \in changed \/ dryFailed
    /\ cmd = "sync" => counted = {} \/ agreed
    /\ shown = counted \/ Cardinality(shown) = MaxShown

SyncInv ==
    /\ tree \subseteq File /\ prefix \subseteq File /\ changed \subseteq File
    /\ cmd \in Commands
    /\ Previewed

\* What the theorem says of one step.
NoSurprise ==
    \A f \in File :
        /\ MirrorFile(f) /\ f \notin prefix' =>
            /\ (Announced(f) /\ agreed) \/ f \in changed \/ dryFailed
            /\ "dry_run" \notin args
        /\ (PullFile(f) \/ PullEnds) => tree \subseteq tree'

\* A push removes only what the preview found and named, or counted when there
\* was more than it names, and the user agreed to, unless the dry run failed or it
\* changed since; a dry run and a pull remove nothing (cmd_push and
\* cmd_pull of src/src/sync.py).
THEOREM NothingUnannounced == SyncSpec => DeletesConfirmed
<1>1. SyncInit => SyncInv
  BY DEF SyncInit, SyncInv, Previewed, Commands
<1>2. SyncInv /\ [SyncNext]_syncVars => SyncInv'
  <2> SUFFICES ASSUME SyncInv, [SyncNext]_syncVars PROVE SyncInv'
    OBVIOUS
  <2> USE DEF SyncInv, Previewed, Commands, Stale, Sources, SyncEnd
  <2>1. ASSUME Edit PROVE SyncInv'
    BY <2>1 DEF Edit, asked
  <2>2. ASSUME NEW options \in SUBSET Option, NEW installed \in BOOLEAN, Push(options, installed)
        PROVE SyncInv'
    BY <2>2 DEF Push
  <2>3. ASSUME Preview PROVE SyncInv'
    <3>1. /\ counted' \in SUBSET Deletions /\ shown' \in Names(counted')
          /\ cmd' = IF Asks(counted') THEN "confirm" ELSE "sync"
          /\ agreed' = ("yes" \in args) /\ UNCHANGED <<tree, prefix>> /\ changed' = {}
          /\ counted' = Deletions \/ dryFailed'
      BY <2>3 DEF Preview
    <3>2. shown' = counted' \/ Cardinality(shown') = MaxShown
      BY <3>1 DEF Names
    <3>3. cmd' = "sync" => counted' = {} \/ agreed'
      BY <3>1 DEF Asks
    <3> QED
      BY <3>1, <3>2, <3>3 DEF Deletions
  <2>4. ASSUME NEW answer \in BOOLEAN, Confirm(answer) PROVE SyncInv'
    BY <2>4 DEF Confirm
  <2>5. ASSUME DryRun PROVE SyncInv'
    BY <2>5 DEF DryRun, asked
  <2>6. ASSUME NEW f \in File, MirrorFile(f) PROVE SyncInv'
    BY <2>6 DEF MirrorFile, asked
  <2>7. ASSUME NEW failed \in BOOLEAN, MirrorEnds(failed) PROVE SyncInv'
    BY <2>7 DEF MirrorEnds, asked
  <2>8. ASSUME NEW options \in SUBSET {"dry_run"}, Pull(options) PROVE SyncInv'
    BY <2>8 DEF Pull, asked
  <2>9. ASSUME NEW f \in File, PullFile(f) PROVE SyncInv'
    BY <2>9 DEF PullFile, Fetches, asked
  <2>10. ASSUME PullEnds PROVE SyncInv'
    BY <2>10 DEF PullEnds, asked
  <2>11. CASE UNCHANGED syncVars
    BY <2>11 DEF syncVars, asked
  <2> QED
    BY <2>1, <2>2, <2>3, <2>4, <2>5, <2>6, <2>7, <2>8, <2>9, <2>10, <2>11 DEF SyncNext
<1>3. SyncInv /\ [SyncNext]_syncVars => [NoSurprise]_syncVars
  <2> SUFFICES ASSUME SyncInv, NEW f \in File
               PROVE  /\ MirrorFile(f) /\ f \notin prefix' =>
                          /\ (Announced(f) /\ agreed) \/ f \in changed \/ dryFailed
                          /\ "dry_run" \notin args
                      /\ (PullFile(f) \/ PullEnds) => tree \subseteq tree'
    BY DEF NoSurprise
  <2>1. MirrorFile(f) /\ f \notin prefix' => cmd = "sync" /\ f \in Stale /\ "dry_run" \notin args
    BY DEF MirrorFile
  <2>2. (PullFile(f) \/ PullEnds) => tree \subseteq tree'
    BY DEF PullFile, Fetches, PullEnds, SyncEnd
  <2> QED
    BY <2>1, <2>2 DEF SyncInv, Previewed, Announced
<1> QED
  BY <1>1, <1>2, <1>3, PTL DEF SyncSpec, DeletesConfirmed, NoSurprise

-----------------------------------------------------------------------------
(* ChunkedLog: any lines, chunk sizes and starts.                          *)

ChunksType ==
    /\ arrived \in 0 .. MaxLines
    /\ local \in [Chunk -> Seq(Line)] /\ remote \in [Chunk -> Seq(Line)]
    /\ idx \in Chunk /\ size \in Nat
    /\ tee \in {"read", "written", "full", "closing", "ended", "killed"}
    /\ sinceStart \in Seq(Line) /\ clean \in BOOLEAN /\ diskLost \in BOOLEAN

\* Every chunk so far has at least one line, so there is always a next one.
Room ==
    /\ idx + (IF size > 0 THEN 1 ELSE 0) <= arrived
    /\ size > 0 => local[idx] # <<>>
    /\ tee = "full" => size > 0

\* The chunks gone on from are on S3.
Behind == \A k \in Chunk : k < idx => remote[k] = local[k]

\* On its own disk, no object has more than its file.
Extends == ~diskLost => \A k \in Chunk : IsPrefix(remote[k], local[k])

\* The lines of this start are in the chunks so far, and on S3 when the last
\* upload went through.
Kept ==
    /\ \A i \in DOMAIN sinceStart : \E k \in Chunk : k <= idx /\ sinceStart[i] \in ToSet(local[k])
    /\ clean => tee = "ended" /\ (local[idx] = <<>> \/ remote[idx] = local[idx])

ChunksInv == ChunksType /\ Room /\ Behind /\ Extends /\ Kept

\* A sequence extends itself and the empty one, and what extends it still does
\* when an element is appended.
LEMMA PrefixFacts ==
    ASSUME NEW S, NEW s \in Seq(S)
    PROVE  /\ IsPrefix(s, s) /\ IsPrefix(<<>>, s)
           /\ \A t \in Seq(S), x \in S : IsPrefix(s, t) => IsPrefix(s, Append(t, x))
<1>1. IsPrefix(s, s) /\ IsPrefix(<<>>, s)
  BY DEF IsPrefix
<1>2. ASSUME NEW t \in Seq(S), NEW x \in S, IsPrefix(s, t)
      PROVE  IsPrefix(s, Append(t, x))
  BY <1>2 DEF IsPrefix
<1> QED
  BY <1>1, <1>2

\* An upload brings the current chunk level with the disk and no other one back.
LEMMA UploadKeeps ==
    ASSUME ChunksType, Behind, Extends, UploadCurrent, local' = local
    PROVE  /\ remote' \in [Chunk -> Seq(Line)]
           /\ \A k \in Chunk : k < idx => remote'[k] = local[k]
           /\ local[idx] = <<>> \/ remote'[idx] = local[idx]
           /\ ~diskLost => \A k \in Chunk : IsPrefix(remote'[k], local[k])
<1>1. CASE local[idx] = <<>>
  BY <1>1 DEF ChunksType, Behind, Extends, UploadCurrent
<1>2. CASE local[idx] # <<>>
  <2>1. remote' = [remote EXCEPT ![idx] = local[idx]]
    BY <1>2 DEF UploadCurrent
  <2>2. IsPrefix(local[idx], local[idx])
    BY PrefixFacts DEF ChunksType
  <2> QED
    BY <2>1, <2>2 DEF ChunksType, Behind, Extends, Chunk
<1> QED
  BY <1>1, <1>2

\* Every action keeps the invariant.
LEMMA ChunksNextInv == ChunksInv /\ [ChunksNext]_chunkVars => ChunksInv'
<1> SUFFICES ASSUME ChunksInv, [ChunksNext]_chunkVars PROVE ChunksInv'
  OBVIOUS
<1> USE DEF ChunksInv
<1>1. ASSUME NEW n \in 1 .. MaxSize, TeeLine(n) PROVE ChunksInv'
  <2>1. /\ tee = "read" /\ arrived < MaxLines /\ arrived' = arrived + 1
        /\ local' = [local EXCEPT ![idx] = Append(@, arrived + 1)]
        /\ sinceStart' = Append(sinceStart, arrived + 1)
        /\ size' = size + n /\ tee' = "written"
        /\ UNCHANGED <<remote, idx, starts, clean, diskLost>>
    BY <1>1 DEF TeeLine
  <2>2. arrived + 1 \in Line /\ n \in Nat /\ n > 0
    BY <2>1, ChunkedLogAssumption DEF Line, ChunksType
  <2>3. /\ local'[idx] = Append(local[idx], arrived + 1) /\ local'[idx] \in Seq(Line)
        /\ \A k \in Chunk \ {idx} : local'[k] = local[k]
    BY <2>1, <2>2 DEF ChunksType
  <2>4. ChunksType'
    BY <2>1, <2>2, <2>3, ChunkedLogAssumption DEF ChunksType
  <2>5. Room'
    <3>1. local'[idx] # <<>>
      <4>1. local[idx] \in Seq(Line)
        BY DEF ChunksType
      <4> QED
        BY <2>2, <2>3, <4>1, AppendProperties
    <3> QED
      BY <2>1, <2>2, <3>1 DEF Room, ChunksType, Chunk
  <2>6. Behind'
    BY <2>1, <2>3 DEF Behind, ChunksType, Chunk
  <2>7. Extends'
    BY <2>1, <2>2, <2>3, PrefixFacts DEF Extends, ChunksType
  <2>8. Kept'
    <3>1. ~clean
      BY <2>1 DEF Kept
    <3>2. \A k \in Chunk : ToSet(local[k]) \subseteq ToSet(local'[k])
      <4> SUFFICES ASSUME NEW k \in Chunk, NEW i \in DOMAIN local[k]
                   PROVE  i \in DOMAIN local'[k] /\ local'[k][i] = local[k][i]
        BY DEF ToSet
      <4>1. CASE k = idx
        <5>1. local[idx] \in Seq(Line)
          BY DEF ChunksType
        <5> QED
          BY <2>2, <2>3, <4>1, <5>1, AppendProperties
      <4>2. CASE k # idx
        BY <2>3, <4>2
      <4> QED
        BY <4>1, <4>2
    <3>3. arrived + 1 \in ToSet(local'[idx])
      <4>1. Len(local[idx]) + 1 \in DOMAIN local'[idx]
            /\ local'[idx][Len(local[idx]) + 1] = arrived + 1
        BY <2>2, <2>3 DEF ChunksType
      <4> QED
        BY <4>1 DEF ToSet
    <3>4. ASSUME NEW i \in DOMAIN sinceStart'
          PROVE  \E k \in Chunk : k <= idx' /\ sinceStart'[i] \in ToSet(local'[k])
      <4>1. CASE i \in DOMAIN sinceStart
        <5>1. sinceStart'[i] = sinceStart[i]
          BY <2>1, <2>2, <4>1 DEF ChunksType
        <5> QED
          BY <2>1, <3>2, <4>1, <5>1 DEF Kept
      <4>2. CASE i \notin DOMAIN sinceStart
        <5>1. sinceStart'[i] = arrived + 1
          BY <2>1, <2>2, <4>2 DEF ChunksType
        <5> QED
          BY <2>1, <3>3, <5>1 DEF ChunksType, Chunk
      <4> QED
        BY <4>1, <4>2
    <3> QED
      BY <2>1, <3>1, <3>4 DEF Kept
  <2> QED
    BY <2>4, <2>5, <2>6, <2>7, <2>8
<1>2. ASSUME IntervalUpload PROVE ChunksInv'
  <2>1. /\ UNCHANGED <<arrived, local, idx, size, starts, sinceStart, clean, diskLost>>
        /\ tee = "written" /\ tee' \in {"read", "full", "closing"}
        /\ tee' = "full" => size >= ChunkBytes
        /\ UploadCurrent \/ remote' = remote
    BY <1>2 DEF IntervalUpload, AfterUpload
  <2>2. /\ remote' \in [Chunk -> Seq(Line)] /\ Behind' /\ Extends'
    BY <2>1, UploadKeeps DEF ChunksType, Behind, Extends
  <2>3. Room'
    BY <2>1, ChunkedLogAssumption DEF Room, ChunksType
  <2>4. Kept'
    BY <2>1 DEF Kept
  <2> QED
    BY <2>1, <2>2, <2>3, <2>4 DEF ChunksType
<1>3. ASSUME Rotate PROVE ChunksInv'
  <2>1. UNCHANGED <<arrived, local, starts, sinceStart, clean, diskLost>> /\ tee = "full" /\ ~clean
    BY <1>3 DEF Rotate, Kept
  <2>2. CASE UNCHANGED <<remote, idx, size>> /\ tee' = "closing"
    BY <2>1, <2>2 DEF ChunksType, Room, Behind, Extends, Kept
  <2>3. CASE UploadCurrent /\ idx' = idx + 1 /\ size' = 0 /\ tee' = "read"
    <3>1. local[idx] # <<>> /\ idx + 1 <= arrived /\ idx' \in Chunk
      BY <2>1, <2>3, ChunkedLogAssumption DEF ChunksType, Room, Chunk
    <3>2. remote'[idx] = local[idx] /\ remote' \in [Chunk -> Seq(Line)]
          /\ \A k \in Chunk : k < idx => remote'[k] = local[k]
      BY <2>1, <2>3, <3>1, UploadKeeps
    <3>3. ChunksType' /\ Room'
      BY <2>1, <2>3, <3>1, <3>2 DEF ChunksType, Room, Chunk
    <3>4. Behind'
      BY <2>1, <2>3, <3>2 DEF Behind, ChunksType, Chunk
    <3>5. Extends'
      BY <2>1, <2>3, UploadKeeps DEF Extends
    <3>6. Kept'
      BY <2>1, <2>3 DEF Kept, ChunksType, Chunk
    <3> QED
      BY <3>3, <3>4, <3>5, <3>6
  <2> QED
    BY <1>3, <2>2, <2>3 DEF Rotate, FullUpload
<1>4. ASSUME EndOfInput PROVE ChunksInv'
  BY <1>4 DEF EndOfInput, ChunksType, Room, Behind, Extends, Kept
<1>5. ASSUME LastUpload PROVE ChunksInv'
  <2>1. /\ UNCHANGED <<arrived, local, idx, size, starts, sinceStart, diskLost>>
        /\ tee' = "ended"
        /\ (UploadCurrent /\ clean' = TRUE) \/ (remote' = remote /\ clean' = FALSE)
    BY <1>5 DEF LastUpload
  <2>2. /\ remote' \in [Chunk -> Seq(Line)] /\ Behind' /\ Extends'
        /\ clean' => local'[idx] = <<>> \/ remote'[idx] = local'[idx]
    BY <2>1, UploadKeeps DEF ChunksType, Behind, Extends
  <2>3. Room' /\ Kept'
    BY <2>1, <2>2 DEF Room, Kept
  <2> QED
    BY <2>1, <2>2, <2>3 DEF ChunksType
<1>6. ASSUME TeeKilled PROVE ChunksInv'
  BY <1>6 DEF TeeKilled, ChunksType, Room, Behind, Extends, Kept
<1>7. ASSUME NEW newDisk \in BOOLEAN, TeeStarts(newDisk) PROVE ChunksInv'
  <2>1. 0 \in Chunk /\ <<>> \in Seq(Line)
    BY ChunkedLogAssumption DEF Chunk
  <2>2. /\ tee' = "read" /\ idx' = 0 /\ size' = 0 /\ sinceStart' = <<>> /\ clean' = FALSE
        /\ UNCHANGED <<arrived, remote>> /\ diskLost' = (diskLost \/ newDisk)
        /\ local' = IF newDisk THEN [k \in Chunk |-> <<>>] ELSE local
    BY <1>7 DEF TeeStarts
  <2>3. ChunksType'
    BY <2>1, <2>2 DEF ChunksType
  <2>4. Room' /\ Behind' /\ Kept'
    BY <2>2 DEF Room, Behind, Kept, ChunksType, Chunk
  <2>5. Extends'
    BY <2>2 DEF Extends
  <2> QED
    BY <2>3, <2>4, <2>5
<1>8. CASE UNCHANGED chunkVars
  BY <1>8 DEF chunkVars, ChunksType, Room, Behind, Extends, Kept
<1> QED
  BY <1>1, <1>2, <1>3, <1>4, <1>5, <1>6, <1>7, <1>8 DEF ChunksNext

\* A chunk that the tee has gone on from is on S3, an end whose upload went through
\* leaves all of the start's lines there, and objects only grow on one disk, for
\* any number of lines and starts and any chunk size (_main_chunked of
\* src/src/logtee.py).
THEOREM LinesReachS3 == ChunksSpec => ChunksOnS3
<1> DEFINE Published ==
        /\ \A k \in Chunk : k < idx => remote[k] = local[k]
        /\ tee = "ended" /\ clean => ToSet(sinceStart) \subseteq Sent
    Grows == \A k \in Chunk : IsPrefix(remote[k], remote'[k]) \/ diskLost
<1>1. ChunksInit => ChunksInv
  <2> SUFFICES ASSUME ChunksInit PROVE ChunksInv
    OBVIOUS
  <2>1. 0 \in Chunk /\ <<>> \in Seq(Line)
    BY ChunkedLogAssumption DEF Chunk
  <2>2. ChunksType
    BY <2>1, ChunkedLogAssumption DEF ChunksInit, ChunksType
  <2>3. Extends
    BY <2>1, PrefixFacts DEF ChunksInit, Extends
  <2>4. Room /\ Behind /\ Kept
    BY <2>1 DEF ChunksInit, Room, Behind, Kept
  <2> QED
    BY <2>2, <2>3, <2>4 DEF ChunksInv
<1>2. ChunksInv => Published
  <2> SUFFICES ASSUME ChunksInv, clean, NEW i \in DOMAIN sinceStart
               PROVE  sinceStart[i] \in Sent
    BY DEF ChunksInv, Behind, ToSet
  <2>1. PICK k \in Chunk : k <= idx /\ sinceStart[i] \in ToSet(local[k])
    BY DEF ChunksInv, Kept
  <2>2. remote[k] = local[k]
    <3>1. CASE k = idx
      <4>1. local[k] # <<>>
        BY <2>1 DEF ToSet
      <4> QED
        BY <3>1, <4>1 DEF ChunksInv, Kept
    <3>2. CASE k # idx
      BY <2>1, <3>2 DEF ChunksInv, Behind, ChunksType, Chunk
    <3> QED
      BY <3>1, <3>2
  <2> QED
    BY <2>1, <2>2 DEF Sent
<1>3. ChunksInv /\ [ChunksNext]_chunkVars => [Grows]_chunkVars
  <2> SUFFICES ASSUME ChunksInv, ChunksNext, ~diskLost, NEW k \in Chunk
               PROVE  IsPrefix(remote[k], remote'[k])
    BY DEF Grows
  <2>1. IsPrefix(remote[k], remote[k]) /\ IsPrefix(remote[k], local[k])
    BY PrefixFacts DEF ChunksInv, ChunksType, Extends
  <2>2. CASE remote'[k] = remote[k]
    BY <2>1, <2>2
  <2>3. CASE UploadCurrent
    BY <2>1, <2>3 DEF UploadCurrent, ChunksInv, ChunksType
  <2>4. UploadCurrent \/ remote' = remote
    BY DEF ChunksNext, TeeLine, IntervalUpload, Rotate, FullUpload, EndOfInput, LastUpload,
           TeeKilled, TeeStarts
  <2> QED
    BY <2>2, <2>3, <2>4
<1> QED
  BY <1>1, <1>2, <1>3, ChunksNextInv, PTL DEF ChunksSpec, ChunksOnS3

-----------------------------------------------------------------------------
(* Weights: any number of ranks and nodes.                                 *)

Doings == {"gather", "save", "writing", "upload", "saved", "load", "loaded", "raised", "hung"}

\* Only node 0 has a file that is being written; S3 and the mounts have whole ones.
WeightsType ==
    /\ perNode \in 1 .. MaxRanks /\ place \in {"s3", "disk", "fuse"}
    /\ mounts \subseteq Machine
    /\ stored \in {"none", "old", "new"}
    /\ shows \in [Machine -> {"none", "old", "new"}]
    /\ files \in [Machine -> {"none", "old", "torn", "new"}]
    /\ \A n \in Machine \ {0} : files[n] = "none"
    /\ doing \in [Process -> Doings] /\ got \in [Process -> {"none", "old", "new"}]

Finished == {"load", "loaded", "hung"}

\* Rank 0 has exported.
Exported == files[0] = "new" /\ (place # "disk" => stored = "new")

\* Once rank 0 is past its export, the export stays; nobody loads before that
\* if the ranks meet.
InOrder ==
    /\ doing[0] \in {"saved"} \cup Finished => Exported
    /\ doing[0] = "upload" => files[0] = "new" /\ place # "disk"
    /\ met /\ (\E r \in Process : doing[r] \in Finished) =>
        doing[0] \in Finished \cup {"raised"} /\ Exported

\* What the theorem states, for every rank.
Loads ==
    \A r \in Process :
        /\ met /\ doing[r] = "loaded" =>
            \/ got[r] = "new"
            \/ got[r] = "old" /\ MachineOf(r) \in mounts
               /\ (place = "fuse" \/ (place = "s3" /\ readBy # "direct_s3"))
        /\ doing[r] = "hung" => place = "fuse"

WeightsInv == WeightsType /\ InOrder /\ Loads

\* Every action keeps the invariant.
LEMMA WeightsNextInv == WeightsInv /\ [WeightsNext]_weightVars => WeightsInv'
<1>a. ASSUME perNode \in 1 .. MaxRanks, NEW r \in Process PROVE MachineOf(r) \in Machine
  BY <1>a, WeightsAssumption DEF MachineOf, Machine, Process
<1> SUFFICES ASSUME WeightsInv, [WeightsNext]_weightVars PROVE WeightsInv'
  OBVIOUS
<1>b. 0 \in Process /\ 0 \in Machine
  BY WeightsAssumption DEF Process, Machine
<1> USE <1>b DEF WeightsInv, WeightsType, InOrder, Loads, Finished, Exported, Doings, To, job, MachineOf
<1>1. ASSUME NEW r \in Process, Gather(r) PROVE WeightsInv'
  <2>1. WeightsType'
    BY <1>1 DEF Gather
  <2>2. InOrder' /\ Loads'
    BY <1>1 DEF Gather
  <2> QED
    BY <2>1, <2>2
<1>2. ASSUME SaveBegins PROVE WeightsInv'
  BY <1>2 DEF SaveBegins
<1>3. ASSUME SaveEnds PROVE WeightsInv'
  BY <1>3 DEF SaveEnds
<1>4. ASSUME UploadWeights PROVE WeightsInv'
  BY <1>4 DEF UploadWeights
<1>5. ASSUME Meet PROVE WeightsInv'
  BY <1>5 DEF Meet
<1>6. ASSUME NEW n \in Machine, MountShows(n) PROVE WeightsInv'
  BY <1>6 DEF MountShows
<1>7. ASSUME NEW r \in Process, LoadWeights(r) PROVE WeightsInv'
  <2> DEFINE w == Source(r)
  <2>1. MachineOf(r) \in Machine
    BY <1>a
  <2>2. CASE To(r, "raised") /\ UNCHANGED got
    BY <1>7, <2>2 DEF LoadWeights
  <2>3. CASE MayHang(r) /\ To(r, "hung") /\ UNCHANGED got
    <3>1. place = "fuse"
      BY <2>3 DEF MayHang, Streams
    <3> QED
      BY <1>7, <2>3, <3>1 DEF LoadWeights
  <2>4. CASE ~Unreadable(w) /\ To(r, "loaded") /\ got' = [got EXCEPT ![r] = w]
    <3>1. w \in {"old", "new"}
      BY <2>1, <2>4 DEF Source, Readable, Unreadable
    <3>2. ASSUME met, w = "old"
          PROVE  MachineOf(r) \in mounts /\ (place = "fuse" \/ (place = "s3" /\ readBy # "direct_s3"))
      <4>1. doing[r] = "load" /\ Exported
        BY <1>7, <3>2 DEF LoadWeights
      <4>2. CASE place = "s3" /\ ~ByMount(r)
        BY <3>2, <4>1, <4>2 DEF Source
      <4>3. CASE ~(place = "s3" /\ ~ByMount(r))
        <5>1. Readable(r) = "old"
          BY <3>2, <4>3 DEF Source
        <5>2. place # "disk"
          BY <2>1, <4>1, <5>1 DEF Readable
        <5>3. MachineOf(r) \in mounts
          BY <5>1, <5>2 DEF Readable
        <5> QED
          BY <4>3, <5>2, <5>3 DEF ByMount
      <4> QED
        BY <4>2, <4>3
    <3> QED
      BY <1>7, <2>4, <3>1, <3>2 DEF LoadWeights
  <2> QED
    BY <1>7, <2>2, <2>3, <2>4 DEF LoadWeights
<1>8. CASE UNCHANGED weightVars
  BY <1>8 DEF weightVars
<1> QED
  BY <1>1, <1>2, <1>3, <1>4, <1>5, <1>6, <1>7, <1>8 DEF WeightsNext

\* Ranks that meet between export and load load what was exported, or what a mount
\* still shows if the policy lets them read it, and none hangs in the streamer
\* unless it was given the path of the mount, for any number of ranks and nodes
\* (save_safetensors_weights and load_pretrained of src/src/torch/safetensors.py).
THEOREM LoadedAsExported == WeightsSpec => []LoadsWhatWasSaved
<1>1. WeightsInit => WeightsInv
  <2> SUFFICES ASSUME WeightsInit PROVE WeightsInv
    OBVIOUS
  <2>1. 0 \in Process /\ 0 \in Machine
    BY WeightsAssumption DEF Process, Machine
  <2>2. WeightsType
    BY <2>1 DEF WeightsInit, WeightsType, Doings
  <2>3. InOrder /\ Loads
    BY <2>1 DEF WeightsInit, InOrder, Loads, Finished
  <2> QED
    BY <2>2, <2>3 DEF WeightsInv
<1>2. WeightsInv => LoadsWhatWasSaved
  BY DEF WeightsInv, Loads, LoadsWhatWasSaved
<1> QED
  BY <1>1, <1>2, WeightsNextInv, PTL DEF WeightsSpec

-----------------------------------------------------------------------------
(* ShardReads: any numbers of objects, ranks and workers, any reservoir.   *)

\* A quotient and a remainder are what makes up a number.
LEMMA Division ==
    ASSUME NEW a \in Nat, NEW d \in Nat \ {0}
    PROVE  /\ a \div d \in Nat /\ a % d \in 0 .. d - 1
           /\ a = ((a \div d) * d) + (a % d)
           /\ \A q \in Nat, r \in 0 .. d - 1 : a = q * d + r => q = a \div d /\ r = a % d
<1>1. PICK q \in Nat : q = a \div d
  OBVIOUS
<1>2. q * d <= a
  BY <1>1
<1>3. a < (q + 1) * d
  <2>1. SUFFICES ASSUME (q + 1) * d <= a PROVE FALSE
    OBVIOUS
  <2>2. q + 1 <= a \div d
    BY <2>1
  <2> QED BY <1>1, <2>2
<1>4. PICK r \in 0 .. d - 1 : a = q * d + r
  <2>1. (q + 1) * d = q * d + d /\ q * d \in Nat
    OBVIOUS
  <2>2. a - q * d \in 0 .. d - 1 /\ a = q * d + (a - q * d)
    BY <1>2, <1>3, <2>1
  <2> QED BY <2>2
<1>5. \A p \in Nat, s \in 0 .. d - 1 : (p * d + s) \div d = p /\ (p * d + s) % d = s
  OBVIOUS
<1> QED BY <1>1, <1>4, <1>5

\* Where s[first :: step] takes its i-th element from.
TakenFrom(first, step, i) == first + (i - 1) * step + 1

\* s[first :: step] has what is at the places that leave the remainder first, in their order.
LEMMA StridedIs ==
    ASSUME NEW T, NEW s \in Seq(T), NEW step \in Nat \ {0}, NEW first \in 0 .. step - 1
    PROVE  LET t == Strided(s, first, step)
           IN  /\ t \in Seq(T) /\ DOMAIN t = 1 .. Len(t) /\ DOMAIN s = 1 .. Len(s)
               /\ \A i \in DOMAIN t : TakenFrom(first, step, i) \in DOMAIN s /\ t[i] = s[TakenFrom(first, step, i)]
               /\ \A p \in DOMAIN s : (p - 1) % step = first => \E i \in DOMAIN t : t[i] = s[p]
<1> DEFINE n == IF first >= Len(s) THEN 0 ELSE (Len(s) - first + step - 1) \div step
           t == Strided(s, first, step)
<1>1. Len(s) \in Nat
  OBVIOUS
<1>2. n \in Nat
  BY <1>1
<1>3. ASSUME NEW i \in 1 .. n PROVE first + (i - 1) * step + 1 \in 1 .. Len(s)
  <2>1. first < Len(s) /\ Len(s) - first + step - 1 \in Nat
    BY <1>1, <1>3
  <2>2. PICK x \in Nat : x = Len(s) - first + step - 1
    BY <2>1
  <2>3. i \in Nat /\ i <= x \div step
    BY <2>1, <2>2, <1>3
  <2>4. i * step <= x
    BY <2>3
  <2>5. (i - 1) * step \in Nat /\ i * step = (i - 1) * step + step
    BY <1>3
  <2> QED BY <1>1, <2>2, <2>4, <2>5
<1>4. t = [i \in 1 .. n |-> s[first + (i - 1) * step + 1]]
  BY DEF Strided
<1> HIDE DEF n, t
<1>5. t \in Seq(T) /\ Len(t) = n /\ \A i \in 1 .. n : t[i] = s[first + (i - 1) * step + 1]
  <2>1. \A i \in 1 .. n : s[first + (i - 1) * step + 1] \in T
    BY <1>3
  <2>2. t \in [1 .. n -> T]
    BY <1>4, <2>1
  <2>3. t \in Seq(T) /\ Len(t) = n
    BY <1>2, <2>2
  <2> QED BY <1>4, <2>3
<1>6. ASSUME NEW p \in 1 .. Len(s), (p - 1) % step = first
      PROVE  (p - 1) \div step + 1 \in 1 .. n /\ t[(p - 1) \div step + 1] = s[p]
  <2>1. PICK q \in Nat : q = (p - 1) \div step /\ p - 1 = q * step + first
    <3>1. PICK a \in Nat : a = p - 1
      OBVIOUS
    <3>2. a \div step \in Nat /\ a = ((a \div step) * step) + (a % step)
      BY Division
    <3> QED BY <1>6, <3>1, <3>2
  <2>2. first < Len(s) /\ n = (Len(s) - first + step - 1) \div step
    BY <1>1, <2>1 DEF n
  <2>3. PICK x \in Nat : x = Len(s) - first + step - 1
    <3>1. Len(s) - first + step - 1 \in Nat
      BY <1>1, <2>2
    <3> QED BY <3>1
  <2>4. (q + 1) * step = q * step + step
    BY <2>1
  <2>5. q * step \in Nat
    BY <2>1
  <2>6. (q + 1) * step <= x
    BY <1>1, <2>1, <2>3, <2>4, <2>5
  <2>7. q + 1 <= x \div step
    BY <2>6
  <2>8. q + 1 \in 1 .. n
    BY <2>2, <2>3, <2>7, <1>2
  <2>9. t[q + 1] = s[first + q * step + 1]
    BY <1>5, <2>8
  <2>10. first + q * step + 1 = p
    BY <2>1, <2>5
  <2> QED BY <2>1, <2>8, <2>9, <2>10
<1>7. DOMAIN t = 1 .. n /\ DOMAIN s = 1 .. Len(s)
  BY <1>2, <1>5
<1>8. ASSUME NEW p \in DOMAIN s, (p - 1) % step = first PROVE \E i \in DOMAIN t : t[i] = s[p]
  <2>1. p \in 1 .. Len(s)
    BY <1>7
  <2> QED BY <1>6, <1>7, <1>8, <2>1, Zenon
<1>9. ASSUME NEW i \in DOMAIN t
      PROVE  TakenFrom(first, step, i) \in DOMAIN s /\ t[i] = s[TakenFrom(first, step, i)]
  <2>1. i \in 1 .. n
    BY <1>7
  <2> QED BY <1>3, <1>5, <1>7, <2>1, Zenon DEF TakenFrom
<1> QED BY <1>5, <1>7, <1>8, <1>9, Zenon DEF t

\* The strides of a sequence without repetitions share it out among themselves.
LEMMA Splits ==
    ASSUME NEW T, NEW s \in Seq(T), IsInjective(s), NEW step \in Nat \ {0}
    PROVE  /\ \A f \in 0 .. step - 1 : LET t == Strided(s, f, step)
                                      IN  t \in Seq(T) /\ IsInjective(t) /\ ToSet(t) \subseteq ToSet(s)
           /\ \A f, g \in 0 .. step - 1 :
                f # g => ToSet(Strided(s, f, step)) \cap ToSet(Strided(s, g, step)) = {}
           /\ \A x \in ToSet(s) : \E f \in 0 .. step - 1 : x \in ToSet(Strided(s, f, step))
<1> DEFINE t(f) == Strided(s, f, step)
<1>1. ASSUME NEW f \in 0 .. step - 1
      PROVE  /\ t(f) \in Seq(T) /\ DOMAIN t(f) = 1 .. Len(t(f)) /\ DOMAIN s = 1 .. Len(s)
             /\ \A i \in DOMAIN t(f) : TakenFrom(f, step, i) \in DOMAIN s /\ t(f)[i] = s[TakenFrom(f, step, i)]
             /\ \A p \in DOMAIN s : (p - 1) % step = f => \E i \in DOMAIN t(f) : t(f)[i] = s[p]
  BY StridedIs
<1> HIDE DEF t
<1>2. \A p, q \in DOMAIN s : s[p] = s[q] => p = q
  BY DEF IsInjective
<1>3. ASSUME NEW f \in 0 .. step - 1, NEW g \in 0 .. step - 1, NEW i \in Nat \ {0}, NEW j \in Nat \ {0},
             TakenFrom(f, step, i) = TakenFrom(g, step, j)
      PROVE  f = g /\ i = j
  <2>1. PICK m \in Nat, n \in Nat : m = i - 1 /\ n = j - 1
    OBVIOUS
  <2>2. m * step \in Nat /\ n * step \in Nat
    OBVIOUS
  <2>3. PICK a \in Nat : a = m * step + f /\ a = n * step + g
    BY <1>3, <2>1, <2>2 DEF TakenFrom
  <2>4. \A q \in Nat, r \in 0 .. step - 1 : a = q * step + r => q = a \div step /\ r = a % step
    BY Division
  <2>5. m = a \div step /\ f = a % step
    BY <2>3, <2>4
  <2>6. n = a \div step /\ g = a % step
    BY <2>3, <2>4
  <2> QED BY <2>1, <2>5, <2>6
<1>4. ASSUME NEW f \in 0 .. step - 1 PROVE IsInjective(t(f)) /\ ToSet(t(f)) \subseteq ToSet(s)
  <2>1. ASSUME NEW i \in DOMAIN t(f), NEW j \in DOMAIN t(f), t(f)[i] = t(f)[j] PROVE i = j
    <3>1. i \in 1 .. Len(t(f)) /\ j \in 1 .. Len(t(f)) /\ i \in Nat \ {0} /\ j \in Nat \ {0}
      BY <1>1
    <3>2. TakenFrom(f, step, i) \in DOMAIN s /\ t(f)[i] = s[TakenFrom(f, step, i)]
      BY <1>1, Zenon
    <3>3. TakenFrom(f, step, j) \in DOMAIN s /\ t(f)[j] = s[TakenFrom(f, step, j)]
      BY <1>1, Zenon
    <3>4. TakenFrom(f, step, i) = TakenFrom(f, step, j)
      BY <1>2, <2>1, <3>2, <3>3, Zenon
    <3> QED BY <1>3, <3>1, <3>4
  <2>2. ASSUME NEW i \in DOMAIN t(f) PROVE t(f)[i] \in ToSet(s)
    BY <1>1, Zenon DEF ToSet
  <2>3. IsInjective(t(f))
    BY <2>1 DEF IsInjective
  <2>4. ToSet(t(f)) \subseteq ToSet(s)
    BY <2>2 DEF ToSet
  <2> QED BY <2>3, <2>4
<1>5. ASSUME NEW f \in 0 .. step - 1, NEW g \in 0 .. step - 1, f # g
      PROVE  ToSet(t(f)) \cap ToSet(t(g)) = {}
  <2>1. ASSUME NEW i \in DOMAIN t(f), NEW j \in DOMAIN t(g), t(f)[i] = t(g)[j] PROVE FALSE
    <3>1. i \in 1 .. Len(t(f)) /\ j \in 1 .. Len(t(g)) /\ i \in Nat \ {0} /\ j \in Nat \ {0}
      BY <1>1
    <3>2. TakenFrom(f, step, i) \in DOMAIN s /\ t(f)[i] = s[TakenFrom(f, step, i)]
      BY <1>1, Zenon
    <3>3. TakenFrom(g, step, j) \in DOMAIN s /\ t(g)[j] = s[TakenFrom(g, step, j)]
      BY <1>1, Zenon
    <3>4. TakenFrom(f, step, i) = TakenFrom(g, step, j)
      BY <1>2, <2>1, <3>2, <3>3, Zenon
    <3> QED BY <1>3, <1>5, <3>1, <3>4
  <2> QED BY <2>1 DEF ToSet
<1>6. ASSUME NEW x \in ToSet(s) PROVE \E f \in 0 .. step - 1 : x \in ToSet(t(f))
  <2>1. PICK p \in DOMAIN s : x = s[p]
    BY <1>6 DEF ToSet
  <2>2. PICK f \in 0 .. step - 1 : f = (p - 1) % step
    <3>1. p - 1 \in Nat
      <4>1. p \in 1 .. Len(s)
        OBVIOUS
      <4> QED BY <4>1
    <3> QED BY <3>1, Division
  <2>3. \E i \in DOMAIN t(f) : t(f)[i] = x
    BY <1>1, <2>1, <2>2, Zenon
  <2> QED BY <2>3 DEF ToSet
<1> QED BY <1>1, <1>4, <1>5, <1>6 DEF t

\* Sorting a finite set of numbers lists each of them once.
LEMMA SortedIs ==
    ASSUME NEW S \in SUBSET Int, IsFiniteSet(S)
    PROVE  Sorted(S) \in Seq(S) /\ IsInjective(Sorted(S)) /\ ToSet(Sorted(S)) = S
<1> DEFINE n == Cardinality(S)
           upTo(k) == {j \in S : j <= k}
           rank == [k \in S |-> Cardinality(upTo(k))]
<1>1. n \in Nat
  BY FS_CardinalityType
<1>2. ASSUME NEW k \in S PROVE IsFiniteSet(upTo(k)) /\ Cardinality(upTo(k)) \in 1 .. n
  <2>1. IsFiniteSet(upTo(k)) /\ Cardinality(upTo(k)) \in Nat /\ Cardinality(upTo(k)) <= n
    BY FS_Subset, FS_CardinalityType
  <2>2. upTo(k) # {}
    OBVIOUS
  <2>3. Cardinality(upTo(k)) # 0
    BY <2>1, <2>2, FS_EmptySet
  <2> QED BY <1>1, <2>1, <2>3
<1>3. ASSUME NEW k \in S, NEW l \in S, k < l PROVE Cardinality(upTo(k)) # Cardinality(upTo(l))
  <2>1. upTo(k) \in SUBSET upTo(l) /\ upTo(k) # upTo(l)
    <3>1. \A j \in S : j <= k => j <= l
      BY <1>3
    <3>2. l \in upTo(l) /\ l \notin upTo(k)
      BY <1>3
    <3> QED BY <3>1, <3>2
  <2> QED BY <1>2, <2>1, FS_Subset
<1>4. rank \in Injection(S, 1 .. n)
  <2>1. rank \in [S -> 1 .. n]
    BY <1>2
  <2>2. \A k, l \in S : rank[k] = rank[l] => k = l
    BY <1>3
  <2> QED BY <2>1, <2>2 DEF Injection, IsInjective
<1>5. IsFiniteSet(1 .. n) /\ Cardinality(1 .. n) = n
  BY <1>1, FS_Interval
<1>6. rank \in Surjection(S, 1 .. n)
  BY <1>4, <1>5, FS_Injection
<1>7. ASSUME NEW i \in 1 .. n PROVE \E k \in S : Cardinality(upTo(k)) = i
  BY <1>6 DEF Surjection
<1> DEFINE key(i) == CHOOSE k \in S : Cardinality(upTo(k)) = i
<1>8. \A i \in 1 .. n : key(i) \in S /\ Cardinality(upTo(key(i))) = i
  BY <1>7
<1>9. Sorted(S) = [i \in 1 .. n |-> key(i)]
  BY DEF Sorted
<1> HIDE DEF key
<1>10. Sorted(S) \in Seq(S) /\ DOMAIN Sorted(S) = 1 .. n /\ \A i \in 1 .. n : Sorted(S)[i] = key(i)
  <2>1. Sorted(S) \in [1 .. n -> S]
    BY <1>8, <1>9
  <2> HIDE DEF n
  <2> QED BY <1>1, <1>9, <2>1
<1> HIDE DEF upTo, n
<1>11. IsInjective(Sorted(S))
  <2>1. ASSUME NEW i \in 1 .. n, NEW j \in 1 .. n, key(i) = key(j) PROVE i = j
    BY <1>8, <2>1
  <2> QED BY <1>10, <2>1 DEF IsInjective
<1>12. ASSUME NEW k \in S PROVE k \in ToSet(Sorted(S))
  <2>1. PICK i \in 1 .. n : i = Cardinality(upTo(k))
    BY <1>2
  <2>2. key(i) = k
    <3>1. Cardinality(upTo(key(i))) = Cardinality(upTo(k)) /\ key(i) \in S
      BY <1>8, <2>1
    <3>2. ~(key(i) < k) /\ ~(k < key(i))
      BY <1>3, <3>1
    <3>3. k \in Int /\ key(i) \in Int
      BY <3>1
    <3> QED BY <3>2, <3>3
  <2> QED BY <1>10, <2>2 DEF ToSet
<1> QED BY <1>8, <1>10, <1>11, <1>12 DEF ToSet

\* Drawing from the reservoir takes one sample out of it and leaves the others.
LEMMA Drawn ==
    ASSUME NEW T, NEW b \in Seq(T), NEW j \in DOMAIN b
    PROVE  /\ Draw(b, j)[1] = b[j] /\ b[j] \in T
           /\ Draw(b, j)[2] \in Seq(T)
           /\ IsInjective(b) =>
                IsInjective(Draw(b, j)[2]) /\ ToSet(Draw(b, j)[2]) = ToSet(b) \ {b[j]}
<1> DEFINE n == Len(b)
           e == [b EXCEPT ![j] = Last(b)]
           r == Draw(b, j)[2]
<1>1. /\ n \in Nat \ {0} /\ DOMAIN b = 1 .. n /\ j \in 1 .. n
      /\ Last(b) = b[n] /\ \A i \in 1 .. n : b[i] \in T
  BY DEF Last
<1>2. e \in Seq(T) /\ Len(e) = n /\ \A i \in 1 .. n : e[i] = IF i = j THEN b[n] ELSE b[i]
  <2>1. e \in [1 .. n -> T]
    BY <1>1
  <2>2. e \in Seq(T) /\ Len(e) = n
    BY <1>1, <2>1
  <2> QED BY <1>1, <2>2
<1>3. r = SubSeq(e, 1, n - 1) /\ Draw(b, j)[1] = b[j]
  BY <1>2 DEF Draw, Front
<1> HIDE DEF e, r
<1>4. r \in Seq(T) /\ DOMAIN r = 1 .. n - 1 /\ \A i \in 1 .. n - 1 : r[i] = e[i]
  BY <1>1, <1>2, <1>3
<1>5. \A i \in 1 .. n - 1 : r[i] = IF i = j THEN b[n] ELSE b[i]
  BY <1>1, <1>2, <1>4
<1>6. ASSUME IsInjective(b) PROVE IsInjective(r) /\ ToSet(r) = ToSet(b) \ {b[j]}
  <2>1. \A i, k \in 1 .. n : b[i] = b[k] => i = k
    BY <1>1, <1>6 DEF IsInjective
  <2>2. IsInjective(r)
    <3>1. ASSUME NEW i \in 1 .. n - 1, NEW k \in 1 .. n - 1, r[i] = r[k] PROVE i = k
      BY <1>1, <1>5, <2>1, <3>1
    <3> QED BY <1>4, <3>1 DEF IsInjective
  <2>3. ASSUME NEW i \in 1 .. n - 1 PROVE r[i] \in ToSet(b) \ {b[j]}
    <3>1. \A k \in 1 .. n : b[k] \in ToSet(b)
      BY <1>1 DEF ToSet
    <3> QED BY <1>1, <1>5, <2>1, <3>1
  <2>4. ASSUME NEW i \in 1 .. n, b[i] # b[j] PROVE b[i] \in ToSet(r)
    <3>1. \A k \in 1 .. n - 1 : r[k] \in ToSet(r)
      BY <1>4 DEF ToSet
    <3>2. CASE i = n
      <4>1. j \in 1 .. n - 1
        BY <1>1, <2>4, <3>2
      <4> QED BY <1>5, <3>1, <3>2, <4>1
    <3>3. CASE i # n
      <4>1. i \in 1 .. n - 1
        <5> HIDE DEF n
        <5> QED BY <1>1, <3>3
      <4>2. i # j
        BY <2>4
      <4> QED BY <1>5, <3>1, <4>1, <4>2
    <3> QED BY <3>2, <3>3
  <2>5. ToSet(r) = ToSet(b) \ {b[j]}
    <3>1. ToSet(r) \subseteq ToSet(b) \ {b[j]}
      BY <1>4, <2>3 DEF ToSet
    <3>2. ToSet(b) \ {b[j]} \subseteq ToSet(r)
      BY <1>1, <2>4 DEF ToSet
    <3> QED BY <3>1, <3>2
  <2> QED BY <2>2, <2>5
<1> QED BY <1>1, <1>3, <1>4, <1>6 DEF r

\* A sample goes from the head of the share to the end of the reservoir.
LEMMA Appended ==
    ASSUME NEW T, NEW b \in Seq(T), NEW x \in T
    PROVE  /\ Append(b, x) \in Seq(T) /\ ToSet(Append(b, x)) = ToSet(b) \cup {x}
           /\ IsInjective(b) /\ x \notin ToSet(b) => IsInjective(Append(b, x))
<1> DEFINE n == Len(b)
           a == Append(b, x)
<1>1. /\ n \in Nat /\ DOMAIN b = 1 .. n /\ a \in Seq(T) /\ DOMAIN a = 1 .. n + 1
      /\ a[n + 1] = x /\ \A i \in 1 .. n : a[i] = b[i]
  OBVIOUS
<1> HIDE DEF a, n
<1>2. ToSet(a) \subseteq ToSet(b) \cup {x}
  <2>1. \A i \in 1 .. n + 1 : i = n + 1 \/ i \in 1 .. n
    BY <1>1
  <2> QED BY <1>1, <2>1 DEF ToSet
<1>3. ToSet(b) \cup {x} \subseteq ToSet(a)
  <2>1. n + 1 \in 1 .. n + 1 /\ \A i \in 1 .. n : i \in 1 .. n + 1
    BY <1>1
  <2> QED BY <1>1, <2>1 DEF ToSet
<1>4. ASSUME IsInjective(b), x \notin ToSet(b) PROVE IsInjective(a)
  <2>1. \A i \in 1 .. n : b[i] # x
    BY <1>1, <1>4 DEF ToSet
  <2>2. \A i, k \in 1 .. n : b[i] = b[k] => i = k
    BY <1>1, <1>4 DEF IsInjective
  <2>3. ASSUME NEW i \in 1 .. n + 1, NEW k \in 1 .. n + 1, a[i] = a[k] PROVE i = k
    BY <1>1, <2>1, <2>2, <2>3
  <2> QED BY <1>1, <2>3 DEF IsInjective
<1> QED BY <1>1, <1>2, <1>3, <1>4 DEF a

\* The head of a sequence without repetitions is not in its tail.
LEMMA Headed ==
    ASSUME NEW T, NEW s \in Seq(T), s # <<>>
    PROVE  /\ Head(s) \in T /\ Head(s) \in ToSet(s) /\ Tail(s) \in Seq(T)
           /\ IsInjective(s) =>
                IsInjective(Tail(s)) /\ ToSet(Tail(s)) = ToSet(s) \ {Head(s)}
<1> DEFINE n == Len(s)
           t == Tail(s)
<1>1. /\ n \in Nat \ {0} /\ DOMAIN s = 1 .. n /\ Head(s) = s[1] /\ s[1] \in T
      /\ t \in Seq(T) /\ DOMAIN t = 1 .. n - 1 /\ \A i \in 1 .. n - 1 : t[i] = s[i + 1]
  OBVIOUS
<1> HIDE DEF n, t
<1>2. Head(s) \in ToSet(s)
  BY <1>1 DEF ToSet
<1>3. ASSUME IsInjective(s) PROVE IsInjective(t) /\ ToSet(t) = ToSet(s) \ {Head(s)}
  <2>1. \A i, k \in 1 .. n : s[i] = s[k] => i = k
    BY <1>1, <1>3 DEF IsInjective
  <2>2. ASSUME NEW i \in 1 .. n - 1, NEW k \in 1 .. n - 1, t[i] = t[k] PROVE i = k
    BY <1>1, <2>1, <2>2
  <2>3. IsInjective(t)
    BY <1>1, <2>2 DEF IsInjective
  <2>4. ASSUME NEW i \in 1 .. n - 1 PROVE t[i] \in ToSet(s) \ {Head(s)}
    <3>1. i + 1 \in 1 .. n /\ i + 1 # 1 /\ 1 \in 1 .. n /\ t[i] = s[i + 1]
      BY <1>1
    <3>2. s[i + 1] # s[1]
      BY <2>1, <3>1
    <3> QED BY <1>1, <3>1, <3>2 DEF ToSet
  <2>5. ASSUME NEW i \in 1 .. n, s[i] # s[1] PROVE s[i] \in ToSet(t)
    <3>1. i - 1 \in 1 .. n - 1 /\ t[i - 1] = s[i]
      BY <1>1, <2>5
    <3> QED BY <1>1, <3>1 DEF ToSet
  <2>6. ToSet(t) \subseteq ToSet(s) \ {Head(s)}
    BY <1>1, <2>4 DEF ToSet
  <2>7. ToSet(s) \ {Head(s)} \subseteq ToSet(t)
    BY <1>1, <2>5 DEF ToSet
  <2> QED BY <2>3, <2>6, <2>7
<1> QED BY <1>1, <1>2, <1>3 DEF t

\* The other order of a listing is as good.
LEMMA Reversed ==
    ASSUME NEW T, NEW s \in Seq(T), IsInjective(s)
    PROVE  Reverse(s) \in Seq(T) /\ IsInjective(Reverse(s))
<1>1. /\ Len(s) \in Nat /\ Reverse(s) = [i \in 1 .. Len(s) |-> s[(Len(s) - i) + 1]]
      /\ \A i \in 1 .. Len(s) : (Len(s) - i) + 1 \in 1 .. Len(s)
  BY DEF Reverse
<1>2. Reverse(s) \in [1 .. Len(s) -> T]
  BY <1>1
<1>3. Reverse(s) \in Seq(T)
  BY <1>1, <1>2
<1>4. \A i, k \in 1 .. Len(s) : s[i] = s[k] => i = k
  BY DEF IsInjective
<1>5. ASSUME NEW i \in 1 .. Len(s), NEW k \in 1 .. Len(s), Reverse(s)[i] = Reverse(s)[k] PROVE i = k
  <2>1. s[(Len(s) - i) + 1] = s[(Len(s) - k) + 1]
    BY <1>1, <1>5
  <2>2. (Len(s) - i) + 1 = (Len(s) - k) + 1
    BY <1>1, <1>4, <2>1
  <2> QED BY <1>1, <2>2
<1> QED BY <1>1, <1>3, <1>5 DEF IsInjective

\* The multiples of a step that go into a range.
LEMMA Multiples ==
    ASSUME NEW D \in Nat, NEW m \in Nat \ {0}
    PROVE  LET n == (D + m) \div m
           IN  /\ n \in Nat
               /\ \A i \in 1 .. n : (i - 1) * m \in 0 .. D /\ ((i - 1) * m) % m = 0
               /\ \A x \in 0 .. D : x % m = 0 => \E i \in 1 .. n : x = (i - 1) * m
<1>1. PICK y \in Nat : y = D + m
  OBVIOUS
<1>2. PICK n \in Nat : n = y \div m /\ n = (D + m) \div m
  BY <1>1
<1>3. ASSUME NEW i \in 1 .. n PROVE (i - 1) * m \in 0 .. D /\ ((i - 1) * m) % m = 0
  <2>1. PICK j \in Nat : j = i - 1 /\ i = j + 1 /\ i \in Nat
    OBVIOUS
  <2>2. i * m <= y
    BY <1>2, <2>1
  <2>3. i * m = (j * m) + m /\ j * m \in Nat
    BY <2>1
  <2>4. (j * m) % m = 0
    OBVIOUS
  <2> QED BY <1>1, <2>1, <2>2, <2>3, <2>4
<1>4. ASSUME NEW x \in 0 .. D, x % m = 0 PROVE \E i \in 1 .. n : x = (i - 1) * m
  <2>1. PICK q \in Nat : q = x \div m /\ x = (q * m) + (x % m)
    BY Division
  <2>2. x = q * m
    BY <1>4, <2>1
  <2>3. (q + 1) * m = (q * m) + m
    OBVIOUS
  <2>4. (q + 1) * m <= y
    BY <1>1, <2>2, <2>3
  <2>5. q + 1 <= n
    BY <1>2, <2>4
  <2>6. q + 1 \in 1 .. n /\ x = ((q + 1) - 1) * m
    BY <2>2, <2>5
  <2> QED BY <2>6
<1> QED BY <1>2, <1>3, <1>4

\* A brace range expands to the shards it stands for, each once.
LEMMA Expanded ==
    ASSUME span \in Key \X Key \X {-2, -1, 1, 2, 3}
    PROVE  LET s == ExpandBraces(span[1], span[2], span[3])
           IN  s \in Seq(Key) /\ IsInjective(s) /\ ToSet(s) = Meant(span)
<1>1. PICK a \in Key, e \in Key, st \in {-2, -1, 1, 2, 3} : a = span[1] /\ e = span[2] /\ st = span[3]
  OBVIOUS
<1> DEFINE d == IF (e - a) * st < 0 THEN -st ELSE st
           stop == IF d > 0 THEN e + 1 ELSE e - 1
           s == ExpandBraces(a, e, st)
<1>2. PICK m \in {1, 2, 3} : m = Abs(st) /\ m = Abs(d) /\ d \in {m, -m}
  BY DEF Abs
<1>3. PICK D \in Nat : D = Abs(e - a)
  BY DEF Key, Abs
<1>4. /\ d = m => a <= e /\ D = e - a
      /\ d = -m => e <= a /\ D = a - e
  BY <1>2, <1>3 DEF Key, Abs
<1>5. PICK n \in Nat : n = (D + m) \div m
  BY Multiples
<1>6. ~((stop - a) * d <= 0) /\ Abs(stop - a) = D + 1
  BY <1>2, <1>4 DEF Key, Abs
<1>7. s = [i \in 1 .. n |-> a + (i - 1) * d]
  <2>1. (D + 1) + m - 1 = D + m
    OBVIOUS
  <2> QED BY <1>2, <1>5, <1>6, <2>1 DEF ExpandBraces, RangeOf
<1> HIDE DEF d, stop, s
<1>8. ASSUME NEW i \in 1 .. n
      PROVE  /\ (i - 1) * m \in 0 .. D /\ ((i - 1) * m) % m = 0
             /\ s[i] = IF d = m THEN a + (i - 1) * m ELSE a - (i - 1) * m
             /\ s[i] \in Key /\ Abs(s[i] - a) = (i - 1) * m
             /\ s[i] \in a .. e \cup e .. a
  <2>1. PICK x \in 0 .. D : x = (i - 1) * m /\ x % m = 0
    BY <1>5, Multiples
  <2>2. s[i] = IF d = m THEN a + x ELSE a - x
    <3>1. s[i] = a + (i - 1) * d
      BY <1>7
    <3>2. d # m => (i - 1) * d = -x
      BY <1>2, <2>1
    <3>3. x \in Int /\ a \in Int
      BY DEF Key
    <3> QED BY <1>2, <2>1, <3>1, <3>2, <3>3
  <2>3. s[i] \in Key /\ Abs(s[i] - a) = x /\ s[i] \in a .. e \cup e .. a
    <3>1. x \in Int /\ x >= 0 /\ x <= D /\ a \in Int /\ e \in Int /\ a >= 0 /\ e >= 0 /\ a <= MaxKey /\ e <= MaxKey
      BY DEF Key
    <3>2. CASE d = m
      BY <1>4, <2>2, <3>1, <3>2, ShardReadsAssumption DEF Key, Abs
    <3>3. CASE d # m
      <4>1. s[i] = a - x /\ e <= a /\ D = a - e
        BY <1>2, <1>4, <2>2, <3>3
      <4>2. s[i] \in e .. a /\ s[i] \in Key
        BY <3>1, <4>1, ShardReadsAssumption DEF Key
      <4>3. Abs(s[i] - a) = x
        BY <3>1, <4>1 DEF Abs
      <4> QED BY <4>2, <4>3
    <3> QED BY <3>2, <3>3
  <2> QED BY <2>1, <2>2, <2>3
<1>9. s \in Seq(Key) /\ Len(s) = n /\ DOMAIN s = 1 .. n
  <2>1. s \in [1 .. n -> Key]
    BY <1>7, <1>8
  <2> QED BY <2>1
<1>10. IsInjective(s)
  <2>1. ASSUME NEW i \in 1 .. n, NEW j \in 1 .. n, s[i] = s[j] PROVE i = j
    <3>1. (i - 1) * m = (j - 1) * m
      BY <1>8, <2>1
    <3> QED BY <3>1
  <2> QED BY <1>9, <2>1 DEF IsInjective
<1>11. Meant(span) = {k \in Key : k \in a .. e \cup e .. a /\ Abs(k - a) % m = 0}
  BY <1>1, <1>2 DEF Meant
<1>12. ASSUME NEW i \in 1 .. n PROVE s[i] \in Meant(span)
  BY <1>8, <1>11
<1>13. ASSUME NEW k \in Meant(span) PROVE \E i \in 1 .. n : k = s[i]
  <2>1. k \in Key /\ k \in a .. e \cup e .. a /\ Abs(k - a) % m = 0
    BY <1>11
  <2>2. PICK x \in 0 .. D : x = Abs(k - a) /\ k = IF d = m THEN a + x ELSE a - x
    <3>1. k \in Int /\ a \in Int /\ e \in Int
      BY <2>1 DEF Key
    <3>2. CASE d = m
      <4>1. a <= e /\ D = e - a /\ k \in a .. e
        BY <1>4, <2>1, <3>1, <3>2
      <4>2. k - a \in 0 .. D /\ Abs(k - a) = k - a /\ k = a + (k - a)
        BY <3>1, <4>1 DEF Abs
      <4> QED BY <3>2, <4>2
    <3>3. CASE d # m
      <4>1. e <= a /\ D = a - e /\ k \in e .. a
        BY <1>2, <1>4, <2>1, <3>1, <3>3
      <4>2. a - k \in 0 .. D /\ Abs(k - a) = a - k /\ k = a - (a - k)
        BY <3>1, <4>1 DEF Abs
      <4> QED BY <3>3, <4>2
    <3> QED BY <3>2, <3>3
  <2>3. PICK i \in 1 .. n : x = (i - 1) * m
    <3>1. m \in Nat \ {0}
      OBVIOUS
    <3>2. x % m = 0
      BY <2>1, <2>2, Zenon
    <3>3. \A y \in 0 .. D : y % m = 0 => \E i \in 1 .. n : y = (i - 1) * m
      <4>1. \A y \in 0 .. D : y % m = 0 => \E i \in 1 .. (D + m) \div m : y = (i - 1) * m
        BY <3>1, Multiples
      <4> QED BY <1>5, <4>1, Zenon
    <3> QED BY <3>2, <3>3, Zenon
  <2> QED BY <1>8, <2>2, <2>3
<1>14. ToSet(s) = Meant(span)
  BY <1>9, <1>12, <1>13 DEF ToSet
<1> QED BY <1>1, <1>9, <1>10, <1>14 DEF s

\* What holds of the variables by their types.
ShardsType ==
    /\ dataset \in {"scatter", "glob", "brace"}
    /\ world \in 1 .. MaxWorld /\ workers \in 1 .. MaxWorkers
    /\ span \in Key \X Key \X {-2, -1, 1, 2, 3}
    /\ bucket \subseteq Key /\ late \subseteq Key /\ behind \subseteq Key
    /\ names \in [Reader -> Seq(Key)] /\ todo \in [Reader -> Seq(Key)] /\ buf \in [Reader -> Seq(Key)]
    /\ yielded \in [Key -> Nat]
    /\ at \in [Reader -> {"list", "read", "done", "failed"}]
    /\ dataset = "brace" => ~shuffled

\* The readers of which all this is about.
Readers == {c \in Reader : Active(c)}

\* Readers are numbered by rank and worker.
LEMMA ReadersAre ==
    ASSUME ShardsType
    PROVE  /\ world \in Nat \ {0} /\ workers \in Nat \ {0}
           /\ \A r \in 0 .. world - 1, w \in 0 .. workers - 1 : <<r, w>> \in Readers
           /\ \A c \in Readers : c[1] \in 0 .. world - 1 /\ c[2] \in 0 .. workers - 1
           /\ \A c, d \in Readers : c[1] = d[1] /\ c[2] = d[2] => c = d
           /\ <<0, 0>> \in Readers
<1>1. world \in 1 .. MaxWorld /\ workers \in 1 .. MaxWorkers /\ MaxWorld \in Nat /\ MaxWorkers \in Nat
  BY ShardReadsAssumption DEF ShardsType
<1>2. \A r \in 0 .. world - 1, w \in 0 .. workers - 1 : <<r, w>> \in Readers
  BY <1>1 DEF Readers, Reader, Ranks, Active
<1>3. ASSUME NEW c \in Readers PROVE c[1] \in 0 .. world - 1 /\ c[2] \in 0 .. workers - 1
  <2>1. c[1] \in 0 .. MaxWorld - 1 /\ c[2] \in 0 .. MaxWorkers - 1 /\ c[1] < world /\ c[2] < workers
    BY DEF Readers, Reader, Ranks, Active
  <2> QED BY <1>1, <2>1
<1>4. \A c, d \in Readers : c[1] = d[1] /\ c[2] = d[2] => c = d
  BY DEF Readers, Reader, Ranks
<1>5. world \in Nat \ {0} /\ workers \in Nat \ {0} /\ 0 \in 0 .. world - 1 /\ 0 \in 0 .. workers - 1
  BY <1>1
<1> QED BY <1>2, <1>3, <1>4, <1>5

\* files[rank::world] and then [id::num_workers] share a listing out.
LEMMA ShareSharesOut ==
    ASSUME ShardsType, NEW s \in Seq(Key), IsInjective(s)
    PROVE  /\ \A c \in Readers : /\ Share(c, s) \in Seq(Key) /\ IsInjective(Share(c, s))
                                 /\ ToSet(Share(c, s)) \subseteq ToSet(s)
           /\ \A c, d \in Readers : c # d => ToSet(Share(c, s)) \cap ToSet(Share(d, s)) = {}
           /\ \A x \in ToSet(s) : \E c \in Readers : x \in ToSet(Share(c, s))
<1> DEFINE node(r) == Strided(s, r, world)
<1>1. /\ world \in Nat \ {0} /\ workers \in Nat \ {0}
      /\ \A r \in 0 .. world - 1, w \in 0 .. workers - 1 : <<r, w>> \in Readers
      /\ \A c \in Readers : c[1] \in 0 .. world - 1 /\ c[2] \in 0 .. workers - 1
      /\ \A c, d \in Readers : c[1] = d[1] /\ c[2] = d[2] => c = d
  BY ReadersAre
<1>2. /\ \A r \in 0 .. world - 1 : node(r) \in Seq(Key) /\ IsInjective(node(r)) /\ ToSet(node(r)) \subseteq ToSet(s)
      /\ \A r, q \in 0 .. world - 1 : r # q => ToSet(node(r)) \cap ToSet(node(q)) = {}
      /\ \A x \in ToSet(s) : \E r \in 0 .. world - 1 : x \in ToSet(node(r))
  BY <1>1, Splits
<1>3. ASSUME NEW r \in 0 .. world - 1
      PROVE  LET mine(w) == Strided(node(r), w, workers)
             IN  /\ \A w \in 0 .. workers - 1 :
                        mine(w) \in Seq(Key) /\ IsInjective(mine(w)) /\ ToSet(mine(w)) \subseteq ToSet(node(r))
                 /\ \A w, v \in 0 .. workers - 1 : w # v => ToSet(mine(w)) \cap ToSet(mine(v)) = {}
                 /\ \A x \in ToSet(node(r)) : \E w \in 0 .. workers - 1 : x \in ToSet(mine(w))
  <2>1. node(r) \in Seq(Key) /\ IsInjective(node(r))
    BY <1>2
  <2> HIDE DEF node
  <2> QED BY <1>1, <2>1, Splits
<1>4. \A c : Share(c, s) = Strided(node(c[1]), c[2], workers)
  BY DEF Share
<1> HIDE DEF node
<1>5. ASSUME NEW c \in Readers
      PROVE  /\ Share(c, s) \in Seq(Key) /\ IsInjective(Share(c, s))
             /\ ToSet(Share(c, s)) \subseteq ToSet(node(c[1]))
             /\ ToSet(Share(c, s)) \subseteq ToSet(s)
  <2>1. c[1] \in 0 .. world - 1 /\ c[2] \in 0 .. workers - 1
    BY <1>1
  <2>2. ToSet(node(c[1])) \subseteq ToSet(s)
    BY <1>2, <2>1
  <2>3. LET its == Strided(node(c[1]), c[2], workers)
        IN  its \in Seq(Key) /\ IsInjective(its) /\ ToSet(its) \subseteq ToSet(node(c[1]))
    BY <1>3, <2>1
  <2> QED BY <1>4, <2>2, <2>3
<1>6. ASSUME NEW c \in Readers, NEW d \in Readers, c # d
      PROVE  ToSet(Share(c, s)) \cap ToSet(Share(d, s)) = {}
  <2>1. CASE c[1] = d[1]
    BY <1>1, <1>3, <1>4, <1>6, <2>1
  <2>2. CASE c[1] # d[1]
    <3>1. ToSet(node(c[1])) \cap ToSet(node(d[1])) = {}
      BY <1>1, <1>2, <2>2
    <3> QED BY <1>5, <3>1
  <2> QED BY <2>1, <2>2
<1>7. ASSUME NEW x \in ToSet(s) PROVE \E c \in Readers : x \in ToSet(Share(c, s))
  <2>1. PICK r \in 0 .. world - 1 : x \in ToSet(node(r))
    BY <1>2
  <2>2. PICK w \in 0 .. workers - 1 : x \in ToSet(Strided(node(r), w, workers))
    BY <1>3, <2>1
  <2>3. <<r, w>> \in Readers /\ Share(<<r, w>>, s) = Strided(node(r), w, workers)
    BY <1>1, <1>4
  <2> QED BY <2>2, <2>3
<1> QED BY <1>5, <1>6, <1>7

\* So does the S3 connector, with one round over all workers of the job.
LEMMA OnS3SharesOut ==
    ASSUME ShardsType, NEW s \in Seq(Key), IsInjective(s)
    PROVE  /\ \A c \in Readers : /\ ShareOnS3(c, s) \in Seq(Key) /\ IsInjective(ShareOnS3(c, s))
                                 /\ ToSet(ShareOnS3(c, s)) \subseteq ToSet(s)
           /\ \A c, d \in Readers : c # d => ToSet(ShareOnS3(c, s)) \cap ToSet(ShareOnS3(d, s)) = {}
           /\ \A x \in ToSet(s) : \E c \in Readers : x \in ToSet(ShareOnS3(c, s))
<1> DEFINE all == world * workers
           no(c) == c[1] * workers + c[2]
<1>1. /\ world \in Nat \ {0} /\ workers \in Nat \ {0}
      /\ \A r \in 0 .. world - 1, w \in 0 .. workers - 1 : <<r, w>> \in Readers
      /\ \A c \in Readers : c[1] \in 0 .. world - 1 /\ c[2] \in 0 .. workers - 1
      /\ \A c, d \in Readers : c[1] = d[1] /\ c[2] = d[2] => c = d
  BY ReadersAre
<1>2. all \in Nat \ {0}
  BY <1>1
<1>3. ASSUME NEW r \in 0 .. world - 1, NEW w \in 0 .. workers - 1 PROVE r * workers + w \in 0 .. all - 1
  <2>1. (r + 1) * workers <= all
    BY <1>1
  <2>2. (r + 1) * workers = r * workers + workers /\ r * workers \in Nat
    BY <1>1
  <2> QED BY <1>1, <1>2, <2>1, <2>2
<1>4. \A c \in Readers : no(c) \in 0 .. all - 1
  BY <1>1, <1>3
<1>5. ASSUME NEW c \in Readers, NEW d \in Readers, no(c) = no(d) PROVE c = d
  <2>1. PICK r \in Nat, w \in 0 .. workers - 1, q \in Nat, v \in 0 .. workers - 1 :
            r = c[1] /\ w = c[2] /\ q = d[1] /\ v = d[2]
    BY <1>1
  <2>2. PICK a \in Nat : a = r * workers + w
    <3>1. r * workers + w \in Nat
      BY <1>1, <2>1
    <3> QED BY <3>1
  <2>3. a = q * workers + v
    BY <1>5, <2>1, <2>2
  <2>4. \A p \in Nat, u \in 0 .. workers - 1 : a = p * workers + u => p = a \div workers /\ u = a % workers
    BY <1>1, Division
  <2>5. r = a \div workers /\ w = a % workers
    BY <2>2, <2>4
  <2>6. q = a \div workers /\ v = a % workers
    BY <2>3, <2>4
  <2> QED BY <1>1, <2>1, <2>5, <2>6
<1>6. ASSUME NEW f \in 0 .. all - 1 PROVE \E c \in Readers : no(c) = f
  <2>1. f \in Nat
    BY <1>2
  <2>2. PICK r \in Nat, w \in 0 .. workers - 1 : f = r * workers + w /\ r = f \div workers
    BY <1>1, <2>1, Division
  <2>3. r < world
    <3>1. SUFFICES ASSUME world <= r PROVE FALSE
      BY <1>1
    <3>2. all <= r * workers
      BY <1>1, <3>1
    <3> QED BY <1>1, <1>2, <2>2, <3>2
  <2>4. r \in 0 .. world - 1 /\ <<r, w>> \in Readers
    BY <1>1, <2>3
  <2> QED BY <2>2, <2>4
<1>7. /\ \A f \in 0 .. all - 1 : LET t == Strided(s, f, all)
                                 IN  t \in Seq(Key) /\ IsInjective(t) /\ ToSet(t) \subseteq ToSet(s)
      /\ \A f, g \in 0 .. all - 1 : f # g => ToSet(Strided(s, f, all)) \cap ToSet(Strided(s, g, all)) = {}
      /\ \A x \in ToSet(s) : \E f \in 0 .. all - 1 : x \in ToSet(Strided(s, f, all))
  BY <1>2, Splits
<1>8. \A c : ShareOnS3(c, s) = Strided(s, no(c), all)
  BY DEF ShareOnS3
<1> HIDE DEF all, no
<1> QED BY <1>4, <1>5, <1>6, <1>7, <1>8

-----------------------------------------------------------------------------
(* Nobody reads before everybody has listed, so that all shares are still  *)
(* the whole ones then (Fresh).  When all listed the same they make a      *)
(* partition of the listing, and from then on each object is either in     *)
(* the hands of one reader, once, or has been yielded, once (Dealt).       *)

Hands(c) == ToSet(todo[c]) \cup ToSet(buf[c])

Fresh ==
    /\ yielded = [k \in Key |-> 0]
    /\ \A c \in Readers : buf[c] = <<>> /\ todo[c] = Split(c, names[c])

Dealt ==
    /\ \A c \in Readers : /\ IsInjective(todo[c]) /\ IsInjective(buf[c])
                           /\ ToSet(todo[c]) \cap ToSet(buf[c]) = {}
    /\ \A c, d \in Readers : c # d => Hands(c) \cap Hands(d) = {}
    /\ \A k \in Key :
        /\ yielded[k] \in {0, 1}
        /\ yielded[k] = 1 => \A c \in Readers : k \notin Hands(c)
        /\ k \in ToSet(names[<<0, 0>>]) <=> yielded[k] = 1 \/ \E c \in Readers : k \in Hands(c)

\* Who does not read has nothing in hand.
Idle ==
    \A c \in Reader :
        /\ ~Active(c) => at[c] = "done"
        /\ at[c] # "read" => todo[c] = <<>> /\ buf[c] = <<>>

\* The workers of a rank for which one lists wait for it together.
Waiting ==
    dataset # "scatter" =>
        \A c, d \in Readers : c[2] = 0 /\ at[c] = "list" /\ d[1] = c[1] => at[d] = "list"

\* A listing names no object twice; that of a brace range is its expansion.
Listed ==
    \A c \in Readers :
        /\ IsInjective(names[c])
        /\ dataset = "brace" /\ at[c] \in {"read", "done"} =>
                names[c] = ExpandBraces(span[1], span[2], span[3])

ShardsInv ==
    /\ ShardsType /\ Idle /\ Waiting /\ Listed
    /\ (\E c \in Reader : at[c] = "list") => Fresh
    /\ Alike => Dealt

\* Whole shares of the same listing are a partition of it.
LEMMA FreshIsDealt == ShardsType /\ Listed /\ Fresh /\ Alike => Dealt
<1> SUFFICES ASSUME ShardsType, Listed, Fresh, Alike PROVE Dealt
  OBVIOUS
<1> DEFINE o == <<0, 0>>
           s == names[o]
<1>1. /\ \A c \in Readers : c \in Reader /\ Active(c)
      /\ o \in Readers /\ s \in Seq(Key) /\ IsInjective(s)
  BY ReadersAre DEF Readers, ShardsType, Listed
<1>2. \A c \in Readers : names[c] = s /\ (dataset = "scatter" => (ViaMount(c[1]) <=> ViaMount(o[1])))
  BY <1>1 DEF Alike
<1> HIDE DEF o, s
<1>3. /\ \A c \in Readers : Split(c, s) \in Seq(Key) /\ IsInjective(Split(c, s))
      /\ \A c, d \in Readers : c # d => ToSet(Split(c, s)) \cap ToSet(Split(d, s)) = {}
      /\ \A k : k \in ToSet(s) <=> \E c \in Readers : k \in ToSet(Split(c, s))
  <2>1. CASE dataset = "scatter" /\ ~ViaMount(o[1])
    <3>1. \A c \in Readers : Split(c, s) = ShareOnS3(c, s)
      BY <1>2, <2>1 DEF Split
    <3>2. /\ \A c \in Readers : /\ ShareOnS3(c, s) \in Seq(Key) /\ IsInjective(ShareOnS3(c, s))
                                 /\ ToSet(ShareOnS3(c, s)) \subseteq ToSet(s)
          /\ \A c, d \in Readers : c # d => ToSet(ShareOnS3(c, s)) \cap ToSet(ShareOnS3(d, s)) = {}
          /\ \A x \in ToSet(s) : \E c \in Readers : x \in ToSet(ShareOnS3(c, s))
      BY <1>1, OnS3SharesOut
    <3> QED BY <3>1, <3>2
  <2>2. CASE ~(dataset = "scatter" /\ ~ViaMount(o[1]))
    <3>1. \A c \in Readers : Split(c, s) = Share(c, s)
      BY <1>2, <2>2 DEF Split
    <3>2. /\ \A c \in Readers : /\ Share(c, s) \in Seq(Key) /\ IsInjective(Share(c, s))
                                 /\ ToSet(Share(c, s)) \subseteq ToSet(s)
          /\ \A c, d \in Readers : c # d => ToSet(Share(c, s)) \cap ToSet(Share(d, s)) = {}
          /\ \A x \in ToSet(s) : \E c \in Readers : x \in ToSet(Share(c, s))
      BY <1>1, ShareSharesOut
    <3> QED BY <3>1, <3>2
  <2> QED BY <2>1, <2>2
<1>4. \A c \in Readers : todo[c] = Split(c, s) /\ buf[c] = <<>>
  BY <1>2 DEF Fresh
<1>5. ToSet(<<>>) = {} /\ IsInjective(<<>>)
  BY DEF ToSet, IsInjective
<1>6. \A c \in Readers : Hands(c) = ToSet(Split(c, s))
  BY <1>4, <1>5 DEF Hands
<1>7. \A k \in Key : yielded[k] = 0
  BY DEF Fresh
<1>8. \A k \in Key :
        /\ yielded[k] \in {0, 1}
        /\ yielded[k] = 1 => \A c \in Readers : k \notin Hands(c)
        /\ k \in ToSet(s) <=> yielded[k] = 1 \/ \E c \in Readers : k \in Hands(c)
  BY <1>3, <1>6, <1>7
<1>9. \A c \in Readers : /\ IsInjective(todo[c]) /\ IsInjective(buf[c])
                         /\ ToSet(todo[c]) \cap ToSet(buf[c]) = {}
  BY <1>3, <1>4, <1>5
<1>10. \A c, d \in Readers : c # d => Hands(c) \cap Hands(d) = {}
  BY <1>3, <1>6
<1> QED BY <1>8, <1>9, <1>10 DEF Dealt, s, o

\* What a reader lists has no object twice.
LEMMA ListingIs ==
    ShardsType => \A c \in Reader : /\ Listing(c) \in Seq(Key) /\ IsInjective(Listing(c))
                                    /\ Reverse(Listing(c)) \in Seq(Key) /\ IsInjective(Reverse(Listing(c)))
<1> SUFFICES ASSUME ShardsType, NEW c \in Reader
             PROVE  /\ Listing(c) \in Seq(Key) /\ IsInjective(Listing(c))
                    /\ Reverse(Listing(c)) \in Seq(Key) /\ IsInjective(Reverse(Listing(c)))
  OBVIOUS
<1>1. CASE dataset = "brace"
  <2>1. Listing(c) \in Seq(Key) /\ IsInjective(Listing(c))
    BY <1>1, Expanded DEF Listing, ShardsType
  <2> QED BY <2>1, Reversed
<1>2. CASE dataset # "brace"
  <2>1. PICK S \in SUBSET Key : Listing(c) = Sorted(S)
    BY <1>2 DEF Listing, ShardsType
  <2>2. S \in SUBSET Int /\ IsFiniteSet(S)
    <3>1. IsFiniteSet(Key) /\ Key \in SUBSET Int
      BY FS_Interval, ShardReadsAssumption DEF Key
    <3> QED BY <3>1, FS_Subset
  <2>3. Sorted(S) \in Seq(S) /\ IsInjective(Sorted(S))
    BY <2>2, SortedIs
  <2>4. Sorted(S) \in Seq(Key)
    BY <2>3
  <2> QED BY <2>1, <2>3, <2>4, Reversed
<1> QED BY <1>1, <1>2

\* There is nothing to share out of an empty listing.
LEMMA NothingToShare ==
    ASSUME NEW c \in Readers, ShardsType
    PROVE  Split(c, <<>>) = <<>>
<1>1. ASSUME NEW f \in Nat, NEW m PROVE Strided(<<>>, f, m) = <<>>
  BY DEF Strided
<1>2. c[1] \in Nat /\ c[2] \in Nat /\ world \in Nat /\ workers \in Nat
  BY ReadersAre
<1>3. c[1] * workers + c[2] \in Nat
  BY <1>2
<1> QED BY <1>1, <1>2, <1>3 DEF Split, Share, ShareOnS3

\* The invariant holds at the start.
LEMMA ShardsStart == ShardsInit => ShardsInv
<1> SUFFICES ASSUME ShardsInit PROVE ShardsInv
  OBVIOUS
<1>1. ShardsType
  <2>1. <<0, 0, 1>> \in Key \X Key \X {-2, -1, 1, 2, 3}
    BY ShardReadsAssumption DEF Key
  <2>2. span \in Key \X Key \X {-2, -1, 1, 2, 3}
    BY <2>1 DEF ShardsInit
  <2>3. bucket \subseteq Key /\ late \subseteq Key /\ behind \subseteq Key
    BY ShardReadsAssumption DEF ShardsInit, Key
  <2>4. /\ names \in [Reader -> Seq(Key)] /\ todo \in [Reader -> Seq(Key)] /\ buf \in [Reader -> Seq(Key)]
        /\ yielded \in [Key -> Nat]
        /\ at \in [Reader -> {"list", "read", "done", "failed"}]
    <3>1. <<>> \in Seq(Key)
      OBVIOUS
    <3> QED BY <3>1 DEF ShardsInit
  <2>5. /\ dataset \in {"scatter", "glob", "brace"} /\ (dataset = "brace" => ~shuffled)
        /\ world \in 1 .. MaxWorld /\ workers \in 1 .. MaxWorkers
    BY DEF ShardsInit
  <2> QED BY <2>2, <2>3, <2>4, <2>5 DEF ShardsType
<1>2. /\ names = [c \in Reader |-> <<>>] /\ todo = [c \in Reader |-> <<>>] /\ buf = [c \in Reader |-> <<>>]
      /\ yielded = [k \in Key |-> 0] /\ at = [c \in Reader |-> IF Active(c) THEN "list" ELSE "done"]
  BY DEF ShardsInit
<1>3. Idle /\ Waiting
  BY <1>2 DEF Idle, Waiting, Readers
<1>4. Listed
  BY <1>2 DEF Listed, Readers, IsInjective
<1>5. Fresh
  <2>1. \A c \in Readers : c \in Reader /\ Split(c, <<>>) = <<>>
    BY <1>1, NothingToShare DEF Readers
  <2> QED BY <1>2, <2>1 DEF Fresh
<1> QED BY <1>1, <1>3, <1>4, <1>5, FreshIsDealt DEF ShardsInv

\* The readers stay the same.
LEMMA SharingKept ==
    ASSUME UNCHANGED sharing
    PROVE  Readers' = Readers
<1> QED BY DEF sharing, Readers, Active

\* Listing gives the readers of one listing their whole shares of it.
LEMMA ListKeysKeeps ==
    ASSUME ShardsInv, NEW c \in Reader, ListKeys(c)
    PROVE  ShardsType' /\ Idle' /\ Waiting' /\ Listed' /\ Fresh'
<1>1. /\ ShardsType /\ Idle /\ Waiting /\ Listed /\ Fresh
  BY DEF ShardsInv, ListKeys, Lists
<1> DEFINE L == Listing(c)
           who == Listers(c)
<1>2. PICK other \in IF shuffled THEN SUBSET who ELSE {{}} :
        /\ names' = [d \in Reader |-> IF d \in other THEN Reverse(L) ELSE IF d \in who THEN L ELSE names[d]]
        /\ todo' = [d \in Reader |-> IF d \in who THEN Split(d, names'[d]) ELSE todo[d]]
  BY DEF ListKeys
<1>3. /\ at' = [d \in Reader |-> IF d \in who THEN "read" ELSE at[d]]
      /\ UNCHANGED sharing /\ UNCHANGED mounted
      /\ UNCHANGED <<bucket, late, behind>> /\ UNCHANGED <<buf, yielded>>
      /\ (dataset # "scatter" => c[2] = 0)
  BY DEF ListKeys, Lists, storage
<1>4. L \in Seq(Key) /\ IsInjective(L) /\ Reverse(L) \in Seq(Key) /\ IsInjective(Reverse(L))
  BY <1>1, ListingIs
<1>5. /\ other \subseteq who /\ who \subseteq Readers /\ Readers \subseteq Reader
      /\ \A d \in Reader : d \in who <=> d \in Readers /\ d[1] = c[1] /\ (dataset = "scatter" => d = c)
  BY <1>2 DEF Listers, Readers
<1>6. Readers' = Readers
  BY <1>3, SharingKept
<1>7. dataset = "brace" => L = ExpandBraces(span[1], span[2], span[3]) /\ other = {}
  BY <1>1, <1>2 DEF Listing, ShardsType
<1>8. UNCHANGED <<dataset, world, workers, span, shuffled>>
  BY <1>3 DEF sharing
<1> HIDE DEF L, who
<1>9. names' \in [Reader -> Seq(Key)] /\ \A d \in Readers : IsInjective(names'[d])
  <2>1. names \in [Reader -> Seq(Key)] /\ \A d \in Readers : IsInjective(names[d])
    BY <1>1 DEF ShardsType, Listed
  <2> QED BY <1>2, <1>4, <1>5, <2>1
<1>10. \A d \in Readers : /\ Split(d, names'[d]) \in Seq(Key)
  <2>1. ASSUME NEW d \in Readers PROVE Share(d, names'[d]) \in Seq(Key) /\ ShareOnS3(d, names'[d]) \in Seq(Key)
    <3>1. names'[d] \in Seq(Key) /\ IsInjective(names'[d])
      BY <1>5, <1>9
    <3> QED BY <1>1, <2>1, <3>1, ShareSharesOut, OnS3SharesOut
  <2> QED BY <2>1 DEF Split
<1>11. todo' \in [Reader -> Seq(Key)]
  <2>1. todo \in [Reader -> Seq(Key)]
    BY <1>1 DEF ShardsType
  <2> QED BY <1>2, <1>5, <1>10, <2>1
<1>12. at' \in [Reader -> {"list", "read", "done", "failed"}]
  BY <1>1, <1>3 DEF ShardsType
<1>13. ShardsType'
  BY <1>1, <1>3, <1>8, <1>9, <1>11, <1>12 DEF ShardsType
<1>14. Idle'
  <2>1. ASSUME NEW d \in Reader PROVE ~Active(d)' => at'[d] = "done"
    <3>1. d \notin Readers => at[d] = "done" /\ d \notin who
      BY <1>1, <1>5 DEF Idle, Readers
    <3>2. Active(d)' <=> d \in Readers
      BY <1>8 DEF Active, Readers
    <3> QED BY <1>3, <3>1, <3>2
  <2>2. ASSUME NEW d \in Reader, at'[d] # "read" PROVE todo'[d] = <<>> /\ buf'[d] = <<>>
    BY <1>1, <1>2, <1>3, <2>2 DEF Idle
  <2> QED BY <2>1, <2>2 DEF Idle
<1>15. Waiting'
  <2> SUFFICES ASSUME dataset # "scatter", NEW b \in Readers, NEW d \in Readers,
                      b[2] = 0, at'[b] = "list", d[1] = b[1]
               PROVE  at'[d] = "list"
    BY <1>6, <1>8 DEF Waiting
  <2>1. b \notin who /\ at[b] = "list"
    BY <1>3, <1>5
  <2>2. at[d] = "list" /\ d \notin who
    BY <1>1, <1>5, <2>1 DEF Waiting
  <2> QED BY <1>3, <1>5, <2>2
<1>16. Listed'
  <2> SUFFICES ASSUME NEW d \in Readers, dataset = "brace", at'[d] \in {"read", "done"}
               PROVE  names'[d] = ExpandBraces(span[1], span[2], span[3])
    BY <1>6, <1>8, <1>9 DEF Listed
  <2>1. d \notin who => names[d] = ExpandBraces(span[1], span[2], span[3])
    BY <1>1, <1>3, <1>5 DEF Listed
  <2> QED BY <1>2, <1>5, <1>7, <2>1
<1>17. Fresh'
  <2>1. \A d \in Readers : buf[d] = <<>> /\ todo[d] = Split(d, names[d])
    BY <1>1 DEF Fresh
  <2>2. ASSUME NEW d \in Readers PROVE buf'[d] = <<>> /\ todo'[d] = Split(d, names'[d])
    BY <1>2, <1>3, <1>5, <2>1
  <2>3. \A d \in Readers : Split(d, names[d])' = Split(d, names'[d])
    BY <1>3, <1>8 DEF sharing, Split, Share, ShareOnS3, ViaMount
  <2>4. yielded' = [k \in Key |-> 0]
    BY <1>1, <1>3 DEF Fresh
  <2> QED BY <1>6, <2>2, <2>3, <2>4 DEF Fresh
<1> QED BY <1>13, <1>14, <1>15, <1>16, <1>17

\* A listing that finds nothing leaves all shares as they are.
LEMMA ListNothingKeeps ==
    ASSUME ShardsInv, NEW c \in Reader, ListNothing(c)
    PROVE  ShardsType' /\ Idle' /\ Waiting' /\ Listed' /\ Fresh'
<1>1. /\ ShardsType /\ Idle /\ Waiting /\ Listed /\ Fresh
  BY DEF ShardsInv, ListNothing, Lists
<1>2. /\ c[2] = 0 /\ at[c] = "list" /\ dataset # "scatter"
      /\ UNCHANGED sharing /\ UNCHANGED mounted /\ UNCHANGED <<bucket, late, behind>>
      /\ UNCHANGED <<names, todo, buf, yielded>>
  BY DEF ListNothing, Lists, storage, stream
<1>3. UNCHANGED <<dataset, world, workers, span, shuffled>>
  BY <1>2 DEF sharing
<1>4. PICK who \in {Listers(c), {}} : at' = [d \in Reader |-> IF d \in who THEN "failed" ELSE at[d]]
  BY DEF ListNothing
<1>5. Readers' = Readers
  BY <1>2, SharingKept
<1>6. \A d \in Listers(c) : d \in Readers /\ d[1] = c[1]
  BY DEF Listers, Readers
<1>7. \A d \in Readers : d[1] = c[1] => d \in Listers(c)
  BY <1>2 DEF Listers, Readers
<1>8. c \in Readers /\ Readers \subseteq Reader
  BY <1>1, <1>2 DEF Idle, Readers
<1>9. \A d \in Listers(c) : at[d] = "list"
  BY <1>1, <1>2, <1>6, <1>8 DEF Waiting
<1>10. ShardsType'
  BY <1>1, <1>2, <1>3, <1>4 DEF ShardsType
<1>11. Idle'
  <2>1. \A d \in Reader : Active(d)' <=> Active(d)
    BY <1>3 DEF Active
  <2>2. \A d \in who : Active(d)
    BY <1>4, <1>6 DEF Readers
  <2>3. \A d \in who : at[d] = "list"
    BY <1>4, <1>9
  <2> QED BY <1>1, <1>2, <1>4, <2>1, <2>2, <2>3 DEF Idle
<1>12. Waiting'
  <2> SUFFICES ASSUME NEW b \in Readers, NEW d \in Readers, b[2] = 0, at'[b] = "list", d[1] = b[1]
               PROVE  at'[d] = "list"
    BY <1>5, <1>3 DEF Waiting
  <2>1. b \notin who /\ at[b] = "list"
    BY <1>4, <1>8
  <2>2. at[d] = "list"
    BY <1>1, <1>2, <2>1 DEF Waiting
  <2>3. d \notin who
    BY <1>4, <1>6, <1>7, <2>1
  <2> QED BY <1>4, <1>8, <2>2, <2>3
<1>13. Listed'
  BY <1>1, <1>2, <1>3, <1>4, <1>5, <1>8 DEF Listed
<1>14. Fresh'
  <2>1. \A d \in Readers : Split(d, names[d])' = Split(d, names[d])
    BY <1>2, <1>3 DEF sharing, Split, Share, ShareOnS3, ViaMount
  <2> QED BY <1>1, <1>2, <1>5, <2>1 DEF Fresh
<1> QED BY <1>10, <1>11, <1>12, <1>13, <1>14

\* A reader that keeps, or yields, what it has in hand takes nothing from the others.
LEMMA HandsKeep ==
    ASSUME ShardsInv, NEW c \in Readers, at[c] = "read", \A d \in Reader : at[d] # "list",
           UNCHANGED <<sharing, storage, names, at>>,
           NEW t \in Seq(Key), NEW b \in Seq(Key), NEW Y \in SUBSET Key,
           todo' = [todo EXCEPT ![c] = t], buf' = [buf EXCEPT ![c] = b],
           yielded' = [k \in Key |-> IF k \in Y THEN yielded[k] + 1 ELSE yielded[k]],
           Dealt => /\ IsInjective(t) /\ IsInjective(b) /\ ToSet(t) \cap ToSet(b) = {}
                    /\ Y \subseteq Hands(c) /\ ToSet(t) \cup ToSet(b) = Hands(c) \ Y
    PROVE  ShardsInv'
<1>1. ShardsType /\ Idle /\ Waiting /\ Listed /\ (Alike => Dealt)
  BY DEF ShardsInv
<1>2. UNCHANGED <<dataset, world, workers, span, policy, shuffled, bucket, late, behind, mounted, names, at>>
  BY DEF sharing, storage
<1>3. Readers' = Readers /\ Readers \subseteq Reader
  BY <1>2 DEF Readers, Active
<1>4. /\ \A d \in Reader : d # c => todo'[d] = todo[d] /\ buf'[d] = buf[d]
      /\ todo'[c] = t /\ buf'[c] = b
  BY <1>1, <1>3 DEF ShardsType
<1>5. ShardsType'
  <2>1. todo' \in [Reader -> Seq(Key)] /\ buf' \in [Reader -> Seq(Key)]
    BY <1>1 DEF ShardsType
  <2>2. yielded \in [Key -> Nat]
    BY <1>1 DEF ShardsType
  <2>3. \A k \in Key : (IF k \in Y THEN yielded[k] + 1 ELSE yielded[k]) \in Nat
    BY <2>2
  <2>4. yielded' \in [Key -> Nat]
    BY <2>3
  <2> QED BY <1>1, <1>2, <2>1, <2>4 DEF ShardsType
<1>6. Idle'
  BY <1>1, <1>2, <1>4 DEF Idle, Active
<1>7. Waiting' /\ Listed'
  BY <1>1, <1>2, <1>3 DEF Waiting, Listed
<1>8. ~(\E d \in Reader : at[d] = "list")'
  BY <1>2
<1>9. ASSUME Alike' PROVE Dealt'
  <2>1. Alike
    BY <1>2, <1>9 DEF Alike, Active, ViaMount
  <2>2. Dealt
    BY <1>1, <2>1
  <2>3. Hands(c)' = Hands(c) \ Y /\ Y \subseteq Hands(c)
    BY <1>4, <2>2 DEF Hands
  <2>4. \A d \in Readers : d # c => Hands(d)' = Hands(d)
    BY <1>3, <1>4 DEF Hands
  <2>5. \A d \in Readers : /\ IsInjective(todo'[d]) /\ IsInjective(buf'[d])
                           /\ ToSet(todo'[d]) \cap ToSet(buf'[d]) = {}
    BY <1>3, <1>4, <2>2 DEF Dealt
  <2>6. \A d, e \in Readers : d # e => Hands(d)' \cap Hands(e)' = {}
    <3>1. \A d, e \in Readers : d # e => Hands(d) \cap Hands(e) = {}
      BY <2>2 DEF Dealt
    <3>2. \A d \in Readers : Hands(d)' \subseteq Hands(d)
      BY <2>3, <2>4
    <3> QED BY <3>1, <3>2
  <2>7. ASSUME NEW k \in Key
        PROVE  /\ yielded'[k] \in {0, 1}
               /\ yielded'[k] = 1 => \A d \in Readers : k \notin Hands(d)'
               /\ k \in ToSet(names[<<0, 0>>]) <=> yielded'[k] = 1 \/ \E d \in Readers : k \in Hands(d)'
    <3>1. /\ yielded[k] \in {0, 1}
          /\ yielded[k] = 1 => \A d \in Readers : k \notin Hands(d)
          /\ k \in ToSet(names[<<0, 0>>]) <=> yielded[k] = 1 \/ \E d \in Readers : k \in Hands(d)
          /\ \A d \in Readers : d # c => Hands(c) \cap Hands(d) = {}
      BY <2>2 DEF Dealt
    <3>2. CASE k \in Y
      <4>1. k \in Hands(c) /\ yielded[k] = 0 /\ yielded'[k] = 1
        BY <2>3, <3>1, <3>2
      <4>2. \A d \in Readers : k \notin Hands(d)'
        BY <2>3, <2>4, <3>1, <3>2, <4>1
      <4> QED BY <3>1, <4>1, <4>2
    <3>3. CASE k \notin Y
      <4>1. yielded'[k] = yielded[k]
        BY <3>3
      <4>2. \A d \in Readers : k \in Hands(d)' <=> k \in Hands(d)
        BY <2>3, <2>4, <3>3
      <4> QED BY <3>1, <4>1, <4>2
    <3> QED BY <3>2, <3>3
  <2>8. names' = names
    BY <1>2
  <2> QED BY <1>3, <2>5, <2>6, <2>7, <2>8 DEF Dealt
<1> QED BY <1>5, <1>6, <1>7, <1>8, <1>9 DEF ShardsInv

\* A sample is read into the reservoir, which gives one back when it is full.
LEMMA ReadSampleKeeps ==
    ASSUME ShardsInv, NEW c \in Reader, ReadSample(c)
    PROVE  ShardsInv'
<1>1. /\ at[c] = "read" /\ (\A d \in Reader : at[d] # "list") /\ todo[c] # <<>>
      /\ UNCHANGED <<sharing, storage, names, at>>
  BY DEF ReadSample, Turn
<1>2. ShardsType /\ Idle
  BY DEF ShardsInv
<1>3. c \in Readers
  BY <1>1, <1>2 DEF Idle, Readers
<1>4. /\ todo \in [Reader -> Seq(Key)] /\ buf \in [Reader -> Seq(Key)] /\ yielded \in [Key -> Nat]
      /\ todo[c] \in Seq(Key) /\ buf[c] \in Seq(Key)
  BY <1>2 DEF ShardsType
<1> DEFINE h == Head(todo[c])
           t == Tail(todo[c])
           b == Append(buf[c], h)
<1>5. todo' = [todo EXCEPT ![c] = t]
  BY DEF ReadSample
<1>6. /\ h \in Key /\ h \in ToSet(todo[c]) /\ t \in Seq(Key)
      /\ (IsInjective(todo[c]) => IsInjective(t) /\ ToSet(t) = ToSet(todo[c]) \ {h})
  BY <1>1, <1>4, Headed
<1> HIDE DEF h, t
<1>7. /\ b \in Seq(Key) /\ ToSet(b) = ToSet(buf[c]) \cup {h}
      /\ (IsInjective(buf[c]) /\ h \notin ToSet(buf[c]) => IsInjective(b))
  BY <1>4, <1>6, Appended
<1> HIDE DEF b
<1>8. ASSUME Dealt
      PROVE  /\ IsInjective(t) /\ IsInjective(b) /\ ToSet(t) \cap ToSet(b) = {}
             /\ ToSet(t) \cup ToSet(b) = Hands(c)
  <2>1. IsInjective(todo[c]) /\ IsInjective(buf[c]) /\ ToSet(todo[c]) \cap ToSet(buf[c]) = {}
    BY <1>3, <1>8 DEF Dealt
  <2> QED BY <1>6, <1>7, <2>1 DEF Hands
<1>9. CASE buf' = [buf EXCEPT ![c] = b] /\ UNCHANGED yielded
  <2>1. yielded' = [k \in Key |-> IF k \in {} THEN yielded[k] + 1 ELSE yielded[k]]
    BY <1>4, <1>9
  <2>2. {} \in SUBSET Key
    OBVIOUS
  <2>3. ASSUME Dealt
        PROVE  /\ IsInjective(t) /\ IsInjective(b) /\ ToSet(t) \cap ToSet(b) = {}
               /\ {} \subseteq Hands(c) /\ ToSet(t) \cup ToSet(b) = Hands(c) \ {}
    BY <1>8, <2>3
  <2> QED BY <1>1, <1>3, <1>5, <1>6, <1>7, <1>9, <2>1, <2>2, <2>3, HandsKeep
<1>10. ASSUME NEW j \in DOMAIN b,
              yielded' = [yielded EXCEPT ![Draw(b, j)[1]] = @ + 1], buf' = [buf EXCEPT ![c] = Draw(b, j)[2]]
       PROVE  ShardsInv'
  <2> DEFINE y == b[j]
             r == Draw(b, j)[2]
  <2>1. /\ Draw(b, j)[1] = y /\ y \in Key /\ r \in Seq(Key)
        /\ (IsInjective(b) => IsInjective(r) /\ ToSet(r) = ToSet(b) \ {y})
    BY <1>7, Drawn
  <2>2. y \in ToSet(b)
    BY DEF ToSet
  <2>3. buf' = [buf EXCEPT ![c] = r]
    BY <1>10
  <2> HIDE DEF y, r
  <2>4. yielded' = [k \in Key |-> IF k \in {y} THEN yielded[k] + 1 ELSE yielded[k]]
    BY <1>4, <1>10, <2>1
  <2>5. ASSUME Dealt
        PROVE  /\ IsInjective(t) /\ IsInjective(r) /\ ToSet(t) \cap ToSet(r) = {}
               /\ {y} \subseteq Hands(c) /\ ToSet(t) \cup ToSet(r) = Hands(c) \ {y}
    BY <1>8, <2>1, <2>2, <2>5
  <2>6. {y} \in SUBSET Key
    BY <2>1
  <2> QED BY <1>1, <1>3, <1>5, <1>6, <2>1, <2>3, <2>4, <2>5, <2>6, HandsKeep
<1> QED BY <1>9, <1>10 DEF ReadSample, b, h

\* What is left in the reservoir at the end is yielded from it.
LEMMA FlushKeeps ==
    ASSUME ShardsInv, NEW c \in Reader, Flush(c)
    PROVE  ShardsInv'
<1>1. /\ at[c] = "read" /\ (\A d \in Reader : at[d] # "list") /\ todo[c] = <<>>
      /\ UNCHANGED <<sharing, storage, names, at>> /\ UNCHANGED todo
  BY DEF Flush, Turn
<1>2. ShardsType /\ Idle
  BY DEF ShardsInv
<1>3. c \in Readers
  BY <1>1, <1>2 DEF Idle, Readers
<1>4. /\ todo \in [Reader -> Seq(Key)] /\ buf \in [Reader -> Seq(Key)] /\ yielded \in [Key -> Nat]
      /\ todo[c] \in Seq(Key) /\ buf[c] \in Seq(Key)
  BY <1>2 DEF ShardsType
<1>5. PICK j \in DOMAIN buf[c] :
        /\ yielded' = [yielded EXCEPT ![Draw(buf[c], j)[1]] = @ + 1]
        /\ buf' = [buf EXCEPT ![c] = Draw(buf[c], j)[2]]
  BY DEF Flush
<1> DEFINE y == buf[c][j]
           r == Draw(buf[c], j)[2]
<1>6. /\ Draw(buf[c], j)[1] = y /\ y \in Key /\ r \in Seq(Key)
      /\ (IsInjective(buf[c]) => IsInjective(r) /\ ToSet(r) = ToSet(buf[c]) \ {y})
  BY <1>4, Drawn
<1>7. y \in ToSet(buf[c])
  BY DEF ToSet
<1>8. buf' = [buf EXCEPT ![c] = r]
  BY <1>5
<1> HIDE DEF y, r
<1>9. yielded' = [k \in Key |-> IF k \in {y} THEN yielded[k] + 1 ELSE yielded[k]]
  BY <1>4, <1>5, <1>6
<1>10. todo' = [todo EXCEPT ![c] = todo[c]] /\ {y} \in SUBSET Key
  BY <1>1, <1>4, <1>6
<1>11. ASSUME Dealt
       PROVE  /\ IsInjective(todo[c]) /\ IsInjective(r) /\ ToSet(todo[c]) \cap ToSet(r) = {}
              /\ {y} \subseteq Hands(c) /\ ToSet(todo[c]) \cup ToSet(r) = Hands(c) \ {y}
  <2>1. IsInjective(todo[c]) /\ IsInjective(buf[c]) /\ ToSet(todo[c]) \cap ToSet(buf[c]) = {}
    BY <1>3, <1>11 DEF Dealt
  <2> QED BY <1>6, <1>7, <2>1 DEF Hands
<1> QED BY <1>1, <1>3, <1>4, <1>6, <1>8, <1>9, <1>10, <1>11, HandsKeep

\* A reader is done when it has nothing left in hand.
LEMMA ExhaustedKeeps ==
    ASSUME ShardsInv, NEW c \in Reader, Exhausted(c)
    PROVE  ShardsInv'
<1>1. ShardsType /\ Idle /\ Waiting /\ Listed /\ (Alike => Dealt)
  BY DEF ShardsInv
<1>2. /\ at[c] = "read" /\ (\A d \in Reader : at[d] # "list") /\ todo[c] = <<>> /\ buf[c] = <<>>
      /\ at' = [at EXCEPT ![c] = "done"]
      /\ UNCHANGED <<dataset, world, workers, span, policy, shuffled>>
      /\ UNCHANGED <<bucket, late, behind, mounted, names, todo, buf, yielded>>
  BY DEF Exhausted, Turn, sharing, storage, stream
<1>3. Readers' = Readers /\ Readers \subseteq Reader /\ \A d \in Reader : Active(d)' <=> Active(d)
  BY <1>2 DEF Readers, Active
<1>4. \A d \in Reader : at'[d] = IF d = c THEN "done" ELSE at[d]
  BY <1>1, <1>2 DEF ShardsType
<1>5. ShardsType'
  BY <1>1, <1>2 DEF ShardsType
<1>6. Idle'
  BY <1>1, <1>2, <1>3, <1>4 DEF Idle
<1>7. Waiting' /\ Listed'
  BY <1>1, <1>2, <1>3, <1>4 DEF Waiting, Listed
<1>8. ~(\E d \in Reader : at[d] = "list")'
  BY <1>2, <1>4
<1>9. Alike' => Dealt'
  <2>1. Alike' <=> Alike
    BY <1>2 DEF Alike, Active, ViaMount
  <2>2. Dealt' <=> Dealt
    BY <1>2, <1>3 DEF Dealt, Hands
  <2> QED BY <1>1, <2>1, <2>2
<1> QED BY <1>5, <1>6, <1>7, <1>8, <1>9 DEF ShardsInv

\* The storage changes under the readers, and nothing that they have.
LEMMA StorageKeeps ==
    ASSUME ShardsInv, NewObject \/ MountSees \/ UNCHANGED shardVars
    PROVE  ShardsInv'
<1>1. /\ UNCHANGED <<dataset, world, workers, span, policy, shuffled>>
      /\ UNCHANGED <<mounted, names, todo, buf, yielded, at>>
  BY DEF NewObject, MountSees, shardVars, sharing, storage, stream
<1>2. ShardsType'
  <2>1. bucket' \subseteq Key /\ late' \subseteq Key /\ behind' \subseteq Key
    BY DEF NewObject, MountSees, shardVars, storage, ShardsInv, ShardsType
  <2> QED BY <1>1, <2>1 DEF ShardsInv, ShardsType
<1>3. Readers' = Readers /\ \A d \in Reader : Active(d)' <=> Active(d)
  BY <1>1 DEF Readers, Active
<1>4. Idle' /\ Waiting' /\ Listed'
  BY <1>1, <1>3 DEF ShardsInv, Idle, Waiting, Listed
<1>5. Fresh' <=> Fresh
  <2>1. \A d \in Readers : Split(d, names[d])' = Split(d, names[d])
    BY <1>1 DEF Split, Share, ShareOnS3, ViaMount
  <2> QED BY <1>1, <1>3, <2>1 DEF Fresh
<1>6. Alike' <=> Alike
  BY <1>1 DEF Alike, Active, ViaMount
<1>7. Dealt' <=> Dealt
  BY <1>1, <1>3 DEF Dealt, Hands
<1> QED BY <1>1, <1>2, <1>4, <1>5, <1>6, <1>7 DEF ShardsInv

\* The invariant holds throughout.
LEMMA ShardsAlways == ShardsInit /\ [][ShardsNext]_shardVars => []ShardsInv
<1>1. ShardsInit => ShardsInv
  BY ShardsStart
<1>2. ShardsInv /\ [ShardsNext]_shardVars => ShardsInv'
  <2> SUFFICES ASSUME ShardsInv, [ShardsNext]_shardVars PROVE ShardsInv'
    OBVIOUS
  <2>1. (ShardsType /\ Listed /\ Fresh /\ Alike => Dealt)'
    BY FreshIsDealt, PTL
  <2>2. ASSUME ShardsType' /\ Idle' /\ Waiting' /\ Listed' /\ Fresh' PROVE ShardsInv'
    BY <2>1, <2>2 DEF ShardsInv
  <2>3. ASSUME NEW c \in Reader, ListKeys(c) \/ ListNothing(c) PROVE ShardsInv'
    BY <2>2, <2>3, ListKeysKeeps, ListNothingKeeps
  <2>4. ASSUME NEW c \in Reader, ReadSample(c) \/ Flush(c) \/ Exhausted(c) PROVE ShardsInv'
    BY <2>4, ReadSampleKeeps, FlushKeeps, ExhaustedKeeps
  <2>5. CASE NewObject \/ MountSees \/ UNCHANGED shardVars
    BY <2>5, StorageKeeps
  <2> QED BY <2>3, <2>4, <2>5 DEF ShardsNext
<1> QED BY <1>1, <1>2, PTL

\* When all readers listed the same, every object of the listing (every shard
\* that a brace range stands for) is yielded once, by one of them, whatever the
\* numbers of objects, ranks and workers and the size of the reservoir.
THEOREM OneReaderEach == ShardsInit /\ [][ShardsNext]_shardVars => []EveryObjectOnce
<1>1. ShardsInv => EveryObjectOnce
  <2> SUFFICES ASSUME ShardsInv, Alike
               PROVE  /\ \A k \in Key : yielded[k] <= 1
                      /\ (\A c \in Reader : at[c] = "done") =>
                            \A k \in Key : yielded[k] = 1 <=>
                                IF dataset = "brace" THEN k \in Meant(span) ELSE k \in ToSet(names[<<0, 0>>])
    BY DEF EveryObjectOnce
  <2>1. ShardsType /\ Idle /\ Listed /\ Dealt
    BY DEF ShardsInv
  <2>2. \A k \in Key : yielded[k] \in {0, 1}
    BY <2>1 DEF Dealt
  <2>3. ASSUME \A c \in Reader : at[c] = "done", NEW k \in Key
        PROVE  yielded[k] = 1 <=> IF dataset = "brace" THEN k \in Meant(span) ELSE k \in ToSet(names[<<0, 0>>])
    <3>1. \A c \in Readers : Hands(c) = {}
      BY <2>1, <2>3 DEF Idle, Hands, Readers, ToSet
    <3>2. k \in ToSet(names[<<0, 0>>]) <=> yielded[k] = 1
      BY <2>1, <3>1 DEF Dealt
    <3>3. <<0, 0>> \in Readers /\ <<0, 0>> \in Reader
      BY <2>1, ReadersAre DEF Readers
    <3>4. dataset = "brace" => ToSet(names[<<0, 0>>]) = Meant(span)
      <4>1. dataset = "brace" => names[<<0, 0>>] = ExpandBraces(span[1], span[2], span[3])
        BY <2>1, <2>3, <3>3 DEF Listed
      <4>2. ToSet(ExpandBraces(span[1], span[2], span[3])) = Meant(span)
        BY <2>1, Expanded DEF ShardsType
      <4> QED BY <4>1, <4>2
    <3> QED BY <3>2, <3>4
  <2> QED BY <2>2, <2>3
<1> QED BY <1>1, ShardsAlways, PTL

-----------------------------------------------------------------------------
(* PerfTracker: any bounds, any order of the GPU and the process.          *)

\* A record, and the one under way.
Records == [step : Nat, bytes : BOOLEAN, events : [Slot -> Mark]]

PerfType ==
    /\ trackIo \in BOOLEAN
    /\ created \in Nat /\ recorded \in Nat /\ created <= recorded
    /\ free \in [Event -> Nat] /\ position \in [Event -> Nat] /\ passed \in Nat
    /\ cur \in Seq(Records) /\ Len(cur) <= 1 /\ (cur # <<>> => cur[1].step = total + 1)
    /\ pending \in Seq(Records) /\ \A i \in 1 .. Len(pending) : pending[i].events["end"] \in Event
    /\ total \in Nat
    /\ series["step"] \in Seq(Nat)

\* No event of the records h is in two places, on the free list f, or not created yet.
Single(h, f, m) ==
    /\ \A e \in Event : f[e] \in {0, 1} /\ (e > m => f[e] = 0)
    /\ \A i \in DOMAIN h, s \in Slot :
            h[i].events[s] # Unmarked => h[i].events[s] <= m /\ f[h[i].events[s]] = 0
    /\ \A i, j \in DOMAIN h, s, t \in Slot :
            h[i].events[s] = h[j].events[t] /\ h[i].events[s] # Unmarked => i = j /\ s = t

\* All series that are tracked go with that of the step times.
InEverySeries == trackIo => series["fetch"] = series["step"] /\ series["mark"] = series["step"]

\* Steps are read out in their order, and late by less than the bound.
Timely ==
    /\ series["step"] \o Steps(pending) = [i \in 1 .. total |-> i]
    /\ total > 0 => series["step"] # <<>> /\ Len(pending) < MaxPending

PerfInv == PerfType /\ Single(pending \o cur, free, created) /\ InEverySeries /\ Timely

\* An event that exists and is in no place.
Unused(e, h, f, m) ==
    /\ e \in Event /\ e <= m /\ f[e] = 0
    /\ \A i \in DOMAIN h, s \in Slot : h[i].events[s] # e

\* The records g hold no event that h does not, in the same place, but e in one slot.
Within(g, h, e, k, t) ==
    \A i \in DOMAIN g, s \in Slot :
        \/ i \in DOMAIN h /\ g[i].events[s] = h[i].events[s]
        \/ i = k /\ s = t /\ g[i].events[s] = e
        \/ g[i].events[s] = Unmarked

\* An event that the clock gives out is in no other place.
LEMMA Taken ==
    ASSUME PerfType, NEW h \in Seq(Records), Single(h, free, created), NEW e, TakeEvent(e)
    PROVE  /\ Unused(e, h, FreeWithout(e), created')
           /\ FreeWithout(e) \in [Event -> Nat] /\ Single(h, FreeWithout(e), created')
           /\ created' \in Nat /\ recorded' \in Nat /\ created' <= recorded'
           /\ position' \in [Event -> Nat]
<1>1. /\ created \in Nat /\ recorded \in Nat /\ created <= recorded /\ recorded < MaxEvents
      /\ free \in [Event -> Nat] /\ position \in [Event -> Nat] /\ MaxEvents \in Nat
      /\ recorded' = recorded + 1 /\ position' = [position EXCEPT ![e] = recorded + 1]
  BY PerfTrackerAssumption DEF PerfType, TakeEvent
<1>2. position' \in [Event -> Nat] /\ recorded' \in Nat
  <2>1. recorded + 1 \in Nat
    BY <1>1
  <2>2. [position EXCEPT ![e] = recorded + 1] \in [Event -> Nat]
    BY <1>1, <2>1
  <2> QED BY <1>1, <2>1, <2>2
<1>3. \A i \in DOMAIN h, s \in Slot : h[i].events[s] \in Mark /\ (h[i].events[s] # Unmarked <=> h[i].events[s] \in Event)
  <2>1. \A x : x \in Mark => (x # Unmarked <=> x \in Event)
    BY <1>1 DEF Mark, Event, Unmarked
  <2>2. ASSUME NEW i \in DOMAIN h, NEW s \in Slot PROVE h[i].events[s] \in Mark
    <3>1. h[i] \in Records
      OBVIOUS
    <3> QED BY <3>1 DEF Records
  <2> QED BY <2>1, <2>2
<1>4. CASE Available # {}
  <2>1. e \in Event /\ free[e] > 0 /\ created' = created /\ FreeWithout(e) = [free EXCEPT ![e] = @ - 1]
    BY <1>4 DEF TakeEvent, NextEvents, Available, FreeWithout
  <2>2. free[e] = 1 /\ e <= created
    BY <1>1, <2>1 DEF Single, Event
  <2>3. /\ FreeWithout(e) \in [Event -> Nat] /\ FreeWithout(e)[e] = 0
        /\ \A x \in Event : x # e => FreeWithout(e)[x] = free[x]
    BY <1>1, <2>1, <2>2
  <2>4. \A i \in DOMAIN h, s \in Slot : h[i].events[s] # e
    BY <1>3, <2>1, <2>2 DEF Single
  <2>5. Single(h, FreeWithout(e), created)
    BY <1>3, <2>3, <2>4 DEF Single
  <2> QED BY <1>1, <1>2, <2>1, <2>2, <2>3, <2>4, <2>5 DEF Unused
<1>5. CASE Available = {}
  <2>1. e = created + 1 /\ created' = created + 1 /\ FreeWithout(e) = free
    BY <1>5 DEF TakeEvent, NextEvents, FreeWithout
  <2>2. e \in Event /\ e <= created' /\ ~(e <= created) /\ e > created
    BY <1>1, <2>1 DEF Event
  <2>3. free[e] = 0
    BY <2>2 DEF Single
  <2>4. \A i \in DOMAIN h, s \in Slot : h[i].events[s] # e
    BY <1>3, <2>2 DEF Single
  <2>5. Single(h, free, created + 1)
    <3>1. \A x \in Event : x > created + 1 => x > created
      BY <1>1 DEF Event
    <3>2. \A x \in Mark : x <= created => x <= created + 1
      BY <1>1 DEF Mark, Unmarked
    <3> QED BY <1>3, <3>1, <3>2 DEF Single
  <2> QED BY <1>1, <1>2, <2>1, <2>2, <2>3, <2>4, <2>5 DEF Unused
<1> QED BY <1>4, <1>5

\* Such an event can be put in one slot; other slots may be emptied, and records dropped.
LEMMA Put ==
    ASSUME NEW h \in Seq(Records), NEW f, NEW m \in Nat, Single(h, f, m),
           NEW e, Unused(e, h, f, m), NEW g \in Seq(Records), NEW k, NEW t, Within(g, h, e, k, t)
    PROVE  Single(g, f, m)
<1>1. \A x \in Event : f[x] \in {0, 1} /\ (x > m => f[x] = 0)
  BY DEF Single
<1>2. ASSUME NEW i \in DOMAIN g, NEW s \in Slot, g[i].events[s] # Unmarked
      PROVE  g[i].events[s] <= m /\ f[g[i].events[s]] = 0
  BY <1>2 DEF Single, Unused, Within
<1>3. ASSUME NEW i \in DOMAIN g, NEW j \in DOMAIN g, NEW s \in Slot, NEW u \in Slot,
             g[i].events[s] = g[j].events[u], g[i].events[s] # Unmarked
      PROVE  i = j /\ s = u
  BY <1>3 DEF Single, Unused, Within
<1> QED BY <1>1, <1>2, <1>3 DEF Single

\* How many records _drain reads out is well defined.
LEMMA DrainedIs ==
    ASSUME NEW T, NEW q \in Seq(T), NEW p, NEW pos
    PROVE  /\ Drained(q, p, pos) \in 0 .. Len(q)
           /\ Drained(q, p, pos) < Len(q) => ~Ready(p, q[Drained(q, p, pos) + 1], pos)
<1> DEFINE isLate(i) == ~Ready(p, q[i], pos)
           Bad == {i \in 1 .. Len(q) : isLate(i)}
<1>1. Len(q) \in Nat
  OBVIOUS
<1> HIDE DEF isLate
<1>2. \E n \in 0 .. Len(q) : (\A i \in 1 .. n : ~isLate(i)) /\ (n < Len(q) => isLate(n + 1))
  <2>1. CASE Bad = {}
    <3>1. \A i \in 1 .. Len(q) : ~isLate(i)
      BY <2>1
    <3>2. Len(q) \in 0 .. Len(q) /\ ~(Len(q) < Len(q))
      BY <1>1
    <3> QED BY <3>1, <3>2
  <2>2. CASE Bad # {}
    <3>1. PICK b \in Bad : \A i \in Bad : b <= i
      BY <1>1, <2>2, LeastStep
    <3>2. b - 1 \in 0 .. Len(q) /\ b = (b - 1) + 1 /\ isLate(b)
      BY <1>1
    <3>3. \A i \in 1 .. b - 1 : ~isLate(i)
      BY <1>1, <3>1
    <3> QED BY <3>2, <3>3
  <2> QED BY <2>1, <2>2
<1>3. \E n \in 0 .. Len(q) : (\A i \in 1 .. n : Ready(p, q[i], pos)) /\ (n < Len(q) => ~Ready(p, q[n + 1], pos))
  BY <1>2 DEF isLate
<1>4. Drained(q, p, pos) = CHOOSE n \in 0 .. Len(q) :
            (\A i \in 1 .. n : Ready(p, q[i], pos)) /\ (n < Len(q) => ~Ready(p, q[n + 1], pos))
  BY DEF Drained
<1> QED BY <1>3, <1>4, Zenon

\* What is read out of a sequence, and what is left of it.
LEMMA CutAt ==
    ASSUME NEW T, NEW q \in Seq(T), NEW n \in 0 .. Len(q)
    PROVE  LET A == SubSeq(q, 1, n)
               B == SubSeq(q, n + 1, Len(q))
           IN  /\ A \in Seq(T) /\ Len(A) = n /\ DOMAIN A = 1 .. n /\ \A i \in 1 .. n : A[i] = q[i]
               /\ B \in Seq(T) /\ Len(B) = Len(q) - n /\ \A i \in 1 .. Len(q) - n : B[i] = q[n + i]
<1>1. Len(q) \in Nat /\ n \in Nat /\ n <= Len(q) /\ \A i \in 1 .. Len(q) : q[i] \in T
  OBVIOUS
<1>2. LET A == SubSeq(q, 1, n)
      IN  A \in Seq(T) /\ Len(A) = n /\ DOMAIN A = 1 .. n /\ \A i \in 1 .. n : A[i] = q[i]
  <2>1. \A i \in 1 .. n : q[i] \in T
    BY <1>1
  <2>2. LET A == SubSeq(q, 1, n)
        IN  /\ A \in Seq(T) /\ Len(A) = IF 1 <= n THEN (n - 1) + 1 ELSE 0
            /\ \A i \in 1 .. (n - 1) + 1 : A[i] = q[(1 + i) - 1]
    BY <1>1, <2>1, SubSeqProperties
  <2> QED BY <1>1, <2>2
<1>3. LET B == SubSeq(q, n + 1, Len(q))
      IN  B \in Seq(T) /\ Len(B) = Len(q) - n /\ \A i \in 1 .. Len(q) - n : B[i] = q[n + i]
  <2>1. \A i \in n + 1 .. Len(q) : q[i] \in T
    BY <1>1
  <2>2. LET B == SubSeq(q, n + 1, Len(q))
        IN  /\ B \in Seq(T) /\ Len(B) = IF n + 1 <= Len(q) THEN (Len(q) - (n + 1)) + 1 ELSE 0
            /\ \A i \in 1 .. (Len(q) - (n + 1)) + 1 : B[i] = q[((n + 1) + i) - 1]
    BY <1>1, <2>1, SubSeqProperties
  <2> QED BY <1>1, <2>2
<1> QED BY <1>2, <1>3

\* What is recycled is the events of the records that are read out, each once.
LEMMA Dropped ==
    ASSUME NEW q \in Seq(Records), NEW c \in Seq(Records), NEW n \in 0 .. Len(q),
           NEW f \in [Event -> Nat], NEW m \in Nat, Single(q \o c, f, m)
    PROVE  LET g == [e \in Event |-> f[e] + Recycled(e, SubSeq(q, 1, n))]
           IN  g \in [Event -> Nat] /\ Single(SubSeq(q, n + 1, Len(q)) \o c, g, m)
<1> DEFINE done == SubSeq(q, 1, n)
           left == SubSeq(q, n + 1, Len(q)) \o c
           h == q \o c
           g == [e \in Event |-> f[e] + Recycled(e, done)]
<1>1. /\ done \in Seq(Records) /\ left \in Seq(Records) /\ h \in Seq(Records)
      /\ Len(q) \in Nat /\ n \in Nat /\ n <= Len(q)
      /\ DOMAIN done = 1 .. n /\ \A i \in 1 .. n : i \in DOMAIN h /\ done[i] = h[i]
      /\ \A i \in DOMAIN left : i + n \in DOMAIN h /\ left[i] = h[i + n] /\ i \in Nat \ {0}
  <2> DEFINE B == SubSeq(q, n + 1, Len(q))
  <2>1. /\ done \in Seq(Records) /\ Len(done) = n /\ DOMAIN done = 1 .. n /\ \A i \in 1 .. n : done[i] = q[i]
        /\ B \in Seq(Records) /\ Len(B) = Len(q) - n /\ \A i \in 1 .. Len(q) - n : B[i] = q[n + i]
    BY CutAt
  <2> HIDE DEF B, done
  <2>2. /\ h \in Seq(Records) /\ Len(h) = Len(q) + Len(c)
        /\ \A i \in 1 .. Len(q) + Len(c) : h[i] = IF i <= Len(q) THEN q[i] ELSE c[i - Len(q)]
    BY ConcatProperties
  <2>3. /\ B \o c \in Seq(Records) /\ Len(B \o c) = Len(B) + Len(c)
        /\ \A i \in 1 .. Len(B) + Len(c) : (B \o c)[i] = IF i <= Len(B) THEN B[i] ELSE c[i - Len(B)]
    BY <2>1, ConcatProperties
  <2>4. left = B \o c
    BY DEF B
  <2> HIDE DEF h, left
  <2>5. Len(q) \in Nat /\ n \in Nat /\ n <= Len(q) /\ Len(c) \in Nat
    OBVIOUS
  <2>6. DOMAIN h = 1 .. Len(q) + Len(c) /\ DOMAIN left = 1 .. (Len(q) - n) + Len(c)
    BY <2>1, <2>2, <2>3, <2>4
  <2>7. \A i \in 1 .. n : i \in DOMAIN h /\ done[i] = h[i]
    BY <2>1, <2>2, <2>5, <2>6
  <2>8. ASSUME NEW i \in DOMAIN left PROVE i + n \in DOMAIN h /\ left[i] = h[i + n] /\ i \in Nat \ {0}
    <3>1. i \in Nat \ {0} /\ i <= (Len(q) - n) + Len(c) /\ i + n \in 1 .. Len(q) + Len(c)
      BY <2>5, <2>6
    <3>2. CASE i <= Len(q) - n
      BY <2>1, <2>2, <2>3, <2>4, <2>5, <2>6, <3>1, <3>2
    <3>3. CASE i > Len(q) - n
      <4>1. left[i] = c[i - (Len(q) - n)]
        BY <2>1, <2>3, <2>4, <2>5, <3>1, <3>3
      <4>2. h[i + n] = c[(i + n) - Len(q)]
        BY <2>2, <2>5, <3>1, <3>3
      <4>3. i - (Len(q) - n) = (i + n) - Len(q)
        BY <2>5, <3>1
      <4> QED BY <2>6, <3>1, <4>1, <4>2, <4>3
    <3> QED BY <2>5, <3>1, <3>2, <3>3
  <2> QED BY <2>1, <2>2, <2>3, <2>4, <2>5, <2>7, <2>8
<1> HIDE DEF done, left, h
<1>2. \A i \in DOMAIN h, s \in Slot : h[i].events[s] \in Mark
  <2>1. \A i \in DOMAIN h : h[i] \in Records
    BY <1>1
  <2> QED BY <2>1 DEF Records
<1>3. MaxEvents \in Nat /\ \A x : x \in Mark => (x # Unmarked <=> x \in Event)
  BY PerfTrackerAssumption DEF Mark, Event, Unmarked
<1>4. /\ \A i \in DOMAIN h, s \in Slot : h[i].events[s] \in Event => h[i].events[s] <= m /\ f[h[i].events[s]] = 0
      /\ \A i, j \in DOMAIN h, s, t \in Slot :
            h[i].events[s] = h[j].events[t] /\ h[i].events[s] \in Event => i = j /\ s = t
      /\ \A e \in Event : f[e] \in {0, 1} /\ (e > m => f[e] = 0)
  <2>1. Single(h, f, m)
    BY DEF h
  <2>2. \A i \in DOMAIN h, s \in Slot : h[i].events[s] \in Event => h[i].events[s] # Unmarked
    BY <1>2, <1>3
  <2>3. \A i \in DOMAIN h, s \in Slot : h[i].events[s] \in Event => h[i].events[s] <= m /\ f[h[i].events[s]] = 0
    BY <2>1, <2>2 DEF Single
  <2>4. \A i, j \in DOMAIN h, s, t \in Slot :
            h[i].events[s] = h[j].events[t] /\ h[i].events[s] \in Event => i = j /\ s = t
    BY <2>1, <2>2 DEF Single
  <2> QED BY <2>1, <2>3, <2>4 DEF Single
<1>5. \A e \in Event : g[e] = f[e] + Recycled(e, done)
  BY DEF g
<1>6. ASSUME NEW e \in Event
      PROVE  \/ Places(e, done) = {} /\ Recycled(e, done) = 0
             \/ Recycled(e, done) = 1 /\ f[e] = 0 /\ e <= m /\ \A i \in DOMAIN left, s \in Slot : left[i].events[s] # e
  <2>1. CASE Places(e, done) = {}
    BY <2>1, FS_EmptySet DEF Recycled
  <2>2. CASE Places(e, done) # {}
    <3>1. PICK w \in Places(e, done) : TRUE
      BY <2>2
    <3>2. PICK i \in 1 .. n, s \in Slot : w = <<i, s>> /\ done[i].events[s] = e
      BY <1>1, <3>1 DEF Places
    <3>3. i \in DOMAIN h /\ h[i].events[s] = e /\ f[e] = 0 /\ e <= m
      BY <1>1, <1>4, <3>2
    <3>4. ASSUME NEW v \in Places(e, done) PROVE v = w
      <4>1. PICK j \in 1 .. n, t \in Slot : v = <<j, t>> /\ done[j].events[t] = e
        BY <1>1 DEF Places
      <4>2. j \in DOMAIN h /\ h[j].events[t] = e
        BY <1>1, <4>1
      <4> QED BY <1>4, <3>2, <3>3, <4>1, <4>2
    <3>5. Places(e, done) = {w}
      BY <3>1, <3>4
    <3>6. Recycled(e, done) = 1
      BY <3>5, FS_Singleton DEF Recycled
    <3>7. ASSUME NEW j \in DOMAIN left, NEW t \in Slot PROVE left[j].events[t] # e
      <4>1. j + n \in DOMAIN h /\ left[j] = h[j + n] /\ j + n # i
        BY <1>1, <3>2
      <4> QED BY <1>4, <3>3, <4>1
    <3> QED BY <3>3, <3>6, <3>7
  <2> QED BY <2>1, <2>2
<1>7. \A e \in Event : g[e] \in {0, 1} /\ (e > m => g[e] = 0)
  <2> SUFFICES ASSUME NEW e \in Event PROVE g[e] \in {0, 1} /\ (e > m => g[e] = 0)
    OBVIOUS
  <2>1. e \in Int /\ f[e] \in {0, 1} /\ (e > m => f[e] = 0)
    BY <1>3, <1>4 DEF Event
  <2>2. CASE Recycled(e, done) = 0
    BY <1>5, <2>1, <2>2
  <2>3. CASE Recycled(e, done) = 1 /\ f[e] = 0 /\ e <= m
    BY <1>5, <2>1, <2>3
  <2> QED BY <1>6, <2>2, <2>3
<1>8. ASSUME NEW i \in DOMAIN left, NEW s \in Slot, left[i].events[s] # Unmarked
      PROVE  left[i].events[s] <= m /\ g[left[i].events[s]] = 0
  <2>1. i + n \in DOMAIN h /\ left[i] = h[i + n]
    BY <1>1
  <2>2. PICK e \in Event : e = left[i].events[s]
    BY <1>2, <1>3, <1>8, <2>1
  <2>3. e <= m /\ f[e] = 0
    BY <1>4, <2>1, <2>2
  <2>4. Recycled(e, done) = 0
    BY <1>6, <2>2
  <2> QED BY <1>5, <2>2, <2>3, <2>4
<1>9. ASSUME NEW i \in DOMAIN left, NEW j \in DOMAIN left, NEW s \in Slot, NEW t \in Slot,
             left[i].events[s] = left[j].events[t], left[i].events[s] # Unmarked
      PROVE  i = j /\ s = t
  <2>1. /\ i + n \in DOMAIN h /\ left[i] = h[i + n] /\ j + n \in DOMAIN h /\ left[j] = h[j + n]
        /\ i \in Nat /\ j \in Nat
    BY <1>1
  <2>2. i + n = j + n /\ s = t
    BY <1>2, <1>3, <1>4, <1>9, <2>1
  <2> QED BY <1>1, <2>1, <2>2
<1>10. g \in [Event -> Nat]
  BY <1>7 DEF g
<1>11. Single(left, g, m)
  BY <1>7, <1>8, <1>9 DEF Single
<1> QED BY <1>10, <1>11 DEF g, left, done

\* The steps of records are in their order.
LEMMA StepsAre ==
    ASSUME NEW p \in Seq(Records)
    PROVE  Steps(p) \in Seq(Nat) /\ Len(Steps(p)) = Len(p) /\ \A i \in 1 .. Len(p) : Steps(p)[i] = p[i].step
<1>1. ASSUME NEW i \in 1 .. Len(p) PROVE p[i].step \in Nat
  <2>1. p[i] \in Records
    OBVIOUS
  <2> QED BY <2>1 DEF Records
<1>2. DOMAIN p = 1 .. Len(p) /\ Len(p) \in Nat
  OBVIOUS
<1>3. Steps(p) = [i \in 1 .. Len(p) |-> p[i].step]
  BY <1>2 DEF Steps
<1>4. Steps(p) \in [1 .. Len(p) -> Nat]
  BY <1>1, <1>3
<1>5. Steps(p) \in Seq(Nat) /\ Len(Steps(p)) = Len(p)
  BY <1>2, <1>4
<1> QED BY <1>3, <1>5

\* Series are joined in any order.
LEMMA Associates ==
    ASSUME NEW x \in Seq(Nat), NEW y \in Seq(Nat), NEW z \in Seq(Nat)
    PROVE  (x \o y) \o z = x \o (y \o z)
  OBVIOUS

\* The steps of records, read out up to n, are in the series or still pending.
LEMMA StepsRead ==
    ASSUME NEW S \in Seq(Nat), NEW q \in Seq(Records), NEW n \in 0 .. Len(q)
    PROVE  LET R == S \o Steps(SubSeq(q, 1, n))
           IN  /\ R \in Seq(Nat) /\ Len(R) = Len(S) + n
               /\ R \o Steps(SubSeq(q, n + 1, Len(q))) = S \o Steps(q)
<1> DEFINE A == SubSeq(q, 1, n)
           B == SubSeq(q, n + 1, Len(q))
<1>1. /\ A \in Seq(Records) /\ Len(A) = n /\ \A i \in 1 .. n : A[i] = q[i]
      /\ B \in Seq(Records) /\ Len(B) = Len(q) - n /\ \A i \in 1 .. Len(q) - n : B[i] = q[n + i]
  BY CutAt
<1>2. Len(q) \in Nat /\ n \in Nat /\ n <= Len(q)
  OBVIOUS
<1> HIDE DEF A, B
<1> DEFINE a == Steps(A)
           b == Steps(B)
           all == Steps(q)
<1>3. a \in Seq(Nat) /\ Len(a) = n /\ \A i \in 1 .. n : a[i] = q[i].step
  <2>1. a \in Seq(Nat) /\ Len(a) = Len(A) /\ \A i \in 1 .. Len(A) : a[i] = A[i].step
    BY <1>1, StepsAre
  <2> QED BY <1>1, <2>1
<1>4. b \in Seq(Nat) /\ Len(b) = Len(q) - n /\ \A i \in 1 .. Len(q) - n : b[i] = q[n + i].step
  <2>1. b \in Seq(Nat) /\ Len(b) = Len(B) /\ \A i \in 1 .. Len(B) : b[i] = B[i].step
    BY <1>1, StepsAre
  <2> QED BY <1>1, <2>1
<1>5. all \in Seq(Nat) /\ Len(all) = Len(q) /\ \A i \in 1 .. Len(q) : all[i] = q[i].step
  BY StepsAre
<1> HIDE DEF a, b, all
<1>6. a \o b = all
  <2>1. /\ a \o b \in Seq(Nat) /\ Len(a \o b) = Len(a) + Len(b)
        /\ \A i \in 1 .. Len(a) + Len(b) : (a \o b)[i] = IF i <= Len(a) THEN a[i] ELSE b[i - Len(a)]
    BY <1>3, <1>4, ConcatProperties
  <2>2. ASSUME NEW i \in 1 .. Len(q) PROVE (a \o b)[i] = all[i]
    <3>1. (a \o b)[i] = IF i <= n THEN a[i] ELSE b[i - n]
      BY <1>2, <1>3, <1>4, <2>1
    <3>2. CASE i <= n
      <4>1. i \in 1 .. n
        BY <1>2, <3>2
      <4> QED BY <1>3, <1>5, <3>1, <3>2, <4>1
    <3>3. CASE ~(i <= n)
      <4>1. i - n \in 1 .. Len(q) - n /\ n + (i - n) = i
        BY <1>2, <3>3
      <4> QED BY <1>4, <1>5, <3>1, <3>3, <4>1
    <3> QED BY <3>2, <3>3
  <2>3. Len(a \o b) = Len(q)
    BY <1>2, <1>3, <1>4, <2>1
  <2> QED BY <1>5, <2>1, <2>2, <2>3, SeqEqual
<1>7. (S \o a) \o b = S \o (a \o b)
  <2>1. a \in Seq(Nat) /\ b \in Seq(Nat)
    BY <1>3, <1>4
  <2> QED BY <2>1, Associates
<1>8. S \o a \in Seq(Nat) /\ Len(S \o a) = Len(S) + n
  BY <1>3, ConcatProperties
<1> QED BY <1>8, <1>6, <1>7 DEF A, B, a, b, all

\* The oldest n records are read out, and the next one is not ready.
ReadOutBy(n, q, p, pos) ==
    /\ n \in 0 .. Len(q) /\ (n < Len(q) => ~Ready(p, q[n + 1], pos))
    /\ Len(pending') = Len(q) - n /\ Len(series'["step"]) = Len(series["step"]) + n

\* What _drain does to the queue, the series and the free list.
LEMMA ReadOutIs ==
    ASSUME series["step"] \in Seq(Nat), InEverySeries, UNCHANGED trackIo, trackIo \in BOOLEAN,
           NEW q \in Seq(Records), \A i \in 1 .. Len(q) : q[i].events["end"] \in Event,
           NEW c \in Seq(Records), NEW f \in [Event -> Nat], NEW m \in Nat, Single(q \o c, f, m),
           NEW p, NEW pos, ReadOut(q, p, pos, f)
    PROVE  /\ pending' \in Seq(Records) /\ \A i \in 1 .. Len(pending') : pending'[i].events["end"] \in Event
           /\ free' \in [Event -> Nat] /\ Single(pending' \o c, free', m)
           /\ series'["step"] \in Seq(Nat) /\ series'["step"] \o Steps(pending') = series["step"] \o Steps(q)
           /\ InEverySeries'
           /\ ReadOutBy(Drained(q, p, pos), q, p, pos)
<1>1. PICK n \in 0 .. Len(q) : n = Drained(q, p, pos) /\ (n < Len(q) => ~Ready(p, q[n + 1], pos))
  BY DrainedIs
<1> DEFINE done == SubSeq(q, 1, n)
<1>2. /\ series' = [s \in Series |-> series[s] \o Steps(Added(s, done))]
      /\ pending' = SubSeq(q, n + 1, Len(q))
      /\ free' = [e \in Event |-> f[e] + Recycled(e, done)]
  BY <1>1, Zenon DEF ReadOut
<1>3. free' \in [Event -> Nat] /\ Single(pending' \o c, free', m)
  <2>1. LET g == [e \in Event |-> f[e] + Recycled(e, SubSeq(q, 1, n))]
        IN  g \in [Event -> Nat] /\ Single(SubSeq(q, n + 1, Len(q)) \o c, g, m)
    BY Dropped
  <2> QED BY <1>2, <2>1
<1>4. /\ pending' \in Seq(Records) /\ Len(pending') = Len(q) - n
      /\ \A i \in 1 .. Len(q) - n : pending'[i] = q[n + i]
  BY <1>2, CutAt
<1>5. series'["step"] = series["step"] \o Steps(done)
  BY <1>2 DEF Series, Added
<1>6. /\ series'["step"] \in Seq(Nat) /\ Len(series'["step"]) = Len(series["step"]) + n
      /\ series'["step"] \o Steps(pending') = series["step"] \o Steps(q)
  <2>1. LET R == series["step"] \o Steps(SubSeq(q, 1, n))
        IN  /\ R \in Seq(Nat) /\ Len(R) = Len(series["step"]) + n
            /\ R \o Steps(SubSeq(q, n + 1, Len(q))) = series["step"] \o Steps(q)
    BY StepsRead
  <2> QED BY <1>2, <1>5, <2>1
<1>7. InEverySeries'
  <2>1. trackIo => /\ series'["fetch"] = series["fetch"] \o Steps(done)
                   /\ series'["mark"] = series["mark"] \o Steps(done)
    BY <1>2 DEF Series, Added, InMarkSeries
  <2> HIDE DEF done
  <2> QED BY <1>5, <2>1 DEF InEverySeries
<1>8. \A i \in 1 .. Len(pending') : pending'[i].events["end"] \in Event
  <2>1. \A i \in 1 .. Len(q) - n : n + i \in 1 .. Len(q)
    OBVIOUS
  <2> QED BY <1>4, <2>1
<1> QED BY <1>1, <1>3, <1>4, <1>6, <1>7, <1>8 DEF ReadOutBy

\* A mark of the step under way goes to its slot of the record, and nowhere else.
LEMMA Marked ==
    ASSUME PerfType, cur # <<>>, NEW e \in Event, NEW t \in Slot,
           NEW r, r = WithEvent(cur[1], t, e)
    PROVE  /\ r \in Records /\ r.step = total + 1 /\ r.events[t] = e
           /\ pending \o <<r>> \in Seq(Records)
           /\ Within(pending \o <<r>>, pending \o cur, e, Len(pending) + 1, t)
<1>1. cur \in Seq(Records) /\ Len(cur) = 1 /\ cur[1] \in Records /\ cur[1].step = total + 1
  <2>1. cur \in Seq(Records) /\ Len(cur) <= 1 /\ cur[1].step = total + 1
    BY DEF PerfType
  <2>2. Len(cur) = 1
    <3>1. Len(cur) \in Nat
      BY <2>1
    <3>2. Len(cur) # 0
      BY <2>1, EmptySeq
    <3>3. \A x \in Nat : x <= 1 /\ x # 0 => x = 1
      OBVIOUS
    <3>4. Len(cur) <= 1
      BY <2>1
    <3> QED BY <3>1, <3>2, <3>3, <3>4, Zenon
  <2>3. cur[1] \in Records
    BY <2>1, <2>2
  <2> QED BY <2>1, <2>2, <2>3
<1>2. e \in Mark
  BY PerfTrackerAssumption DEF Event, Mark, Unmarked
<1>3. cur[1].events \in [Slot -> Mark]
  BY <1>1 DEF Records
<1>4. r \in Records /\ r.step = total + 1
  BY <1>1, <1>2, <1>3 DEF Records, WithEvent
<1>5. \A s \in Slot : r.events[s] = IF s = t THEN e ELSE cur[1].events[s]
  BY <1>1, <1>3 DEF Records, WithEvent
<1>7. pending \in Seq(Records) /\ Len(pending) \in Nat
  BY DEF PerfType
<1>8. /\ DOMAIN (pending \o cur) = 1 .. Len(pending) + 1 /\ DOMAIN (pending \o <<r>>) = 1 .. Len(pending) + 1
      /\ pending \o <<r>> \in Seq(Records)
      /\ \A i \in 1 .. Len(pending) : (pending \o cur)[i] = pending[i] /\ (pending \o <<r>>)[i] = pending[i]
      /\ (pending \o cur)[Len(pending) + 1] = cur[1] /\ (pending \o <<r>>)[Len(pending) + 1] = r
  <2>1. <<r>> \in Seq(Records) /\ Len(<<r>>) = 1 /\ <<r>>[1] = r
    BY <1>4
  <2>7. /\ pending \o cur \in Seq(Records) /\ Len(pending \o cur) = Len(pending) + Len(cur)
        /\ \A i \in 1 .. Len(pending) + Len(cur) :
                (pending \o cur)[i] = IF i <= Len(pending) THEN pending[i] ELSE cur[i - Len(pending)]
    BY <1>1, <1>7, ConcatProperties, Zenon
  <2>2. /\ pending \o cur \in Seq(Records) /\ Len(pending \o cur) = Len(pending) + 1
        /\ \A i \in 1 .. Len(pending) + 1 :
                (pending \o cur)[i] = IF i <= Len(pending) THEN pending[i] ELSE cur[i - Len(pending)]
    BY <1>1, <2>7, Zenon
  <2> DEFINE o == <<r>>
  <2> HIDE DEF o
  <2>3. /\ pending \o o \in Seq(Records) /\ Len(pending \o o) = Len(pending) + 1
        /\ \A i \in 1 .. Len(pending) + 1 :
                (pending \o o)[i] = IF i <= Len(pending) THEN pending[i] ELSE o[i - Len(pending)]
    <3>1. o \in Seq(Records) /\ Len(o) = 1
      BY <2>1 DEF o
    <3>2. /\ pending \o o \in Seq(Records) /\ Len(pending \o o) = Len(pending) + Len(o)
          /\ \A i \in 1 .. Len(pending) + Len(o) :
                (pending \o o)[i] = IF i <= Len(pending) THEN pending[i] ELSE o[i - Len(pending)]
      BY <1>7, <3>1, ConcatProperties, Zenon
    <3> QED BY <3>1, <3>2, Zenon
  <2>4. /\ DOMAIN (pending \o cur) = 1 .. Len(pending) + 1
        /\ (Len(pending) + 1) - Len(pending) = 1 /\ ~(Len(pending) + 1 <= Len(pending))
        /\ Len(pending) + 1 \in 1 .. Len(pending) + 1
        /\ \A i \in 1 .. Len(pending) : i <= Len(pending) /\ i \in 1 .. Len(pending) + 1
    BY <1>7, <2>2
  <2>5. o[1] = r
    BY <2>1 DEF o
  <2>6. /\ \A i \in 1 .. Len(pending) : (pending \o cur)[i] = pending[i] /\ (pending \o o)[i] = pending[i]
        /\ (pending \o cur)[Len(pending) + 1] = cur[1] /\ (pending \o o)[Len(pending) + 1] = r
    BY <2>2, <2>3, <2>4, <2>5
  <2>8. DOMAIN (pending \o o) = 1 .. Len(pending) + 1
    BY <2>3
  <2> QED BY <2>3, <2>4, <2>6, <2>8 DEF o
<1>9. \A i \in 1 .. Len(pending) + 1, s \in Slot :
        \/ /\ i \in DOMAIN (pending \o cur)
           /\ (pending \o <<r>>)[i].events[s] = (pending \o cur)[i].events[s]
        \/ i = Len(pending) + 1 /\ s = t /\ (pending \o <<r>>)[i].events[s] = e
  <2> SUFFICES ASSUME NEW i \in 1 .. Len(pending) + 1, NEW s \in Slot
               PROVE  \/ /\ i \in DOMAIN (pending \o cur)
                         /\ (pending \o <<r>>)[i].events[s] = (pending \o cur)[i].events[s]
                      \/ i = Len(pending) + 1 /\ s = t /\ (pending \o <<r>>)[i].events[s] = e
    OBVIOUS
  <2>1. CASE i = Len(pending) + 1
    BY <1>5, <1>8, <2>1
  <2>2. CASE i # Len(pending) + 1
    <3>1. i \in 1 .. Len(pending)
      BY <1>7, <2>2
    <3> QED BY <1>8, <3>1
  <2> QED BY <2>1, <2>2
<1>10. r.events[t] = e
  BY <1>5
<1>11. Within(pending \o <<r>>, pending \o cur, e, Len(pending) + 1, t)
  BY <1>8, <1>9 DEF Within
<1> QED BY <1>4, <1>8, <1>10, <1>11

\* A step does not disturb what it leaves alone.
LEMMA Leaves ==
    ASSUME PerfInv, UNCHANGED <<trackIo, pending, total, series>>
    PROVE  InEverySeries' /\ Timely'
  BY DEF PerfInv, InEverySeries, Timely, Steps

\* Nothing of what has been recorded is in two places once one more event is put in the record.
LEMMA Marks ==
    ASSUME PerfInv, cur # <<>>, NEW t \in Slot, MarkAs(t), UNCHANGED <<trackIo, passed, pending, total, series>>
    PROVE  PerfInv'
<1>1. PICK e \in NextEvents :
        /\ TakeEvent(e) /\ free' = FreeWithout(e)
        /\ cur' = <<WithEvent(cur[1], t, e)>>
  BY DEF MarkAs
<1> DEFINE h == pending \o cur
<1>2. /\ PerfType /\ h \in Seq(Records) /\ Single(h, free, created)
      /\ pending \in Seq(Records) /\ cur \in Seq(Records)
  BY ConcatProperties DEF PerfInv, PerfType
<1>3. /\ Unused(e, h, free', created') /\ free' \in [Event -> Nat] /\ Single(h, free', created')
      /\ created' \in Nat /\ recorded' \in Nat /\ created' <= recorded'
      /\ position' \in [Event -> Nat]
  <2> HIDE DEF h
  <2> QED BY <1>1, <1>2, Taken
<1>4. PICK r : r = WithEvent(cur[1], t, e)
  OBVIOUS
<1>5. e \in Event
  BY <1>3 DEF Unused
<1>6. /\ r \in Records /\ r.step = total + 1 /\ cur' = <<r>>
      /\ pending \o <<r>> \in Seq(Records)
      /\ Within(pending \o <<r>>, h, e, Len(pending) + 1, t)
  <2>1. cur' = <<r>>
    BY <1>1, <1>4
  <2>2. PerfType /\ cur # <<>>
    BY <1>2
  <2> HIDE DEF h
  <2>3. /\ r \in Records /\ r.step = total + 1 /\ r.events[t] = e
        /\ pending \o <<r>> \in Seq(Records)
        /\ Within(pending \o <<r>>, pending \o cur, e, Len(pending) + 1, t)
    BY <1>4, <1>5, <2>2, Marked
  <2> QED BY <2>1, <2>3 DEF h
<1> HIDE DEF h
<1>7. Single(pending \o <<r>>, free', created')
  BY <1>2, <1>3, <1>6, Put
<1>8. Single(pending \o cur, free, created)'
  BY <1>6, <1>7
<1>9. PerfType'
  <2>1. cur' \in Seq(Records) /\ Len(cur') = 1 /\ cur'[1].step = total + 1
    BY <1>6
  <2>2. Len(cur') <= 1
    BY <2>1
  <2> QED BY <1>2, <1>3, <2>1, <2>2, Zenon DEF PerfType
<1> QED BY <1>8, <1>9, Leaves DEF PerfInv

\* A step begins: what the one under way held is forgotten.
LEMMA Starts == ASSUME PerfInv, StepStart PROVE PerfInv'
<1>1. PICK e \in NextEvents :
        /\ TakeEvent(e) /\ free' = FreeWithout(e)
        /\ cur' = <<[step |-> total + 1, bytes |-> FALSE,
                     events |-> [s \in Slot |-> IF s = "start" THEN e ELSE Unmarked]]>>
  BY DEF StepStart
<1>2. UNCHANGED <<trackIo, passed, pending, total, series>>
  BY DEF StepStart
<1> DEFINE h == pending \o cur
<1>3. /\ PerfType /\ h \in Seq(Records) /\ Single(h, free, created)
      /\ pending \in Seq(Records) /\ cur \in Seq(Records)
  BY ConcatProperties DEF PerfInv, PerfType
<1>4. /\ Unused(e, h, free', created') /\ free' \in [Event -> Nat] /\ Single(h, free', created')
      /\ created' \in Nat /\ recorded' \in Nat /\ created' <= recorded'
      /\ position' \in [Event -> Nat]
  <2> HIDE DEF h
  <2> QED BY <1>1, <1>3, Taken
<1>5. PICK r : r = [step |-> total + 1, bytes |-> FALSE,
                    events |-> [s \in Slot |-> IF s = "start" THEN e ELSE Unmarked]]
  OBVIOUS
<1>6. r \in Records /\ r.step = total + 1 /\ \A s \in Slot : r.events[s] = IF s = "start" THEN e ELSE Unmarked
  <2>1. e \in Mark /\ Unmarked \in Mark
    BY <1>4, PerfTrackerAssumption DEF Unused, Event, Mark, Unmarked
  <2>2. total + 1 \in Nat
    BY <1>3 DEF PerfType
  <2> QED BY <1>5, <2>1, <2>2 DEF Records
<1>7. <<r>> \in Seq(Records) /\ Len(<<r>>) = 1 /\ <<r>>[1] = r /\ cur' = <<r>>
  BY <1>1, <1>5, <1>6
<1>8. pending \o <<r>> \in Seq(Records) /\ Within(pending \o <<r>>, h, e, Len(pending) + 1, "start")
  <2> DEFINE o == <<r>>
  <2>1. o \in Seq(Records) /\ Len(o) = 1 /\ o[1] = r
    BY <1>7
  <2> HIDE DEF o
  <2>2. /\ pending \o o \in Seq(Records) /\ Len(pending \o o) = Len(pending) + Len(o)
        /\ \A i \in 1 .. Len(pending) + Len(o) :
                (pending \o o)[i] = IF i <= Len(pending) THEN pending[i] ELSE o[i - Len(pending)]
    BY <1>3, <2>1, ConcatProperties, Zenon
  <2>3. /\ h \in Seq(Records) /\ Len(h) = Len(pending) + Len(cur)
        /\ \A i \in 1 .. Len(pending) + Len(cur) :
                h[i] = IF i <= Len(pending) THEN pending[i] ELSE cur[i - Len(pending)]
    BY <1>3, ConcatProperties, Zenon
  <2> HIDE DEF h
  <2>4. Len(pending) \in Nat /\ Len(cur) \in Nat
    BY <1>3
  <2>5. ASSUME NEW i \in DOMAIN (pending \o o), NEW s \in Slot
        PROVE  \/ i \in DOMAIN h /\ (pending \o o)[i].events[s] = h[i].events[s]
               \/ i = Len(pending) + 1 /\ s = "start" /\ (pending \o o)[i].events[s] = e
               \/ (pending \o o)[i].events[s] = Unmarked
    <3>1. i \in 1 .. Len(pending) + 1
      BY <2>1, <2>2
    <3>2. CASE i \in 1 .. Len(pending)
      <4>1. i \in 1 .. Len(pending) + 1 /\ i \in 1 .. Len(pending) + Len(cur) /\ i <= Len(pending)
        BY <2>4, <3>2
      <4>2. i \in DOMAIN h
        BY <2>3, <4>1
      <4>3. (pending \o o)[i] = pending[i]
        BY <2>1, <2>2, <4>1, Zenon
      <4>4. h[i] = pending[i]
        BY <2>3, <4>1, Zenon
      <4> QED BY <4>2, <4>3, <4>4
    <3>3. CASE i = Len(pending) + 1
      <4>1. (Len(pending) + 1) - Len(pending) = 1 /\ ~(Len(pending) + 1 <= Len(pending))
        BY <2>4
      <4>2. (pending \o o)[i] = r
        BY <2>1, <2>2, <3>1, <3>3, <4>1, Zenon
      <4> QED BY <1>6, <3>3, <4>2
    <3> QED BY <2>4, <3>1, <3>2, <3>3
  <2> QED BY <2>2, <2>5 DEF o, Within
<1> HIDE DEF h
<1>9. Single(pending \o <<r>>, free', created')
  BY <1>3, <1>4, <1>8, Put
<1>10. Single(pending \o cur, free, created)'
  BY <1>2, <1>7, <1>9
<1>11. PerfType'
  <2>1. Len(cur') <= 1 /\ cur'[1].step = total + 1 /\ cur' \in Seq(Records)
    BY <1>6, <1>7
  <2> QED BY <1>2, <1>3, <1>4, <2>1, Zenon DEF PerfType
<1> QED BY <1>2, <1>10, <1>11, Leaves DEF PerfInv

\* A mark whose step has ended: its event goes nowhere.
LEMMA Loses == ASSUME PerfInv, MarkEndRaises PROVE PerfInv'
<1>1. PICK e \in NextEvents : TakeEvent(e) /\ free' = FreeWithout(e)
  BY DEF MarkEndRaises
<1>2. UNCHANGED <<trackIo, passed, cur, pending, total, series>>
  BY DEF MarkEndRaises
<1> DEFINE h == pending \o cur
<1>3. PerfType /\ h \in Seq(Records) /\ Single(h, free, created)
  BY ConcatProperties DEF PerfInv, PerfType
<1>4. /\ free' \in [Event -> Nat] /\ Single(h, free', created')
      /\ created' \in Nat /\ recorded' \in Nat /\ created' <= recorded'
      /\ position' \in [Event -> Nat]
  <2> HIDE DEF h
  <2> QED BY <1>1, <1>3, Taken
<1>5. PerfType'
  BY <1>2, <1>3, <1>4 DEF PerfType
<1> QED BY <1>2, <1>4, <1>5, Leaves DEF PerfInv

\* Bytes of the step under way do not touch its events.
LEMMA Counts == ASSUME PerfInv, RecordBytes PROVE PerfInv'
<1>1. /\ cur # <<>> /\ cur' = <<[cur[1] EXCEPT !.bytes = TRUE]>>
      /\ UNCHANGED <<trackIo, created, free, recorded, position, passed, block, pending, total, series>>
  BY DEF RecordBytes, clock
<1>2. /\ PerfType /\ pending \in Seq(Records) /\ cur \in Seq(Records) /\ Len(cur) = 1
      /\ cur[1] \in Records /\ cur[1].step = total + 1 /\ Single(pending \o cur, free, created)
  <2>1. /\ PerfType /\ pending \in Seq(Records) /\ cur \in Seq(Records) /\ Len(cur) <= 1
        /\ cur[1].step = total + 1 /\ Single(pending \o cur, free, created)
    BY <1>1 DEF PerfInv, PerfType
  <2>2. Len(cur) \in Nat /\ Len(cur) # 0
    BY <1>1, <2>1, EmptySeq
  <2>3. Len(cur) = 1
    <3>1. \A x \in Nat : x <= 1 /\ x # 0 => x = 1
      OBVIOUS
    <3> QED BY <2>1, <2>2, <3>1, Zenon
  <2>4. cur[1] \in Records
    BY <2>1, <2>3
  <2> QED BY <2>1, <2>3, <2>4
<1>3. PICK r : r = [cur[1] EXCEPT !.bytes = TRUE]
  OBVIOUS
<1>4. r \in Records /\ r.step = cur[1].step /\ r.events = cur[1].events
  BY <1>2, <1>3 DEF Records
<1> DEFINE o == <<r>>
<1>5. cur' = o /\ o \in Seq(Records) /\ Len(o) = 1 /\ o[1] = r
  BY <1>1, <1>3, <1>4
<1> HIDE DEF o
<1>6. DOMAIN (pending \o o) = DOMAIN (pending \o cur)
      /\ \A i \in DOMAIN (pending \o o) : (pending \o o)[i].events = (pending \o cur)[i].events
  <2>1. /\ pending \o o \in Seq(Records) /\ Len(pending \o o) = Len(pending) + Len(o)
        /\ \A i \in 1 .. Len(pending) + Len(o) :
                (pending \o o)[i] = IF i <= Len(pending) THEN pending[i] ELSE o[i - Len(pending)]
    BY <1>2, <1>5, ConcatProperties, Zenon
  <2>2. /\ pending \o cur \in Seq(Records) /\ Len(pending \o cur) = Len(pending) + Len(cur)
        /\ \A i \in 1 .. Len(pending) + Len(cur) :
                (pending \o cur)[i] = IF i <= Len(pending) THEN pending[i] ELSE cur[i - Len(pending)]
    BY <1>2, ConcatProperties, Zenon
  <2>3. DOMAIN (pending \o o) = 1 .. Len(pending) + 1 /\ DOMAIN (pending \o cur) = 1 .. Len(pending) + 1
    BY <1>2, <1>5, <2>1, <2>2
  <2>4. ASSUME NEW i \in 1 .. Len(pending) + 1
        PROVE  (pending \o o)[i].events = (pending \o cur)[i].events
    <3>1. CASE i <= Len(pending)
      BY <1>2, <1>5, <2>1, <2>2, <3>1, Zenon
    <3>2. CASE ~(i <= Len(pending))
      <4>1. i - Len(pending) = 1
        <5>1. Len(pending) \in Nat
          BY <1>2
        <5> QED BY <3>2, <5>1
      <4> QED BY <1>2, <1>4, <1>5, <2>1, <2>2, <3>2, <4>1, Zenon
    <3> QED BY <3>1, <3>2
  <2> QED BY <2>3, <2>4
<1>7. Single(pending \o o, free, created)
  <2> DEFINE g == pending \o o
             h == pending \o cur
  <2> HIDE DEF g, h
  <2>1. Single(h, free, created) /\ DOMAIN g = DOMAIN h /\ \A i \in DOMAIN g : g[i].events = h[i].events
    BY <1>2, <1>6 DEF g, h
  <2>2. Single(g, free, created)
    BY <2>1 DEF Single
  <2> QED BY <2>2 DEF g
<1>8. PerfType'
  <2>1. Len(cur') <= 1 /\ cur'[1].step = total + 1 /\ cur' \in Seq(Records)
    BY <1>2, <1>4, <1>5
  <2> QED BY <1>1, <1>2, <2>1, Zenon DEF PerfType
<1> QED BY <1>1, <1>5, <1>7, <1>8, Leaves DEF PerfInv

\* The steps of one more record come after all the others.
LEMMA OneMore ==
    ASSUME PerfInv, NEW r \in Records, r.step = total + 1
    PROVE  series["step"] \o Steps(Append(pending, r)) = [i \in 1 .. total + 1 |-> i]
<1> DEFINE had == series["step"]
           a == Steps(pending)
           q == Append(pending, r)
           b == Steps(q)
<1>1. /\ had \in Seq(Nat) /\ pending \in Seq(Records) /\ total \in Nat
      /\ had \o a = [i \in 1 .. total |-> i]
  BY DEF PerfInv, PerfType, Timely
<1>2. a \in Seq(Nat) /\ Len(a) = Len(pending) /\ \A i \in 1 .. Len(pending) : a[i] = pending[i].step
  BY <1>1, StepsAre
<1>3. /\ q \in Seq(Records) /\ Len(q) = Len(pending) + 1
      /\ \A i \in 1 .. Len(pending) : q[i] = pending[i]
      /\ q[Len(pending) + 1] = r
  BY <1>1
<1> HIDE DEF q
<1>4. b \in Seq(Nat) /\ Len(b) = Len(q) /\ \A i \in 1 .. Len(q) : b[i] = q[i].step
  BY <1>3, StepsAre
<1> HIDE DEF had, a, b
<1>5. Len(had) \in Nat /\ Len(pending) \in Nat
  BY <1>1
<1>6. /\ had \o a \in Seq(Nat) /\ Len(had \o a) = Len(had) + Len(a)
      /\ \A i \in 1 .. Len(had) + Len(a) : (had \o a)[i] = IF i <= Len(had) THEN had[i] ELSE a[i - Len(had)]
  <2>1. had \in Seq(Nat) /\ a \in Seq(Nat)
    BY <1>1, <1>2
  <2> QED BY <2>1, ConcatProperties
<1>7. /\ had \o b \in Seq(Nat) /\ Len(had \o b) = Len(had) + Len(b)
      /\ \A i \in 1 .. Len(had) + Len(b) : (had \o b)[i] = IF i <= Len(had) THEN had[i] ELSE b[i - Len(had)]
  <2>1. had \in Seq(Nat) /\ b \in Seq(Nat)
    BY <1>1, <1>4
  <2> QED BY <2>1, ConcatProperties
<1>8. Len(had) + Len(pending) = total
  <2>1. Len(had \o a) = total
    <3> DEFINE w == had \o a
    <3>1. w = [i \in 1 .. total |-> i] /\ total \in Nat
      BY <1>1
    <3> HIDE DEF w
    <3>2. DOMAIN w = 1 .. total /\ w \in Seq(Nat)
      BY <3>1
    <3>3. Len(w) = total
      BY <3>1, <3>2
    <3> QED BY <3>3 DEF w
  <2> QED BY <1>2, <1>6, <2>1
<1>9. Len(had \o b) = total + 1
  BY <1>3, <1>4, <1>5, <1>7, <1>8
<1>10. ASSUME NEW i \in 1 .. total + 1 PROVE (had \o b)[i] = i
  <2>1. (had \o b)[i] = IF i <= Len(had) THEN had[i] ELSE b[i - Len(had)]
    BY <1>3, <1>4, <1>5, <1>7, <1>8
  <2>2. CASE i = total + 1
    <3>1. ~(i <= Len(had)) /\ i - Len(had) = Len(pending) + 1 /\ Len(pending) + 1 \in 1 .. Len(q)
      BY <1>3, <1>5, <1>8, <2>2
    <3> QED BY <1>3, <1>4, <2>1, <2>2, <3>1
  <2>3. CASE i # total + 1
    <3>1. i \in 1 .. total /\ i \in 1 .. Len(had) + Len(a)
      BY <1>1, <1>2, <1>8, <2>3
    <3>2. (had \o a)[i] = i
      BY <1>1, <3>1
    <3>3. i = IF i <= Len(had) THEN had[i] ELSE a[i - Len(had)]
      BY <1>6, <3>1, <3>2
    <3>4. CASE i <= Len(had)
      BY <2>1, <3>3, <3>4
    <3>5. CASE ~(i <= Len(had))
      <4>1. i - Len(had) \in 1 .. Len(pending) /\ i - Len(had) \in 1 .. Len(q)
        BY <1>3, <1>5, <1>8, <3>1, <3>5
      <4>2. b[i - Len(had)] = a[i - Len(had)]
        BY <1>2, <1>3, <1>4, <4>1
      <4> QED BY <2>1, <3>3, <3>5, <4>2
    <3> QED BY <3>4, <3>5
  <2> QED BY <2>2, <2>3
<1>11. had \o b = [i \in 1 .. total + 1 |-> i]
  <2>1. DOMAIN (had \o b) = 1 .. total + 1
    BY <1>7, <1>9
  <2> DEFINE w == had \o b
  <2>2. DOMAIN w = 1 .. total + 1 /\ w \in Seq(Nat) /\ \A i \in 1 .. total + 1 : w[i] = i
    BY <1>7, <1>10, <2>1
  <2> HIDE DEF w
  <2>3. w = [i \in DOMAIN w |-> w[i]]
    BY <2>2
  <2>4. w = [i \in 1 .. total + 1 |-> i]
    BY <2>2, <2>3
  <2> QED BY <2>4 DEF w
<1> QED BY <1>11 DEF had, b, q

\* A step ends: it is queued, and what is ready is read out.
LEMMA Ends == ASSUME PerfInv, StepEnd PROVE PerfInv'
<1> DEFINE h == pending \o cur
           had == series["step"]
<1>1. PICK e \in NextEvents :
        /\ TakeEvent(e)
        /\ LET q == Append(pending, WithEvent(cur[1], "end", e))
               oldest == position'[q[1].events["end"]]
               none == series["step"] = <<>> /\ Drained(q, passed, position') = 0
           IN  /\ passed' = IF (Full(q) \/ none) /\ passed < oldest THEN oldest ELSE passed
               /\ ReadOut(q, passed', position', FreeWithout(e))
  BY Zenon DEF StepEnd
<1>2. cur # <<>> /\ cur' = <<>> /\ total' = total + 1 /\ UNCHANGED trackIo
  BY DEF StepEnd
<1>3. /\ PerfType /\ h \in Seq(Records) /\ Single(h, free, created)
      /\ pending \in Seq(Records) /\ cur \in Seq(Records)
  BY ConcatProperties DEF PerfInv, PerfType
<1> DEFINE spare == FreeWithout(e)
<1>4. /\ Unused(e, h, spare, created') /\ spare \in [Event -> Nat] /\ Single(h, spare, created')
      /\ created' \in Nat /\ recorded' \in Nat /\ created' <= recorded'
      /\ position' \in [Event -> Nat]
  <2> HIDE DEF h
  <2> QED BY <1>1, <1>3, Taken
<1>5. e \in Event
  BY <1>4 DEF Unused
<1>6. PICK r : r = WithEvent(cur[1], "end", e)
  OBVIOUS
<1>7. /\ r \in Records /\ r.step = total + 1 /\ r.events["end"] = e
      /\ pending \o <<r>> \in Seq(Records)
      /\ Within(pending \o <<r>>, h, e, Len(pending) + 1, "end")
  <2>1. "end" \in Slot
    BY DEF Slot
  <2> QED BY <1>2, <1>3, <1>5, <1>6, <2>1, Marked
<1>8. PICK q : q = Append(pending, r)
  OBVIOUS
<1>9. /\ q \in Seq(Records) /\ Len(q) = Len(pending) + 1 /\ Len(pending) \in Nat
      /\ \A i \in 1 .. Len(pending) : q[i] = pending[i]
      /\ q[Len(pending) + 1] = r
  BY <1>3, <1>7, <1>8
<1>10. q = pending \o <<r>>
  BY <1>3, <1>7, <1>8, AppendIsConcat
<1>11. Single(q, spare, created')
  <2> HIDE DEF h, spare
  <2> QED BY <1>3, <1>4, <1>7, <1>10, Put
<1>12. \A i \in 1 .. Len(q) : q[i].events["end"] \in Event
  <2>1. \A i \in 1 .. Len(pending) : pending[i].events["end"] \in Event
    BY <1>3 DEF PerfType
  <2>2. \A i \in 1 .. Len(q) : i \in 1 .. Len(pending) \/ i = Len(pending) + 1
    BY <1>9
  <2> QED BY <1>5, <1>7, <1>9, <2>1, <2>2
<1> DEFINE oldest == position'[q[1].events["end"]]
           none == had = <<>> /\ Drained(q, passed, position') = 0
<1>13. /\ passed' = IF (Full(q) \/ none) /\ passed < oldest THEN oldest ELSE passed
       /\ ReadOut(q, passed', position', spare)
  BY <1>1, <1>6, <1>8, Zenon
<1>14. <<>> \in Seq(Records) /\ \A x \in Seq(Records) : x \o <<>> = x
  BY EmptySeq, ConcatEmptySeq
<1>15. /\ had \in Seq(Nat) /\ InEverySeries /\ trackIo \in BOOLEAN /\ Timely /\ passed \in Nat /\ total \in Nat
  BY <1>3 DEF PerfInv, PerfType
<1>16. /\ pending' \in Seq(Records) /\ \A i \in 1 .. Len(pending') : pending'[i].events["end"] \in Event
       /\ free' \in [Event -> Nat] /\ Single(pending' \o <<>>, free', created')
       /\ series'["step"] \in Seq(Nat) /\ series'["step"] \o Steps(pending') = had \o Steps(q)
       /\ InEverySeries'
       /\ ReadOutBy(Drained(q, passed', position'), q, passed', position')
  <2>1. Single(q \o <<>>, spare, created')
    BY <1>9, <1>11, <1>14
  <2>2. /\ had \in Seq(Nat) /\ InEverySeries /\ UNCHANGED trackIo /\ trackIo \in BOOLEAN
        /\ q \in Seq(Records) /\ <<>> \in Seq(Records)
        /\ spare \in [Event -> Nat] /\ created' \in Nat /\ ReadOut(q, passed', position', spare)
    BY <1>2, <1>4, <1>9, <1>13, <1>14, <1>15
  <2> HIDE DEF spare, h
  <2>3. PICK c : c = <<>>
    OBVIOUS
  <2>4. series["step"] \in Seq(Nat) /\ c \in Seq(Records) /\ Single(q \o c, spare, created')
    BY <2>1, <2>2, <2>3
  <2>5. /\ pending' \in Seq(Records) /\ \A i \in 1 .. Len(pending') : pending'[i].events["end"] \in Event
        /\ free' \in [Event -> Nat] /\ Single(pending' \o c, free', created')
        /\ series'["step"] \in Seq(Nat) /\ series'["step"] \o Steps(pending') = series["step"] \o Steps(q)
        /\ InEverySeries'
        /\ ReadOutBy(Drained(q, passed', position'), q, passed', position')
    BY <1>12, <2>2, <2>4, ReadOutIs
  <2> QED BY <2>3, <2>5
<1>17. PICK n \in 0 .. Len(q) :
            /\ n = Drained(q, passed', position') /\ (n < Len(q) => ~Ready(passed', q[n + 1], position'))
            /\ Len(pending') = Len(q) - n /\ Len(series'["step"]) = Len(had) + n
  BY <1>16 DEF ReadOutBy
<1>18. oldest \in Nat
  <2>1. q[1].events["end"] \in Event
    BY <1>9, <1>12
  <2> QED BY <1>4, <2>1
<1>19. passed' \in Nat
  <2> HIDE DEF oldest, none
  <2> QED BY <1>13, <1>15, <1>18
<1>20. n = 0 => ~Full(q) /\ ~none
  <2> SUFFICES ASSUME n = 0, Full(q) \/ none PROVE FALSE
    OBVIOUS
  <2>1. ~Ready(passed', q[1], position')
    BY <1>9, <1>17
  <2>2. ~(oldest <= passed')
    BY <2>1 DEF Ready
  <2> HIDE DEF oldest, none
  <2> QED BY <1>13, <1>15, <1>18, <2>2
<1>21. Len(had) \in Nat /\ Len(series'["step"]) \in Nat /\ (had # <<>> => Len(had) # 0)
  BY <1>15, <1>16, EmptySeq
<1>22. series'["step"] # <<>>
  <2>1. Len(series'["step"]) # 0
    <3>1. CASE n # 0
      BY <1>9, <1>17, <1>21, <3>1
    <3>2. CASE n = 0 /\ had # <<>>
      BY <1>17, <1>21, <3>2
    <3>3. CASE n = 0 /\ had = <<>>
      <4>1. ~Full(q) /\ ~none
        BY <1>20, <3>3
      <4>2. passed' = passed
        <5> HIDE DEF none, oldest
        <5> QED BY <1>13, <4>1
      <4>3. none
        BY <1>17, <3>3, <4>2
      <4> QED BY <4>1, <4>3
    <3> QED BY <3>1, <3>2, <3>3
  <2> QED BY <2>1, EmptySeq
<1>23. Len(pending') < MaxPending
  <2>1. MaxPending \in Nat /\ MaxPending > 0
    BY PerfTrackerAssumption
  <2>2. Len(pending) < MaxPending
    <3>1. CASE total > 0
      BY <1>15, <3>1 DEF Timely
    <3>2. CASE ~(total > 0)
      <4>1. had \o Steps(pending) = [i \in 1 .. 0 |-> i]
        <5>1. total = 0
          BY <1>15, <3>2
        <5> QED BY <1>15, <5>1 DEF Timely
      <4>2. Len(had \o Steps(pending)) = Len(had) + Len(pending)
        <5>1. Steps(pending) \in Seq(Nat) /\ Len(Steps(pending)) = Len(pending)
          BY <1>3, StepsAre
        <5> HIDE DEF had
        <5>2. Len(had \o Steps(pending)) = Len(had) + Len(Steps(pending))
          BY <1>15, <5>1, ConcatProperties, Zenon
        <5> QED BY <5>1, <5>2
      <4>3. Len(had \o Steps(pending)) = 0
        <5>1. [i \in 1 .. 0 |-> i] = <<>>
          OBVIOUS
        <5> QED BY <4>1, <5>1
      <4>4. Len(pending) = 0
        BY <1>9, <1>21, <4>2, <4>3
      <4> QED BY <2>1, <4>4
    <3> QED BY <3>1, <3>2
  <2>3. CASE Full(q)
    <3>1. n # 0
      BY <1>20, <2>3
    <3> QED BY <1>9, <1>17, <2>1, <2>2, <3>1
  <2>4. CASE ~Full(q)
    <3>1. Len(q) < MaxPending
      BY <1>9, <2>1, <2>4 DEF Full
    <3> QED BY <1>9, <1>17, <2>1, <3>1
  <2> QED BY <2>3, <2>4
<1>24. Timely'
  <2>1. series'["step"] \o Steps(pending') = [i \in 1 .. total + 1 |-> i]
    BY <1>7, <1>8, <1>16, OneMore
  <2>2. (Steps(pending))' = Steps(pending')
    BY DEF Steps
  <2> QED BY <1>2, <1>22, <1>23, <2>1, <2>2 DEF Timely
<1>25. Single(pending \o cur, free, created)'
  BY <1>2, <1>16
<1>26. PerfType'
  <2>1. cur' \in Seq(Records) /\ Len(cur') <= 1
    BY <1>2, <1>14, EmptySeq
  <2>2. total' \in Nat
    BY <1>2, <1>15
  <2> QED BY <1>2, <1>4, <1>15, <1>16, <1>19, <2>1, <2>2 DEF PerfType
<1> QED BY <1>16, <1>24, <1>25, <1>26 DEF PerfInv

\* All that waits is read out.
LEMMA Sums == ASSUME PerfInv, Summary PROVE PerfInv'
<1> DEFINE had == series["step"]
           last == position[pending[Len(pending)].events["end"]]
<1>1. /\ pending # <<>> /\ passed' = (IF passed < last THEN last ELSE passed)
      /\ ReadOut(pending, passed', position, free)
      /\ UNCHANGED <<trackIo, created, recorded, position, cur, block, total>>
  BY Zenon DEF Summary
<1>2. /\ PerfType /\ Single(pending \o cur, free, created) /\ InEverySeries /\ Timely
      /\ had \in Seq(Nat) /\ trackIo \in BOOLEAN /\ passed \in Nat /\ total \in Nat /\ created \in Nat
      /\ pending \in Seq(Records) /\ cur \in Seq(Records) /\ free \in [Event -> Nat] /\ position \in [Event -> Nat]
      /\ \A i \in 1 .. Len(pending) : pending[i].events["end"] \in Event
  BY DEF PerfInv, PerfType
<1>3. /\ pending' \in Seq(Records) /\ \A i \in 1 .. Len(pending') : pending'[i].events["end"] \in Event
      /\ free' \in [Event -> Nat] /\ Single(pending' \o cur, free', created)
      /\ series'["step"] \in Seq(Nat) /\ series'["step"] \o Steps(pending') = had \o Steps(pending)
      /\ InEverySeries'
      /\ ReadOutBy(Drained(pending, passed', position), pending, passed', position)
  BY <1>1, <1>2, ReadOutIs
<1>4. passed' \in Nat
  <2>1. Len(pending) \in 1 .. Len(pending)
    BY <1>1, <1>2, EmptySeq
  <2>2. last \in Nat
    BY <1>2, <2>1
  <2> HIDE DEF last
  <2> QED BY <1>1, <1>2, <2>2
<1>5. total > 0 => series'["step"] # <<>> /\ Len(pending') < MaxPending
  <2> SUFFICES ASSUME total > 0 PROVE series'["step"] # <<>> /\ Len(pending') < MaxPending
    OBVIOUS
  <2>1. had # <<>> /\ Len(pending) < MaxPending
    BY <1>2 DEF Timely
  <2>2. Len(had) \in Nat \ {0} /\ Len(pending) \in Nat /\ MaxPending \in Nat
    BY <1>2, <2>1, EmptySeq, PerfTrackerAssumption
  <2>3. PICK n \in 0 .. Len(pending) : Len(pending') = Len(pending) - n /\ Len(series'["step"]) = Len(had) + n
    BY <1>3 DEF ReadOutBy
  <2>4. Len(series'["step"]) # 0 /\ Len(pending') < MaxPending
    BY <2>1, <2>2, <2>3
  <2> QED BY <2>4, EmptySeq
<1>6. Timely'
  <2>1. (Steps(pending))' = Steps(pending')
    BY DEF Steps
  <2> QED BY <1>1, <1>2, <1>3, <1>5, <2>1 DEF Timely
<1>7. PerfType'
  BY <1>1, <1>2, <1>3, <1>4 DEF PerfType
<1> QED BY <1>1, <1>3, <1>6, <1>7 DEF PerfInv

\* Every step preserves the invariant.
LEMMA PerfStep == ASSUME PerfInv, [PerfNext]_perfVars PROVE PerfInv'
<1>1. CASE GpuPasses
  <2>1. passed' \in Nat
    BY <1>1 DEF GpuPasses, PerfInv, PerfType
  <2> QED BY <1>1, <2>1, Leaves DEF GpuPasses, PerfInv, PerfType
<1>2. CASE MarkBegin
  BY <1>2, Marks DEF MarkBegin, Slot
<1>3. CASE MarkEnd
  BY <1>3, Marks DEF MarkEnd, Slot
<1>4. CASE UNCHANGED perfVars
  BY <1>4, Leaves DEF perfVars, clock, PerfInv, PerfType
<1> QED BY <1>1, <1>2, <1>3, <1>4, Starts, Loses, Counts, Ends, Sums DEF PerfNext

\* It holds at the start.
LEMMA PerfStarts == ASSUME PerfInit PROVE PerfInv
<1>1. /\ created = 0 /\ recorded = 0 /\ passed = 0 /\ total = 0 /\ cur = <<>> /\ pending = <<>>
      /\ free = [e \in Event |-> 0] /\ position = [e \in Event |-> 0] /\ trackIo \in BOOLEAN
      /\ series["step"] = <<>> /\ series["fetch"] = <<>> /\ series["mark"] = <<>>
  BY DEF PerfInit, Series
<1>2. <<>> \in Seq(Records) /\ <<>> \in Seq(Nat) /\ Len(<<>>) = 0
  BY EmptySeq
<1>3. PerfType
  BY <1>1, <1>2 DEF PerfType
<1>4. pending \o cur = <<>>
  BY <1>1
<1>5. Single(pending \o cur, free, created)
  BY <1>1, <1>4 DEF Single
<1>6. Timely
  <2>1. Steps(pending) = <<>>
    BY <1>1 DEF Steps
  <2>2. [i \in 1 .. total |-> i] = <<>>
    BY <1>1
  <2> QED BY <1>1, <2>1, <2>2 DEF Timely
<1> QED BY <1>1, <1>3, <1>5, <1>6 DEF PerfInv, InEverySeries

\* An event that is in no two places is in at most one.
LEMMA Once ==
    ASSUME NEW h \in Seq(Records), Single(h, free, created), free \in [Event -> Nat], NEW e \in Event
    PROVE  Cardinality(Places(e, h)) + free[e] <= 1
<1>1. e # Unmarked
  BY PerfTrackerAssumption DEF Event, Unmarked
<1>2. CASE Places(e, h) = {}
  <2>1. free[e] \in {0, 1}
    BY DEF Single
  <2> QED BY <1>2, <2>1, FS_EmptySet
<1>3. CASE Places(e, h) # {}
  <2>1. PICK w \in Places(e, h) : TRUE
    BY <1>3
  <2>2. PICK i \in DOMAIN h, s \in Slot : w = <<i, s>> /\ h[i].events[s] = e
    BY <2>1 DEF Places
  <2>3. free[e] = 0
    BY <1>1, <2>2 DEF Single
  <2>4. ASSUME NEW v \in Places(e, h) PROVE v = w
    <3>1. PICK j \in DOMAIN h, t \in Slot : v = <<j, t>> /\ h[j].events[t] = e
      BY DEF Places
    <3> QED BY <1>1, <2>2, <3>1 DEF Single
  <2>5. Places(e, h) = {w}
    BY <2>1, <2>4
  <2>6. Cardinality(Places(e, h)) = 1
    BY <2>5, FS_Singleton, Zenon
  <2> QED BY <2>3, <2>6
<1> QED BY <1>2, <1>3

\* Every step that ended is read out once and in its order, late by less than
\* max_pending steps, and no event is in two places.
THEOREM EveryStepKept == PerfSpec => []StepsKept
<1>1. PerfInv => StepsKept
  <2> SUFFICES ASSUME PerfInv PROVE StepsKept
    OBVIOUS
  <2>1. pending \o cur \in Seq(Records) /\ Single(pending \o cur, free, created) /\ free \in [Event -> Nat]
    BY ConcatProperties DEF PerfInv, PerfType
  <2>2. \A e \in Event : Cardinality(Places(e, pending \o cur)) + free[e] <= 1
    BY <2>1, Once
  <2> QED BY <2>2 DEF StepsKept, PerfInv, Timely, InEverySeries
<1>2. PerfInit => PerfInv
  BY PerfStarts
<1>3. PerfInv /\ [PerfNext]_perfVars => PerfInv'
  BY PerfStep
<1> QED BY <1>1, <1>2, <1>3, PTL DEF PerfSpec

=============================================================================
