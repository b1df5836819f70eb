--------------------------- MODULE UploadPoolProofs ---------------------------
(***************************************************************************)
(* Proofs about UploadPool, for any threads, paths, uploads and attempts.  *)
(***************************************************************************)
EXTENDS UploadPool, FiniteSetTheorems, SequenceTheorems, TLAPS

Writing == {t \in Thread : arg[t] # NoPath}

\* Jobs are numbered in the order of their submission, and there is room for
\* those whose file is written already.
Numbered ==
    /\ \A j \in Job : fut[j] = "none" <=> j > made
    /\ \A j \in Job : fut[j] # "none" => path[j] \in Path
    /\ made + Cardinality(Writing) <= MaxJobs

\* What a thread holds belongs to the place where it is.
Holding ==
    \A t \in Thread :
        /\ IF Inside(t) \/ pc[t] = "written" THEN arg[t] \in Path ELSE arg[t] = NoPath
        /\ IF pc[t] = "submitted" THEN mine[t] \in Job ELSE mine[t] = 0
        /\ pc[t] = "waiting" <=> hands[t] # <<>>
        /\ phase # "up" => pc[t] = "idle"

\* One worker, which takes from the queue what is queued.
OneWorker ==
    /\ \A i, j \in Busy : i = j
    /\ \A i \in 1 .. Len(queue) : fut[queue[i]] = "queued"
    /\ \A i, k \in 1 .. Len(queue) : queue[i] = queue[k] => i = k
    /\ \A j \in Job : fut[j] = "queued" => j \in Elems(queue)
    /\ phase = "exited" => \A j \in Job : fut[j] \notin Unsettled

\* A file is the last version or gone, and what is on its way to S3 is no older
\* than what is there.
Forward ==
    /\ \A p \in Path : local[p] \in {Absent, written[p]} /\ remote[p] <= written[p]
    /\ \A j \in Job : fut[j] = "reading" =>
        remote[path[j]] <= seen[j] /\ seen[j] <= written[path[j]]
    /\ \A j \in mid : fut[j] = "reading"

\* Of a path that is left alone one upload at most is unsettled, or one thread is
\* writing it, and not both.
Alone ==
    /\ \A i, j \in Job : fut[i] \in Unsettled /\ fut[j] \in Unsettled /\ path[i] = path[j] =>
        path[i] \in rewritten \/ i = j
    /\ \A t, u \in Thread : arg[t] # NoPath /\ arg[t] = arg[u] => arg[t] \in rewritten \/ t = u
    /\ \A t \in Thread, j \in Job : arg[t] # NoPath /\ arg[t] = path[j] /\ fut[j] \in Unsettled =>
        path[j] \in rewritten

\* Its last version is there and whole until it is on S3, and it is what a
\* transfer of it has read.
LeftAlone ==
    /\ \A p \in Path \ rewritten : Safe(p)
    /\ \A j \in Job : fut[j] \in Unsettled /\ path[j] \notin rewritten =>
        /\ path[j] \notin half
        /\ fut[j] # "landed" => local[path[j]] = written[path[j]]
        /\ fut[j] = "reading" => seen[j] = written[path[j]] /\ j \notin mid
        /\ fut[j] = "landed" => Whole(path[j])
    /\ \A t \in Thread : arg[t] # NoPath /\ arg[t] \notin rewritten =>
        /\ local[arg[t]] = written[arg[t]] /\ written[arg[t]] # 0
        /\ (pc[t] = "writing" /\ arg[t] \in half) \/ (pc[t] = "written" /\ arg[t] \notin half)

\* As long as nothing has failed, what S3 does not have is still to be uploaded.
ToCome ==
    phase # "killed" /\ (\A j \in Job : fut[j] # "failed") =>
        \A p \in Path \ (rewritten \cup half) : Whole(p) \/ Outstanding(p)

\* What a wait was asked for has succeeded, or it is still awaited.
Awaited ==
    ~raised /\ ~overlapped =>
        /\ \A t \in Thread : pc[t] = "waiting" =>
            \A j \in asked[t] : fut[j] = "ok" \/ j \in Elems(hands[t])
        /\ \A j \in promised : fut[j] = "ok"

Inv ==
    /\ TypeOK /\ Numbered /\ Holding /\ OneWorker
    /\ Forward /\ Alone /\ LeftAlone /\ ToCome
    /\ Accounted /\ Awaited

-----------------------------------------------------------------------------

\* The numbers of threads that write a file or are about to submit it.
LEMMA WritingCounts ==
    ASSUME TypeOK, NEW t \in Thread
    PROVE  /\ Cardinality(Writing) \in Nat
           /\ arg[t] # NoPath => Cardinality(Writing) >= 1
           /\ \A p \in Path : arg' = [arg EXCEPT ![t] = p] /\ arg[t] = NoPath =>
                Cardinality(Writing') = Cardinality(Writing) + 1
           /\ arg' = [arg EXCEPT ![t] = NoPath] /\ arg[t] # NoPath =>
                Cardinality(Writing') = Cardinality(Writing) - 1
<1>1. IsFiniteSet(Writing)
  BY UploadPoolAssumption, FS_Subset DEF Writing
<1>2. ASSUME NEW p \in Path, arg' = [arg EXCEPT ![t] = p], arg[t] = NoPath
      PROVE  Cardinality(Writing') = Cardinality(Writing) + 1
  <2>1. Writing' = Writing \cup {t} /\ t \notin Writing
    BY <1>2, UploadPoolAssumption DEF Writing, TypeOK
  <2> QED
    BY <1>1, <2>1, FS_AddElement
<1>3. ASSUME arg' = [arg EXCEPT ![t] = NoPath], arg[t] # NoPath
      PROVE  Cardinality(Writing') = Cardinality(Writing) - 1
  <2>1. Writing' = Writing \ {t} /\ t \in Writing
    BY <1>3 DEF Writing, TypeOK
  <2> QED
    BY <1>1, <2>1, FS_RemoveElement
<1>4. Cardinality(Writing) \in Nat
  BY <1>1, FS_CardinalityType
<1>5. ASSUME arg[t] # NoPath PROVE Cardinality(Writing) >= 1
  <2>1. Writing # {}
    BY <1>5 DEF Writing
  <2>2. Cardinality(Writing) # 0
    BY <1>1, <2>1, FS_EmptySet
  <2> QED
    BY <1>4, <2>2
<1> QED
  BY <1>2, <1>3, <1>4, <1>5

\* The first of a sequence and the others.
LEMMA TailElems ==
    ASSUME NEW S, NEW s \in Seq(S), s # <<>>
    PROVE  /\ Head(s) = s[1] /\ Head(s) \in S /\ Tail(s) \in Seq(S)
           /\ Elems(s) = {Head(s)} \cup Elems(Tail(s))
           /\ Len(s) = 1 <=> Tail(s) = <<>>
<1>1. /\ Tail(s) \in Seq(S) /\ Len(Tail(s)) = Len(s) - 1 /\ Len(s) \in Nat \ {0}
      /\ \A i \in 1 .. Len(Tail(s)) : Tail(s)[i] = s[i + 1]
      /\ Head(s) = s[1] /\ Head(s) \in S
  BY HeadTailProperties
<1>2. \A i \in 1 .. Len(s) : i = 1 \/ (i - 1 \in 1 .. Len(Tail(s)) /\ s[i] = Tail(s)[i - 1])
  <2> SUFFICES ASSUME NEW i \in 1 .. Len(s), i # 1
               PROVE  i - 1 \in 1 .. Len(Tail(s)) /\ s[i] = Tail(s)[i - 1]
    OBVIOUS
  <2>1. i - 1 \in 1 .. Len(Tail(s)) /\ (i - 1) + 1 = i
    BY <1>1
  <2> QED
    BY <1>1, <2>1
<1>3. Elems(s) = {Head(s)} \cup Elems(Tail(s))
  <2>1. Elems(s) \subseteq {Head(s)} \cup Elems(Tail(s))
    BY <1>1, <1>2 DEF Elems
  <2>2. {Head(s)} \cup Elems(Tail(s)) \subseteq Elems(s)
    <3>1. Head(s) \in Elems(s)
      BY <1>1 DEF Elems
    <3>2. \A i \in 1 .. Len(Tail(s)) : i + 1 \in 1 .. Len(s)
      BY <1>1
    <3> QED
      BY <1>1, <3>1, <3>2 DEF Elems
  <2> QED
    BY <2>1, <2>2
<1>4. Len(s) = 1 <=> Tail(s) = <<>>
  <2>1. Len(Tail(s)) = 0 <=> Tail(s) = <<>>
    BY <1>1, EmptySeq
  <2> QED
    BY <1>1, <2>1
<1> QED
  BY <1>1, <1>3, <1>4

\* A sequence with one more element at its end.
LEMMA AppendElems ==
    ASSUME NEW S, NEW s \in Seq(S), NEW x \in S
    PROVE  Elems(Append(s, x)) = Elems(s) \cup {x}
<1>1. /\ Append(s, x) \in Seq(S) /\ Len(Append(s, x)) = Len(s) + 1 /\ Len(s) \in Nat
      /\ \A i \in 1 .. Len(s) : Append(s, x)[i] = s[i]
      /\ Append(s, x)[Len(s) + 1] = x
  BY AppendProperties, LenProperties
<1>2. \A i \in 1 .. Len(s) + 1 : i \in 1 .. Len(s) \/ i = Len(s) + 1
  BY <1>1
<1>3. \A i \in 1 .. Len(s) : i \in 1 .. Len(s) + 1
  BY <1>1
<1>4. Len(s) + 1 \in 1 .. Len(s) + 1
  BY <1>1
<1> QED
  BY <1>1, <1>2, <1>3, <1>4 DEF Elems

\* Every action keeps the invariant: one step per action, and one under it per part.
LEMMA NextInv == Inv /\ [Next]_vars => Inv'
<1> SUFFICES ASSUME Inv, [Next]_vars PROVE Inv'
  OBVIOUS
<1> USE UploadPoolAssumption DEF Inv, disk, jobs, callers, history, Whole, Inside
<1>1. ASSUME NEW t \in Thread, NEW p \in Path, WriteBegin(t, p) PROVE Inv'
  <2>0. /\ pc[t] = "idle" /\ arg[t] = NoPath /\ mine[t] = 0 /\ hands[t] = <<>> /\ phase = "up"
        /\ pc'[t] \in {"writing", "mixing"} /\ arg'[t] = p
        /\ \A u \in Thread : u # t => arg'[u] = arg[u]
        /\ \A u \in Thread : u # t => pc'[u] = pc[u] \/ (Inside(u) /\ arg[u] = p /\ pc'[u] = "mixing")
        /\ p # NoPath
    BY <1>1 DEF WriteBegin, Idle, Holding, Inside, TypeOK
  <2>1. TypeOK'
    <3>1. written[p] + 1 \in Nat
      BY DEF TypeOK
    <3>2. local' \in [Path -> Nat] /\ written' \in [Path -> Nat]
      BY <1>1, <3>1 DEF WriteBegin, TypeOK
    <3>3. pc' \in [Thread -> {"idle", "writing", "mixing", "written", "submitted", "waiting"}]
      BY <1>1 DEF WriteBegin, TypeOK
    <3>4. /\ arg' \in [Thread -> Path \cup {NoPath}] /\ rewritten' \in SUBSET Path
          /\ half' \in SUBSET Path /\ mid' \in SUBSET Job
      BY <1>1 DEF WriteBegin, TypeOK
    <3> QED
      BY <1>1, <3>2, <3>3, <3>4 DEF WriteBegin, TypeOK
  <2>2. Numbered'
    <3>1. Cardinality(Writing') = Cardinality(Writing) + 1 /\ Cardinality(Writing) \in Nat
      BY <1>1, <2>0, WritingCounts DEF WriteBegin
    <3>2. made + Cardinality(Writing) < MaxJobs
      BY <1>1 DEF WriteBegin, Writing
    <3> QED
      BY <1>1, <3>1, <3>2 DEF WriteBegin, Numbered, TypeOK
  <2>3. Holding'
    <3> SUFFICES ASSUME NEW u \in Thread PROVE
            /\ IF Inside(u)' \/ pc'[u] = "written" THEN arg'[u] \in Path ELSE arg'[u] = NoPath
            /\ IF pc'[u] = "submitted" THEN mine'[u] \in Job ELSE mine'[u] = 0
            /\ pc'[u] = "waiting" <=> hands'[u] # <<>>
            /\ phase' # "up" => pc'[u] = "idle"
      BY DEF Holding, Inside
    <3>1. mine' = mine /\ hands' = hands /\ phase' = phase
      BY <1>1 DEF WriteBegin
    <3>2. CASE u = t
      BY <2>0, <3>1, <3>2 DEF Inside
    <3>3. CASE u # t
      BY <2>0, <3>1, <3>3 DEF Holding, Inside
    <3> QED
      BY <3>2, <3>3
  <2>4. OneWorker'
    BY <1>1 DEF WriteBegin, Idle, OneWorker, Busy
  <2>5. Forward'
    BY <1>1 DEF WriteBegin, Idle, TypeOK, Forward
  <2>10. Alone'
    BY <1>1, <2>0 DEF WriteBegin, Alone, Outstanding
  <2>6. LeftAlone'
    <3>1. ASSUME NEW q \in Path \ rewritten' PROVE Safe(q)'
      BY <1>1, <3>1 DEF WriteBegin, TypeOK, LeftAlone, Safe, Whole
    <3>2. ASSUME NEW j \in Job, fut[j] \in Unsettled, path[j] \notin rewritten'
          PROVE  path[j] # p /\ path[j] \in Path /\ path[j] \notin rewritten
      BY <1>1, <3>2 DEF WriteBegin, Outstanding, Numbered, Unsettled, Working
    <3>3. ASSUME NEW j \in Job, fut[j] \in Unsettled, path[j] \notin rewritten'
          PROVE  /\ path[j] \notin half'
                 /\ fut[j] # "landed" => local'[path[j]] = written'[path[j]]
                 /\ fut[j] = "reading" => seen[j] = written'[path[j]] /\ j \notin mid'
                 /\ fut[j] = "landed" => Whole(path[j])'
      BY <1>1, <3>2, <3>3 DEF WriteBegin, TypeOK, LeftAlone, Whole
    <3>4. ASSUME NEW u \in Thread, arg'[u] # NoPath, arg'[u] \notin rewritten'
          PROVE  /\ local'[arg'[u]] = written'[arg'[u]] /\ written'[arg'[u]] # 0
                 /\ (pc'[u] = "writing" /\ arg'[u] \in half') \/ (pc'[u] = "written" /\ arg'[u] \notin half')
      <4>1. CASE u = t
        <5>1. arg'[u] = p /\ p \notin rewritten' /\ ~Outstanding(p)
          BY <1>1, <2>0, <3>4, <4>1 DEF WriteBegin
        <5>2. pc'[t] = "writing"
          BY <1>1, <2>0, <5>1 DEF WriteBegin, Outstanding
        <5>3. local'[p] = written[p] + 1 /\ written'[p] = written[p] + 1 /\ p \in half' /\ written[p] \in Nat
          BY <1>1 DEF WriteBegin, TypeOK
        <5> QED
          BY <4>1, <5>1, <5>2, <5>3
      <4>2. CASE u # t
        <5>1. arg'[u] = arg[u] /\ arg[u] \in Path /\ arg[u] \notin rewritten /\ arg[u] # p
          BY <1>1, <2>0, <3>4, <4>2 DEF WriteBegin, Outstanding, TypeOK
        <5>2. pc'[u] = pc[u]
          BY <2>0, <4>2, <5>1
        <5>3. local'[arg[u]] = local[arg[u]] /\ written'[arg[u]] = written[arg[u]] /\ (arg[u] \in half' <=> arg[u] \in half)
          BY <1>1, <5>1 DEF WriteBegin, TypeOK
        <5> QED
          BY <3>4, <5>1, <5>2, <5>3 DEF LeftAlone
      <4> QED
        BY <4>1, <4>2
    <3>5. fut' = fut /\ path' = path /\ seen' = seen
      BY <1>1 DEF WriteBegin
    <3> QED
      BY <3>1, <3>3, <3>4, <3>5 DEF LeftAlone
  <2>7. ToCome'
    <3> SUFFICES ASSUME phase' # "killed", \A j \in Job : fut'[j] # "failed",
                        NEW q \in Path \ (rewritten' \cup half')
                 PROVE  Whole(q)' \/ Outstanding(q)'
      BY DEF ToCome
    <3>1. q # p /\ q \in Path \ (rewritten \cup half)
      BY <1>1 DEF WriteBegin
    <3>2. Whole(q) \/ Outstanding(q)
      BY <1>1, <3>1 DEF WriteBegin, Idle, ToCome
    <3>3. Outstanding(q) => Outstanding(q)'
      BY <1>1, <2>0 DEF WriteBegin, Outstanding
    <3>4. Whole(q) => Whole(q)'
      BY <1>1, <3>1 DEF WriteBegin, Whole
    <3> QED
      BY <3>2, <3>3, <3>4
  <2>8. Accounted'
    BY <1>1 DEF WriteBegin, Idle, Accounted, InReach
  <2>9. Awaited'
    <3>1. \A u \in Thread : pc'[u] = "waiting" => pc[u] = "waiting"
      BY <1>1, <2>0
    <3> QED
      BY <1>1, <3>1 DEF WriteBegin, Awaited
  <2> QED
    BY <2>1, <2>2, <2>3, <2>4, <2>5, <2>6, <2>7, <2>8, <2>9, <2>10
<1>18. ASSUME NEW t \in Thread, WriteEnd(t) PROVE Inv'
  <2>0. /\ arg[t] \in Path /\ pc[t] \in {"writing", "mixing"} /\ pc'[t] = "written" /\ arg' = arg
        /\ \A u \in Thread : u # t => pc'[u] = pc[u]
    BY <1>18 DEF WriteEnd, Holding, Inside, TypeOK
  <2>1. TypeOK'
    BY <1>18 DEF WriteEnd, TypeOK
  <2>2. Numbered'
    BY <1>18 DEF WriteEnd, Numbered, Writing
  <2>3. Holding'
    BY <1>18 DEF WriteEnd, Inside, TypeOK, Holding
  <2>4. OneWorker'
    BY <1>18 DEF WriteEnd, OneWorker, Busy
  <2>5. Forward'
    BY <1>18 DEF WriteEnd, Forward
  <2>10. Alone'
    BY <1>18 DEF WriteEnd, Alone
  <2>6. LeftAlone'
    <3>1. arg[t] \notin rewritten => pc[t] = "writing" /\ local[arg[t]] = written[arg[t]]
      BY <2>0, UploadPoolAssumption DEF LeftAlone
    <3>2. ASSUME NEW q \in Path \ rewritten PROVE Safe(q)'
      BY <1>18, <2>0, <3>1 DEF WriteEnd, LeftAlone, Safe, Whole
    <3>3. ASSUME NEW u \in Thread, arg[u] # NoPath, arg[u] \notin rewritten
          PROVE  (pc'[u] = "writing" /\ arg[u] \in half') \/ (pc'[u] = "written" /\ arg[u] \notin half')
      <4>1. CASE u = t
        BY <1>18, <2>0, <3>1, <3>3, <4>1 DEF WriteEnd
      <4>2. CASE u # t
        <5>1. arg[u] # arg[t] /\ pc'[u] = pc[u]
          BY <2>0, <3>3, <4>2 DEF Alone
        <5>2. arg[u] \in half' <=> arg[u] \in half
          BY <1>18, <5>1 DEF WriteEnd
        <5> QED
          BY <3>3, <5>1, <5>2 DEF LeftAlone
      <4> QED
        BY <4>1, <4>2
    <3>4. /\ UNCHANGED <<local, remote, written, cut, fut, path, seen, mid, arg, rewritten>>
          /\ half' \subseteq half
      BY <1>18 DEF WriteEnd
    <3> QED
      BY <3>2, <3>3, <3>4 DEF LeftAlone, Whole
  <2>7. ToCome'
    <3> SUFFICES ASSUME phase' # "killed", \A j \in Job : fut'[j] # "failed",
                        NEW q \in Path \ (rewritten' \cup half')
                 PROVE  Whole(q)' \/ Outstanding(q)'
      BY DEF ToCome
    <3>1. CASE q = arg[t]
      BY <2>0, <3>1 DEF Outstanding
    <3>2. CASE q # arg[t]
      BY <1>18, <3>2 DEF WriteEnd, ToCome, Whole, Outstanding
    <3> QED
      BY <3>1, <3>2
  <2>8. Accounted'
    BY <1>18 DEF WriteEnd, Accounted, InReach
  <2>9. Awaited'
    BY <1>18 DEF WriteEnd, Awaited, TypeOK
  <2> QED
    BY <2>1, <2>2, <2>3, <2>4, <2>5, <2>6, <2>7, <2>8, <2>9, <2>10
<1>19. ASSUME NEW t \in Thread, WriteRaises(t) PROVE Inv'
  <2>0. arg[t] \in Path /\ arg[t] # NoPath /\ pc[t] \in {"writing", "mixing"}
    BY <1>19 DEF WriteRaises, Holding, Inside
  <2>1. TypeOK'
    BY <1>19 DEF WriteRaises, TypeOK
  <2>2. Numbered'
    <3>1. /\ Cardinality(Writing) \in Nat
          /\ Cardinality(Writing') = Cardinality(Writing) - 1
      BY <1>19, <2>0, WritingCounts DEF WriteRaises
    <3> QED
      BY <1>19, <3>1 DEF WriteRaises, Numbered, TypeOK
  <2>3. Holding'
    BY <1>19 DEF WriteRaises, Inside, TypeOK, Holding
  <2>4. OneWorker'
    BY <1>19 DEF WriteRaises, OneWorker, Busy
  <2>5. Forward'
    BY <1>19 DEF WriteRaises, Forward
  <2>10. Alone'
    BY <1>19 DEF WriteRaises, TypeOK, Alone
  <2>6. LeftAlone'
    <3>1. \A u \in Thread : arg'[u] # NoPath => u # t /\ arg'[u] = arg[u] /\ pc'[u] = pc[u]
      BY <1>19 DEF WriteRaises, TypeOK
    <3> QED
      BY <1>19, <3>1 DEF WriteRaises, LeftAlone, Safe, Whole
  <2>7. ToCome'
    <3> SUFFICES ASSUME phase' # "killed", \A j \in Job : fut'[j] # "failed",
                        NEW q \in Path \ (rewritten' \cup half')
                 PROVE  Whole(q)' \/ Outstanding(q)'
      BY DEF ToCome
    <3>1. Whole(q) \/ Outstanding(q)
      BY <1>19 DEF WriteRaises, ToCome
    <3>2. q # arg[t]
      BY <1>19, <2>0 DEF WriteRaises, LeftAlone
    <3>3. Outstanding(q) => Outstanding(q)'
      BY <1>19, <3>2 DEF WriteRaises, TypeOK, Outstanding
    <3> QED
      BY <1>19, <3>1, <3>3 DEF WriteRaises, Whole
  <2>8. Accounted'
    BY <1>19 DEF WriteRaises, Accounted, InReach
  <2>9. Awaited'
    BY <1>19 DEF WriteRaises, TypeOK, Awaited
  <2> QED
    BY <2>1, <2>2, <2>3, <2>4, <2>5, <2>6, <2>7, <2>8, <2>9, <2>10
<1>2. ASSUME NEW t \in Thread, Submit(t) PROVE Inv'
  <2>0. /\ made + 1 \in Job /\ arg[t] \in Path /\ fut[made + 1] = "none"
        /\ Cardinality(Writing') = Cardinality(Writing) - 1 /\ Cardinality(Writing) \in Nat
    <3>1. /\ Cardinality(Writing) \in Nat /\ Cardinality(Writing) >= 1
          /\ Cardinality(Writing') = Cardinality(Writing) - 1
      <4>1. arg' = [arg EXCEPT ![t] = NoPath] /\ arg[t] # NoPath
        BY <1>2 DEF Submit, Holding
      <4> QED
        BY <4>1, WritingCounts
    <3>2. made + 1 \in Job
      BY <3>1 DEF Numbered, TypeOK, Job
    <3> QED
      BY <1>2, <3>1, <3>2 DEF Submit, Numbered, Holding, TypeOK
  <2>1. TypeOK'
    <3>1. keep' \in [Job -> BOOLEAN]
      BY <1>2 DEF Submit, TypeOK
    <3>2. made' \in 0 .. MaxJobs /\ path' \in [Job -> Path \cup {NoPath}]
      BY <1>2, <2>0 DEF Submit, TypeOK, Job
    <3>3. fut' \in [Job -> Status]
      BY <1>2 DEF Submit, TypeOK, Status, Unsettled
    <3>4. queue' \in Seq(Job)
      BY <1>2, <2>0, AppendProperties DEF Submit, TypeOK
    <3>5. mine' \in [Thread -> 0 .. MaxJobs]
      BY <1>2, <2>0 DEF Submit, TypeOK, Job
    <3>6. /\ pc' \in [Thread -> {"idle", "writing", "mixing", "written", "submitted", "waiting"}]
          /\ arg' \in [Thread -> Path \cup {NoPath}]
      BY <1>2 DEF Submit, TypeOK
    <3> QED
      BY <1>2, <3>1, <3>2, <3>3, <3>4, <3>5, <3>6 DEF Submit, TypeOK
  <2>2. Numbered'
    <3>1. /\ fut'[made + 1] = "queued" /\ path'[made + 1] = arg[t]
          /\ \A j \in Job : j # made + 1 => fut'[j] = fut[j] /\ path'[j] = path[j]
      BY <1>2, <2>0 DEF Submit, TypeOK
    <3>2. made' = made + 1 /\ made \in Nat
      BY <1>2 DEF Submit, TypeOK
    <3>3. \A j \in Job : fut'[j] = "none" <=> j > made'
      BY <2>0, <3>1, <3>2 DEF Numbered, Job
    <3>4. \A j \in Job : fut'[j] # "none" => path'[j] \in Path
      BY <2>0, <3>1 DEF Numbered
    <3>5. made' + Cardinality(Writing') <= MaxJobs
      BY <2>0, <3>2 DEF Numbered
    <3> QED
      BY <3>3, <3>4, <3>5 DEF Numbered
  <2>3. Holding'
    BY <1>2, <2>0 DEF Submit, TypeOK, Holding
  <2>4. OneWorker'
    <3>1. Elems(queue') = Elems(queue) \cup {made + 1}
      BY <1>2, <2>0, AppendElems DEF Submit, TypeOK
    <3>2. /\ Len(queue) \in Nat /\ Len(queue') = Len(queue) + 1
          /\ \A i \in 1 .. Len(queue) : queue'[i] = queue[i] /\ queue[i] \in Job
          /\ queue'[Len(queue) + 1] = made + 1
      BY <1>2, <2>0, AppendProperties, LenProperties, ElementOfSeq DEF Submit, TypeOK
    <3>3. /\ fut'[made + 1] = "queued"
          /\ \A j \in Job : j # made + 1 => fut'[j] = fut[j]
      BY <1>2, <2>0 DEF Submit, TypeOK
    <3>4. \A i \in 1 .. Len(queue) : queue[i] # made + 1
      BY <2>0, <3>2 DEF OneWorker
    <3>5. \A i \in 1 .. Len(queue') : i \in 1 .. Len(queue) \/ i = Len(queue) + 1
      BY <3>2
    <3>6. \A i \in 1 .. Len(queue') : fut'[queue'[i]] = "queued"
      BY <3>2, <3>3, <3>4, <3>5 DEF OneWorker
    <3>7. \A i, k \in 1 .. Len(queue') : queue'[i] = queue'[k] => i = k
      BY <3>2, <3>4, <3>5 DEF OneWorker
    <3>8. \A j \in Job : fut'[j] = "queued" => j \in Elems(queue')
      BY <3>1, <3>3 DEF OneWorker
    <3>9. Busy' = Busy
      BY <2>0, <3>3 DEF Busy, Working
    <3> QED
      BY <1>2, <3>6, <3>7, <3>8, <3>9 DEF Submit, OneWorker
  <2>5. Forward'
    <3>1. \A j \in Job : j # made + 1 => fut'[j] = fut[j] /\ path'[j] = path[j]
      BY <1>2, <2>0 DEF Submit, TypeOK
    <3>2. fut'[made + 1] = "queued" /\ made + 1 \notin mid
      BY <1>2, <2>0 DEF Submit, TypeOK, Forward
    <3> QED
      BY <1>2, <3>1, <3>2 DEF Submit, Forward
  <2>10. Alone'
    <3>1. /\ fut'[made + 1] = "queued" /\ path'[made + 1] = arg[t]
          /\ \A j \in Job : j # made + 1 => fut'[j] = fut[j] /\ path'[j] = path[j]
          /\ arg'[t] = NoPath /\ \A u \in Thread : u # t => arg'[u] = arg[u]
          /\ rewritten' = rewritten /\ arg[t] # NoPath
      BY <1>2, <2>0 DEF Submit, TypeOK
    <3>2. \A i, j \in Job : fut'[i] \in Unsettled /\ fut'[j] \in Unsettled /\ path'[i] = path'[j] =>
            path'[i] \in rewritten \/ i = j
      BY <3>1 DEF Alone
    <3>3. \A u \in Thread, j \in Job : arg'[u] # NoPath /\ arg'[u] = path'[j] /\ fut'[j] \in Unsettled =>
            path'[j] \in rewritten
      <4> SUFFICES ASSUME NEW u \in Thread, NEW j \in Job, arg'[u] # NoPath, arg'[u] = path'[j],
                          fut'[j] \in Unsettled
                   PROVE  path'[j] \in rewritten
        OBVIOUS
      <4>1. u # t /\ arg'[u] = arg[u]
        BY <3>1
      <4> QED
        BY <3>1, <4>1 DEF Alone
    <3> QED
      BY <3>1, <3>2, <3>3 DEF Alone
  <2>6. LeftAlone'
    <3>1. /\ fut'[made + 1] = "queued" /\ path'[made + 1] = arg[t] /\ arg[t] # NoPath
          /\ \A j \in Job : j # made + 1 => fut'[j] = fut[j] /\ path'[j] = path[j]
          /\ \A u \in Thread : arg'[u] # NoPath => arg'[u] = arg[u] /\ pc'[u] = pc[u]
          /\ pc[t] = "written"
      BY <1>2, <2>0 DEF Submit, TypeOK
    <3>2. arg[t] \notin rewritten => arg[t] \notin half /\ local[arg[t]] = written[arg[t]]
      BY <3>1 DEF LeftAlone
    <3>3. UNCHANGED <<local, remote, written, half, cut, seen, mid, rewritten>>
      BY <1>2 DEF Submit
    <3> QED
      BY <3>1, <3>2, <3>3 DEF LeftAlone, Safe
  <2>7. ToCome'
    <3> SUFFICES ASSUME phase' # "killed", \A j \in Job : fut'[j] # "failed",
                        NEW q \in Path \ (rewritten' \cup half')
                 PROVE  Whole(q)' \/ Outstanding(q)'
      BY DEF ToCome
    <3>1. Whole(q) \/ Outstanding(q)
      BY <1>2, <2>0 DEF Submit, ToCome
    <3>2. ASSUME NEW j \in Job, path[j] = q, fut[j] \in Unsettled PROVE Outstanding(q)'
      BY <1>2, <2>0, <3>2 DEF Submit, Outstanding, Unsettled, Working
    <3>3. ASSUME NEW u \in Thread, arg[u] = q, u # t PROVE Outstanding(q)'
      BY <1>2, <3>3 DEF Submit, Outstanding
    <3>4. ASSUME arg[t] = q PROVE Outstanding(q)'
      BY <1>2, <2>0, <3>4 DEF Submit, TypeOK, Outstanding, Unsettled
    <3> QED
      BY <1>2, <3>1, <3>2, <3>3, <3>4 DEF Submit, Outstanding
  <2>8. Accounted'
    <3> SUFFICES ASSUME ~raised', NEW j \in Job, j <= made', fut'[j] # "ok" PROVE InReach(j)'
      BY DEF Accounted
    <3>1. CASE j = made + 1
      BY <1>2, <3>1 DEF Submit, TypeOK, InReach
    <3>2. CASE j # made + 1
      <4>1. j <= made /\ fut[j] # "ok"
        BY <1>2, <2>0, <3>2 DEF Submit, TypeOK, Job
      <4>2. InReach(j)
        BY <1>2, <4>1 DEF Submit, Accounted
      <4>3. mine[t] = 0 /\ j # 0
        BY <1>2 DEF Submit, Holding, Job
      <4> QED
        BY <1>2, <4>2, <4>3 DEF Submit, InReach
    <3> QED
      BY <3>1, <3>2
  <2>9. Awaited'
    <3>1. \A j \in Job : fut[j] = "ok" => fut'[j] = "ok"
      BY <1>2, <2>0 DEF Submit
    <3> QED
      BY <1>2, <3>1 DEF Submit, TypeOK, Awaited
  <2> QED
    BY <2>1, <2>2, <2>3, <2>4, <2>5, <2>6, <2>7, <2>8, <2>9, <2>10
<1>3. ASSUME NEW t \in Thread, SkipMissing(t) PROVE Inv'
  <2>1. TypeOK'
    BY <1>3 DEF SkipMissing, TypeOK
  <2>2. Numbered'
    <3>1. /\ Cardinality(Writing) \in Nat
          /\ Cardinality(Writing') = Cardinality(Writing) - 1
      <4>1. arg' = [arg EXCEPT ![t] = NoPath] /\ arg[t] # NoPath
        BY <1>3 DEF SkipMissing, Holding
      <4> QED
        BY <4>1, WritingCounts
    <3> QED
      BY <1>3, <3>1 DEF SkipMissing, Numbered, TypeOK
  <2>3. Holding'
    BY <1>3 DEF SkipMissing, TypeOK, Holding
  <2>4. OneWorker'
    BY <1>3 DEF SkipMissing, OneWorker, Busy
  <2>5. Forward'
    BY <1>3 DEF SkipMissing, Forward
  <2>10. Alone'
    <3>1. \A u \in Thread : arg'[u] # NoPath => arg'[u] = arg[u]
      BY <1>3 DEF SkipMissing, TypeOK
    <3> QED
      BY <1>3, <3>1 DEF SkipMissing, Alone
  <2>6. LeftAlone'
    <3>1. \A u \in Thread : arg'[u] # NoPath => arg'[u] = arg[u] /\ pc'[u] = pc[u]
      BY <1>3 DEF SkipMissing, TypeOK
    <3> QED
      BY <1>3, <3>1 DEF SkipMissing, LeftAlone, Safe
  <2>7. ToCome'
    <3> SUFFICES ASSUME phase' # "killed", \A j \in Job : fut'[j] # "failed",
                        NEW q \in Path \ (rewritten' \cup half')
                 PROVE  Whole(q)' \/ Outstanding(q)'
      BY DEF ToCome
    <3>1. Whole(q) \/ Outstanding(q)
      BY <1>3 DEF SkipMissing, ToCome
    <3>2. q # arg[t]
      BY <1>3 DEF SkipMissing, LeftAlone, Absent
    <3>3. Outstanding(q) => Outstanding(q)'
      BY <1>3, <3>2 DEF SkipMissing, TypeOK, Outstanding
    <3> QED
      BY <1>3, <3>1, <3>3 DEF SkipMissing, Whole
  <2>8. Accounted'
    BY <1>3 DEF SkipMissing, Accounted, InReach
  <2>9. Awaited'
    BY <1>3 DEF SkipMissing, Awaited
  <2> QED
    BY <2>1, <2>2, <2>3, <2>4, <2>5, <2>6, <2>7, <2>8, <2>9, <2>10
<1>4. ASSUME NEW t \in Thread, Track(t) PROVE Inv'
  <2>1. TypeOK'
    <3>1. mine[t] \in Job
      BY <1>4 DEF Track, Holding
    <3> QED
      BY <1>4, <3>1 DEF Track, TypeOK
  <2>2. Numbered'
    BY <1>4 DEF Track, TypeOK, Numbered, Writing
  <2>3. Holding'
    BY <1>4 DEF Track, TypeOK, Holding
  <2>4. OneWorker'
    BY <1>4 DEF Track, OneWorker, Busy
  <2>5. Forward'
    BY <1>4 DEF Track, Forward
  <2>10. Alone'
    BY <1>4 DEF Track, Alone, TypeOK, Unsettled, Working
  <2>6. LeftAlone'
    BY <1>4 DEF Track, LeftAlone, Safe
  <2>7. ToCome'
    BY <1>4 DEF Track, ToCome, Outstanding
  <2>8. Accounted'
    <3>1. mine[t] \in Job
      BY <1>4 DEF Track, Holding
    <3>2. Elems(pending') = Elems(pending) \cup {mine[t]}
      BY <1>4, <3>1, AppendElems DEF Track, TypeOK
    <3> QED
      BY <1>4, <3>2 DEF Track, Accounted, InReach
  <2>9. Awaited'
    BY <1>4 DEF Track, Awaited
  <2> QED
    BY <2>1, <2>2, <2>3, <2>4, <2>5, <2>6, <2>7, <2>8, <2>9, <2>10
<1>5. ASSUME NEW t \in Thread, WaitBegin(t) PROVE Inv'
  <2>1. TypeOK'
    <3>1. <<>> \in Seq(Job) /\ Tracked \subseteq Job
      BY EmptySeq DEF Tracked
    <3>2. hands' \in [Thread -> Seq(Job)] /\ asked' \in [Thread -> SUBSET Job]
      BY <1>5, <3>1 DEF WaitBegin, TypeOK
    <3> QED
      BY <1>5, <3>1, <3>2 DEF WaitBegin, TypeOK
  <2>2. Numbered'
    BY <1>5 DEF WaitBegin, Idle, TypeOK, Numbered, Writing
  <2>3. Holding'
    BY <1>5 DEF WaitBegin, Idle, TypeOK, Holding
  <2>4. OneWorker'
    BY <1>5 DEF WaitBegin, Idle, OneWorker, Busy
  <2>5. Forward'
    BY <1>5 DEF WaitBegin, Idle, Forward
  <2>10. Alone'
    BY <1>5 DEF WaitBegin, Alone, TypeOK, Unsettled, Working
  <2>6. LeftAlone'
    BY <1>5 DEF WaitBegin, Idle, LeftAlone, Safe
  <2>7. ToCome'
    BY <1>5 DEF WaitBegin, Idle, ToCome, Outstanding
  <2>8. Accounted'
    BY <1>5 DEF WaitBegin, Idle, TypeOK, Accounted, InReach, Holding
  <2>9. Awaited'
    <3> SUFFICES ASSUME ~raised', ~overlapped' PROVE Awaited'
      BY DEF Awaited
    <3>1. ~raised /\ ~overlapped /\ phase = "up" /\ \A u \in Thread : pc[u] # "waiting"
      BY <1>5 DEF WaitBegin, Idle
    <3>2. ASSUME NEW j \in Tracked PROVE fut[j] = "ok" \/ j \in Elems(pending)
      <4>1. \A u \in Thread : Elems(hands[u]) = {}
        BY <3>1, EmptySeq DEF Holding, Elems
      <4> QED
        BY <3>1, <4>1 DEF Accounted, InReach, Tracked
    <3>3. \A j \in promised : fut[j] = "ok"
      BY <3>1 DEF Awaited
    <3> QED
      BY <1>5, <3>1, <3>2, <3>3 DEF WaitBegin, Idle, TypeOK, Awaited
  <2> QED
    BY <2>1, <2>2, <2>3, <2>4, <2>5, <2>6, <2>7, <2>8, <2>9, <2>10
<1>6. ASSUME NEW t \in Thread, WaitEmpty(t) PROVE Inv'
  <2>1. TypeOK'
    BY <1>6 DEF WaitEmpty, Idle, TypeOK, Tracked
  <2>2. Numbered'
    BY <1>6 DEF WaitEmpty, Idle, Numbered, Writing
  <2>3. Holding'
    BY <1>6 DEF WaitEmpty, Idle, Holding
  <2>4. OneWorker'
    BY <1>6 DEF WaitEmpty, Idle, OneWorker, Busy
  <2>5. Forward'
    BY <1>6 DEF WaitEmpty, Idle, Forward
  <2>10. Alone'
    BY <1>6 DEF WaitEmpty, Alone, TypeOK, Unsettled, Working
  <2>6. LeftAlone'
    BY <1>6 DEF WaitEmpty, Idle, LeftAlone, Safe
  <2>7. ToCome'
    BY <1>6 DEF WaitEmpty, Idle, ToCome, Outstanding
  <2>8. Accounted'
    BY <1>6 DEF WaitEmpty, Idle, Accounted, InReach
  <2>9. Awaited'
    <3> SUFFICES ASSUME ~raised', ~overlapped' PROVE Awaited'
      BY DEF Awaited
    <3>1. /\ ~raised /\ ~overlapped /\ phase = "up" /\ \A u \in Thread : pc[u] # "waiting"
          /\ pending = <<>>
      BY <1>6 DEF WaitEmpty, Idle
    <3>2. ASSUME NEW j \in Tracked PROVE fut[j] = "ok"
      <4>1. Elems(pending) = {} /\ \A u \in Thread : Elems(hands[u]) = {}
        BY <3>1, EmptySeq DEF Holding, Elems
      <4> QED
        BY <3>1, <4>1 DEF Accounted, InReach, Tracked
    <3>3. \A j \in promised : fut[j] = "ok"
      BY <3>1 DEF Awaited
    <3> QED
      BY <1>6, <3>1, <3>2, <3>3 DEF WaitEmpty, Idle, Awaited
  <2> QED
    BY <2>1, <2>2, <2>3, <2>4, <2>5, <2>6, <2>7, <2>8, <2>9, <2>10
<1>7. ASSUME NEW t \in Thread, WaitNext(t) PROVE Inv'
  <2>0. /\ hands[t] \in Seq(Job) /\ hands[t] # <<>> /\ Head(hands[t]) \in Job
        /\ Tail(hands[t]) \in Seq(Job) /\ fut[Head(hands[t])] = "ok"
        /\ Elems(hands[t]) = {Head(hands[t])} \cup Elems(Tail(hands[t]))
        /\ Len(hands[t]) = 1 <=> Tail(hands[t]) = <<>>
    <3>1. hands[t] \in Seq(Job) /\ hands[t] # <<>> /\ fut[Head(hands[t])] = "ok"
      BY <1>7 DEF WaitNext, Succeeds, Holding, TypeOK
    <3> QED
      BY <3>1, TailElems
  <2>1. TypeOK'
    BY <1>7, <2>0 DEF WaitNext, TypeOK
  <2>2. Numbered'
    <3>1. Writing' = Writing
      BY <1>7 DEF WaitNext, Writing, TypeOK
    <3> QED
      BY <1>7, <3>1 DEF WaitNext, Numbered
  <2>3. Holding'
    <3>1. /\ \A u \in Thread : u # t => pc'[u] = pc[u] /\ hands'[u] = hands[u]
          /\ hands'[t] = Tail(hands[t]) /\ arg' = arg /\ mine' = mine /\ phase' = phase
          /\ IF Len(hands[t]) = 1 THEN pc'[t] = "idle" ELSE pc'[t] = "waiting"
          /\ pc[t] = "waiting" /\ phase = "up"
      BY <1>7 DEF WaitNext, TypeOK
    <3>2. arg[t] = NoPath /\ mine[t] = 0
      BY <3>1 DEF Holding
    <3> QED
      BY <2>0, <3>1, <3>2 DEF Holding
  <2>4. OneWorker'
    BY <1>7 DEF WaitNext, Succeeds, OneWorker, Busy
  <2>5. Forward'
    BY <1>7 DEF WaitNext, Succeeds, Forward
  <2>10. Alone'
    BY <1>7 DEF WaitNext, Alone, TypeOK, Unsettled, Working
  <2>6. LeftAlone'
    <3>1. \A u \in Thread : arg[u] # NoPath => pc'[u] = pc[u]
      BY <1>7 DEF WaitNext, TypeOK, Holding
    <3> QED
      BY <1>7, <3>1 DEF WaitNext, LeftAlone, Safe
  <2>7. ToCome'
    BY <1>7 DEF WaitNext, Succeeds, ToCome, Outstanding
  <2>8. Accounted'
    <3> SUFFICES ASSUME ~raised', phase' = "up", NEW j \in Job, j <= made', fut'[j] # "ok"
                 PROVE  InReach(j)'
      BY DEF Accounted
    <3>1. InReach(j) /\ fut[j] # "ok"
      BY <1>7 DEF WaitNext, Accounted
    <3> QED
      BY <1>7, <2>0, <3>1 DEF WaitNext, InReach
  <2>9. Awaited'
    <3> SUFFICES ASSUME ~raised', ~overlapped' PROVE Awaited'
      BY DEF Awaited
    <3>1. /\ \A u \in Thread : pc[u] = "waiting" =>
               \A j \in asked[u] : fut[j] = "ok" \/ j \in Elems(hands[u])
          /\ \A j \in promised : fut[j] = "ok"
      BY <1>7 DEF WaitNext, Awaited
    <3>2. \A j \in asked[t] : fut[j] = "ok" \/ j \in Elems(Tail(hands[t]))
      BY <1>7, <2>0, <3>1 DEF WaitNext
    <3>3. CASE Len(hands[t]) = 1
      <4>1. Elems(Tail(hands[t])) = {}
        BY <2>0, <3>3, EmptySeq DEF Elems
      <4> QED
        BY <1>7, <3>1, <3>2, <3>3, <4>1 DEF WaitNext, TypeOK, Awaited
    <3>4. CASE Len(hands[t]) # 1
      BY <1>7, <3>1, <3>2, <3>4 DEF WaitNext, Awaited
    <3> QED
      BY <3>3, <3>4
  <2> QED
    BY <2>1, <2>2, <2>3, <2>4, <2>5, <2>6, <2>7, <2>8, <2>9, <2>10
<1>8. ASSUME NEW t \in Thread, Raise(t), phase = "up", pc[t] = "waiting" PROVE Inv'
  <2>1. TypeOK'
    <3>1. <<>> \in Seq(Job)
      BY EmptySeq
    <3>2. hands' \in [Thread -> Seq(Job)] /\ asked' \in [Thread -> SUBSET Job]
      BY <1>8, <3>1 DEF Raise, TypeOK
    <3> QED
      BY <1>8, <3>2 DEF Raise, TypeOK
  <2>2. Numbered'
    BY <1>8 DEF Raise, TypeOK, Numbered, Writing
  <2>3. Holding'
    BY <1>8 DEF Raise, TypeOK, Holding
  <2>4. OneWorker'
    BY <1>8 DEF Raise, OneWorker, Busy, Unsettled
  <2>5. Forward'
    BY <1>8 DEF Raise, Forward
  <2>10. Alone'
    BY <1>8 DEF Raise, Alone, TypeOK, Unsettled, Working
  <2>6. LeftAlone'
    BY <1>8 DEF Raise, LeftAlone, Safe
  <2>7. ToCome'
    BY <1>8 DEF Raise, ToCome, Outstanding
  <2>8. Accounted'
    BY <1>8 DEF Raise, Accounted
  <2>9. Awaited'
    BY <1>8 DEF Raise, Awaited
  <2> QED
    BY <2>1, <2>2, <2>3, <2>4, <2>5, <2>6, <2>7, <2>8, <2>9, <2>10
<1>9. ASSUME StartJob PROVE Inv'
  <2> DEFINE h == Head(queue)
  <2>0. /\ h = queue[1] /\ h \in Job /\ Tail(queue) \in Seq(Job) /\ fut[h] = "queued"
        /\ Elems(queue) = {h} \cup Elems(Tail(queue))
        /\ fut' = [fut EXCEPT ![h] = "transfer"] /\ queue' = Tail(queue)
        /\ Len(queue) \in Nat \ {0} /\ Len(Tail(queue)) = Len(queue) - 1
        /\ \A i \in 1 .. Len(Tail(queue)) : Tail(queue)[i] = queue[i + 1]
    <3>1. queue \in Seq(Job) /\ queue # <<>>
      BY <1>9 DEF StartJob, TypeOK
    <3>2. /\ h = queue[1] /\ h \in Job /\ Tail(queue) \in Seq(Job)
          /\ Elems(queue) = {h} \cup Elems(Tail(queue))
      BY <3>1, TailElems
    <3>3. /\ Len(queue) \in Nat \ {0} /\ Len(Tail(queue)) = Len(queue) - 1
          /\ \A i \in 1 .. Len(Tail(queue)) : Tail(queue)[i] = queue[i + 1]
      BY <3>1, EmptySeq, HeadTailProperties
    <3>4. fut[h] = "queued"
      BY <3>2, <3>3 DEF OneWorker
    <3> QED
      BY <1>9, <3>2, <3>3, <3>4 DEF StartJob
  <2>1. TypeOK'
    BY <1>9, <2>0 DEF StartJob, TypeOK, Status, Unsettled, Working
  <2>2. Numbered'
    <3>1. Writing' = Writing
      BY <1>9 DEF StartJob, Writing
    <3> QED
      BY <1>9, <2>0, <3>1 DEF StartJob, Numbered
  <2>3. Holding'
    BY <1>9 DEF StartJob, Alive, Holding
  <2>4. OneWorker'
    <3>1. Busy = {}
      <4>1. IsFiniteSet(Job) /\ Busy \in SUBSET Job
        BY FS_Interval DEF Job, Busy
      <4>2. IsFiniteSet(Busy) /\ Cardinality(Busy) \in Nat
        BY <4>1, FS_Subset, FS_CardinalityType
      <4>3. Cardinality(Busy) = 0
        BY <1>9, <4>2 DEF StartJob, MaxWorkers
      <4> QED
        BY <4>2, <4>3, FS_EmptySet
    <3>2. Busy' = {h}
      BY <2>0, <3>1 DEF Busy, Working, TypeOK
    <3>3. \A i \in 1 .. Len(queue') : i + 1 \in 1 .. Len(queue) /\ queue'[i] = queue[i + 1] /\ i + 1 # 1
      BY <2>0
    <3>4. \A i \in 1 .. Len(queue') : queue'[i] # h
      BY <2>0, <3>3 DEF OneWorker
    <3>5. \A i \in 1 .. Len(queue') : fut'[queue'[i]] = "queued"
      <4> SUFFICES ASSUME NEW i \in 1 .. Len(queue') PROVE fut'[queue'[i]] = "queued"
        OBVIOUS
      <4>1. fut[queue'[i]] = "queued" /\ queue'[i] \in Job
        <5>1. i + 1 \in 1 .. Len(queue) /\ queue'[i] = queue[i + 1]
          BY <3>3
        <5>2. queue[i + 1] \in Job
          BY <5>1, ElementOfSeq DEF TypeOK
        <5> QED
          BY <5>1, <5>2 DEF OneWorker
      <4> QED
        BY <2>0, <3>4, <4>1 DEF TypeOK
    <3>6. \A i, k \in 1 .. Len(queue') : queue'[i] = queue'[k] => i = k
      <4> SUFFICES ASSUME NEW i \in 1 .. Len(queue'), NEW k \in 1 .. Len(queue'), queue'[i] = queue'[k]
                   PROVE  i = k
        OBVIOUS
      <4>1. /\ i + 1 \in 1 .. Len(queue) /\ k + 1 \in 1 .. Len(queue)
            /\ queue[i + 1] = queue[k + 1]
        BY <3>3
      <4>2. i + 1 = k + 1
        BY <4>1 DEF OneWorker
      <4> QED
        BY <4>2
    <3>7. \A j \in Job : fut'[j] = "queued" => j \in Elems(queue')
      BY <2>0 DEF OneWorker, TypeOK
    <3> QED
      BY <1>9, <3>2, <3>5, <3>6, <3>7 DEF StartJob, Alive, OneWorker
  <2>5. Forward'
    <3>1. \A j \in Job : j # h => fut'[j] = fut[j]
      BY <2>0 DEF TypeOK
    <3>2. fut'[h] = "transfer" /\ h \notin mid
      BY <2>0 DEF TypeOK, Forward
    <3> QED
      BY <1>9, <3>1, <3>2 DEF StartJob, Forward
  <2>10. Alone'
    <3>1. \A j \in Job : fut'[j] \in Unsettled => fut[j] \in Unsettled
      BY <2>0 DEF TypeOK, Unsettled, Working
    <3> QED
      BY <1>9, <3>1 DEF StartJob, Alone
  <2>6. LeftAlone'
    <3>1. /\ \A j \in Job : j # h => fut'[j] = fut[j]
          /\ fut'[h] = "transfer" /\ fut[h] \in Unsettled /\ fut[h] # "landed"
      BY <2>0 DEF TypeOK, Unsettled, Working
    <3> QED
      BY <1>9, <2>0, <3>1 DEF StartJob, LeftAlone, Safe
  <2>7. ToCome'
    <3> SUFFICES ASSUME phase' # "killed", \A j \in Job : fut'[j] # "failed",
                        NEW q \in Path \ (rewritten' \cup half')
                 PROVE  Whole(q)' \/ Outstanding(q)'
      BY DEF ToCome
    <3>1. Whole(q) \/ Outstanding(q)
      BY <1>9, <2>0 DEF StartJob, Alive, ToCome
    <3>2. Outstanding(q) => Outstanding(q)'
      BY <1>9, <2>0 DEF StartJob, Outstanding, Unsettled, Working
    <3> QED
      BY <1>9, <3>1, <3>2 DEF StartJob
  <2>8. Accounted'
    <3>1. \A j \in Job : fut'[j] # "ok" => fut[j] # "ok"
      BY <2>0 DEF TypeOK
    <3> QED
      BY <1>9, <3>1 DEF StartJob, Accounted, InReach
  <2>9. Awaited'
    <3>1. \A j \in Job : fut[j] = "ok" => fut'[j] = "ok"
      BY <2>0 DEF TypeOK
    <3> QED
      BY <1>9, <3>1 DEF StartJob, Awaited, TypeOK
  <2> QED
    BY <2>1, <2>2, <2>3, <2>4, <2>5, <2>6, <2>7, <2>8, <2>9, <2>10
<1>10. ASSUME NEW j \in Job, ReadLocal(j) PROVE Inv'
  <2>1. TypeOK'
    <3>1. "reading" \in Status /\ path[j] \in Path
      BY <1>10 DEF ReadLocal, Numbered, Status, Unsettled, Working
    <3>2. fut' \in [Job -> Status] /\ seen' \in [Job -> Nat]
      BY <1>10, <3>1 DEF ReadLocal, TypeOK
    <3> QED
      BY <1>10, <3>2 DEF ReadLocal, TypeOK
  <2>2. Numbered'
    BY <1>10 DEF ReadLocal, Alive, Numbered, Writing
  <2>3. Holding'
    BY <1>10 DEF ReadLocal, Alive, Holding
  <2>4. OneWorker'
    BY <1>10 DEF ReadLocal, Alive, OneWorker, Busy, Working, Unsettled, Elems
  <2>5. Forward'
    BY <1>10 DEF ReadLocal, Alive, TypeOK, Numbered, Forward
  <2>10. Alone'
    BY <1>10 DEF ReadLocal, Alone, TypeOK, Unsettled, Working
  <2>6. LeftAlone'
    <3>1. /\ \A i \in Job : i # j => fut'[i] = fut[i] /\ seen'[i] = seen[i] /\ (i \in mid' <=> i \in mid)
          /\ fut'[j] = "reading" /\ fut[j] \in Unsettled /\ fut[j] = "transfer"
          /\ seen'[j] = local[path[j]] /\ (j \in mid' => path[j] \in half \/ j \in mid)
      BY <1>10 DEF ReadLocal, TypeOK, Unsettled, Working
    <3>2. j \notin mid
      BY <3>1 DEF Forward
    <3>3. UNCHANGED <<local, remote, written, half, cut, path, arg, pc, rewritten>>
      BY <1>10 DEF ReadLocal
    <3> QED
      BY <3>1, <3>2, <3>3 DEF LeftAlone, Safe
  <2>7. ToCome'
    <3> SUFFICES ASSUME phase' # "killed", \A i \in Job : fut'[i] # "failed",
                        NEW q \in Path \ (rewritten' \cup half')
                 PROVE  Whole(q)' \/ Outstanding(q)'
      BY DEF ToCome
    <3>1. Whole(q) \/ Outstanding(q)
      BY <1>10 DEF ReadLocal, Alive, ToCome
    <3>2. Outstanding(q) => Outstanding(q)'
      BY <1>10 DEF ReadLocal, Outstanding, Unsettled, Working
    <3> QED
      BY <1>10, <3>1, <3>2 DEF ReadLocal
  <2>8. Accounted'
    BY <1>10 DEF ReadLocal, Alive, Accounted, InReach
  <2>9. Awaited'
    BY <1>10 DEF ReadLocal, Alive, Awaited
  <2> QED
    BY <2>1, <2>2, <2>3, <2>4, <2>5, <2>6, <2>7, <2>8, <2>9, <2>10
<1>11. ASSUME NEW j \in Job, AttemptFails(j) PROVE Inv'
  <2>1. TypeOK'
    <3>1. "transfer" \in Status /\ "failed" \in Status /\ Absent \in Nat
      BY DEF Status, Unsettled, Working, Absent
    <3>2. fut' \in [Job -> Status] /\ seen' \in [Job -> Nat]
      BY <1>11, <3>1 DEF AttemptFails, TypeOK
    <3>3. tries' \in [Job -> 0 .. Attempts - 1]
      BY <1>11 DEF AttemptFails, Retries, TypeOK
    <3> QED
      BY <1>11, <3>2, <3>3 DEF AttemptFails, TypeOK
  <2>2. Numbered'
    BY <1>11 DEF AttemptFails, Alive, Retries, Numbered, Writing
  <2>3. Holding'
    BY <1>11 DEF AttemptFails, Alive, Retries, Holding
  <2>4. OneWorker'
    <3>1. j \in Busy /\ \A i \in Job : i # j => fut'[i] = fut[i]
      BY <1>11 DEF AttemptFails, Alive, Busy, Working
    <3>2. fut'[j] \notin {"queued", "none"} /\ fut[j] # "queued"
      BY <1>11 DEF AttemptFails, Alive
    <3>3. \A i \in 1 .. Len(queue) : queue[i] \in Job /\ queue[i] # j
      BY <3>2, ElementOfSeq DEF OneWorker, TypeOK
    <3>4. Busy' \subseteq Busy
      BY <3>1 DEF Busy
    <3> QED
      BY <1>11, <3>1, <3>2, <3>3, <3>4 DEF AttemptFails, Alive, OneWorker
  <2>5. Forward'
    BY <1>11 DEF AttemptFails, Alive, Retries, TypeOK, Forward
  <2>10. Alone'
    BY <1>11 DEF AttemptFails, Alone, TypeOK, Unsettled, Working
  <2>6. LeftAlone'
    <3>1. /\ \A i \in Job : i # j => fut'[i] = fut[i] /\ seen'[i] = seen[i] /\ (i \in mid' <=> i \in mid)
          /\ fut'[j] \in {"transfer", "failed"} /\ fut[j] \in Unsettled /\ fut[j] # "landed"
      BY <1>11 DEF AttemptFails, TypeOK, Unsettled, Working
    <3>2. UNCHANGED <<local, remote, written, half, cut, path, arg, pc, rewritten>>
      BY <1>11 DEF AttemptFails
    <3> QED
      BY <3>1, <3>2 DEF LeftAlone, Safe
  <2>7. ToCome'
    <3> SUFFICES ASSUME phase' # "killed", \A i \in Job : fut'[i] # "failed",
                        NEW q \in Path \ (rewritten' \cup half')
                 PROVE  Whole(q)' \/ Outstanding(q)'
      BY DEF ToCome
    <3>1. fut'[j] = "transfer"
      BY <1>11 DEF AttemptFails, TypeOK
    <3>2. \A i \in Job : fut[i] # "failed"
      BY <1>11 DEF AttemptFails
    <3>3. Whole(q) \/ Outstanding(q)
      BY <1>11, <3>2 DEF AttemptFails, Alive, ToCome
    <3>4. Outstanding(q) => Outstanding(q)'
      BY <1>11, <3>1 DEF AttemptFails, Outstanding, Unsettled, Working
    <3> QED
      BY <1>11, <3>3, <3>4 DEF AttemptFails
  <2>8. Accounted'
    BY <1>11 DEF AttemptFails, Alive, Retries, Accounted, InReach
  <2>9. Awaited'
    BY <1>11 DEF AttemptFails, Alive, Retries, Awaited
  <2> QED
    BY <2>1, <2>2, <2>3, <2>4, <2>5, <2>6, <2>7, <2>8, <2>9, <2>10
<1>12. ASSUME NEW j \in Job, Land(j) PROVE Inv'
  <2>1. TypeOK'
    <3>1. "landed" \in Status /\ path[j] \in Path
      BY <1>12 DEF Land, Numbered, Status, Unsettled, Working
    <3>2. /\ fut' \in [Job -> Status] /\ seen' \in [Job -> Nat] /\ remote' \in [Path -> Nat]
          /\ cut' \in SUBSET Path /\ mid' \in SUBSET Job
      BY <1>12, <3>1 DEF Land, TypeOK, Absent
    <3> QED
      BY <1>12, <3>2 DEF Land, TypeOK
  <2>2. Numbered'
    BY <1>12 DEF Land, Alive, Numbered, Writing
  <2>3. Holding'
    BY <1>12 DEF Land, Alive, Holding
  <2>4. OneWorker'
    <3>1. j \in Busy /\ \A i \in Job : i # j => fut'[i] = fut[i]
      BY <1>12 DEF Land, Alive, Busy, Working
    <3>2. fut'[j] \notin {"queued", "none"} /\ fut[j] # "queued"
      BY <1>12 DEF Land, Alive
    <3>3. \A i \in 1 .. Len(queue) : queue[i] \in Job /\ queue[i] # j
      BY <3>2, ElementOfSeq DEF OneWorker, TypeOK
    <3>4. Busy' \subseteq Busy
      BY <3>1 DEF Busy
    <3> QED
      BY <1>12, <3>1, <3>2, <3>3, <3>4 DEF Land, Alive, OneWorker
  <2>5. Forward'
    <3>1. path[j] \in Path
      BY <1>12 DEF Land, Numbered
    <3>2. ASSUME NEW i \in Job, fut'[i] = "reading" PROVE FALSE
      <4>1. i # j /\ fut[i] = "reading"
        BY <1>12, <3>2 DEF Land, TypeOK
      <4> QED
        BY <1>12, <4>1 DEF Land, OneWorker, Busy, Working
    <3>3. \A p \in Path : local'[p] \in {Absent, written'[p]} /\ remote'[p] <= written'[p]
      BY <1>12, <3>1 DEF Land, Forward
    <3>4. \A i \in mid' : i # j /\ fut[i] = "reading" /\ fut'[i] = fut[i]
      BY <1>12 DEF Land, TypeOK, Forward
    <3> QED
      BY <3>2, <3>3, <3>4 DEF Forward
  <2>10. Alone'
    BY <1>12 DEF Land, Alone, TypeOK, Unsettled, Working
  <2>6. LeftAlone'
    <3>1. path[j] \in Path /\ \A i \in Job : i # j => fut'[i] = fut[i] /\ fut[i] \notin Working
      BY <1>12 DEF Land, Numbered, OneWorker, Busy, Working
    <3>2. /\ remote' = [remote EXCEPT ![path[j]] = seen[j]]
          /\ cut' = IF j \in mid THEN cut \cup {path[j]} ELSE cut \ {path[j]}
          /\ UNCHANGED <<local, written, half, rewritten, path, arg, pc>>
          /\ fut[j] = "reading" /\ fut'[j] = "landed"
      BY <1>12 DEF Land, TypeOK
    <3>3. path[j] \notin rewritten => Whole(path[j])' /\ path[j] \notin half
      <4>1. path[j] \notin rewritten => seen[j] = written[path[j]] /\ j \notin mid /\ path[j] \notin half
        BY <3>2 DEF LeftAlone, Unsettled, Working
      <4>2. remote'[path[j]] = seen[j]
        BY <3>1, <3>2 DEF TypeOK
      <4> QED
        BY <3>2, <4>1, <4>2
    <3>4. \A q \in Path : q # path[j] => remote'[q] = remote[q] /\ (q \in cut' <=> q \in cut)
      BY <3>2 DEF TypeOK
    <3>5. ASSUME NEW q \in Path \ rewritten PROVE Safe(q)'
      <4>1. CASE q = path[j]
        BY <3>3, <4>1, <3>2 DEF Safe
      <4>2. CASE q # path[j]
        BY <3>2, <3>4, <4>2 DEF Safe, LeftAlone
      <4> QED
        BY <4>1, <4>2
    <3>6. \A i \in Job : i # j /\ fut'[i] \in Unsettled => fut[i] = "queued" /\ fut'[i] = "queued"
      BY <3>1 DEF Unsettled
    <3> QED
      BY <3>2, <3>3, <3>5, <3>6 DEF LeftAlone, Unsettled
  <2>7. ToCome'
    <3> SUFFICES ASSUME phase' # "killed", \A i \in Job : fut'[i] # "failed",
                        NEW q \in Path \ (rewritten' \cup half')
                 PROVE  Whole(q)' \/ Outstanding(q)'
      BY DEF ToCome
    <3>1. CASE q = path[j]
      <4>1. fut'[j] = "landed" /\ path' = path
        BY <1>12 DEF Land, TypeOK
      <4> QED
        BY <3>1, <4>1 DEF Outstanding, Unsettled, Working
    <3>2. CASE q # path[j]
      <4>1. \A i \in Job : fut[i] # "failed"
        BY <1>12 DEF Land, TypeOK
      <4>2. Whole(q) \/ Outstanding(q)
        BY <1>12, <4>1 DEF Land, Alive, ToCome
      <4>3. Outstanding(q) => Outstanding(q)'
        BY <1>12, <3>2 DEF Land, Outstanding
      <4>4. Whole(q) => Whole(q)'
        BY <1>12, <3>2 DEF Land, TypeOK
      <4> QED
        BY <4>2, <4>3, <4>4
    <3> QED
      BY <3>1, <3>2
  <2>8. Accounted'
    BY <1>12 DEF Land, Alive, Accounted, InReach
  <2>9. Awaited'
    BY <1>12 DEF Land, Alive, Awaited
  <2> QED
    BY <2>1, <2>2, <2>3, <2>4, <2>5, <2>6, <2>7, <2>8, <2>9, <2>10
<1>20. ASSUME NEW j \in Job, LandSome(j) PROVE Inv'
  <2>0. /\ path[j] \in Path /\ j \in Busy /\ fut[j] = "reading"
        /\ remote' = [remote EXCEPT ![path[j]] = seen[j]] /\ cut' = cut \cup {path[j]}
    BY <1>20 DEF LandSome, Numbered, Busy, Working
  <2>1. TypeOK'
    BY <1>20, <2>0 DEF LandSome, TypeOK
  <2>2. Numbered'
    BY <1>20 DEF LandSome, Numbered, Writing
  <2>3. Holding'
    BY <1>20 DEF LandSome, Holding
  <2>4. OneWorker'
    BY <1>20 DEF LandSome, OneWorker, Busy
  <2>5. Forward'
    <3>1. \A i \in Job : fut[i] = "reading" => i = j
      BY <2>0 DEF OneWorker, Busy, Working
    <3> QED
      BY <1>20, <2>0, <3>1 DEF LandSome, Forward, TypeOK
  <2>10. Alone'
    BY <1>20 DEF LandSome, Alone
  <2>6. LeftAlone'
    <3>1. path[j] \notin rewritten => local[path[j]] = written[path[j]]
      BY <2>0 DEF LeftAlone, Unsettled, Working
    <3>2. ASSUME NEW q \in Path \ rewritten PROVE Safe(q)'
      BY <1>20, <2>0, <3>1 DEF LandSome, LeftAlone, Safe, Whole
    <3>3. \A i \in Job : fut[i] = "landed" => FALSE
      BY <2>0 DEF OneWorker, Busy, Working
    <3> QED
      BY <1>20, <3>2, <3>3 DEF LandSome, LeftAlone
  <2>7. ToCome'
    <3> SUFFICES ASSUME phase' # "killed", \A i \in Job : fut'[i] # "failed",
                        NEW q \in Path \ (rewritten' \cup half')
                 PROVE  Whole(q)' \/ Outstanding(q)'
      BY DEF ToCome
    <3>1. CASE q = path[j]
      BY <1>20, <2>0, <3>1 DEF LandSome, Outstanding, Unsettled, Working
    <3>2. CASE q # path[j]
      BY <1>20, <2>0, <3>2 DEF LandSome, ToCome, Whole, Outstanding
    <3> QED
      BY <3>1, <3>2
  <2>8. Accounted'
    BY <1>20 DEF LandSome, Accounted, InReach
  <2>9. Awaited'
    BY <1>20 DEF LandSome, Awaited
  <2> QED
    BY <2>1, <2>2, <2>3, <2>4, <2>5, <2>6, <2>7, <2>8, <2>9, <2>10
<1>13. ASSUME NEW j \in Job, Finish(j) PROVE Inv'
  <2>1. TypeOK'
    BY <1>13 DEF Finish, Alive, TypeOK, Status, Absent
  <2>2. Numbered'
    BY <1>13 DEF Finish, Alive, Numbered, Writing
  <2>3. Holding'
    BY <1>13 DEF Finish, Alive, Holding
  <2>4. OneWorker'
    BY <1>13 DEF Finish, Alive, OneWorker, Busy, Working, Unsettled, Elems
  <2>5. Forward'
    BY <1>13 DEF Finish, Alive, Forward
  <2>10. Alone'
    BY <1>13 DEF Finish, Alone, TypeOK, Unsettled, Working
  <2>6. LeftAlone'
    <3>1. /\ path[j] \in Path /\ fut[j] = "landed" /\ fut'[j] = "ok"
          /\ \A i \in Job : i # j => fut'[i] = fut[i]
          /\ UNCHANGED <<remote, written, half, cut, path, seen, mid, arg, pc, rewritten>>
          /\ \A q \in Path : q # path[j] => local'[q] = local[q]
      BY <1>13 DEF Finish, TypeOK, Numbered
    <3>2. path[j] \notin rewritten => Whole(path[j])
      BY <3>1 DEF LeftAlone, Unsettled, Working
    <3>3. ASSUME NEW q \in Path \ rewritten PROVE Safe(q)'
      BY <3>1, <3>2 DEF LeftAlone, Safe
    <3>4. ASSUME NEW i \in Job, fut'[i] \in Unsettled, path[i] \notin rewritten
          PROVE  /\ i # j /\ fut[i] \in Unsettled /\ fut'[i] = fut[i]
                 /\ local'[path[i]] = local[path[i]]
      <4>1. i # j /\ fut[i] \in Unsettled /\ fut'[i] = fut[i]
        BY <3>1, <3>4 DEF Unsettled, Working
      <4>2. path[i] # path[j] /\ path[i] \in Path
        BY <3>1, <3>4, <4>1 DEF Alone, Numbered, Unsettled, Working
      <4> QED
        BY <3>1, <4>1, <4>2
    <3>5. ASSUME NEW u \in Thread, arg[u] # NoPath, arg[u] \notin rewritten
          PROVE  local'[arg[u]] = local[arg[u]]
      <4>1. arg[u] \in Path /\ arg[u] # path[j]
        BY <3>1, <3>5 DEF Alone, TypeOK, Unsettled, Working
      <4> QED
        BY <3>1, <4>1
    <3> QED
      BY <3>1, <3>3, <3>4, <3>5 DEF LeftAlone
  <2>7. ToCome'
    <3> SUFFICES ASSUME phase' # "killed", \A i \in Job : fut'[i] # "failed",
                        NEW q \in Path \ (rewritten' \cup half')
                 PROVE  Whole(q)' \/ Outstanding(q)'
      BY DEF ToCome
    <3>1. Whole(q) \/ Outstanding(q)
      <4>1. \A i \in Job : fut[i] # "failed"
        BY <1>13 DEF Finish, TypeOK
      <4> QED
        BY <1>13, <4>1 DEF Finish, Alive, ToCome
    <3>2. path[j] = q => Whole(q)
      BY <1>13 DEF Finish, LeftAlone, Unsettled, Working
    <3>3. path[j] # q => (Outstanding(q) => Outstanding(q)')
      BY <1>13 DEF Finish, Outstanding
    <3>4. Whole(q) => Whole(q)'
      BY <1>13 DEF Finish
    <3> QED
      BY <3>1, <3>2, <3>3, <3>4
  <2>8. Accounted'
    BY <1>13 DEF Finish, Alive, Accounted, InReach
  <2>9. Awaited'
    BY <1>13 DEF Finish, Alive, Awaited
  <2> QED
    BY <2>1, <2>2, <2>3, <2>4, <2>5, <2>6, <2>7, <2>8, <2>9, <2>10
<1>14. ASSUME ExitBegin PROVE Inv'
  <2>1. TypeOK'
    BY <1>14 DEF ExitBegin, TypeOK
  <2>2. Numbered'
    BY <1>14 DEF ExitBegin, Numbered, Writing
  <2>3. Holding'
    BY <1>14 DEF ExitBegin, Holding
  <2>4. OneWorker'
    BY <1>14 DEF ExitBegin, OneWorker, Busy
  <2>5. Forward'
    BY <1>14 DEF ExitBegin, Forward
  <2>10. Alone'
    BY <1>14 DEF ExitBegin, Alone, TypeOK, Unsettled, Working
  <2>6. LeftAlone'
    BY <1>14 DEF ExitBegin, LeftAlone, Safe
  <2>7. ToCome'
    <3> SUFFICES ASSUME phase' # "killed", \A j \in Job : fut'[j] # "failed",
                        NEW q \in Path \ (rewritten' \cup half')
                 PROVE  Whole(q)' \/ Outstanding(q)'
      BY DEF ToCome
    <3> QED
      BY <1>14 DEF ExitBegin, ToCome, Outstanding
  <2>8. Accounted'
    BY <1>14 DEF ExitBegin, Accounted
  <2>9. Awaited'
    BY <1>14 DEF ExitBegin, Awaited
  <2> QED
    BY <2>1, <2>2, <2>3, <2>4, <2>5, <2>6, <2>7, <2>8, <2>9, <2>10
<1>15. ASSUME AtexitFlush PROVE Inv'
  <2>1. TypeOK'
    BY <1>15 DEF AtexitFlush, Drained, TypeOK
  <2>2. Numbered'
    BY <1>15 DEF AtexitFlush, Drained, Numbered, Writing
  <2>3. Holding'
    BY <1>15 DEF AtexitFlush, Drained, Holding
  <2>4. OneWorker'
    BY <1>15 DEF AtexitFlush, Drained, OneWorker, Busy, Unsettled, Elems
  <2>5. Forward'
    BY <1>15 DEF AtexitFlush, Drained, Forward
  <2>10. Alone'
    BY <1>15 DEF AtexitFlush, Alone, TypeOK, Unsettled, Working
  <2>6. LeftAlone'
    BY <1>15 DEF AtexitFlush, Drained, LeftAlone, Safe
  <2>7. ToCome'
    BY <1>15 DEF AtexitFlush, Drained, ToCome, Outstanding
  <2>8. Accounted'
    BY <1>15 DEF AtexitFlush, Drained, Accounted
  <2>9. Awaited'
    BY <1>15 DEF AtexitFlush, Drained, Awaited
  <2> QED
    BY <2>1, <2>2, <2>3, <2>4, <2>5, <2>6, <2>7, <2>8, <2>9, <2>10
<1>16. ASSUME Kill PROVE Inv'
  <2>1. TypeOK'
    <3>1. <<>> \in Seq(Job) /\ 0 \in 0 .. MaxJobs /\ 0 \in 0 .. Attempts - 1
      BY EmptySeq
    <3>2. /\ fut' \in [Job -> Status] /\ path' \in [Job -> Path \cup {NoPath}]
          /\ keep' \in [Job -> BOOLEAN] /\ seen' \in [Job -> Nat]
      BY <1>16 DEF Kill, Status, Absent
    <3>3. made' \in 0 .. MaxJobs /\ tries' \in [Job -> 0 .. Attempts - 1]
      BY <1>16, <3>1 DEF Kill
    <3>4. queue' \in Seq(Job) /\ pending' \in Seq(Job) /\ hands' \in [Thread -> Seq(Job)]
      BY <1>16, <3>1 DEF Kill
    <3>5. /\ pc' \in [Thread -> {"idle", "writing", "mixing", "written", "submitted", "waiting"}]
          /\ arg' \in [Thread -> Path \cup {NoPath}] /\ mine' \in [Thread -> 0 .. MaxJobs]
          /\ asked' \in [Thread -> SUBSET Job] /\ promised' \in SUBSET Job
      BY <1>16, <3>1 DEF Kill
    <3> QED
      BY <1>16, <3>2, <3>3, <3>4, <3>5 DEF Kill, TypeOK
  <2>2. Numbered'
    <3>1. Writing' = {}
      BY <1>16 DEF Kill, Writing
    <3>2. Cardinality(Writing') = 0
      BY <3>1, FS_EmptySet
    <3> QED
      BY <1>16, <3>2 DEF Kill, Numbered, Job
  <2>3. Holding'
    BY <1>16 DEF Kill, Alive, Holding
  <2>4. OneWorker'
    BY <1>16 DEF Kill, Alive, OneWorker, Busy, Working
  <2>5. Forward'
    BY <1>16 DEF Kill, Alive, Forward
  <2>10. Alone'
    BY <1>16 DEF Kill, Alone, TypeOK, Unsettled, Working
  <2>6. LeftAlone'
    <3>1. /\ \A j \in Job : fut'[j] \notin Unsettled
          /\ \A u \in Thread : arg'[u] = NoPath
          /\ UNCHANGED <<local, remote, written, half, cut, rewritten>>
      BY <1>16 DEF Kill, Unsettled, Working
    <3> QED
      BY <3>1 DEF LeftAlone, Safe
  <2>7. ToCome'
    BY <1>16 DEF Kill, Alive, ToCome
  <2>8. Accounted'
    BY <1>16 DEF Kill, Alive, Accounted
  <2>9. Awaited'
    BY <1>16 DEF Kill, Alive, Awaited
  <2> QED
    BY <2>1, <2>2, <2>3, <2>4, <2>5, <2>6, <2>7, <2>8, <2>9, <2>10
<1>17. CASE UNCHANGED vars
  <2> USE <1>17 DEF vars
  <2>1. TypeOK' /\ Numbered' /\ Holding'
    BY DEF TypeOK, Numbered, Holding, Writing
  <2>2. OneWorker' /\ Forward' /\ Alone' /\ LeftAlone'
    BY DEF OneWorker, Forward, Alone, LeftAlone, Busy, Safe
  <2>3. ToCome' /\ Accounted' /\ Awaited'
    BY DEF ToCome, Outstanding, Accounted, InReach, Awaited
  <2> QED
    BY <2>1, <2>2, <2>3
<1> QED
  BY <1>1, <1>2, <1>3, <1>4, <1>5, <1>6, <1>7, <1>8, <1>9, <1>10, <1>11, <1>12, <1>13, <1>14,
     <1>15, <1>16, <1>17, <1>18, <1>19, <1>20 DEF Next, Caller, Worker, WaitFails, WaitTimesOut, Ended

\* Every state satisfies the invariant.
LEMMA Invariance == Spec => []Inv
<1>1. Init => Inv
  <2> SUFFICES ASSUME Init PROVE Inv
    OBVIOUS
  <2> USE UploadPoolAssumption DEF Init
  <2>1. TypeOK
    <3>1. made \in 0 .. MaxJobs /\ <<>> \in Seq(Job)
      OBVIOUS
    <3>2. tries \in [Job -> 0 .. Attempts - 1] /\ mine \in [Thread -> 0 .. MaxJobs]
      OBVIOUS
    <3> QED
      BY <3>1, <3>2 DEF TypeOK, Status, Absent
  <2>2. Numbered
    <3>1. Writing = {}
      BY DEF Writing
    <3> QED
      BY <3>1, FS_EmptySet DEF Numbered, Job
  <2>3. Holding /\ OneWorker
    BY DEF Holding, Inside, OneWorker, Busy, Working, Unsettled, Elems
  <2>4. Forward /\ Alone /\ LeftAlone
    BY DEF Forward, Alone, LeftAlone, Unsettled, Working, Safe, Absent
  <2>5. ToCome /\ Awaited
    BY DEF ToCome, Whole, Awaited, Absent
  <2>6. Accounted
    BY DEF Accounted, Job
  <2> QED
    BY <2>1, <2>2, <2>3, <2>4, <2>5, <2>6 DEF Inv
<1> QED
  BY <1>1, NextInv, PTL DEF Spec

-----------------------------------------------------------------------------

\* What the pool, its callers and its worker hold is of its type: in particular
\* no job is numbered past MaxJobs, and no upload is tried more often than
\* s3_retries() and the fallback allow.
THEOREM TypeCorrect == Spec => []TypeOK
<1>1. Inv => TypeOK
  BY DEF Inv
<1> QED
  BY <1>1, Invariance, PTL

\* Until a wait raises, every upload that has not succeeded is in _PENDING, in
\* the hands of a wait_for_uploads, or about to be tracked by its submitter.
THEOREM NothingForgotten == Spec => []Accounted
<1>1. Inv => Accounted
  BY DEF Inv
<1> QED
  BY <1>1, Invariance, PTL

\* A wait_for_uploads that returns vouches for every upload tracked before it was
\* called, as long as no wait has raised and no two waits have overlapped.
THEOREM ReturnVouches == Spec => []ReturnMeansFinishedAlone
<1>1. Inv => ReturnMeansFinishedAlone
  BY DEF Inv, Awaited, ReturnMeansFinishedAlone, ReturnMeansFinished, TypeOK
<1> QED
  BY <1>1, Invariance, PTL

\* The last version of a path that is left alone while an upload of it is
\* unsettled is on the disk or on S3, in the states after a preemption too.
THEOREM NothingLost == Spec => []NoContentLostIfLeftAlone
<1>1. Inv => NoContentLostIfLeftAlone
  BY DEF Inv, LeftAlone, NoContentLostIfLeftAlone
<1> QED
  BY <1>1, Invariance, PTL

\* A process that exits after no upload has failed leaves the last version of
\* every such path on S3: nothing queued or unsubmitted is abandoned.
THEOREM CleanExit == Spec => []CleanExitPublishesAll
<1>1. Inv => CleanExitPublishesAll
  <2> SUFFICES ASSUME Inv, phase = "exited", \A j \in Job : fut[j] # "failed",
                      NEW p \in Path \ (rewritten \cup half)
               PROVE  Whole(p)
    BY DEF CleanExitPublishesAll
  <2>1. Whole(p) \/ Outstanding(p)
    BY DEF Inv, ToCome
  <2>2. \A t \in Thread : arg[t] = NoPath
    BY DEF Inv, Holding, Inside
  <2>3. \A j \in Job : fut[j] \notin Unsettled
    BY DEF Inv, OneWorker
  <2> QED
    BY <2>1, <2>2, <2>3, UploadPoolAssumption DEF Outstanding
<1> QED
  BY <1>1, Invariance, PTL

\* Seen from S3 the pool is the publisher of PublishedCopy: a landing transfer
\* publishes the version it read, no key goes back to an older one, and a file
\* that was never opened for writing under an unsettled upload of it is whole.
THEOREM Publishes == Spec => MirrorSpec
<1>1. Init => Mirror!Init
  BY DEF Init, Mirror!Init, Absent
<1>2. Inv /\ [Next]_vars => [Mirror!Next]_(Mirror!vars)
  <2> SUFFICES ASSUME Inv, [Next]_vars PROVE [Mirror!Next]_(Mirror!vars)
    OBVIOUS
  <2> USE DEF Mirror!vars
  <2>1. ASSUME NEW t \in Thread, NEW p \in Path, WriteBegin(t, p)
        PROVE  Mirror!Write(p)
    BY <2>1 DEF WriteBegin, Mirror!Write
  <2>2. ASSUME NEW j \in Job, fut[j] = "reading", remote' = [remote EXCEPT ![path[j]] = seen[j]],
               UNCHANGED <<written, rewritten>>
        PROVE  Mirror!Forward(path[j])
    <3>1. /\ remote[path[j]] \in Nat /\ seen[j] \in Nat /\ written[path[j]] \in Nat
          /\ remote[path[j]] <= seen[j] /\ seen[j] <= written[path[j]]
      BY <2>2 DEF Inv, Forward, Numbered, TypeOK
    <3>2. seen[j] \in remote[path[j]] .. written[path[j]]
      BY <3>1
    <3> QED
      BY <2>2, <3>2 DEF Mirror!Forward
  <2>3. ASSUME NEW j \in Job, Land(j) PROVE Mirror!Publish(path[j]) \/ Mirror!PublishPart(path[j])
    <3>1. Mirror!Forward(path[j])
      BY <2>2, <2>3 DEF Land, history
    <3>2. CASE j \in mid
      <4>1. path[j] \in rewritten
        BY <2>3, <3>2 DEF Land, Inv, LeftAlone, Unsettled, Working
      <4> QED
        BY <2>3, <3>1, <3>2, <4>1 DEF Land, Mirror!PublishPart
    <3>3. CASE j \notin mid
      BY <2>3, <3>1, <3>3 DEF Land, Mirror!Publish
    <3> QED
      BY <3>2, <3>3
  <2>4. ASSUME NEW j \in Job, LandSome(j) PROVE Mirror!PublishPart(path[j])
    BY <2>2, <2>4 DEF LandSome, history, Mirror!PublishPart
  <2>5. ASSUME NEW t \in Thread, Caller(t), ~ \E p \in Path : WriteBegin(t, p)
        PROVE  UNCHANGED <<remote, written, cut, rewritten>>
    BY <2>5 DEF Caller, WriteEnd, WriteRaises, Submit, SkipMissing, Track, WaitBegin, WaitEmpty,
                WaitNext, WaitFails, WaitTimesOut, Raise, disk, history
  <2>6. ASSUME Worker, ~ \E j \in Job : Land(j) \/ LandSome(j)
        PROVE  UNCHANGED <<remote, written, cut, rewritten>>
    BY <2>6 DEF Worker, StartJob, ReadLocal, AttemptFails, Finish, disk, history
  <2>7. ASSUME ExitBegin \/ AtexitFlush \/ Kill \/ Ended \/ UNCHANGED vars
        PROVE  UNCHANGED <<remote, written, cut, rewritten>>
    BY <2>7 DEF ExitBegin, AtexitFlush, Kill, Ended, vars, disk, history
  <2>8. \A j \in Job : Land(j) \/ LandSome(j) => path[j] \in Path
    BY DEF Land, LandSome, Inv, Numbered
  <2> QED
    BY <2>1, <2>3, <2>4, <2>5, <2>6, <2>7, <2>8 DEF Next, Mirror!Next
<1> QED
  BY <1>1, <1>2, Invariance, PTL DEF Spec, MirrorSpec, Mirror!Spec

==============================================================================
