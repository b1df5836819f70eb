---------------------------- MODULE StagingProofs ----------------------------
(***************************************************************************)
(* Proofs about Staging, for every set of processes and directories, every *)
(* budget and number of calls.                                             *)
(***************************************************************************)
EXTENDS Staging, FiniteSetTheorems, TLAPS

-----------------------------------------------------------------------------
(* Facts about the operators.                                              *)

\* One sequence after another.
LEMMA Joined ==
    ASSUME NEW S, NEW a \in Seq(S), NEW b \in Seq(S)
    PROVE  /\ a \o b \in Seq(S) /\ Len(a \o b) = Len(a) + Len(b)
           /\ \A j \in 1 .. Len(a) : (a \o b)[j] = a[j]
           /\ \A j \in 1 .. Len(b) : (a \o b)[Len(a) + j] = b[j]
  OBVIOUS

\* The order of use stays one when a directory leaves it ...
LEMMA OrderWithout ==
    ASSUME staged \in Seq(Dir), IsInjective(staged), NEW d
    PROVE  /\ Without(d) \in Seq(Dir) /\ IsInjective(Without(d))
           /\ ToSet(Without(d)) = Staged \ {d}
<1>1. CASE d \notin Staged
  BY <1>1 DEF Without, Staged
<1>2. CASE d \in Staged
  <2>1. PICK i \in DOMAIN staged :
            staged[i] = d /\ Without(d) = SubSeq(staged, 1, i - 1) \o SubSeq(staged, i + 1, Len(staged))
    <3>1. \E j \in DOMAIN staged : staged[j] = d
      BY <1>2 DEF Staged, ToSet
    <3>2. PICK i : i = CHOOSE j \in DOMAIN staged : staged[j] = d
      OBVIOUS
    <3>3. i \in DOMAIN staged /\ staged[i] = d
      BY <3>1, <3>2
    <3> QED BY <1>2, <3>2, <3>3 DEF Without, RemoveAt
  <2> DEFINE n == Len(staged)
             w == SubSeq(staged, 1, i - 1) \o SubSeq(staged, i + 1, n)
  <2>2. n \in Nat /\ i \in 1 .. n /\ DOMAIN staged = 1 .. n
    BY <2>1
  <2>3. \A j \in 1 .. n : j # i => staged[j] # d
    BY <2>1, <2>2 DEF IsInjective
  <2>4. /\ w \in Seq(Dir) /\ Len(w) = n - 1
        /\ \A j \in 1 .. n - 1 : w[j] = IF j < i THEN staged[j] ELSE staged[j + 1]
    <3> DEFINE a == SubSeq(staged, 1, i - 1)
               b == SubSeq(staged, i + 1, n)
    <3>1. a \in Seq(Dir) /\ Len(a) = i - 1 /\ \A j \in 1 .. i - 1 : a[j] = staged[j]
      BY <2>2
    <3>2. b \in Seq(Dir) /\ Len(b) = n - i /\ \A j \in 1 .. n - i : b[j] = staged[i + j]
      BY <2>2
    <3> HIDE DEF a, b, n
    <3>a. /\ a \o b \in Seq(Dir) /\ Len(a \o b) = (i - 1) + (n - i)
          /\ \A j \in 1 .. i - 1 : (a \o b)[j] = a[j]
          /\ \A j \in 1 .. n - i : (a \o b)[(i - 1) + j] = b[j]
      <4>0. a \in Seq(Dir) /\ b \in Seq(Dir)
        BY <3>1, <3>2
      <4>1. /\ a \o b \in Seq(Dir) /\ Len(a \o b) = Len(a) + Len(b)
            /\ \A j \in 1 .. Len(a) : (a \o b)[j] = a[j]
            /\ \A j \in 1 .. Len(b) : (a \o b)[Len(a) + j] = b[j]
        BY <4>0, Joined
      <4> QED BY <3>1, <3>2, <4>1, Zenon
    <3> DEFINE c == a \o b
    <3> HIDE DEF c
    <3>3. c \in Seq(Dir) /\ Len(c) = n - 1
      BY <2>2, <3>a DEF c
    <3>b. /\ \A j \in 1 .. i - 1 : c[j] = staged[j]
          /\ \A j \in 1 .. n - i : c[(i - 1) + j] = staged[i + j]
      BY <3>1, <3>2, <3>a DEF c
    <3>4. ASSUME NEW j \in 1 .. n - 1
          PROVE  c[j] = IF j < i THEN staged[j] ELSE staged[j + 1]
      <4>1. CASE j < i
        BY <2>2, <3>b, <4>1
      <4>2. CASE ~ (j < i)
        <5>1. /\ j - (i - 1) \in 1 .. n - i
              /\ (i - 1) + (j - (i - 1)) = j /\ i + (j - (i - 1)) = j + 1
          BY <2>2, <4>2
        <5> QED BY <3>b, <4>2, <5>1
      <4> QED BY <4>1, <4>2
    <3> QED BY <3>3, <3>4 DEF a, b, c
  <2> HIDE DEF w, n
  <2>5. IsInjective(w)
    <3>1. DOMAIN w = 1 .. n - 1
      BY <2>2, <2>4
    <3>2. \A j, k \in 1 .. n : staged[j] = staged[k] => j = k
      BY <2>2 DEF IsInjective
    <3>3. ASSUME NEW j \in 1 .. n - 1, NEW k \in 1 .. n - 1, w[j] = w[k] PROVE j = k
      BY <2>2, <2>4, <3>2, <3>3
    <3> QED BY <3>1, <3>3 DEF IsInjective
  <2>a. DOMAIN w = 1 .. n - 1
    BY <2>2, <2>4
  <2>6. ASSUME NEW x \in ToSet(w) PROVE x \in Staged \ {d}
    <3>1. PICK j \in 1 .. n - 1 : x = w[j]
      BY <2>a DEF ToSet
    <3>2. PICK k \in 1 .. n : x = staged[k] /\ k # i
      BY <2>2, <2>4, <3>1
    <3> QED BY <2>2, <2>3, <3>2 DEF Staged, ToSet
  <2>7. ASSUME NEW x \in Staged \ {d} PROVE x \in ToSet(w)
    <3>1. PICK j \in 1 .. n : x = staged[j]
      BY <2>2 DEF Staged, ToSet
    <3>2. j # i
      BY <2>1, <3>1
    <3>3. CASE j < i
      <4>1. j \in 1 .. n - 1 /\ w[j] = x
        BY <2>2, <2>4, <3>1, <3>3
      <4> QED BY <2>a, <4>1 DEF ToSet
    <3>4. CASE j > i
      <4>1. j - 1 \in 1 .. n - 1 /\ w[j - 1] = x
        <5>1. j - 1 \in 1 .. n - 1 /\ ~ (j - 1 < i) /\ (j - 1) + 1 = j
          BY <2>2, <3>4
        <5> QED BY <2>4, <3>1, <5>1
      <4> QED BY <2>a, <4>1 DEF ToSet
    <3> QED BY <2>2, <3>2, <3>3, <3>4
  <2>8. Without(d) = w
    BY <2>1 DEF w, n
  <2>9. ToSet(w) = Staged \ {d}
    BY <2>6, <2>7
  <2> QED BY <2>4, <2>5, <2>8, <2>9
<1> QED BY <1>1, <1>2

\* ... and when one comes last.
LEMMA OrderTouched ==
    ASSUME staged \in Seq(Dir), IsInjective(staged), NEW d \in Dir
    PROVE  /\ Touch(d) \in Seq(Dir) /\ IsInjective(Touch(d))
           /\ ToSet(Touch(d)) = Staged \cup {d}
<1> DEFINE w == Without(d)
           t == Append(w, d)
<1>1. w \in Seq(Dir) /\ IsInjective(w) /\ ToSet(w) = Staged \ {d}
  BY OrderWithout
<1> HIDE DEF w
<1>2. /\ t \in Seq(Dir) /\ Len(t) = Len(w) + 1 /\ Len(w) \in Nat
      /\ t[Len(w) + 1] = d /\ \A i \in 1 .. Len(w) : t[i] = w[i] /\ w[i] # d
  <2>1. \A i \in 1 .. Len(w) : w[i] \in ToSet(w)
    BY <1>1 DEF ToSet
  <2> QED BY <1>1, <2>1
<1>3. IsInjective(t)
  BY <1>1, <1>2 DEF IsInjective
<1>4. ToSet(t) = ToSet(w) \cup {d}
  <2> HIDE DEF t
  <2>1. DOMAIN t = 1 .. Len(w) + 1 /\ DOMAIN w = 1 .. Len(w)
    BY <1>1, <1>2
  <2>2. ASSUME NEW x \in ToSet(t) PROVE x \in ToSet(w) \cup {d}
    BY <1>2, <2>1, <2>2 DEF ToSet
  <2>3. ASSUME NEW x \in ToSet(w) \cup {d} PROVE x \in ToSet(t)
    <3>1. PICK i \in 1 .. Len(w) + 1 : x = t[i]
      BY <1>2, <2>1, <2>3 DEF ToSet
    <3> QED BY <2>1, <3>1 DEF ToSet
  <2> QED BY <2>2, <2>3
<1> QED BY <1>1, <1>2, <1>3, <1>4 DEF Touch, w

\* What a list <<directory, size>> counts.
Units(E) == UNION {{e[1]} \X (1 .. e[2]) : e \in E}

Listed == Dir \X (0 .. 2)

\* No directory is listed twice.
OneEach(E) == \A e, f \in E : e[1] = f[1] => e = f

\* The two files.
LEMMA FileFinite == IsFiniteSet(File) /\ Cardinality(File) = 2
<1>1. IsFiniteSet({"model"}) /\ Cardinality({"model"}) = 1
  BY FS_Singleton
<1>2. IsFiniteSet({"model"} \cup {"ema"}) /\ Cardinality({"model"} \cup {"ema"}) = 2
  BY <1>1, FS_AddElement
<1>3. File = {"model"} \cup {"ema"}
  BY DEF File
<1> QED BY <1>2, <1>3

\* A directory has two files at most.
LEMMA SizeIs ==
    ASSUME NEW d
    PROVE  /\ Size(d) \in 0 .. 2
           /\ Size(d) = 0 <=> \A f \in File : ~Present(d, f)
<1> DEFINE F == {f \in File : Present(d, f)}
<1>2. IsFiniteSet(F) /\ Cardinality(F) <= 2 /\ Cardinality(F) \in Nat
  BY FileFinite, FS_Subset, FS_CardinalityType
<1>3. Cardinality(F) = 0 <=> F = {}
  BY <1>2, FS_EmptySet
<1> QED BY <1>2, <1>3 DEF Size

\* A list counts finitely much.
LEMMA UnitsFinite ==
    ASSUME NEW t \in Seq(Listed)
    PROVE  IsFiniteSet(Units(ToSet(t)))
<1> DEFINE D == {e[1] : e \in ToSet(t)}
           f == [i \in 1 .. Len(t) |-> t[i][1]]
<1>1. Len(t) \in Nat /\ DOMAIN t = 1 .. Len(t) /\ \A i \in 1 .. Len(t) : t[i] \in Listed
  OBVIOUS
<1>2. f \in Surjection(1 .. Len(t), D)
  BY <1>1 DEF Surjection, ToSet
<1>3. IsFiniteSet(D)
  BY <1>1, <1>2, FS_Interval, FS_Surjection
<1>4. IsFiniteSet(D \X (1 .. 2))
  <2>1. 1 \in Int /\ 2 \in Int
    OBVIOUS
  <2>2. IsFiniteSet(1 .. 2)
    BY <2>1, FS_Interval, Zenon
  <2> HIDE DEF D
  <2> QED BY <1>3, <2>2, FS_Product
<1>5. Units(ToSet(t)) \subseteq D \X (1 .. 2)
  <2>1. ASSUME NEW u \in Units(ToSet(t)) PROVE u \in D \X (1 .. 2)
    <3>1. PICK e \in ToSet(t) : u \in {e[1]} \X (1 .. e[2])
      BY DEF Units
    <3>2. e[2] \in 0 .. 2 /\ e[1] \in D
      BY <1>1 DEF ToSet, Listed
    <3> QED BY <3>1, <3>2
  <2> QED BY <2>1
<1> QED BY <1>4, <1>5, FS_Subset

\* Sizes add up, one directory at a time.
LEMMA SizesAddUp ==
    ASSUME NEW E \in SUBSET Listed, OneEach(E), IsFiniteSet(Units(E)), NEW e \in E
    PROVE  /\ IsFiniteSet(Units(E \ {e}))
           /\ Cardinality(Units(E \ {e})) \in Nat
           /\ Cardinality(Units(E)) = Cardinality(Units(E \ {e})) + e[2]
<1> DEFINE U == {e[1]} \X (1 .. e[2])
<1>1. e[1] \in Dir /\ e[2] \in 0 .. 2
  BY DEF Listed
<1>2. Units(E) = Units(E \ {e}) \cup U
  BY DEF Units
<1>3. Units(E \ {e}) \cap U = {}
  <2> SUFFICES ASSUME NEW u \in Units(E \ {e}), u \in U PROVE FALSE
    OBVIOUS
  <2>1. PICK f \in E \ {e} : u \in {f[1]} \X (1 .. f[2])
    BY DEF Units
  <2>2. u[1] = f[1] /\ u[1] = e[1]
    BY <2>1
  <2> QED BY <2>2 DEF OneEach
<1>4. IsFiniteSet(U) /\ Cardinality(U) = e[2]
  <2>1. IsFiniteSet({e[1]}) /\ Cardinality({e[1]}) = 1
    BY FS_Singleton
  <2>2. IsFiniteSet(1 .. e[2]) /\ Cardinality(1 .. e[2]) = e[2]
    BY <1>1, FS_Interval
  <2>3. IsFiniteSet(U) /\ Cardinality(U) = Cardinality({e[1]}) * Cardinality(1 .. e[2])
    BY <2>1, <2>2, FS_Product
  <2> QED BY <1>1, <2>1, <2>2, <2>3
<1>5. IsFiniteSet(Units(E \ {e}))
  BY <1>2, FS_Subset
<1>6. Cardinality(Units(E \ {e}) \cap U) = 0
  BY <1>3, FS_EmptySet
<1>7. Cardinality(Units(E \ {e})) \in Nat
  BY <1>5, FS_CardinalityType
<1>8. Cardinality(Units(E)) = Cardinality(Units(E \ {e})) + Cardinality(U) - 0
  <2>1. Cardinality(Units(E \ {e}) \cup U)
            = Cardinality(Units(E \ {e})) + Cardinality(U) - Cardinality(Units(E \ {e}) \cap U)
    BY <1>4, <1>5, FS_Union
  <2> QED BY <1>2, <1>6, <2>1
<1> QED BY <1>1, <1>4, <1>5, <1>7, <1>8

-----------------------------------------------------------------------------
(* Types.                                                                  *)

\* A process in a call has a directory and a file; the flock is of a mounted
\* directory; a file at work is one still to fetch or copy.
Calls ==
    \A p \in Proc :
        /\ pc[p] # "idle" => dir[p] \in Dir /\ want[p] \in File
        /\ pc[p] \in {"lock", "recheck", "copy"} => dir[p] \in MountDir
        /\ pc[p] = "fetch" => dir[p] \in S3Dir
        /\ \A e \in cur[p] :
            e[1] \in left[p] /\ pc[p] \in {"fetch", "copy"} /\ (pc[p] = "copy" => e[2] = "writing")

\* No directory is listed twice for the eviction, which counts at least what it
\* has still to look at.
Counts ==
    \A p \in Proc :
        /\ \A i, j \in DOMAIN todo[p] : todo[p][i][1] = todo[p][j][1] => i = j
        /\ SumSizes(todo[p]) <= total[p]

\* The parts of TypeOK.
Shapes ==
    /\ file \in [Dir -> [File -> {"absent", "partial", "whole"}]]
    /\ made \in SUBSET Dir
    /\ lock \in [MountDir -> Proc \cup {NoProc}]
    /\ pc \in [Proc -> {"idle", "check", "fetch", "lock", "recheck", "copy", "scan", "evict"}]
    /\ dir \in [Proc -> Dir \cup {NoDir}] /\ want \in [Proc -> File \cup {"none"}]
    /\ left \in [Proc -> SUBSET File]
    /\ cur \in [Proc -> SUBSET (File \X {"begun", "writing"})]
    /\ calls \in 0 .. MaxCalls
    /\ raced \in SUBSET Dir /\ reused \in SUBSET Dir /\ calm \in [Proc -> BOOLEAN]
Order == staged \in Seq(Dir) /\ IsInjective(staged)
Lists == todo \in [Proc -> Seq(Dir \X (0 .. 2))] /\ total \in [Proc -> Nat]
Tidy == \A d \in Dir \ made : d \notin Staged /\ \A f \in File : ~Present(d, f)

\* TypeOK is the conjunction of its parts.
LEMMA TypeParts == TypeOK <=> Shapes /\ Order /\ Lists /\ Tidy
  BY SizeIs DEF TypeOK, Shapes, Order, Lists, Tidy

\* ... after a step as well.
LEMMA TypePartsNext == Shapes' /\ Order' /\ Lists' /\ Tidy' => TypeOK'
  BY TypeParts, PTL

\* An action of process p.
Acts(p) ==
    \/ \E d \in Dir, f \in File : Call(p, d, f)
    \/ Step(p)
    \/ Lock(p)
    \/ Kill(p)

\* The directory that is next for the eviction.
LEMMA VictimIs ==
    ASSUME Lists, NEW p \in Proc, Visits(p)
    PROVE  /\ Len(todo[p]) \in Nat /\ Len(todo[p]) >= 1 /\ todo[p] \in Seq(Listed)
           /\ todo[p][1] \in Listed /\ Victim(p) \in Dir
  BY DEF Lists, Visits, Victim, Listed

\* One file is written or removed.
LEMMA FileSet ==
    ASSUME file \in [Dir -> [File -> {"absent", "partial", "whole"}]],
           NEW d \in Dir, NEW f \in File, NEW v \in {"absent", "partial", "whole"}, SetFile(d, f, v)
    PROVE  /\ file' \in [Dir -> [File -> {"absent", "partial", "whole"}]]
           /\ \A x \in Dir, g \in File : file'[x][g] = IF x = d /\ g = f THEN v ELSE file[x][g]
  BY DEF SetFile

\* Every step keeps the shapes of the variables, and what goes with the place of
\* a process in its call.
LEMMA ShapesStep ==
    ASSUME Shapes, Order, Lists, Calls, NEW p \in Proc, Acts(p)
    PROVE  Shapes' /\ Calls'
<1> USE DEF Shapes, Calls, Goto, SetFile, Moves, End, Dir, Targets, Written
<1>1. ASSUME NEW d \in Dir, NEW f \in File, Call(p, d, f) PROVE Shapes' /\ Calls'
  BY <1>1, StagingAssumption DEF Call, work, lru, history
<1>2. CASE CheckHit(p)
  BY <1>2 DEF CheckHit, history
<1>3. CASE CheckMiss(p)
  <2>1. CASE dir[p] \in S3Dir
    BY <1>3, <2>1 DEF CheckMiss, call, lru, history
  <2>2. CASE dir[p] \notin S3Dir
    BY <1>3, <2>2 DEF CheckMiss, call, lru, history
  <2> QED BY <2>1, <2>2
<1>4. CASE SkipFetch(p)
  BY <1>4 DEF SkipFetch, cache, call, lru, history
<1>5. CASE Fetch(p)
  BY <1>5 DEF Fetch, call, lru, history, Following
<1>6. CASE Truncate(p)
  BY <1>6 DEF Truncate, call, lru, history
<1>7. CASE Fetched(p)
  <2>1. PICK e \in cur[p] :
            /\ \E v \in {"absent", "partial", "whole"} : SetFile(dir[p], e[1], v)
            /\ left' = [left EXCEPT ![p] = @ \ {e[1]}]
    BY <1>7 DEF Fetched
  <2>2. file' \in [Dir -> [File -> {"absent", "partial", "whole"}]]
    <3>1. dir[p] \in Dir /\ e[1] \in File
      BY <1>7 DEF Fetched
    <3> QED BY <2>1, <3>1, FileSet
  <2>3. UNCHANGED <<made, lock, pc, dir, want, calls, raced, reused>>
        /\ left' = [left EXCEPT ![p] = left'[p]] /\ left'[p] \in SUBSET File
        /\ cur' = [cur EXCEPT ![p] = {}] /\ calm' = [q \in Proc |-> calm[q] /\ q = p]
    BY <1>7, <2>1 DEF Fetched, call, history
  <2> QED BY <2>2, <2>3
<1>8. CASE FetchRaises(p)
  BY <1>8 DEF FetchRaises, cache, history
<1>9. CASE SiblingFails(p)
  BY <1>9 DEF SiblingFails, cache, call, lru, history
<1>10. CASE FetchDone(p)
  BY <1>10 DEF FetchDone, WriteSentinel, call, work, lru, history
<1>11. CASE Lock(p)
  BY <1>11 DEF Lock, cache, call, work, lru, history
<1>12. CASE RecheckHit(p)
  BY <1>12 DEF RecheckHit, Unlocked, cache, call, work, lru, history
<1>13. CASE RecheckMiss(p)
  BY <1>13 DEF RecheckMiss, cache, call, lru
<1>14. CASE CopyBegins(p)
  BY <1>14 DEF CopyBegins, call, lru, history
<1>15. CASE CopyEnds(p)
  BY <1>15 DEF CopyEnds, call, lru, history
<1>16. CASE FallBack(p)
  BY <1>16 DEF FallBack, Unlocked, cache, history
<1>17. CASE CopyDone(p)
  BY <1>17 DEF CopyDone, WriteSentinel, Unlocked, call, work, lru, history
<1>18. CASE Scan(p)
  BY <1>18 DEF Scan, cache, call, work, history
<1>19. CASE EvictSkip(p)
  BY <1>19 DEF EvictSkip, cache, call, work, history
<1>20. CASE RemoveOne(p)
  <2>1. Victim(p) \in Dir
    BY <1>20, VictimIs DEF RemoveOne
  <2>2. file' \in [Dir -> [File -> {"absent", "partial", "whole"}]]
    <3>1. CASE UNCHANGED file
      BY <3>1
    <3>2. CASE \E f \in File : SetFile(Victim(p), f, "absent")
      BY <2>1, <3>2, FileSet
    <3> QED BY <1>20, <3>1, <3>2 DEF RemoveOne
  <2>a. raced' \in SUBSET Dir
    BY <1>20, <2>1 DEF RemoveOne
  <2>3. UNCHANGED <<made, lock, pc, dir, want, calls, left, cur, reused>> /\ calm' = [q \in Proc |-> calm[q] /\ q = p]
    BY <1>20 DEF RemoveOne, call, work
  <2> QED BY <2>2, <2>3, <2>a
<1>21. CASE Removed(p)
  BY <1>21 DEF Removed, call, work
<1>22. CASE RemoveFails(p)
  BY <1>22 DEF RemoveFails, cache, call, work, history
<1>23. CASE EvictDone(p)
  BY <1>23 DEF EvictDone, cache, history
<1>24. CASE Kill(p)
  BY <1>24 DEF Kill, cache, history
<1> QED
  BY <1>1, <1>2, <1>3, <1>4, <1>5, <1>6, <1>7, <1>8, <1>9, <1>10, <1>11, <1>12, <1>13, <1>14,
     <1>15, <1>16, <1>17, <1>18, <1>19, <1>20, <1>21, <1>22, <1>23, <1>24 DEF Acts, Step

\* What a step does to the order of use.
LEMMA OrderStep ==
    ASSUME Shapes, Order, Lists, Calls, NEW p \in Proc, Acts(p)
    PROVE  /\ Order'
           /\ \/ Staged' = Staged
              \/ (FetchDone(p) \/ CopyDone(p)) /\ Staged' = Staged \cup {dir[p]}
              \/ RemoveOne(p) /\ Staged' = Staged \ {Victim(p)}
<1>1. CASE UNCHANGED staged
  BY <1>1 DEF Order, Staged
<1>2. ASSUME CheckHit(p) \/ FetchDone(p) \/ CopyDone(p)
      PROVE  Order' /\ Staged' = Staged \cup {dir[p]}
  <2>1. dir[p] \in Dir /\ staged' = Touch(dir[p])
    BY <1>2 DEF CheckHit, FetchDone, CopyDone, WriteSentinel, Calls
  <2>2. Touch(dir[p]) \in Seq(Dir) /\ IsInjective(Touch(dir[p])) /\ ToSet(Touch(dir[p])) = Staged \cup {dir[p]}
    BY <2>1, OrderTouched DEF Order
  <2> QED BY <2>1, <2>2 DEF Order, Staged
<1>3. CheckHit(p) => dir[p] \in Staged
  BY DEF CheckHit, Hit
<1>4. CASE RemoveOne(p) /\ staged' = Without(Victim(p))
  <2>1. /\ Without(Victim(p)) \in Seq(Dir) /\ IsInjective(Without(Victim(p)))
        /\ ToSet(Without(Victim(p))) = Staged \ {Victim(p)}
    BY OrderWithout DEF Order
  <2> QED BY <1>4, <2>1 DEF Order, Staged
<1>5. \/ UNCHANGED staged \/ CheckHit(p) \/ FetchDone(p) \/ CopyDone(p)
      \/ RemoveOne(p) /\ staged' = Without(Victim(p))
  BY DEF Acts, Step, Call, CheckMiss, SkipFetch, Fetch, Truncate, Fetched, FetchRaises, SiblingFails,
         Lock, RecheckHit, RecheckMiss, CopyBegins, CopyEnds, FallBack, Scan, EvictSkip, RemoveOne, Removed,
         RemoveFails, EvictDone, Kill, cache
<1>6. CASE CheckHit(p)
  BY <1>2, <1>3, <1>6
<1> QED BY <1>1, <1>2, <1>4, <1>5, <1>6

\* What a step does to the files: a process writes in its own directory, in the
\* middle of a call; a file goes only when an eviction removes it.
Truncates(p) ==
    /\ Truncate(p) \/ CopyBegins(p)
    /\ \E f \in File : f \in left[p] /\ SetFile(dir[p], f, "partial")
Writes(p) ==
    /\ Fetched(p) \/ CopyEnds(p)
    /\ \E e \in cur[p] :
        /\ left' = [left EXCEPT ![p] = @ \ {e[1]}]
        /\ \/ SetFile(dir[p], e[1], "whole")
           \/ e[2] = "writing" /\ SetFile(dir[p], e[1], Written(p, e[1]))

\* Every step that changes a file is one of these.
LEMMA FileStep ==
    ASSUME Shapes, Lists, Calls, NEW p \in Proc, Acts(p)
    PROVE  \/ UNCHANGED file
           \/ Truncates(p) \/ Writes(p)
           \/ RemoveOne(p) /\ \E f \in File : SetFile(Victim(p), f, "absent")
<1>1. CASE Truncate(p)
  BY <1>1 DEF Truncate, Truncates, Shapes, Calls
<1>2. CASE CopyBegins(p)
  BY <1>2 DEF CopyBegins, Truncates, Shapes, Calls
<1>3. CASE Fetched(p)
  BY <1>3 DEF Fetched, Writes, Shapes, Calls
<1>4. CASE CopyEnds(p)
  BY <1>4 DEF CopyEnds, Writes, Shapes, Calls
<1>5. CASE RemoveOne(p)
  BY <1>5 DEF RemoveOne
<1>6. CASE ~ (Truncate(p) \/ CopyBegins(p) \/ Fetched(p) \/ CopyEnds(p) \/ RemoveOne(p))
  BY <1>6 DEF Acts, Step, Call, CheckHit, CheckMiss, SkipFetch, Fetch, FetchRaises, SiblingFails, FetchDone,
         Lock, RecheckHit, RecheckMiss, FallBack, CopyDone, Scan, EvictSkip, Removed,
         RemoveFails, EvictDone, Kill, cache
<1> QED BY <1>1, <1>2, <1>3, <1>4, <1>5, <1>6

\* A directory that is gone has no file and no sentinel.
LEMMA TidyStep ==
    ASSUME Shapes, Order, Lists, Calls, Tidy, NEW p \in Proc, Acts(p)
    PROVE  Tidy'
<1>1. pc[p] # "idle" => dir[p] \in Dir
  BY DEF Calls
<1>2. /\ Staged' \subseteq Staged \/ ((FetchDone(p) \/ CopyDone(p)) /\ Staged' = Staged \cup {dir[p]})
  BY OrderStep
<1>3. FetchDone(p) \/ CopyDone(p) => dir[p] \in made
  <2>1. FetchDone(p) => dir[p] \in made
    BY DEF FetchDone
  <2>2. CopyDone(p) => dir[p] \in Dir /\ want[p] \in File /\ Present(dir[p], want[p])
    BY DEF CopyDone, Calls
  <2> QED BY <2>1, <2>2 DEF Tidy
<1>4. ASSUME NEW d \in Dir, NEW f \in File, Present(d, f)'
      PROVE  d \in made
  <2>1. CASE UNCHANGED file
    BY <1>4, <2>1 DEF Present, Tidy
  <2>2. CASE Truncates(p)
    <3>1. PICK g \in File : SetFile(dir[p], g, "partial")
      BY <2>2 DEF Truncates
    <3>2. dir[p] \in Dir /\ dir[p] \in made
      BY <1>1, <2>2 DEF Truncates, Truncate, CopyBegins
    <3>3. d = dir[p] \/ file'[d][f] = file[d][f]
      BY <3>1, <3>2, FileSet DEF Shapes
    <3> QED BY <1>4, <3>2, <3>3 DEF Present, Tidy
  <2>3. CASE Writes(p)
    <3>1. PICK e \in cur[p] :
              \/ SetFile(dir[p], e[1], "whole") /\ dir[p] \in made
              \/ SetFile(dir[p], e[1], Written(p, e[1]))
      BY <2>3 DEF Writes, Fetched, CopyEnds, Calls
    <3>2. dir[p] \in Dir /\ e[1] \in File
      BY <1>1, <2>3 DEF Writes, Fetched, CopyEnds, Shapes
    <3>3. \/ dir[p] \in made /\ d = dir[p]
          \/ file'[d][f] = file[d][f]
          \/ d = dir[p] /\ f = e[1] /\ file'[d][f] = Written(p, e[1])
      BY <3>1, <3>2, FileSet DEF Shapes, Written
    <3> QED BY <1>4, <3>2, <3>3 DEF Present, Tidy, Written
  <2>4. CASE RemoveOne(p) /\ \E g \in File : SetFile(Victim(p), g, "absent")
    <3>1. PICK g \in File : SetFile(Victim(p), g, "absent")
      BY <2>4
    <3>2. Victim(p) \in Dir
      BY <2>4, VictimIs DEF RemoveOne
    <3>3. file'[d][f] = "absent" \/ file'[d][f] = file[d][f]
      BY <3>1, <3>2, FileSet DEF Shapes
    <3> QED BY <1>4, <3>3 DEF Present, Tidy
  <2> QED BY <2>1, <2>2, <2>3, <2>4, FileStep
<1>5. made \subseteq made' \/ Removed(p)
  BY DEF Acts, Step, Call, CheckHit, CheckMiss, SkipFetch, Fetch, Truncate, Fetched, FetchRaises, SiblingFails,
         FetchDone, Lock, RecheckHit, RecheckMiss, CopyBegins, CopyEnds, FallBack, CopyDone, Scan, EvictSkip,
         RemoveOne, RemoveFails, EvictDone, Kill, cache
<1>6. CASE Removed(p)
  <2>1. /\ UNCHANGED <<file, staged>> /\ made' = made \ {Victim(p)}
        /\ Victim(p) \notin Staged /\ Size(Victim(p)) = 0
    BY <1>6 DEF Removed
  <2>2. \A f \in File : ~Present(Victim(p), f)
    BY <2>1, SizeIs
  <2> QED BY <2>1, <2>2 DEF Tidy, Staged, Present
<1>7. CASE made \subseteq made'
  BY <1>2, <1>3, <1>4, <1>7 DEF Tidy
<1> QED BY <1>5, <1>6, <1>7

-----------------------------------------------------------------------------
(* What an eviction counts.                                                *)

Different(t) == \A i, j \in DOMAIN t : t[i][1] = t[j][1] => i = j

\* A list without a directory twice, as a set.
LEMMA DifferentIs ==
    ASSUME NEW t \in Seq(Listed), Different(t)
    PROVE  OneEach(ToSet(t)) /\ ToSet(t) \in SUBSET Listed
  BY DEF Different, OneEach, ToSet

\* The first directory of a list, and the others.
LEMMA TailIs ==
    ASSUME NEW t \in Seq(Listed), Different(t), t # <<>>
    PROVE  /\ Tail(t) \in Seq(Listed) /\ Different(Tail(t))
           /\ t[1] \in ToSet(t) /\ ToSet(Tail(t)) = ToSet(t) \ {t[1]}
           /\ SumSizes(Tail(t)) \in Nat
           /\ SumSizes(t) = SumSizes(Tail(t)) + t[1][2]
<1> DEFINE u == Tail(t)
<1>1. /\ Len(t) \in Nat /\ Len(t) >= 1 /\ DOMAIN t = 1 .. Len(t)
      /\ u \in Seq(Listed) /\ Len(u) = Len(t) - 1 /\ DOMAIN u = 1 .. Len(t) - 1
      /\ \A i \in 1 .. Len(t) - 1 : u[i] = t[i + 1]
  OBVIOUS
<1> HIDE DEF u
<1>2. Different(u)
  <2>1. ASSUME NEW i \in DOMAIN u, NEW j \in DOMAIN u, u[i][1] = u[j][1] PROVE i = j
    <3>1. i + 1 \in DOMAIN t /\ j + 1 \in DOMAIN t /\ t[i + 1][1] = t[j + 1][1]
      BY <1>1, <2>1
    <3>2. i + 1 = j + 1
      BY <3>1 DEF Different
    <3> QED BY <1>1, <3>2
  <2> QED BY <2>1 DEF Different
<1>3. t[1] \in ToSet(t)
  BY <1>1 DEF ToSet
<1>4. ASSUME NEW x \in ToSet(u) PROVE x \in ToSet(t) \ {t[1]}
  <2>1. PICK i \in 1 .. Len(t) - 1 : x = t[i + 1]
    BY <1>1 DEF ToSet
  <2>2. i + 1 \in DOMAIN t /\ 1 \in DOMAIN t /\ i + 1 # 1
    BY <1>1
  <2> QED BY <2>1, <2>2 DEF ToSet, Different
<1>5. ASSUME NEW x \in ToSet(t) \ {t[1]} PROVE x \in ToSet(u)
  <2>1. PICK i \in 1 .. Len(t) : x = t[i] /\ i # 1
    BY <1>1 DEF ToSet
  <2>2. i - 1 \in DOMAIN u /\ u[i - 1] = x
    BY <1>1, <2>1
  <2> QED BY <2>2 DEF ToSet
<1>6. ToSet(u) = ToSet(t) \ {t[1]}
  BY <1>4, <1>5
<1>7. OneEach(ToSet(t)) /\ ToSet(t) \in SUBSET Listed
  BY DifferentIs
<1>8. /\ Cardinality(Units(ToSet(t) \ {t[1]})) \in Nat
      /\ Cardinality(Units(ToSet(t))) = Cardinality(Units(ToSet(t) \ {t[1]})) + t[1][2]
  BY <1>3, <1>7, UnitsFinite, SizesAddUp
<1> QED BY <1>1, <1>2, <1>3, <1>6, <1>8 DEF SumSizes, Units, u

\* The list of what is staged now.
Now(D) == {<<d, Size(d)>> : d \in D}

\* It is what _evict_lru lists and adds up.
LEMMA SizesIs ==
    ASSUME Order
    PROVE  /\ Sizes \in Seq(Listed) /\ Different(Sizes) /\ ToSet(Sizes) = Now(Staged)
           /\ SumSizes(Sizes) = Cardinality(Units(Now(Staged)))
           /\ SumSizes(Sizes) \in Nat
           /\ IsFiniteSet(Units(Now(Staged)))
<1>1. /\ DOMAIN staged = 1 .. Len(staged) /\ Len(staged) \in Nat
      /\ \A i \in 1 .. Len(staged) : staged[i] \in Dir
  BY DEF Order
<1>2. DOMAIN Sizes = DOMAIN staged /\ \A i \in DOMAIN staged : Sizes[i] = <<staged[i], Size(staged[i])>>
  BY DEF Sizes
<1>3. Sizes \in Seq(Listed)
  <2>1. \A i \in DOMAIN staged : <<staged[i], Size(staged[i])>> \in Listed
    BY <1>1, SizeIs DEF Listed
  <2> QED BY <1>1, <2>1 DEF Sizes
<1>4. Different(Sizes)
  BY <1>2 DEF Different, Order, IsInjective
<1>5. ToSet(Sizes) = Now(Staged)
  BY <1>2 DEF ToSet, Now, Staged
<1>6. IsFiniteSet(Units(Now(Staged)))
  BY <1>3, <1>5, UnitsFinite
<1>7. SumSizes(Sizes) = Cardinality(Units(Now(Staged)))
  BY <1>5 DEF SumSizes, Units
<1> QED BY <1>3, <1>4, <1>5, <1>6, <1>7, FS_CardinalityType

\* ... one directory apart.
LEMMA NowAddsUp ==
    ASSUME Order, NEW d \in Staged
    PROVE  /\ Cardinality(Units(Now(Staged \ {d}))) \in Nat
           /\ Cardinality(Units(Now(Staged))) = Cardinality(Units(Now(Staged \ {d}))) + Size(d)
<1> DEFINE e == <<d, Size(d)>>
<1>1. Now(Staged) \in SUBSET Listed /\ OneEach(Now(Staged)) /\ IsFiniteSet(Units(Now(Staged)))
  BY SizesIs, DifferentIs
<1>2. e \in Now(Staged) /\ Now(Staged) \ {e} = Now(Staged \ {d}) /\ e[2] = Size(d)
  BY DEF Now
<1> QED
  BY <1>1, <1>2, SizesAddUp

\* The list of a process that evicts nothing.
LEMMA NothingListed ==
    ASSUME NEW t, t = <<>>
    PROVE  t \in Seq(Listed) /\ Different(t) /\ SumSizes(t) = 0
<1>1. t \in Seq(Listed) /\ DOMAIN t = {}
  OBVIOUS
<1>2. ToSet(t) = {}
  BY <1>1 DEF ToSet
<1>3. Units(ToSet(t)) = {}
  BY <1>2 DEF Units
<1>4. SumSizes(t) = 0
  BY <1>3, FS_EmptySet DEF SumSizes, Units
<1> QED
  BY <1>1, <1>4 DEF Different

\* Every step keeps the lists of the evictions and what they count.
LEMMA ListsStep ==
    ASSUME Order, Lists, Counts, NEW p \in Proc, Acts(p)
    PROVE  Lists' /\ Counts'
<1>1. \A q \in Proc : todo[q] \in Seq(Listed) /\ Different(todo[q]) /\ SumSizes(todo[q]) <= total[q] /\ total[q] \in Nat
  BY DEF Lists, Listed, Counts, Different
<1>2. SUFFICES \A q \in Proc : /\ todo'[q] \in Seq(Listed) /\ total'[q] \in Nat
                               /\ Different(todo'[q]) /\ SumSizes(todo'[q]) <= total'[q]
  <2>1. DOMAIN todo' = Proc /\ DOMAIN total' = Proc
           /\ todo' = [q \in Proc |-> todo'[q]] /\ total' = [q \in Proc |-> total'[q]]
    BY DEF Lists, Acts, Step, Call, CheckHit, CheckMiss, SkipFetch, Fetch, Truncate, Fetched, FetchRaises,
           SiblingFails, FetchDone, Lock, RecheckHit, RecheckMiss, CopyBegins, CopyEnds, FallBack, CopyDone,
           Scan, EvictSkip, RemoveOne, Removed, RemoveFails, EvictDone, Kill, End, lru
  <2> QED BY <1>2, <2>1 DEF Lists, Counts, Different, Listed
<1>3. CASE UNCHANGED lru
  BY <1>1, <1>3 DEF lru
<1>4. CASE End(p)
  <2>1. \A q \in Proc : IF q = p THEN todo'[q] = <<>> /\ total'[q] = 0
                        ELSE todo'[q] = todo[q] /\ total'[q] = total[q]
    BY <1>4 DEF End, Lists
  <2>2. ASSUME NEW q \in Proc
        PROVE  /\ todo'[q] \in Seq(Listed) /\ total'[q] \in Nat
               /\ Different(todo'[q]) /\ SumSizes(todo'[q]) <= total'[q]
    <3>1. CASE q = p
      <4>1. todo'[q] = <<>> /\ total'[q] = 0
        BY <2>1, <3>1
      <4> QED BY <4>1, NothingListed
    <3>2. CASE q # p
      BY <1>1, <2>1, <3>2
    <3> QED BY <3>1, <3>2
  <2> QED BY <2>2
<1>5. CASE Scan(p)
  <2>1. \A q \in Proc : IF q = p THEN todo'[q] = Sizes /\ total'[q] = SumSizes(Sizes)
                        ELSE todo'[q] = todo[q] /\ total'[q] = total[q]
    BY <1>5 DEF Scan, Lists
  <2> QED BY <1>1, <2>1, SizesIs
<1>6. ASSUME Visits(p), todo' = [todo EXCEPT ![p] = Tail(@)],
             total' = total \/ total' = [total EXCEPT ![p] = @ - todo[p][1][2]]
      PROVE  \A q \in Proc : /\ todo'[q] \in Seq(Listed) /\ total'[q] \in Nat
                             /\ Different(todo'[q]) /\ SumSizes(todo'[q]) <= total'[q]
  <2>1. \A q \in Proc : IF q = p THEN todo'[q] = Tail(todo[q]) /\ total'[q] \in {total[q], total[q] - todo[q][1][2]}
                        ELSE todo'[q] = todo[q] /\ total'[q] = total[q]
    BY <1>6 DEF Lists
  <2>2. /\ Tail(todo[p]) \in Seq(Listed) /\ Different(Tail(todo[p]))
        /\ SumSizes(Tail(todo[p])) \in Nat
        /\ SumSizes(todo[p]) = SumSizes(Tail(todo[p])) + todo[p][1][2]
    BY <1>1, <1>6, TailIs DEF Visits
  <2>3. todo[p][1][2] \in 0 .. 2
    BY <1>6, VictimIs DEF Listed
  <2>4. total[p] \in Nat /\ SumSizes(Tail(todo[p])) + todo[p][1][2] <= total[p]
    BY <1>1, <2>2
  <2>5. total[p] - todo[p][1][2] \in Nat /\ SumSizes(Tail(todo[p])) <= total[p] - todo[p][1][2]
        /\ SumSizes(Tail(todo[p])) <= total[p]
    <3> DEFINE x == SumSizes(Tail(todo[p]))
               y == todo[p][1][2]
               z == total[p]
    <3> HIDE DEF x, y, z
    <3> QED
      <4>1. x \in Nat /\ y \in 0 .. 2 /\ z \in Nat /\ x + y <= z
        BY <2>2, <2>3, <2>4 DEF x, y, z
      <4>2. z - y \in Nat /\ x <= z - y /\ x <= z
        BY <4>1
      <4> QED BY <4>2 DEF x, y, z
  <2>6. ASSUME NEW q \in Proc
        PROVE  /\ todo'[q] \in Seq(Listed) /\ total'[q] \in Nat
               /\ Different(todo'[q]) /\ SumSizes(todo'[q]) <= total'[q]
    <3>1. CASE q = p
      <4>1. todo'[p] = Tail(todo[p])
        BY <2>1
      <4>2. total'[p] = total[p] \/ total'[p] = total[p] - todo[p][1][2]
        BY <2>1
      <4> QED BY <2>2, <2>4, <2>5, <3>1, <4>1, <4>2
    <3>2. CASE q # p
      BY <1>1, <2>1, <3>2
    <3> QED BY <3>1, <3>2
  <2> QED BY <2>6
<1>7. CASE EvictSkip(p) \/ Removed(p) \/ RemoveFails(p)
  BY <1>6, <1>7 DEF EvictSkip, Removed, RemoveFails
<1> QED
  BY <1>3, <1>4, <1>5, <1>7 DEF Acts, Step, Call, CheckHit, CheckMiss, SkipFetch, Fetch, Truncate, Fetched,
     FetchRaises, SiblingFails, FetchDone, Lock, RecheckHit, RecheckMiss, CopyBegins, CopyEnds, FallBack,
     CopyDone, RemoveOne, EvictDone, Kill

-----------------------------------------------------------------------------
(* What a call has fetched stays, unless it is evicted under the call.     *)

\* The file asked for is there, or was evicted under a call.
Has(p) == Present(dir[p], want[p]) \/ dir[p] \in raced

\* It is there once it has been fetched or copied, or is being written.
There ==
    \A p \in Proc :
        /\ pc[p] \in {"scan", "evict"} => Has(p)
        /\ pc[p] = "fetch" => want[p] \in left[p] \/ Has(p)
        /\ pc[p] = "fetch" /\ <<want[p], "writing">> \in cur[p] => Has(p)

\* Others are left alone.
LEMMA OthersKept ==
    ASSUME Shapes, Lists, NEW p \in Proc, Acts(p), NEW q \in Proc, q # p
    PROVE  /\ pc'[q] = pc[q] /\ dir'[q] = dir[q] /\ want'[q] = want[q] /\ left'[q] = left[q]
           /\ cur'[q] = cur[q] /\ todo'[q] = todo[q] /\ total'[q] = total[q]
           /\ ~calm'[q]
<1> USE DEF Shapes, Lists, Goto, Moves, End
<1>1. ASSUME NEW d \in Dir, NEW f \in File, Call(p, d, f)
      PROVE  /\ pc'[q] = pc[q] /\ dir'[q] = dir[q] /\ want'[q] = want[q] /\ left'[q] = left[q]
             /\ cur'[q] = cur[q] /\ todo'[q] = todo[q] /\ total'[q] = total[q]
             /\ ~calm'[q]
  BY <1>1 DEF Call, work, lru
<1>2. CASE CheckHit(p) \/ FetchRaises(p) \/ FallBack(p) \/ EvictDone(p) \/ Kill(p)
  <2>1. End(p)
    BY <1>2 DEF CheckHit, FetchRaises, FallBack, EvictDone, Kill
  <2> QED BY <2>1
<1>3. CASE CheckMiss(p)
  BY <1>3 DEF CheckMiss, call, lru
<1>4. CASE SkipFetch(p) \/ Fetch(p) \/ Truncate(p)
  BY <1>4 DEF SkipFetch, Fetch, Truncate, call, lru
<1>5. CASE Fetched(p) \/ SiblingFails(p)
  BY <1>5 DEF Fetched, SiblingFails, call, lru
<1>6. CASE FetchDone(p) \/ CopyDone(p)
  BY <1>6 DEF FetchDone, CopyDone, WriteSentinel, call, work, lru
<1>7. CASE Lock(p) \/ RecheckHit(p)
  BY <1>7 DEF Lock, RecheckHit, call, work, lru
<1>8. CASE RecheckMiss(p)
  BY <1>8 DEF RecheckMiss, call, lru
<1>9. CASE CopyBegins(p) \/ CopyEnds(p)
  BY <1>9 DEF CopyBegins, CopyEnds, call, lru
<1>10. CASE Scan(p) \/ EvictSkip(p)
  BY <1>10 DEF Scan, EvictSkip, call, work
<1>11. CASE RemoveOne(p)
  BY <1>11 DEF RemoveOne, call, work, lru
<1>12. CASE Removed(p) \/ RemoveFails(p)
  BY <1>12 DEF Removed, RemoveFails, call, work
<1> QED
  BY <1>1, <1>2, <1>3, <1>4, <1>5, <1>6, <1>7, <1>8, <1>9, <1>10, <1>11, <1>12 DEF Acts, Step

\* A file that is there stays there, unless an eviction removes it.
LEMMA PresentKept ==
    ASSUME Shapes, Lists, Calls, NEW p \in Proc, Acts(p), ~RemoveOne(p),
           NEW d \in Dir, NEW f \in File, Present(d, f)
    PROVE  Present(d, f)'
<1>1. CASE UNCHANGED file
  BY <1>1 DEF Present
<1>2. ASSUME NEW v \in {"partial", "whole"}, NEW x \in Dir, NEW g \in File, SetFile(x, g, v)
      PROVE  Present(d, f)'
  BY <1>2, FileSet DEF Present, Shapes
<1>3. ASSUME pc[p] # "idle" PROVE dir[p] \in Dir
  BY <1>3 DEF Calls
<1>4. CASE Truncates(p)
  BY <1>2, <1>3, <1>4 DEF Truncates, Truncate, CopyBegins
<1>5. CASE Writes(p)
  <2>1. PICK e \in cur[p] :
            SetFile(dir[p], e[1], "whole") \/ SetFile(dir[p], e[1], Written(p, e[1]))
    BY <1>5 DEF Writes
  <2>2. dir[p] \in Dir /\ e[1] \in File
    BY <1>3, <1>5 DEF Writes, Fetched, CopyEnds, Shapes
  <2>3. CASE SetFile(dir[p], e[1], "whole")
    BY <1>2, <2>2, <2>3
  <2>4. CASE SetFile(dir[p], e[1], Written(p, e[1]))
    <3>1. CASE Present(dir[p], e[1])
      BY <1>2, <2>2, <2>4, <3>1 DEF Written
    <3>2. CASE ~Present(dir[p], e[1])
      BY <2>2, <2>4, <3>2, FileSet DEF Written, Present, Shapes
    <3> QED BY <3>1, <3>2
  <2> QED BY <2>1, <2>3, <2>4
<1> QED BY <1>1, <1>4, <1>5, FileStep

\* ... which marks the directory if anybody else uses it; and no mark of a
\* directory in use goes.
LEMMA HasKept ==
    ASSUME Shapes, Lists, Calls, NEW p \in Proc, Acts(p), NEW q \in Proc,
           pc[q] # "idle", dir'[q] = dir[q], want'[q] = want[q], Has(q)
    PROVE  Has(q)'
<1>1. dir[q] \in Dir /\ want[q] \in File
  BY DEF Calls
<1>2. CASE RemoveOne(p)
  <2>1. Victim(p) \in Dir /\ Victim(p) # dir[p]
    BY <1>2, VictimIs DEF RemoveOne, Spared
  <2>2. CASE Victim(p) = dir[q]
    <3>1. q # p
      BY <2>1, <2>2
    <3>2. InUse(p, Victim(p))
      BY <2>2, <3>1 DEF InUse
    <3>3. dir[q] \in raced'
      BY <1>2, <2>2, <3>2 DEF RemoveOne
    <3> QED BY <3>3 DEF Has
  <2>3. CASE Victim(p) # dir[q]
    <3>1. file'[dir[q]][want[q]] = file[dir[q]][want[q]]
      BY <1>1, <1>2, <2>1, <2>3, FileSet DEF RemoveOne, Shapes
    <3>2. raced \subseteq raced'
      BY <1>2 DEF RemoveOne
    <3> QED BY <3>1, <3>2 DEF Has, Present
  <2> QED BY <2>2, <2>3
<1>3. CASE ~RemoveOne(p)
  <2>1. Present(dir[q], want[q]) => Present(dir[q], want[q])'
    <3>1. Present(dir[q], want[q]) => file'[dir[q]][want[q]] # "absent"
      BY <1>1, <1>3, PresentKept DEF Present
    <3> QED BY <3>1 DEF Present
  <2>2. dir[q] \in raced => dir[q] \in raced'
    <3>1. CASE Removed(p)
      <4>1. CASE dir[q] = Victim(p)
        <5>1. q # p /\ InUse(p, Victim(p))
          BY <3>1, <4>1 DEF Removed, Spared, InUse
        <5> QED BY <3>1, <5>1 DEF Removed
      <4>2. CASE dir[q] # Victim(p)
        BY <3>1, <4>2 DEF Removed
      <4> QED BY <4>1, <4>2
    <3>2. CASE ~Removed(p)
      BY <1>3, <3>2 DEF Acts, Step, Call, CheckHit, CheckMiss, SkipFetch, Fetch, Truncate, Fetched, FetchRaises,
         SiblingFails, FetchDone, Lock, RecheckHit, RecheckMiss, CopyBegins, CopyEnds, FallBack, CopyDone, Scan,
         EvictSkip, RemoveFails, EvictDone, Kill, history
    <3> QED BY <3>1, <3>2
  <2> QED BY <2>1, <2>2 DEF Has, Present
<1> QED BY <1>2, <1>3

\* Every step keeps what a call has fetched, but for an eviction under the call.
LEMMA ThereStep ==
    ASSUME Shapes, Lists, Calls, There, NEW p \in Proc, Acts(p)
    PROVE  There'
<1> DEFINE ThereOf(q) == /\ pc[q] \in {"scan", "evict"} => Has(q)
                         /\ pc[q] = "fetch" => want[q] \in left[q] \/ Has(q)
                         /\ pc[q] = "fetch" /\ <<want[q], "writing">> \in cur[q] => Has(q)
<1>1. ASSUME NEW q \in Proc, q # p PROVE ThereOf(q)'
  <2>1. /\ pc'[q] = pc[q] /\ dir'[q] = dir[q] /\ want'[q] = want[q] /\ left'[q] = left[q]
        /\ cur'[q] = cur[q]
    BY <1>1, OthersKept
  <2>2. pc[q] # "idle" /\ Has(q) => Has(q)'
    BY <2>1, HasKept
  <2> QED BY <2>1, <2>2 DEF There
<1>2. ThereOf(p)'
  <2>1. pc[p] # "idle" /\ dir'[p] = dir[p] /\ want'[p] = want[p] /\ Has(p) => Has(p)'
    BY HasKept
  <2>2. pc[p] # "idle" => dir[p] \in Dir /\ want[p] \in File
    BY DEF Calls
  <2> HIDE DEF ThereOf
  <2>3. CASE pc'[p] \notin {"fetch", "scan", "evict"}
    BY <2>3 DEF ThereOf
  <2>4. CASE CheckMiss(p)
    <3>1. pc'[p] \in {"fetch", "lock"} /\ (pc'[p] = "fetch" => want'[p] \in left'[p]) /\ cur'[p] = {}
      BY <2>2, <2>4 DEF CheckMiss, Shapes, Calls, Goto, Targets, call
    <3> QED BY <3>1 DEF ThereOf
  <2>5. CASE SkipFetch(p)
    <3>1. /\ pc[p] = "fetch" /\ pc'[p] = "fetch" /\ dir'[p] = dir[p] /\ want'[p] = want[p]
          /\ left'[p] = left[p] \ {Following(p)} /\ cur'[p] = {}
          /\ Present(dir[p], Following(p))
      BY <2>5 DEF SkipFetch, Shapes, call
    <3>2. want[p] \in left[p] => Has(p)
      BY <3>1 DEF Following, Has
    <3> QED BY <2>1, <3>1, <3>2 DEF ThereOf, There
  <2>6. CASE Fetch(p)
    <3>1. /\ pc[p] = "fetch" /\ pc'[p] = "fetch" /\ dir'[p] = dir[p] /\ want'[p] = want[p]
          /\ left'[p] = left[p] /\ <<want[p], "writing">> \notin cur'[p]
      BY <2>6 DEF Fetch, Shapes, call
    <3> QED BY <2>1, <3>1 DEF ThereOf, There
  <2>7. CASE Truncate(p)
    <3>1. PICK e \in cur[p] :
              /\ SetFile(dir[p], e[1], "partial")
              /\ cur'[p] = {<<e[1], "writing">>}
      BY <2>7 DEF Truncate, Shapes
    <3>2. /\ pc[p] = "fetch" /\ pc'[p] = "fetch" /\ dir'[p] = dir[p] /\ want'[p] = want[p]
          /\ left'[p] = left[p]
      BY <2>7 DEF Truncate, call
    <3>3. e[1] = want[p] => Has(p)'
      <4>1. SUFFICES ASSUME e[1] = want[p] PROVE file'[dir[p]][want[p]] # "absent"
        BY <3>2 DEF Has, Present
      <4> QED BY <2>2, <3>1, <3>2, <4>1, FileSet DEF Shapes
    <3> QED BY <2>1, <3>1, <3>2, <3>3 DEF ThereOf, There
  <2>8. CASE Fetched(p)
    <3>1. PICK e \in cur[p] :
              /\ \/ SetFile(dir[p], e[1], "whole")
                 \/ e[2] = "writing" /\ SetFile(dir[p], e[1], Written(p, e[1]))
              /\ left'[p] = left[p] \ {e[1]}
      BY <2>8 DEF Fetched, Shapes
    <3>2. /\ pc[p] = "fetch" /\ pc'[p] = "fetch" /\ dir'[p] = dir[p] /\ want'[p] = want[p]
          /\ cur'[p] = {}
      BY <2>8 DEF Fetched, Shapes, call
    <3>3. e[1] = want[p] => Has(p)'
      <4>1. CASE e[1] = want[p] /\ SetFile(dir[p], e[1], "whole")
        <5>1. file'[dir[p]][want[p]] = "whole"
          BY <2>2, <3>2, <4>1, FileSet DEF Shapes
        <5> QED BY <3>2, <5>1 DEF Has, Present
      <4>2. CASE e[1] = want[p] /\ e[2] = "writing"
        <5>1. e = <<want[p], "writing">>
          BY <4>2 DEF Shapes
        <5> QED BY <2>1, <3>2, <5>1 DEF There
      <4> QED BY <3>1, <4>1, <4>2
    <3> QED BY <2>1, <3>1, <3>2, <3>3 DEF ThereOf, There
  <2>9. CASE SiblingFails(p)
    <3>1. /\ pc[p] = "fetch" /\ pc'[p] = "fetch" /\ dir'[p] = dir[p] /\ want'[p] = want[p]
          /\ cur'[p] = {} /\ (want[p] \in left[p] => want[p] \in left'[p])
      BY <2>9 DEF SiblingFails, Shapes, call
    <3> QED BY <2>1, <3>1 DEF ThereOf, There
  <2>10. CASE FetchDone(p)
    <3>1. /\ pc[p] = "fetch" /\ pc'[p] = "scan" /\ dir'[p] = dir[p] /\ want'[p] = want[p] /\ left[p] = {}
      BY <2>10 DEF FetchDone, WriteSentinel, Goto, Shapes, call
    <3> QED BY <2>1, <3>1 DEF ThereOf, There
  <2>11. CASE RecheckHit(p) \/ CopyDone(p)
    <3>1. /\ pc[p] # "idle" /\ pc'[p] = "scan" /\ dir'[p] = dir[p] /\ want'[p] = want[p]
          /\ Present(dir[p], want[p])
      BY <2>11 DEF RecheckHit, Hit, CopyDone, WriteSentinel, Goto, Shapes, call
    <3> QED BY <2>1, <3>1 DEF ThereOf, Has
  <2>12. CASE Scan(p) \/ EvictSkip(p) \/ RemoveOne(p) \/ Removed(p) \/ RemoveFails(p)
    <3>1. /\ pc[p] \in {"scan", "evict"} /\ pc'[p] = "evict" /\ dir'[p] = dir[p] /\ want'[p] = want[p]
      BY <2>12 DEF Scan, EvictSkip, RemoveOne, Removed, RemoveFails, Visits, Goto, Shapes, call
    <3> QED BY <2>1, <3>1 DEF ThereOf, There
  <2>13. CASE Lock(p) \/ RecheckMiss(p) \/ CopyBegins(p) \/ CopyEnds(p)
    <3>1. pc'[p] \in {"recheck", "copy"}
      BY <2>13 DEF Lock, RecheckMiss, CopyBegins, CopyEnds, Goto, Shapes
    <3> QED BY <2>3, <3>1
  <2>14. CASE CheckHit(p) \/ FetchRaises(p) \/ FallBack(p) \/ EvictDone(p) \/ Kill(p)
    <3>1. pc'[p] = "idle"
      BY <2>14 DEF CheckHit, FetchRaises, FallBack, EvictDone, Kill, End, Goto, Shapes
    <3> QED BY <2>3, <3>1
  <2>15. ASSUME NEW d \in Dir, NEW f \in File, Call(p, d, f) PROVE ThereOf(p)'
    <3>1. pc'[p] = "check"
      BY <2>15 DEF Call, Goto, Shapes
    <3> QED BY <2>3, <3>1
  <2> QED
    BY <2>4, <2>5, <2>6, <2>7, <2>8, <2>9, <2>10, <2>11, <2>12, <2>13, <2>14, <2>15 DEF Acts, Step
<1> QED
  BY <1>1, <1>2 DEF There

-----------------------------------------------------------------------------
(* A directory that is copied whole under its lock.                        *)

\* The flock of a directory is with the process that looks again or copies.
Locks ==
    \A d \in MountDir, p \in Proc : lock[d] = p <=> pc[p] \in {"recheck", "copy"} /\ dir[p] = d

Marked == reused \cup raced

\* No file with a sentinel beside it is cut short; while a directory is copied it
\* has no sentinel, and what is cut short is still to be copied; when a call has
\* staged a directory it keeps its sentinel, unless it is evicted.
Whole ==
    \A d \in MountDir \ Marked : d \in Staged => \A f \in File : file[d][f] # "partial"
Copying ==
    \A p \in Proc : pc[p] = "copy" /\ dir[p] \notin Marked =>
        dir[p] \notin Staged /\ \A f \in File : file[dir[p]][f] = "partial" => f \in left[p]
Sentinel ==
    \A p \in Proc : pc[p] \in {"scan", "evict"} /\ dir[p] \in MountDir => dir[p] \in Staged \cup raced

\* Every step leaves the flocks with those that look again or copy.
LEMMA LocksStep ==
    ASSUME Shapes, Lists, Calls, Locks, NEW p \in Proc, Acts(p)
    PROVE  Locks'
<1>1. \A q \in Proc : q # p => pc'[q] = pc[q] /\ dir'[q] = dir[q]
  BY OthersKept
<1>2. NoProc \notin Proc
  BY StagingAssumption
<1>3. CASE /\ UNCHANGED lock
           /\ pc[p] \in {"recheck", "copy"} <=> pc'[p] \in {"recheck", "copy"}
           /\ pc[p] \in {"recheck", "copy"} => dir'[p] = dir[p]
  BY <1>1, <1>3 DEF Locks
<1>4. ASSUME UNCHANGED lock, pc[p] \notin {"recheck", "copy"}, pc'[p] \notin {"recheck", "copy"} PROVE Locks'
  BY <1>3, <1>4
<1>5. ASSUME pc[p] \in {"recheck", "copy"}, pc'[p] \notin {"recheck", "copy"}, lock' = Unlocked(dir[p])
      PROVE  Locks'
  <2>1. dir[p] \in MountDir /\ lock[dir[p]] = p
    BY <1>5 DEF Calls, Locks
  <2>2. \A d \in MountDir : lock'[d] = IF d = dir[p] THEN NoProc ELSE lock[d]
    BY <1>5 DEF Unlocked, Shapes
  <2>3. ASSUME NEW d \in MountDir, NEW q \in Proc
        PROVE  lock'[d] = q <=> pc'[q] \in {"recheck", "copy"} /\ dir'[q] = d
    <3>1. CASE q = p
      BY <1>2, <1>5, <2>1, <2>2, <3>1 DEF Locks
    <3>2. CASE q # p
      BY <1>1, <1>2, <2>1, <2>2, <3>2 DEF Locks
    <3> QED BY <3>1, <3>2
  <2> QED BY <2>3 DEF Locks
<1>6. CASE Lock(p)
  <2>1. /\ pc[p] = "lock" /\ pc'[p] = "recheck" /\ dir'[p] = dir[p] /\ dir[p] \in MountDir
        /\ lock[dir[p]] = NoProc /\ \A d \in MountDir : lock'[d] = IF d = dir[p] THEN p ELSE lock[d]
    BY <1>6 DEF Lock, Goto, Free, Shapes, Calls, call
  <2> QED BY <1>1, <1>2, <2>1 DEF Locks
<1>7. CASE Kill(p)
  <2>1. pc'[p] = "idle" /\ \A d \in MountDir : lock'[d] = IF lock[d] = p THEN NoProc ELSE lock[d]
    BY <1>7 DEF Kill, End, Goto, Shapes
  <2> QED BY <1>1, <1>2, <2>1 DEF Locks
<1>8. CASE RecheckHit(p) \/ FallBack(p) \/ CopyDone(p)
  <2>1. pc[p] \in {"recheck", "copy"} /\ pc'[p] \in {"scan", "idle"} /\ lock' = Unlocked(dir[p])
    BY <1>8 DEF RecheckHit, FallBack, CopyDone, WriteSentinel, End, Goto, Shapes
  <2> QED BY <1>5, <2>1
<1>9. CASE RecheckMiss(p) \/ CopyBegins(p) \/ CopyEnds(p)
  BY <1>3, <1>9 DEF RecheckMiss, CopyBegins, CopyEnds, Goto, Shapes, call
<1>10. ASSUME NEW d \in Dir, NEW f \in File, Call(p, d, f) PROVE Locks'
  <2>1. UNCHANGED lock /\ pc[p] = "idle" /\ pc'[p] = "check"
    BY <1>10 DEF Call, Goto, Shapes
  <2> QED BY <1>4, <2>1
<1>11. CASE CheckHit(p) \/ CheckMiss(p)
  <2>1. UNCHANGED lock /\ pc[p] = "check" /\ pc'[p] \in {"idle", "fetch", "lock"}
    BY <1>11 DEF CheckHit, CheckMiss, End, Goto, Shapes
  <2> QED BY <1>4, <2>1
<1>12. CASE SkipFetch(p) \/ Fetch(p) \/ Truncate(p) \/ Fetched(p) \/ SiblingFails(p)
  <2>1. UNCHANGED lock /\ pc[p] = "fetch" /\ pc'[p] = "fetch"
    BY <1>12 DEF SkipFetch, Fetch, Truncate, Fetched, SiblingFails, cache
  <2> QED BY <1>4, <2>1
<1>13. CASE FetchRaises(p) \/ FetchDone(p)
  <2>1. UNCHANGED lock /\ pc[p] = "fetch" /\ pc'[p] \in {"idle", "scan"}
    BY <1>13 DEF FetchRaises, FetchDone, WriteSentinel, End, Goto, Shapes
  <2> QED BY <1>4, <2>1
<1>14. CASE Scan(p) \/ EvictSkip(p) \/ RemoveOne(p) \/ Removed(p) \/ RemoveFails(p) \/ EvictDone(p)
  <2>1. UNCHANGED lock /\ pc[p] \in {"scan", "evict"} /\ pc'[p] \in {"evict", "idle"}
    BY <1>14 DEF Scan, EvictSkip, RemoveOne, Removed, RemoveFails, EvictDone, Visits, End, Goto, Shapes, cache
  <2> QED BY <1>4, <2>1
<1> QED
  BY <1>6, <1>7, <1>8, <1>9, <1>10, <1>11, <1>12, <1>13, <1>14 DEF Acts, Step

\* Nobody else copies the directory of a process that copies.
LEMMA OneCopies ==
    ASSUME Calls, Locks, NEW p \in Proc, pc[p] = "copy", NEW q \in Proc, pc[q] = "copy", dir[q] = dir[p]
    PROVE  q = p
  BY DEF Calls, Locks

\* The marks stay, but for those of a directory that is gone for good.
LEMMA MarksStep ==
    ASSUME NEW p \in Proc, Acts(p), ~Removed(p)
    PROVE  raced \subseteq raced' /\ reused \subseteq reused'
  BY DEF Acts, Step, Call, CheckHit, CheckMiss, SkipFetch, Fetch, Truncate, Fetched, FetchRaises,
         SiblingFails, FetchDone, Lock, RecheckHit, RecheckMiss, CopyBegins, CopyEnds, FallBack, CopyDone, Scan,
         EvictSkip, RemoveOne, RemoveFails, EvictDone, Kill, history

\* The directory of an eviction goes: its marks go with it, if nobody uses it.
LEMMA RemovedStep ==
    ASSUME Shapes, Lists, Calls, Whole, Copying, Sentinel, NEW p \in Proc, Removed(p)
    PROVE  Whole' /\ Copying' /\ Sentinel'
<1> DEFINE v == Victim(p)
<1>1. /\ UNCHANGED <<file, staged, left, pc, dir>> /\ Staged' = Staged
      /\ v # dir[p] /\ v \notin Staged /\ pc[p] = "evict"
      /\ raced \ {v} \subseteq raced' /\ reused \ {v} \subseteq reused'
      /\ InUse(p, v) => raced' = raced /\ reused' = reused
  BY DEF Removed, Visits, Spared, Staged, call, work
<1> HIDE DEF v
<1>2. Whole'
  BY <1>1 DEF Whole, Marked
<1>3. ASSUME NEW q \in Proc, pc[q] # "idle", dir[q] = v PROVE raced' = raced /\ reused' = reused
  <2>1. q # p
    BY <1>1, <1>3
  <2> QED BY <1>1, <1>3, <2>1 DEF InUse
<1>4. Copying'
  <2>1. ASSUME NEW q \in Proc, pc'[q] = "copy", dir'[q] \notin Marked' PROVE dir[q] \notin Marked /\ pc[q] = "copy"
    BY <1>1, <1>3, <2>1 DEF Marked
  <2> QED BY <1>1, <2>1 DEF Copying
<1>5. Sentinel'
  <2>1. ASSUME NEW q \in Proc, pc'[q] \in {"scan", "evict"}, dir'[q] \in raced PROVE dir'[q] \in raced'
    BY <1>1, <1>3, <2>1
  <2> QED BY <1>1, <2>1 DEF Sentinel
<1> QED BY <1>2, <1>4, <1>5

\* A file or the sentinel goes: the directory is marked, if somebody uses it.
LEMMA RemoveOneStep ==
    ASSUME Shapes, Order, Lists, Calls, Whole, Copying, Sentinel, NEW p \in Proc, RemoveOne(p)
    PROVE  Whole' /\ Copying' /\ Sentinel'
<1>1. Acts(p)
  BY DEF Acts, Step
<1>2. /\ UNCHANGED <<pc, dir, left, reused>> /\ raced \subseteq raced'
      /\ Victim(p) \in Dir /\ Victim(p) # dir[p]
      /\ InUse(p, Victim(p)) => Victim(p) \in raced'
  BY VictimIs DEF RemoveOne, Spared, call, work
<1>3. Staged' = Staged \/ Staged' = Staged \ {Victim(p)}
  <2>1. ~FetchDone(p) /\ ~CopyDone(p)
    BY DEF FetchDone, CopyDone, RemoveOne, Visits
  <2> QED BY <1>1, <2>1, OrderStep
<1>4. \A d \in Dir, f \in File : file'[d][f] = "partial" => file[d][f] = "partial"
  <2>1. CASE UNCHANGED file
    BY <2>1
  <2>2. CASE \E f \in File : SetFile(Victim(p), f, "absent")
    BY <1>2, <2>2, FileSet DEF Shapes
  <2> QED BY <2>1, <2>2 DEF RemoveOne
<1>5. Whole'
  BY <1>2, <1>3, <1>4 DEF Whole, Marked, Dir
<1>6. Copying'
  <2>1. \A q \in Proc : pc[q] = "copy" => dir[q] \in Dir
    BY DEF Calls
  <2> QED BY <1>2, <1>3, <1>4, <2>1 DEF Copying, Marked
<1>7. Sentinel'
  <2>1. ASSUME NEW q \in Proc, pc[q] \in {"scan", "evict"}, dir[q] = Victim(p) PROVE dir[q] \in raced'
    <3>1. q # p
      BY <1>2, <2>1
    <3> QED BY <1>2, <2>1, <3>1 DEF InUse
  <2> QED BY <1>2, <1>3, <2>1 DEF Sentinel
<1> QED BY <1>5, <1>6, <1>7

\* The part of a process, when a step adds to the marks.
CopyingOf(q) == pc[q] = "copy" /\ dir[q] \notin Marked =>
    dir[q] \notin Staged /\ \A f \in File : file[dir[q]][f] = "partial" => f \in left[q]
SentinelOf(q) == pc[q] \in {"scan", "evict"} /\ dir[q] \in MountDir => dir[q] \in Staged \cup raced

\* Every step keeps mounted directories whole, but for those that are marked.
LEMMA CleanStep ==
    ASSUME Shapes, Order, Lists, Calls, Locks, Whole, Copying, Sentinel, NEW p \in Proc, Acts(p)
    PROVE  Whole' /\ Copying' /\ Sentinel'
<1> SUFFICES ASSUME ~Removed(p), ~RemoveOne(p) PROVE Whole' /\ Copying' /\ Sentinel'
  BY RemovedStep, RemoveOneStep
<1>1. Marked \subseteq Marked' /\ raced \subseteq raced'
  BY MarksStep DEF Marked
<1>2. \A q \in Proc : q # p => pc'[q] = pc[q] /\ dir'[q] = dir[q] /\ left'[q] = left[q]
  BY OthersKept
<1>3. /\ Staged \subseteq Staged'
      /\ \A d \in MountDir : d \in Staged' => d \in Staged \/ (CopyDone(p) /\ d = dir[p])
  <2>1. FetchDone(p) => dir[p] \notin MountDir
    BY StagingAssumption DEF FetchDone, Calls
  <2> QED BY <2>1, OrderStep
<1>4. pc[p] = "copy" => dir[p] \in MountDir
  BY DEF Calls
<1>5. \A q \in Proc : pc[q] = "copy" => dir[q] \in MountDir
  BY DEF Calls
<1>6. ASSUME NEW d \in MountDir, NEW f \in File, file'[d][f] = "partial"
      PROVE  file[d][f] = "partial" \/ (CopyBegins(p) /\ d = dir[p] /\ f \in left[p])
  <2>1. d \in Dir
    BY DEF Dir
  <2>2. pc[p] = "fetch" => dir[p] \in Dir /\ dir[p] # d
    BY StagingAssumption DEF Calls, Dir
  <2>3. pc[p] = "copy" => dir[p] \in Dir
    BY <1>4 DEF Dir
  <2>4. CASE UNCHANGED file
    BY <1>6, <2>4
  <2>5. CASE Truncates(p)
    <3>1. PICK g \in File : g \in left[p] /\ SetFile(dir[p], g, "partial")
      BY <2>5 DEF Truncates
    <3>2. dir[p] \in Dir /\ (Truncate(p) => dir[p] # d)
      BY <2>2, <2>3, <2>5 DEF Truncates, Truncate, CopyBegins
    <3>3. file'[d][f] = IF d = dir[p] /\ f = g THEN "partial" ELSE file[d][f]
      BY <2>1, <3>1, <3>2, FileSet DEF Shapes
    <3> QED BY <1>6, <2>5, <3>1, <3>2, <3>3 DEF Truncates
  <2>6. CASE Writes(p)
    <3>1. PICK e \in cur[p], v \in {"absent", "whole"} : SetFile(dir[p], e[1], v)
      BY <2>6 DEF Writes, Written
    <3>2. dir[p] \in Dir /\ e[1] \in File
      BY <2>2, <2>3, <2>6 DEF Writes, Fetched, CopyEnds, Shapes
    <3>3. file'[d][f] \in {v, file[d][f]}
      BY <2>1, <3>1, <3>2, FileSet DEF Shapes
    <3> QED BY <1>6, <3>3
  <2> QED BY <2>4, <2>5, <2>6, FileStep
\* What has been copied is not cut short any more.
<1>7. ASSUME pc[p] = "copy", pc'[p] = "copy", NEW f \in left[p], f \notin left'[p]
      PROVE  file'[dir[p]][f] # "partial"
  <2>1. CopyEnds(p)
    BY <1>7 DEF Acts, Step, Call, CheckHit, CheckMiss, SkipFetch, Fetch, Truncate, Fetched, FetchRaises,
         SiblingFails, FetchDone, Lock, RecheckHit, RecheckMiss, CopyBegins, FallBack, CopyDone, Scan,
         EvictSkip, RemoveFails, EvictDone, Kill, End, Goto, Shapes, WriteSentinel, Visits
  <2>2. PICK e \in cur[p] : SetFile(dir[p], e[1], Written(p, e[1])) /\ left'[p] = left[p] \ {e[1]}
    BY <2>1 DEF CopyEnds, Shapes
  <2>3. dir[p] \in Dir /\ e[1] \in File /\ e[1] = f
    BY <1>4, <1>7, <2>2 DEF Dir, Shapes
  <2> QED BY <2>2, <2>3, FileSet DEF Shapes, Written
<1>8. pc'[p] = "copy" => dir'[p] = dir[p] /\ (pc[p] = "copy" \/ RecheckMiss(p))
  BY DEF Acts, Step, Call, CheckHit, CheckMiss, SkipFetch, Fetch, Truncate, Fetched, FetchRaises,
         SiblingFails, FetchDone, Lock, RecheckHit, RecheckMiss, CopyBegins, CopyEnds, FallBack, CopyDone, Scan,
         EvictSkip, RemoveFails, EvictDone, Kill, End, Goto, Shapes, WriteSentinel, Visits, call, work
<1>9. Whole'
  <2> SUFFICES ASSUME NEW d \in MountDir, d \notin Marked', d \in Staged', NEW f \in File, file'[d][f] = "partial"
               PROVE  FALSE
    BY DEF Whole
  <2>1. d \notin Marked
    BY <1>1
  <2>2. CASE CopyDone(p) /\ d = dir[p]
    <3>1. pc[p] = "copy" /\ left[p] = {} /\ UNCHANGED file
      BY <2>2 DEF CopyDone
    <3> QED BY <2>1, <2>2, <3>1 DEF Copying
  <2>3. CASE d \in Staged
    <3>1. CopyBegins(p) /\ d = dir[p]
      BY <1>6, <2>1, <2>3 DEF Whole
    <3> QED BY <2>1, <2>3, <3>1 DEF Copying, CopyBegins
  <2> QED BY <1>3, <2>2, <2>3
<1>10. ASSUME NEW q \in Proc PROVE CopyingOf(q)'
  <2>1. ASSUME pc'[q] = "copy", dir'[q] \notin Marked', pc[q] = "copy", dir'[q] = dir[q]
        PROVE  dir[q] \notin Staged' /\ \A f \in File : file'[dir[q]][f] = "partial" => f \in left'[q]
    <3>1. dir[q] \in MountDir /\ dir[q] \notin Marked
      BY <1>1, <1>5, <2>1
    <3>2. dir[q] \notin Staged
      BY <2>1, <3>1 DEF Copying
    <3>3. dir[q] \notin Staged'
      <4>1. SUFFICES ASSUME CopyDone(p), dir[q] = dir[p] PROVE FALSE
        BY <1>3, <3>1, <3>2
      <4>2. pc[p] = "copy" /\ pc'[p] = "scan"
        BY <4>1 DEF CopyDone, WriteSentinel, Goto, Shapes
      <4> QED BY <2>1, <4>1, <4>2, OneCopies
    <3>4. ASSUME NEW f \in File, file'[dir[q]][f] = "partial" PROVE f \in left'[q]
      <4>1. f \in left[q]
        <5>1. CASE file[dir[q]][f] = "partial"
          BY <2>1, <3>1, <5>1 DEF Copying
        <5>2. CASE CopyBegins(p) /\ dir[q] = dir[p] /\ f \in left[p]
          <6>1. q = p
            BY <2>1, <5>2, OneCopies DEF CopyBegins
          <6> QED BY <5>2, <6>1
        <5> QED BY <1>6, <3>1, <3>4, <5>1, <5>2
      <4>2. CASE q = p
        BY <1>7, <2>1, <3>4, <4>1, <4>2
      <4>3. CASE q # p
        BY <1>2, <4>1, <4>3
      <4> QED BY <4>2, <4>3
    <3> QED BY <3>3, <3>4
  <2>2. ASSUME q = p, RecheckMiss(p), dir'[q] \notin Marked'
        PROVE  dir'[q] \notin Staged' /\ left'[q] = File
    <3>1. /\ dir' = dir /\ Staged' = Staged
          /\ \E t \in Targets(p) :
                /\ left'[p] = t
                /\ t # File \/ dir[p] \in Staged => dir[p] \in reused'
      BY <2>2 DEF RecheckMiss, Shapes, Staged, call, cache
    <3> QED BY <2>2, <3>1 DEF Marked
  <2>3. pc'[q] = "copy" => dir'[q] = dir[q] /\ (pc[q] = "copy" \/ (q = p /\ RecheckMiss(p)))
    BY <1>2, <1>8
  <2> QED BY <2>1, <2>2, <2>3 DEF CopyingOf
<1>11. ASSUME NEW q \in Proc PROVE SentinelOf(q)'
  <2>1. CASE pc[q] \in {"scan", "evict"} /\ dir'[q] = dir[q]
    BY <1>1, <1>3, <2>1 DEF SentinelOf, Sentinel
  <2>2. CASE q = p /\ RecheckHit(p)
    BY <1>3, <2>2 DEF SentinelOf, RecheckHit, Hit, call
  <2>3. CASE q = p /\ CopyDone(p)
    <3>1. dir' = dir /\ dir[p] \in Staged'
      <4>1. dir[p] \in Dir /\ staged' = Touch(dir[p]) /\ dir' = dir
        BY <2>3 DEF CopyDone, WriteSentinel, Calls, call
      <4>2. ToSet(Touch(dir[p])) = Staged \cup {dir[p]}
        BY <4>1, OrderTouched DEF Order
      <4> QED BY <4>1, <4>2 DEF Staged
    <3> QED BY <2>3, <3>1 DEF SentinelOf
  <2>4. CASE q = p /\ FetchDone(p)
    <3>1. dir'[p] \notin MountDir
      BY <2>4, StagingAssumption DEF FetchDone, Calls, call
    <3> QED BY <2>4, <3>1 DEF SentinelOf
  <2>5. pc'[p] \in {"scan", "evict"} =>
            dir'[p] = dir[p] /\ (pc[p] \in {"scan", "evict"} \/ RecheckHit(p) \/ CopyDone(p) \/ FetchDone(p))
    BY DEF Acts, Step, Call, CheckHit, CheckMiss, SkipFetch, Fetch, Truncate, Fetched, FetchRaises,
         SiblingFails, FetchDone, Lock, RecheckHit, RecheckMiss, CopyBegins, CopyEnds, FallBack, CopyDone, Scan,
         EvictSkip, RemoveFails, EvictDone, Kill, End, Goto, Shapes, WriteSentinel, Visits, call, work
  <2>6. pc'[q] \in {"scan", "evict"} =>
            \/ pc[q] \in {"scan", "evict"} /\ dir'[q] = dir[q]
            \/ q = p /\ (RecheckHit(p) \/ CopyDone(p) \/ FetchDone(p))
    BY <1>2, <2>5
  <2> QED BY <2>1, <2>2, <2>3, <2>4, <2>6 DEF SentinelOf
<1> QED
  BY <1>9, <1>10, <1>11 DEF CopyingOf, SentinelOf, Copying, Sentinel

-----------------------------------------------------------------------------
(* An eviction that nobody disturbs.                                       *)

\* Nothing is staged but what is in the list t and the directory just staged; all
\* in the list but the first are as they were; the count n is of the size that the
\* first had and of those that all the others have.
Counted(p, t, n) ==
    /\ Staged \subseteq {e[1] : e \in ToSet(t)} \cup {dir[p]}
    /\ \A i \in DOMAIN t : i # 1 \/ t[1][1] = dir[p] =>
        t[i][1] \in Staged /\ t[i][2] = Size(t[i][1])
    /\ t # <<>> =>
        /\ Size(t[1][1]) <= t[1][2]
        /\ n = Cardinality(Units(Now(Staged \ {t[1][1]}))) + t[1][2]

Undisturbed ==
    \A p \in Proc : calm[p] => pc[p] = "evict" /\ Counted(p, todo[p], total[p])

\* Nothing is counted anew when the cache stays as it is.
LEMMA SameCount ==
    ASSUME UNCHANGED <<file, staged, dir>>, NEW p, NEW t, NEW n, Counted(p, t, n)
    PROVE  Counted(p, t, n)'
  BY DEF Counted, Staged, Size, Present, Now, Units

\* It holds of what the scan sees, ...
LEMMA ScanCounts ==
    ASSUME Order, NEW p
    PROVE  Counted(p, Sizes, SumSizes(Sizes))
<1>1. ToSet(Sizes) = Now(Staged) /\ SumSizes(Sizes) = Cardinality(Units(Now(Staged)))
      /\ Sizes \in Seq(Listed)
  BY SizesIs
<1>2. Staged \subseteq {e[1] : e \in ToSet(Sizes)}
  <2>1. ASSUME NEW d \in Staged PROVE \E e \in ToSet(Sizes) : d = e[1]
    <3>1. <<d, Size(d)>> \in ToSet(Sizes) /\ <<d, Size(d)>>[1] = d
      BY <1>1 DEF Now
    <3> QED BY <3>1
  <2> QED BY <2>1
<1>3. \A i \in DOMAIN Sizes : Sizes[i][1] \in Staged /\ Sizes[i][2] = Size(Sizes[i][1])
  BY DEF Sizes, Staged, ToSet
<1>4. ASSUME Sizes # <<>>
      PROVE  /\ Sizes[1][1] \in Staged /\ Sizes[1][2] = Size(Sizes[1][1])
             /\ SumSizes(Sizes) = Cardinality(Units(Now(Staged \ {Sizes[1][1]}))) + Sizes[1][2]
  <2>1. 1 \in DOMAIN Sizes
    BY <1>1, <1>4
  <2> QED BY <1>1, <1>3, <2>1, NowAddsUp
<1>5. \A d : Size(d) <= Size(d)
  BY SizeIs
<1> QED
  BY <1>2, <1>3, <1>4, <1>5 DEF Counted

\* ... and still when the first directory has been dealt with: it is the one just
\* staged, or is gone.
LEMMA NextCounts ==
    ASSUME Order, NEW p, NEW t \in Seq(Listed), Different(t), t # <<>>, NEW n \in Nat,
           Counted(p, t, n), NEW m \in Nat,
           \/ t[1][1] = dir[p] /\ m = n
           \/ t[1][1] \notin Staged /\ m = n - t[1][2]
    PROVE  Counted(p, Tail(t), m)
<1> DEFINE u == Tail(t)
           h == t[1][1]
<1>1. /\ DOMAIN t = 1 .. Len(t) /\ Len(t) \in Nat /\ Len(t) >= 1
      /\ DOMAIN u = 1 .. Len(t) - 1 /\ \A i \in 1 .. Len(t) - 1 : u[i] = t[i + 1]
      /\ t[1][2] \in 0 .. 2
  BY DEF Listed
<1>2. ToSet(u) = ToSet(t) \ {t[1]} /\ Different(u)
  BY TailIs
<1> HIDE DEF u
<1>3. ASSUME NEW i \in DOMAIN u PROVE u[i][1] \in Staged /\ u[i][2] = Size(u[i][1])
  <2>1. i + 1 \in DOMAIN t /\ i + 1 # 1 /\ u[i] = t[i + 1]
    BY <1>1
  <2> QED BY <2>1 DEF Counted
<1>4. Staged \subseteq {e[1] : e \in ToSet(u)} \cup {dir[p]}
  <2> SUFFICES ASSUME NEW d \in Staged, d # dir[p] PROVE \E e \in ToSet(u) : e[1] = d
    OBVIOUS
  <2>1. PICK e \in ToSet(t) : e[1] = d
    BY DEF Counted
  <2>2. e # t[1]
    BY <2>1
  <2> QED BY <1>2, <2>1, <2>2
<1>5. m = Cardinality(Units(Now(Staged)))
  <2>1. n = Cardinality(Units(Now(Staged \ {h}))) + t[1][2]
    BY DEF Counted
  <2>2. CASE h = dir[p] /\ m = n
    <3>1. h \in Staged /\ t[1][2] = Size(h)
      BY <1>1, <2>2 DEF Counted
    <3> QED BY <2>1, <2>2, <3>1, NowAddsUp
  <2>3. CASE h \notin Staged /\ m = n - t[1][2]
    <3>1. Staged \ {h} = Staged
      BY <2>3
    <3>2. Cardinality(Units(Now(Staged))) \in Nat
      BY SizesIs
    <3>3. n = Cardinality(Units(Now(Staged))) + t[1][2]
      BY <2>1, <3>1
    <3> QED BY <1>1, <2>3, <3>2, <3>3
  <2> QED BY <2>2, <2>3
<1>6. ASSUME u # <<>>
      PROVE  /\ Size(u[1][1]) <= u[1][2]
             /\ m = Cardinality(Units(Now(Staged \ {u[1][1]}))) + u[1][2]
  <2>1. 1 \in DOMAIN u
    BY <1>1, <1>6 DEF u
  <2>2. u[1][1] \in Staged /\ u[1][2] = Size(u[1][1])
    BY <1>3, <2>1
  <2> QED BY <1>5, <2>2, NowAddsUp, SizeIs
<1> QED
  BY <1>3, <1>4, <1>6 DEF Counted, u

\* The removal of a file or of the sentinel of the first directory changes nothing
\* else that is counted.
LEMMA RemovalCounts ==
    ASSUME Shapes, Order, Lists, Counts, NEW p \in Proc, RemoveOne(p), Counted(p, todo[p], total[p])
    PROVE  Counted(p, todo[p], total[p])'
<1> DEFINE t == todo[p]
           v == t[1][1]
<1>1. /\ t \in Seq(Listed) /\ Different(t) /\ t # <<>> /\ 1 \in DOMAIN t /\ v \in Dir /\ v # dir[p]
      /\ UNCHANGED <<todo, total, dir>>
  BY VictimIs DEF RemoveOne, Counts, Different, Visits, Spared, Victim, call, lru
<1>2. Staged' \subseteq Staged /\ Staged' \ {v} = Staged \ {v}
  <2>1. CASE UNCHANGED staged
    BY <2>1 DEF Staged
  <2>2. CASE staged' = Without(v)
    <3>1. ToSet(Without(v)) = Staged \ {v}
      BY OrderWithout DEF Order
    <3> QED BY <2>2, <3>1 DEF Staged
  <2> QED BY <2>1, <2>2 DEF RemoveOne, Victim
<1>3. \A d \in Dir, f \in File : Present(d, f)' => Present(d, f)
  <2>1. CASE UNCHANGED file
    BY <2>1 DEF Present
  <2>2. CASE \E f \in File : SetFile(v, f, "absent")
    BY <1>1, <2>2, FileSet DEF Present, Shapes
  <2> QED BY <2>1, <2>2 DEF RemoveOne, Victim
<1>4. \A d \in Dir, f \in File : d # v => file'[d][f] = file[d][f]
  <2>1. CASE UNCHANGED file
    BY <2>1
  <2>2. CASE \E f \in File : SetFile(v, f, "absent")
    BY <1>1, <2>2, FileSet DEF Shapes
  <2> QED BY <2>1, <2>2 DEF RemoveOne, Victim
<1>5. ASSUME NEW d \in Dir, d # v PROVE Size(d)' = Size(d)
  BY <1>4, <1>5 DEF Size, Present
<1>6. Size(v)' <= Size(v) /\ Size(v)' \in Nat /\ Size(v) \in Nat
  <2>1. IsFiniteSet({f \in File : Present(v, f)})
    BY FileFinite, FS_Subset
  <2>2. {f \in File : Present(v, f)'} \subseteq {f \in File : Present(v, f)}
    BY <1>1, <1>3 DEF Present
  <2>3. /\ Cardinality({f \in File : Present(v, f)'}) <= Cardinality({f \in File : Present(v, f)})
        /\ Cardinality({f \in File : Present(v, f)'}) \in Nat
        /\ Cardinality({f \in File : Present(v, f)}) \in Nat
    BY <2>1, <2>2, FS_Subset, FS_CardinalityType
  <2> QED BY <1>1, <2>3 DEF Size, Present
<1>7. Now(Staged \ {v})' = Now(Staged \ {v})
  <2>1. Staged \ {v} \subseteq Dir
    BY DEF Order, Staged, ToSet
  <2> QED BY <1>1, <1>2, <1>5, <2>1 DEF Now
<1>8. ASSUME NEW i \in DOMAIN t, i # 1
      PROVE  t[i][1] \in Staged' /\ t[i][2] = Size(t[i][1])'
  <2>1. t[i][1] # v
    BY <1>1, <1>8 DEF Different
  <2>2. t[i][1] \in Dir /\ t[i][1] \in Staged /\ t[i][2] = Size(t[i][1])
    BY <1>1, <1>8 DEF Counted, Listed
  <2>3. Size(t[i][1])' = Size(t[i][1])
    BY <1>1, <1>5, <2>1, <2>2
  <2> QED BY <1>2, <2>1, <2>2, <2>3
<1>9. Size(v)' <= t[1][2]
  <2>1. Size(v) <= t[1][2] /\ t[1][2] \in Nat
    BY <1>1 DEF Counted, Listed
  <2> QED BY <1>6, <2>1
<1>10. total[p] = Cardinality(Units(Now(Staged \ {v})))' + t[1][2]
  BY <1>1, <1>7 DEF Counted, Units
<1>11. Staged' \subseteq {e[1] : e \in ToSet(t)} \cup {dir[p]}
  BY <1>1, <1>2 DEF Counted
<1> QED
  BY <1>1, <1>8, <1>9, <1>10, <1>11 DEF Counted

\* Every step of the evicting process keeps its count; a step of another one ends
\* the calm.
LEMMA UndisturbedStep ==
    ASSUME Shapes, Order, Lists, Counts, Undisturbed, NEW p \in Proc, Acts(p)
    PROVE  Undisturbed'
<1> DEFINE Holds(q) == calm[q] => pc[q] = "evict" /\ Counted(q, todo[q], total[q])
<1>1. ASSUME NEW q \in Proc, q # p PROVE Holds(q)'
  BY <1>1, OthersKept
<1>2. calm[p] => pc[p] = "evict" /\ Counted(p, todo[p], total[p])
  BY DEF Undisturbed
<1>3. Holds(p)'
  <2>1. CASE ~calm'[p]
    BY <2>1
  <2>2. CASE Scan(p)
    <3>1. /\ pc'[p] = "evict" /\ UNCHANGED <<file, staged, dir>>
          /\ todo'[p] = Sizes /\ total'[p] = SumSizes(Sizes)
      BY <2>2 DEF Scan, Goto, Shapes, Lists, cache, call
    <3>2. Counted(p, Sizes, SumSizes(Sizes))
      BY ScanCounts
    <3>3. Counted(p, todo'[p], total'[p])
      BY <3>1, <3>2
    <3> QED BY <3>1, <3>3, SameCount
  <2>3. ASSUME calm'[p], ~Scan(p) PROVE calm[p] /\ (EvictSkip(p) \/ RemoveOne(p) \/ Removed(p))
    <3>1. CASE CheckHit(p) \/ FetchRaises(p) \/ FallBack(p) \/ EvictDone(p) \/ Kill(p)
      <4>1. End(p)
        BY <3>1 DEF CheckHit, FetchRaises, FallBack, EvictDone, Kill
      <4> QED BY <2>3, <4>1 DEF End, Moves, Shapes
    <3>2. CASE RemoveFails(p)
      BY <2>3, <3>2 DEF RemoveFails
    <3>3. CASE EvictSkip(p) \/ RemoveOne(p) \/ Removed(p)
      BY <2>3, <3>3 DEF EvictSkip, RemoveOne, Removed, Moves, Shapes
    <3>4. ASSUME calm' = Moves(p), pc[p] # "evict" PROVE FALSE
      BY <1>2, <2>3, <3>4 DEF Moves, Shapes
    <3>5. CASE CheckMiss(p) \/ SkipFetch(p) \/ Fetch(p) \/ Truncate(p) \/ Fetched(p) \/ SiblingFails(p)
      BY <3>4, <3>5 DEF CheckMiss, SkipFetch, Fetch, Truncate, Fetched, SiblingFails
    <3>6. CASE FetchDone(p) \/ RecheckHit(p) \/ RecheckMiss(p) \/ CopyBegins(p) \/ CopyEnds(p) \/ CopyDone(p)
      BY <3>4, <3>6 DEF FetchDone, RecheckHit, RecheckMiss, CopyBegins, CopyEnds, CopyDone
    <3>7. CASE Lock(p) \/ \E d \in Dir, f \in File : Call(p, d, f)
      BY <3>4, <3>7 DEF Lock, Call
    <3> QED
      BY <2>3, <3>1, <3>2, <3>3, <3>5, <3>6, <3>7 DEF Acts, Step
  <2>4. CASE calm[p] /\ EvictSkip(p)
    <3>1. /\ UNCHANGED <<file, staged, dir, pc, total>> /\ todo'[p] = Tail(todo[p])
          /\ Visits(p) /\ todo[p][1][1] = dir[p] /\ total[p] \in Nat
          /\ todo[p] \in Seq(Listed) /\ Different(todo[p]) /\ todo[p] # <<>>
      BY <2>4, VictimIs DEF EvictSkip, Visits, Spared, Victim, Lists, Counts, Different, cache, call
    <3>2. Counted(p, Tail(todo[p]), total[p])
      BY <1>2, <2>4, <3>1, NextCounts
    <3>3. Counted(p, todo'[p], total'[p])
      BY <3>1, <3>2
    <3> QED BY <1>2, <2>4, <3>1, <3>3, SameCount
  <2>5. CASE calm[p] /\ Removed(p)
    <3>1. /\ UNCHANGED <<file, staged, dir, pc>> /\ todo'[p] = Tail(todo[p])
          /\ total'[p] = total[p] - todo[p][1][2]
          /\ Visits(p) /\ todo[p][1][1] \notin Staged /\ total[p] \in Nat
          /\ todo[p] \in Seq(Listed) /\ Different(todo[p]) /\ todo[p] # <<>>
      BY <2>5, VictimIs DEF Removed, Visits, Victim, Lists, Counts, Different, call
    <3>2. total[p] - todo[p][1][2] \in Nat
      <4>1. /\ SumSizes(Tail(todo[p])) \in Nat /\ SumSizes(todo[p]) = SumSizes(Tail(todo[p])) + todo[p][1][2]
        BY <3>1, TailIs
      <4>2. SumSizes(todo[p]) <= total[p]
        BY DEF Counts
      <4>3. todo[p][1][2] \in Nat
        BY <3>1, VictimIs DEF Listed
      <4> QED BY <3>1, <4>1, <4>2, <4>3
    <3>3. Counted(p, Tail(todo[p]), total[p] - todo[p][1][2])
      BY <1>2, <2>5, <3>1, <3>2, NextCounts
    <3>4. Counted(p, todo'[p], total'[p])
      BY <3>1, <3>3
    <3> QED BY <1>2, <2>5, <3>1, <3>4, SameCount
  <2>6. CASE calm[p] /\ RemoveOne(p)
    <3>1. pc' = pc
      BY <2>6 DEF RemoveOne
    <3> QED BY <1>2, <2>6, <3>1, RemovalCounts
  <2> QED BY <2>1, <2>2, <2>3, <2>4, <2>5, <2>6
<1> QED
  BY <1>1, <1>3 DEF Undisturbed

-----------------------------------------------------------------------------
(* The theorems.                                                           *)

Inv ==
    /\ TypeOK /\ Calls /\ Counts
    /\ There
    /\ Locks /\ Whole /\ Copying /\ Sentinel
    /\ Undisturbed

\* The cache that earlier calls left satisfies the invariant, ...
LEMMA InitInv == Init => Inv
<1> SUFFICES ASSUME Init PROVE Inv
  OBVIOUS
<1> USE DEF Init
<1>1. Shapes
  BY StagingAssumption DEF Shapes
<1>2. Order /\ Tidy
  <2>1. PICK D \in SUBSET Dir :
            /\ file = [d \in Dir |-> [f \in File |-> IF d \in D THEN "whole" ELSE "absent"]]
            /\ made = D /\ staged \in SetToSeqs(D)
    OBVIOUS
  <2>2. IsFiniteSet(D) /\ Cardinality(D) \in Nat
    BY StagingAssumption, FS_Subset, FS_CardinalityType DEF Dir
  <2>3. /\ staged \in [1 .. Cardinality(D) -> D]
        /\ \A i, j \in 1 .. Cardinality(D) : i # j => staged[i] # staged[j]
    BY <2>1 DEF SetToSeqs
  <2>a. staged \in [1 .. Cardinality(D) -> Dir]
    BY <2>3
  <2> HIDE DEF Init
  <2>b. staged \in Seq(Dir)
    BY <2>2, <2>a
  <2>4. Staged \subseteq D
    BY <2>3 DEF Staged, ToSet
  <2>5. IsInjective(staged)
    BY <2>3 DEF IsInjective
  <2> QED BY <2>1, <2>b, <2>4, <2>5 DEF Order, Tidy, Present
<1>3. Lists /\ Counts
  <2>1. ASSUME NEW p \in Proc
        PROVE  todo[p] \in Seq(Listed) /\ Different(todo[p]) /\ SumSizes(todo[p]) = 0 /\ total[p] = 0
    <3>1. todo[p] = <<>> /\ total[p] = 0
      OBVIOUS
    <3> QED BY <3>1, NothingListed
  <2>2. todo = [p \in Proc |-> todo[p]] /\ total = [p \in Proc |-> total[p]]
    OBVIOUS
  <2> HIDE DEF Init
  <2> QED BY <2>1, <2>2 DEF Lists, Counts, Different, Listed
<1>4. Calls /\ There /\ Copying /\ Sentinel /\ Undisturbed
  BY DEF Calls, There, Copying, Sentinel, Undisturbed
<1>5. Locks /\ Whole
  BY StagingAssumption DEF Locks, Whole, Dir
<1> QED
  BY <1>1, <1>2, <1>3, <1>4, <1>5, TypeParts DEF Inv

\* ... and every step keeps it.
LEMMA NextInv == Inv /\ [Next]_vars => Inv'
<1> SUFFICES ASSUME Inv, [Next]_vars PROVE Inv'
  OBVIOUS
<1>1. Shapes /\ Order /\ Lists /\ Tidy
  BY TypeParts DEF Inv
<1>2. CASE UNCHANGED vars
  <2>1. /\ UNCHANGED <<file, made, staged, lock, pc, dir, want, calls>>
        /\ UNCHANGED <<left, cur, todo, total, raced, reused, calm>>
    BY <1>2 DEF vars, cache, call, work, lru, history
  <2>2. TypeOK'
    BY <2>1 DEF Inv, TypeOK, Staged, Size, Present
  <2>3. Calls' /\ Counts'
    BY <2>1 DEF Inv, Calls, Counts, SumSizes
  <2>4. There' /\ Locks'
    BY <2>1 DEF Inv, There, Has, Present, Locks
  <2>5. Whole' /\ Copying' /\ Sentinel'
    BY <2>1 DEF Inv, Whole, Copying, Sentinel, Staged, Marked
  <2>6. Undisturbed'
    BY <2>1, SameCount DEF Inv, Undisturbed
  <2> QED BY <2>2, <2>3, <2>4, <2>5, <2>6 DEF Inv
<1>3. CASE Next
  <2>1. PICK p \in Proc : Acts(p)
    BY <1>3 DEF Next, Acts
  <2>2. Shapes' /\ Calls'
    BY <1>1, <2>1, ShapesStep DEF Inv
  <2>3. Order' /\ Tidy'
    BY <1>1, <2>1, OrderStep, TidyStep DEF Inv
  <2>4. Lists' /\ Counts'
    BY <1>1, <2>1, ListsStep DEF Inv
  <2>5. There'
    BY <1>1, <2>1, ThereStep DEF Inv
  <2>6. Locks' /\ Whole' /\ Copying' /\ Sentinel'
    BY <1>1, <2>1, LocksStep, CleanStep DEF Inv
  <2>7. Undisturbed'
    BY <1>1, <2>1, UndisturbedStep DEF Inv
  <2>8. TypeOK'
    BY <2>2, <2>3, <2>4, TypePartsNext
  <2> QED BY <2>2, <2>4, <2>5, <2>6, <2>7, <2>8 DEF Inv
<1> QED BY <1>2, <1>3

\* The inductive invariant: types, the place of every process in its call, the
\* flocks, what is whole, and what an eviction counts.
THEOREM Invariance == Spec => []Inv
  BY InitInv, NextInv, PTL DEF Spec

\* Every variable keeps its type, no directory is twice in the order of use, and
\* one that was removed has neither files nor a sentinel (_evict_lru).
THEOREM TypeCorrect == Spec => []TypeOK
<1>1. Inv => TypeOK
  BY DEF Inv
<1> QED BY <1>1, Invariance, PTL

\* stage_to_local never returns the path of a file that is not there, unless
\* another process evicted its directory under the call.
THEOREM PresentUnlessRaced == Spec => GoneOnlyIfRaced
<1>1. ASSUME Inv, NEW p \in Proc, Returns(p), dir[p] \notin raced
      PROVE  Present(dir[p], want[p])
  <2>1. CASE CheckHit(p)
    BY <2>1 DEF CheckHit, Hit
  <2>2. CASE EvictDone(p)
    BY <1>1, <2>2 DEF EvictDone, Inv, There, Has
  <2> QED BY <1>1, <2>1, <2>2 DEF Returns
<1>2. Inv /\ [Next]_vars =>
        [\A p \in Proc : Returns(p) /\ dir[p] \notin raced => Present(dir[p], want[p])]_vars
  BY <1>1
<1> QED
  BY <1>2, Invariance, PTL DEF Spec, GoneOnlyIfRaced

\* stage_to_local never returns a file that is cut short of a mounted directory
\* that is copied whole, whoever was killed before, unless it was evicted in use.
THEOREM MountedIsWhole == Spec => NeverTornFromMount
<1>1. ASSUME Inv, NEW p \in Proc, Returns(p), dir[p] \in MountDir \ (reused \cup raced)
      PROVE  file[dir[p]][want[p]] # "partial"
  <2>1. dir[p] \in Staged /\ want[p] \in File
    <3>1. CASE CheckHit(p)
      BY <1>1, <3>1 DEF CheckHit, Hit, Inv, Calls
    <3>2. CASE EvictDone(p)
      BY <1>1, <3>2 DEF EvictDone, Inv, Calls, Sentinel
    <3> QED BY <1>1, <3>1, <3>2 DEF Returns
  <2> QED BY <1>1, <2>1 DEF Inv, Whole, Marked
<1>2. Inv /\ [Next]_vars =>
        [\A p \in Proc : Returns(p) /\ dir[p] \in MountDir \ (reused \cup raced) =>
            file[dir[p]][want[p]] # "partial"]_vars
  BY <1>1
<1> QED
  BY <1>2, Invariance, PTL DEF Spec, NeverTornFromMount

\* An _evict_lru that nobody disturbs ends within the budget, or with nothing but
\* the directory just staged.
THEOREM WithinBudget == Spec => BudgetKept
<1>1. ASSUME Inv, NEW p \in Proc, EvictDone(p), calm[p]
      PROVE  SumSizes(Sizes) <= Budget \/ Staged \subseteq {dir[p]}
  <2> DEFINE t == todo[p]
             h == t[1][1]
  <2>1. /\ Order /\ t \in Seq(Listed) /\ total[p] \in Nat
        /\ Staged \subseteq {e[1] : e \in ToSet(t)} \cup {dir[p]}
        /\ t # <<>> =>
            /\ Size(h) <= t[1][2]
            /\ total[p] = Cardinality(Units(Now(Staged \ {h}))) + t[1][2]
    BY <1>1, TypeParts DEF Inv, Undisturbed, Counted, Lists, Listed
  <2>2. CASE t = <<>>
    <3>1. ToSet(t) = {}
      BY <2>2 DEF ToSet
    <3> QED BY <2>1, <3>1
  <2>3. CASE t # <<>>
    <3>1. total[p] <= Budget /\ Budget \in Nat
      BY <1>1, <2>3, StagingAssumption DEF EvictDone, Under
    <3>2. SumSizes(Sizes) = Cardinality(Units(Now(Staged))) /\ SumSizes(Sizes) \in Nat
      BY <2>1, SizesIs
    <3>3. t[1][2] \in Nat /\ Size(h) \in Nat
      BY <2>1, <2>3, SizeIs DEF Listed
    <3>4. CASE h \in Staged
      <4>1. /\ Cardinality(Units(Now(Staged \ {h}))) \in Nat
            /\ Cardinality(Units(Now(Staged))) = Cardinality(Units(Now(Staged \ {h}))) + Size(h)
        BY <2>1, <3>4, NowAddsUp
      <4> QED BY <2>1, <2>3, <3>1, <3>2, <3>3, <4>1
    <3>5. CASE h \notin Staged
      <4>1. Staged \ {h} = Staged
        BY <3>5
      <4>2. total[p] = Cardinality(Units(Now(Staged))) + t[1][2]
        BY <2>1, <2>3, <4>1
      <4> QED BY <3>1, <3>2, <3>3, <4>2
    <3> QED BY <3>4, <3>5
  <2> QED BY <2>2, <2>3
<1>2. Inv /\ [Next]_vars =>
        [\A p \in Proc : EvictDone(p) /\ calm[p] =>
            SumSizes(Sizes) <= Budget \/ Staged \subseteq {dir[p]}]_vars
  BY <1>1
<1> QED
  BY <1>2, Invariance, PTL DEF Spec, BudgetKept

=============================================================================
