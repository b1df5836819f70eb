------------------------------ MODULE Staging ------------------------------
(***************************************************************************)
(* stage_to_local of src/src/staging.py: the processes of a node mirror    *)
(* checkpoint directories into one cache, from S3 without a lock, from a   *)
(* slow mount under a flock per directory; a .stage_done file marks a      *)
(* directory that is staged, and the least recently used directories are   *)
(* evicted.  Every process may be killed at any step and start again.      *)
(***************************************************************************)
EXTENDS Integers, Sequences, FiniteSets, SequencesExt

CONSTANTS
    Proc,       \* the processes that share the cache
    NoProc,     \* nobody: a model value
    NoDir,      \* no directory: a model value
    S3Dir,      \* source directories on S3
    MountDir,   \* source directories on a slow mount
    Budget,     \* ARCSTORE_CACHE_BUDGET_GIB, in files
    MaxCalls    \* bound on the calls of all processes

ASSUME StagingAssumption ==
    /\ NoProc \notin Proc /\ NoDir \notin S3Dir \cup MountDir
    /\ S3Dir \cap MountDir = {} /\ IsFiniteSet(S3Dir \cup MountDir)
    /\ Budget \in Nat /\ MaxCalls \in Nat

Dir == S3Dir \cup MountDir

\* The file asked for, and the other one beside it (siblings, copy_whole_dir).
File == {"model", "ema"}

VARIABLES
    file,     \* [Dir -> [File -> "absent", "partial" or "whole"]]: the cache
    made,     \* the cache directories that exist
    staged,   \* those with a .stage_done, least recently used first
    lock,     \* [MountDir -> who holds the flock]
    pc,       \* [Proc -> where it is in stage_to_local]
    dir,      \* [Proc -> the directory it stages]
    want,     \* [Proc -> the file it was asked for]
    left,     \* [Proc -> the files it has still to fetch or copy]
    cur,      \* [Proc -> the file at work, if any, and if it is written in place]
    todo,     \* [Proc -> the directories _evict_lru listed, as <<dir, size>>]
    total,    \* [Proc -> the bytes _evict_lru still counts]
    calls,    \* the calls so far
    raced,    \* history: directories one process removed while another used them
    reused,   \* history: directories copied in part, or copied with a .stage_done
    calm      \* history: [Proc -> nobody else has moved, nothing failed, since its scan]

cache == <<file, made, staged>>
call == <<dir, want, calls>>
work == <<left, cur>>
lru == <<todo, total>>
history == <<raced, reused>>
vars == <<cache, lock, pc, call, work, lru, history, calm>>

Present(d, f) == file[d][f] # "absent"
Staged == ToSet(staged)
Hit(p) == dir[p] \in Staged /\ Present(dir[p], want[p])
Size(d) == Cardinality({f \in File : Present(d, f)})
Sizes == [i \in DOMAIN staged |-> <<staged[i], Size(staged[i])>>]

\* What the sizes of a list <<directory, size>> come to; it has no directory twice.
SumSizes(s) == Cardinality(UNION {{e[1]} \X (1 .. e[2]) : e \in ToSet(s)})

\* Bug: a sentinel that is touched counts twice.
TouchTwice(d) == Append(staged, d)

\* The order of use without a directory.
Without(d) ==
    IF d \in Staged THEN RemoveAt(staged, CHOOSE i \in DOMAIN staged : staged[i] = d) ELSE staged

\* os.utime, or a new sentinel: most recently used.
Touch(d) == Append(Without(d), d)

\* Others are in a call on directory d.
InUse(p, d) == \E q \in Proc \ {p} : pc[q] # "idle" /\ dir[q] = d
Moves(p) == [q \in Proc |-> calm[q] /\ q = p]

Goto(p, l) == pc' = [pc EXCEPT ![p] = l]
SetFile(d, f, v) == file' = [file EXCEPT ![d][f] = v]

\* The call is over, and its variables with it.
End(p) ==
    /\ Goto(p, "idle") /\ UNCHANGED calls
    /\ dir' = [dir EXCEPT ![p] = NoDir] /\ want' = [want EXCEPT ![p] = "none"]
    /\ left' = [left EXCEPT ![p] = {}] /\ cur' = [cur EXCEPT ![p] = {}]
    /\ todo' = [todo EXCEPT ![p] = <<>>] /\ total' = [total EXCEPT ![p] = 0]
    /\ calm' = [Moves(p) EXCEPT ![p] = FALSE]

\* The cache as earlier calls left it: some directories are staged.
Init ==
    /\ \E D \in SUBSET Dir :
        /\ file = [d \in Dir |-> [f \in File |-> IF d \in D THEN "whole" ELSE "absent"]]
        /\ made = D /\ staged \in SetToSeqs(D)
    /\ lock = [d \in MountDir |-> NoProc]
    /\ pc = [p \in Proc |-> "idle"]
    /\ dir = [p \in Proc |-> NoDir] /\ want = [p \in Proc |-> "none"]
    /\ left = [p \in Proc |-> {}] /\ cur = [p \in Proc |-> {}]
    /\ todo = [p \in Proc |-> <<>>] /\ total = [p \in Proc |-> 0]
    /\ calls = 0 /\ raced = {} /\ reused = {}
    /\ calm = [p \in Proc |-> FALSE]

-----------------------------------------------------------------------------
(* Bugs the properties must tell from the code.                            *)

\* A lock that keeps nobody out.
LockForAll(d) == TRUE

\* Eviction that does not spare the directory just staged.
SparesNone(p, d) == FALSE

\* Eviction that stops when it has freed something.
FreedSomething(p) == total[p] <= Budget \/ Len(todo[p]) < Len(staged)

-----------------------------------------------------------------------------
(* The operations.                                                         *)

\* siblings and copy_whole_dir: the file asked for, or the other one as well.
Targets(p) == {File, {want[p]}}

\* A file is whole when its writer is done, unless it was removed meanwhile.
Written(p, f) == IF Present(dir[p], f) THEN "whole" ELSE "absent"

-----------------------------------------------------------------------------
(* The check for a staged directory.                                       *)

\* The S3 branch makes its directory before it looks.
Call(p, d, f) ==
    /\ pc[p] = "idle" /\ calls < MaxCalls
    /\ calls' = calls + 1
    /\ dir' = [dir EXCEPT ![p] = d] /\ want' = [want EXCEPT ![p] = f]
    /\ made' = made \cup ({d} \cap S3Dir)
    /\ Goto(p, "check")
    /\ calm' = Moves(p)
    /\ UNCHANGED <<file, staged, lock, work, lru, history>>

CheckHit(p) ==
    /\ pc[p] = "check" /\ Hit(p)
    /\ staged' = Touch(dir[p])
    /\ End(p)
    /\ UNCHANGED <<file, made, lock, history>>

CheckMiss(p) ==
    /\ pc[p] = "check" /\ ~Hit(p)
    /\ made' = made \cup {dir[p]}
    /\ IF dir[p] \in S3Dir
       THEN Goto(p, "fetch") /\ \E t \in Targets(p) : left' = [left EXCEPT ![p] = t]
       ELSE Goto(p, "lock") /\ UNCHANGED left
    /\ calm' = Moves(p)
    /\ UNCHANGED <<file, staged, lock, call, cur, lru, history>>

-----------------------------------------------------------------------------
(* _stage_s3_dir: the file asked for, then the others, best effort.        *)

Following(p) == IF want[p] \in left[p] THEN want[p] ELSE CHOOSE f \in left[p] : TRUE

\* isfile is enough for _download_one to take a file as downloaded.
SkipFetch(p) ==
    /\ pc[p] = "fetch" /\ left[p] # {} /\ cur[p] = {}
    /\ Present(dir[p], Following(p))
    /\ left' = [left EXCEPT ![p] = @ \ {Following(p)}]
    /\ calm' = Moves(p)
    /\ UNCHANGED <<cache, lock, pc, call, cur, lru, history>>

\* download_file makes the directory again.
Fetch(p) ==
    /\ pc[p] = "fetch" /\ left[p] # {} /\ cur[p] = {}
    /\ ~Present(dir[p], Following(p))
    /\ cur' = [cur EXCEPT ![p] = {<<Following(p), "begun">>}]
    /\ made' = made \cup {dir[p]}
    /\ calm' = Moves(p)
    /\ UNCHANGED <<file, staged, lock, pc, call, left, lru, history>>

\* A tool that writes in place truncates what is there ...
Truncate(p) ==
    /\ pc[p] = "fetch" /\ dir[p] \in made
    /\ \E e \in cur[p] :
        /\ e[2] = "begun"
        /\ SetFile(dir[p], e[1], "partial")
        /\ cur' = [cur EXCEPT ![p] = {<<e[1], "writing">>}]
    /\ calm' = Moves(p)
    /\ UNCHANGED <<made, staged, lock, pc, call, left, lru, history>>

\* ... and one that does not renames a whole file into place.  A file that was
\* removed while it was written stays removed.
Fetched(p) ==
    /\ pc[p] = "fetch"
    /\ \E e \in cur[p] :
        /\ \/ e[2] = "begun" /\ dir[p] \in made /\ SetFile(dir[p], e[1], "whole")
           \/ e[2] = "writing" /\ SetFile(dir[p], e[1], Written(p, e[1]))
        /\ left' = [left EXCEPT ![p] = @ \ {e[1]}]
    /\ cur' = [cur EXCEPT ![p] = {}]
    /\ calm' = Moves(p)
    /\ UNCHANGED <<made, staged, lock, pc, call, lru, history>>

\* The file asked for is required: its failure raises.  So does that of the
\* sentinel, in a directory that was evicted.
FetchRaises(p) ==
    /\ pc[p] = "fetch"
    /\ \/ \E e \in cur[p] : e[1] = want[p]
       \/ left[p] = {} /\ dir[p] \notin made
    /\ End(p)
    /\ UNCHANGED <<cache, lock, history>>

\* An optional sibling is given up.
SiblingFails(p) ==
    /\ pc[p] = "fetch"
    /\ \E e \in cur[p] : e[1] # want[p] /\ left' = [left EXCEPT ![p] = @ \ {e[1]}]
    /\ cur' = [cur EXCEPT ![p] = {}]
    /\ calm' = Moves(p)
    /\ UNCHANGED <<cache, lock, pc, call, lru, history>>

\* The sentinel is written, and eviction is next.
WriteSentinel(p) == staged' = Touch(dir[p]) /\ Goto(p, "scan")

FetchDone(p) ==
    /\ pc[p] = "fetch" /\ left[p] = {} /\ dir[p] \in made
    /\ WriteSentinel(p)
    /\ calm' = Moves(p)
    /\ UNCHANGED <<file, made, lock, call, work, lru, history>>

-----------------------------------------------------------------------------
(* _stage_local_dir: one file or the whole flat directory, under the lock. *)

Free(d) == lock[d] = NoProc
Unlocked(d) == [lock EXCEPT ![d] = NoProc]

Lock(p) ==
    /\ pc[p] = "lock" /\ Free(dir[p])
    /\ lock' = [lock EXCEPT ![dir[p]] = p]
    /\ Goto(p, "recheck")
    /\ calm' = Moves(p)
    /\ UNCHANGED <<cache, call, work, lru, history>>

\* A sibling rank may have finished while we waited.
RecheckHit(p) ==
    /\ pc[p] = "recheck" /\ Hit(p)
    /\ lock' = Unlocked(dir[p]) /\ Goto(p, "scan")
    /\ calm' = Moves(p)
    /\ UNCHANGED <<cache, call, work, lru, history>>

RecheckMiss(p) ==
    /\ pc[p] = "recheck" /\ ~Hit(p)
    /\ \E t \in Targets(p) :
        /\ left' = [left EXCEPT ![p] = t]
        /\ reused' = IF t # File \/ dir[p] \in Staged THEN reused \cup {dir[p]} ELSE reused
    /\ Goto(p, "copy")
    /\ calm' = Moves(p)
    /\ UNCHANGED <<cache, lock, call, cur, lru, raced>>

\* shutil.copy2 truncates, writes, and is done.
CopyBegins(p) ==
    /\ pc[p] = "copy" /\ cur[p] = {} /\ dir[p] \in made
    /\ \E f \in left[p] :
        /\ cur' = [cur EXCEPT ![p] = {<<f, "writing">>}]
        /\ SetFile(dir[p], f, "partial")
    /\ calm' = Moves(p)
    /\ UNCHANGED <<made, staged, lock, pc, call, left, lru, history>>

CopyEnds(p) ==
    /\ pc[p] = "copy"
    /\ \E e \in cur[p] :
        /\ SetFile(dir[p], e[1], Written(p, e[1]))
        /\ left' = [left EXCEPT ![p] = @ \ {e[1]}]
    /\ cur' = [cur EXCEPT ![p] = {}]
    /\ calm' = Moves(p)
    /\ UNCHANGED <<made, staged, lock, pc, call, lru, history>>

\* An OSError, or a staged file that is not there: back to the source path.
FallBack(p) ==
    /\ pc[p] = "copy"
    /\ left[p] # {} \/ ~Present(dir[p], want[p])
    /\ lock' = Unlocked(dir[p])
    /\ End(p)
    /\ UNCHANGED <<cache, history>>

CopyDone(p) ==
    /\ pc[p] = "copy" /\ left[p] = {} /\ Present(dir[p], want[p])
    /\ WriteSentinel(p)
    /\ lock' = Unlocked(dir[p])
    /\ calm' = Moves(p)
    /\ UNCHANGED <<file, made, call, work, lru, history>>

-----------------------------------------------------------------------------
(* _evict_lru                                                              *)

\* What os.scandir, getmtime and os.walk see.
Scan(p) ==
    /\ pc[p] = "scan"
    /\ todo' = [todo EXCEPT ![p] = Sizes]
    /\ total' = [total EXCEPT ![p] = SumSizes(Sizes)]
    /\ Goto(p, "evict")
    /\ calm' = [Moves(p) EXCEPT ![p] = \A q \in Proc \ {p} : pc[q] = "idle"]
    /\ UNCHANGED <<cache, lock, call, work, history>>

Under(p) == total[p] <= Budget
Spared(p, d) == d = dir[p]
Victim(p) == todo[p][1][1]
Visits(p) == pc[p] = "evict" /\ ~Under(p) /\ todo[p] # <<>>

EvictSkip(p) ==
    /\ Visits(p) /\ Spared(p, Victim(p))
    /\ todo' = [todo EXCEPT ![p] = Tail(@)]
    /\ calm' = Moves(p)
    /\ UNCHANGED <<cache, lock, pc, call, work, total, history>>

\* shutil.rmtree takes the files away one by one, the sentinel among them ...
RemoveOne(p) ==
    /\ Visits(p) /\ ~Spared(p, Victim(p))
    /\ \/ /\ \E f \in File : Present(Victim(p), f) /\ SetFile(Victim(p), f, "absent")
          /\ UNCHANGED staged
       \/ /\ Victim(p) \in Staged
          /\ staged' = Without(Victim(p))
          /\ UNCHANGED file
    /\ raced' = IF InUse(p, Victim(p)) THEN raced \cup {Victim(p)} ELSE raced
    /\ calm' = Moves(p)
    /\ UNCHANGED <<made, lock, pc, call, work, lru, reused>>

\* ... and then the directory.
Removed(p) ==
    /\ Visits(p) /\ ~Spared(p, Victim(p))
    /\ Victim(p) \in made \ Staged /\ Size(Victim(p)) = 0
    /\ made' = made \ {Victim(p)}
    /\ total' = [total EXCEPT ![p] = @ - todo[p][1][2]]
    /\ todo' = [todo EXCEPT ![p] = Tail(@)]
    /\ LET old == IF InUse(p, Victim(p)) THEN {} ELSE {Victim(p)}
       IN  raced' = raced \ old /\ reused' = reused \ old
    /\ calm' = Moves(p)
    /\ UNCHANGED <<file, staged, lock, pc, call, work>>

\* An OSError: what is left of the directory stays, and the next one is tried.
RemoveFails(p) ==
    /\ Visits(p) /\ ~Spared(p, Victim(p))
    /\ todo' = [todo EXCEPT ![p] = Tail(@)]
    /\ calm' = [q \in Proc |-> FALSE]
    /\ UNCHANGED <<cache, lock, pc, call, work, total, history>>

EvictDone(p) ==
    /\ pc[p] = "evict" /\ (Under(p) \/ todo[p] = <<>>)
    /\ End(p)
    /\ UNCHANGED <<cache, lock, history>>

-----------------------------------------------------------------------------

\* The process dies; the kernel drops its lock, its files stay as they are.
Kill(p) ==
    /\ pc[p] # "idle"
    /\ End(p)
    /\ lock' = [d \in MountDir |-> IF lock[d] = p THEN NoProc ELSE lock[d]]
    /\ UNCHANGED <<cache, history>>

Step(p) ==
    \/ CheckHit(p) \/ CheckMiss(p)
    \/ SkipFetch(p) \/ Fetch(p) \/ Truncate(p) \/ Fetched(p)
    \/ FetchRaises(p) \/ SiblingFails(p) \/ FetchDone(p)
    \/ RecheckHit(p) \/ RecheckMiss(p)
    \/ CopyBegins(p) \/ CopyEnds(p) \/ FallBack(p) \/ CopyDone(p)
    \/ Scan(p) \/ EvictSkip(p) \/ RemoveOne(p) \/ Removed(p) \/ RemoveFails(p) \/ EvictDone(p)

Next ==
    \E p \in Proc :
        \/ \E d \in Dir, f \in File : Call(p, d, f)
        \/ Step(p)
        \/ Lock(p)
        \/ Kill(p)

Spec == Init /\ [][Next]_vars

-----------------------------------------------------------------------------
(* Properties.                                                             *)

\* Types; a directory has one place in the order of use, and only directories
\* that exist have a .stage_done or files.
TypeOK ==
    /\ file \in [Dir -> [File -> {"absent", "partial", "whole"}]]
    /\ made \in SUBSET Dir
    /\ staged \in Seq(Dir) /\ IsInjective(staged)
    /\ lock \in [MountDir -> Proc \cup {NoProc}]
    /\ pc \in [Proc -> {"idle", "check", "fetch", "lock", "recheck", "copy", "scan", "evict"}]
    /\ dir \in [Proc -> Dir \cup {NoDir}] /\ want \in [Proc -> File \cup {"none"}]
    /\ left \in [Proc -> SUBSET File]
    /\ cur \in [Proc -> SUBSET (File \X {"begun", "writing"})]
    /\ todo \in [Proc -> Seq(Dir \X (0 .. 2))] /\ total \in [Proc -> Nat]
    /\ calls \in 0 .. MaxCalls
    /\ raced \in SUBSET Dir /\ reused \in SUBSET Dir /\ calm \in [Proc -> BOOLEAN]
    /\ \A d \in Dir \ made : d \notin Staged /\ Size(d) = 0

\* A call that ends with the path in the cache.
Returns(p) == CheckHit(p) \/ EvictDone(p)

\* The path that stage_to_local returns never names a file that is cut short:
\* "Concurrency: per-checkpoint fcntl.flock + a .stage_done sentinel".
NeverTorn == [][\A p \in Proc : Returns(p) => file[dir[p]][want[p]] # "partial"]_vars

\* So it is for a mounted directory that is copied whole into a directory that
\* has no .stage_done, processes killed in the middle of a copy or an eviction
\* included, unless it was evicted while it was in use.
NeverTornFromMount ==
    [][\A p \in Proc : Returns(p) /\ dir[p] \in MountDir \ (reused \cup raced) =>
        file[dir[p]][want[p]] # "partial"]_vars

\* The file a call returns is there, unless another process evicted it under
\* the call: a process never evicts what it has just staged.
GoneOnlyIfRaced ==
    [][\A p \in Proc : Returns(p) /\ dir[p] \notin raced => Present(dir[p], want[p])]_vars

\* An eviction that nobody disturbs leaves the cache within the budget, or with
\* nothing but the directory just staged.
BudgetKept ==
    [][\A p \in Proc : EvictDone(p) /\ calm[p] =>
        SumSizes(Sizes) <= Budget \/ Staged \subseteq {dir[p]}]_vars

=============================================================================
