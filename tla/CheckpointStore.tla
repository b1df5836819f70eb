--------------------------- MODULE CheckpointStore ---------------------------
(***************************************************************************)
(* What the auto-resume of torch/manager.py promises a training job: there *)
(* is one newest resumable checkpoint, it only ever moves forward, whatever*)
(* is preempted, pruned or retried, and every process that starts resumes  *)
(* from it.  The promise ends where a process misses that checkpoint: what *)
(* it then saves may go over it.  DcpCheckpoint implements this store      *)
(* (property StoreSpec).                                                   *)
(***************************************************************************)
EXTENDS Integers

CONSTANT
    Rank      \* the processes of the job

NotYet == -1  \* a process that has not resumed since it was started

VARIABLES
    newest,   \* step of the newest resumable checkpoint, 0 when there is none
    resumed,  \* [Rank -> the step it resumed from, or NotYet]
    missed    \* whether a process has missed the newest checkpoint

vars == <<newest, resumed, missed>>

Init ==
    /\ newest = 0
    /\ resumed = [r \in Rank |-> NotYet]
    /\ missed = FALSE

\* A save completes.
Commit ==
    /\ newest' > newest
    /\ UNCHANGED <<resumed, missed>>

\* A process starts from the newest checkpoint there is.
Resume(r) ==
    /\ resumed[r] = NotYet
    /\ resumed' = [resumed EXCEPT ![r] = newest]
    /\ UNCHANGED <<newest, missed>>

\* The job is preempted: every process will start again.
Restart ==
    /\ resumed' = [r \in Rank |-> NotYet]
    /\ UNCHANGED <<newest, missed>>

\* A process starts from an older checkpoint, or from none.
Miss(r) ==
    /\ resumed[r] = NotYet
    /\ \E s \in 0 .. newest - 1 : resumed' = [resumed EXCEPT ![r] = s]
    /\ missed' = TRUE
    /\ UNCHANGED newest

\* Nothing is promised from then on.
Loose == missed /\ missed'

Next ==
    \/ Commit \/ Restart
    \/ \E r \in Rank : Resume(r) \/ Miss(r)
    \/ Loose

Spec == Init /\ [][Next]_vars

=============================================================================
