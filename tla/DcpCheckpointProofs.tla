------------------------ MODULE DcpCheckpointProofs ------------------------
(***************************************************************************)
(* Proofs about DcpCheckpoint, for every world size, number of steps and   *)
(* preemptions and keep_last: type correctness, that pruning bounds the    *)
(* checkpoints, and, for a loop that does not save the resumed step again, *)
(* that the checkpoint a job resumes from is whole, that all ranks resume  *)
(* from the same one, and that the job implements CheckpointStore: all but *)
(* the first until a load_latest misses the newest checkpoint.             *)
(***************************************************************************)
EXTENDS DcpCheckpoint, StepSets

-----------------------------------------------------------------------------
(* The inductive invariant.                                                *)

Writing(r) == bg[r] \in {"joined", "written"}

\* Which parts of a save can be under way at each place of the loop.
Stages ==
    \A r \in Rank :
        /\ pc[r] = "resume" <=> target[r] = NotYet
        /\ bg[r] # "idle" => inflight[r] \/ pc[r] = "saving"
        /\ inflight[r] => pc[r] \in {"train", "prune", "remove"}
        /\ pc[r] \in {"extras", "dcp"} \/ bg[r] # "idle" => at[r] \in Step

\* No rank saves a step that is already complete, or has one ahead of it.
Ahead ==
    \A r \in Rank : \A s \in Complete :
        /\ pc[r] \notin {"resume", "load"} => s <= at[r]
        /\ pc[r] = "load" => s <= target[r]
        /\ pc[r] \in {"extras", "dcp"} \/ Writing(r) => s < at[r]

\* What a rank has written of the step it is saving.
Saved ==
    \A r \in Rank :
        /\ pc[r] = "dcp" \/ Writing(r) => store[at[r]][Extras(r)] = epoch
        /\ bg[r] = "written" => store[at[r]][Shard(r)] = epoch
        /\ r = Main /\ bg[r] = "landed" => at[r] \in Complete

\* Every step that is being removed is older than a complete one that stays.
Pruning ==
    /\ todo # {} => pc[Main] = "remove"
    /\ torn => todo # {}
    /\ \A s \in todo : \E t \in Complete \ todo : s < t

\* While a rank has not resumed, nobody can complete a checkpoint.
Agreed ==
    \A r, q \in Rank :
        target[r] # NotYet /\ target[q] = NotYet => target[r] = MaxOf(Complete)

\* ResumePointWhole and RanksAgree, as they hold until a load_latest misses something.
NewestWhole == Complete # {} => Whole(MaxOf(Complete))

SameTarget ==
    \A r, q \in Rank : target[r] # NotYet /\ target[q] # NotYet => target[r] = target[q]

Inv ==
    /\ TypeOK
    /\ Stages /\ Ahead /\ Saved /\ Pruning
    /\ NewestWhole
    /\ Agreed /\ SameTarget

-----------------------------------------------------------------------------
(* Numbers.                                                                *)

\* Rank 0 exists.
LEMMA MainIsRank == Main \in Rank
BY DcpAssumption DEF Main, Rank

\* MaxOf is the maximum, and the only one; it is 0 of no steps at all.
LEMMA MaxOfSteps ==
    ASSUME NEW S \in SUBSET Step
    PROVE  /\ MaxOf(S) \in S \cup {0}
           /\ \A s \in S : s <= MaxOf(S)
           /\ S # {} => MaxOf(S) \in S
           /\ \A m \in S : (\A s \in S : s <= m) => MaxOf(S) = m
<1>1. MaxStep \in Nat /\ S \in SUBSET (1 .. MaxStep)
  BY DcpAssumption DEF Step
<1>2. MaxOf(S) \in S \cup {0} /\ \A s \in S : s <= MaxOf(S)
  BY <1>1, GreatestOrZero DEF MaxOf
<1> QED
  BY <1>1, <1>2, GreatestOrZero

\* The step removed next is one of those to remove.
LEMMA FirstIsTodo ==
    ASSUME todo \in SUBSET Step, todo # {}
    PROVE  First \in todo
BY LeastStep, DcpAssumption DEF First, Step

-----------------------------------------------------------------------------
(* Type correctness.                                                       *)

\* A rank that loads knows the step to load.
Loads == \A r \in Rank : pc[r] = "load" => target[r] # NotYet

LEMMA TypeInit == Init => TypeOK /\ Loads
<1> SUFFICES ASSUME Init PROVE TypeOK /\ Loads
  OBVIOUS
<1>1. 0 \in 0 .. MaxEpoch /\ 1 \in Epoch /\ 0 \in 0 .. MaxStep
  BY DcpAssumption DEF Epoch
<1> QED
  BY <1>1 DEF Init, TypeOK, Loads, Nothing, Absent

LEMMA LoadsStep == TypeOK /\ Loads /\ [Next]_vars => Loads'
<1> SUFFICES ASSUME TypeOK, Loads, [Next]_vars PROVE Loads'
  OBVIOUS
<1>1. \A found \in SUBSET Complete : MaxOf(found) # NotYet
  <2>1. \A found \in SUBSET Complete : MaxOf(found) \in Step \cup {0}
    BY MaxOfSteps DEF Complete
  <2> QED BY <2>1, DcpAssumption DEF Step, NotYet
<1>2. ASSUME NEW r \in Rank, RankStep(r) PROVE Loads'
  BY <1>1, <1>2 DEF TypeOK, Loads, RankStep, Resume, Load, BeginSave, Finish, DrainFails,
                    WriteExtras, EnterSave, LeaveSave, SaveRaises, ExtrasRaise, MarkerRaises, Raised
<1>3. CASE Prune
  BY <1>3, MainIsRank DEF TypeOK, Loads, Prune, ListOld, RemoveSome, RemoveRest, RemoveGivesUp,
                          PruneDone, mem
<1>4. CASE Crash
  BY <1>4 DEF Loads, Crash
<1>5. CASE UNCHANGED <<pc, target>>
  BY <1>5 DEF Loads
<1> QED
  BY <1>2, <1>3, <1>4, <1>5
     DEF Next, WriteShard, WriteMetadata, SaveFails, Ended, vars, mem

LEMMA TypeStep == TypeOK /\ Loads /\ [Next]_vars => TypeOK'
<1> SUFFICES ASSUME TypeOK, Loads, [Next]_vars PROVE TypeOK'
  OBVIOUS
<1> USE DcpAssumption, MainIsRank
<1>1. epoch \in 0 .. MaxEpoch /\ Absent \in 0 .. MaxEpoch
  BY DEF TypeOK, Epoch, Absent
<1>2. ASSUME NEW s, NEW o, Put(s, o)
      PROVE  store' \in [Step -> [Object -> 0 .. MaxEpoch]]
  BY <1>1, <1>2 DEF Put, TypeOK
<1>3. \A found \in SUBSET Complete : MaxOf(found) \in Step \cup {0}
  BY MaxOfSteps DEF Complete
<1>4. ASSUME NEW r \in Rank, Resume(r) PROVE TypeOK'
  <2>1. target' \in [Rank -> Step \cup {0, NotYet}]
    BY <1>3, <1>4 DEF TypeOK, Resume
  <2>2. missed' \in BOOLEAN
    BY <1>4 DEF Resume
  <2> QED BY <1>4, <2>1, <2>2 DEF TypeOK, Resume, gc
<1>5. ASSUME NEW r \in Rank, Load(r) PROVE TypeOK'
  <2>1. target[r] \in Step \cup {0}
    BY <1>5 DEF Load, TypeOK, Loads
  <2>2. target[r] \in 0 .. MaxStep /\ (target[r] # 0 => target[r] - 1 \in 0 .. MaxStep)
    BY <2>1 DEF Step
  <2>3. at' \in [Rank -> 0 .. MaxStep]
    BY <1>5, <2>2 DEF TypeOK, Load
  <2> QED BY <1>5, <2>3 DEF TypeOK, Load, gc
<1>6. ASSUME NEW r \in Rank, Drain(r)
      PROVE  /\ store' \in [Step -> [Object -> 0 .. MaxEpoch]]
             /\ inflight' \in [Rank -> BOOLEAN]
             /\ bg' \in [Rank -> {"idle", "joined", "written", "landed", "failed"}]
  BY <1>2, <1>6 DEF TypeOK, Drain, WriteMarker
<1>7. ASSUME NEW r \in Rank, BeginSave(r) PROVE TypeOK'
  BY <1>6, <1>7 DEF TypeOK, BeginSave, gc
<1>8. ASSUME NEW r \in Rank, Finish(r) PROVE TypeOK'
  BY <1>6, <1>8 DEF TypeOK, Finish, gc
<1>9. ASSUME NEW r \in Rank, DrainFails(r) PROVE TypeOK'
  BY <1>9 DEF TypeOK, DrainFails, gc
<1>10. ASSUME NEW r \in Rank, WriteExtras(r) PROVE TypeOK'
  BY <1>2, <1>10 DEF TypeOK, WriteExtras, gc
<1>11. ASSUME NEW r \in Rank, EnterSave(r) PROVE TypeOK'
  BY <1>11 DEF TypeOK, EnterSave, gc
<1>12. ASSUME NEW r \in Rank, LeaveSave(r) PROVE TypeOK'
  BY <1>2, <1>12 DEF TypeOK, LeaveSave, WriteMarker, gc
<1>13. ASSUME NEW r \in Rank, SaveRaises(r) PROVE TypeOK'
  BY <1>13 DEF TypeOK, SaveRaises, gc
<1>a. ASSUME NEW r \in Rank, Raised(r)
      PROVE  pc' \in [Rank -> {"resume", "load", "train", "extras", "dcp", "saving",
                               "prune", "remove", "done", "dead"}]
  BY <1>a DEF Raised, TypeOK
<1>b. ASSUME NEW r \in Rank, ExtrasRaise(r) PROVE TypeOK'
  <2>1. store' \in [Step -> [Object -> 0 .. MaxEpoch]]
    BY <1>2, <1>b DEF ExtrasRaise, TypeOK
  <2> QED BY <1>a, <1>b, <2>1 DEF TypeOK, ExtrasRaise, gc
<1>c. CASE MarkerRaises
  <2>1. store' \in [Step -> [Object -> 0 .. MaxEpoch]]
    BY <1>2, <1>c DEF MarkerRaises, TypeOK
  <2>2. at' \in [Rank -> 0 .. MaxStep]
    BY <1>c DEF MarkerRaises, TypeOK
  <2> QED BY <1>a, <1>c, <2>1, <2>2 DEF TypeOK, MarkerRaises
<1>14. ASSUME NEW r \in Rank, WriteShard(r) PROVE TypeOK'
  BY <1>2, <1>14 DEF TypeOK, WriteShard, gc
<1>15. CASE WriteMetadata
  BY <1>2, <1>15 DEF TypeOK, WriteMetadata, gc
<1>16. CASE SaveFails
  BY <1>16 DEF TypeOK, SaveFails, gc
<1>17. CASE ListOld
  <2>1. todo' \in SUBSET Step
    BY <1>17 DEF ListOld, Complete
  <2> QED BY <1>17, <2>1 DEF TypeOK, ListOld
<1>18. CASE RemoveSome
  <2>1. PICK K \in SUBSET {"extras", "shard", "metadata", "marker"} :
            store' = [store EXCEPT ![First] =
                        [o \in Object |-> IF o[1] \in K THEN Absent ELSE store[First][o]]]
    BY <1>18 DEF RemoveSome
  <2>2. First \in Step
    BY <1>18, FirstIsTodo DEF RemoveSome, TypeOK
  <2>3. [o \in Object |-> IF o[1] \in K THEN Absent ELSE store[First][o]]
            \in [Object -> 0 .. MaxEpoch]
    BY <1>1, <2>2 DEF TypeOK
  <2>4. store' \in [Step -> [Object -> 0 .. MaxEpoch]]
    BY <2>1, <2>3 DEF TypeOK
  <2> QED BY <1>18, <2>4 DEF TypeOK, RemoveSome, mem
<1>19. CASE RemoveRest
  <2>1. Nothing \in [Object -> 0 .. MaxEpoch]
    BY <1>1 DEF Nothing
  <2> QED BY <1>19, <2>1 DEF TypeOK, RemoveRest, mem
<1>20. CASE RemoveGivesUp
  BY <1>20 DEF TypeOK, RemoveGivesUp, mem
<1>21. CASE PruneDone
  BY <1>21 DEF TypeOK, PruneDone, gc
<1>22. CASE Crash
  <2>1. epoch' \in Epoch /\ 0 \in 0 .. MaxStep
    BY <1>22 DEF TypeOK, Crash, Epoch
  <2> QED BY <1>22, <2>1 DEF TypeOK, Crash
<1>23. CASE UNCHANGED vars
  BY <1>23 DEF TypeOK, vars, mem, gc
<1> QED
  BY <1>4, <1>5, <1>7, <1>8, <1>9, <1>10, <1>11, <1>12, <1>13, <1>14, <1>15, <1>16, <1>17,
     <1>18, <1>19, <1>20, <1>21, <1>22, <1>23, <1>b, <1>c DEF Next, RankStep, Prune, Ended

\* Every variable keeps its type: the places of the loop, the steps and the epochs
\* written are those of save, load_latest and _prune_old.
THEOREM TypeCorrect == Spec => []TypeOK
<1> QED
  BY TypeInit, LoadsStep, TypeStep, PTL DEF Spec

\* What has been missed, has been missed.
LEMMA MissedStays == [Next]_vars /\ missed => missed'
<1> SUFFICES ASSUME [Next]_vars, missed PROVE missed'
  OBVIOUS
<1>1. CASE \E r \in Rank : Resume(r)
  BY <1>1 DEF Resume
<1>2. ASSUME NEW r \in Rank, RankStep(r), ~Resume(r) PROVE UNCHANGED missed
  BY <1>2 DEF RankStep, Load, BeginSave, Finish, DrainFails, WriteExtras, EnterSave, LeaveSave,
              SaveRaises, ExtrasRaise, MarkerRaises
<1>3. CASE Prune
  BY <1>3 DEF Prune, ListOld, RemoveSome, RemoveRest, RemoveGivesUp, PruneDone
<1> QED
  BY <1>1, <1>2, <1>3 DEF Next, WriteShard, WriteMetadata, SaveFails, Crash, Ended, vars

-----------------------------------------------------------------------------
(* What the steps do to the store.                                         *)

\* Complete steps stay unless they are being removed, none is added, and the
\* newest one keeps its place and its contents.
Kept ==
    /\ Complete' \subseteq Complete
    /\ Complete \ todo \subseteq Complete'
    /\ \A s \in Complete \ todo : \A o \in Part : store'[s][o] = store[s][o]

\* Writing a rank's own file for a step that is not complete.
LEMMA PutPart ==
    ASSUME TypeOK, NEW s \in Step \ Complete, NEW r \in Rank,
           NEW o \in {Extras(r), Shard(r)}, Put(s, o)
    PROVE  Kept /\ Complete' = Complete
<1>1. o \in Object /\ o # Marker /\ o # Metadata
  BY DEF Extras, Shard, Marker, Metadata, Object
<1>2. /\ \A t \in Step : t # s => store'[t] = store[t]
      /\ \A p \in Object : p # o => store'[s][p] = store[s][p]
  BY DEF Put, TypeOK
<1>3. Marker \in Object /\ Metadata \in Object
  BY DEF Object
<1>4. Complete' = Complete
  BY <1>1, <1>2, <1>3 DEF Complete, IsComplete
<1> QED
  BY <1>2, <1>4 DEF Kept, Complete

\* Marking a step that is complete already.
LEMMA PutMarker ==
    ASSUME TypeOK, NEW s \in Complete, Put(s, Marker)
    PROVE  Kept /\ Complete' = Complete
<1>1. epoch # Absent
  BY DEF TypeOK, Epoch, Absent
<1>2. s \in Step /\ Marker \in Object /\ Metadata \in Object /\ Metadata # Marker
  BY DEF Complete, Object, Metadata, Marker
<1>3. /\ \A t \in Step : t # s => store'[t] = store[t]
      /\ \A p \in Object : p # Marker => store'[s][p] = store[s][p]
      /\ store'[s][Marker] = epoch
  BY <1>2 DEF Put, TypeOK
<1>4. Complete' = Complete
  BY <1>1, <1>2, <1>3 DEF Complete, IsComplete
<1> QED
  BY <1>2, <1>3, <1>4 DEF Kept, Complete, Part

\* Removing objects of the oldest step to remove.
LEMMA RemoveFirst ==
    ASSUME TypeOK, todo # {},
           \A t \in Step : t # First => store'[t] = store[t],
           \A o \in Object : store'[First][o] \in {store[First][o], Absent}
    PROVE  Kept
<1>1. First \in todo /\ First \in Step
  BY FirstIsTodo DEF TypeOK
<1>2. Marker \in Object /\ Metadata \in Object
  BY DEF Object
<1>3. Complete' \subseteq Complete
  BY <1>1, <1>2 DEF Complete, IsComplete
<1>4. \A s \in Complete \ todo : s \in Step /\ s # First /\ store'[s] = store[s]
  BY <1>1 DEF Complete
<1>5. Complete \ todo \subseteq Complete'
  BY <1>4 DEF Complete, IsComplete
<1> QED
  BY <1>3, <1>4, <1>5 DEF Kept

LEMMA SameStore ==
    ASSUME UNCHANGED store
    PROVE  Kept /\ Complete' = Complete
BY DEF Kept, Complete, IsComplete

\* Nobody is being removed that is the newest, or that a rank is saving.
LEMMA NewestStays ==
    ASSUME TypeOK, Pruning
    PROVE  /\ Complete # {} => MaxOf(Complete) \in Complete \ todo
           /\ \A s \in todo : \E t \in Complete : s < t
<1>1. \A s \in todo : \E t \in Complete \ todo : s < t
  BY DEF Pruning
<1>2. ASSUME Complete # {} PROVE MaxOf(Complete) \in Complete \ todo
  <2>1. MaxOf(Complete) \in Complete /\ \A t \in Complete : t <= MaxOf(Complete)
    BY <1>2, MaxOfSteps DEF Complete
  <2>2. \A t \in Complete : t \in Nat
    BY DcpAssumption DEF Complete, Step
  <2> QED BY <1>1, <2>1, <2>2
<1> QED
  BY <1>1, <1>2

\* So a step that keeps the store keeps the newest checkpoint.
LEMMA KeptNewest ==
    ASSUME TypeOK, Pruning, Kept
    PROVE  /\ MaxOf(Complete') = MaxOf(Complete)
           /\ Complete' = {} <=> Complete = {}
           /\ NewestWhole => NewestWhole'
<1>1. CASE Complete = {}
  BY <1>1 DEF Kept, NewestWhole
<1>2. CASE Complete # {}
  <2> DEFINE M == MaxOf(Complete)
  <2>1. M \in Complete \ todo /\ \A s \in Complete : s <= M
    BY <1>2, NewestStays, MaxOfSteps DEF Complete
  <2>2. M \in Complete' /\ \A s \in Complete' : s <= M
    BY <2>1 DEF Kept
  <2>3. Complete' \in SUBSET Step
    BY DEF Complete
  <2>4. MaxOf(Complete') = M
    BY <2>2, <2>3, MaxOfSteps
  <2>5. \A o \in Part : store'[M][o] = store[M][o]
    BY <2>1 DEF Kept
  <2>6. NewestWhole => NewestWhole'
    <3>1. SUFFICES ASSUME Whole(M) PROVE (\E e \in Epoch : \A o \in Part : store'[M][o] = e)
      BY <1>2, <2>2, <2>4 DEF NewestWhole, Whole
    <3> QED BY <3>1, <2>5 DEF Whole
  <2> QED BY <1>2, <2>2, <2>4, <2>6
<1> QED
  BY <1>1, <1>2

\* A rank's step leaves the set of complete steps as it is.
LEMMA RankKeeps ==
    ASSUME Inv, NEW r \in Rank, RankStep(r)
    PROVE  Kept /\ Complete' = Complete
<1> USE DEF Inv
<1>1. ASSUME r = Main => at[r] \in Complete, WriteMarker(r, at[r])
      PROVE  Kept /\ Complete' = Complete
  BY <1>1, PutMarker, SameStore DEF WriteMarker
<1>2. ASSUME Drain(r) PROVE Kept /\ Complete' = Complete
  BY <1>1, <1>2, SameStore DEF Drain, Landed, Saved
<1>3. CASE WriteExtras(r)
  <2>1. at[r] \in Step \ Complete
    <3>1. at[r] \in Step /\ \A s \in Complete : s < at[r]
      BY <1>3 DEF WriteExtras, Stages, Ahead
    <3> QED BY <3>1, DcpAssumption DEF Step
  <2> QED BY <1>3, <2>1, PutPart DEF WriteExtras
<1>4. CASE LeaveSave(r)
  BY <1>1, <1>4 DEF LeaveSave, Saved
<1>5. CASE ExtrasRaise(r)
  <2>1. at[r] \in Step \ Complete
    <3>1. at[r] \in Step /\ \A s \in Complete : s < at[r]
      BY <1>5 DEF ExtrasRaise, Stages, Ahead
    <3> QED BY <3>1, DcpAssumption DEF Step
  <2> QED BY <1>5, <2>1, PutPart, SameStore DEF ExtrasRaise
<1>6. CASE MarkerRaises
  BY <1>6, MainIsRank, PutMarker, SameStore DEF MarkerRaises, Saved
<1> QED
  BY <1>2, <1>3, <1>4, <1>5, <1>6, SameStore
     DEF RankStep, Resume, Load, BeginSave, Finish, DrainFails, EnterSave, SaveRaises

\* So does a rank's part of the collective save.
LEMMA ShardKeeps ==
    ASSUME Inv, NEW r \in Rank, WriteShard(r)
    PROVE  Kept /\ Complete' = Complete
<1>1. at[r] \in Step /\ \A s \in Complete : s < at[r]
  BY DEF Inv, WriteShard, Stages, Ahead, Writing
<1>2. at[r] \in Step \ Complete
  BY <1>1, DcpAssumption DEF Step
<1> QED
  BY <1>2, PutPart DEF Inv, WriteShard

\* Pruning removes only what is to be removed.
LEMMA PruneKeeps ==
    ASSUME Inv, Prune
    PROVE  Kept
<1> USE DEF Inv
<1>1. CASE RemoveSome
  <2>1. PICK K \in SUBSET {"extras", "shard", "metadata", "marker"} :
            store' = [store EXCEPT ![First] =
                        [o \in Object |-> IF o[1] \in K THEN Absent ELSE store[First][o]]]
    BY <1>1 DEF RemoveSome
  <2>2. First \in Step /\ todo # {}
    BY <1>1, FirstIsTodo DEF RemoveSome, TypeOK
  <2>3. \A t \in Step : t # First => store'[t] = store[t]
    BY <2>1 DEF TypeOK
  <2>4. store'[First] = [o \in Object |-> IF o[1] \in K THEN Absent ELSE store[First][o]]
    BY <2>1, <2>2 DEF TypeOK
  <2>5. \A o \in Object : store'[First][o] \in {store[First][o], Absent}
    BY <2>4
  <2> QED BY <2>2, <2>3, <2>5, RemoveFirst
<1>2. CASE RemoveRest
  <2>1. todo # {}
    BY <1>2 DEF RemoveRest, Pruning
  <2>2. First \in Step
    BY <2>1, FirstIsTodo DEF TypeOK
  <2>3. /\ \A t \in Step : t # First => store'[t] = store[t]
        /\ \A o \in Object : store'[First][o] \in {store[First][o], Absent}
    BY <1>2, <2>2 DEF RemoveRest, TypeOK, Nothing
  <2> QED BY <2>1, <2>3, RemoveFirst
<1> QED
  BY <1>1, <1>2, SameStore DEF Prune, ListOld, RemoveGivesUp, PruneDone

-----------------------------------------------------------------------------
(* The steps preserve the invariant, part by part.                         *)

LEMMA StagesStep ==
    ASSUME TypeOK, Stages, [Next]_vars
    PROVE  Stages'
<1> USE MainIsRank
<1>1. ASSUME NEW r \in Rank, Resume(r) PROVE Stages'
  <2>1. \A found \in SUBSET Complete : MaxOf(found) # NotYet
    BY MaxOfSteps, DcpAssumption DEF Complete, Step, NotYet
  <2>2. target'[r] # NotYet /\ \A q \in Rank \ {r} : target'[q] = target[q]
    BY <1>1, <2>1 DEF TypeOK, Resume
  <2> QED BY <1>1, <2>2 DEF TypeOK, Stages, Resume
<1>2. ASSUME NEW r \in Rank, Load(r) PROVE Stages'
  BY <1>2 DEF TypeOK, Stages, Load
<1>3. ASSUME NEW r \in Rank, BeginSave(r) PROVE Stages'
  <2>1. at[r] + 1 \in Step
    BY <1>3, DcpAssumption DEF BeginSave, TypeOK, Step
  <2> QED BY <1>3, <2>1 DEF TypeOK, Stages, BeginSave, Drain
<1>4. ASSUME NEW r \in Rank, Finish(r) PROVE Stages'
  BY <1>4 DEF TypeOK, Stages, Finish, Drain
<1>5. ASSUME NEW r \in Rank, DrainFails(r) PROVE Stages'
  BY <1>5 DEF TypeOK, Stages, DrainFails
<1>6. ASSUME NEW r \in Rank, WriteExtras(r) PROVE Stages'
  BY <1>6 DEF TypeOK, Stages, WriteExtras
<1>7. ASSUME NEW r \in Rank, EnterSave(r) PROVE Stages'
  BY <1>7 DEF TypeOK, Stages, EnterSave
<1>8. ASSUME NEW r \in Rank, LeaveSave(r) \/ SaveRaises(r) PROVE Stages'
  BY <1>8 DEF TypeOK, Stages, LeaveSave, SaveRaises
<1>a. ASSUME NEW r \in Rank, ExtrasRaise(r) PROVE Stages'
  BY <1>a DEF TypeOK, Stages, ExtrasRaise, Raised
<1>b. CASE MarkerRaises
  <2>1. /\ bg'[Main] = "idle" /\ ~inflight'[Main] /\ pc[Main] # "resume"
        /\ pc'[Main] \in {"dead", "train"} /\ UNCHANGED target
    BY <1>b DEF TypeOK, MarkerRaises, Raised
  <2>2. \A q \in Rank \ {Main} : /\ bg'[q] = bg[q] /\ inflight'[q] = inflight[q]
                                 /\ pc'[q] = pc[q] /\ at'[q] = at[q]
    BY <1>b DEF TypeOK, MarkerRaises, Raised
  <2> QED BY <2>1, <2>2 DEF Stages
<1>9. ASSUME NEW r \in Rank, WriteShard(r) PROVE Stages'
  BY <1>9 DEF TypeOK, Stages, WriteShard
<1>10. CASE WriteMetadata
  BY <1>10 DEF TypeOK, Stages, WriteMetadata, AllWritten
<1>11. CASE SaveFails
  <2>1. \A q \in Rank : bg[q] # "idle" /\ bg'[q] # "idle"
    BY <1>11 DEF SaveFails, AllIn
  <2> QED BY <1>11, <2>1 DEF Stages, SaveFails
<1>12. CASE Prune
  BY <1>12 DEF TypeOK, Stages, Prune, ListOld, RemoveSome, RemoveRest, RemoveGivesUp, PruneDone, mem
<1>13. CASE Crash
  BY <1>13 DEF Stages, Crash
<1>14. CASE UNCHANGED vars
  BY <1>14 DEF Stages, vars, mem
<1> QED
  BY <1>1, <1>2, <1>3, <1>4, <1>5, <1>6, <1>7, <1>8, <1>9, <1>10, <1>11, <1>12, <1>13, <1>14,
     <1>a, <1>b DEF Next, RankStep, Ended

\* The commit of a collective save: the step becomes the newest complete one, and
\* it is whole.
LEMMA Commit ==
    ASSUME Inv, WriteMetadata
    PROVE  /\ at[Main] \in Step \ Complete
           /\ \A t \in Complete : t < at[Main]
           /\ Complete' = Complete \cup {at[Main]}
           /\ MaxOf(Complete') = at[Main]
           /\ \E e \in Epoch : \A o \in Part : store'[at[Main]][o] = e
           /\ \A r \in Rank : at[r] = at[Main] /\ bg[r] = "written"
           /\ \A r \in Rank : pc[r] \in {"train", "prune", "remove", "saving"}
           /\ \A t \in Step : t # at[Main] => store'[t] = store[t]
           /\ \A o \in Object : o # Metadata => store'[at[Main]][o] = store[at[Main]][o]
<1> DEFINE s == at[Main]
<1> USE MainIsRank DEF Inv
<1>1. \A r \in Rank : at[r] = s /\ bg[r] = "written"
  BY DEF WriteMetadata, AllWritten
<1>2. s \in Step /\ \A t \in Complete : t < s
  BY <1>1 DEF Stages, Ahead, Writing
<1>3. s \notin Complete
  BY <1>2, DcpAssumption DEF Step
<1>4. \A r \in Rank : pc[r] \in {"train", "prune", "remove", "saving"}
  BY <1>1 DEF Stages
<1>5. Metadata \in Object /\ Marker \in Object /\ epoch # Absent /\ epoch \in Epoch
  BY DEF Object, TypeOK, Epoch, Absent
<1>6. /\ \A t \in Step : t # s => store'[t] = store[t]
      /\ \A o \in Object : o # Metadata => store'[s][o] = store[s][o]
      /\ store'[s][Metadata] = epoch
  BY <1>2, <1>5 DEF WriteMetadata, Put, TypeOK
<1>7. Complete' = Complete \cup {s}
  BY <1>2, <1>5, <1>6 DEF Complete, IsComplete
<1>8. MaxOf(Complete') = s
  <2>1. Complete' \in SUBSET Step
    BY DEF Complete
  <2>2. \A t \in Complete' : t <= s
    BY <1>2, <1>7, DcpAssumption DEF Complete, Step
  <2> QED BY <1>7, <2>1, <2>2, MaxOfSteps
<1>9. \A o \in Part : store'[s][o] = epoch
  <2>1. \A r \in Rank : store[s][Extras(r)] = epoch /\ store[s][Shard(r)] = epoch
    BY <1>1 DEF Saved, Writing
  <2>2. \A r \in Rank : /\ Extras(r) \in Object /\ Extras(r) # Metadata
                        /\ Shard(r) \in Object /\ Shard(r) # Metadata
    BY DEF Extras, Shard, Object, Metadata
  <2>3. \A r \in Rank : store'[s][Extras(r)] = epoch /\ store'[s][Shard(r)] = epoch
    BY <1>6, <2>1, <2>2
  <2>4. \A o \in Part : o = Metadata \/ \E r \in Rank : o = Extras(r) \/ o = Shard(r)
    BY DEF Part, Object, Extras, Shard
  <2> QED BY <1>6, <2>3, <2>4
<1> QED
  BY <1>1, <1>2, <1>3, <1>4, <1>5, <1>6, <1>7, <1>8, <1>9

LEMMA AheadStep ==
    ASSUME Inv, [Next]_vars, Resave = FALSE, ~missed'
    PROVE  Ahead'
<1> USE DcpAssumption, MainIsRank DEF Inv, Writing
<1>1. \A s \in Complete : s \in Nat /\ s >= 1
  BY DEF Complete, Step
<1>2. ASSUME NEW r \in Rank, RankStep(r) PROVE Ahead'
  <2>1. Complete' = Complete
    BY <1>2, RankKeeps
  <2>2. CASE Resume(r)
    <3>1. \A s \in Complete : s <= MaxOf(Complete)
      BY MaxOfSteps DEF Complete
    <3>2. target'[r] = MaxOf(Complete) /\ \A q \in Rank \ {r} : target'[q] = target[q]
      BY <2>2 DEF Resume, TypeOK
    <3> QED BY <2>1, <2>2, <3>1, <3>2 DEF Resume, Ahead, Stages, TypeOK
  <2>3. CASE Load(r)
    BY <2>1, <2>3 DEF Load, Ahead, Stages, TypeOK
  <2>4. CASE BeginSave(r)
    <3>1. bg'[r] = "idle" /\ \A q \in Rank : q # r => bg'[q] = bg[q]
      BY <2>4 DEF BeginSave, Drain, Stages, TypeOK
    <3>2. \A s \in Complete : s < at[r] + 1
      BY <1>1, <2>4 DEF BeginSave, Ahead, TypeOK
    <3> QED BY <1>1, <2>1, <2>4, <3>1, <3>2 DEF BeginSave, Ahead, TypeOK
  <2>5. CASE Finish(r)
    <3>1. \A q \in Rank : bg'[q] \in {bg[q], "idle"}
      BY <2>5 DEF Finish, Drain, TypeOK
    <3> QED BY <2>1, <2>5, <3>1 DEF Finish, Ahead, TypeOK
  <2>6. CASE DrainFails(r)
    <3>1. at'[r] \in {at[r], at[r] + 1} /\ at[r] \in Nat
      BY <2>6 DEF DrainFails, TypeOK
    <3>2. \A s \in Complete : s <= at[r] + 1
      BY <1>1, <2>6, <3>1 DEF DrainFails, Ahead
    <3> QED BY <2>1, <2>6, <3>1, <3>2 DEF DrainFails, Ahead, TypeOK
  <2>7. CASE WriteExtras(r)
    BY <2>1, <2>7 DEF WriteExtras, Ahead, TypeOK
  <2>8. CASE EnterSave(r)
    BY <2>1, <2>8 DEF EnterSave, Ahead, TypeOK
  <2>9. CASE LeaveSave(r) \/ SaveRaises(r)
    BY <2>1, <2>9 DEF LeaveSave, SaveRaises, Ahead, TypeOK
  <2>10. CASE ExtrasRaise(r)
    BY <2>1, <2>10 DEF ExtrasRaise, Raised, Ahead, TypeOK
  <2>11. CASE r = Main /\ MarkerRaises
    <3>1. /\ at'[r] \in {at[r], at[r] + 1} /\ at[r] \in Nat /\ bg'[r] = "idle"
          /\ pc[r] \notin {"resume", "load"} /\ pc'[r] \in {"dead", "train"}
          /\ \A q \in Rank \ {r} : bg'[q] = bg[q] /\ at'[q] = at[q] /\ pc'[q] = pc[q]
          /\ UNCHANGED target
      BY <2>11 DEF MarkerRaises, Raised, TypeOK
    <3>2. \A s \in Complete : s <= at[r] + 1 /\ s <= at[r]
      BY <1>1, <3>1 DEF Ahead
    <3> QED BY <2>1, <3>1, <3>2 DEF Ahead
  <2> QED
    BY <1>2, <2>2, <2>3, <2>4, <2>5, <2>6, <2>7, <2>8, <2>9, <2>10, <2>11 DEF RankStep
<1>3. ASSUME NEW r \in Rank, WriteShard(r) PROVE Ahead'
  BY <1>3, ShardKeeps DEF WriteShard, Ahead, TypeOK
<1>4. CASE WriteMetadata
  <2>1. /\ Complete' = Complete \cup {at[Main]} /\ \A t \in Complete : t < at[Main]
        /\ \A r \in Rank : /\ at[r] = at[Main]
                           /\ pc[r] \in {"train", "prune", "remove", "saving"}
    BY <1>4, Commit
  <2>2. \A t \in Complete' : t <= at[Main]
    BY <1>1, <2>1 DEF TypeOK
  <2> QED BY <1>4, <2>1, <2>2 DEF WriteMetadata, Ahead
<1>5. CASE SaveFails
  BY <1>5, SameStore DEF SaveFails, Ahead
<1>6. CASE Prune
  <2>1. Complete' \subseteq Complete
    BY <1>6, PruneKeeps DEF Kept
  <2> QED
    BY <1>6, <2>1 DEF Prune, ListOld, RemoveSome, RemoveRest, RemoveGivesUp, PruneDone,
                      Ahead, TypeOK, mem
<1>7. CASE Crash
  BY <1>7 DEF Crash, Ahead
<1>8. CASE UNCHANGED vars
  BY <1>8, SameStore DEF vars, mem, Ahead
<1> QED
  BY <1>2, <1>3, <1>4, <1>5, <1>6, <1>7, <1>8 DEF Next, Ended

LEMMA SavedStep ==
    ASSUME Inv, [Next]_vars
    PROVE  Saved'
<1> USE DcpAssumption, MainIsRank DEF Inv, Writing
<1>1. \A r \in Rank : Extras(r) \in Object /\ Shard(r) \in Object
  BY DEF Extras, Shard, Object
<1>2. ASSUME NEW s, NEW o, Put(s, o)
      PROVE  \A t \in Step : \A p \in Object : store'[t][p] \in {store[t][p], epoch}
  BY <1>2 DEF Put, TypeOK
<1>3. ASSUME NEW r \in Rank, WriteMarker(r, at[r]) \/ UNCHANGED store
      PROVE  \A t \in Step : \A p \in Object : store'[t][p] \in {store[t][p], epoch}
  BY <1>2, <1>3 DEF WriteMarker
<1>4. ASSUME NEW r \in Rank, RankStep(r) PROVE Saved'
  <2>1. Complete' = Complete
    BY <1>4, RankKeeps
  <2>2. CASE Resume(r) \/ Load(r)
    BY <2>1, <2>2 DEF Resume, Load, Saved, Stages, TypeOK
  <2>3. CASE BeginSave(r)
    <3>1. bg'[r] = "idle" /\ \A q \in Rank : q # r => bg'[q] = bg[q]
      BY <2>3 DEF BeginSave, Drain, Stages, TypeOK
    <3>2. \A t \in Step : \A p \in Object : store'[t][p] \in {store[t][p], epoch}
      BY <1>3, <2>3 DEF BeginSave, Drain
    <3> QED BY <1>1, <2>1, <2>3, <3>1, <3>2 DEF BeginSave, Saved, Stages, TypeOK
  <2>4. CASE Finish(r)
    <3>1. \A q \in Rank : bg'[q] \in {bg[q], "idle"}
      BY <2>4 DEF Finish, Drain, TypeOK
    <3>2. \A t \in Step : \A p \in Object : store'[t][p] \in {store[t][p], epoch}
      BY <1>3, <2>4 DEF Finish, Drain
    <3> QED BY <1>1, <2>1, <2>4, <3>1, <3>2 DEF Finish, Saved, Stages, TypeOK
  <2>5. CASE DrainFails(r)
    BY <2>1, <2>5 DEF DrainFails, Saved, Stages, TypeOK
  <2>6. CASE WriteExtras(r)
    <3>1. at[r] \in Step
      BY <2>6 DEF WriteExtras, Stages
    <3>2. store'[at[r]][Extras(r)] = epoch
      BY <1>1, <2>6, <3>1 DEF WriteExtras, Put, TypeOK
    <3>3. \A t \in Step : \A p \in Object : store'[t][p] \in {store[t][p], epoch}
      BY <1>2, <2>6 DEF WriteExtras
    <3> QED BY <1>1, <2>1, <2>6, <3>2, <3>3 DEF WriteExtras, Saved, Stages, TypeOK
  <2>7. CASE EnterSave(r)
    BY <2>1, <2>7 DEF EnterSave, Saved, Stages, TypeOK
  <2>8. CASE LeaveSave(r)
    <3>1. \A t \in Step : \A p \in Object : store'[t][p] \in {store[t][p], epoch}
      BY <1>3, <2>8 DEF LeaveSave
    <3> QED BY <1>1, <2>1, <2>8, <3>1 DEF LeaveSave, Saved, Stages, TypeOK
  <2>9. CASE SaveRaises(r)
    BY <2>1, <2>9 DEF SaveRaises, Saved, Stages, TypeOK
  <2>10. CASE ExtrasRaise(r)
    <3>1. \A t \in Step : \A p \in Object : store'[t][p] \in {store[t][p], epoch}
      BY <1>2, <1>3, <2>10 DEF ExtrasRaise
    <3>2. pc'[r] # "dcp" /\ \A q \in Rank \ {r} : pc'[q] = pc[q]
      BY <2>10 DEF ExtrasRaise, Raised, TypeOK
    <3> QED BY <1>1, <2>1, <2>10, <3>1, <3>2 DEF ExtrasRaise, Saved, Stages, TypeOK
  <2>11. CASE r = Main /\ MarkerRaises
    <3>1. \A t \in Step : \A p \in Object : store'[t][p] \in {store[t][p], epoch}
      BY <1>2, <1>3, <2>11 DEF MarkerRaises
    <3>2. /\ pc'[r] # "dcp" /\ bg'[r] = "idle" /\ UNCHANGED epoch
          /\ \A q \in Rank \ {r} : pc'[q] = pc[q] /\ bg'[q] = bg[q] /\ at'[q] = at[q]
      BY <2>11 DEF MarkerRaises, Raised, TypeOK
    <3> QED BY <1>1, <2>1, <2>11, <3>1, <3>2 DEF Saved, Stages, TypeOK
  <2> QED
    BY <1>4, <2>2, <2>3, <2>4, <2>5, <2>6, <2>7, <2>8, <2>9, <2>10, <2>11 DEF RankStep
<1>5. ASSUME NEW r \in Rank, WriteShard(r) PROVE Saved'
  <2>1. Complete' = Complete
    BY <1>5, ShardKeeps
  <2>2. at[r] \in Step
    BY <1>5 DEF WriteShard, Stages
  <2>3. store'[at[r]][Shard(r)] = epoch
    BY <1>1, <1>5, <2>2 DEF WriteShard, Put, TypeOK
  <2>4. \A t \in Step : \A p \in Object : store'[t][p] \in {store[t][p], epoch}
    BY <1>2, <1>5 DEF WriteShard
  <2> QED BY <1>1, <1>5, <2>1, <2>3, <2>4 DEF WriteShard, Saved, Stages, TypeOK
<1>6. CASE WriteMetadata
  <2>1. \A r \in Rank : bg'[r] = "landed" /\ at'[r] = at[r] /\ pc'[r] # "dcp"
    BY <1>6, Commit DEF WriteMetadata
  <2>2. at[Main] \in Complete'
    BY <1>6, Commit
  <2> QED BY <2>1, <2>2 DEF Saved
<1>7. CASE SaveFails
  BY <1>7, SameStore DEF SaveFails, Saved
<1>8. CASE Prune
  <2>1. Kept
    BY <1>8, PruneKeeps
  <2>2. \A s \in todo : \E t \in Complete : s < t
    BY NewestStays
  <2>3. UNCHANGED <<epoch, at, bg>> /\ \A r \in Rank : pc'[r] = "dcp" => pc[r] = "dcp"
    BY <1>8 DEF Prune, ListOld, RemoveSome, RemoveRest, RemoveGivesUp, PruneDone, TypeOK, mem
  <2>4. ASSUME NEW r \in Rank, pc[r] = "dcp" \/ Writing(r)
        PROVE  at[r] \in Step /\ at[r] \notin todo
    <3>1. at[r] \in Step /\ \A s \in Complete : s < at[r]
      BY <2>4 DEF Stages, Ahead
    <3>2. \A s \in todo \cup Complete : s \in Nat
      BY DEF TypeOK, Complete, Step
    <3> QED BY <2>2, <3>1, <3>2 DEF Step
  <2>5. ASSUME bg[Main] = "landed"
        PROVE  at[Main] \in Complete \ todo
    <3>1. at[Main] \in Complete /\ \A s \in Complete : s <= at[Main]
      BY <2>5 DEF Stages, Ahead, Saved
    <3>2. \A s \in todo \cup Complete : s \in Nat
      BY DEF TypeOK, Complete, Step
    <3> QED BY <2>2, <3>1, <3>2
  <2>6. \A t \in Step : t \notin todo => store'[t] = store[t]
    <3>1. CASE RemoveSome \/ RemoveRest
      BY <3>1, FirstIsTodo DEF RemoveSome, RemoveRest, Pruning, TypeOK
    <3> QED BY <1>8, <3>1 DEF Prune, ListOld, RemoveGivesUp, PruneDone
  <2> QED BY <2>1, <2>3, <2>4, <2>5, <2>6 DEF Saved, Kept
<1>9. CASE Crash
  BY <1>9 DEF Crash, Saved
<1>10. CASE UNCHANGED vars
  BY <1>10, SameStore DEF vars, mem, Saved
<1> QED
  BY <1>4, <1>5, <1>6, <1>7, <1>8, <1>9, <1>10 DEF Next, Ended

\* Pruning lists the complete steps it sees, less the newest of them at least.
LEMMA OldOnes ==
    ASSUME NEW found \in SUBSET Step, NEW s \in found \ Protected(found)
    PROVE  \E t \in found \cap Protected(found) : s < t
<1>1. MaxStep \in Nat /\ KeepLast \in Nat \ {0} /\ found \in SUBSET (1 .. MaxStep)
  BY DcpAssumption DEF Step
<1>2. PICK m \in found : \A t \in found : t <= m
  BY <1>1, GreatestStep
<1>3. m \in LastOf(found) /\ s \notin LastOf(found)
  BY <1>1, <1>2, LatestFew DEF LastOf, Protected
<1>4. s < m
  BY <1>1, <1>2, <1>3
<1> QED
  BY <1>3, <1>4 DEF Protected, LastOf

LEMMA PruningStep ==
    ASSUME Inv, [Next]_vars
    PROVE  Pruning'
<1> USE MainIsRank DEF Inv
<1>1. CASE UNCHANGED <<todo, torn>> /\ (pc[Main] = "remove" => pc'[Main] = "remove")
                                    /\ Complete \subseteq Complete'
  BY <1>1 DEF Pruning
<1>2. ASSUME NEW r \in Rank, RankStep(r) PROVE Pruning'
  <2>1. Complete' = Complete
    BY <1>2, RankKeeps
  <2>2. UNCHANGED <<todo, torn>> /\ (pc[Main] = "remove" => pc'[Main] = "remove")
    BY <1>2 DEF RankStep, Resume, Load, BeginSave, Finish, DrainFails, WriteExtras,
                EnterSave, LeaveSave, SaveRaises, ExtrasRaise, MarkerRaises, Raised, TypeOK, gc
  <2> QED BY <1>1, <2>1, <2>2
<1>3. ASSUME NEW r \in Rank, WriteShard(r) PROVE Pruning'
  BY <1>1, <1>3, ShardKeeps DEF WriteShard, gc
<1>4. CASE WriteMetadata
  BY <1>1, <1>4, Commit DEF WriteMetadata, gc
<1>5. CASE SaveFails
  BY <1>1, <1>5, SameStore DEF SaveFails, gc
<1>6. CASE ListOld
  <2>1. Complete' = Complete
    BY <1>6, SameStore DEF ListOld
  <2>2. PICK found \in SUBSET Complete : todo' = found \ Protected(found)
    BY <1>6 DEF ListOld
  <2>3. found \in SUBSET Step
    BY DEF Complete
  <2>4. \A s \in todo' : \E t \in found \cap Protected(found) : s < t
    BY <2>2, <2>3, OldOnes
  <2>5. \A s \in todo' : \E t \in Complete' \ todo' : s < t
    BY <2>1, <2>2, <2>4
  <2>6. ~torn' /\ pc'[Main] = "remove"
    BY <1>6 DEF ListOld, Pruning, TypeOK
  <2> QED BY <2>5, <2>6 DEF Pruning
<1>7. CASE RemoveSome \/ RemoveRest \/ RemoveGivesUp
  <2>1. todo # {} /\ First \in todo
    BY <1>7, FirstIsTodo DEF RemoveSome, RemoveRest, RemoveGivesUp, Pruning, TypeOK
  <2>2. Kept
    BY <1>7, PruneKeeps DEF Prune
  <2>3. todo' \subseteq todo /\ (torn' => todo' # {}) /\ pc'[Main] = "remove"
    BY <1>7, <2>1 DEF RemoveSome, RemoveRest, RemoveGivesUp, mem
  <2> QED BY <2>2, <2>3 DEF Kept, Pruning
<1>8. CASE PruneDone
  BY <1>8 DEF PruneDone, Pruning, gc
<1>9. CASE Crash
  BY <1>9 DEF Crash, Pruning
<1>10. CASE UNCHANGED vars
  BY <1>1, <1>10, SameStore DEF vars, mem, gc
<1> QED
  BY <1>2, <1>3, <1>4, <1>5, <1>6, <1>7, <1>8, <1>9, <1>10 DEF Next, Ended, Prune

\* Every step but the commit keeps the newest checkpoint.
LEMMA AllKeep ==
    ASSUME Inv, [Next]_vars, ~WriteMetadata
    PROVE  Kept
<1>1. CASE UNCHANGED store
  BY <1>1, SameStore
<1> QED
  BY <1>1, RankKeeps, ShardKeeps, PruneKeeps DEF Next, SaveFails, Crash, Ended, vars

LEMMA ResumePointStep ==
    ASSUME Inv, [Next]_vars
    PROVE  NewestWhole'
<1>1. CASE WriteMetadata
  <2>1. /\ MaxOf(Complete') = at[Main]
        /\ \E e \in Epoch : \A o \in Part : store'[at[Main]][o] = e
    BY <1>1, Commit
  <2> QED BY <2>1 DEF NewestWhole, Whole
<1>2. CASE ~WriteMetadata
  BY <1>2, AllKeep, KeptNewest DEF Inv
<1> QED
  BY <1>1, <1>2

\* What the steps do to the steps resumed from.
LEMMA TargetStep ==
    ASSUME Inv, [Next]_vars, ~missed'
    PROVE  \/ UNCHANGED target
           \/ target' = [r \in Rank |-> NotYet]
           \/ \E r \in Rank : /\ target[r] = NotYet
                              /\ target' = [target EXCEPT ![r] = MaxOf(Complete)]
<1>1. ASSUME NEW r \in Rank, RankStep(r), ~Resume(r) PROVE UNCHANGED target
  BY <1>1 DEF RankStep, Load, BeginSave, Finish, DrainFails, WriteExtras,
              EnterSave, LeaveSave, SaveRaises, ExtrasRaise, MarkerRaises, Raised
<1>2. ASSUME NEW r \in Rank, Resume(r)
      PROVE  target[r] = NotYet /\ target' = [target EXCEPT ![r] = MaxOf(Complete)]
  BY <1>2 DEF Resume, Inv, Stages
<1>3. CASE Prune
  BY <1>3 DEF Prune, ListOld, RemoveSome, RemoveRest, RemoveGivesUp, PruneDone, mem
<1> QED
  BY <1>1, <1>2, <1>3
     DEF Next, WriteShard, WriteMetadata, SaveFails, Crash, Ended, vars, mem

LEMMA AgreedStep ==
    ASSUME Inv, [Next]_vars, ~missed'
    PROVE  Agreed' /\ SameTarget'
<1> USE DEF Inv
<1>1. MaxOf(Complete) # NotYet
  BY MaxOfSteps, DcpAssumption DEF Complete, Step, NotYet
<1>2. CASE WriteMetadata
  <2>1. \A r \in Rank : target'[r] = target[r] /\ target[r] # NotYet
    BY <1>2, Commit DEF WriteMetadata, Stages
  <2> QED BY <2>1 DEF Agreed, SameTarget
<1>3. CASE ~WriteMetadata
  <2>1. MaxOf(Complete') = MaxOf(Complete)
    BY <1>3, AllKeep, KeptNewest
  <2>2. CASE UNCHANGED target
    BY <2>1, <2>2 DEF Agreed, SameTarget
  <2>3. CASE target' = [r \in Rank |-> NotYet]
    BY <2>3 DEF Agreed, SameTarget
  <2>4. ASSUME NEW r \in Rank, target[r] = NotYet,
               target' = [target EXCEPT ![r] = MaxOf(Complete)]
        PROVE  Agreed' /\ SameTarget'
    <3>1. /\ target'[r] = MaxOf(Complete)
          /\ \A q \in Rank : q # r => target'[q] = target[q]
      BY <2>4 DEF TypeOK
    <3>2. \A q \in Rank : target'[q] # NotYet => target'[q] = MaxOf(Complete)
      BY <2>4, <3>1 DEF Agreed
    <3> QED BY <2>1, <3>2 DEF Agreed, SameTarget
  <2> QED BY <2>2, <2>3, <2>4, TargetStep
<1> QED
  BY <1>2, <1>3

-----------------------------------------------------------------------------
(* Pruning, whatever the loop saves: an invariant of its own, which only   *)
(* follows rank 0 and needs nothing of what the checkpoints hold.          *)

\* A future is tracked only when saves are asynchronous, and waited for only when
\* not; nothing was pruned before the loop.
Modes ==
    /\ \A r \in Rank : (inflight[r] => async) /\ (pc[r] = "saving" => ~async)
    /\ pc[Main] \in {"resume", "load"} => ~swept

\* No complete step is after the one that rank 0 has saved when it prunes.
InOrder ==
    \A s \in Complete :
        /\ pc[Main] = "load" => s <= target[Main]
        /\ pc[Main] = "train" => s <= at[Main] + 1
        /\ pc[Main] \notin {"resume", "load", "train"} => s <= at[Main]

\* From the listing of _prune_old until rank 0 saves another checkpoint.
Counted ==
    IF async THEN pc[Main] \in {"remove", "train", "extras", "dcp"}
    ELSE pc[Main] # "prune" /\ bg[Main] # "landed"

Staying == Complete \ todo

\* With saves in the background the step being saved comes on top.
Few ==
    swept /\ Counted =>
        IF async
        THEN /\ Cardinality(Staying) <= KeepLast + 1
             /\ Writing(Main) => Cardinality(Staying \ {at[Main]}) <= KeepLast
        ELSE Cardinality(Staying) <= KeepLast

\* A step is removed only while there are steps to remove.
Removing == (torn => todo # {}) /\ (todo # {} => pc[Main] = "remove")

\* Rank 0 does not remove the step it has saved, which is complete when it has landed.
Spared ==
    /\ at[Main] \notin todo
    /\ bg[Main] = "landed" => at[Main] \in Complete

RetentionInv ==
    /\ TypeOK /\ Stages /\ Modes /\ Removing /\ Spared
    /\ ~missed => InOrder /\ Few

LEMMA ModesStep ==
    ASSUME TypeOK, Modes, [Next]_vars
    PROVE  Modes'
<1> USE MainIsRank
<1>1. ASSUME NEW r \in Rank, RankStep(r) PROVE Modes'
  BY <1>1 DEF RankStep, Resume, Load, BeginSave, Finish, Drain, DrainFails, WriteExtras,
              EnterSave, LeaveSave, SaveRaises, ExtrasRaise, MarkerRaises, Raised, Modes, TypeOK, gc
<1>2. ASSUME NEW r \in Rank, WriteShard(r) PROVE Modes'
  BY <1>2 DEF WriteShard, Modes, gc
<1>3. CASE WriteMetadata \/ SaveFails
  BY <1>3 DEF WriteMetadata, SaveFails, Modes, gc
<1>4. CASE Prune
  BY <1>4 DEF Prune, ListOld, RemoveSome, RemoveRest, RemoveGivesUp, PruneDone, Modes, TypeOK,
              mem, gc
<1>5. CASE Crash
  BY <1>5 DEF Crash, Modes
<1>6. CASE UNCHANGED vars
  BY <1>6 DEF vars, mem, gc, Modes
<1> QED
  BY <1>1, <1>2, <1>3, <1>4, <1>5, <1>6 DEF Next, Ended

\* Which steps can become complete, or stay so.
LEMMA CompleteChanges ==
    ASSUME TypeOK, NEW s, NEW o \in Object, Put(s, o)
    PROVE  /\ Complete' \subseteq Complete \cup {s}
           /\ o \notin {Marker, Metadata} => Complete' = Complete
<1>1. Marker \in Object /\ Metadata \in Object
  BY DEF Object
<1>2. \A t \in Step \ {s} : store'[t] = store[t]
  BY DEF Put, TypeOK
<1>3. \A p \in Object \ {o} : \A t \in Step : store'[t][p] = store[t][p]
  BY DEF Put, TypeOK
<1> QED
  BY <1>1, <1>2, <1>3 DEF Complete, IsComplete

\* A rank's step makes no step complete, unless rank 0 marks the one it has saved.
LEMMA RankChanges ==
    ASSUME TypeOK, NEW r \in Rank, RankStep(r)
    PROVE  \/ Complete' = Complete
           \/ /\ r = Main /\ Complete' \subseteq Complete \cup {at[Main]}
              /\ \/ (BeginSave(Main) \/ Finish(Main)) /\ inflight[Main]
                 \/ LeaveSave(Main) \/ MarkerRaises
<1>1. Marker \in Object /\ Extras(r) \in Object /\ Extras(r) \notin {Marker, Metadata}
  BY DEF Object, Extras, Marker, Metadata
<1>2. CASE WriteExtras(r)
  BY <1>1, <1>2, CompleteChanges DEF WriteExtras
<1>3. CASE UNCHANGED store
  BY <1>3 DEF Complete, IsComplete
<1>a. CASE ExtrasRaise(r)
  BY <1>1, <1>3, <1>a, CompleteChanges DEF ExtrasRaise
<1>b. CASE r = Main /\ MarkerRaises
  BY <1>1, <1>3, <1>b, CompleteChanges DEF MarkerRaises
<1>4. ASSUME WriteMarker(r, at[r])
      PROVE  \/ UNCHANGED store
             \/ r = Main /\ Complete' \subseteq Complete \cup {at[Main]}
  BY <1>1, <1>4, CompleteChanges DEF WriteMarker
<1> QED
  BY <1>2, <1>3, <1>4, <1>a, <1>b DEF RankStep, Resume, Load, BeginSave, Finish, Drain,
                                      DrainFails, EnterSave, LeaveSave, SaveRaises

\* What the collective save and the pruning do to the complete steps.
LEMMA OthersChange ==
    ASSUME TypeOK, Removing
    PROVE  /\ \A r \in Rank : WriteShard(r) => Complete' = Complete
           /\ WriteMetadata => Complete' \subseteq Complete \cup {at[Main]}
           /\ RemoveSome => Complete' \subseteq Complete
           /\ RemoveRest => First \in todo /\ Complete' = Complete \ {First}
           /\ UNCHANGED store => Complete' = Complete
<1>1. Marker \in Object /\ Metadata \in Object
  BY DEF Object
<1>2. ASSUME NEW r \in Rank, WriteShard(r) PROVE Complete' = Complete
  <2>1. Shard(r) \in Object /\ Shard(r) \notin {Marker, Metadata}
    BY DEF Object, Shard, Marker, Metadata
  <2> QED BY <1>2, <2>1, CompleteChanges DEF WriteShard
<1>3. ASSUME WriteMetadata PROVE Complete' \subseteq Complete \cup {at[Main]}
  BY <1>1, <1>3, CompleteChanges DEF WriteMetadata
<1>4. ASSUME RemoveSome PROVE Complete' \subseteq Complete
  <2>1. PICK K \in SUBSET {"extras", "shard", "metadata", "marker"} :
            store' = [store EXCEPT ![First] =
                        [o \in Object |-> IF o[1] \in K THEN Absent ELSE store[First][o]]]
    BY <1>4 DEF RemoveSome
  <2>2. \A s \in Step, o \in {Marker, Metadata} : store'[s][o] \in {store[s][o], Absent}
    BY <1>1, <2>1 DEF TypeOK
  <2> QED BY <2>2 DEF Complete, IsComplete
<1>5. ASSUME RemoveRest PROVE First \in todo /\ Complete' = Complete \ {First}
  <2>1. First \in todo /\ First \in Step
    BY <1>5, FirstIsTodo DEF RemoveRest, Removing, TypeOK
  <2>2. store' = [store EXCEPT ![First] = Nothing]
    BY <1>5 DEF RemoveRest
  <2>3. store'[First] = Nothing /\ \A s \in Step \ {First} : store'[s] = store[s]
    BY <2>1, <2>2 DEF TypeOK
  <2>4. Nothing[Marker] = Absent /\ Nothing[Metadata] = Absent
    BY <1>1 DEF Nothing
  <2> QED BY <2>1, <2>3, <2>4 DEF Complete, IsComplete
<1>6. UNCHANGED store => Complete' = Complete
  BY DEF Complete, IsComplete
<1> QED
  BY <1>2, <1>3, <1>4, <1>5, <1>6

LEMMA RemovingStep ==
    ASSUME TypeOK, Removing, [Next]_vars
    PROVE  Removing'
<1> USE MainIsRank
<1>1. CASE UNCHANGED <<todo, torn>> /\ (pc[Main] = "remove" => pc'[Main] = "remove")
  BY <1>1 DEF Removing
<1>2. ASSUME NEW r \in Rank, RankStep(r) PROVE Removing'
  <2>1. UNCHANGED <<todo, torn>> /\ (pc[Main] = "remove" => pc'[Main] = "remove")
    BY <1>2 DEF RankStep, Resume, Load, BeginSave, Finish, DrainFails, WriteExtras,
                EnterSave, LeaveSave, SaveRaises, ExtrasRaise, MarkerRaises, Raised, TypeOK, gc
  <2> QED BY <1>1, <2>1
<1>3. CASE Prune
  BY <1>3 DEF Prune, ListOld, RemoveSome, RemoveRest, RemoveGivesUp, PruneDone, Removing,
              TypeOK, mem, gc
<1>4. CASE Crash
  BY <1>4 DEF Crash, Removing
<1> QED
  BY <1>1, <1>2, <1>3, <1>4 DEF Next, WriteShard, WriteMetadata, SaveFails, Ended, vars, mem, gc

LEMMA SparedStep ==
    ASSUME TypeOK, Stages, Removing, Spared, [Next]_vars
    PROVE  Spared'
<1> USE MainIsRank
<1>1. ASSUME Complete' = Complete, UNCHANGED todo, at'[Main] = at[Main],
             bg'[Main] = "landed" => bg[Main] = "landed"
      PROVE  Spared'
  BY <1>1 DEF Spared
<1>2. ASSUME NEW r \in Rank \ {Main}, RankStep(r) PROVE Spared'
  <2>1. Complete' = Complete
    BY <1>2, RankChanges
  <2>2. at'[Main] = at[Main] /\ bg'[Main] = bg[Main] /\ UNCHANGED todo
    BY <1>2 DEF RankStep, Resume, Load, BeginSave, Finish, Drain, DrainFails, WriteExtras,
                EnterSave, LeaveSave, SaveRaises, ExtrasRaise, Raised, TypeOK, gc
  <2> QED BY <1>1, <2>1, <2>2
<1>3. ASSUME RankStep(Main) PROVE Spared'
  <2>1. pc[Main] # "remove" /\ UNCHANGED todo
    BY <1>3 DEF RankStep, Resume, Load, BeginSave, Finish, DrainFails, WriteExtras,
                EnterSave, LeaveSave, SaveRaises, ExtrasRaise, MarkerRaises, gc
  <2>2. todo' = {}
    BY <2>1 DEF Removing
  <2>3. CASE bg'[Main] = "idle" \/ bg'[Main] = "joined"
    BY <2>2, <2>3 DEF Spared
  <2>4. CASE \/ Resume(Main) \/ Load(Main) \/ WriteExtras(Main) \/ ExtrasRaise(Main)
    <3>1. UNCHANGED bg /\ pc[Main] \in {"resume", "load", "extras"}
      BY <2>4 DEF Resume, Load, WriteExtras, ExtrasRaise
    <3> QED BY <2>3, <3>1 DEF Stages
  <2>5. CASE BeginSave(Main) \/ Finish(Main)
    <3>1. bg'[Main] = "idle"
      BY <2>5 DEF BeginSave, Finish, Drain, Stages, TypeOK
    <3> QED BY <2>3, <3>1
  <2>6. CASE \/ DrainFails(Main) \/ EnterSave(Main) \/ LeaveSave(Main) \/ SaveRaises(Main)
             \/ MarkerRaises
    <3>1. bg'[Main] = "idle" \/ bg'[Main] = "joined"
      BY <2>6 DEF DrainFails, EnterSave, LeaveSave, SaveRaises, MarkerRaises, TypeOK
    <3> QED BY <2>3, <3>1
  <2> QED BY <1>3, <2>4, <2>5, <2>6 DEF RankStep
<1>4. ASSUME NEW r \in Rank, WriteShard(r) PROVE Spared'
  <2>1. Complete' = Complete
    BY <1>4, OthersChange
  <2>2. UNCHANGED <<todo, at>> /\ bg'[Main] \in {bg[Main], "written"}
    BY <1>4 DEF WriteShard, TypeOK, gc
  <2> QED BY <1>1, <2>1, <2>2
<1>5. CASE WriteMetadata
  <2>1. at[Main] \in Step /\ Metadata \in Object /\ epoch # Absent
    BY <1>5 DEF WriteMetadata, AllWritten, Stages, Object, TypeOK, Epoch, Absent
  <2>2. store'[at[Main]][Metadata] = epoch
    BY <1>5, <2>1 DEF WriteMetadata, Put, TypeOK
  <2>3. UNCHANGED <<todo, at>>
    BY <1>5 DEF WriteMetadata, gc
  <2> QED BY <2>1, <2>2, <2>3 DEF Spared, Complete, IsComplete
<1>6. CASE SaveFails
  BY <1>6 DEF SaveFails, Spared, gc
<1>7. CASE ListOld
  <2>1. Complete' = Complete /\ UNCHANGED <<at, bg>> /\ at[Main] \notin todo'
    BY <1>7, OthersChange DEF ListOld, Protected
  <2> QED BY <2>1 DEF Spared
<1>8. CASE RemoveSome \/ RemoveRest \/ RemoveGivesUp
  <2>1. UNCHANGED <<at, bg>> /\ todo' \subseteq todo
    BY <1>8 DEF RemoveSome, RemoveRest, RemoveGivesUp, mem
  <2>2. ASSUME at[Main] \in Complete PROVE at[Main] \in Complete'
    <3>1. todo # {}
      BY <1>8 DEF RemoveSome, RemoveRest, RemoveGivesUp, Removing
    <3>2. First \in todo
      BY <3>1, FirstIsTodo DEF TypeOK
    <3>3. store'[at[Main]] = store[at[Main]]
      <4>1. First # at[Main] /\ at[Main] \in Step
        BY <2>2, <3>2 DEF Spared, Complete
      <4>2. UNCHANGED store \/ \E f : store' = [store EXCEPT ![First] = f]
        BY <1>8 DEF RemoveSome, RemoveRest, RemoveGivesUp
      <4> QED BY <4>1, <4>2 DEF TypeOK
    <3> QED BY <2>2, <3>3 DEF Complete, IsComplete
  <2> QED BY <2>1, <2>2 DEF Spared
<1>9. CASE PruneDone \/ UNCHANGED vars
  BY <1>9, OthersChange DEF PruneDone, Spared, vars, mem, gc
<1>10. CASE Crash
  BY <1>10 DEF Crash, Spared
<1> QED
  BY <1>2, <1>3, <1>4, <1>5, <1>6, <1>7, <1>8, <1>9, <1>10 DEF Next, Prune, Ended

LEMMA InOrderStep ==
    ASSUME TypeOK, Stages, Removing, InOrder, [Next]_vars, ~missed'
    PROVE  InOrder'
<1> USE MainIsRank
<1>1. /\ MaxStep \in Nat /\ at[Main] \in Nat /\ target[Main] \in Int
      /\ \A s \in Complete \cup Complete' : s \in Nat /\ s <= MaxStep
  BY DcpAssumption DEF TypeOK, Complete, Step, NotYet
<1>2. ASSUME NEW r \in Rank \ {Main}, RankStep(r) PROVE InOrder'
  <2>1. Complete' = Complete
    BY <1>2, RankChanges
  <2>2. pc'[Main] = pc[Main] /\ at'[Main] = at[Main] /\ target'[Main] = target[Main]
    BY <1>2 DEF RankStep, Resume, Load, BeginSave, Finish, DrainFails, WriteExtras,
                EnterSave, LeaveSave, SaveRaises, ExtrasRaise, MarkerRaises, Raised, TypeOK
  <2> QED BY <2>1, <2>2 DEF InOrder
<1>3. ASSUME RankStep(Main) PROVE InOrder'
  <2>1. Complete' \subseteq Complete \cup {at[Main]}
    BY <1>3, RankChanges
  <2>2. CASE Resume(Main)
    <3>1. \A s \in Complete : s <= MaxOf(Complete)
      BY MaxOfSteps DEF Complete
    <3>2. Complete' = Complete
      BY <2>2, OthersChange DEF Resume
    <3>3. target'[Main] = MaxOf(Complete) /\ pc'[Main] = "load"
      BY <2>2 DEF Resume, TypeOK
    <3> QED BY <3>1, <3>2, <3>3 DEF InOrder
  <2>3. CASE Load(Main)
    <3>1. /\ pc[Main] = "load" /\ pc'[Main] = "train"
          /\ at'[Main] \in {target[Main], target[Main] - 1}
      BY <2>3 DEF Load, TypeOK
    <3>2. Complete' = Complete
      BY <2>3, OthersChange DEF Load
    <3> QED BY <1>1, <3>1, <3>2 DEF InOrder
  <2>4. CASE BeginSave(Main)
    <3>1. pc[Main] = "train" /\ pc'[Main] = "extras" /\ at'[Main] = at[Main] + 1
      BY <2>4 DEF BeginSave, TypeOK
    <3> QED BY <1>1, <2>1, <3>1 DEF InOrder
  <2>5. CASE Finish(Main)
    <3>1. pc'[Main] = "done" /\ at'[Main] = MaxStep
      BY <2>5 DEF Finish, TypeOK
    <3> QED BY <1>1, <3>1 DEF InOrder
  <2>6. CASE DrainFails(Main)
    <3>1. pc[Main] = "train" /\ pc'[Main] = "train" /\ at'[Main] \in {at[Main], at[Main] + 1}
      BY <2>6 DEF DrainFails, TypeOK
    <3> QED BY <1>1, <2>1, <3>1 DEF InOrder
  <2>7. CASE \/ WriteExtras(Main) \/ EnterSave(Main) \/ LeaveSave(Main) \/ SaveRaises(Main)
             \/ ExtrasRaise(Main)
    <3>1. /\ pc[Main] \in {"extras", "dcp", "saving"} /\ at'[Main] = at[Main]
          /\ pc'[Main] \notin {"resume", "load"}
      BY <2>7 DEF WriteExtras, EnterSave, LeaveSave, SaveRaises, ExtrasRaise, Raised, TypeOK
    <3> QED BY <1>1, <2>1, <3>1 DEF InOrder
  <2>8. CASE MarkerRaises
    <3>1. pc'[Main] \in {"dead", "train"}
      BY <2>8 DEF MarkerRaises, Raised, TypeOK
    <3>2. \/ pc[Main] = "saving" /\ at'[Main] = at[Main]
          \/ /\ pc[Main] = "train"
             /\ at'[Main] = IF at[Main] < MaxStep THEN at[Main] + 1 ELSE at[Main]
      BY <2>8 DEF MarkerRaises, TypeOK
    <3> QED BY <1>1, <2>1, <3>1, <3>2 DEF InOrder
  <2> QED
    BY <1>3, <2>2, <2>3, <2>4, <2>5, <2>6, <2>7, <2>8 DEF RankStep
<1>4. CASE WriteMetadata
  <2>1. /\ pc[Main] \in {"train", "prune", "remove", "saving"}
        /\ UNCHANGED <<pc, at>> /\ Complete' \subseteq Complete \cup {at[Main]}
    BY <1>4, OthersChange DEF WriteMetadata, AllWritten, Stages
  <2> QED BY <1>1, <2>1 DEF InOrder
<1>5. ASSUME Complete' \subseteq Complete, UNCHANGED <<pc, target, at>> PROVE InOrder'
  BY <1>5 DEF InOrder
<1>6. CASE ListOld \/ PruneDone
  <2>1. /\ Complete' = Complete /\ at'[Main] = at[Main]
        /\ pc[Main] \in {"prune", "remove"} /\ pc'[Main] \in {"train", "remove"}
    BY <1>6, OthersChange DEF ListOld, PruneDone, TypeOK
  <2> QED BY <1>1, <2>1 DEF InOrder
<1>7. CASE RemoveSome \/ RemoveRest \/ RemoveGivesUp
  BY <1>5, <1>7, OthersChange DEF RemoveSome, RemoveRest, RemoveGivesUp, mem
<1>8. CASE Crash
  BY <1>8 DEF Crash, InOrder
<1>9. ASSUME NEW r \in Rank, WriteShard(r) PROVE InOrder'
  BY <1>5, <1>9, OthersChange DEF WriteShard
<1>10. CASE SaveFails \/ UNCHANGED vars
  BY <1>5, <1>10, OthersChange DEF SaveFails, vars, mem
<1>11. ASSUME NEW r \in Rank, RankStep(r) PROVE InOrder'
  BY <1>2, <1>3, <1>11
<1> QED
  BY <1>4, <1>6, <1>7, <1>8, <1>9, <1>10, <1>11 DEF Next, Prune, Ended

\* Marking a step that has landed makes no other one complete.
LEMMA DrainSame ==
    ASSUME TypeOK, Removing, Spared, Drain(Main)
    PROVE  Complete' = Complete
<1>1. CASE UNCHANGED store
  BY <1>1, OthersChange
<1>2. CASE bg[Main] = "landed" /\ Put(at[Main], Marker)
  <2>1. at[Main] \in Complete
    BY <1>2 DEF Spared
  <2> QED BY <1>2, <2>1, PutMarker
<1> QED
  BY <1>1, <1>2 DEF Drain, Landed, WriteMarker

\* A sidecar makes no step complete.
LEMMA ExtrasChange ==
    ASSUME TypeOK, Put(at[Main], Extras(Main)) \/ UNCHANGED store
    PROVE  Complete' = Complete
<1>1. Extras(Main) \in Object /\ Extras(Main) \notin {Marker, Metadata}
  BY MainIsRank DEF Object, Extras, Marker, Metadata
<1>2. CASE Put(at[Main], Extras(Main))
  BY <1>1, <1>2, CompleteChanges
<1>3. CASE UNCHANGED store
  BY <1>3 DEF Complete, IsComplete
<1> QED
  BY <1>2, <1>3

LEMMA FewStep ==
    ASSUME TypeOK, Stages, Modes, Removing, Spared, InOrder, Few, [Next]_vars
    PROVE  Few'
<1> USE MainIsRank
<1>1. /\ MaxStep \in Nat /\ KeepLast \in Nat \ {0}
      /\ Complete \in SUBSET (1 .. MaxStep) /\ Staying \in SUBSET (1 .. MaxStep)
  BY DcpAssumption DEF Complete, Step, Staying
<1>a. ASSUME swept' => swept, UNCHANGED async, swept /\ Counted' => Counted,
             swept => Staying' \subseteq Staying,
             async /\ Writing(Main)' => Writing(Main) /\ at'[Main] = at[Main]
      PROVE  Few'
  <2> SUFFICES ASSUME swept', Counted' PROVE Few'
    BY DEF Few
  <2>1. CASE async
    <3>1. Cardinality(Staying') <= KeepLast + 1
      <4>1. Cardinality(Staying) <= KeepLast + 1 /\ KeepLast + 1 \in Nat
        BY <1>1, <1>a, <2>1 DEF Few
      <4> QED BY <1>1, <1>a, <4>1, FewerSteps
    <3>2. ASSUME Writing(Main)' PROVE Cardinality(Staying' \ {at'[Main]}) <= KeepLast
      <4>1. Staying' \ {at'[Main]} \subseteq Staying \ {at[Main]}
        BY <1>a, <2>1, <3>2
      <4>2. Cardinality(Staying \ {at[Main]}) <= KeepLast
        BY <1>a, <2>1, <3>2 DEF Few
      <4>3. Staying \ {at[Main]} \in SUBSET (1 .. MaxStep)
        BY <1>1
      <4> QED BY <1>1, <4>1, <4>2, <4>3, FewerSteps
    <3> QED BY <1>a, <2>1, <3>1, <3>2 DEF Few
  <2>2. CASE ~async
    <3>1. Cardinality(Staying') <= KeepLast
      BY <1>1, <1>a, <2>2, FewerSteps DEF Few
    <3> QED BY <1>a, <2>2, <3>1 DEF Few
  <2> QED BY <2>1, <2>2
<1>b. ASSUME Complete' = Complete, UNCHANGED <<async, todo, swept>>,
             pc'[Main] = pc[Main], at'[Main] = at[Main],
             Writing(Main)' <=> Writing(Main), bg[Main] = "landed" => bg'[Main] = "landed"
      PROVE  Few'
  BY <1>a, <1>b DEF Counted, Staying
<1>2. ASSUME NEW r \in Rank \ {Main}, RankStep(r) PROVE Few'
  <2>1. Complete' = Complete
    BY <1>2, RankChanges
  <2>2. /\ pc'[Main] = pc[Main] /\ at'[Main] = at[Main] /\ bg'[Main] = bg[Main]
        /\ UNCHANGED <<async, todo, swept>>
    BY <1>2 DEF RankStep, Resume, Load, BeginSave, Finish, Drain, DrainFails, WriteExtras,
                EnterSave, LeaveSave, SaveRaises, ExtrasRaise, Raised, TypeOK, gc
  <2> QED BY <1>b, <2>1, <2>2 DEF Writing
<1>c. ASSUME UNCHANGED <<async, todo, swept>>,
             Counted' => Counted /\ Complete' = Complete,
             async /\ Counted' => ~Writing(Main)'
      PROVE  Few'
  BY <1>c DEF Few, Staying
<1>3. CASE Resume(Main) \/ Load(Main)
  <2>1. ~swept /\ UNCHANGED swept
    BY <1>3 DEF Resume, Load, Modes, gc
  <2> QED BY <2>1 DEF Few
<1>4. CASE BeginSave(Main) \/ Finish(Main)
  <2>1. /\ UNCHANGED <<async, todo, swept>>
        /\ pc[Main] = "train" /\ pc'[Main] \in {"extras", "done"}
        /\ inflight[Main] \/ UNCHANGED <<store, bg>>
    BY <1>4 DEF BeginSave, Finish, Drain, TypeOK, gc
  <2>2. ~async => UNCHANGED <<store, bg>>
    BY <2>1 DEF Modes
  <2>3. Complete' = Complete
    BY <1>4, DrainSame DEF BeginSave, Finish
  <2>4. bg'[Main] = "idle"
    BY <1>4 DEF BeginSave, Finish, Drain, Stages, TypeOK
  <2>5. Counted' => Counted
    BY <2>1, <2>2 DEF Counted
  <2> QED BY <1>c, <2>1, <2>3, <2>4, <2>5 DEF Writing
<1>5. CASE DrainFails(Main)
  <2>1. /\ UNCHANGED <<async, todo, swept, store>>
        /\ pc[Main] = "train" /\ bg[Main] = "failed" /\ bg'[Main] = "idle"
    BY <1>5 DEF DrainFails, TypeOK, gc
  <2>2. Complete' = Complete
    BY <2>1, OthersChange
  <2> QED BY <1>c, <2>1, <2>2 DEF Counted, Writing
<1>6. CASE WriteExtras(Main)
  <2>1. /\ UNCHANGED <<async, todo, swept, bg>> /\ pc[Main] = "extras" /\ pc'[Main] = "dcp"
    BY <1>6 DEF WriteExtras, TypeOK, gc
  <2>2. Complete' = Complete
    BY <1>6, ExtrasChange DEF WriteExtras
  <2>3. bg[Main] = "idle"
    BY <2>1 DEF Stages
  <2> QED BY <1>c, <2>1, <2>2, <2>3 DEF Counted, Writing
<1>7. CASE EnterSave(Main)
  <2>1. /\ UNCHANGED <<async, todo, swept, store>> /\ pc[Main] = "dcp" /\ bg[Main] = "idle"
        /\ pc'[Main] = IF async THEN "prune" ELSE "saving"
    BY <1>7 DEF EnterSave, Stages, TypeOK, gc
  <2>2. Complete' = Complete
    BY <2>1, OthersChange
  <2> QED BY <1>c, <2>1, <2>2 DEF Counted
<1>8. CASE LeaveSave(Main)
  <2>1. UNCHANGED <<async, todo, swept>> /\ pc'[Main] = "prune"
    BY <1>8 DEF LeaveSave, TypeOK, gc
  <2> QED BY <1>c, <2>1 DEF Counted
<1>9. CASE SaveRaises(Main)
  <2>1. /\ UNCHANGED <<async, todo, swept, store>> /\ pc[Main] = "saving" /\ bg[Main] = "failed"
        /\ ~async
    BY <1>9 DEF SaveRaises, Modes, gc
  <2>2. Complete' = Complete
    BY <2>1, OthersChange
  <2> QED BY <1>c, <2>1, <2>2 DEF Counted
<1>10. ASSUME NEW r \in Rank, WriteShard(r) PROVE Few'
  <2>1. /\ UNCHANGED <<async, todo, swept, pc, at>> /\ Complete' = Complete
        /\ bg'[Main] = bg[Main] \/ (bg[Main] = "joined" /\ bg'[Main] = "written")
    BY <1>10, OthersChange DEF WriteShard, TypeOK, gc
  <2> QED BY <1>b, <2>1 DEF Writing
<1>11. CASE WriteMetadata
  <2>1. /\ UNCHANGED <<async, todo, swept, pc, at>> /\ Complete' \subseteq Complete \cup {at[Main]}
        /\ bg[Main] = "written" /\ bg'[Main] = "landed"
    BY <1>11, OthersChange DEF WriteMetadata, AllWritten, gc
  <2>2. ASSUME swept, async, Counted PROVE Cardinality(Staying') <= KeepLast + 1
    <3>1. Cardinality(Staying \ {at[Main]}) <= KeepLast
      BY <2>1, <2>2 DEF Few, Writing
    <3>2. Staying' \subseteq (Staying \ {at[Main]}) \cup {at[Main]}
      BY <2>1 DEF Staying
    <3>3. Staying \ {at[Main]} \in SUBSET (1 .. MaxStep)
      BY <1>1
    <3> QED BY <1>1, <3>1, <3>2, <3>3, FewerSteps
  <2>3. Counted' => Counted /\ async
    BY <2>1 DEF Counted
  <2> QED BY <2>1, <2>2, <2>3 DEF Few, Writing
<1>12. CASE SaveFails
  <2>1. /\ UNCHANGED <<async, todo, swept, pc, at, store>>
        /\ Writing(Main) /\ bg'[Main] = "failed"
    BY <1>12 DEF SaveFails, AllIn, Writing, gc
  <2>2. Complete' = Complete
    BY <2>1, OthersChange
  <2> QED BY <1>c, <2>1, <2>2 DEF Counted, Writing
<1>13. CASE ListOld
  <2>1. PICK found \in SUBSET Complete :
            todo' = found \ Protected(found) /\ swept' = (found = Complete)
    BY <1>13 DEF ListOld
  <2>2. Complete' = Complete /\ UNCHANGED <<async, at>> /\ pc[Main] = "prune"
    BY <1>13, OthersChange DEF ListOld
  <2>3. ASSUME swept' PROVE Few'
    <3>1. Cardinality(LastOf(Complete)) <= KeepLast
      BY <1>1, LatestFew DEF LastOf
    <3>2. LastOf(Complete) \in SUBSET (1 .. MaxStep)
      BY <1>1 DEF LastOf
    <3>3. Staying' \subseteq LastOf(Complete) \cup {at[Main]}
      BY <2>1, <2>2, <2>3 DEF Staying, Protected
    <3>4. Cardinality(Staying') <= KeepLast + 1
      BY <1>1, <3>1, <3>2, <3>3, FewerSteps
    <3>5. Cardinality(Staying' \ {at[Main]}) <= KeepLast
      <4>1. Staying' \ {at[Main]} \subseteq LastOf(Complete)
        BY <3>3
      <4> QED BY <1>1, <3>1, <3>2, <4>1, FewerSteps
    <3>6. Cardinality(Staying') <= KeepLast
      <4>1. at[Main] \in Complete => at[Main] \in LastOf(Complete)
        <5>1. \A s \in Complete : s <= at[Main]
          BY <2>2 DEF InOrder
        <5> QED BY <1>1, <5>1, LatestFew DEF LastOf
      <4>2. Staying' \subseteq LastOf(Complete)
        BY <2>2, <3>3, <4>1 DEF Staying
      <4> QED BY <1>1, <3>1, <3>2, <4>2, FewerSteps
    <3> QED BY <2>2, <3>4, <3>5, <3>6 DEF Few
  <2> QED BY <2>3 DEF Few
<1>14. CASE RemoveSome \/ RemoveRest \/ RemoveGivesUp
  <2>1. /\ UNCHANGED <<async, mem>> /\ (swept' => swept)
        /\ swept' => Staying' \subseteq Staying
    <3>1. CASE RemoveSome
      BY <3>1, OthersChange DEF RemoveSome, Staying
    <3>2. CASE RemoveRest
      BY <3>2, OthersChange DEF RemoveRest, Staying
    <3>3. CASE RemoveGivesUp
      BY <3>3 DEF RemoveGivesUp
    <3> QED BY <1>14, <3>1, <3>2, <3>3
  <2> QED BY <1>a, <2>1 DEF Few, Counted, Writing, mem
<1>15. CASE PruneDone
  <2>1. /\ Complete' = Complete /\ UNCHANGED <<async, at, bg, todo, swept>>
        /\ pc[Main] = "remove" /\ pc'[Main] = "train"
    BY <1>15, OthersChange DEF PruneDone, TypeOK, gc
  <2> QED BY <1>a, <2>1 DEF Counted, Staying, Writing
<1>16. CASE Crash
  BY <1>16 DEF Crash, Few
<1>17. CASE UNCHANGED vars
  BY <1>17, <1>b, OthersChange DEF vars, mem, gc, Writing
<1>18. CASE ExtrasRaise(Main)
  <2>1. /\ UNCHANGED <<async, todo, swept, bg, at>> /\ pc[Main] = "extras"
        /\ pc'[Main] \in {"dead", "train"} /\ bg[Main] = "idle"
    BY <1>18 DEF ExtrasRaise, Raised, Stages, TypeOK, gc
  <2>2. Complete' = Complete
    BY <1>18, ExtrasChange DEF ExtrasRaise
  <2> QED BY <1>c, <2>1, <2>2 DEF Counted, Writing
<1>19. CASE MarkerRaises
  BY <1>19 DEF MarkerRaises, Few
<1>20. CASE RankStep(Main)
  BY <1>3, <1>4, <1>5, <1>6, <1>7, <1>8, <1>9, <1>18, <1>19, <1>20 DEF RankStep
<1> QED
  BY <1>2, <1>10, <1>11, <1>12, <1>13, <1>14, <1>15, <1>16, <1>17, <1>20 DEF Next, Prune, Ended

\* A pass of _prune_old in which no call failed leaves keep_last checkpoints, and
\* with async_save the one whose save it did not wait for: also in a loop that
\* saves the step it resumed from again, until a load_latest misses the newest one.
THEOREM PruningKeepsFew == Spec => []RetentionBounded
<1>1. Init => RetentionInv
  <2> SUFFICES ASSUME Init PROVE RetentionInv
    OBVIOUS
  <2>1. Complete = {}
    BY DEF Complete, IsComplete, Init, Nothing, Object
  <2>2. TypeOK
    BY TypeInit
  <2> QED BY <2>1, <2>2, MainIsRank
          DEF Init, RetentionInv, Stages, Modes, Removing, Spared, InOrder, Few
<1>2. RetentionInv /\ [Next]_vars => RetentionInv'
  <2> SUFFICES ASSUME RetentionInv, [Next]_vars PROVE RetentionInv'
    OBVIOUS
  <2>1. Loads
    BY DEF RetentionInv, Stages, Loads
  <2>2. TypeOK' /\ Stages' /\ Modes' /\ Removing' /\ Spared'
    BY <2>1, TypeStep, StagesStep, ModesStep, RemovingStep, SparedStep DEF RetentionInv
  <2>3. ASSUME ~missed' PROVE InOrder' /\ Few'
    <3>1. InOrder /\ Few
      BY <2>3, MissedStays DEF RetentionInv
    <3> QED BY <2>3, <3>1, InOrderStep, FewStep DEF RetentionInv
  <2> QED BY <2>2, <2>3 DEF RetentionInv
<1>3. RetentionInv => RetentionBounded
  <2> SUFFICES ASSUME RetentionInv, ~missed, swept, pc[Main] = "train"
               PROVE  Cardinality(Complete) <= IF async THEN KeepLast + 1 ELSE KeepLast
    BY DEF RetentionBounded
  <2>1. Staying = Complete
    BY DEF RetentionInv, Removing, Staying
  <2>2. ~async => bg[Main] = "idle"
    BY MainIsRank DEF RetentionInv, Stages, Modes
  <2> QED BY <2>1, <2>2 DEF RetentionInv, Few, Counted
<1> QED
  BY <1>1, <1>2, <1>3, PTL DEF Spec

-----------------------------------------------------------------------------
(* The theorems.                                                           *)

\* The invariant, as long as no load_latest has missed the newest checkpoint.
UnlessMissed == TypeOK /\ Loads /\ (~missed => Inv)

LEMMA InvHolds ==
    ASSUME Resave = FALSE
    PROVE  Spec => []UnlessMissed
<1>1. Init => UnlessMissed
  <2> SUFFICES ASSUME Init PROVE UnlessMissed
    OBVIOUS
  <2>1. Complete = {}
    BY DEF Complete, IsComplete, Init, Nothing, Object
  <2>2. Stages /\ Ahead /\ Saved
    BY <2>1 DEF Init, Stages, Ahead, Saved, Writing
  <2>3. Pruning /\ NewestWhole /\ Agreed /\ SameTarget
    BY <2>1 DEF Init, Pruning, NewestWhole, Agreed, SameTarget
  <2> QED
    BY <2>2, <2>3, TypeInit DEF Inv, UnlessMissed
<1>2. UnlessMissed /\ [Next]_vars => UnlessMissed'
  <2> SUFFICES ASSUME UnlessMissed, [Next]_vars PROVE UnlessMissed'
    OBVIOUS
  <2>1. TypeOK' /\ Loads'
    BY TypeStep, LoadsStep DEF UnlessMissed
  <2>2. ASSUME ~missed' PROVE Inv'
    <3>1. Inv
      BY <2>2, MissedStays DEF UnlessMissed
    <3>2. Stages' /\ Ahead' /\ Saved' /\ Pruning'
      BY <2>2, <3>1, StagesStep, AheadStep, SavedStep, PruningStep DEF Inv
    <3>3. NewestWhole' /\ Agreed' /\ SameTarget'
      BY <2>2, <3>1, ResumePointStep, AgreedStep
    <3> QED BY <2>1, <3>2, <3>3 DEF Inv
  <2> QED BY <2>1, <2>2 DEF UnlessMissed
<1> QED
  BY <1>1, <1>2, PTL DEF Spec

\* The checkpoint that latest_checkpoint returns holds every rank's part, all
\* written by one incarnation, whatever is preempted, pruned or failed meanwhile,
\* as long as the loop does not save the step it resumed from again and no
\* load_latest has missed the newest checkpoint.
THEOREM ResumePointIsWhole ==
    ASSUME Resave = FALSE
    PROVE  Spec => []ResumePointWhole
<1>1. UnlessMissed => ResumePointWhole
  BY DEF UnlessMissed, Inv, NewestWhole, ResumePointWhole
<1> QED
  BY <1>1, InvHolds, PTL

\* Ranks that call load_latest at different times return the same step, in every
\* incarnation until one of them fails to see the newest checkpoint: its head
\* failed, or its listing was taken for an empty one.
THEOREM AllRanksAgree ==
    ASSUME Resave = FALSE
    PROVE  Spec => []RanksAgree
<1>1. UnlessMissed => RanksAgree
  BY DEF UnlessMissed, Inv, SameTarget, RanksAgree
<1> QED
  BY <1>1, InvHolds, PTL

\* The newest whole checkpoint is the newest one.
LEMMA NewestIs == NewestWhole => Newest = MaxOf(Complete)
<1> SUFFICES ASSUME NewestWhole PROVE Newest = MaxOf(Complete)
  OBVIOUS
<1> DEFINE W == {s \in Complete : Whole(s)}
<1>1. CASE Complete = {}
  BY <1>1 DEF Newest
<1>2. CASE Complete # {}
  <2>1. MaxOf(Complete) \in W
    BY <1>2, MaxOfSteps DEF Complete, NewestWhole
  <2>2. W \in SUBSET Step /\ \A s \in W : s <= MaxOf(Complete)
    BY MaxOfSteps DEF Complete
  <2> HIDE DEF W
  <2>3. MaxOf(W) = MaxOf(Complete)
    BY <2>1, <2>2, MaxOfSteps
  <2> QED BY <2>3 DEF Newest, W
<1> QED
  BY <1>1, <1>2

\* A load_latest that misses the newest checkpoint returns an older step, or 0.
LEMMA MissStep ==
    ASSUME Inv, [Next]_vars, ~missed, missed'
    PROVE  \E r \in Rank : Store!Miss(r)
<1>1. PICK r \in Rank : Resume(r)
  <2>1. ASSUME NEW r \in Rank, RankStep(r), ~Resume(r) PROVE UNCHANGED missed
    BY <2>1 DEF RankStep, Load, BeginSave, Finish, DrainFails, WriteExtras, EnterSave,
                LeaveSave, SaveRaises, ExtrasRaise, MarkerRaises
  <2>2. ~Prune
    BY DEF Prune, ListOld, RemoveSome, RemoveRest, RemoveGivesUp, PruneDone
  <2> QED
    BY <2>1, <2>2 DEF Next, WriteShard, WriteMetadata, SaveFails, Crash, Ended, vars
<1>2. PICK found \in SUBSET Complete : /\ target' = [target EXCEPT ![r] = MaxOf(found)]
                                       /\ MaxOf(found) # MaxOf(Complete)
  BY <1>1 DEF Resume
<1>3. MaxOf(found) \in 0 .. MaxOf(Complete) - 1
  <2>1. found \in SUBSET Step /\ Complete \in SUBSET Step
    BY DEF Complete
  <2>2. /\ MaxOf(found) \in found \cup {0} /\ MaxOf(Complete) \in Complete \cup {0}
        /\ \A s \in Complete : s <= MaxOf(Complete)
    BY <2>1, MaxOfSteps
  <2>3. MaxOf(Complete) \in Nat /\ MaxOf(found) \in Nat
    <3>1. \A s \in Step \cup {0} : s \in Nat
      BY DcpAssumption DEF Step
    <3>2. MaxOf(found) \in Step \cup {0} /\ MaxOf(Complete) \in Step \cup {0}
      BY <2>1, <2>2
    <3> QED BY <3>1, <3>2
  <2>4. MaxOf(found) <= MaxOf(Complete)
    BY <2>2, <2>3
  <2> QED BY <1>2, <2>3, <2>4
<1>4. Newest = MaxOf(Complete)
  BY NewestIs DEF Inv
<1>5. UNCHANGED Newest
  <2>1. UNCHANGED store
    BY <1>1 DEF Resume
  <2> QED BY <2>1 DEF Newest, Complete, IsComplete, Whole
<1>6. target[r] = NotYet
  BY <1>1 DEF Resume, Inv, Stages
<1> QED
  BY <1>2, <1>3, <1>4, <1>5, <1>6 DEF Store!Miss, Store!NotYet, NotYet

\* As long as nobody has missed it, the newest checkpoint moves forward only, and is
\* the one resumed from.
LEMMA KeptPromise ==
    ASSUME Inv, Inv', [Next]_vars, ~missed', UNCHANGED missed
    PROVE  [Store!Next]_(Store!vars)
<1>1. Newest = MaxOf(Complete) /\ Newest' = MaxOf(Complete')
  <2>1. Newest = MaxOf(Complete)
    BY NewestIs DEF Inv
  <2>2. (NewestWhole => Newest = MaxOf(Complete))'
    BY NewestIs, PTL
  <2>3. NewestWhole'
    BY DEF Inv
  <2> QED BY <2>1, <2>2, <2>3
<1>2. CASE WriteMetadata
  <2>1. MaxOf(Complete) < MaxOf(Complete')
    <3>1. \A t \in Complete : t < at[Main]
      BY <1>2, Commit
    <3>2. MaxOf(Complete) \in Complete \cup {0} /\ at[Main] \in Step /\ MaxOf(Complete') = at[Main]
      BY <1>2, Commit, MaxOfSteps DEF Complete
    <3> QED BY <3>1, <3>2, DcpAssumption DEF Step
  <2>2. UNCHANGED target
    BY <1>2 DEF WriteMetadata
  <2>3. Newest' > Newest
    BY <1>1, <2>1, MaxOfSteps, DcpAssumption DEF Complete, Step
  <2>4. Store!Commit
    BY <2>2, <2>3 DEF Store!Commit
  <2> QED BY <2>4 DEF Store!Next
<1>3. CASE ~WriteMetadata
  <2>1. Newest' = Newest
    BY <1>1, <1>3, AllKeep, KeptNewest DEF Inv
  <2>2. CASE UNCHANGED target
    BY <2>1, <2>2 DEF Store!vars
  <2>3. CASE target' = [r \in Rank |-> NotYet]
    BY <2>1, <2>3 DEF Store!Next, Store!Restart, Store!NotYet, NotYet
  <2>4. ASSUME NEW r \in Rank, target[r] = NotYet,
               target' = [target EXCEPT ![r] = MaxOf(Complete)]
        PROVE  Store!Resume(r)
    BY <1>1, <2>1, <2>4 DEF Store!Resume, Store!NotYet, NotYet
  <2> QED BY <2>2, <2>3, <2>4, TargetStep DEF Store!Next
<1> QED
  BY <1>2, <1>3

\* A step of the job is a step of the store it promises, or changes nothing of it.
LEMMA StoreStep ==
    ASSUME UnlessMissed, UnlessMissed', [Next]_vars
    PROVE  [Store!Next]_(Store!vars)
<1>1. CASE missed'
  <2>1. CASE missed
    BY <1>1, <2>1 DEF Store!Loose, Store!Next
  <2>2. CASE ~missed
    BY <1>1, <2>2, MissStep DEF Store!Next, UnlessMissed
  <2> QED BY <2>1, <2>2
<1>2. CASE ~missed'
  <2>1. ~missed /\ Inv /\ Inv'
    BY <1>2, MissedStays DEF UnlessMissed
  <2>2. UNCHANGED missed
    BY <1>2, <2>1 DEF UnlessMissed, TypeOK
  <2> QED BY <1>2, <2>1, <2>2, KeptPromise
<1> QED
  BY <1>1, <1>2

\* The job implements the store: the newest checkpoint only moves forward, and
\* every process that starts, resumes from it, until one misses it.
THEOREM ImplementsCheckpointStore ==
    ASSUME Resave = FALSE
    PROVE  Spec => StoreSpec
<1>1. Init => Store!Init
  <2>1. SUFFICES ASSUME Init PROVE Store!Init
    OBVIOUS
  <2>2. Complete = {}
    BY <2>1 DEF Complete, IsComplete, Init, Nothing, Object
  <2>3. Newest = 0
    BY <2>2 DEF Newest, MaxOf
  <2> QED BY <2>1, <2>3 DEF Init, Store!Init, Store!NotYet, NotYet
<1>2. UnlessMissed /\ UnlessMissed' /\ [Next]_vars => [Store!Next]_(Store!vars)
  BY StoreStep
<1> QED
  BY <1>1, <1>2, InvHolds, PTL DEF Spec, StoreSpec, Store!Spec

=============================================================================
