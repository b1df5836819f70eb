--------------------- MODULE DeepSpeedCheckpointProofs ---------------------
(***************************************************************************)
(* Proofs about DeepSpeedCheckpoint, for any number of nodes, steps and    *)
(* preemptions and any keep_last: type correctness, that a local copy is   *)
(* given up for an uploaded one only and, unless load_latest has missed    *)
(* the newest checkpoint, that all nodes resume from one; if no checkpoint *)
(* is saved over either, that it is whole unless the upload of a node was  *)
(* cut, and that pruning bounds the checkpoints.                           *)
(***************************************************************************)
EXTENDS DeepSpeedCheckpoint, StepSets

-----------------------------------------------------------------------------
(* The inductive invariant.                                                *)

Loaded(n) == pc[n] \notin {"resume", "load"}

\* The step after which a node saves.
From(n) == IF resave /\ target[n] # 0 THEN target[n] - 1 ELSE target[n]

\* What a node's upload and its target can be at each place of its main thread.
Stages ==
    /\ Main \in nodes
    /\ \A n \in Node \ nodes : target[n] = NotYet
    /\ \A n \in nodes :
        /\ pc[n] = "resume" <=> target[n] = NotYet
        /\ ~Loaded(n) => at[n] = 0 /\ job[n] = "idle"
        /\ Loaded(n) => From(n) <= at[n]
        /\ pc[n] \in {"save", "barrier"} => job[n] = "idle" /\ From(n) < at[n]
        /\ job[n] # "idle" => From(n) < at[n] /\ pc[n] # "done"
        /\ pc[n] = "train" /\ From(n) < at[n] => job[n] # "idle" \/ nodes = {n}
        /\ pc[n] = "dead" => job[n] = "failed"
        /\ pc[n] = "uploading" => ~async /\ job[n] # "idle"
        /\ inflight[n] <=> async /\ job[n] # "idle"
        /\ ~async /\ pc[n] \notin {"uploading", "dead"} => job[n] \in {"idle", "ok"}
        /\ pc[n] \in {"prune", "remove"} => n = Main /\ job[n] # "idle"

\* A node uploads only when all have saved.
Met == \A n, m \in nodes : job[n] # "idle" => Arrived(m, at[n])

\* The step of node 0 is not among those being removed.
Spared ==
    /\ todo # {} => pc[Main] = "remove"
    /\ at[Main] \notin todo

\* While a node has not resumed, nobody can complete or remove a checkpoint.
Agreed ==
    ~missed =>
        \A n, m \in nodes :
            target[n] # NotYet /\ target[m] = NotYet => target[n] = MaxOf(Complete)

\* The step of node m; while it is loading, that at which it will be.
Base(n, m) == IF Loaded(m) THEN at[m] ELSE target[n]

\* A node is at most one save ahead of another.
Lockstep ==
    \A n, m \in nodes :
        Loaded(n) /\ Base(n, m) < at[n] =>
            /\ at[n] = Base(n, m) + 1
            /\ pc[n] \in {"save", "barrier"} /\ pc[m] # "save"

\* What is on the disk and on S3 of the step that a node saves.
SentOf(n) ==
    /\ pc[n] = "barrier" \/ job[n] \in {"sending", "marked"} => local[n][at[n]] = epoch
    /\ job[n] \in {"marked", "ok"} => Uploaded(n, at[n], epoch)
    /\ job[n] = "failed" => at[n] \in cut

Sent == \A n \in nodes : SentOf(n)

\* A node that has gone on from the step of node 0 has uploaded it.
PastOf(n) ==
    /\ Loaded(Main) /\ target[Main] < at[Main]
    /\ at[Main] < at[n] \/ (at[n] = at[Main] /\ pc[n] = "done")
    => Uploaded(n, at[Main], epoch) \/ at[Main] \in cut

Past == \A n \in nodes \ {Main} : PastOf(n)

\* No checkpoint is ahead of node 0; those of this incarnation are after the
\* steps the nodes resumed from.
Ahead ==
    \A s \in Complete :
        /\ pc[Main] = "load" => s <= target[Main]
        /\ Loaded(Main) => s <= at[Main]
        /\ pc[Main] \in {"save", "barrier"} \/ job[Main] \in {"sending", "failed"} =>
            s < at[Main]
        /\ marker[s] = epoch \/ \A n \in nodes : target[n] # NotYet => s <= target[n]

\* Every step that is being removed is older than a complete one that stays.
Pruning == \A s \in todo : s < at[Main] /\ \E t \in Complete \ todo : s < t

OnItsWay(n, s) ==
    at[n] = s /\ marker[s] = epoch /\ (pc[n] = "barrier" \/ job[n] = "sending")

\* What is there of the newest checkpoint.
Newest ==
    LET s == MaxOf(Complete)
    IN  Complete # {} =>
            /\ Uploaded(Main, s, marker[s])
            /\ s \in cut \/ \A n \in nodes : Uploaded(n, s, marker[s]) \/ OnItsWay(n, s)

\* From the listing of _prune_old until node 0 adds a checkpoint again.
Counted ==
    IF async THEN pc[Main] \in {"remove", "train"}
    ELSE pc[Main] \notin {"uploading", "prune"} \/ job[Main] \in {"sending", "failed"}

Retained == Complete \ (todo \cup IF async THEN {at[Main]} ELSE {})

Few ==
    /\ ~Loaded(Main) => ~swept
    /\ swept /\ Counted => Cardinality(Retained) <= KeepLast

\* What holds whatever is missed or saved again, and what a loop that saves no step
\* twice has besides.
Always == TypeOK /\ Stages /\ Met /\ Spared /\ Sent /\ NodesAgree /\ Agreed
Regular == Lockstep /\ Past /\ Ahead /\ Pruning /\ Newest /\ Few

Inv == Always /\ (SavesOnce => Regular)

-----------------------------------------------------------------------------
(* Type correctness.                                                       *)

\* MaxOf is the maximum, and the only one; it is 0 of no steps at all.
LEMMA MaxOfSteps ==
    ASSUME NEW S \in SUBSET Step
    PROVE  /\ MaxOf(S) \in S \cup {0} /\ MaxOf(S) \in Step \cup {0}
           /\ \A s \in S : s <= MaxOf(S)
           /\ S # {} => MaxOf(S) \in S
           /\ \A m \in S : (\A s \in S : s <= m) => MaxOf(S) = m
<1>1. MaxStep \in Nat /\ S \in SUBSET (1 .. MaxStep)
  BY DeepSpeedAssumption DEF Step
<1>2. MaxOf(S) \in S \cup {0} /\ \A s \in S : s <= MaxOf(S)
  BY <1>1, GreatestOrZero DEF MaxOf
<1> QED
  BY <1>1, <1>2, GreatestOrZero

\* The step removed next is one of those to remove.
LEMMA FirstIsTodo ==
    ASSUME todo \in SUBSET Step, todo # {}
    PROVE  First \in todo
BY LeastStep, DeepSpeedAssumption DEF First, Step

\* A node that saves has resumed, and saves a step after the resumed one.
LEMMA Numbers ==
    ASSUME TypeOK, Stages, NEW n \in nodes
    PROVE  /\ n \in Node /\ Main \in Node
           /\ at[n] \in Nat /\ at[n] \in 0 .. MaxStep /\ target[n] \in Int
           /\ target[n] # NotYet => target[n] \in 0 .. MaxStep /\ From(n) \in 0 .. MaxStep
           /\ Loaded(n) => From(n) \in 0 .. MaxStep /\ From(n) <= at[n]
           /\ pc[n] \in {"save", "barrier"} \/ job[n] # "idle" =>
                Loaded(n) /\ at[n] \in Step /\ From(n) < at[n]
           /\ ~resave => From(n) = target[n]
<1> USE DeepSpeedAssumption
<1>1. n \in Node /\ Main \in Node
  BY DEF TypeOK, Stages
<1>2. at[n] \in 0 .. MaxStep /\ target[n] \in Step \cup {0, NotYet}
  BY <1>1 DEF TypeOK
<1>3. target[n] \in Int /\ (target[n] # NotYet => target[n] \in 0 .. MaxStep)
  BY <1>2 DEF Step, NotYet
<1>4. Loaded(n) => target[n] # NotYet /\ From(n) <= at[n]
  BY DEF Stages, Loaded
<1>5. pc[n] \in {"save", "barrier"} \/ job[n] # "idle" => Loaded(n) /\ From(n) < at[n]
  BY DEF Stages, Loaded
<1>6. /\ target[n] # NotYet => From(n) \in 0 .. MaxStep
      /\ ~resave => From(n) = target[n]
  BY <1>3 DEF From
<1> QED
  BY <1>1, <1>2, <1>3, <1>4, <1>5, <1>6 DEF Step

LEMMA TypeStep ==
    ASSUME TypeOK, Stages, [Next]_vars
    PROVE  TypeOK'
<1> USE DeepSpeedAssumption
<1>1. /\ epoch \in 0 .. MaxEpoch /\ Absent \in 0 .. MaxEpoch /\ 0 \in 0 .. MaxStep
      /\ nodes \subseteq Node /\ Main \in nodes
  BY DEF TypeOK, Stages, Epoch, Absent
<1>2. ASSUME NEW n \in nodes, Resume(n) PROVE TypeOK'
  <2>1. \A found \in SUBSET Complete : MaxOf(found) \in Step \cup {0}
    BY MaxOfSteps DEF Complete
  <2>2. target' \in [Node -> Step \cup {0, NotYet}]
    BY <1>1, <1>2, <2>1 DEF TypeOK, Resume
  <2>3. missed' \in BOOLEAN
    BY <1>2 DEF Resume
  <2> QED BY <1>1, <1>2, <2>2, <2>3 DEF TypeOK, Resume, config, s3
<1>3. ASSUME NEW n \in nodes, Load(n) PROVE TypeOK'
  <2>1. From(n) \in 0 .. MaxStep
    BY <1>3, Numbers DEF Load, Stages
  <2> QED BY <1>1, <1>3, <2>1 DEF TypeOK, Load, From, control, config, s3
<1>4. ASSUME NEW n \in nodes, BeginSave(n) PROVE TypeOK'
  <2>1. at[n] + 1 \in 0 .. MaxStep
    BY <1>4, Numbers DEF BeginSave
  <2> QED BY <1>1, <1>4, <2>1 DEF TypeOK, BeginSave, Drain, control, config, s3
<1>5. ASSUME NEW n \in nodes, Finish(n) PROVE TypeOK'
  BY <1>1, <1>5 DEF TypeOK, Finish, Drain, control, config, s3
<1>6. ASSUME NEW n \in nodes, Raise(n) PROVE TypeOK'
  BY <1>1, <1>6 DEF TypeOK, Raise, control, config, s3
<1>7. ASSUME NEW n \in nodes, CatchAlone(n) PROVE TypeOK'
  <2>1. at[n] < MaxStep => at[n] + 1 \in 0 .. MaxStep
    BY Numbers
  <2> QED BY <1>1, <1>7, <2>1 DEF TypeOK, CatchAlone, control, config, s3
<1>8. ASSUME NEW n \in nodes, SaveLocal(n) PROVE TypeOK'
  BY <1>1, <1>8 DEF TypeOK, SaveLocal, control, config, s3
<1>9. ASSUME NEW n \in nodes, Dispatch(n) PROVE TypeOK'
  BY <1>1, <1>9 DEF TypeOK, Dispatch, AfterSave, control, config, s3
<1>10. ASSUME NEW n \in nodes, Return(n) PROVE TypeOK'
  BY <1>1, <1>10 DEF TypeOK, Return, AfterSave, control, config, s3
<1>11. ASSUME NEW n \in nodes, NEW f \in File, Send(n, f) PROVE TypeOK'
  <2>1. at[n] \in Step
    BY <1>11, Numbers DEF Send
  <2>2. local[n][at[n]] \in 0 .. MaxEpoch
    BY <1>1, <2>1 DEF TypeOK
  <2>3. store' \in [Step -> [File \X Node -> 0 .. MaxEpoch]]
    BY <1>11, <2>1, <2>2 DEF TypeOK, Send
  <2> QED BY <1>11, <2>3 DEF TypeOK, Send, control, config, mem
<1>12. ASSUME NEW n \in nodes, Mark(n) PROVE TypeOK'
  BY <1>1, <1>12 DEF TypeOK, Mark, control, config
<1>13. ASSUME NEW n \in nodes, EndJob(n) PROVE TypeOK'
  BY <1>1, <1>13 DEF TypeOK, EndJob, control, config, s3
<1>14. ASSUME NEW n \in nodes, JobFails(n) PROVE TypeOK'
  <2>1. at[n] \in Step
    BY <1>14, Numbers DEF JobFails
  <2> QED BY <1>1, <1>14, <2>1 DEF TypeOK, JobFails, control, config, s3
<1>15. CASE ListOld
  BY <1>1, <1>15 DEF TypeOK, ListOld, Complete, control, config, s3
<1>16. CASE Remove
  <2>1. First \in Step
    BY <1>16, FirstIsTodo DEF Remove, TypeOK
  <2>2. \A gone \in SUBSET File :
            [x \in File \X Node |-> IF x[1] \in gone THEN Absent ELSE store[First][x]]
                \in [File \X Node -> 0 .. MaxEpoch]
    BY <1>1, <2>1 DEF TypeOK
  <2> QED BY <1>1, <1>16, <2>1, <2>2 DEF TypeOK, Remove, control, config, mem
<1>17. CASE PruneDone
  BY <1>17 DEF TypeOK, PruneDone, control, config, s3
<1>18. CASE Crash
  <2>1. cut' \in SUBSET Step
    <3>1. \A n \in nodes : Unsent(n) => at[n] \in Step
      BY Numbers DEF Unsent
    <3> QED BY <1>18, <3>1 DEF TypeOK, Crash
  <2>2. epoch' \in Epoch
    BY <1>18 DEF TypeOK, Crash, Epoch
  <2> QED BY <1>1, <1>18, <2>1, <2>2 DEF TypeOK, Crash, config, s3
<1>19. CASE UNCHANGED vars
  BY <1>19 DEF TypeOK, vars, control, config, s3, mem
<1> QED
  BY <1>2, <1>3, <1>4, <1>5, <1>6, <1>7, <1>8, <1>9, <1>10, <1>11, <1>12, <1>13, <1>14,
     <1>15, <1>16, <1>17, <1>18, <1>19 DEF Next, NodeStep, JobStep, Prune, Ended

LEMMA StagesStep ==
    ASSUME TypeOK, Stages, [Next]_vars
    PROVE  Stages'
<1> USE DeepSpeedAssumption DEF Stages, Loaded
<1>1. nodes \subseteq Node /\ Main \in nodes
  BY DEF TypeOK
<1>a. UNCHANGED <<resave, target>> => \A n : From(n)' = From(n)
  BY DEF From
<1>2. ASSUME NEW n \in nodes, Resume(n) PROVE Stages'
  <2>1. \A found \in SUBSET Complete : MaxOf(found) # NotYet
    BY MaxOfSteps DEF Complete, Step, NotYet
  <2>2. /\ UNCHANGED <<nodes, async, resave, job, inflight, at>> /\ pc[n] = "resume"
        /\ pc' = [pc EXCEPT ![n] = "load"]
    BY <1>2 DEF Resume, config
  <2>3. target'[n] # NotYet /\ \A m \in Node \ {n} : target'[m] = target[m]
    BY <1>1, <1>2, <2>1 DEF TypeOK, Resume
  <2>4. \A m \in nodes \ {n} : From(m)' = From(m)
    BY <1>1, <2>2, <2>3 DEF From
  <2> QED BY <1>1, <2>2, <2>3, <2>4 DEF TypeOK
<1>3. ASSUME NEW n \in nodes, Load(n) PROVE Stages'
  <2>1. From(n) \in Int /\ at'[n] = From(n)
    <3>1. From(n) \in Int
      BY <1>3, Numbers DEF Load
    <3> QED BY <1>1, <1>3, <3>1 DEF TypeOK, Load, From
  <2>2. \A m \in nodes : From(m)' = From(m)
    BY <1>3 DEF Load, From, control, config
  <2> QED BY <1>1, <1>3, <2>1, <2>2 DEF TypeOK, Load, control, config
<1>4. ASSUME NEW n \in nodes, BeginSave(n) PROVE Stages'
  <2>1. From(n) < at[n] + 1 /\ From(n) <= at[n] + 1
    BY <1>4, Numbers DEF BeginSave
  <2> QED BY <1>1, <1>4, <1>a, <2>1 DEF TypeOK, BeginSave, Drain, control, config
<1>5. ASSUME NEW n \in nodes, Finish(n) PROVE Stages'
  BY <1>1, <1>5, <1>a DEF TypeOK, Finish, Drain, control, config
<1>6. ASSUME NEW n \in nodes, Raise(n) PROVE Stages'
  BY <1>1, <1>6, <1>a DEF TypeOK, Raise, control, config
<1>7. ASSUME NEW n \in nodes, CatchAlone(n) PROVE Stages'
  <2>1. at'[n] \in {at[n], at[n] + 1} /\ From(n) <= at[n] /\ From(n) <= at[n] + 1
    <3>1. at[n] \in Nat /\ n \in Node
      BY Numbers
    <3>2. at'[n] \in {at[n], at[n] + 1}
      BY <1>7, <3>1 DEF CatchAlone, TypeOK
    <3>3. From(n) <= at[n] /\ From(n) \in Int
      BY <1>7, Numbers DEF CatchAlone
    <3> QED BY <3>1, <3>2, <3>3
  <2> QED BY <1>1, <1>7, <1>a, <2>1 DEF TypeOK, CatchAlone, control, config
<1>8. ASSUME NEW n \in nodes, SaveLocal(n) PROVE Stages'
  BY <1>1, <1>8, <1>a DEF TypeOK, SaveLocal, control, config
<1>9. ASSUME NEW n \in nodes, Dispatch(n) PROVE Stages'
  BY <1>1, <1>9, <1>a DEF TypeOK, Dispatch, AfterSave, control, config
<1>10. ASSUME NEW n \in nodes, Return(n) PROVE Stages'
  BY <1>1, <1>10, <1>a DEF TypeOK, Return, AfterSave, control, config
<1>11. ASSUME NEW n \in nodes, Mark(n) \/ EndJob(n) \/ JobFails(n) PROVE Stages'
  BY <1>1, <1>11, <1>a DEF TypeOK, Mark, EndJob, JobFails, control, config
<1>12. CASE ListOld \/ PruneDone
  BY <1>1, <1>12, <1>a DEF TypeOK, ListOld, PruneDone, control, config
<1>13. CASE Crash
  BY <1>1, <1>13 DEF TypeOK, Crash, config, NotYet
<1>14. CASE UNCHANGED <<control, mem>>
  BY <1>14, <1>a DEF control, config, mem
<1> QED
  BY <1>2, <1>3, <1>4, <1>5, <1>6, <1>7, <1>8, <1>9, <1>10, <1>11, <1>12, <1>13, <1>14
     DEF Next, NodeStep, JobStep, Send, Prune, Remove, Ended, vars

\* Every variable keeps its type: the places of the loop, the states of an
\* upload, the steps and the epochs are those of save, load_latest,
\* _upload_and_mark and _prune_old.
THEOREM TypeCorrect == Spec => []TypeOK
<1>1. Init => TypeOK /\ Stages
  <2> SUFFICES ASSUME Init PROVE TypeOK /\ Stages
    OBVIOUS
  <2>1. 0 \in 0 .. MaxEpoch /\ 1 \in Epoch /\ 0 \in 0 .. MaxStep /\ Absent = 0
    BY DeepSpeedAssumption DEF Epoch, Absent
  <2>2. nodes \in SUBSET Node /\ Main \in nodes
    BY DeepSpeedAssumption DEF Init, Node, Main
  <2> QED BY <2>1, <2>2 DEF Init, TypeOK, Stages, Loaded, NotYet
<1>2. TypeOK /\ Stages /\ [Next]_vars => TypeOK' /\ Stages'
  BY TypeStep, StagesStep
<1> QED
  BY <1>1, <1>2, PTL DEF Spec

-----------------------------------------------------------------------------
(* What the steps do to the store.                                         *)

\* What is complete is left complete, and only a step being removed loses files.
Kept ==
    /\ Complete' \subseteq Complete /\ Complete \ todo \subseteq Complete'
    /\ \A s \in Complete \ todo : store'[s] = store[s] /\ marker'[s] = marker[s]

\* A node that uploads its part of a step takes nothing from any other part, nor
\* from what it has uploaded in this incarnation.
LEMMA SendAdds ==
    ASSUME TypeOK, Stages, Sent, NEW k \in nodes, NEW f \in File, Send(k, f)
    PROVE  /\ Complete' = Complete
           /\ \A n \in nodes, s \in Step, e \in Epoch :
                Uploaded(n, s, e) /\ (n = k /\ s = at[k] => e = epoch) => Uploaded(n, s, e)'
<1>1. k \in Node /\ at[k] \in Step /\ nodes \subseteq Node
  BY Numbers DEF Send, TypeOK
<1>2. local[k][at[k]] = epoch
  BY DEF Send, Sent, SentOf
<1>3. \A n \in Node, s \in Step, g \in File :
        store'[s][<<g, n>>] =
            IF s = at[k] /\ n = k /\ g = f THEN epoch ELSE store[s][<<g, n>>]
  BY <1>1, <1>2 DEF Send, TypeOK
<1>4. Complete' = Complete
  BY DEF Send, Complete
<1> QED
  BY <1>1, <1>3, <1>4 DEF Uploaded

\* One step loses files: not the one that node 0 saves.
LEMMA RemoveKeeps ==
    ASSUME TypeOK, Stages, Spared, Remove
    PROVE  /\ First \in todo /\ Complete' \in {Complete, Complete \ {First}}
           /\ Kept
           /\ First # at[Main]
           /\ \A s \in Step \ {First} : store'[s] = store[s] /\ marker'[s] = marker[s]
<1>1. First \in todo /\ First \in Step
  BY FirstIsTodo DEF Remove, TypeOK
<1>3. First # at[Main]
  BY <1>1 DEF Spared
<1>4. \A s \in Step \ {First} : store'[s] = store[s] /\ marker'[s] = marker[s]
  BY DEF Remove, TypeOK
<1>5. Complete' \in {Complete, Complete \ {First}}
  <2>1. marker'[First] \in {marker[First], Absent}
    BY <1>1 DEF Remove, TypeOK
  <2> QED BY <1>4, <2>1 DEF Complete
<1> QED
  BY <1>1, <1>3, <1>4, <1>5 DEF Kept, Complete

\* A step that keeps the store keeps the newest checkpoint.
LEMMA KeptNewest ==
    ASSUME TypeOK, Pruning, Kept
    PROVE  /\ MaxOf(Complete') = MaxOf(Complete)
           /\ Complete' = {} <=> Complete = {}
           /\ Complete # {} => MaxOf(Complete) \in Complete \ todo
<1>1. Complete \in SUBSET Step /\ Complete' \in SUBSET Step
  BY DEF Complete
<1>2. CASE Complete = {}
  BY <1>2 DEF Kept
<1>3. CASE Complete # {}
  <2>1. MaxOf(Complete) \in Complete /\ \A t \in Complete : t <= MaxOf(Complete)
    BY <1>1, <1>3, MaxOfSteps
  <2>2. MaxOf(Complete) \in Complete \ todo
    <3>1. \A t \in Complete : t \in Nat
      BY <1>1 DEF Step
    <3> QED BY <2>1, <3>1 DEF Pruning
  <2>3. MaxOf(Complete) \in Complete' /\ \A t \in Complete' : t <= MaxOf(Complete)
    BY <2>1, <2>2 DEF Kept
  <2> QED BY <1>1, <1>3, <2>2, <2>3, MaxOfSteps
<1> QED
  BY <1>2, <1>3

-----------------------------------------------------------------------------
(* The steps preserve the invariant, part by part.                         *)

LEMMA MetStep ==
    ASSUME TypeOK, Stages, Met, [Next]_vars
    PROVE  Met'
<1> USE DeepSpeedAssumption DEF Arrived
<1>1. /\ nodes \subseteq Node /\ Main \in nodes
      /\ \A n \in nodes : at[n] \in Nat /\ (job[n] # "idle" => at[n] > 0)
      /\ \A n \in nodes : ~Loaded(n) => at[n] = 0 /\ job[n] = "idle"
  <2>1. nodes \subseteq Node /\ Main \in nodes
    BY DEF TypeOK, Stages
  <2>2. \A n \in nodes : ~Loaded(n) => at[n] = 0 /\ job[n] = "idle"
    BY DEF Stages
  <2>3. \A n \in nodes : at[n] \in Nat /\ (job[n] # "idle" => at[n] \in Step)
    BY Numbers
  <2> QED BY <2>1, <2>2, <2>3 DEF Step
<1>a. ASSUME UNCHANGED <<nodes, at>>, \A n \in nodes : pc'[n] = "save" => pc[n] = "save",
             \A n \in nodes : job'[n] # "idle" => job[n] # "idle"
      PROVE  Met'
  BY <1>a DEF Met
<1>2. ASSUME NEW k \in nodes, Resume(k) \/ Finish(k) \/ Raise(k) \/ SaveLocal(k) \/ Return(k)
      PROVE  Met'
  <2>1. /\ UNCHANGED <<nodes, at>> /\ (pc'[k] = "save" => pc[k] = "save")
        /\ (job'[k] # "idle" => job[k] # "idle")
        /\ \A n \in nodes \ {k} : pc'[n] = pc[n] /\ job'[n] = job[n]
    BY <1>1, <1>2 DEF TypeOK, Resume, Finish, Drain, Raise, SaveLocal, Return, AfterSave,
                      control, config
  <2> QED BY <1>a, <2>1
<1>3. ASSUME NEW k \in nodes, Load(k) PROVE Met'
  <2>1. /\ UNCHANGED <<nodes, job>> /\ at[k] = 0 /\ job[k] = "idle" /\ pc[k] = "load"
        /\ \A n \in nodes \ {k} : pc'[n] = pc[n] /\ at'[n] = at[n]
    BY <1>1, <1>3 DEF TypeOK, Load, Loaded, control, config
  <2>2. \A n \in nodes : job[n] = "idle"
    BY <1>1, <2>1 DEF Met
  <2> QED BY <2>1, <2>2 DEF Met
<1>4. ASSUME NEW k \in nodes, BeginSave(k) \/ CatchAlone(k) PROVE Met'
  <2>1. /\ UNCHANGED nodes /\ job'[k] = "idle" /\ at'[k] \in {at[k], at[k] + 1}
        /\ pc'[k] = "save" => at'[k] = at[k] + 1
        /\ \A n \in nodes \ {k} : pc'[n] = pc[n] /\ at'[n] = at[n] /\ job'[n] = job[n]
    BY <1>1, <1>4 DEF TypeOK, BeginSave, CatchAlone, Drain, control, config
  <2>2. pc[k] # "save"
    BY <1>4 DEF BeginSave, CatchAlone
  <2>3. ASSUME NEW n \in nodes, job'[n] # "idle", NEW m \in nodes PROVE Arrived(m, at[n])'
    <3>1. n # k /\ Arrived(m, at[n]) /\ at[n] \in Nat /\ at[k] \in Nat
      BY <1>1, <2>1, <2>3 DEF Met
    <3> QED BY <2>1, <2>2, <2>3, <3>1
  <2> QED BY <2>1, <2>3 DEF Met
<1>5. ASSUME NEW k \in nodes, Dispatch(k) PROVE Met'
  <2>1. /\ UNCHANGED <<nodes, at>> /\ pc'[k] # "save"
        /\ \A m \in nodes : Arrived(m, at[k])
        /\ \A n \in nodes \ {k} : pc'[n] = pc[n] /\ job'[n] = job[n]
    BY <1>1, <1>5 DEF TypeOK, Dispatch, AfterSave, control, config
  <2> QED BY <2>1 DEF Met
<1>6. ASSUME NEW k \in nodes, Mark(k) \/ EndJob(k) \/ JobFails(k) PROVE Met'
  <2>1. /\ UNCHANGED <<nodes, pc, at>> /\ job[k] # "idle"
        /\ \A n \in nodes \ {k} : job'[n] = job[n]
    BY <1>1, <1>6 DEF TypeOK, Mark, EndJob, JobFails, control, config
  <2> QED BY <1>a, <2>1
<1>7. CASE ListOld \/ PruneDone
  BY <1>1, <1>7, <1>a DEF TypeOK, ListOld, PruneDone, control, config
<1>8. CASE Crash
  BY <1>1, <1>8 DEF Met, Crash, config
<1>9. CASE UNCHANGED <<control, mem>>
  BY <1>9 DEF Met, control, config, mem
<1> QED
  BY <1>2, <1>3, <1>4, <1>5, <1>6, <1>7, <1>8, <1>9
     DEF Next, NodeStep, JobStep, Send, Prune, Remove, Ended, vars

LEMMA SparedStep ==
    ASSUME TypeOK, Stages, Spared, [Next]_vars
    PROVE  Spared'
<1>1. Main \in nodes /\ nodes \subseteq Node
  BY DEF TypeOK, Stages
<1>2. ASSUME UNCHANGED todo, pc[Main] = "remove" => pc'[Main] = "remove" /\ at'[Main] = at[Main]
      PROVE  Spared'
  BY <1>2 DEF Spared
<1>3. ASSUME NEW k \in nodes, NodeStep(k) PROVE Spared'
  <2>1. UNCHANGED todo
    BY <1>3 DEF NodeStep, Resume, Load, BeginSave, Finish, Raise, CatchAlone, SaveLocal,
                Dispatch, Return
  <2>2. pc[Main] = "remove" => pc'[Main] = "remove" /\ at'[Main] = at[Main]
    BY <1>1, <1>3 DEF NodeStep, Resume, Load, BeginSave, Finish, Raise, CatchAlone, SaveLocal,
                      Dispatch, Return, TypeOK
  <2> QED BY <1>2, <2>1, <2>2
<1>4. ASSUME NEW k \in nodes, JobStep(k) PROVE Spared'
  BY <1>2, <1>4 DEF JobStep, Send, Mark, EndJob, JobFails, mem
<1>5. CASE ListOld
  BY <1>1, <1>5 DEF ListOld, Spared, Protected, TypeOK
<1>6. CASE Remove
  BY <1>6 DEF Remove, Spared, mem
<1>7. CASE PruneDone
  BY <1>7 DEF PruneDone, Spared
<1>8. CASE Crash
  BY <1>8 DEF Crash, Spared
<1>9. CASE UNCHANGED vars
  BY <1>2, <1>9 DEF vars, mem
<1> QED
  BY <1>3, <1>4, <1>5, <1>6, <1>7, <1>8, <1>9 DEF Next, Prune, Ended

LEMMA LockstepStep ==
    ASSUME TypeOK, Stages, NodesAgree, Met, SavesOnce, Lockstep, [Next]_vars
    PROVE  Lockstep'
<1> USE DeepSpeedAssumption DEF Arrived, Base, Loaded, SavesOnce
<1>0. \A n \in nodes : From(n) = target[n]
  BY Numbers
<1>1. /\ nodes \subseteq Node /\ Main \in nodes
      /\ \A n \in nodes : at[n] \in Nat /\ target[n] \in Int
  BY Numbers DEF TypeOK, Stages
<1>2. ASSUME NEW k \in nodes, Resume(k) PROVE Lockstep'
  BY <1>1, <1>2 DEF TypeOK, Stages, Lockstep, Resume, control, config
<1>3. ASSUME NEW k \in nodes, Load(k) PROVE Lockstep'
  BY <1>1, <1>3 DEF TypeOK, Stages, NodesAgree, Lockstep, From, Load, control, config
<1>4. ASSUME NEW k \in nodes, BeginSave(k) PROVE Lockstep'
  <2>1. /\ UNCHANGED <<nodes, target>>
        /\ pc[k] = "train" /\ pc'[k] = "save" /\ at'[k] = at[k] + 1 /\ job'[k] = "idle"
        /\ \A n \in nodes \ {k} : pc'[n] = pc[n] /\ at'[n] = at[n] /\ job'[n] = job[n]
    BY <1>1, <1>4 DEF TypeOK, BeginSave, Drain, control, config
  <2>3. \A n \in nodes : target[n] # NotYet => target[n] <= at[k]
    BY <1>0, <1>1, <2>1 DEF NodesAgree, Stages
  <2>4. ASSUME NEW m \in nodes \ {k}, Loaded(m), at[m] = at[k] PROVE pc[m] # "save"
    <3>1. target[k] = target[m]
      BY <1>1, <2>1, <2>4 DEF NodesAgree, Stages
    <3>2. pc[m] = "save" => job[k] # "idle"
      BY <1>0, <1>1, <2>1, <2>4, <3>1 DEF Stages
    <3> QED BY <1>1, <2>4, <3>2 DEF Met
  <2>6. ASSUME NEW m \in nodes, Base(k, m)' < at'[k]
        PROVE  at'[k] = Base(k, m)' + 1 /\ pc'[m] # "save"
    <3>1. m # k /\ Base(k, m)' = Base(k, m) /\ Base(k, m) \in Int
      BY <1>1, <2>1, <2>6
    <3>2. ~ (Base(k, m) < at[k])
      BY <2>1 DEF Lockstep
    <3>3. Base(k, m) = at[k]
      BY <1>1, <2>1, <2>6, <3>1, <3>2
    <3> QED BY <1>1, <2>1, <2>4, <3>1, <3>3
  <2>7. ASSUME NEW n \in nodes \ {k}, NEW m \in nodes, Loaded(n)', Base(n, m)' < at'[n]
        PROVE  at'[n] = Base(n, m)' + 1 /\ pc'[n] \in {"save", "barrier"} /\ pc'[m] # "save"
    BY <1>1, <2>1, <2>7 DEF Lockstep
  <2> QED BY <2>1, <2>6, <2>7 DEF Lockstep
<1>5. ASSUME NEW k \in nodes, Finish(k) PROVE Lockstep'
  BY <1>1, <1>5 DEF TypeOK, Lockstep, Finish, Drain, control, config
<1>6. ASSUME NEW k \in nodes, Raise(k) PROVE Lockstep'
  BY <1>1, <1>6 DEF TypeOK, Lockstep, Raise, control, config
<1>7. ASSUME NEW k \in nodes, CatchAlone(k) PROVE Lockstep'
  BY <1>1, <1>7 DEF TypeOK, Lockstep, CatchAlone, control, config
<1>8. ASSUME NEW k \in nodes, SaveLocal(k) PROVE Lockstep'
  BY <1>1, <1>8 DEF TypeOK, Lockstep, SaveLocal, control, config
<1>9. ASSUME NEW k \in nodes, Dispatch(k) PROVE Lockstep'
  <2>3. at[k] > 0
    <3>1. at[k] \in Step
      BY <1>9, Numbers DEF Dispatch
    <3> QED BY <3>1 DEF Step
  <2>1. /\ UNCHANGED <<nodes, target, at>>
        /\ pc'[k] \in {"uploading", "prune", "train"} /\ pc[k] = "barrier"
        /\ \A n \in nodes \ {k} : pc'[n] = pc[n] /\ job'[n] = job[n]
    BY <1>1, <1>9 DEF TypeOK, Dispatch, AfterSave, control, config
  <2>2. \A m \in nodes : at[k] <= at[m] /\ Loaded(m) /\ Arrived(m, at[k])
    BY <1>1, <1>9, <2>3 DEF Stages, Dispatch
  <2> QED BY <1>1, <2>1, <2>2 DEF Lockstep
<1>10. ASSUME NEW k \in nodes, Return(k) PROVE Lockstep'
  BY <1>1, <1>10 DEF TypeOK, Lockstep, Return, AfterSave, control, config
<1>11. ASSUME NEW k \in nodes, Mark(k) \/ EndJob(k) \/ JobFails(k) PROVE Lockstep'
  <2>1. /\ UNCHANGED <<nodes, pc, target, at>> /\ job[k] # "idle"
        /\ \A n \in nodes \ {k} : job'[n] = job[n]
    BY <1>1, <1>11 DEF TypeOK, Mark, EndJob, JobFails, control, config
  <2> QED BY <2>1 DEF Lockstep
<1>12. CASE ListOld \/ PruneDone
  BY <1>1, <1>12 DEF TypeOK, Lockstep, ListOld, PruneDone, control, config
<1>13. CASE Crash
  BY <1>1, <1>13 DEF TypeOK, Lockstep, Crash, config, NotYet
<1>14. CASE UNCHANGED <<control, mem>>
  BY <1>14 DEF Lockstep, control, config, mem
<1> QED
  BY <1>2, <1>3, <1>4, <1>5, <1>6, <1>7, <1>8, <1>9, <1>10, <1>11, <1>12, <1>13, <1>14
     DEF Next, NodeStep, JobStep, Send, Prune, Remove, Ended, vars

LEMMA SentStep ==
    ASSUME TypeOK, Stages, Met, Spared, Sent, [Next]_vars
    PROVE  Sent'
<1>1. /\ nodes \subseteq Node /\ Main \in nodes /\ epoch \in Epoch
      /\ \A n \in nodes : job[n] # "idle" \/ pc[n] \in {"save", "barrier"} => at[n] \in Step
  BY Numbers DEF TypeOK, Stages
<1>a. ASSUME NEW n \in nodes, epoch' = epoch, at'[n] = at[n], local'[n] = local[n],
             pc'[n] = "barrier" => pc[n] = "barrier", job'[n] = job[n], cut \subseteq cut',
             job[n] # "idle" => store'[at[n]] = store[at[n]]
      PROVE  SentOf(n)'
  BY <1>a DEF Sent, SentOf, Uploaded
<1>b. ASSUME NEW n \in nodes, job'[n] = "idle", pc'[n] # "barrier"
      PROVE  SentOf(n)'
  BY <1>b DEF SentOf
<1>2. ASSUME NEW k \in nodes, Resume(k) \/ Load(k) PROVE Sent'
  <2>1. /\ UNCHANGED <<nodes, epoch, store, local, job, cut>>
        /\ job[k] = "idle" /\ pc'[k] \in {"load", "train"}
        /\ \A n \in nodes \ {k} : at'[n] = at[n] /\ pc'[n] = pc[n]
    BY <1>1, <1>2 DEF TypeOK, Stages, Loaded, Resume, Load, control, config, s3
  <2> QED BY <1>a, <1>b, <2>1 DEF Sent
<1>3. ASSUME NEW k \in nodes, BeginSave(k) \/ Finish(k) PROVE Sent'
  <2>1. /\ UNCHANGED <<nodes, epoch, store, local, cut>>
        /\ job'[k] = "idle" /\ pc'[k] \in {"save", "done"}
        /\ \A n \in nodes \ {k} : at'[n] = at[n] /\ pc'[n] = pc[n] /\ job'[n] = job[n]
    BY <1>1, <1>3 DEF TypeOK, BeginSave, Finish, Drain, control, config, s3
  <2> QED BY <1>a, <1>b, <2>1 DEF Sent
<1>4. ASSUME NEW k \in nodes, Raise(k) \/ CatchAlone(k) PROVE Sent'
  <2>1. /\ UNCHANGED <<nodes, epoch, store, local, cut>>
        /\ pc'[k] \in {"dead", "train"}
        /\ job'[k] = "idle" \/ (at'[k] = at[k] /\ job'[k] = job[k])
        /\ \A n \in nodes \ {k} : at'[n] = at[n] /\ pc'[n] = pc[n] /\ job'[n] = job[n]
    BY <1>1, <1>4 DEF TypeOK, Raise, CatchAlone, control, config, s3
  <2> QED BY <1>a, <1>b, <2>1 DEF Sent
<1>5. ASSUME NEW k \in nodes, SaveLocal(k) PROVE Sent'
  <2>1. /\ UNCHANGED <<nodes, epoch, store, job, at, cut>>
        /\ \A n \in nodes \ {k} : local'[n] = local[n] /\ pc'[n] = pc[n]
    BY <1>1, <1>5 DEF TypeOK, SaveLocal, control, config, s3
  <2>2. job'[k] = "idle" /\ local'[k][at'[k]] = epoch'
    BY <1>1, <1>5 DEF TypeOK, Stages, SaveLocal, control, config
  <2> QED BY <1>a, <2>1, <2>2 DEF Sent, SentOf
<1>6. ASSUME NEW k \in nodes, Dispatch(k) \/ Return(k) PROVE Sent'
  <2>1. /\ UNCHANGED <<nodes, epoch, store, local, at, cut>>
        /\ (pc[k] = "barrier" /\ job'[k] = "sending") \/ job'[k] = job[k]
        /\ pc'[k] # "barrier"
        /\ \A n \in nodes \ {k} : pc'[n] = pc[n] /\ job'[n] = job[n]
    BY <1>1, <1>6 DEF TypeOK, Dispatch, Return, AfterSave, control, config, s3
  <2> QED BY <1>a, <2>1 DEF Sent, SentOf
<1>7. ASSUME NEW k \in nodes, NEW f \in File, Send(k, f) PROVE Sent'
  <2>1. UNCHANGED <<nodes, epoch, local, pc, job, at, cut>>
    BY <1>7 DEF Send, control, config, mem
  <2>2. ASSUME NEW n \in nodes, job[n] \in {"marked", "ok"} PROVE Uploaded(n, at[n], epoch)'
    <3>1. store'[at[n]] = store[at[n]] \/ (n # k /\ at[n] = at[k])
      BY <1>1, <1>7, <2>2 DEF TypeOK, Send
    <3>2. CASE n # k /\ at[n] = at[k]
      <4>1. \A g \in File : store'[at[k]][<<g, n>>] = store[at[k]][<<g, n>>]
        BY <1>1, <1>7, <2>2, <3>2 DEF TypeOK, Send
      <4> QED BY <2>1, <2>2, <3>2, <4>1 DEF Sent, SentOf, Uploaded
    <3> QED BY <2>1, <2>2, <3>1, <3>2 DEF Sent, SentOf, Uploaded
  <2> QED BY <2>1, <2>2 DEF Sent, SentOf
<1>8. ASSUME NEW k \in nodes, Mark(k) PROVE Sent'
  <2>1. /\ UNCHANGED <<nodes, epoch, store, local, pc, at, cut>> /\ job'[k] = "marked"
        /\ \A n \in nodes \ {k} : job'[n] = job[n]
    BY <1>1, <1>8 DEF TypeOK, Mark, control, config
  <2>2. local[k][at[k]] = epoch /\ Uploaded(k, at[k], epoch)
    BY <1>8 DEF Mark, Sent, SentOf, SentOwn
  <2> QED BY <1>a, <2>1, <2>2 DEF Sent, SentOf, Uploaded
<1>9. ASSUME NEW k \in nodes, EndJob(k) PROVE Sent'
  <2>1. /\ UNCHANGED <<nodes, epoch, store, pc, at, cut>> /\ job'[k] = "ok"
        /\ \A n \in nodes \ {k} : local'[n] = local[n] /\ job'[n] = job[n]
    BY <1>1, <1>9 DEF TypeOK, EndJob, control, config, s3
  <2>2. Uploaded(k, at[k], epoch) /\ pc[k] # "barrier"
    BY <1>9 DEF EndJob, Stages, Sent, SentOf
  <2> QED BY <1>a, <2>1, <2>2 DEF Sent, SentOf, Uploaded
<1>10. ASSUME NEW k \in nodes, JobFails(k) PROVE Sent'
  <2>1. /\ UNCHANGED <<nodes, epoch, store, local, pc, at>> /\ job'[k] = "failed"
        /\ pc[k] # "barrier" /\ cut' = cut \cup {at[k]}
        /\ \A n \in nodes \ {k} : job'[n] = job[n]
    BY <1>1, <1>10 DEF TypeOK, Stages, JobFails, control, config, s3
  <2> QED BY <1>a, <2>1 DEF Sent, SentOf
<1>11. CASE ListOld \/ PruneDone
  <2>1. /\ UNCHANGED <<nodes, epoch, store, local, job, at, cut>>
        /\ \A n \in nodes : pc'[n] = "barrier" => pc[n] = "barrier"
    BY <1>1, <1>11 DEF TypeOK, ListOld, PruneDone, control, config, s3
  <2> QED BY <1>a, <2>1 DEF Sent
<1>12. CASE Remove
  <2>1. UNCHANGED <<nodes, epoch, local, pc, job, at, cut>>
    BY <1>12 DEF Remove, control, config, mem
  <2>2. ASSUME NEW n \in nodes, job[n] # "idle" PROVE store'[at[n]] = store[at[n]]
    <3>1. at[n] = at[Main] /\ at[n] \in Step
      <4>1. Arrived(n, at[Main]) /\ Arrived(Main, at[n])
        BY <1>1, <1>12, <2>2 DEF Remove, Stages, Met
      <4> QED BY <1>1, <2>2, <4>1, Numbers DEF Arrived
    <3> QED BY <1>12, <3>1, RemoveKeeps
  <2> QED BY <1>a, <2>1, <2>2 DEF Sent
<1>13. CASE Crash
  BY <1>1, <1>13, <1>b DEF Sent, Crash, config
<1>14. CASE UNCHANGED vars
  BY <1>14, <1>a DEF Sent, vars, control, config, s3, mem
<1> QED
  BY <1>2, <1>3, <1>4, <1>5, <1>6, <1>7, <1>8, <1>9, <1>10, <1>11, <1>12, <1>13, <1>14
     DEF Next, NodeStep, JobStep, Prune, Ended

LEMMA AheadStep ==
    ASSUME TypeOK, Stages, SavesOnce, SavesOnce', Ahead, [Next]_vars
    PROVE  Ahead'
<1> USE DEF Loaded
<1>1. /\ nodes \subseteq Node /\ Main \in nodes
      /\ \A n \in nodes : at[n] \in Nat /\ target[n] \in Int
      /\ \A s \in Complete : s \in Nat
  <2>1. \A s \in Complete : s \in Nat
    BY DeepSpeedAssumption DEF Complete, Step
  <2> QED BY <2>1, Numbers DEF TypeOK, Stages
<1>a. UNCHANGED s3 => Complete' = Complete
  BY DEF s3, Complete
<1>2. ASSUME NEW k \in nodes, Resume(k) PROVE Ahead'
  <2>1. /\ UNCHANGED <<nodes, epoch, marker, job, at>> /\ Complete' = Complete
        /\ target'[k] = MaxOf(Complete) /\ pc'[k] = "load" /\ pc[k] = "resume" /\ job[k] = "idle"
        /\ \A n \in nodes \ {k} : target'[n] = target[n] /\ pc'[n] = pc[n]
    BY <1>1, <1>2, <1>a DEF SavesOnce, TypeOK, Stages, Resume, control, config, s3
  <2>2. \A s \in Complete : s <= MaxOf(Complete)
    BY MaxOfSteps DEF Complete
  <2> QED BY <1>1, <2>1, <2>2 DEF Ahead
<1>3. ASSUME NEW k \in nodes, Load(k) PROVE Ahead'
  <2>1. /\ UNCHANGED <<nodes, epoch, marker, target, job>> /\ Complete' = Complete
        /\ at'[k] = target[k] /\ pc'[k] = "train" /\ pc[k] = "load" /\ job[k] = "idle"
        /\ \A n \in nodes \ {k} : at'[n] = at[n] /\ pc'[n] = pc[n]
    BY <1>1, <1>3, <1>a DEF SavesOnce, TypeOK, Stages, Load, control, config, s3
  <2> QED BY <1>1, <2>1 DEF Ahead
<1>4. ASSUME NEW k \in nodes, BeginSave(k) PROVE Ahead'
  <2>1. /\ UNCHANGED <<nodes, epoch, marker, target>> /\ Complete' = Complete
        /\ at'[k] = at[k] + 1 /\ pc'[k] = "save" /\ pc[k] = "train" /\ job'[k] = "idle"
        /\ \A n \in nodes \ {k} : at'[n] = at[n] /\ pc'[n] = pc[n] /\ job'[n] = job[n]
    BY <1>1, <1>4, <1>a DEF TypeOK, BeginSave, Drain, control, config, s3
  <2> QED BY <1>1, <2>1 DEF Ahead
<1>5. ASSUME NEW k \in nodes, CatchAlone(k) PROVE Ahead'
  <2>1. /\ UNCHANGED <<nodes, epoch, marker, target>> /\ Complete' = Complete
        /\ at'[k] \in {at[k], at[k] + 1} /\ pc'[k] = "train" /\ job'[k] = "idle"
        /\ pc[k] \in {"uploading", "train"}
        /\ \A n \in nodes \ {k} : at'[n] = at[n] /\ pc'[n] = pc[n] /\ job'[n] = job[n]
    BY <1>1, <1>5, <1>a DEF TypeOK, CatchAlone, control, config, s3
  <2> QED BY <1>1, <2>1 DEF Ahead
<1>6. ASSUME NEW k \in nodes, Dispatch(k) PROVE Ahead'
  <2>1. /\ UNCHANGED <<nodes, epoch, marker, target, at>> /\ Complete' = Complete
        /\ pc'[k] \in {"uploading", "train", "prune"} /\ pc[k] = "barrier"
        /\ \A n \in nodes \ {k} : pc'[n] = pc[n] /\ job'[n] = job[n]
    BY <1>1, <1>6, <1>a DEF TypeOK, Dispatch, AfterSave, control, config, s3
  <2> QED BY <1>1, <2>1 DEF Ahead
<1>7. ASSUME NEW k \in nodes, Finish(k) PROVE Ahead'
  <2>1. /\ UNCHANGED <<nodes, epoch, marker, target, at>> /\ Complete' = Complete
        /\ pc'[k] = "done" /\ pc[k] = "train" /\ job'[k] = "idle"
        /\ \A n \in nodes \ {k} : pc'[n] = pc[n] /\ job'[n] = job[n]
    BY <1>1, <1>7, <1>a DEF TypeOK, Finish, Drain, control, config, s3
  <2> QED BY <1>1, <2>1 DEF Ahead
<1>8. ASSUME NEW k \in nodes, Raise(k) \/ Return(k) PROVE Ahead'
  <2>1. /\ UNCHANGED <<nodes, epoch, marker, target, job, at>> /\ Complete' = Complete
        /\ pc'[k] \in {"dead", "prune", "train"} /\ pc[k] \in {"uploading", "train"}
        /\ \A n \in nodes \ {k} : pc'[n] = pc[n]
    BY <1>1, <1>8, <1>a DEF TypeOK, Raise, Return, AfterSave, control, config, s3
  <2> QED BY <1>1, <2>1 DEF Ahead
<1>9. ASSUME NEW k \in nodes, SaveLocal(k) PROVE Ahead'
  <2>1. /\ UNCHANGED <<nodes, epoch, marker, target, job, at>> /\ Complete' = Complete
        /\ pc'[k] = "barrier" /\ pc[k] = "save"
        /\ \A n \in nodes \ {k} : pc'[n] = pc[n]
    BY <1>1, <1>9, <1>a DEF TypeOK, SaveLocal, control, config, s3
  <2> QED BY <1>1, <2>1 DEF Ahead
<1>10. ASSUME NEW k \in nodes, NEW f \in File, Send(k, f) PROVE Ahead'
  BY <1>10 DEF Ahead, Send, Complete, control, config, mem
<1>11. ASSUME NEW k \in nodes, Mark(k) PROVE Ahead'
  <2>1. /\ UNCHANGED <<nodes, epoch, pc, target, at>>
        /\ job'[k] = "marked" /\ \A n \in nodes \ {k} : job'[n] = job[n]
    BY <1>1, <1>11 DEF TypeOK, Mark, control, config
  <2>2. CASE k # Main
    BY <1>11, <2>1, <2>2 DEF Ahead, Mark, Complete
  <2>3. CASE k = Main
    <3>1. at[Main] \in Step /\ pc[Main] \notin {"resume", "load", "save", "barrier"}
      BY <1>1, <1>11, <2>3, Numbers DEF Mark, Stages
    <3>2. /\ \A s \in Complete' : s = at[Main] \/ (s \in Complete /\ marker'[s] = marker[s])
          /\ marker'[at[Main]] = epoch
      BY <1>11, <2>3, <3>1 DEF TypeOK, Mark, Complete
    <3> QED BY <1>1, <2>1, <2>3, <3>1, <3>2 DEF Ahead
  <2> QED BY <2>2, <2>3
<1>12. ASSUME NEW k \in nodes, EndJob(k) \/ JobFails(k) PROVE Ahead'
  <2>1. /\ UNCHANGED <<nodes, epoch, marker, pc, target, at>> /\ Complete' = Complete
        /\ \/ job'[k] = "ok"
           \/ job'[k] = "failed" /\ job[k] = "sending"
        /\ \A n \in nodes \ {k} : job'[n] = job[n]
    BY <1>1, <1>12, <1>a DEF TypeOK, EndJob, JobFails, control, config, s3
  <2> QED BY <1>1, <2>1 DEF Ahead
<1>13. CASE ListOld \/ PruneDone
  <2>1. /\ UNCHANGED <<nodes, epoch, marker, target, job, at>> /\ Complete' = Complete
        /\ pc'[Main] \in {"remove", "train"} /\ pc[Main] \in {"prune", "remove"}
    BY <1>1, <1>13, <1>a DEF TypeOK, ListOld, PruneDone, control, config, s3
  <2> QED BY <1>1, <2>1 DEF Ahead
<1>14. CASE Remove
  <2>1. /\ UNCHANGED <<nodes, epoch, pc, target, job, at>> /\ Complete' \subseteq Complete
        /\ \A s \in Complete' : marker'[s] = marker[s]
    <3>1. UNCHANGED <<nodes, epoch, pc, target, job, at>>
      BY <1>14 DEF Remove, control, config, mem
    <3>2. \A s \in Complete' : s \in Complete /\ marker'[s] = marker[s]
      <4>1. First \in Step
        BY <1>14, FirstIsTodo DEF Remove, TypeOK
      <4>2. \A s \in Step : marker'[s] \in {marker[s], Absent}
        BY <1>14, <4>1 DEF Remove, TypeOK
      <4> QED BY <4>2 DEF Complete
    <3> QED BY <3>1, <3>2
  <2> QED BY <1>1, <2>1 DEF Ahead
<1>15. CASE Crash
  <2>1. /\ UNCHANGED nodes /\ \A n \in nodes : target'[n] = NotYet
        /\ pc'[Main] = "resume" /\ job'[Main] = "idle"
    BY <1>1, <1>15 DEF Crash, config
  <2> QED BY <1>1, <2>1 DEF Ahead
<1>16. CASE UNCHANGED vars
  BY <1>16, <1>a DEF Ahead, vars, control, config, s3, mem
<1> QED
  BY <1>2, <1>3, <1>4, <1>5, <1>6, <1>7, <1>8, <1>9, <1>10, <1>11, <1>12, <1>13, <1>14,
     <1>15, <1>16 DEF Next, NodeStep, JobStep, Prune, Ended

LEMMA AgreedStep ==
    ASSUME TypeOK, Stages, Met, NodesAgree, Agreed, [Next]_vars
    PROVE  NodesAgree' /\ Agreed'
<1>1. /\ nodes \subseteq Node /\ Main \in nodes
      /\ \A n \in Node \ nodes : target[n] = NotYet
      /\ missed \in BOOLEAN
  BY DEF TypeOK, Stages
<1>2. MaxOf(Complete) # NotYet
  BY MaxOfSteps, DeepSpeedAssumption DEF Complete, Step, NotYet
<1>3. ASSUME UNCHANGED <<nodes, target, missed>>, MaxOf(Complete') = MaxOf(Complete)
      PROVE  NodesAgree' /\ Agreed'
  BY <1>3 DEF NodesAgree, Agreed
<1>4. UNCHANGED marker => MaxOf(Complete') = MaxOf(Complete)
  BY DEF Complete
<1>5. ASSUME NEW k \in nodes, Resume(k), ~missed' PROVE NodesAgree' /\ Agreed'
  <2>1. /\ UNCHANGED <<nodes, marker>> /\ ~missed
        /\ target'[k] = MaxOf(Complete) /\ target[k] = NotYet
        /\ \A n \in Node \ {k} : target'[n] = target[n]
    BY <1>1, <1>5 DEF TypeOK, Stages, Resume, config, s3
  <2>2. \A n \in Node : target'[n] # NotYet => target'[n] = MaxOf(Complete)
    BY <1>1, <2>1 DEF Agreed
  <2> QED BY <1>1, <1>4, <2>1, <2>2 DEF NodesAgree, Agreed
<1>6. ASSUME NEW k \in nodes, at[k] > 0, \A n \in nodes : Arrived(n, at[k]),
             UNCHANGED <<nodes, target, missed>>
      PROVE  NodesAgree' /\ Agreed'
  <2>1. \A n \in nodes : at[n] # 0
    BY <1>6, Numbers DEF Arrived
  <2>2. \A n \in nodes : target[n] # NotYet
    BY <2>1 DEF Stages, Loaded
  <2> QED BY <1>6, <2>2 DEF NodesAgree, Agreed
<1>7. ASSUME NEW k \in nodes, Mark(k) PROVE NodesAgree' /\ Agreed'
  <2>1. at[k] > 0 /\ \A n \in nodes : Arrived(n, at[k])
    BY <1>7, Numbers DEF Mark, Met, Step
  <2> QED BY <1>6, <1>7, <2>1 DEF Mark, control, config
<1>8. CASE Remove
  <2>1. at[Main] > 0 /\ \A n \in nodes : Arrived(n, at[Main])
    BY <1>1, <1>8, Numbers DEF Remove, Stages, Met, Step
  <2> QED BY <1>1, <1>6, <1>8, <2>1 DEF Remove, control, config, mem
<1>9. CASE Crash
  BY <1>1, <1>9 DEF Crash, NodesAgree, Agreed, config
<1>10. CASE UNCHANGED <<nodes, target, marker, missed>>
  BY <1>3, <1>4, <1>10
<1>11. CASE missed'
  BY <1>11 DEF NodesAgree, Agreed
<1> QED
  BY <1>5, <1>7, <1>8, <1>9, <1>10, <1>11
     DEF Next, NodeStep, JobStep, Prune, Ended, Load, BeginSave, Finish, Raise, CatchAlone,
         SaveLocal, Dispatch, Return, Send, EndJob, JobFails, ListOld, PruneDone,
         vars, control, config, s3, mem

LEMMA PruningStep ==
    ASSUME TypeOK, Stages, Spared, Ahead, Pruning, [Next]_vars
    PROVE  Pruning'
<1>1. Main \in nodes /\ nodes \subseteq Node
  BY DEF TypeOK, Stages
<1>2. ASSUME Complete \subseteq Complete', UNCHANGED todo,
             pc[Main] = "remove" => pc'[Main] = "remove" /\ at'[Main] = at[Main]
      PROVE  Pruning'
  BY <1>2 DEF Pruning, Spared
<1>3. UNCHANGED marker => Complete' = Complete
  BY DEF Complete
<1>4. ASSUME NEW k \in nodes, NodeStep(k) PROVE Pruning'
  <2>1. UNCHANGED <<marker, todo>>
    BY <1>4 DEF NodeStep, Resume, Load, BeginSave, Finish, Raise, CatchAlone, SaveLocal,
                Dispatch, Return, s3
  <2>2. pc[Main] = "remove" => pc'[Main] = "remove" /\ at'[Main] = at[Main]
    BY <1>1, <1>4 DEF NodeStep, Resume, Load, BeginSave, Finish, Raise, CatchAlone, SaveLocal,
                      Dispatch, Return, TypeOK
  <2> QED BY <1>2, <1>3, <2>1, <2>2
<1>5. ASSUME NEW k \in nodes, JobStep(k) PROVE Pruning'
  <2>1. UNCHANGED <<pc, at, todo>>
    BY <1>5 DEF JobStep, Send, Mark, EndJob, JobFails, mem
  <2>2. Complete \subseteq Complete'
    <3>1. CASE Mark(k)
      <4>1. \A s \in Step : marker'[s] \in {marker[s], epoch} /\ epoch # Absent
        BY <3>1 DEF Mark, TypeOK, Epoch, Absent
      <4> QED BY <4>1 DEF Complete
    <3> QED BY <1>3, <1>5, <3>1 DEF JobStep, Send, EndJob, JobFails, s3
  <2> QED BY <1>2, <2>1, <2>2
<1>6. CASE ListOld
  <2>1. PICK found \in SUBSET Complete : todo' = found \ Protected(found)
    BY <1>6 DEF ListOld
  <2>2. /\ Complete' = Complete /\ at'[Main] = at[Main] /\ pc'[Main] = "remove"
        /\ pc[Main] = "prune"
    BY <1>1, <1>3, <1>6 DEF ListOld, TypeOK, s3
  <2>3. found \in SUBSET (1 .. MaxStep) /\ MaxStep \in Nat /\ KeepLast \in Nat \ {0}
    BY DeepSpeedAssumption DEF Complete, Step
  <2>4. ASSUME NEW s \in todo'
        PROVE  s < at[Main] /\ \E t \in Complete \ todo' : s < t
    <3>1. s \in found /\ s \in Complete /\ s # at[Main] /\ s \notin LastOf(found)
      BY <2>1, <2>4 DEF Protected
    <3>2. s <= at[Main] /\ s \in Nat /\ at[Main] \in Nat
      BY <1>1, <2>2, <2>3, <3>1, Numbers DEF Ahead, Loaded
    <3>3. PICK t \in found : \A u \in found : u <= t
      BY <2>3, <3>1, GreatestStep
    <3>4. t \in LastOf(found)
      BY <2>3, <3>3, LatestFew DEF LastOf
    <3>5. t \in Complete /\ t \notin todo'
      BY <2>1, <3>3, <3>4 DEF Protected
    <3>6. s < t
      BY <2>3, <3>1, <3>3, <3>4
    <3> QED BY <3>1, <3>2, <3>5, <3>6
  <2> QED BY <2>2, <2>4 DEF Pruning
<1>7. CASE Remove
  <2>1. First \in todo /\ Complete \ todo \subseteq Complete'
    BY <1>7, RemoveKeeps DEF Kept
  <2>2. UNCHANGED <<pc, at>> /\ pc[Main] = "remove" /\ todo' = todo \ {First}
    BY <1>7 DEF Remove, mem
  <2> QED BY <2>1, <2>2 DEF Pruning
<1>8. CASE PruneDone
  BY <1>8 DEF PruneDone, Pruning, Spared
<1>9. CASE Crash
  BY <1>9 DEF Crash, Pruning
<1>10. CASE UNCHANGED vars
  BY <1>2, <1>3, <1>10 DEF vars, s3, mem
<1> QED
  BY <1>4, <1>5, <1>6, <1>7, <1>8, <1>9, <1>10 DEF Next, Prune, Ended

LEMMA PastStep ==
    ASSUME TypeOK, Stages, Met, Spared, Lockstep, NodesAgree, Sent, SavesOnce, Past,
           [Next]_vars
    PROVE  Past'
<1>0. ~resave /\ ~missed /\ \A n \in nodes : From(n) = target[n]
  BY Numbers DEF SavesOnce
<1>1. /\ nodes \subseteq Node /\ Main \in nodes
      /\ \A n \in nodes : at[n] \in Nat /\ target[n] \in Int /\ (~Loaded(n) => at[n] = 0)
  BY Numbers DEF TypeOK, Stages
<1>a. ASSUME UNCHANGED <<nodes, epoch>>, cut \subseteq cut', NEW n \in nodes \ {Main},
             at'[Main] = at[Main], target'[Main] = target[Main], Loaded(Main)' => Loaded(Main),
             store'[at[Main]] = store[at[Main]],
             at'[n] = at[n], pc'[n] = "done" => pc[n] = "done"
      PROVE  PastOf(n)'
  BY <1>a DEF Past, PastOf, Uploaded
<1>b. ASSUME NEW n \in nodes \ {Main}, pc[n] = "train", inflight[n] => job[n] = "ok",
             Loaded(Main), target[Main] < at[Main], at[n] = at[Main]
      PROVE  Uploaded(n, at[Main], epoch)
  <2>1. target[n] = target[Main]
    BY <1>0, <1>1, <1>b DEF NodesAgree, Stages, Loaded
  <2>2. job[n] = "ok"
    BY <1>0, <1>1, <1>b, <2>1 DEF Stages, TypeOK
  <2> QED BY <1>b, <2>2 DEF Sent, SentOf
<1>2. ASSUME NEW k \in nodes, Resume(k) PROVE Past'
  <2>1. /\ UNCHANGED <<nodes, epoch, store, at, cut>>
        /\ pc'[k] = "load" /\ \A n \in nodes \ {k} : pc'[n] = pc[n] /\ target'[n] = target[n]
    BY <1>1, <1>2 DEF TypeOK, Resume, control, config, s3
  <2>2. CASE k = Main
    BY <2>1, <2>2 DEF Past, PastOf, Loaded
  <2>3. CASE k # Main
    BY <1>1, <1>a, <2>1, <2>3 DEF Past, Loaded
  <2> QED BY <2>2, <2>3
<1>3. ASSUME NEW k \in nodes, Load(k) PROVE Past'
  <2>1. /\ UNCHANGED <<nodes, epoch, store, target, cut>>
        /\ pc'[k] = "train" /\ at'[k] = target[k] /\ pc[k] = "load"
        /\ \A n \in nodes \ {k} : pc'[n] = pc[n] /\ at'[n] = at[n]
    BY <1>0, <1>1, <1>3 DEF TypeOK, Load, control, config, s3
  <2>2. CASE k = Main
    BY <1>1, <2>1, <2>2 DEF Past, PastOf
  <2>3. CASE k # Main
    <3>1. PastOf(k)'
      <4>1. Loaded(Main) => target[k] = target[Main]
        BY <1>0, <1>1, <2>1 DEF NodesAgree, Stages, Loaded
      <4> QED BY <1>1, <2>1, <2>3, <4>1 DEF PastOf, Loaded
    <3> QED BY <1>1, <1>a, <2>1, <2>3, <3>1 DEF Past, Loaded
  <2> QED BY <2>2, <2>3
<1>4. ASSUME NEW k \in nodes, BeginSave(k) PROVE Past'
  <2>1. /\ UNCHANGED <<nodes, epoch, store, target, cut>>
        /\ pc[k] = "train" /\ pc'[k] = "save" /\ at'[k] = at[k] + 1
        /\ inflight[k] => job[k] = "ok"
        /\ \A n \in nodes \ {k} : pc'[n] = pc[n] /\ at'[n] = at[n]
    BY <1>1, <1>4 DEF TypeOK, BeginSave, Drain, control, config, s3
  <2>2. CASE k = Main
    <3>1. ASSUME NEW n \in nodes \ {Main}, at[Main] < at[n]
          PROVE  at[n] = at[Main] + 1 /\ pc[n] # "done"
      BY <1>1, <2>1, <2>2, <3>1 DEF Lockstep, Base, Loaded
    <3> QED BY <1>1, <2>1, <2>2, <3>1 DEF Past, PastOf
  <2>3. CASE k # Main
    <3>1. PastOf(k)'
      <4>1. CASE at[k] = at[Main]
        BY <1>1, <1>b, <2>1, <2>3, <4>1 DEF PastOf, Loaded, Uploaded
      <4>2. CASE at[k] # at[Main]
        <5>1. at[Main] < at[k] + 1 => at[Main] < at[k]
          BY <1>1, <4>2
        <5>2. /\ pc'[k] # "done" /\ at'[k] = at[k] + 1
              /\ at'[Main] = at[Main] /\ pc'[Main] = pc[Main]
          BY <1>1, <2>1, <2>3
        <5>3. Uploaded(k, at[Main], epoch) => Uploaded(k, at[Main], epoch)'
          BY <2>1, <5>2 DEF Uploaded
        <5> QED BY <2>1, <2>3, <5>1, <5>2, <5>3 DEF Past, PastOf, Loaded
      <4> QED BY <4>1, <4>2
    <3>2. at'[Main] = at[Main] /\ (Loaded(Main)' => Loaded(Main))
      BY <1>1, <2>1, <2>3 DEF Loaded
    <3>3. ASSUME NEW n \in nodes \ {Main}, n # k PROVE PastOf(n)'
      BY <1>a, <2>1, <3>2, <3>3
    <3> QED BY <2>1, <3>1, <3>3 DEF Past
  <2> QED BY <2>2, <2>3
<1>5. ASSUME NEW k \in nodes, Finish(k) PROVE Past'
  <2>1. /\ UNCHANGED <<nodes, epoch, store, target, at, cut>>
        /\ pc[k] = "train" /\ pc'[k] = "done"
        /\ inflight[k] => job[k] = "ok"
        /\ \A n \in nodes \ {k} : pc'[n] = pc[n]
    BY <1>1, <1>5 DEF TypeOK, Finish, Drain, control, config, s3
  <2>2. Loaded(Main)' => Loaded(Main)
    <3>1. pc[Main] = pc'[Main] \/ pc[Main] = "train"
      BY <1>1, <2>1
    <3> QED BY <3>1 DEF Loaded
  <2>3. ASSUME k # Main PROVE PastOf(k)'
    <3>1. at[k] = at[Main] /\ Loaded(Main) /\ target[Main] < at[Main] =>
            Uploaded(k, at[Main], epoch)
      BY <1>b, <2>1, <2>3
    <3>2. Uploaded(k, at[Main], epoch) => Uploaded(k, at[Main], epoch)'
      BY <2>1 DEF Uploaded
    <3> QED BY <1>1, <2>1, <2>2, <2>3, <3>1, <3>2 DEF Past, PastOf
  <2>4. ASSUME NEW n \in nodes \ {Main}, n # k PROVE PastOf(n)'
    BY <1>a, <2>1, <2>2, <2>4
  <2> QED BY <2>1, <2>3, <2>4 DEF Past
<1>6. ASSUME NEW k \in nodes, CatchAlone(k) PROVE Past'
  BY <1>1, <1>6 DEF CatchAlone, Past, control, config
<1>7. ASSUME NEW k \in nodes, Raise(k) \/ SaveLocal(k) \/ Dispatch(k) \/ Return(k) PROVE Past'
  <2>1. /\ UNCHANGED <<nodes, epoch, store, target, at, cut>>
        /\ pc'[k] # "done" /\ Loaded(k) /\ \A n \in nodes \ {k} : pc'[n] = pc[n]
    BY <1>1, <1>7 DEF TypeOK, Raise, SaveLocal, Dispatch, Return, AfterSave, Loaded, control, config, s3
  <2> QED BY <1>1, <1>a, <2>1 DEF Past, Loaded
<1>8. ASSUME NEW k \in nodes, NEW f \in File, Send(k, f) PROVE Past'
  <2>1. UNCHANGED <<nodes, epoch, pc, target, at, cut>>
    BY <1>8 DEF Send, control, config, mem
  <2>2. ASSUME NEW n \in nodes \ {Main}, PastOf(n) PROVE PastOf(n)'
    <3>1. ASSUME Loaded(Main), target[Main] < at[Main], Uploaded(n, at[Main], epoch)
          PROVE  Uploaded(n, at[Main], epoch)'
      <4>1. at[Main] \in Step /\ epoch \in Epoch
        <5>1. target[Main] \in 0 .. MaxStep /\ at[Main] \in 0 .. MaxStep
          BY <1>0, <1>1, <3>1, Numbers
        <5> QED BY <3>1, <5>1, DeepSpeedAssumption DEF Step, TypeOK
      <4>2. PICK s \in Step, e \in Epoch : s = at[Main] /\ e = epoch
        BY <4>1
      <4>3. Uploaded(n, s, e) => Uploaded(n, s, e)'
        BY <1>8, <4>2, SendAdds
      <4>4. \A g \in File : store'[s][g, n] = e
        BY <3>1, <4>2, <4>3 DEF Uploaded
      <4> QED BY <2>1, <4>2, <4>4 DEF Uploaded
    <3> QED BY <2>1, <2>2, <3>1 DEF PastOf, Loaded
  <2> QED BY <2>1, <2>2 DEF Past
<1>9. ASSUME NEW k \in nodes, Mark(k) \/ EndJob(k) \/ JobFails(k) PROVE Past'
  <2>1. UNCHANGED <<nodes, epoch, store, pc, target, at>> /\ cut \subseteq cut'
    BY <1>9 DEF Mark, EndJob, JobFails, control, config, s3
  <2> QED BY <1>1, <1>a, <2>1 DEF Past, Loaded
<1>10. CASE ListOld \/ PruneDone
  <2>1. /\ UNCHANGED <<nodes, epoch, store, target, at, cut>> /\ Loaded(Main)
        /\ \A n \in nodes \ {Main} : pc'[n] = pc[n]
    BY <1>1, <1>10 DEF TypeOK, ListOld, PruneDone, Loaded, control, config, s3
  <2> QED BY <1>1, <1>a, <2>1 DEF Past
<1>11. CASE Remove
  <2>1. UNCHANGED <<nodes, epoch, pc, target, at, cut>>
    BY <1>11 DEF Remove, control, config, mem
  <2>2. store'[at[Main]] = store[at[Main]]
    <3>1. at[Main] # First /\ at[Main] \in Step
      BY <1>1, <1>11, RemoveKeeps, Numbers DEF Remove, Stages
    <3> QED BY <1>11, <3>1, RemoveKeeps
  <2> QED BY <1>1, <1>a, <2>1, <2>2 DEF Past, Loaded
<1>12. CASE Crash
  BY <1>1, <1>12 DEF Crash, Past, PastOf, Loaded, config
<1>13. CASE UNCHANGED vars
  BY <1>1, <1>13, <1>a DEF Past, Loaded, vars, control, config, s3, mem
<1> QED
  BY <1>2, <1>3, <1>4, <1>5, <1>6, <1>7, <1>8, <1>9, <1>10, <1>11, <1>12, <1>13
     DEF Next, NodeStep, JobStep, Prune, Ended

LEMMA NewestStep ==
    ASSUME TypeOK, Stages, NodesAgree, Met, Spared, Sent, SavesOnce, Past, Ahead, Pruning,
           Newest, [Next]_vars
    PROVE  Newest'
<1>0. ~resave /\ ~missed /\ \A n \in nodes : From(n) = target[n]
  BY Numbers DEF SavesOnce
<1>1. /\ nodes \subseteq Node /\ Main \in nodes
      /\ Complete \in SUBSET Step /\ Complete' \in SUBSET Step
      /\ (Complete # {} => MaxOf(Complete) \in Complete)
  BY MaxOfSteps DEF TypeOK, Stages, Complete
<1>a. ASSUME UNCHANGED <<nodes, s3>>, cut \subseteq cut',
             \A n \in nodes, s \in Step :
                OnItsWay(n, s) => OnItsWay(n, s)' \/ Uploaded(n, s, marker[s]) \/ s \in cut'
      PROVE  Newest'
  <2>1. Complete' = Complete /\ \A n, s, e : Uploaded(n, s, e)' <=> Uploaded(n, s, e)
    BY <1>a DEF Complete, Uploaded, s3
  <2>2. \A s : marker'[s] = marker[s]
    BY <1>a DEF s3
  <2> QED BY <1>1, <1>a, <2>1, <2>2 DEF Newest
<1>b. ASSUME NEW k \in nodes, UNCHANGED <<nodes, epoch, s3, cut>>,
             pc[k] # "barrier" /\ job[k] # "sending",
             \A n \in nodes \ {k} : at'[n] = at[n] /\ pc'[n] = pc[n] /\ job'[n] = job[n]
      PROVE  Newest'
  BY <1>a, <1>b DEF OnItsWay, s3
<1>2. ASSUME NEW k \in nodes, Resume(k) \/ Load(k) PROVE Newest'
  BY <1>1, <1>2, <1>b DEF TypeOK, Stages, Loaded, Resume, Load, control, config
<1>3. ASSUME NEW k \in nodes, BeginSave(k) \/ Finish(k) PROVE Newest'
  <2>1. /\ UNCHANGED <<nodes, epoch, s3, cut>>
        /\ \A n \in nodes \ {k} : at'[n] = at[n] /\ pc'[n] = pc[n] /\ job'[n] = job[n]
    BY <1>1, <1>3 DEF TypeOK, BeginSave, Finish, Drain, control, config
  <2>2. pc[k] # "barrier" /\ job[k] # "sending"
    BY <1>1, <1>3 DEF TypeOK, Stages, BeginSave, Finish, Drain
  <2> QED BY <1>b, <2>1, <2>2
<1>4. ASSUME NEW k \in nodes, Raise(k) \/ CatchAlone(k) PROVE Newest'
  <2>1. /\ UNCHANGED <<nodes, epoch, s3, cut>>
        /\ \A n \in nodes \ {k} : at'[n] = at[n] /\ pc'[n] = pc[n] /\ job'[n] = job[n]
    BY <1>1, <1>4 DEF TypeOK, Raise, CatchAlone, control, config
  <2>2. pc[k] # "barrier" /\ job[k] # "sending"
    BY <1>1, <1>4 DEF TypeOK, Stages, Raise, CatchAlone
  <2> QED BY <1>b, <2>1, <2>2
<1>5. ASSUME NEW k \in nodes, SaveLocal(k) \/ Return(k) PROVE Newest'
  BY <1>1, <1>5, <1>b DEF TypeOK, Stages, SaveLocal, Return, AfterSave, control, config
<1>6. ASSUME NEW k \in nodes, Dispatch(k) PROVE Newest'
  <2>1. /\ UNCHANGED <<nodes, epoch, s3, at, cut>> /\ job'[k] = "sending"
        /\ \A n \in nodes \ {k} : pc'[n] = pc[n] /\ job'[n] = job[n]
    BY <1>1, <1>6 DEF TypeOK, Dispatch, AfterSave, control, config
  <2> QED BY <1>a, <2>1 DEF OnItsWay, s3
<1>7. ASSUME NEW k \in nodes, NEW f \in File, Send(k, f) PROVE Newest'
  <2>1. UNCHANGED <<nodes, epoch, marker, pc, job, at, cut>> /\ Complete' = Complete
    BY <1>7, SendAdds DEF Send, control, config, mem
  <2>2. ASSUME NEW s \in Complete, s = at[k] PROVE marker[s] = epoch
    <3>1. target[k] # NotYet /\ target[k] < at[k] /\ target[k] \in Int /\ at[k] \in Int
      <4>1. job[k] # "idle"
        BY <1>7 DEF Send
      <4>2. Loaded(k) /\ target[k] < at[k] /\ target[k] \in Int /\ at[k] \in Int
        BY <1>0, <4>1, Numbers
      <4> QED BY <4>2 DEF Stages, Loaded
    <3> QED BY <2>2, <3>1 DEF Ahead
  <2>3. ASSUME NEW n \in nodes, NEW s \in Complete, Uploaded(n, s, marker[s])
        PROVE  Uploaded(n, s, marker[s])'
    <3>1. s \in Step /\ marker[s] \in Epoch
      BY <1>1, DeepSpeedAssumption DEF Complete, TypeOK, Epoch, Absent
    <3>2. PICK e \in Epoch : e = marker[s]
      BY <3>1
    <3>3. Uploaded(n, s, e)'
      BY <1>7, <2>2, <2>3, <3>1, <3>2, SendAdds
    <3> QED BY <2>1, <3>2, <3>3 DEF Uploaded
  <2>4. \A n, s : OnItsWay(n, s)' <=> OnItsWay(n, s)
    BY <2>1 DEF OnItsWay
  <2> QED BY <1>1, <2>1, <2>3, <2>4 DEF Newest
<1>8. ASSUME NEW k \in nodes \ {Main}, Mark(k) PROVE Newest'
  <2>1. /\ UNCHANGED <<nodes, epoch, s3, pc, at, cut>>
        /\ \A n \in nodes \ {k} : job'[n] = job[n]
    BY <1>1, <1>8 DEF TypeOK, Mark, control, config, s3
  <2>2. Uploaded(k, at[k], epoch)
    BY <1>8 DEF Mark, Sent, SentOf, SentOwn
  <2>3. \A s : OnItsWay(k, s) => Uploaded(k, s, marker[s])
    BY <2>2 DEF OnItsWay
  <2> QED BY <1>a, <2>1, <2>3 DEF OnItsWay, s3
<1>9. CASE Mark(Main)
  <2> DEFINE s == at[Main]
  <2>1. /\ UNCHANGED <<nodes, epoch, store, pc, at, cut>>
        /\ \A n \in nodes \ {Main} : job'[n] = job[n]
    BY <1>1, <1>9 DEF TypeOK, Mark, control, config
  <2>2. /\ s \in Step /\ Loaded(Main) /\ target[Main] < s /\ marker'[s] = epoch
        /\ job[Main] = "sending"
    BY <1>0, <1>1, <1>9, Numbers DEF Mark, TypeOK
  <2>3. MaxOf(Complete') = s
    <3>1. Complete' = Complete \cup {s}
      <4>1. epoch # Absent
        BY DEF TypeOK, Epoch, Absent
      <4> QED BY <1>9, <2>2, <4>1 DEF Mark, Complete, TypeOK
    <3>2. \A t \in Complete' : t <= s
      BY <1>1, <2>2, <3>1, DeepSpeedAssumption DEF Ahead, Step
    <3> QED BY <1>1, <3>1, <3>2, MaxOfSteps
  <2>4. Uploaded(Main, s, epoch)
    BY <1>1, <1>9 DEF Mark, Sent, SentOf, SentOwn
  <2>5. ASSUME NEW n \in nodes \ {Main}, s \notin cut
        PROVE  Uploaded(n, s, epoch) \/ (at[n] = s /\ (pc[n] = "barrier" \/ job[n] = "sending"))
    <3>1. Arrived(n, s)
      BY <1>1, <2>2 DEF Met
    <3>2. CASE at[n] > s \/ pc[n] = "done"
      <4>1. s < at[n] \/ (at[n] = s /\ pc[n] = "done")
        BY <1>1, <2>2, <3>1, <3>2, Numbers DEF Arrived
      <4> QED BY <2>2, <2>5, <4>1 DEF Past, PastOf
    <3>3. CASE at[n] = s /\ pc[n] # "save" /\ pc[n] # "done"
      <4>1. target[n] < at[n] /\ Loaded(n)
        <5>1. s # 0
          BY <2>2 DEF Step
        <5>2. Loaded(n)
          BY <3>3, <5>1 DEF Stages
        <5> QED BY <1>0, <1>1, <2>2, <3>3, <5>2 DEF NodesAgree, Stages, Loaded
      <4>2. pc[n] = "barrier" \/ job[n] # "idle"
        <5>1. nodes # {n}
          BY <1>1
        <5> QED BY <1>0, <1>1, <3>3, <4>1, <5>1 DEF TypeOK, Stages, Loaded
      <4>3. CASE job[n] \in {"marked", "ok"}
        BY <3>3, <4>3 DEF Sent, SentOf
      <4>4. job[n] # "failed"
        BY <2>5, <3>3 DEF Sent, SentOf
      <4>5. job[n] \in {"idle", "sending", "marked", "ok", "failed"}
        BY <1>1 DEF TypeOK
      <4> QED BY <3>3, <4>2, <4>3, <4>4, <4>5
    <3> QED BY <3>1, <3>2, <3>3 DEF Arrived
  <2>6. ASSUME NEW n \in nodes, Uploaded(n, s, epoch) PROVE Uploaded(n, s, marker[s])'
    BY <2>1, <2>2, <2>6 DEF Uploaded
  <2>7. ASSUME NEW n \in nodes \ {Main}, at[n] = s, pc[n] = "barrier" \/ job[n] = "sending"
        PROVE  OnItsWay(n, s)'
    BY <2>1, <2>2, <2>7 DEF OnItsWay
  <2>8. s' = s
    BY <2>1
  <2> HIDE DEF s
  <2>9. s' \in cut' \/ \A n \in nodes : Uploaded(n, s, marker[s])' \/ OnItsWay(n, s)'
    BY <2>1, <2>4, <2>5, <2>6, <2>7, <2>8
  <2> QED BY <1>1, <2>1, <2>3, <2>4, <2>6, <2>8, <2>9 DEF Newest
<1>10. ASSUME NEW k \in nodes, EndJob(k) PROVE Newest'
  <2>1. /\ UNCHANGED <<nodes, epoch, s3, cut>>
        /\ \A n \in nodes \ {k} : at'[n] = at[n] /\ pc'[n] = pc[n] /\ job'[n] = job[n]
    BY <1>1, <1>10 DEF TypeOK, EndJob, control, config
  <2>2. pc[k] # "barrier" /\ job[k] # "sending"
    BY <1>1, <1>10 DEF TypeOK, Stages, EndJob
  <2> QED BY <1>b, <2>1, <2>2
<1>11. ASSUME NEW k \in nodes, JobFails(k) PROVE Newest'
  <2>1. /\ UNCHANGED <<nodes, epoch, s3, pc, at>> /\ cut \subseteq cut' /\ at[k] \in cut'
        /\ \A n \in nodes \ {k} : job'[n] = job[n]
    BY <1>1, <1>11 DEF TypeOK, JobFails, control, config
  <2> QED BY <1>a, <2>1 DEF OnItsWay, s3
<1>12. CASE ListOld \/ PruneDone
  <2>1. /\ UNCHANGED <<nodes, epoch, s3, at, job, cut>>
        /\ pc[Main] # "barrier" /\ \A n \in nodes \ {Main} : pc'[n] = pc[n]
    BY <1>1, <1>12 DEF TypeOK, ListOld, PruneDone, control, config
  <2> QED BY <1>a, <2>1 DEF OnItsWay, s3
<1>13. CASE Remove
  <2>1. UNCHANGED <<nodes, epoch, pc, job, at, cut>>
    BY <1>13 DEF Remove, control, config, mem
  <2>2. /\ MaxOf(Complete') = MaxOf(Complete) /\ (Complete' # {} => Complete # {})
        /\ \A s \in Complete \ todo : store'[s] = store[s] /\ marker'[s] = marker[s]
        /\ Complete # {} => MaxOf(Complete) \in Complete \ todo
    BY <1>13, RemoveKeeps, KeptNewest DEF Kept
  <2>3. \A s \in Complete \ todo, n \in nodes :
            /\ Uploaded(n, s, marker[s])' <=> Uploaded(n, s, marker[s])
            /\ OnItsWay(n, s)' <=> OnItsWay(n, s)
    BY <2>1, <2>2 DEF Uploaded, OnItsWay
  <2> QED BY <1>1, <2>1, <2>2, <2>3 DEF Newest
<1>14. CASE Crash
  <2>1. UNCHANGED <<nodes, s3>> /\ cut' = cut \cup {at[n] : n \in {m \in nodes : Unsent(m)}}
    BY <1>14 DEF Crash, config
  <2>2. ASSUME NEW n \in nodes, NEW s \in Step, OnItsWay(n, s), s \notin cut'
        PROVE  Uploaded(n, s, marker[s])
    <3>1. ~Unsent(n) /\ at[n] = s /\ marker[s] = epoch /\ (pc[n] = "barrier" \/ job[n] = "sending")
      BY <2>1, <2>2 DEF OnItsWay
    <3>2. SentOwn(n) /\ job[n] = "sending"
      BY <3>1 DEF Unsent
    <3> QED BY <3>1, <3>2 DEF SentOwn, Sent, SentOf
  <2> QED BY <1>a, <2>1, <2>2
<1>15. CASE UNCHANGED vars
  BY <1>15, <1>a DEF OnItsWay, vars, control, config, s3, mem
<1>16. ASSUME NEW k \in nodes, Mark(k) PROVE Newest'
  BY <1>8, <1>9, <1>16
<1> QED
  BY <1>2, <1>3, <1>4, <1>5, <1>6, <1>7, <1>10, <1>11, <1>12, <1>13, <1>14, <1>15, <1>16
     DEF Next, NodeStep, JobStep, Prune, Ended

LEMMA FewStep ==
    ASSUME TypeOK, Stages, Ahead, Few, [Next]_vars
    PROVE  Few'
<1>1. Main \in nodes /\ nodes \subseteq Node /\ Complete \in SUBSET Step
  BY DEF TypeOK, Stages, Complete
<1>a. ASSUME swept' => swept, swept /\ Counted' => Counted, swept => Retained' = Retained,
             ~Loaded(Main)' => ~swept'
      PROVE  Few'
  BY <1>a DEF Few
<1>b. ASSUME UNCHANGED <<async, s3, todo, swept>>,
             async /\ Counted' => at'[Main] = at[Main],
             ~Loaded(Main)' => ~swept,
             swept /\ Counted' => Counted
      PROVE  Few'
  <2>1. swept /\ Counted' => Retained' = Retained
    BY <1>b DEF Retained, Complete, s3
  <2> QED BY <1>b, <2>1 DEF Few
<1>c. ASSUME UNCHANGED <<async, s3, todo, swept>>,
             at'[Main] = at[Main], pc'[Main] = pc[Main], job'[Main] = job[Main]
      PROVE  Few'
  BY <1>b, <1>c DEF Few, Counted, Loaded
<1>2. ASSUME NEW k \in nodes \ {Main}, NodeStep(k) PROVE Few'
  <2>1. UNCHANGED <<async, s3, todo, swept>>
    BY <1>2 DEF NodeStep, Resume, Load, BeginSave, Finish, Raise, CatchAlone, SaveLocal,
                Dispatch, Return, control, config
  <2>2. at'[Main] = at[Main] /\ pc'[Main] = pc[Main] /\ job'[Main] = job[Main]
    BY <1>1, <1>2 DEF NodeStep, Resume, Load, BeginSave, Drain, Finish, Raise, CatchAlone,
                      SaveLocal, Dispatch, Return, TypeOK
  <2> QED BY <1>c, <2>1, <2>2
<1>3. CASE Resume(Main) \/ Load(Main)
  <2>1. UNCHANGED <<async, s3, todo, swept>> /\ ~Loaded(Main)
    BY <1>3 DEF Resume, Load, Loaded, control, config
  <2> QED BY <2>1 DEF Few
<1>4. CASE BeginSave(Main) \/ Finish(Main)
  <2>1. UNCHANGED <<async, s3, todo, swept>> /\ pc[Main] = "train" /\ pc'[Main] \in {"save", "done"}
    BY <1>1, <1>4 DEF BeginSave, Finish, TypeOK, control, config
  <2> QED BY <1>b, <2>1 DEF Counted, Loaded
<1>5. CASE Raise(Main)
  <2>1. /\ UNCHANGED <<async, s3, todo, swept>> /\ job[Main] = "failed"
        /\ pc[Main] \in {"uploading", "train"} /\ pc'[Main] = "dead"
    BY <1>1, <1>5 DEF Raise, TypeOK, control, config
  <2> QED BY <1>b, <2>1 DEF Counted, Loaded
<1>6. CASE CatchAlone(Main)
  <2>1. /\ UNCHANGED <<async, s3, todo, swept>> /\ job[Main] = "failed"
        /\ pc[Main] \in {"uploading", "train"} /\ pc'[Main] = "train"
        /\ at'[Main] \in {at[Main], at[Main] + 1}
    BY <1>1, <1>6 DEF CatchAlone, TypeOK, control, config
  <2>2. Counted /\ Loaded(Main)'
    BY <1>1, <2>1 DEF Counted, Stages, Loaded
  <2>3. Retained' = Retained
    <3>1. \A s \in Complete : s # at[Main] /\ s # at'[Main]
      <4>1. at[Main] \in Nat /\ \A s \in Complete : s \in Nat
        BY <1>1, Numbers, DeepSpeedAssumption DEF Step
      <4> QED BY <2>1, <4>1 DEF Ahead
    <3> QED BY <2>1, <3>1 DEF Retained, Complete, s3
  <2> QED BY <1>a, <2>1, <2>2, <2>3
<1>7. CASE SaveLocal(Main)
  <2>1. UNCHANGED <<async, s3, todo, swept>> /\ pc[Main] = "save" /\ pc'[Main] = "barrier"
    BY <1>1, <1>7 DEF SaveLocal, TypeOK, control, config
  <2> QED BY <1>b, <2>1 DEF Counted, Loaded
<1>8. CASE Dispatch(Main)
  <2>1. /\ UNCHANGED <<async, s3, todo, swept>> /\ pc[Main] = "barrier"
        /\ pc'[Main] = IF async THEN "prune" ELSE "uploading"
    BY <1>1, <1>8 DEF Dispatch, AfterSave, TypeOK, control, config
  <2> QED BY <1>b, <2>1 DEF Counted, Loaded
<1>9. CASE Return(Main)
  <2>1. UNCHANGED <<async, s3, todo, swept>> /\ pc'[Main] = "prune" /\ job'[Main] = "ok"
    BY <1>1, <1>9 DEF Return, AfterSave, TypeOK, control, config
  <2> QED BY <1>b, <2>1 DEF Counted, Loaded
<1>10. ASSUME NEW k \in nodes, JobStep(k), ~Mark(Main) PROVE Few'
  <2>1. UNCHANGED <<async, marker, pc, at, todo, swept>>
    BY <1>10 DEF JobStep, Send, Mark, EndJob, JobFails, control, config, s3, mem
  <2>2. job'[Main] = job[Main] \/ job[Main] = "sending" \/ job'[Main] = "ok"
    BY <1>1, <1>10 DEF JobStep, Send, Mark, EndJob, JobFails, mem, TypeOK
  <2> QED BY <1>a, <2>1, <2>2 DEF Few, Counted, Loaded, Retained, Complete
<1>11. CASE Mark(Main)
  <2>1. /\ UNCHANGED <<async, pc, at, todo, swept>>
        /\ job'[Main] = "marked" /\ job[Main] = "sending"
    BY <1>1, <1>11 DEF Mark, TypeOK, control, config
  <2>2. CASE async
    <3>1. Complete' \ {at[Main]} = Complete \ {at[Main]}
      <4>1. \A s \in Step \ {at[Main]} : marker'[s] = marker[s]
        BY <1>1, <1>11 DEF Mark, TypeOK
      <4> QED BY <4>1 DEF Complete
    <3>2. Retained' = Retained
      BY <2>1, <2>2, <3>1 DEF Retained
    <3>3. Counted' <=> Counted
      BY <2>1, <2>2 DEF Counted
    <3> QED BY <1>a, <2>1, <3>2, <3>3 DEF Few, Loaded
  <2>3. CASE ~async
    <3>1. pc[Main] = "uploading"
      BY <1>1, <2>1, <2>3 DEF Stages
    <3> QED BY <2>1, <2>3, <3>1 DEF Few, Counted, Loaded
  <2> QED BY <2>2, <2>3
<1>12. CASE ListOld
  <2>1. PICK found \in SUBSET Complete :
            todo' = found \ Protected(found) /\ swept' = (found = Complete)
    BY <1>12 DEF ListOld
  <2>2. /\ Complete' = Complete /\ UNCHANGED <<async, at>>
        /\ pc'[Main] = "remove" /\ Loaded(Main)
    BY <1>1, <1>12 DEF ListOld, Complete, Loaded, TypeOK, control, config, s3
  <2>3. ASSUME swept' PROVE Cardinality(Retained') <= KeepLast
    <3>1. /\ Complete \in SUBSET (1 .. MaxStep) /\ MaxStep \in Nat /\ KeepLast \in Nat \ {0}
      BY <1>1, DeepSpeedAssumption DEF Step
    <3>2. /\ IsFiniteSet(LastOf(Complete)) /\ Cardinality(LastOf(Complete)) <= KeepLast
          /\ \A s \in Complete : (\A t \in Complete : t <= s) => s \in LastOf(Complete)
      BY <3>1, LatestFew DEF LastOf
    <3>3. at[Main] \in Complete => at[Main] \in LastOf(Complete)
      BY <2>2, <3>2 DEF Ahead
    <3>4. Retained' \subseteq LastOf(Complete)
      BY <2>1, <2>2, <2>3, <3>3 DEF Retained, Protected
    <3>5. /\ Cardinality(Retained') <= Cardinality(LastOf(Complete))
          /\ Cardinality(Retained') \in Nat /\ Cardinality(LastOf(Complete)) \in Nat
      BY <3>2, <3>4, FS_Subset, FS_CardinalityType
    <3> QED BY <3>1, <3>2, <3>5
  <2> QED BY <2>2, <2>3 DEF Few, Loaded
<1>13. CASE Remove
  <2>1. UNCHANGED <<async, pc, job, at>> /\ todo' = todo \ {First} /\ (swept' => swept)
    BY <1>13 DEF Remove, control, config, mem
  <2>2. ASSUME swept' PROVE Complete' = Complete \ {First}
    <3>1. First \in Step
      BY <1>13, FirstIsTodo DEF Remove, TypeOK
    <3>2. marker' = [marker EXCEPT ![First] = Absent]
      BY <1>13, <2>2 DEF Remove
    <3> QED BY <3>1, <3>2 DEF Complete, TypeOK
  <2>3. First \in todo
    BY <1>13, FirstIsTodo DEF Remove, TypeOK
  <2>4. swept' => Retained' = Retained
    BY <2>1, <2>2, <2>3 DEF Retained
  <2> QED BY <2>1, <2>4 DEF Few, Counted, Loaded
<1>14. CASE PruneDone
  <2>1. UNCHANGED <<async, s3, at, todo, swept>> /\ pc[Main] = "remove" /\ pc'[Main] = "train"
    BY <1>1, <1>14 DEF PruneDone, TypeOK, control, config
  <2> QED BY <1>b, <2>1 DEF Counted, Loaded
<1>15. CASE Crash
  BY <1>15 DEF Crash, Few
<1>16. CASE UNCHANGED vars
  BY <1>16, <1>c DEF vars, control, config, mem
<1>17. CASE NodeStep(Main)
  BY <1>3, <1>4, <1>5, <1>6, <1>7, <1>8, <1>9, <1>17 DEF NodeStep
<1> QED
  BY <1>2, <1>10, <1>11, <1>12, <1>13, <1>14, <1>15, <1>16, <1>17 DEF Next, Prune, Ended

LEMMA AlwaysStep ==
    ASSUME Always, [Next]_vars
    PROVE  Always'
BY TypeStep, StagesStep, MetStep, SparedStep, SentStep, AgreedStep DEF Always

\* resave never changes, and what has been missed stays missed.
LEMMA OnceBefore ==
    ASSUME Always, [Next]_vars, SavesOnce'
    PROVE  SavesOnce
<1>1. UNCHANGED resave
  BY DEF Next, NodeStep, JobStep, Prune, Ended, Resume, Load, BeginSave, Finish, Raise,
         CatchAlone, SaveLocal, Dispatch, Return, Send, Mark, EndJob, JobFails, ListOld, Remove,
         PruneDone, Crash, vars, control, config
<1>2. UNCHANGED missed \/ \E n \in nodes : Resume(n)
  BY DEF Next, NodeStep, JobStep, Prune, Ended, Load, BeginSave, Finish, Raise,
         CatchAlone, SaveLocal, Dispatch, Return, Send, Mark, EndJob, JobFails, ListOld, Remove,
         PruneDone, Crash, vars, control
<1>3. missed => missed'
  BY <1>2 DEF Resume
<1> QED
  BY <1>1, <1>3 DEF SavesOnce

\* The invariant holds in every state.
LEMMA InvHolds == Spec => []Inv
<1>1. Init => Inv
  <2> SUFFICES ASSUME Init PROVE Inv
    OBVIOUS
  <2>1. /\ 0 \in 0 .. MaxEpoch /\ 1 \in Epoch /\ 0 \in 0 .. MaxStep /\ Absent = 0
        /\ nodes \in SUBSET Node /\ Main \in nodes
    BY DeepSpeedAssumption DEF Init, Node, Main, Epoch, Absent
  <2>2. TypeOK /\ Stages /\ ~Loaded(Main)
    BY <2>1 DEF Init, TypeOK, Stages, Loaded, NotYet
  <2>3. Complete = {}
    BY DEF Init, Complete
  <2>4. Met /\ Spared /\ NodesAgree /\ Agreed /\ Lockstep /\ Sent /\ Past
    BY <2>1 DEF Init, Met, Spared, NodesAgree, Agreed, Lockstep, Sent, SentOf, Past, PastOf, Loaded
  <2>5. Ahead /\ Pruning /\ Newest /\ Few
    BY <2>3 DEF Init, Ahead, Pruning, Newest, Few
  <2> QED BY <2>2, <2>4, <2>5 DEF Inv, Always, Regular
<1>2. ASSUME Inv, [Next]_vars PROVE Inv'
  <2>1. Always /\ Always'
    BY <1>2, AlwaysStep DEF Inv
  <2>2. ASSUME SavesOnce' PROVE Regular'
    <3>1. SavesOnce /\ Regular
      BY <1>2, <2>1, <2>2, OnceBefore DEF Inv
    <3> QED BY <1>2, <2>1, <2>2, <3>1, LockstepStep, PastStep, AheadStep, PruningStep,
               NewestStep, FewStep DEF Regular, Always
  <2> QED BY <2>1, <2>2 DEF Inv
<1> QED
  BY <1>1, <1>2, PTL DEF Spec

-----------------------------------------------------------------------------
(* What the users of the checkpoints rely on.                              *)

\* As long as no load_latest has missed the newest checkpoint, all nodes of one
\* incarnation resume from the same step: each resolves it by itself, and until the
\* last has done so no upload can be over and nothing is pruned.
THEOREM NodesResumeTogether == Spec => []NodesAgree
<1>1. Inv => NodesAgree
  BY DEF Inv, Always
<1> QED
  BY <1>1, InvHolds, PTL

\* In a job that saves no step twice, the newest checkpoint holds the part of every
\* node or the part is on its way, unless an upload of that step was cut short: the
\* only way in which the marker of node 0, written without waiting for the others,
\* can then stand for too much.
THEOREM NewestIsWholeUnlessCut == Spec => []ResumePointWholeUnlessCut
<1>1. Inv => ResumePointWholeUnlessCut
  <2> SUFFICES ASSUME Inv, SavesOnce, Complete # {}, MaxOf(Complete) \notin cut, NEW n \in nodes
               PROVE  \/ Uploaded(n, MaxOf(Complete), marker[MaxOf(Complete)])
                      \/ at[n] = MaxOf(Complete) /\ pc[n] # "dead"
    BY DEF ResumePointWholeUnlessCut
  <2> QED BY DEF Inv, Always, Regular, Newest, OnItsWay, Stages
<1> QED
  BY <1>1, InvHolds, PTL

\* A job of one node never resumes from a torn checkpoint, whatever fails, is
\* preempted or pruned, as long as it saves no step over a complete one: neither the
\* step it resumed from, nor after a load_latest that missed the newest checkpoint.
THEOREM NewestIsWholeOnOneNode == Spec => []ResumePointWholeOnOneNode
<1>1. Inv => ResumePointWholeOnOneNode
  <2> SUFFICES ASSUME Inv, SavesOnce, nodes = {Main}, Complete # {} PROVE Whole(MaxOf(Complete))
    BY DEF ResumePointWholeOnOneNode, ResumePointWhole
  <2>1. Uploaded(Main, MaxOf(Complete), marker[MaxOf(Complete)])
    BY DEF Inv, Always, Stages, Regular, Newest
  <2>2. MaxOf(Complete) \in Complete
    BY MaxOfSteps DEF Complete
  <2>3. marker[MaxOf(Complete)] \in Epoch
    BY <2>2, DeepSpeedAssumption DEF Inv, Always, TypeOK, Complete, Epoch, Absent
  <2> QED BY <2>1, <2>3 DEF Whole
<1> QED
  BY <1>1, InvHolds, PTL

\* A complete pass of _prune_old leaves keep_last checkpoints, and with
\* async_save the one whose upload it did not wait for.
THEOREM PruningKeepsFew == Spec => []RetentionBounded
<1>1. Inv => RetentionBounded
  <2> SUFFICES ASSUME Inv, SavesOnce, swept, pc[Main] = "train"
               PROVE  Cardinality(Complete) <= IF async THEN KeepLast + 1 ELSE KeepLast
    BY DEF RetentionBounded
  <2>1. Cardinality(Retained) <= KeepLast /\ todo = {}
    BY DEF Inv, Always, Regular, Few, Counted, Spared
  <2>2. IsFiniteSet(Complete)
    <3>1. IsFiniteSet(1 .. MaxStep)
      BY DeepSpeedAssumption, FS_Interval
    <3> QED BY <3>1, FS_Subset DEF Complete, Step
  <2>3. CASE async
    <3>1. Retained = Complete \ {at[Main]}
      BY <2>1, <2>3 DEF Retained
    <3>2. IsFiniteSet(Retained) /\ at[Main] \notin Retained /\ Cardinality(Retained) \in Nat
      BY <2>2, <3>1, FS_Subset, FS_CardinalityType
    <3>3. /\ IsFiniteSet(Retained \cup {at[Main]})
          /\ Cardinality(Retained \cup {at[Main]}) = Cardinality(Retained) + 1
      BY <3>2, FS_AddElement
    <3>4. Complete \subseteq Retained \cup {at[Main]}
      BY <3>1
    <3>5. /\ Cardinality(Complete) <= Cardinality(Retained \cup {at[Main]})
          /\ Cardinality(Complete) \in Nat
      BY <2>2, <3>3, <3>4, FS_Subset, FS_CardinalityType
    <3> QED BY <2>1, <2>3, <3>2, <3>3, <3>5, DeepSpeedAssumption
  <2>4. CASE ~async
    BY <2>1, <2>4 DEF Retained
  <2> QED BY <2>3, <2>4
<1> QED
  BY <1>1, InvHolds, PTL

\* _upload_and_mark removes a node's local copy only when S3 holds all of it.
THEOREM LocalIsSafe == Spec => LocalUntilUploaded
<1>1. ASSUME Inv, [Next]_vars, NEW n \in Node, NEW s \in Step,
             local[n][s] # Absent, local'[n][s] = Absent
      PROVE  Uploaded(n, s, local[n][s])
  <2>1. nodes \subseteq Node /\ epoch # Absent
    BY <1>1 DEF Inv, Always, TypeOK, Epoch, Absent
  <2>2. PICK k \in nodes : SaveLocal(k) \/ EndJob(k)
    BY <1>1 DEF Next, NodeStep, JobStep, Prune, Ended, Resume, Load, BeginSave, Finish, Raise,
                CatchAlone, Dispatch, Return, Send, Mark, JobFails, ListOld, Remove, PruneDone,
                Crash, vars
  <2>3. CASE SaveLocal(k)
    BY <1>1, <2>1, <2>3 DEF SaveLocal, Inv, Always, TypeOK
  <2>4. CASE EndJob(k)
    <3>1. n = k /\ s = at[k]
      BY <1>1, <2>1, <2>4 DEF EndJob, Inv, Always, TypeOK
    <3> QED BY <1>1, <2>4, <3>1 DEF EndJob, Inv, Always, Sent, SentOf
  <2> QED BY <2>2, <2>3, <2>4
<1>2. Inv /\ [Next]_vars =>
        \A n \in Node, s \in Step :
            local[n][s] # Absent /\ local'[n][s] = Absent => Uploaded(n, s, local[n][s])
  BY <1>1
<1> QED
  BY <1>2, InvHolds, PTL DEF Spec, LocalUntilUploaded

=============================================================================
