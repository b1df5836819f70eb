-------------------------------- MODULE Ema --------------------------------
(***************************************************************************)
(* The moving average of a model (EMA of src/src/torch/observability.py):  *)
(* the shadow tensors, the cache of tensor lists that update() builds for  *)
(* a model and keeps under its id, and the swap of apply_shadow and        *)
(* restore.  A tensor is the sequence of the weights blended into it.      *)
(***************************************************************************)
EXTENDS Integers, Sequences, FiniteSets

CONSTANTS
    Model,       \* model objects, with the same names in them
    MaxWeights,  \* bound on the weights that training produces
    MaxGen       \* bound on the shadows: one more with every load_state_dict

ASSUME EmaAssumption == IsFiniteSet(Model) /\ MaxWeights \in Nat \ {0} /\ MaxGen \in Nat

\* One parameter and one buffer stand for all of them.
Name == {"param", "buffer"}
Gen == 0 .. MaxGen
None == <<>>

VARIABLES
    ids,        \* [Model -> id(model)]: an object that is freed leaves its id to another
    buffers,    \* include_buffers
    weights,    \* [Model -> [Name -> tensor]]
    trained,    \* the weights that training has produced so far
    shadows,    \* [Gen -> [Name -> tensor]]: the tensors of one shadow
    live,       \* the generation of self.shadow
    cache,      \* _cache_key, and the model and the shadow of its tensor lists
    backup,     \* self.backup: the parameter, or None
    average,    \* history: what the shadow should be
    own,        \* history: [Model -> its own parameter, whatever is swapped in]
    swapped,    \* history: the models with the shadow in them
    misused     \* history: the swap was used out of order

emaVars == <<ids, buffers, weights, trained, shadows, live, cache, backup, average, own, swapped, misused>>

NoCache == [key |-> 0, model |-> CHOOSE m \in Model : TRUE, gen |-> 0]

\* The names in the shadow.
Shadowed(s) == {n \in Name : s[n] # None}

EmaInit ==
    /\ ids \in [Model -> 1 .. Cardinality(Model)] /\ buffers \in BOOLEAN
    /\ weights = [m \in Model |-> [n \in Name |-> <<1>>]] /\ trained = 1
    /\ shadows = [g \in Gen |-> [n \in Name |->
                    IF g = 0 /\ (n = "buffer" => buffers) THEN <<1>> ELSE None]]
    /\ live = 0 /\ cache = NoCache /\ backup = None
    /\ average = shadows[0] /\ own = [m \in Model |-> <<1>>]
    /\ swapped = {} /\ misused = FALSE

\* The optimizer steps on a model that has its own weights.
TrainStep(m) ==
    /\ m \notin swapped /\ ~misused /\ trained < MaxWeights
    /\ trained' = trained + 1
    /\ weights' = [weights EXCEPT ![m] = [n \in Name |-> <<trained + 1>>]]
    /\ own' = [own EXCEPT ![m] = <<trained + 1>>]
    /\ UNCHANGED <<ids, buffers, shadows, live, cache, backup, average, swapped, misused>>

Blend(t, w) == IF t = None THEN None ELSE t \o w

\* lerp for a parameter, copy for a buffer.
Blended(s, m) == [n \in Name |->
    IF n = "param" THEN Blend(s[n], weights[m][n])
    ELSE IF s[n] = None THEN None ELSE weights[m][n]]

Cached(m) == cache.key = ids[m]

\* A shadow without a name that is tracked lets update raise.
Tracked == {"param"} \cup (IF buffers THEN {"buffer"} ELSE {})
BuildCache(m) ==
    IF Tracked \subseteq Shadowed(shadows[live])
    THEN [key |-> ids[m], model |-> m, gen |-> live] ELSE NoCache

Update(m) ==
    /\ Len(average["param"]) <= MaxWeights
    /\ LET c == IF Cached(m) THEN cache ELSE BuildCache(m)
       IN  IF c.key = NoCache.key THEN UNCHANGED <<shadows, cache, average>>
           ELSE /\ cache' = c
                /\ shadows' = [shadows EXCEPT ![c.gen] = Blended(@, c.model)]
                /\ average' = Blended(average, m)
    /\ UNCHANGED <<ids, buffers, weights, trained, live, backup, own, swapped, misused>>

\* p.data.clone()
Saved(m) == weights[m]["param"]

\* Buffers are in the shadow and are not swapped: only named_parameters are.
\* The backup of before is dropped, whosever it was.
ApplyShadow(m) ==
    /\ misused' = (misused \/ swapped # {})
    /\ swapped' = swapped \cup {m}
    /\ IF "param" \in Shadowed(shadows[live])
       THEN backup' = Saved(m) /\ weights' = [weights EXCEPT ![m]["param"] = shadows[live]["param"]]
       ELSE backup' = None /\ UNCHANGED weights
    /\ UNCHANGED <<ids, buffers, trained, shadows, live, cache, average, own>>

Restore(m) ==
    /\ misused' = (misused \/ (swapped # {} /\ m \notin swapped))
    /\ swapped' = swapped \ {m}
    /\ weights' = IF backup = None THEN weights ELSE [weights EXCEPT ![m]["param"] = backup]
    /\ backup' = None
    /\ UNCHANGED <<ids, buffers, trained, shadows, live, cache, average, own>>

\* Bug: the lists of the shadow that is replaced stay.
KeepsCache == cache

\* _cache_key = None
DropsCache == [cache EXCEPT !.key = NoCache.key]

\* A new shadow, with clones of some of a state's tensors; the state is what
\* state_dict returned, now or before a load: the shadow itself, not a copy.
LoadStateDict(g, N) ==
    /\ live < MaxGen /\ g <= live
    /\ live' = live + 1
    /\ shadows' = [shadows EXCEPT ![live + 1] = [n \in Name |-> IF n \in N THEN shadows[g][n] ELSE None]]
    /\ average' = shadows'[live + 1]
    /\ cache' = DropsCache
    /\ UNCHANGED <<ids, buffers, weights, trained, backup, own, swapped, misused>>

EmaNext ==
    \/ \E m \in Model : TrainStep(m) \/ Update(m) \/ ApplyShadow(m) \/ Restore(m)
    \/ \E g \in Gen, N \in SUBSET Name : LoadStateDict(g, N)

EmaSpec == EmaInit /\ [][EmaNext]_emaVars

-----------------------------------------------------------------------------
(* Properties.                                                             *)

\* Two models never had the same id.
Distinct == \A m, n \in Model : ids[m] = ids[n] => m = n

\* The shadow is the average of the weights of the models that update() was
\* given, since the last load_state_dict, in spite of the tensor lists that
\* update() keeps from call to call, unless a model took over another one's id;
\* and a model that is not being evaluated has its own weights, in spite of
\* updates and loads between apply_shadow and restore, unless a second
\* apply_shadow dropped the backup or a restore went to another model.
AveragesAndGivesBack ==
    /\ Distinct => shadows[live] = average
    /\ ~misused => \A m \in Model \ swapped : weights[m]["param"] = own[m]

=============================================================================
