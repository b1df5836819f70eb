------------------------------ MODULE StepSets ------------------------------
(***************************************************************************)
(* Lemmas about sets of step numbers, which both paths of the checkpoint   *)
(* manager search for the newest checkpoint and sort by age to prune.      *)
(***************************************************************************)
EXTENDS Integers, FiniteSets, FiniteSetTheorems, WellFoundedInduction, TLAPS

\* A nonempty set of steps has a least element.
LEMMA LeastStep ==
    ASSUME NEW N \in Nat, NEW S \in SUBSET (1 .. N), S # {}
    PROVE  \E s \in S : \A t \in S : s <= t
<1>1. S \subseteq Nat
  OBVIOUS
<1>2. PICK s \in S : \A t \in S : <<t, s>> \notin OpToRel(<, Nat)
  BY <1>1, NatLessThanWellFounded, WFMin, Zenon
<1>3. \A t \in S : ~ (t < s)
  BY <1>1, <1>2 DEF OpToRel
<1> QED
  BY <1>1, <1>3

\* ... and a greatest one.
LEMMA GreatestStep ==
    ASSUME NEW N \in Nat, NEW S \in SUBSET (1 .. N), S # {}
    PROVE  \E s \in S : \A t \in S : t <= s
<1> DEFINE Mirrored == {n \in 1 .. N : N + 1 - n \in S}
<1>1. Mirrored \in SUBSET (1 .. N) /\ Mirrored # {}
  <2>1. PICK s \in S : TRUE
    OBVIOUS
  <2>2. N + 1 - s \in 1 .. N /\ N + 1 - (N + 1 - s) = s
    OBVIOUS
  <2> QED BY <2>2
<1>2. PICK n \in Mirrored : \A m \in Mirrored : n <= m
  <2> HIDE DEF Mirrored
  <2> QED BY <1>1, LeastStep
<1>3. N + 1 - n \in S
  BY <1>2
<1>4. ASSUME NEW t \in S PROVE t <= N + 1 - n
  <2>1. N + 1 - t \in 1 .. N /\ N + 1 - (N + 1 - t) = t /\ n \in 1 .. N
    BY <1>1
  <2>2. n <= N + 1 - t
    BY <1>2, <2>1
  <2> QED BY <2>1, <2>2
<1> QED
  BY <1>3, <1>4

\* The greatest of the steps and 0 is the greatest of the steps, and 0 only when
\* there are none (what MaxOf chooses in the modules of both paths).
LEMMA GreatestOrZero ==
    ASSUME NEW N \in Nat, NEW S \in SUBSET (1 .. N)
    PROVE  /\ \E x \in S \cup {0} : \A s \in S : s <= x
           /\ \A x \in S \cup {0} : (\A s \in S : s <= x) =>
                (S # {} => x \in S) /\ \A n \in S : (\A s \in S : s <= n) => x = n
<1>1. \E x \in S \cup {0} : \A s \in S : s <= x
  BY GreatestStep
<1>2. \A s \in S : s \in Nat /\ s >= 1
  OBVIOUS
<1>3. ASSUME NEW x \in S \cup {0}, \A s \in S : s <= x
      PROVE  (S # {} => x \in S) /\ \A n \in S : (\A s \in S : s <= n) => x = n
  <2>1. x \in Nat
    BY <1>2
  <2>2. ASSUME NEW s \in S PROVE x \in S
    BY <1>2, <1>3, <2>2
  <2>3. ASSUME NEW n \in S, \A s \in S : s <= n PROVE x = n
    <3>1. x \in S
      BY <2>2
    <3>2. x <= n /\ n <= x /\ n \in Nat
      BY <1>2, <1>3, <2>3, <3>1
    <3> QED BY <2>1, <3>2
  <2> QED BY <2>2, <2>3
<1> QED
  BY <1>1, <1>3

\* Those that have fewer than K later ones are at most K, and the greatest is
\* one of them (LastOf in the modules of both paths).
LEMMA LatestFew ==
    ASSUME NEW N \in Nat, NEW K \in Nat \ {0}, NEW S \in SUBSET (1 .. N)
    PROVE  LET latest == {s \in S : Cardinality({t \in S : t > s}) < K}
           IN  /\ IsFiniteSet(latest) /\ Cardinality(latest) <= K
               /\ \A s \in S : (\A t \in S : t <= s) => s \in latest
<1> DEFINE later(s) == {t \in S : t > s}
           latest == {s \in S : Cardinality(later(s)) < K}
<1>1. \A T \in SUBSET S : IsFiniteSet(T)
  <2>1. IsFiniteSet(1 .. N)
    BY FS_Interval
  <2> QED BY <2>1, FS_Subset, Zenon
<1>2. Cardinality(latest) <= K
  <2>1. CASE latest = {}
    <3>1. Cardinality({}) = 0
      BY FS_EmptySet
    <3> HIDE DEF latest
    <3> QED BY <2>1, <3>1
  <2>2. CASE latest # {}
    <3>1. PICK m \in latest : \A t \in latest : m <= t
      BY <2>2, LeastStep
    <3>2. latest \subseteq later(m) \cup {m}
      <4>1. \A t \in latest : t \in S /\ t \in Int /\ m \in Int /\ (t > m \/ t = m)
        BY <3>1
      <4> QED BY <4>1
    <3>3. IsFiniteSet(later(m)) /\ Cardinality(later(m)) < K /\ m \notin later(m)
      BY <1>1, <3>1
    <3>4. IsFiniteSet(later(m) \cup {m}) /\ Cardinality(later(m) \cup {m}) = Cardinality(later(m)) + 1
      <4> HIDE DEF later
      <4> QED BY <3>3, FS_AddElement
    <3>5. Cardinality(latest) <= Cardinality(later(m) \cup {m}) /\ Cardinality(latest) \in Nat
      <4> HIDE DEF later, latest
      <4> QED BY <3>2, <3>4, FS_Subset, FS_CardinalityType
    <3>6. Cardinality(later(m)) \in Nat
      BY <3>3, FS_CardinalityType
    <3> QED
      BY <3>3, <3>4, <3>5, <3>6
  <2> QED BY <2>1, <2>2
<1>3. ASSUME NEW s \in S, \A t \in S : t <= s PROVE s \in latest
  <2>1. later(s) = {}
    <3>1. \A t \in S : t \in Int /\ s \in Int /\ ~ (t > s)
      BY <1>3
    <3> QED BY <3>1
  <2>2. Cardinality({}) = 0
    BY FS_EmptySet
  <2> HIDE DEF later
  <2> QED BY <2>1, <2>2
<1> QED
  BY <1>1, <1>2, <1>3

\* What is left of few steps is few, and with one more it is at most one more.
LEMMA FewerSteps ==
    ASSUME NEW N \in Nat, NEW K \in Nat, NEW T \in SUBSET (1 .. N), Cardinality(T) <= K, NEW S
    PROVE  /\ S \subseteq T => Cardinality(S) <= K
           /\ \A x : S \subseteq T \cup {x} => Cardinality(S) <= K + 1
<1>1. IsFiniteSet(T) /\ Cardinality(T) \in Nat
  <2>1. IsFiniteSet(1 .. N)
    BY FS_Interval
  <2> QED BY <2>1, FS_Subset, FS_CardinalityType
<1>2. ASSUME S \subseteq T PROVE Cardinality(S) <= K
  <2>1. Cardinality(S) <= Cardinality(T) /\ Cardinality(S) \in Nat
    BY <1>1, <1>2, FS_Subset, FS_CardinalityType
  <2> QED BY <1>1, <2>1
<1>3. ASSUME NEW x, S \subseteq T \cup {x} PROVE Cardinality(S) <= K + 1
  <2>1. IsFiniteSet(T \cup {x}) /\ Cardinality(T \cup {x}) <= Cardinality(T) + 1
    BY <1>1, FS_AddElement
  <2>2. /\ Cardinality(S) <= Cardinality(T \cup {x})
        /\ Cardinality(S) \in Nat /\ Cardinality(T \cup {x}) \in Nat
    BY <1>3, <2>1, FS_Subset, FS_CardinalityType
  <2> QED BY <1>1, <2>1, <2>2
<1> QED
  BY <1>2, <1>3

=============================================================================
