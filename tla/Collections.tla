----------------------------- MODULE Collections -----------------------------
(***************************************************************************)
(* What the proofs share about finite collections: induction over the      *)
(* subsets of a finite set, the sum of a function over one                 *)
(* (SumFunctionOnSet of the community modules), sequences that lose an     *)
(* element and sequences that are joined (FlattenSeq).  The library's      *)
(* induction theorems take an operator; here strict inclusion is well      *)
(* founded on finite sets, a fact about sets.                              *)
(***************************************************************************)
EXTENDS Integers, FiniteSetsExt, SequencesExt, FiniteSetTheorems, SequenceTheorems, WellFoundedInduction, TLAPS

\* Induction over the subsets of a finite set, with the set of those that have been reached.
LEMMA SubsetInduction ==
  ASSUME NEW U, IsFiniteSet(U), NEW C,
         \A s \in SUBSET U : (\A t \in SUBSET s : t # s => t \in C) => s \in C
  PROVE  SUBSET U \subseteq C
<1> SUFFICES ASSUME (SUBSET U) \ C # {} PROVE FALSE OBVIOUS
<1> DEFINE missed == (SUBSET U) \ C
<1>1. missed \subseteq FiniteSubsetsOf(U) /\ missed # {} BY FS_FiniteSubsetsOfFinite
<1>2. IsWellFoundedOn(StrictSubsetOrdering(U), FiniteSubsetsOf(U)) BY FS_StrictSubsetOrderingWellFounded
<1>3. PICK s \in missed : \A t \in missed : ~ (<<t, s>> \in StrictSubsetOrdering(U))
  <2> HIDE DEF missed
  <2> QED BY <1>1, <1>2, WFMin
<1>4. \A t \in SUBSET s : t # s => t \in C BY <1>3 DEF StrictSubsetOrdering
<1> QED BY <1>3, <1>4

\* The recursion a sum over S is defined by.
Picked(s) == CHOOSE x \in s : TRUE
Adds(g, f, S) == g = [s \in SUBSET S |-> IF s = {} THEN 0 ELSE f[Picked(s)] + g[s \ {Picked(s)}]]

\* What is picked out of a set is in it.
LEMMA PickedIn == ASSUME NEW s, s # {} PROVE Picked(s) \in s
BY DEF Picked

\* The recursion at one subset.
LEMMA AddsAt ==
  ASSUME NEW f, NEW S, NEW g, Adds(g, f, S), NEW s \in SUBSET S
  PROVE  g[s] = IF s = {} THEN 0 ELSE f[Picked(s)] + g[s \ {Picked(s)}]
BY DEF Adds

\* Two functions that add the same things up agree on what both add up.
LEMMA AddsAgree ==
  ASSUME NEW f, NEW S, NEW T, NEW g, NEW h, Adds(g, f, S), Adds(h, f, T),
         NEW U, IsFiniteSet(U), U \subseteq S, U \subseteq T
  PROVE  g[U] = h[U]
<1> DEFINE C == {u \in SUBSET U : g[u] = h[u]}
<1>1. ASSUME NEW s \in SUBSET U, \A t \in SUBSET s : t # s => t \in C PROVE s \in C
  <2>1. CASE s = {} BY <2>1, AddsAt
  <2>2. CASE s # {}
    <3>1. Picked(s) \in s BY <2>2, PickedIn
    <3>2. s \ {Picked(s)} \in C BY <1>1, <3>1
    <3>3. g[s] = f[Picked(s)] + g[s \ {Picked(s)}] /\ h[s] = f[Picked(s)] + h[s \ {Picked(s)}]
      BY <2>2, AddsAt
    <3> QED BY <3>2, <3>3
  <2> QED BY <2>1, <2>2
<1> HIDE DEF C
<1>2. SUBSET U \subseteq C BY <1>1, SubsetInduction
<1> QED BY <1>2 DEF C

\* There is a function that adds up.
LEMMA AddsExists ==
  ASSUME NEW f, NEW U, IsFiniteSet(U)
  PROVE  \E g : Adds(g, f, U)
<1> DEFINE C == {s \in SUBSET U : \E g : Adds(g, f, s)}
           sum(s) == (CHOOSE g : Adds(g, f, s))[s]
<1>1. ASSUME NEW s \in SUBSET U, \A t \in SUBSET s : t # s => t \in C PROVE s \in C
  <2> DEFINE G == [t \in SUBSET s |-> IF t # s THEN sum(t) ELSE IF s = {} THEN 0 ELSE f[Picked(s)] + sum(s \ {Picked(s)})]
  <2>1. ASSUME NEW t \in SUBSET s PROVE G[t] = IF t = {} THEN 0 ELSE f[Picked(t)] + G[t \ {Picked(t)}]
    <3>1. t # {} => Picked(t) \in t BY PickedIn
    <3>2. CASE t = s
      <4>1. s # {} => s \ {Picked(s)} # s BY <3>1, <3>2
      <4> QED BY <3>2, <4>1
    <3>3. CASE t # s
      <4>1. G[t] = sum(t) BY <3>3
      <4>2. Adds(CHOOSE g : Adds(g, f, t), f, t) BY <1>1, <3>3
      <4>3. CASE t = {}
        <5>1. sum(t) = 0 BY <4>2, <4>3, AddsAt
        <5> QED BY <4>1, <4>3, <5>1
      <4>4. CASE t # {}
        <5> DEFINE r == t \ {Picked(t)}
        <5>1. r \in SUBSET s /\ r # s /\ r \subseteq t /\ IsFiniteSet(r)
          BY <3>1, <4>4, FS_Subset
        <5>2. Adds(CHOOSE g : Adds(g, f, r), f, r) BY <1>1, <5>1
        <5>3. (CHOOSE g : Adds(g, f, t))[r] = sum(r) BY <4>2, <5>1, <5>2, AddsAgree
        <5>4. sum(t) = f[Picked(t)] + (CHOOSE g : Adds(g, f, t))[r] BY <4>2, <4>4, AddsAt
        <5>5. G[r] = sum(r) BY <5>1
        <5> HIDE DEF G, sum
        <5> QED BY <4>1, <4>4, <5>3, <5>4, <5>5
      <4> QED BY <4>3, <4>4
    <3> QED BY <3>2, <3>3
  <2>2. G = [t \in SUBSET s |-> IF t = {} THEN 0 ELSE f[Picked(t)] + G[t \ {Picked(t)}]]
    <3>1. G = [t \in SUBSET s |-> G[t]] OBVIOUS
    <3> HIDE DEF G
    <3> QED BY <2>1, <3>1
  <2> HIDE DEF G
  <2>3. Adds(G, f, s) BY <2>2 DEF Adds
  <2> QED BY <2>3
<1> HIDE DEF C
<1>2. SUBSET U \subseteq C BY <1>1, SubsetInduction
<1>3. U \in C BY <1>2
<1> QED BY <1>3 DEF C

\* The recursion holds of the sum itself.
LEMMA SumStep ==
  ASSUME NEW f, NEW S, IsFiniteSet(S), S # {}
  PROVE  SumFunctionOnSet(f, S) = f[Picked(S)] + SumFunctionOnSet(f, S \ {Picked(S)})
<1> DEFINE adder(T) == CHOOSE g : Adds(g, f, T)
<1>1. ASSUME NEW T, IsFiniteSet(T) PROVE Adds(adder(T), f, T)
  <2>1. \E g : Adds(g, f, T) BY <1>1, AddsExists
  <2> QED BY <2>1
<1>2. \A T : SumFunctionOnSet(f, T) = adder(T)[T]
  BY DEF SumFunctionOnSet, FoldFunctionOnSet, MapThenFoldSet, Adds, Picked
<1>3. IsFiniteSet(S \ {Picked(S)}) BY FS_Subset
<1>4. adder(S)[S] = f[Picked(S)] + adder(S)[S \ {Picked(S)}] BY <1>1, AddsAt
<1>5. adder(S)[S \ {Picked(S)}] = adder(S \ {Picked(S)})[S \ {Picked(S)}]
  <2>1. Adds(adder(S), f, S) BY <1>1
  <2>2. Adds(adder(S \ {Picked(S)}), f, S \ {Picked(S)}) BY <1>1, <1>3
  <2> HIDE DEF adder
  <2> QED BY <1>3, <2>1, <2>2, AddsAgree
<1> HIDE DEF adder
<1> QED BY <1>2, <1>4, <1>5

\* Nothing adds up to zero.
LEMMA SumOfNone == ASSUME NEW f PROVE SumFunctionOnSet(f, {}) = 0
<1> DEFINE adder == CHOOSE g : Adds(g, f, {})
<1>1. Adds(adder, f, {}) BY AddsExists, FS_EmptySet
<1>2. SumFunctionOnSet(f, {}) = adder[{}]
  BY DEF SumFunctionOnSet, FoldFunctionOnSet, MapThenFoldSet, Adds, Picked
<1> HIDE DEF adder
<1> QED BY <1>1, <1>2, AddsAt

\* Integers sum up to an integer, and naturals to a natural.
LEMMA SumType ==
  ASSUME NEW f, NEW S, IsFiniteSet(S), NEW N \in {Int, Nat}, \A x \in S : f[x] \in N
  PROVE  SumFunctionOnSet(f, S) \in N
<1> DEFINE C == {u \in SUBSET S : SumFunctionOnSet(f, u) \in N}
<1>1. ASSUME NEW s \in SUBSET S, \A t \in SUBSET s : t # s => t \in C PROVE s \in C
  <2>1. CASE s = {} BY <2>1, SumOfNone
  <2>2. CASE s # {}
    <3>1. Picked(s) \in s BY <2>2, PickedIn
    <3>2. s \ {Picked(s)} \in C BY <1>1, <3>1
    <3>3. SumFunctionOnSet(f, s) = f[Picked(s)] + SumFunctionOnSet(f, s \ {Picked(s)})
      BY <2>2, SumStep, FS_Subset
    <3> QED BY <3>1, <3>2, <3>3
  <2> QED BY <2>1, <2>2
<1> HIDE DEF C
<1>2. SUBSET S \subseteq C BY <1>1, SubsetInduction
<1>3. S \in C BY <1>2
<1> QED BY <1>3 DEF C

\* Any element may be taken out first.
LEMMA SumRemove ==
  ASSUME NEW f, NEW S, IsFiniteSet(S), \A y \in S : f[y] \in Int, NEW x \in S
  PROVE  SumFunctionOnSet(f, S) = f[x] + SumFunctionOnSet(f, S \ {x})
<1> DEFINE C == {u \in SUBSET S : \A y \in u : SumFunctionOnSet(f, u) = f[y] + SumFunctionOnSet(f, u \ {y})}
<1>1. ASSUME NEW s \in SUBSET S, \A t \in SUBSET s : t # s => t \in C PROVE s \in C
  <2>1. SUFFICES ASSUME NEW y \in s PROVE SumFunctionOnSet(f, s) = f[y] + SumFunctionOnSet(f, s \ {y})
    OBVIOUS
  <2> DEFINE p == Picked(s)
  <2>2. p \in s /\ IsFiniteSet(s) /\ IsFiniteSet(s \ {y, p}) BY PickedIn, FS_Subset
  <2>3. SumFunctionOnSet(f, s) = f[p] + SumFunctionOnSet(f, s \ {p}) BY <2>2, SumStep
  <2>4. CASE y = p BY <2>3, <2>4
  <2>5. CASE y # p
    <3>1. s \ {p} \in C /\ s \ {y} \in C BY <1>1, <2>2
    <3>2. (s \ {p}) \ {y} = s \ {y, p} /\ (s \ {y}) \ {p} = s \ {y, p} OBVIOUS
    <3>3. SumFunctionOnSet(f, s \ {p}) = f[y] + SumFunctionOnSet(f, s \ {y, p}) BY <2>5, <3>1, <3>2
    <3>4. SumFunctionOnSet(f, s \ {y}) = f[p] + SumFunctionOnSet(f, s \ {y, p}) BY <2>2, <2>5, <3>1, <3>2
    <3>5. SumFunctionOnSet(f, s \ {y, p}) \in Int /\ f[y] \in Int /\ f[p] \in Int BY <2>2, SumType
    <3> QED BY <2>3, <3>3, <3>4, <3>5
  <2> QED BY <2>4, <2>5
<1> HIDE DEF C
<1>2. SUBSET S \subseteq C BY <1>1, SubsetInduction
<1>3. S \in C BY <1>2
<1> QED BY <1>3 DEF C

\* An element that comes in adds its value.
LEMMA SumAdd ==
  ASSUME NEW f, NEW S, IsFiniteSet(S), NEW x, x \notin S, \A y \in S \cup {x} : f[y] \in Int
  PROVE  SumFunctionOnSet(f, S \cup {x}) = SumFunctionOnSet(f, S) + f[x]
<1>1. IsFiniteSet(S \cup {x}) /\ (S \cup {x}) \ {x} = S BY FS_AddElement
<1>2. SumFunctionOnSet(f, S \cup {x}) = f[x] + SumFunctionOnSet(f, S) BY <1>1, SumRemove
<1>3. SumFunctionOnSet(f, S) \in Int BY SumType
<1> QED BY <1>2, <1>3

\* Of naturals, more of them are not less.
LEMMA SumMonotone ==
  ASSUME NEW f, NEW T, IsFiniteSet(T), \A x \in T : f[x] \in Nat, NEW S \in SUBSET T
  PROVE  SumFunctionOnSet(f, S) <= SumFunctionOnSet(f, T)
<1> DEFINE C == {u \in SUBSET T : S \subseteq u => SumFunctionOnSet(f, S) <= SumFunctionOnSet(f, u)}
<1>1. ASSUME NEW s \in SUBSET T, \A t \in SUBSET s : t # s => t \in C PROVE s \in C
  <2>0. IsFiniteSet(s) /\ IsFiniteSet(S) BY FS_Subset
  <2>1. SumFunctionOnSet(f, s) \in Nat /\ SumFunctionOnSet(f, S) \in Nat BY <2>0, SumType
  <2>2. CASE s = S BY <2>1, <2>2
  <2>3. CASE S \subseteq s /\ s # S
    <3>1. PICK x \in s : x \notin S BY <2>3
    <3>2. s \ {x} \in C /\ S \subseteq s \ {x} BY <1>1, <2>3, <3>1
    <3>3. SumFunctionOnSet(f, s) = f[x] + SumFunctionOnSet(f, s \ {x}) BY <2>0, SumRemove
    <3>4. SumFunctionOnSet(f, s \ {x}) \in Nat BY <2>0, FS_Subset, SumType
    <3> QED BY <2>1, <3>2, <3>3, <3>4
  <2> QED BY <2>2, <2>3
<1> HIDE DEF C
<1>2. SUBSET T \subseteq C BY <1>1, SubsetInduction
<1>3. T \in C BY <1>2
<1> QED BY <1>3 DEF C

\* Only the values that are added up matter.
LEMMA SumSame ==
  ASSUME NEW f, NEW h, NEW S, IsFiniteSet(S), \A x \in S : f[x] = h[x]
  PROVE  SumFunctionOnSet(f, S) = SumFunctionOnSet(h, S)
<1> DEFINE C == {u \in SUBSET S : SumFunctionOnSet(f, u) = SumFunctionOnSet(h, u)}
<1>1. ASSUME NEW s \in SUBSET S, \A t \in SUBSET s : t # s => t \in C PROVE s \in C
  <2>1. CASE s = {} BY <2>1, SumOfNone
  <2>2. CASE s # {}
    <3>1. Picked(s) \in s /\ IsFiniteSet(s) BY <2>2, PickedIn, FS_Subset
    <3>2. s \ {Picked(s)} \in C BY <1>1, <3>1
    <3>3. SumFunctionOnSet(f, s) = f[Picked(s)] + SumFunctionOnSet(f, s \ {Picked(s)})
      BY <2>2, <3>1, SumStep
    <3>4. SumFunctionOnSet(h, s) = h[Picked(s)] + SumFunctionOnSet(h, s \ {Picked(s)})
      BY <2>2, <3>1, SumStep
    <3> QED BY <3>1, <3>2, <3>3, <3>4
  <2> QED BY <2>1, <2>2
<1> HIDE DEF C
<1>2. SUBSET S \subseteq C BY <1>1, SubsetInduction
<1>3. S \in C BY <1>2
<1> QED BY <1>3 DEF C

\* A bound on each value is one on the sum.
LEMMA SumBound ==
  ASSUME NEW f, NEW h, NEW S, IsFiniteSet(S), \A x \in S : f[x] \in Int /\ h[x] \in Int /\ f[x] <= h[x]
  PROVE  SumFunctionOnSet(f, S) <= SumFunctionOnSet(h, S)
<1> DEFINE C == {u \in SUBSET S : SumFunctionOnSet(f, u) <= SumFunctionOnSet(h, u)}
<1>1. ASSUME NEW s \in SUBSET S, \A t \in SUBSET s : t # s => t \in C PROVE s \in C
  <2>1. CASE s = {} BY <2>1, SumOfNone
  <2>2. CASE s # {}
    <3>1. Picked(s) \in s /\ IsFiniteSet(s) /\ IsFiniteSet(s \ {Picked(s)}) BY <2>2, PickedIn, FS_Subset
    <3>2. s \ {Picked(s)} \in C BY <1>1, <3>1
    <3>3. SumFunctionOnSet(f, s) = f[Picked(s)] + SumFunctionOnSet(f, s \ {Picked(s)})
      BY <2>2, <3>1, SumStep
    <3>4. SumFunctionOnSet(h, s) = h[Picked(s)] + SumFunctionOnSet(h, s \ {Picked(s)})
      BY <2>2, <3>1, SumStep
    <3>5. SumFunctionOnSet(f, s \ {Picked(s)}) \in Int /\ SumFunctionOnSet(h, s \ {Picked(s)}) \in Int
      BY <3>1, SumType
    <3> QED BY <3>1, <3>2, <3>3, <3>4, <3>5
  <2> QED BY <2>1, <2>2
<1> HIDE DEF C
<1>2. SUBSET S \subseteq C BY <1>1, SubsetInduction
<1>3. S \in C BY <1>2
<1> QED BY <1>3 DEF C

\* Values that are at most m, or one more at the elements of E, sum up to no more than that allows.
LEMMA SumWithin ==
  ASSUME NEW f, NEW S, IsFiniteSet(S), NEW m \in Nat, NEW E \in SUBSET S,
         \A x \in S : f[x] \in Nat /\ f[x] <= m + (IF x \in E THEN 1 ELSE 0)
  PROVE  SumFunctionOnSet(f, S) <= m * Cardinality(S) + Cardinality(E)
<1> DEFINE C == {u \in SUBSET S : SumFunctionOnSet(f, u) <= m * Cardinality(u) + Cardinality(E \cap u)}
<1>1. ASSUME NEW s \in SUBSET S, \A t \in SUBSET s : t # s => t \in C PROVE s \in C
  <2>1. CASE s = {}
    <3>1. SumFunctionOnSet(f, s) = 0 /\ Cardinality(s) = 0 /\ Cardinality(E \cap s) = 0
      BY <2>1, SumOfNone, FS_EmptySet
    <3> QED BY <3>1
  <2>2. CASE s # {}
    <3> DEFINE p == Picked(s)
               r == s \ {p}
    <3>1. p \in s /\ IsFiniteSet(s) /\ IsFiniteSet(r) BY <2>2, PickedIn, FS_Subset
    <3>2. r \in C /\ r \in SUBSET S BY <1>1, <3>1
    <3>3. SumFunctionOnSet(f, s) = f[p] + SumFunctionOnSet(f, r) BY <2>2, <3>1, SumStep
    <3>4. IsFiniteSet(E \cap s) /\ IsFiniteSet(E \cap r) BY <3>1, FS_Subset
    <3> HIDE DEF p, r
    <3>5. Cardinality(r) = Cardinality(s) - 1
      <4>1. Cardinality(s \ {p}) = Cardinality(s) - 1 BY <3>1, FS_RemoveElement
      <4> QED BY <4>1 DEF r
    <3>6. Cardinality(E \cap s) = Cardinality(E \cap r) + (IF p \in E THEN 1 ELSE 0)
      <4>1. CASE p \in E
        <5>1. E \cap r = (E \cap s) \ {p} /\ p \in E \cap s BY <3>1, <4>1 DEF r
        <5>2. Cardinality((E \cap s) \ {p}) = Cardinality(E \cap s) - 1 BY <3>4, <5>1, FS_RemoveElement
        <5>3. Cardinality(E \cap s) \in Nat BY <3>4, FS_CardinalityType
        <5>4. Cardinality(E \cap r) = Cardinality(E \cap s) - 1 BY <5>1, <5>2
        <5>5. Cardinality(E \cap s) = Cardinality(E \cap r) + 1 BY <5>3, <5>4
        <5> QED BY <4>1, <5>5
      <4>2. CASE p \notin E
        <5>1. E \cap r = E \cap s BY <4>2 DEF r
        <5>2. Cardinality(E \cap s) \in Nat BY <3>4, FS_CardinalityType
        <5> QED BY <4>2, <5>1, <5>2
      <4> QED BY <4>1, <4>2
    <3>7. SumFunctionOnSet(f, r) \in Nat
      <4>1. \A x \in r : f[x] \in Nat BY <3>2
      <4> QED BY <3>1, <4>1, SumType
    <3>8. Cardinality(s) \in Nat /\ Cardinality(r) \in Nat /\ Cardinality(E \cap r) \in Nat
      BY <3>1, <3>4, FS_CardinalityType
    <3>9. f[p] \in Nat /\ f[p] <= m + (IF p \in E THEN 1 ELSE 0) BY <3>1
    <3>10. SumFunctionOnSet(f, r) <= m * Cardinality(r) + Cardinality(E \cap r) BY <3>2
    <3>11. m * Cardinality(s) = m * Cardinality(r) + m
      <4>1. \A a \in Nat, b \in Nat : a * (b + 1) = a * b + a OBVIOUS
      <4>2. Cardinality(s) = Cardinality(r) + 1 BY <3>5, <3>8
      <4> QED BY <3>8, <4>1, <4>2
    <3>12. m * Cardinality(r) \in Nat BY <3>8
    <3>13. SumFunctionOnSet(f, s) <= m * Cardinality(s) + Cardinality(E \cap s)
      <4> DEFINE mr == m * Cardinality(r)
                 ms == m * Cardinality(s)
      <4>1. mr \in Nat /\ ms = mr + m /\ SumFunctionOnSet(f, r) <= mr + Cardinality(E \cap r)
        BY <3>10, <3>11, <3>12
      <4> HIDE DEF mr, ms
      <4>2. SumFunctionOnSet(f, s) <= ms + Cardinality(E \cap s)
        BY <3>3, <3>6, <3>7, <3>8, <3>9, <4>1
      <4> QED BY <4>2 DEF ms
    <3> QED BY <3>13
  <2> QED BY <2>1, <2>2
<1> HIDE DEF C
<1>2. SUBSET S \subseteq C BY <1>1, SubsetInduction
<1>3. S \in C BY <1>2
<1>4. E \cap S = E OBVIOUS
<1> QED BY <1>3, <1>4 DEF C

-------------------------------------------------------------------------------
(* Sequences. *)

\* What is left of a sequence when one place is taken out of it.
LEMMA RemoveAtPlaces ==
  ASSUME NEW S, NEW s \in Seq(S), NEW i \in 1..Len(s)
  PROVE  /\ RemoveAt(s, i) \in Seq(S) /\ Len(RemoveAt(s, i)) = Len(s) - 1
         /\ \A j \in 1..(Len(s) - 1) : RemoveAt(s, i)[j] = IF j < i THEN s[j] ELSE s[j + 1]
<1> DEFINE before == SubSeq(s, 1, i - 1)
           after == SubSeq(s, i + 1, Len(s))
<1>1. before \in Seq(S) /\ Len(before) = i - 1 /\ \A j \in 1..(i - 1) : before[j] = s[j] OBVIOUS
<1>2. after \in Seq(S) /\ Len(after) = Len(s) - i /\ \A j \in 1..(Len(s) - i) : after[j] = s[j + i]
  OBVIOUS
<1>3. RemoveAt(s, i) = before \o after BY DEF RemoveAt
<1> HIDE DEF before, after
<1>4. before \o after \in Seq(S) /\ Len(before \o after) = Len(before) + Len(after)
  BY <1>1, <1>2, ConcatProperties
<1>5. Len(s) \in Nat /\ i \in Nat /\ i <= Len(s) /\ i > 0 OBVIOUS
<1>6. \A j \in 1..(Len(before) + Len(after)) :
        (before \o after)[j] = IF j <= Len(before) THEN before[j] ELSE after[j - Len(before)]
  BY <1>1, <1>2, ConcatProperties
<1>7. ASSUME NEW j \in 1..(Len(s) - 1)
      PROVE  RemoveAt(s, i)[j] = IF j < i THEN s[j] ELSE s[j + 1]
  <2>1. CASE j < i BY <1>1, <1>2, <1>3, <1>5, <1>6, <2>1
  <2>2. CASE j >= i
    <3>1. RemoveAt(s, i)[j] = after[j - (i - 1)] BY <1>1, <1>2, <1>3, <1>5, <1>6, <2>2
    <3>2. j - (i - 1) \in 1..(Len(s) - i) /\ (j - (i - 1)) + i = j + 1 BY <1>5, <2>2
    <3> QED BY <1>2, <1>5, <2>2, <3>1, <3>2
  <2> QED BY <1>5, <2>1, <2>2
<1> QED BY <1>1, <1>2, <1>3, <1>4, <1>5, <1>7

\* A finite set of integers has a least element.
LEMMA HasLeast ==
  ASSUME NEW S \in SUBSET Int, IsFiniteSet(S), S # {}
  PROVE  \E m \in S : \A x \in S : m <= x
<1> DEFINE C == {u \in SUBSET S : u # {} => \E m \in u : \A x \in u : m <= x}
<1>1. ASSUME NEW s \in SUBSET S, \A t \in SUBSET s : t # s => t \in C PROVE s \in C
  <2>1. CASE s = {} BY <2>1
  <2>2. CASE s # {}
    <3>1. PICK y \in s : TRUE BY <2>2
    <3>2. s \ {y} \in C BY <1>1, <3>1
    <3>3. CASE s \ {y} = {} BY <3>1, <3>3
    <3>4. CASE s \ {y} # {}
      <4>1. PICK m \in s \ {y} : \A x \in s \ {y} : m <= x BY <3>2, <3>4
      <4>2. \E k \in s : \A x \in s : k <= x
        <5>1. CASE m <= y BY <4>1, <5>1
        <5>2. CASE y <= m BY <3>1, <4>1, <5>2
        <5> QED BY <3>1, <4>1, <5>1, <5>2
      <4> QED BY <4>2
    <3> QED BY <3>3, <3>4
  <2> QED BY <2>1, <2>2
<1> HIDE DEF C
<1>2. SUBSET S \subseteq C BY <1>1, SubsetInduction
<1>3. S \in C BY <1>2
<1> QED BY <1>3 DEF C

\* Counting up to L from 0 one comes to every number there is on the way.
LEMMA CountingUp ==
  ASSUME NEW L \in Nat, NEW C, 0 \in C, \A n \in 0..(L - 1) : n \in C => n + 1 \in C
  PROVE  0..L \subseteq C
<1> DEFINE missed == (0..L) \ C
<1>1. SUFFICES ASSUME missed # {} PROVE FALSE OBVIOUS
<1>2. missed \in SUBSET Int /\ IsFiniteSet(missed)
  <2>1. IsFiniteSet(0..L) BY FS_Interval
  <2> QED BY <2>1, FS_Subset
<1>3. PICK m \in missed : \A x \in missed : m <= x BY <1>1, <1>2, HasLeast
<1>4. m # 0 /\ m - 1 \in 0..(L - 1) /\ m - 1 \notin missed BY <1>3
<1> QED BY <1>3, <1>4

\* A walk of L steps on X: where it is after none, and after each of them.
Walks(g, L, X, start, step) ==
  g \in [0..L -> X] /\ g[0] = start /\ \A n \in 1..L : g[n] = step[<<n, g[n - 1]>>]

\* Any step on X can be repeated as often as one likes.
LEMMA WalkExists ==
  ASSUME NEW L \in Nat, NEW X, NEW start \in X, NEW step \in [(1..L) \X X -> X]
  PROVE  \E g : Walks(g, L, X, start, step)
<1> DEFINE some == {m \in 0..L : \E g : Walks(g, m, X, start, step)}
<1>1. 0 \in some
  <2>1. Walks([n \in 0..0 |-> start], 0, X, start, step) BY DEF Walks
  <2> QED BY <2>1
<1>2. ASSUME NEW m \in 0..(L - 1), m \in some PROVE m + 1 \in some
  <2>1. PICK g : Walks(g, m, X, start, step) BY <1>2
  <2>2. g \in [0..m -> X] /\ g[0] = start /\ \A n \in 1..m : g[n] = step[<<n, g[n - 1]>>]
    BY <2>1 DEF Walks
  <2> DEFINE next == step[<<m + 1, g[m]>>]
             h == [n \in 0..(m + 1) |-> IF n = m + 1 THEN next ELSE g[n]]
  <2>3. next \in X
    <3>1. g[m] \in X /\ m + 1 \in 1..L BY <2>2
    <3> QED BY <3>1
  <2> HIDE DEF next
  <2>4. h \in [0..(m + 1) -> X] BY <2>2, <2>3
  <2>5. h[0] = start BY <2>2
  <2>6. ASSUME NEW n \in 1..(m + 1) PROVE h[n] = step[<<n, h[n - 1]>>]
    <3>1. n - 1 \in 0..m /\ h[n - 1] = g[n - 1] OBVIOUS
    <3>2. CASE n = m + 1
      <4>1. h[n] = next /\ h[n - 1] = g[m] /\ n = m + 1 BY <3>1, <3>2
      <4> HIDE DEF h
      <4> QED BY <4>1 DEF next
    <3>3. CASE n # m + 1
      <4>1. n \in 1..m /\ h[n] = g[n] BY <3>3
      <4> QED BY <2>2, <3>1, <4>1
    <3> QED BY <3>2, <3>3
  <2>7. Walks(h, m + 1, X, start, step) BY <2>4, <2>5, <2>6 DEF Walks
  <2> QED BY <2>7
<1> HIDE DEF some
<1>3. 0..L \subseteq some BY <1>1, <1>2, CountingUp
<1>4. L \in some BY <1>3
<1> QED BY <1>4 DEF some

\* A recursion that goes up from one number to a greater one until it stops; none it goes on from is
\* as great as N, and its answers at the numbers from the first on are in A.
Climbs(N, stop, jump) == \A s \in Nat : s \notin stop => jump[s] \in Nat /\ jump[s] > s /\ s < N
AnswersIn(A, first, stop, answer) == \A s \in Nat : s >= first /\ s \in stop => answer[s] \in A
Leaps(g, stop, jump, answer) == g = [s \in Nat |-> IF s \in stop THEN answer[s] ELSE g[jump[s]]]

\* It ends in some value at every number.
LEMMA LeapsExist ==
  ASSUME NEW N \in Nat, NEW stop, NEW jump, NEW answer,
         Climbs(N, stop, jump)
  PROVE  \E g : Leaps(g, stop, jump, answer)
<1> USE DEF Climbs
<1> DEFINE from(n) == {s \in Nat : s >= N - n}
           Fits(g, n) == DOMAIN g = from(n)
                         /\ \A s \in from(n) : g[s] = IF s \in stop THEN answer[s] ELSE g[jump[s]]
           some == {n \in 0..N : \E g : Fits(g, n)}
<1>1. 0 \in some
  <2> DEFINE h == [s \in from(0) |-> answer[s]]
  <2>1. \A s \in from(0) : s \in stop /\ h[s] = answer[s] OBVIOUS
  <2>2. DOMAIN h = from(0) OBVIOUS
  <2> HIDE DEF h, from
  <2>3. Fits(h, 0) BY <2>1, <2>2
  <2>4. 0 \in 0..N OBVIOUS
  <2> QED BY <2>3, <2>4
<1>2. ASSUME NEW n \in 0..(N - 1), n \in some PROVE n + 1 \in some
  <2>1. PICK g : Fits(g, n) BY <1>2
  <2> DEFINE x == N - (n + 1)
             h == [s \in from(n + 1) |-> IF s = x THEN IF s \in stop THEN answer[s] ELSE g[jump[s]] ELSE g[s]]
  <2>2. x \in Nat /\ n \in Nat OBVIOUS
  <2>3. \A s \in from(n + 1) : s \in Nat /\ s >= x /\ (s # x => s \in from(n)) OBVIOUS
  <2>4. \A s \in Nat : s >= x => s \in from(n + 1) OBVIOUS
  <2>5. \A s \in from(n + 1) : s \notin stop => jump[s] \in from(n) /\ jump[s] \in from(n + 1) /\ jump[s] # x
    BY <2>2, <2>3
  <2>6. ASSUME NEW s \in from(n + 1) PROVE h[s] = IF s \in stop THEN answer[s] ELSE h[jump[s]]
    <3>1. s \notin stop => h[jump[s]] = g[jump[s]] BY <2>5
    <3>2. CASE s = x BY <3>1, <3>2
    <3>3. CASE s # x
      <4>1. h[s] = g[s] /\ s \in from(n) BY <2>3, <3>3
      <4>2. g[s] = IF s \in stop THEN answer[s] ELSE g[jump[s]] BY <2>1, <4>1
      <4> QED BY <3>1, <4>1, <4>2
    <3> QED BY <3>2, <3>3
  <2>7. DOMAIN h = from(n + 1) OBVIOUS
  <2> HIDE DEF h, x, from
  <2>8. Fits(h, n + 1) BY <2>6, <2>7
  <2>9. n + 1 \in 0..N OBVIOUS
  <2> QED BY <2>8, <2>9
<1> HIDE DEF some
<1>3. 0..N \subseteq some BY <1>1, <1>2, CountingUp
<1>4. N \in some BY <1>3
<1>5. PICK g : Fits(g, N) BY <1>4 DEF some
<1>6. from(N) = Nat OBVIOUS
<1> DEFINE h == [s \in Nat |-> g[s]]
<1>7. \A s \in Nat : g[s] = IF s \in stop THEN answer[s] ELSE g[jump[s]] BY <1>5, <1>6
<1>8. \A s \in Nat : h[s] = IF s \in stop THEN answer[s] ELSE h[jump[s]] BY <1>7
<1>9. h = [s \in Nat |-> h[s]] OBVIOUS
<1> HIDE DEF h
<1>10. h = [s \in Nat |-> IF s \in stop THEN answer[s] ELSE h[jump[s]]] BY <1>8, <1>9
<1> QED BY <1>10 DEF Leaps

\* What it ends in from the first on is one of these answers.
LEMMA LeapsType ==
  ASSUME NEW N \in Nat, NEW stop, NEW jump, NEW answer, NEW g, Leaps(g, stop, jump, answer),
         Climbs(N, stop, jump), NEW first \in Nat, NEW A, AnswersIn(A, first, stop, answer)
  PROVE  g[first] \in A
<1> USE DEF Climbs, AnswersIn
<1> DEFINE C == {n \in 0..N : \A s \in Nat : s >= first /\ s >= N - n => g[s] \in A}
<1>1. \A s \in Nat : g[s] = IF s \in stop THEN answer[s] ELSE g[jump[s]] BY DEF Leaps
<1>2. 0 \in C
  <2>1. \A s \in Nat : s >= N - 0 => s \in stop OBVIOUS
  <2>2. \A s \in Nat : s >= first /\ s >= N - 0 => g[s] \in A BY <1>1, <2>1
  <2> QED BY <2>2
<1>3. ASSUME NEW n \in 0..(N - 1), n \in C PROVE n + 1 \in C
  <2>1. ASSUME NEW s \in Nat, s >= first, s >= N - (n + 1) PROVE g[s] \in A
    <3>1. CASE s \in stop BY <1>1, <2>1, <3>1
    <3>2. CASE s \notin stop
      <4>1. g[s] = g[jump[s]] BY <1>1, <3>2
      <4>2. jump[s] \in Nat /\ jump[s] >= first /\ jump[s] >= N - n BY <2>1, <3>2
      <4>3. g[jump[s]] \in A BY <1>3, <4>2
      <4> QED BY <4>1, <4>3
    <3> QED BY <3>1, <3>2
  <2> QED BY <2>1
<1> HIDE DEF C
<1>4. 0..N \subseteq C BY <1>2, <1>3, CountingUp
<1>5. N \in C BY <1>4
<1> QED BY <1>5 DEF C

\* The first place of an element in a sequence, if it has one.
LEMMA FirstPlace ==
  ASSUME NEW S, NEW s \in Seq(S), NEW e
  PROVE  \/ RemoveFirst(s, e) = s /\ \A i \in 1..Len(s) : s[i] # e
         \/ \E i \in 1..Len(s) : s[i] = e /\ RemoveFirst(s, e) = RemoveAt(s, i)
<1> DEFINE I == {i \in 1..Len(s) : s[i] = e}
<1>1. CASE I = {} BY <1>1 DEF RemoveFirst
<1>2. CASE I # {}
  <2>1. I \in SUBSET Int /\ IsFiniteSet(I)
    <3>1. IsFiniteSet(1..Len(s)) BY FS_Interval
    <3> QED BY <3>1, FS_Subset
  <2>2. SelectInSeq(s, LAMBDA v : v = e) = Min(I) BY <1>2 DEF SelectInSeq
  <2>3. Min(I) \in I
    <3> HIDE DEF I
    <3>1. \E m \in I : \A x \in I : m <= x BY <1>2, <2>1, HasLeast
    <3> QED BY <3>1 DEF Min
  <2>4. \E i \in 1..Len(s) : s[i] = e BY <1>2
  <2>5. RemoveFirst(s, e) = RemoveAt(s, Min(I)) BY <2>2, <2>4 DEF RemoveFirst
  <2> QED BY <2>3, <2>5
<1> QED BY <1>1, <1>2

\* Taking the first place of an element out of a sequence leaves a sequence no longer than it was.
LEMMA RemoveFirstShortens ==
  ASSUME NEW S, NEW s \in Seq(S), NEW e
  PROVE  RemoveFirst(s, e) \in Seq(S) /\ Len(RemoveFirst(s, e)) <= Len(s)
<1>1. CASE RemoveFirst(s, e) = s BY <1>1
<1>2. ASSUME NEW i \in 1..Len(s), RemoveFirst(s, e) = RemoveAt(s, i)
      PROVE  RemoveFirst(s, e) \in Seq(S) /\ Len(RemoveFirst(s, e)) <= Len(s)
  <2>1. RemoveAt(s, i) \in Seq(S) /\ Len(RemoveAt(s, i)) = Len(s) - 1 BY RemoveAtPlaces
  <2> QED BY <1>2, <2>1
<1> QED BY <1>1, <1>2, FirstPlace

-------------------------------------------------------------------------------
(* Sequences of sequences: FlattenSeq is a recursive function on places. *)

\* The function FlattenSeq takes the last value of.
Joins(g, s) == g = [i \in 1..Len(s) |-> IF i = 1 THEN s[i] ELSE g[i - 1] \o s[i]]

\* There is one.
LEMMA JoinsExists ==
  ASSUME NEW S, NEW s \in Seq(Seq(S))
  PROVE  \E g : Joins(g, s) /\ g \in [1..Len(s) -> Seq(S)]
<1> DEFINE X == Seq(S)
           L == Len(s)
           step == [p \in (1..L) \X X |-> p[2] \o s[p[1]]]
<1>1. L \in Nat /\ << >> \in X /\ \A n \in 1..L : s[n] \in X OBVIOUS
<1>2. step \in [(1..L) \X X -> X]
  <2>1. ASSUME NEW p \in (1..L) \X X PROVE p[2] \o s[p[1]] \in X
    <3>1. p[2] \in Seq(S) /\ s[p[1]] \in Seq(S) BY <1>1
    <3> QED BY <3>1
  <2> QED BY <2>1
<1>3. \A n \in 1..L, x \in X : step[<<n, x>>] = x \o s[n] OBVIOUS
<1> HIDE DEF step, X, L
<1>4. PICK g : Walks(g, L, X, << >>, step) BY <1>1, <1>2, WalkExists
<1>5. g \in [0..L -> X] /\ g[0] = << >> /\ \A n \in 1..L : g[n] = step[<<n, g[n - 1]>>]
  BY <1>4 DEF Walks
<1>6. \A n \in 1..L : n - 1 \in 0..L /\ g[n - 1] \in X /\ g[n] = g[n - 1] \o s[n]
  <2>1. SUFFICES ASSUME NEW n \in 1..L
                 PROVE  n - 1 \in 0..L /\ g[n - 1] \in X /\ g[n] = g[n - 1] \o s[n]
    OBVIOUS
  <2>2. n - 1 \in 0..L BY <1>1
  <2>3. g[n - 1] \in X BY <1>5, <2>2
  <2>4. g[n] = step[<<n, g[n - 1]>>] BY <1>5
  <2>5. step[<<n, g[n - 1]>>] = g[n - 1] \o s[n] BY <1>3, <2>3
  <2> QED BY <2>2, <2>3, <2>4, <2>5
<1> DEFINE h == [i \in 1..L |-> g[i]]
<1>7. h \in [1..L -> X] BY <1>1, <1>5
<1>8. \A n \in 1..L : h[n] = IF n = 1 THEN s[n] ELSE h[n - 1] \o s[n]
  <2>1. SUFFICES ASSUME NEW n \in 1..L PROVE h[n] = IF n = 1 THEN s[n] ELSE h[n - 1] \o s[n] OBVIOUS
  <2>2. h[n] = g[n] OBVIOUS
  <2>3. CASE n = 1
    <3>1. g[n] = << >> \o s[n]
      <4>1. g[n] = g[n - 1] \o s[n] /\ n - 1 = 0
        <5>1. g[n] = g[n - 1] \o s[n] BY <1>6
        <5> QED BY <2>3, <5>1
      <4>2. g[n - 1] = << >> BY <1>5, <4>1
      <4> QED BY <4>1, <4>2
    <3>2. s[n] \in Seq(S) BY <1>1 DEF X
    <3> QED BY <2>2, <2>3, <3>1, <3>2
  <2>4. CASE n # 1
    <3>1. n - 1 \in 1..L /\ h[n - 1] = g[n - 1] BY <1>1, <2>4
    <3> HIDE DEF h
    <3> QED BY <1>6, <2>2, <2>4, <3>1
  <2> QED BY <2>3, <2>4
<1>9. h = [i \in 1..L |-> IF i = 1 THEN s[i] ELSE h[i - 1] \o s[i]] BY <1>7, <1>8
<1>10. Joins(h, s) BY <1>9 DEF Joins, L
<1> QED BY <1>7, <1>10 DEF L, X

\* The recursion at one place.
LEMMA JoinsAt ==
  ASSUME NEW s, NEW g, Joins(g, s), NEW i \in 1..Len(s)
  PROVE  g[i] = IF i = 1 THEN s[i] ELSE g[i - 1] \o s[i]
BY DEF Joins

\* Two sequences begin with the same n elements.
Alike(s, t, n) == \A i \in 1..n : s[i] = t[i]

\* Sequences that begin alike are joined alike so far.
LEMMA JoinsAgree ==
  ASSUME NEW S, NEW s \in Seq(Seq(S)), NEW t \in Seq(Seq(S)),
         NEW g, NEW h, Joins(g, s), Joins(h, t), NEW n \in Nat, n <= Len(s), n <= Len(t), Alike(s, t, n),
         NEW last \in 1..n
  PROVE  g[last] = h[last]
<1> DEFINE C == {i \in 0..n : i = 0 \/ g[i] = h[i]}
<1>1. ASSUME NEW i \in 0..(n - 1), i \in C PROVE i + 1 \in C
  <2>1. i + 1 \in 1..n /\ i + 1 \in 1..Len(s) /\ i + 1 \in 1..Len(t) /\ (i + 1) - 1 = i
    OBVIOUS
  <2>2. g[i + 1] = IF i + 1 = 1 THEN s[i + 1] ELSE g[i] \o s[i + 1] BY <2>1, JoinsAt
  <2>3. h[i + 1] = IF i + 1 = 1 THEN t[i + 1] ELSE h[i] \o t[i + 1] BY <2>1, JoinsAt
  <2>4. s[i + 1] = t[i + 1] /\ (i # 0 => g[i] = h[i]) BY <1>1, <2>1 DEF Alike
  <2>5. g[i + 1] = h[i + 1] BY <2>2, <2>3, <2>4
  <2> QED BY <2>1, <2>5
<1>2. 0 \in C OBVIOUS
<1> HIDE DEF C
<1>3. 0..n \subseteq C BY <1>1, <1>2, CountingUp
<1> QED BY <1>3 DEF C

\* What a sequence of sequences comes to.
LEMMA FlattenIs ==
  ASSUME NEW S, NEW s \in Seq(Seq(S)), NEW g, Joins(g, s), s # << >>
  PROVE  FlattenSeq(s) = g[Len(s)]
<1> DEFINE f == CHOOSE k : Joins(k, s)
<1>1. Joins(f, s) OBVIOUS
<1>2. Len(s) \in Nat /\ Len(s) > 0 OBVIOUS
<1>3. FlattenSeq(s) = f[Len(s)] BY <1>2 DEF FlattenSeq, Joins
<1> HIDE DEF f
<1>4. Len(s) \in 1..Len(s) BY <1>2
<1>5. f[Len(s)] = g[Len(s)] BY <1>1, <1>2, <1>4, JoinsAgree DEF Alike
<1> QED BY <1>3, <1>5

\* Nothing comes to nothing.
LEMMA FlattenNone == FlattenSeq(<< >>) = << >>
BY DEF FlattenSeq

\* What is joined is a sequence of the same elements.
LEMMA FlattenType ==
  ASSUME NEW S, NEW s \in Seq(Seq(S))
  PROVE  FlattenSeq(s) \in Seq(S)
<1>1. CASE s = << >>
  <2>1. << >> \in Seq(S) OBVIOUS
  <2> QED BY <1>1, <2>1, FlattenNone
<1>2. CASE s # << >>
  <2>1. PICK g : Joins(g, s) /\ g \in [1..Len(s) -> Seq(S)] BY JoinsExists
  <2>2. FlattenSeq(s) = g[Len(s)] BY <1>2, <2>1, FlattenIs
  <2>3. Len(s) \in 1..Len(s) BY <1>2
  <2> QED BY <2>1, <2>2, <2>3
<1> QED BY <1>1, <1>2

\* One more sequence at the end.
LEMMA FlattenAppend ==
  ASSUME NEW S, NEW s \in Seq(Seq(S)), NEW x \in Seq(S)
  PROVE  FlattenSeq(Append(s, x)) = FlattenSeq(s) \o x
<1>1. PICK t : t = Append(s, x) OBVIOUS
<1>2. PICK n : n = Len(s) OBVIOUS
<1>3. t \in Seq(Seq(S)) /\ Len(t) = n + 1 /\ t[n + 1] = x /\ t # << >>
  BY <1>1, <1>2, AppendProperties
<1>4. n \in Nat /\ n + 1 \in 1..Len(t) /\ (n + 1) - 1 = n BY <1>2, <1>3
<1>5. Alike(s, t, n) BY <1>1, <1>2, AppendProperties DEF Alike
<1>6. PICK h : Joins(h, t) BY <1>3, JoinsExists
<1>7. FlattenSeq(t) = h[n + 1] BY <1>3, <1>6, FlattenIs
<1>8. h[n + 1] = IF n + 1 = 1 THEN x ELSE h[n] \o x BY <1>3, <1>4, <1>6, JoinsAt
<1>9. CASE s = << >>
  <2>1. h[n + 1] = x /\ FlattenSeq(s) = << >> BY <1>2, <1>8, <1>9, FlattenNone
  <2>2. << >> \o x = x OBVIOUS
  <2> QED BY <1>1, <1>7, <2>1, <2>2
<1>10. CASE s # << >>
  <2>1. PICK g : Joins(g, s) BY JoinsExists
  <2>2. FlattenSeq(s) = g[n] BY <1>2, <1>10, <2>1, FlattenIs
  <2>3. n \in 1..n /\ n + 1 # 1 BY <1>2, <1>10
  <2>4. n <= Len(s) /\ n <= Len(t) /\ Len(s) \in Nat /\ Len(t) \in Nat BY <1>2, <1>3, <1>4
  <2>5. g[n] = h[n]
    <3>1. t \in Seq(Seq(S)) BY <1>3
    <3>2. n \in Nat BY <1>4
    <3>3. n \in 1..n BY <2>3
    <3>4. n <= Len(s) BY <2>4
    <3>5. n <= Len(t) BY <2>4
    <3> QED BY ONLY <1>5, <1>6, <2>1, <3>1, <3>2, <3>3, <3>4, <3>5, JoinsAgree, SMT
  <2> QED BY <1>1, <1>7, <1>8, <2>2, <2>3, <2>5
<1> QED BY <1>9, <1>10

\* Joining three sequences, one way or the other.
LEMMA JoinedThrice ==
  ASSUME NEW T, NEW s \in Seq(T), NEW t \in Seq(T), NEW u \in Seq(T)
  PROVE  (s \o t) \o u = s \o (t \o u)
<1>0. s \o t \in Seq(T) /\ t \o u \in Seq(T) BY ConcatProperties
<1>1. PICK a \in Seq(T) : a = s \o t BY <1>0
<1>2. PICK b \in Seq(T) : b = t \o u BY <1>0
<1>3. /\ Len(a) = Len(s) + Len(t)
      /\ \A i \in 1..(Len(s) + Len(t)) : a[i] = IF i <= Len(s) THEN s[i] ELSE t[i - Len(s)]
  BY <1>1, ConcatProperties
<1>4. /\ Len(b) = Len(t) + Len(u)
      /\ \A i \in 1..(Len(t) + Len(u)) : b[i] = IF i <= Len(t) THEN t[i] ELSE u[i - Len(t)]
  BY <1>2, ConcatProperties
<1>5. a \o u \in Seq(T) /\ Len(a \o u) = Len(a) + Len(u)
      /\ \A i \in 1..(Len(a) + Len(u)) : (a \o u)[i] = IF i <= Len(a) THEN a[i] ELSE u[i - Len(a)]
  BY ONLY ConcatProperties
<1>6. s \o b \in Seq(T) /\ Len(s \o b) = Len(s) + Len(b)
      /\ \A i \in 1..(Len(s) + Len(b)) : (s \o b)[i] = IF i <= Len(s) THEN s[i] ELSE b[i - Len(s)]
  BY ONLY ConcatProperties
<1>7. Len(s) \in Nat /\ Len(t) \in Nat /\ Len(u) \in Nat BY LenProperties
<1>8. Len(a \o u) = Len(s) + Len(t) + Len(u) /\ Len(s \o b) = Len(s) + Len(t) + Len(u)
  BY <1>3, <1>4, <1>5, <1>6, <1>7
<1>9. ASSUME NEW i \in 1..(Len(s) + Len(t) + Len(u)) PROVE (a \o u)[i] = (s \o b)[i]
  <2>1. i \in Int /\ i >= 1 /\ i <= Len(s) + Len(t) + Len(u) BY <1>7
  <2>2. (a \o u)[i] = IF i <= Len(s) + Len(t) THEN a[i] ELSE u[i - (Len(s) + Len(t))]
    BY <1>3, <1>5, <1>7, <2>1
  <2>3. (s \o b)[i] = IF i <= Len(s) THEN s[i] ELSE b[i - Len(s)] BY <1>4, <1>6, <1>7, <2>1
  <2>4. CASE i <= Len(s) BY <1>3, <1>7, <2>1, <2>2, <2>3, <2>4
  <2>5. CASE i > Len(s) /\ i <= Len(s) + Len(t)
    <3>1. a[i] = t[i - Len(s)] BY <1>3, <1>7, <2>1, <2>5
    <3>2. i - Len(s) \in 1..(Len(t) + Len(u)) /\ i - Len(s) <= Len(t) BY <1>7, <2>1, <2>5
    <3>3. b[i - Len(s)] = t[i - Len(s)] BY <1>4, <3>2
    <3>4. ~(i <= Len(s)) BY <1>7, <2>1, <2>5
    <3> QED BY <2>2, <2>3, <2>5, <3>1, <3>3, <3>4
  <2>6. CASE i > Len(s) + Len(t)
    <3>1. i - Len(s) \in 1..(Len(t) + Len(u)) /\ ~(i - Len(s) <= Len(t)) BY <1>7, <2>1, <2>6
    <3>2. b[i - Len(s)] = u[(i - Len(s)) - Len(t)] BY <1>4, <3>1
    <3>3. (i - Len(s)) - Len(t) = i - (Len(s) + Len(t)) BY <1>7, <2>1
    <3>4. ~(i <= Len(s)) /\ ~(i <= Len(s) + Len(t)) BY <1>7, <2>1, <2>6
    <3> QED BY <2>2, <2>3, <3>2, <3>3, <3>4
  <2>7. i <= Len(s) \/ (i > Len(s) /\ i <= Len(s) + Len(t)) \/ i > Len(s) + Len(t) BY <1>7, <2>1
  <2> QED BY <2>4, <2>5, <2>6, <2>7
<1>10. a \o u = s \o b
  <2>1. PICK p \in Seq(T) : p = a \o u BY <1>5
  <2>2. PICK q \in Seq(T) : q = s \o b BY <1>6
  <2>3. Len(p) = Len(q) /\ \A i \in 1..Len(p) : p[i] = q[i] BY <1>8, <1>9, <2>1, <2>2
  <2>4. p = q BY ONLY <2>3, SeqEqual
  <2> QED BY <2>1, <2>2, <2>4
<1> QED BY <1>1, <1>2, <1>10

\* One more element, after two sequences or after the second of them.
LEMMA AppendToSecond ==
  ASSUME NEW T, NEW s \in Seq(T), NEW t \in Seq(T), NEW x \in T
  PROVE  s \o Append(t, x) = Append(s \o t, x)
<1>1. <<x>> \in Seq(T) /\ s \o t \in Seq(T) BY ConcatProperties
<1>2. Append(t, x) = t \o <<x>> BY AppendIsConcat
<1>3. Append(s \o t, x) = (s \o t) \o <<x>> BY <1>1, AppendIsConcat
<1>4. (s \o t) \o <<x>> = s \o (t \o <<x>>) BY <1>1, JoinedThrice
<1> QED BY <1>2, <1>3, <1>4

\* A prefix one element longer.
LEMMA LongerPrefix ==
  ASSUME NEW T, NEW t \in Seq(T), NEW n \in 0..(Len(t) - 1)
  PROVE  /\ SubSeq(t, 1, n) \in Seq(T) /\ t[n + 1] \in T
         /\ SubSeq(t, 1, n + 1) = Append(SubSeq(t, 1, n), t[n + 1])
<1>1. Len(t) \in Nat /\ n + 1 \in 1..Len(t) /\ (n + 1) - 1 = n BY LenProperties
<1>2. t[n + 1] \in T BY <1>1, ElementOfSeq
<1>3. \A i \in 1..n : t[i] \in T BY <1>1, ElementOfSeq
<1>4. SubSeq(t, 1, n) \in Seq(T) BY <1>1, <1>3, SubSeqProperties
<1>5. SubSeq(t, 1, n + 1) = SubSeq(t, 1, n) \o <<t[n + 1]>>
  <2>1. 1 \in 1..Len(t) /\ n + 1 \in 1..Len(t) BY <1>1
  <2>2. SubSeq(t, 1, n + 1) = SubSeq(t, 1, (n + 1) - 1) \o <<t[n + 1]>>
    BY <2>1, SubSeqRecursiveSecond
  <2> QED BY <1>1, <2>2
<1> QED BY <1>2, <1>4, <1>5, AppendIsConcat

\* A sequence cut in two.
LEMMA CutInTwo ==
  ASSUME NEW T, NEW s \in Seq(T), NEW n \in 0..Len(s)
  PROVE  /\ SubSeq(s, 1, n) \in Seq(T) /\ SubSeq(s, n + 1, Len(s)) \in Seq(T)
         /\ SubSeq(s, 1, n) \o SubSeq(s, n + 1, Len(s)) = s
<1>1. Len(s) \in Nat BY LenProperties
<1>2. \A i \in 1..n : s[i] \in T BY <1>1, ElementOfSeq
<1>3. \A i \in (n + 1)..Len(s) : s[i] \in T BY <1>1, ElementOfSeq
<1>4. SubSeq(s, 1, n) \in Seq(T) BY <1>1, <1>2, SubSeqProperties
<1>5. SubSeq(s, n + 1, Len(s)) \in Seq(T) BY <1>1, <1>3, SubSeqProperties
<1>6. SubSeq(s, 1, n) \o SubSeq(s, n + 1, Len(s)) = SubSeq(s, 1, Len(s))
  <2>1. 1 \in 1..(Len(s) + 1) /\ n \in (1 - 1)..Len(s) /\ Len(s) \in n..Len(s) BY <1>1
  <2> QED BY <2>1, ConcatAdjacentSubSeq
<1>7. SubSeq(s, 1, Len(s)) = s BY SubSeqFull
<1> QED BY <1>4, <1>5, <1>6, <1>7

\* Two parts come to the same joined each for itself or together.
Parts(s, v) == FlattenSeq(s \o v) = FlattenSeq(s) \o FlattenSeq(v)

\* One more sequence in the second of them.
LEMMA FlattenConcatMore ==
  ASSUME NEW S, NEW s, NEW v, NEW x,
         s \in Seq(Seq(S)), v \in Seq(Seq(S)), x \in Seq(S), Parts(s, v)
  PROVE  Parts(s, Append(v, x))
<1>1. s \o Append(v, x) = Append(s \o v, x)
  <2> DEFINE T == Seq(S)
  <2>1. s \in Seq(T) /\ v \in Seq(T) /\ x \in T OBVIOUS
  <2> HIDE DEF T
  <2> QED BY ONLY <2>1, AppendToSecond
<1>2. s \o v \in Seq(Seq(S)) BY ConcatProperties
<1>3. FlattenSeq(Append(s \o v, x)) = FlattenSeq(s \o v) \o x BY <1>2, FlattenAppend
<1>4. FlattenSeq(Append(v, x)) = FlattenSeq(v) \o x BY FlattenAppend
<1>5. FlattenSeq(s) \in Seq(S) /\ FlattenSeq(v) \in Seq(S) BY FlattenType
<1>6. (FlattenSeq(s) \o FlattenSeq(v)) \o x = FlattenSeq(s) \o (FlattenSeq(v) \o x)
  <2>1. x \in Seq(S) OBVIOUS
  <2> QED BY ONLY <1>5, <2>1, JoinedThrice
<1>7. FlattenSeq(s \o v) = FlattenSeq(s) \o FlattenSeq(v) BY DEF Parts
<1> QED BY ONLY <1>1, <1>3, <1>4, <1>6, <1>7 DEF Parts

\* So it is with any two parts.
LEMMA FlattenConcat ==
  ASSUME NEW S, NEW s \in Seq(Seq(S)), NEW t \in Seq(Seq(S))
  PROVE  FlattenSeq(s \o t) = FlattenSeq(s) \o FlattenSeq(t)
<1> DEFINE L == Len(t)
           u(n) == SubSeq(t, 1, n)
           C == {n \in 0..L : Parts(s, u(n))}
<1>1. L \in Nat BY LenProperties
<1>2. 0 \in C
  <2>1. u(0) = << >> BY SubSeqEmpty
  <2>2. s \o << >> = s BY ConcatEmptySeq
  <2>3. FlattenSeq(s) \o << >> = FlattenSeq(s) BY FlattenType, ConcatEmptySeq
  <2>4. Parts(s, u(0)) BY <2>1, <2>2, <2>3, FlattenNone DEF Parts
  <2> QED BY <1>1, <2>4
<1>3. ASSUME NEW n \in 0..(L - 1), n \in C PROVE n + 1 \in C
  <2>1. u(n) \in Seq(Seq(S)) /\ t[n + 1] \in Seq(S) /\ u(n + 1) = Append(u(n), t[n + 1])
    BY LongerPrefix
  <2>2. Parts(s, u(n)) BY <1>3
  <2>3. s \in Seq(Seq(S)) OBVIOUS
  <2> HIDE DEF u
  <2>4. Parts(s, u(n + 1)) BY ONLY <2>1, <2>2, <2>3, FlattenConcatMore
  <2> QED BY <1>1, <2>4
<1> HIDE DEF C
<1>4. 0..L \subseteq C BY <1>1, <1>2, <1>3, CountingUp
<1>5. L \in C BY <1>1, <1>4
<1>6. u(L) = t BY SubSeqFull
<1> QED BY <1>5, <1>6 DEF C, Parts

\* A sequence by itself.
LEMMA FlattenOne == ASSUME NEW S, NEW x \in Seq(S) PROVE FlattenSeq(<<x>>) = x
<1>1. << >> \in Seq(Seq(S)) /\ Append(<< >>, x) = <<x>> OBVIOUS
<1>2. FlattenSeq(Append(<< >>, x)) = FlattenSeq(<< >>) \o x BY <1>1, FlattenAppend
<1>3. << >> \o x = x BY ConcatEmptySeq
<1> QED BY <1>1, <1>2, <1>3, FlattenNone

\* A finite set of integers has a greatest element.
LEMMA HasGreatest ==
  ASSUME NEW S \in SUBSET Int, IsFiniteSet(S), S # {}
  PROVE  \E m \in S : \A x \in S : m >= x
<1> DEFINE C == {u \in SUBSET S : u # {} => \E m \in u : \A x \in u : m >= x}
<1>1. ASSUME NEW s \in SUBSET S, \A t \in SUBSET s : t # s => t \in C PROVE s \in C
  <2>1. CASE s = {} BY <2>1
  <2>2. CASE s # {}
    <3>1. PICK y \in s : TRUE BY <2>2
    <3>2. s \ {y} \in C BY <1>1, <3>1
    <3>3. CASE s \ {y} = {} BY <3>1, <3>3
    <3>4. CASE s \ {y} # {}
      <4>1. PICK m \in s \ {y} : \A x \in s \ {y} : m >= x BY <3>2, <3>4
      <4>2. \E k \in s : \A x \in s : k >= x
        <5>1. CASE m >= y BY <4>1, <5>1
        <5>2. CASE y >= m BY <3>1, <4>1, <5>2
        <5> QED BY <3>1, <4>1, <5>1, <5>2
      <4> QED BY <4>2
    <3> QED BY <3>3, <3>4
  <2> QED BY <2>1, <2>2
<1> HIDE DEF C
<1>2. SUBSET S \subseteq C BY <1>1, SubsetInduction
<1>3. S \in C BY <1>2
<1> QED BY <1>3 DEF C

\* What a function makes of a finite set is finite.
LEMMA ImageFinite ==
  ASSUME NEW S, IsFiniteSet(S), NEW f
  PROVE  IsFiniteSet({f[x] : x \in S})
<1> DEFINE T == {f[x] : x \in S}
           g == [x \in S |-> f[x]]
<1>1. g \in Surjection(S, T) BY DEF Surjection
<1> QED BY <1>1, FS_Surjection

\* A strict order of the elements of S: below tells, of each, which come before it; and the places
\* this gives them, by how many those are.
Orders(below, S) ==
  /\ below \in [S -> SUBSET S]
  /\ \A i \in S : i \notin below[i]
  /\ \A i, j \in S : i # j => i \in below[j] \/ j \in below[i]
  /\ \A i, j \in S : i \in below[j] => below[i] \subseteq below[j]
Ranks(below, S) ==
  /\ Cardinality(S) \in Nat
  /\ \A i \in S : Cardinality(below[i]) \in 0..(Cardinality(S) - 1)
  /\ \A i, j \in S : Cardinality(below[i]) = Cardinality(below[j]) => i = j
  /\ \A k \in 1..Cardinality(S) : \E i \in S : Cardinality(below[i]) = k - 1

\* Elements that are ordered have a place each.
LEMMA RanksAre ==
  ASSUME NEW S, IsFiniteSet(S), NEW below, Orders(below, S)
  PROVE  Ranks(below, S)
<1> USE DEF Orders
<1> DEFINE N == Cardinality(S)
           rank == [i \in S |-> Cardinality(below[i])]
<1>1. N \in Nat BY FS_CardinalityType
<1>2. ASSUME NEW i \in S PROVE rank[i] \in 0..(N - 1)
  <2>1. below[i] \subseteq S /\ below[i] # S OBVIOUS
  <2>2. IsFiniteSet(below[i]) /\ Cardinality(below[i]) <= N /\ Cardinality(below[i]) # N
    BY <2>1, FS_Subset
  <2>3. Cardinality(below[i]) \in Nat BY <2>2, FS_CardinalityType
  <2> QED BY <1>1, <2>2, <2>3
<1>3. ASSUME NEW i \in S, NEW j \in S, i \in below[j] PROVE rank[i] # rank[j]
  <2>1. below[i] \subseteq below[j] /\ below[i] # below[j] BY <1>3
  <2>2. IsFiniteSet(below[j]) BY FS_Subset
  <2> QED BY <2>1, <2>2, FS_Subset
<1>4. \A i, j \in S : rank[i] = rank[j] => i = j BY <1>3
<1>5. rank \in Injection(S, 0..(N - 1)) BY <1>2, <1>4 DEF Injection, IsInjective
<1>6. IsFiniteSet(0..(N - 1)) /\ Cardinality(0..(N - 1)) = N BY <1>1, FS_Interval
<1>7. rank \in Surjection(S, 0..(N - 1)) BY <1>5, <1>6, FS_Injection
<1>8. ASSUME NEW k \in 1..N PROVE \E i \in S : rank[i] = k - 1
  <2>1. k - 1 \in 0..(N - 1) BY <1>1
  <2> QED BY <1>7, <2>1 DEF Surjection
<1> QED BY <1>1, <1>2, <1>4, <1>8 DEF Ranks

===============================================================================
