-------------------------------- MODULE Sums --------------------------------
(***************************************************************************)
(* What the sums of the books do when an entry is added, taken away or     *)
(* changed: facts about SumFunctionOnSet of the community modules, for     *)
(* every finite set.                                                       *)
(*                                                                         *)
(* The sum is a recursive function on the subsets of the set, so both that *)
(* it is well defined and what it adds up to need induction over finite    *)
(* sets.  SubsetInduction is that induction with a set of subsets in place *)
(* of a predicate; it follows from the strict-subset ordering of a finite  *)
(* set being well founded.                                                 *)
(***************************************************************************)
EXTENDS Integers, Functions, FiniteSets, FiniteSetTheorems, TLAPS

(* A set of subsets of S that has every subset all of whose proper subsets *)
(* it has is the set of all subsets.                                       *)
LEMMA SubsetInduction ==
    ASSUME NEW S, IsFiniteSet(S), NEW G,
           \A t \in SUBSET S : (\A u \in SUBSET t : u # t => u \in G) => t \in G
    PROVE  SUBSET S \subseteq G
  <1> DEFINE T == (SUBSET S) \ G
  <1>1. SUFFICES ASSUME T # {} PROVE FALSE
    OBVIOUS
  <1>2. IsWellFoundedOn(StrictSubsetOrdering(S), FiniteSubsetsOf(S))
    BY FS_StrictSubsetOrderingWellFounded
  <1>3. T \subseteq FiniteSubsetsOf(S)
    BY FS_Subset DEF FiniteSubsetsOf
  <1> HIDE DEF T
  <1>4. PICK t \in T : \A u \in T : ~ (<<u, t>> \in StrictSubsetOrdering(S))
    BY <1>1, <1>2, <1>3, WFMin
  <1>5. \A u \in SUBSET t : u # t => u \in G
    BY <1>4 DEF T, StrictSubsetOrdering
  <1> QED BY <1>4, <1>5 DEF T

-----------------------------------------------------------------------------
(* The recursion behind the sum.                                           *)

Pick(s) == CHOOSE x \in s : TRUE

(* g sums f over every subset of S, one picked element at a time.          *)
Adds(g, f, S) ==
    g = [s \in SUBSET S |-> IF s = {} THEN 0 ELSE f[Pick(s)] + g[s \ {Pick(s)}]]

LEMMA SumIsChosen ==
    ASSUME NEW f, NEW S
    PROVE  SumFunctionOnSet(f, S) = (CHOOSE g : Adds(g, f, S))[S]
  BY Zenon DEF SumFunctionOnSet, FoldFunctionOnSet, MapThenFoldSet, Adds, Pick

LEMMA PickIn == ASSUME NEW s, s # {} PROVE Pick(s) \in s
  BY DEF Pick

LEMMA AddsAt ==
    ASSUME NEW f, NEW S, NEW g, Adds(g, f, S), NEW s \in SUBSET S
    PROVE  g[s] = IF s = {} THEN 0 ELSE f[Pick(s)] + g[s \ {Pick(s)}]
  BY DEF Adds

LEMMA AddsUnique ==
    ASSUME NEW f, NEW A, IsFiniteSet(A), NEW B, A \subseteq B, NEW g, NEW h,
           Adds(g, f, A), Adds(h, f, B)
    PROVE  g[A] = h[A]
  <1> DEFINE G == {s \in SUBSET A : g[s] = h[s]}
  <1>1. ASSUME NEW t \in SUBSET A, \A u \in SUBSET t : u # t => u \in G
        PROVE  t \in G
    <2>1. CASE t = {}
      <3>1. g[t] = 0 /\ h[t] = 0
        BY <2>1, AddsAt
      <3> QED BY <3>1
    <2>2. CASE t # {}
      <3>1. t \ {Pick(t)} \in G
        BY <1>1, <2>2, PickIn
      <3>2. g[t] = f[Pick(t)] + g[t \ {Pick(t)}]
        BY <2>2, AddsAt
      <3>3. h[t] = f[Pick(t)] + h[t \ {Pick(t)}]
        BY <2>2, AddsAt
      <3> QED BY <3>1, <3>2, <3>3
    <2> QED BY <2>1, <2>2
  <1> HIDE DEF G
  <1>2. SUBSET A \subseteq G
    BY <1>1, SubsetInduction
  <1> QED BY <1>2 DEF G

LEMMA AddsExists ==
    ASSUME NEW f, NEW S, IsFiniteSet(S)
    PROVE  \E g : Adds(g, f, S)
  <1> DEFINE G == {t \in SUBSET S : \E g : Adds(g, f, t)}
  <1>1. ASSUME NEW t \in SUBSET S, \A u \in SUBSET t : u # t => u \in G
        PROVE  t \in G
    <2> DEFINE below(u) == CHOOSE g : Adds(g, f, u)
               total == [s \in SUBSET t |->
                           IF s = {} THEN 0
                           ELSE f[Pick(s)] + below(s \ {Pick(s)})[s \ {Pick(s)}]]
    <2>1. ASSUME NEW u \in SUBSET t, u # t PROVE Adds(below(u), f, u)
      BY <1>1, <2>1
    <2> HIDE DEF below
    <2>2. ASSUME NEW u \in SUBSET t, u # t PROVE total[u] = below(u)[u]
      <3>1. Adds(below(u), f, u)
        BY <2>1, <2>2
      <3>2. CASE u = {}
        <4>1. below(u)[u] = 0
          BY <3>1, <3>2, AddsAt
        <4> QED BY <3>2, <4>1
      <3>3. CASE u # {}
        <4> DEFINE v == u \ {Pick(u)}
        <4>1. total[u] = f[Pick(u)] + below(v)[v]
          BY <3>3
        <4>2. v \in SUBSET t /\ v # t /\ v \subseteq u
          BY <3>3, PickIn
        <4>3. below(u)[u] = f[Pick(u)] + below(u)[v]
          BY <3>1, <3>3, AddsAt
        <4> HIDE DEF total, v
        <4>4. Adds(below(v), f, v) /\ IsFiniteSet(v)
          BY <2>1, <4>2, FS_Subset
        <4>5. below(v)[v] = below(u)[v]
          BY <3>1, <4>2, <4>4, AddsUnique
        <4> QED BY <4>1, <4>3, <4>5
      <3> QED BY <3>2, <3>3
    <2>3. ASSUME NEW s \in SUBSET t, s # {}
          PROVE  total[s] = f[Pick(s)] + total[s \ {Pick(s)}]
      <3>1. s \ {Pick(s)} \in SUBSET t /\ s \ {Pick(s)} # t
        BY <2>3, PickIn
      <3> QED BY <2>3, <3>1, <2>2
    <2>4. total = [s \in SUBSET t |-> total[s]] /\ total[{}] = 0
      OBVIOUS
    <2> HIDE DEF total
    <2>5. total = [s \in SUBSET t |-> IF s = {} THEN 0 ELSE f[Pick(s)] + total[s \ {Pick(s)}]]
      BY <2>3, <2>4
    <2> QED BY <2>5 DEF Adds
  <1> HIDE DEF G
  <1>2. SUBSET S \subseteq G
    BY <1>1, SubsetInduction
  <1> QED BY <1>2 DEF G

(* One recursion sums all subsets of S.                                    *)
LEMMA SumIsAdded ==
    ASSUME NEW f, NEW S, IsFiniteSet(S)
    PROVE  \E g : Adds(g, f, S) /\ \A s \in SUBSET S : g[s] = SumFunctionOnSet(f, s)
  <1>1. PICK g : Adds(g, f, S)
    BY AddsExists
  <1>2. ASSUME NEW s \in SUBSET S PROVE g[s] = SumFunctionOnSet(f, s)
    <2>1. IsFiniteSet(s)
      BY FS_Subset
    <2>2. Adds(CHOOSE h : Adds(h, f, s), f, s)
      BY <2>1, AddsExists
    <2>3. (CHOOSE h : Adds(h, f, s))[s] = g[s]
      BY <1>1, <2>1, <2>2, AddsUnique
    <2> QED BY <2>3, SumIsChosen
  <1> QED BY <1>1, <1>2

-----------------------------------------------------------------------------
(* The sum.                                                                *)

LEMMA SumEmpty == ASSUME NEW f PROVE SumFunctionOnSet(f, {}) = 0
  <1>1. IsFiniteSet({}) /\ {} \in SUBSET {}
    BY FS_EmptySet
  <1>2. PICK g : Adds(g, f, {}) /\ \A s \in SUBSET {} : g[s] = SumFunctionOnSet(f, s)
    BY <1>1, SumIsAdded
  <1>3. g[{}] = 0
    BY <1>1, <1>2, AddsAt
  <1> QED BY <1>1, <1>2, <1>3

LEMMA SumPick ==
    ASSUME NEW f, NEW S, IsFiniteSet(S), S # {}
    PROVE  SumFunctionOnSet(f, S) = f[Pick(S)] + SumFunctionOnSet(f, S \ {Pick(S)})
  <1>1. PICK g : Adds(g, f, S) /\ \A s \in SUBSET S : g[s] = SumFunctionOnSet(f, s)
    BY SumIsAdded
  <1>2. S \in SUBSET S /\ S \ {Pick(S)} \in SUBSET S
    OBVIOUS
  <1>3. g[S] = f[Pick(S)] + g[S \ {Pick(S)}]
    BY <1>1, <1>2, AddsAt
  <1> QED BY <1>1, <1>2, <1>3

(* A sum of whole numbers is a whole number.                               *)
LEMMA SumInt ==
    ASSUME NEW f, NEW S, IsFiniteSet(S), \A x \in S : f[x] \in Int
    PROVE  SumFunctionOnSet(f, S) \in Int
  <1> DEFINE G == {s \in SUBSET S : SumFunctionOnSet(f, s) \in Int}
  <1>1. ASSUME NEW t \in SUBSET S, \A u \in SUBSET t : u # t => u \in G
        PROVE  t \in G
    <2>1. CASE t = {}
      BY <2>1, SumEmpty
    <2>2. CASE t # {}
      <3>1. Pick(t) \in t /\ IsFiniteSet(t)
        BY <2>2, PickIn, FS_Subset
      <3>2. t \ {Pick(t)} \in G
        BY <1>1, <3>1
      <3>3. SumFunctionOnSet(f, t) = f[Pick(t)] + SumFunctionOnSet(f, t \ {Pick(t)})
        BY <2>2, <3>1, SumPick
      <3> QED BY <3>1, <3>2, <3>3
    <2> QED BY <2>1, <2>2
  <1> HIDE DEF G
  <1>2. SUBSET S \subseteq G
    BY <1>1, SubsetInduction
  <1> QED BY <1>2 DEF G

(* Any element may be the one that is added last.                          *)
THEOREM SumSplit ==
    ASSUME NEW f, NEW S, IsFiniteSet(S), \A x \in S : f[x] \in Int, NEW x \in S
    PROVE  SumFunctionOnSet(f, S) = f[x] + SumFunctionOnSet(f, S \ {x})
  <1> DEFINE Sum(s) == SumFunctionOnSet(f, s)
             G == {s \in SUBSET S : \A y \in s : Sum(s) = f[y] + Sum(s \ {y})}
  <1>1. ASSUME NEW t \in SUBSET S, \A u \in SUBSET t : u # t => u \in G
        PROVE  t \in G
    <2> SUFFICES ASSUME NEW y \in t PROVE Sum(t) = f[y] + Sum(t \ {y})
      OBVIOUS
    <2> DEFINE p == Pick(t)
    <2>1. p \in t /\ IsFiniteSet(t)
      BY PickIn, FS_Subset
    <2>2. Sum(t) = f[p] + Sum(t \ {p})
      BY <2>1, SumPick
    <2>3. CASE y # p
      <3>1. t \ {p} \in G /\ t \ {y} \in G
        BY <1>1, <2>1
      <3> DEFINE rest == SumFunctionOnSet(f, (t \ {p}) \ {y})
      <3>2. SumFunctionOnSet(f, t \ {p}) = f[y] + rest
        BY <2>3, <3>1
      <3>3. (t \ {p}) \ {y} = (t \ {y}) \ {p}
        OBVIOUS
      <3>4. SumFunctionOnSet(f, t \ {y}) = f[p] + SumFunctionOnSet(f, (t \ {y}) \ {p})
        BY <2>1, <2>3, <3>1
      <3>5. SumFunctionOnSet(f, t \ {y}) = f[p] + rest
        BY <3>3, <3>4
      <3>6. rest \in Int
        BY <2>1, FS_Subset, SumInt
      <3>7. f[y] \in Int /\ f[p] \in Int
        BY <2>1
      <3> HIDE DEF rest, G, p
      <3> QED BY <2>2, <3>2, <3>5, <3>6, <3>7
    <2> QED BY <2>2, <2>3
  <1> HIDE DEF G
  <1>2. SUBSET S \subseteq G
    BY <1>1, SubsetInduction
  <1> QED BY <1>2 DEF G

(* Only the values on the set count.                                       *)
LEMMA SumSame ==
    ASSUME NEW f, NEW g, NEW S, IsFiniteSet(S), \A x \in S : f[x] = g[x]
    PROVE  SumFunctionOnSet(f, S) = SumFunctionOnSet(g, S)
  <1> DEFINE G == {s \in SUBSET S : SumFunctionOnSet(f, s) = SumFunctionOnSet(g, s)}
  <1>1. ASSUME NEW t \in SUBSET S, \A u \in SUBSET t : u # t => u \in G
        PROVE  t \in G
    <2>1. CASE t = {}
      BY <2>1, SumEmpty
    <2>2. CASE t # {}
      <3>1. Pick(t) \in t /\ IsFiniteSet(t)
        BY <2>2, PickIn, FS_Subset
      <3>2. t \ {Pick(t)} \in G
        BY <1>1, <3>1
      <3>3. SumFunctionOnSet(f, t) = f[Pick(t)] + SumFunctionOnSet(f, t \ {Pick(t)})
        BY <2>2, <3>1, SumPick
      <3>4. SumFunctionOnSet(g, t) = g[Pick(t)] + SumFunctionOnSet(g, t \ {Pick(t)})
        BY <2>2, <3>1, SumPick
      <3> QED BY <3>1, <3>2, <3>3, <3>4
    <2> QED BY <2>1, <2>2
  <1> HIDE DEF G
  <1>2. SUBSET S \subseteq G
    BY <1>1, SubsetInduction
  <1> QED BY <1>2 DEF G

-----------------------------------------------------------------------------
(* What a step of the books does to a sum: f holds the values before the   *)
(* step and g those after it.                                              *)

(* An entry is added to a ledger.                                          *)
THEOREM SumGrows ==
    ASSUME NEW f, NEW g, NEW S, IsFiniteSet(S), NEW x, x \notin S, g[x] \in Int,
           \A y \in S : f[y] \in Int /\ g[y] = f[y]
    PROVE  /\ SumFunctionOnSet(f, S) \in Int
           /\ SumFunctionOnSet(g, S \cup {x}) = SumFunctionOnSet(f, S) + g[x]
  <1>1. IsFiniteSet(S \cup {x})
    BY FS_AddElement
  <1>2. (S \cup {x}) \ {x} = S
    OBVIOUS
  <1>3. SumFunctionOnSet(g, S \cup {x}) = g[x] + SumFunctionOnSet(g, (S \cup {x}) \ {x})
    BY <1>1, SumSplit
  <1>4. SumFunctionOnSet(g, S) = SumFunctionOnSet(f, S)
    BY SumSame
  <1>5. SumFunctionOnSet(f, S) \in Int
    BY SumInt
  <1>6. SumFunctionOnSet(g, S \cup {x}) = g[x] + SumFunctionOnSet(f, S)
    BY <1>2, <1>3, <1>4
  <1>7. QED
    BY <1>5, <1>6

(* One of the values changes.                                              *)
THEOREM SumChanges ==
    ASSUME NEW f, NEW g, NEW S, IsFiniteSet(S), NEW x \in S, f[x] \in Int, g[x] \in Int,
           \A y \in S \ {x} : f[y] \in Int /\ g[y] = f[y]
    PROVE  /\ SumFunctionOnSet(f, S) \in Int
           /\ SumFunctionOnSet(g, S) = SumFunctionOnSet(f, S) + g[x] - f[x]
  <1>1. IsFiniteSet(S \ {x}) /\ x \notin S \ {x} /\ (S \ {x}) \cup {x} = S
    BY FS_RemoveElement
  <1>2. SumFunctionOnSet(g, (S \ {x}) \cup {x}) = SumFunctionOnSet(f, S \ {x}) + g[x]
        /\ SumFunctionOnSet(f, S \ {x}) \in Int
    BY <1>1, SumGrows
  <1>3. SumFunctionOnSet(f, (S \ {x}) \cup {x}) = SumFunctionOnSet(f, S \ {x}) + f[x]
    BY <1>1, SumGrows
  <1>4. SumFunctionOnSet(f, S) = SumFunctionOnSet(f, S \ {x}) + f[x]
    BY <1>1, <1>3
  <1>5. SumFunctionOnSet(g, S) = SumFunctionOnSet(f, S \ {x}) + g[x]
    BY <1>1, <1>2
  <1>6. QED
    BY <1>2, <1>4, <1>5

(* A value that some elements have and the others lack counts once for     *)
(* each that has it.                                                       *)
LEMMA SumOfEqual ==
    ASSUME NEW S, IsFiniteSet(S), NEW C, C \subseteq S, NEW n \in Nat, NEW f,
           \A x \in S : f[x] = IF x \in C THEN n ELSE 0
    PROVE  SumFunctionOnSet(f, S) = n * Cardinality(C)
  <1> DEFINE G == {s \in SUBSET S : SumFunctionOnSet(f, s) = n * Cardinality(C \cap s)}
  <1>1. ASSUME NEW t \in SUBSET S, \A u \in SUBSET t : u # t => u \in G
        PROVE  t \in G
    <2>1. CASE t = {}
      <3>1. C \cap t = {}
        BY <2>1
      <3>2. Cardinality(C \cap t) = 0
        BY <3>1, FS_EmptySet
      <3>3. SumFunctionOnSet(f, t) = 0
        BY <2>1, SumEmpty
      <3>4. SumFunctionOnSet(f, t) = n * Cardinality(C \cap t)
        BY <3>2, <3>3
      <3> QED BY <3>4
    <2>2. CASE t # {}
      <3> DEFINE p == Pick(t)
                 u == t \ {p}
      <3>1. p \in t /\ IsFiniteSet(t)
        BY <2>2, PickIn, FS_Subset
      <3>2. SumFunctionOnSet(f, u) = n * Cardinality(C \cap u)
        BY <1>1, <3>1
      <3>3. SumFunctionOnSet(f, t) = f[p] + SumFunctionOnSet(f, u)
        BY <2>2, <3>1, SumPick
      <3>4. IsFiniteSet(C \cap u) /\ IsFiniteSet(C \cap t)
        BY <3>1, FS_Subset
      <3>5. Cardinality(C \cap u) \in Nat
        BY <3>4, FS_CardinalityType
      <3>6. CASE p \in C
        <4>1. C \cap t = (C \cap u) \cup {p} /\ p \notin C \cap u
          BY <3>1, <3>6
        <4>2. Cardinality(C \cap t) = Cardinality(C \cap u) + 1
          BY <3>4, <4>1, FS_AddElement
        <4>3. f[p] = n
          BY <3>1, <3>6
        <4> HIDE DEF G, p, u
        <4>4. ASSUME NEW k \in Nat PROVE n + n * k = n * (k + 1)
          OBVIOUS
        <4>5. SumFunctionOnSet(f, t) = n * Cardinality(C \cap t)
          BY <3>2, <3>3, <3>5, <4>2, <4>3, <4>4
        <4> QED BY <4>5 DEF G
      <3>7. CASE p \notin C
        <4>1. C \cap t = C \cap u
          BY <3>7
        <4>2. f[p] = 0
          BY <3>1, <3>7
        <4>3. n * Cardinality(C \cap u) \in Int
          BY <3>5
        <4> HIDE DEF G, p, u
        <4>4. SumFunctionOnSet(f, t) = SumFunctionOnSet(f, u)
          BY <3>2, <3>3, <4>2, <4>3
        <4>5. SumFunctionOnSet(f, t) = n * Cardinality(C \cap t)
          BY <3>2, <4>1, <4>4
        <4> QED BY <4>5 DEF G
      <3> QED BY <3>6, <3>7
    <2> QED BY <2>1, <2>2
  <1> HIDE DEF G
  <1>2. SUBSET S \subseteq G
    BY <1>1, SubsetInduction
  <1>3. C \cap S = C
    OBVIOUS
  <1> QED BY <1>2, <1>3 DEF G
=============================================================================
