------------------------- MODULE PhaseStream_proofs -------------------------
(***************************************************************************)
(* Proofs about PhaseStream, for any number of messages, token counts,     *)
(* phases, retries, kills and provider failures.                           *)
(*                                                                         *)
(* The spend is a sum over the messages of the conversation: of each, the  *)
(* largest count that was heard, or all it cost once a Result has paid for *)
(* it.  Everything said about charging rests on that sum, and it on what a *)
(* connection knows: its fresh messages are those it has generated itself. *)
(***************************************************************************)
EXTENDS PhaseStream, FiniteSetTheorems, WellFoundedInduction, TLAPS

-----------------------------------------------------------------------------
(***************************************************************************)
(* Sums.                                                                   *)
(***************************************************************************)
\* The step of the sum: one member less.
Pick(s) == CHOOSE x \in s : TRUE
Summed(g, f, S) == [s \in SUBSET S |-> IF s = {} THEN 0 ELSE f[Pick(s)] + g[s \ {Pick(s)}]]
Sums(f, S) == CHOOSE g : g = Summed(g, f, S)

LEMMA SumOfSums == ASSUME NEW f, NEW S PROVE SumOf(f, S) = Sums(f, S)[S]
BY DEF SumOf, Sums, Summed, Pick, MapThenSumSet, MapThenFoldSet

LEMMA LeastNatural ==
  ASSUME NEW T \in SUBSET Nat, T # {}
  PROVE  \E m \in T : \A k \in T : m <= k
<1> DEFINE R == OpToRel(<, Nat)
<1>1. \A x, y \in Nat : x < y => <<x, y>> \in R
  BY DEF OpToRel
<1>2. IsWellFoundedOn(R, Nat)
  BY NatLessThanWellFounded
<1> HIDE DEF R
<1>3. PICK x \in T : \A y \in T : ~ (<<y, x>> \in R)
  BY <1>2, WFMin
<1>4. \A y \in T : ~ (y < x)
  BY <1>1, <1>3
<1> QED
  BY <1>4

\* Induction over the subsets of a finite set.
LEMMA SubsetInduction ==
  ASSUME NEW S, IsFiniteSet(S), NEW Good,
         \A s \in SUBSET S : (\A x \in s : s \ {x} \in Good) => s \in Good
  PROVE  \A s \in SUBSET S : s \in Good
<1> SUFFICES ASSUME NEW z \in SUBSET S, z \notin Good PROVE FALSE
  OBVIOUS
<1> DEFINE Sizes == {Cardinality(s) : s \in {t \in SUBSET S : t \notin Good}}
<1>1. \A s \in SUBSET S : IsFiniteSet(s) /\ Cardinality(s) \in Nat
  BY FS_Subset, FS_CardinalityType
<1>2. Sizes \in SUBSET Nat /\ Sizes # {}
  BY <1>1
<1>3. PICK n \in Sizes : \A k \in Sizes : n <= k
  <2> HIDE DEF Sizes
  <2> QED
    BY <1>2, LeastNatural
<1>4. PICK s \in SUBSET S : s \notin Good /\ Cardinality(s) = n
  BY <1>3
<1>5. ASSUME NEW x \in s PROVE s \ {x} \in Good
  <2>1. Cardinality(s \ {x}) = Cardinality(s) - 1 /\ Cardinality(s) \in Nat
    BY <1>1, FS_RemoveElement
  <2>2. s \ {x} \in SUBSET S /\ ~(n <= Cardinality(s \ {x}))
    BY <1>4, <2>1
  <2> QED
    BY <1>3, <2>2
<1> QED
  BY <1>4, <1>5

\* The recursion has a solution.
LEMMA SumsExist ==
  ASSUME NEW S, IsFiniteSet(S), NEW f
  PROVE  \E g : g = Summed(g, f, S)
<1> DEFINE Small(n) == {s \in SUBSET S : Cardinality(s) <= n}
           Solves(g, n) == g = [s \in Small(n) |->
                                  IF s = {} THEN 0 ELSE f[Pick(s)] + g[s \ {Pick(s)}]]
           Bad == {n \in Nat : ~ \E g : Solves(g, n)}
<1>1. \A s \in SUBSET S : IsFiniteSet(s) /\ Cardinality(s) \in Nat /\ Cardinality(s) <= Cardinality(S)
  BY FS_Subset, FS_CardinalityType
<1>2. ASSUME NEW s \in SUBSET S, s # {}
      PROVE  /\ s \ {Pick(s)} \in SUBSET S
             /\ Cardinality(s \ {Pick(s)}) = Cardinality(s) - 1
  BY <1>1, <1>2, FS_RemoveElement DEF Pick
<1>3. \E g : Solves(g, 0)
  <2> DEFINE g == [s \in Small(0) |-> 0]
  <2>1. \A s \in Small(0) : s = {}
    BY <1>1, FS_EmptySet
  <2>2. Solves(g, 0)
    BY <2>1
  <2> QED
    BY <2>2
<1>4. ASSUME NEW n \in Nat, NEW g, Solves(g, n) PROVE \E h : Solves(h, n + 1)
  <2> DEFINE step(s) == IF s = {} THEN 0 ELSE f[Pick(s)] + g[s \ {Pick(s)}]
             h == [s \in Small(n + 1) |-> step(s)]
  <2>1. \A s \in Small(n) : g[s] = step(s)
    BY <1>4
  <2>2. ASSUME NEW s \in Small(n + 1), s # {}
        PROVE  h[s] = f[Pick(s)] + h[s \ {Pick(s)}]
    <3>1. s \ {Pick(s)} \in Small(n) /\ s \ {Pick(s)} \in Small(n + 1)
      BY <1>1, <1>2, <2>2
    <3>2. h[s \ {Pick(s)}] = g[s \ {Pick(s)}]
      <4>1. h[s \ {Pick(s)}] = step(s \ {Pick(s)})
        BY <3>1
      <4> QED
        BY <2>1, <3>1, <4>1
    <3>3. h[s] = f[Pick(s)] + g[s \ {Pick(s)}]
      BY <2>2
    <3> QED
      BY <3>2, <3>3
  <2>3. \A s \in Small(n + 1) : s = {} => h[s] = 0
    OBVIOUS
  <2>4. Solves(h, n + 1)
    <3>1. DOMAIN h = Small(n + 1) /\ h = [s \in Small(n + 1) |-> h[s]]
      OBVIOUS
    <3> HIDE DEF h, Small
    <3> QED
      BY <2>2, <2>3, <3>1
  <2> HIDE DEF Solves, h
  <2> QED
    BY <2>4
<1>5. Bad = {}
  <2> HIDE DEF Solves
  <2>1. SUFFICES ASSUME Bad # {} PROVE FALSE
    OBVIOUS
  <2>2. PICK m \in Bad : \A k \in Bad : m <= k
    <3>1. Bad \in SUBSET Nat
      OBVIOUS
    <3> HIDE DEF Bad
    <3> QED
      BY <2>1, <3>1, LeastNatural
  <2>3. m # 0 /\ m \in Nat
    BY <1>3
  <2>4. m - 1 \in Nat /\ m - 1 \notin Bad /\ (m - 1) + 1 = m
    BY <2>2, <2>3
  <2>5. PICK g : Solves(g, m - 1)
    BY <2>4
  <2> QED
    BY <1>4, <2>4, <2>5
<1>6. Cardinality(S) \in Nat /\ Small(Cardinality(S)) = SUBSET S
  BY <1>1, FS_CardinalityType
<1>7. PICK g : Solves(g, Cardinality(S))
  <2> HIDE DEF Solves
  <2> QED
    BY <1>5, <1>6
<1>8. g = Summed(g, f, S)
  BY <1>6, <1>7 DEF Summed
<1> QED
  BY <1>8

LEMMA SumsAre ==
  ASSUME NEW S, IsFiniteSet(S), NEW f, NEW s \in SUBSET S
  PROVE  Sums(f, S)[s] = IF s = {} THEN 0 ELSE f[Pick(s)] + Sums(f, S)[s \ {Pick(s)}]
<1>1. Sums(f, S) = Summed(Sums(f, S), f, S)
  BY SumsExist DEF Sums
<1> DEFINE g == Sums(f, S)
<1>2. g = Summed(g, f, S)
  BY <1>1
<1> HIDE DEF g
<1>3. g[s] = IF s = {} THEN 0 ELSE f[Pick(s)] + g[s \ {Pick(s)}]
  BY <1>2 DEF Summed
<1> QED
  BY <1>3 DEF g

LEMMA SumsTyped ==
  ASSUME NEW S, IsFiniteSet(S), NEW f, \A x \in S : f[x] \in Nat
  PROVE  \A s \in SUBSET S : Sums(f, S)[s] \in Nat
<1> DEFINE Good == {s \in SUBSET S : Sums(f, S)[s] \in Nat}
<1>1. ASSUME NEW s \in SUBSET S, \A x \in s : s \ {x} \in Good PROVE s \in Good
  <2>1. CASE s = {}
    <3>1. Sums(f, S)[s] = 0
      BY <2>1, SumsAre
    <3> QED
      BY <3>1
  <2>2. CASE s # {}
    <3>1. Pick(s) \in s
      BY <2>2 DEF Pick
    <3>2. Sums(f, S)[s \ {Pick(s)}] \in Nat /\ f[Pick(s)] \in Nat
      BY <1>1, <3>1
    <3>3. Sums(f, S)[s] = f[Pick(s)] + Sums(f, S)[s \ {Pick(s)}]
      BY <2>2, SumsAre
    <3> QED
      BY <3>2, <3>3
  <2> QED
    BY <2>1, <2>2
<1> HIDE DEF Good
<1>2. \A s \in SUBSET S : s \in Good
  BY <1>1, SubsetInduction
<1> QED
  BY <1>2 DEF Good

\* Sums over a subset are found in the sums of the whole.
LEMMA SumsAgree ==
  ASSUME NEW S, IsFiniteSet(S), NEW f, NEW T \in SUBSET S
  PROVE  SumOf(f, T) = Sums(f, S)[T]
<1> DEFINE Good == {s \in SUBSET T : Sums(f, T)[s] = Sums(f, S)[s]}
<1>1. IsFiniteSet(T)
  BY FS_Subset
<1>2. ASSUME NEW s \in SUBSET T, \A x \in s : s \ {x} \in Good PROVE s \in Good
  <2>1. s \in SUBSET S
    OBVIOUS
  <2>2. Sums(f, T)[s] = IF s = {} THEN 0 ELSE f[Pick(s)] + Sums(f, T)[s \ {Pick(s)}]
    BY <1>1, SumsAre
  <2>3. Sums(f, S)[s] = IF s = {} THEN 0 ELSE f[Pick(s)] + Sums(f, S)[s \ {Pick(s)}]
    BY <2>1, SumsAre
  <2>4. s # {} => s \ {Pick(s)} \in Good
    BY <1>2 DEF Pick
  <2>5. Sums(f, T)[s] = Sums(f, S)[s]
    BY <2>2, <2>3, <2>4
  <2> QED
    BY <2>5
<1> HIDE DEF Good
<1>3. T \in Good
  BY <1>1, <1>2, SubsetInduction
<1>4. Sums(f, T)[T] = Sums(f, S)[T]
  BY <1>3 DEF Good
<1> QED
  BY <1>4, SumOfSums

\* The sum of natural numbers is one.
LEMMA SumNat ==
  ASSUME NEW S, IsFiniteSet(S), NEW f, \A x \in S : f[x] \in Nat
  PROVE  SumOf(f, S) \in Nat
BY SumsTyped, SumOfSums

LEMMA SumEmpty == ASSUME NEW f PROVE SumOf(f, {}) = 0
<1>1. Sums(f, {})[{}] = 0
  BY SumsAre, FS_EmptySet
<1> QED
  BY <1>1, SumOfSums

\* The order in which the members are taken does not matter.
LEMMA SumRemove ==
  ASSUME NEW S, IsFiniteSet(S), NEW f, \A x \in S : f[x] \in Nat
  PROVE  \A x \in S : SumOf(f, S) = f[x] + SumOf(f, S \ {x})
<1> DEFINE sum(s) == Sums(f, S)[s]
           Good == {s \in SUBSET S : \A x \in s : sum(s) = f[x] + sum(s \ {x})}
<1>1. \A s \in SUBSET S : sum(s) \in Nat
  BY SumsTyped
<1>2. \A s \in SUBSET S : s # {} => Pick(s) \in s /\ sum(s) = f[Pick(s)] + sum(s \ {Pick(s)})
  BY SumsAre DEF Pick
<1> HIDE DEF sum
<1>3. ASSUME NEW s \in SUBSET S, \A x \in s : s \ {x} \in Good PROVE s \in Good
  <2>1. ASSUME NEW x \in s PROVE sum(s) = f[x] + sum(s \ {x})
    <3> DEFINE c == Pick(s)
    <3>1. c \in s /\ sum(s) = f[c] + sum(s \ {c})
      BY <1>2, <2>1
    <3> HIDE DEF c
    <3>2. CASE c = x
      BY <3>1, <3>2
    <3>3. CASE c # x
      <4>1. s \ {c} \in Good /\ s \ {x} \in Good /\ x \in s \ {c} /\ c \in s \ {x}
        BY <1>3, <2>1, <3>1, <3>3
      <4>2. /\ sum(s \ {c}) = f[x] + sum((s \ {c}) \ {x})
            /\ sum(s \ {x}) = f[c] + sum((s \ {x}) \ {c})
        BY <4>1
      <4>3. (s \ {c}) \ {x} = (s \ {x}) \ {c}
        OBVIOUS
      <4>4. f[x] \in Nat /\ f[c] \in Nat /\ sum((s \ {c}) \ {x}) \in Nat
        BY <1>1, <3>1
      <4> HIDE DEF Good
      <4> QED
        BY <3>1, <4>2, <4>3, <4>4
    <3> QED
      BY <3>2, <3>3
  <2> QED
    BY <2>1
<1> HIDE DEF Good
<1>4. \A s \in SUBSET S : s \in Good
  BY <1>3, SubsetInduction
<1>5. \A x \in S : sum(S) = f[x] + sum(S \ {x})
  BY <1>4 DEF Good
<1>6. \A x \in S : SumOf(f, S) = sum(S) /\ SumOf(f, S \ {x}) = sum(S \ {x})
  BY SumsAgree DEF sum
<1> QED
  BY <1>5, <1>6

\* The sum over a set is that over a part of it and that over the rest.
LEMMA SumSplit ==
  ASSUME NEW S, IsFiniteSet(S), NEW f, \A x \in S : f[x] \in Nat, NEW T \in SUBSET S
  PROVE  SumOf(f, S) = SumOf(f, T) + SumOf(f, S \ T)
<1> DEFINE Good == {t \in SUBSET S : SumOf(f, S) = SumOf(f, t) + SumOf(f, S \ t)}
<1>1. \A t \in SUBSET S : IsFiniteSet(t) /\ SumOf(f, t) \in Nat
  BY FS_Subset, SumNat
<1>2. ASSUME NEW t \in SUBSET S, \A x \in t : t \ {x} \in Good PROVE t \in Good
  <2>1. CASE t = {}
    <3>1. SumOf(f, t) = 0 /\ S \ t = S
      BY <2>1, SumEmpty
    <3>2. SumOf(f, S) = SumOf(f, t) + SumOf(f, S \ t)
      BY <1>1, <3>1
    <3> QED
      BY <3>2
  <2>2. CASE t # {}
    <3>1. PICK x \in t : TRUE
      BY <2>2
    <3>2. SumOf(f, S) = SumOf(f, t \ {x}) + SumOf(f, S \ (t \ {x}))
      BY <1>2
    <3>3. SumOf(f, t) = f[x] + SumOf(f, t \ {x})
      BY <1>1, SumRemove
    <3>4. /\ IsFiniteSet(S \ (t \ {x})) /\ x \in S \ (t \ {x})
          /\ (S \ (t \ {x})) \ {x} = S \ t
          /\ \A y \in S \ (t \ {x}) : f[y] \in Nat
      BY <1>1
    <3>5. SumOf(f, S \ (t \ {x})) = f[x] + SumOf(f, (S \ (t \ {x})) \ {x})
      BY <3>4, SumRemove
    <3>6. SumOf(f, S \ (t \ {x})) = f[x] + SumOf(f, S \ t)
      BY <3>4, <3>5
    <3>7. SumOf(f, t \ {x}) \in Nat /\ SumOf(f, S \ t) \in Nat /\ f[x] \in Nat
      BY <1>1
    <3>8. SumOf(f, S) = SumOf(f, t) + SumOf(f, S \ t)
      BY <3>2, <3>3, <3>6, <3>7
    <3> QED
      BY <3>8
  <2> QED
    BY <2>1, <2>2
<1> HIDE DEF Good
<1>3. T \in Good
  BY <1>2, SubsetInduction
<1> QED
  BY <1>3 DEF Good

\* Sums grow with their terms; equal terms give equal sums.
LEMMA SumMonotone ==
  ASSUME NEW S, IsFiniteSet(S), NEW f, NEW g,
         \A x \in S : f[x] \in Nat /\ g[x] \in Nat /\ f[x] <= g[x]
  PROVE  SumOf(f, S) <= SumOf(g, S)
<1> DEFINE Good == {t \in SUBSET S : SumOf(f, t) <= SumOf(g, t)}
<1>1. ASSUME NEW t \in SUBSET S
      PROVE  IsFiniteSet(t) /\ SumOf(f, t) \in Nat /\ SumOf(g, t) \in Nat
  BY FS_Subset, SumNat
<1>2. ASSUME NEW t \in SUBSET S, \A x \in t : t \ {x} \in Good PROVE t \in Good
  <2>1. CASE t = {}
    <3>1. SumOf(f, t) = 0 /\ SumOf(g, t) = 0
      BY <2>1, SumEmpty
    <3> QED
      BY <3>1
  <2>2. CASE t # {}
    <3>1. PICK x \in t : TRUE
      BY <2>2
    <3>2. SumOf(f, t) = f[x] + SumOf(f, t \ {x})
      BY <1>1, SumRemove
    <3>3. SumOf(g, t) = g[x] + SumOf(g, t \ {x})
      BY <1>1, SumRemove
    <3>4. SumOf(f, t \ {x}) <= SumOf(g, t \ {x})
      BY <1>2
    <3>5. /\ SumOf(f, t \ {x}) \in Nat /\ SumOf(g, t \ {x}) \in Nat
          /\ f[x] \in Nat /\ g[x] \in Nat /\ f[x] <= g[x]
      BY <1>1
    <3>6. SumOf(f, t) <= SumOf(g, t)
      BY <3>2, <3>3, <3>4, <3>5
    <3> QED
      BY <3>6
  <2> QED
    BY <2>1, <2>2
<1> HIDE DEF Good
<1>3. \A t \in SUBSET S : t \in Good
  BY <1>2, SubsetInduction
<1> QED
  BY <1>3 DEF Good

LEMMA SumEqual ==
  ASSUME NEW S, IsFiniteSet(S), NEW f, NEW g,
         \A x \in S : f[x] \in Nat /\ g[x] = f[x]
  PROVE  SumOf(f, S) = SumOf(g, S)
<1>1. SumOf(f, S) <= SumOf(g, S) /\ SumOf(g, S) <= SumOf(f, S)
  BY SumMonotone
<1>2. SumOf(f, S) \in Nat /\ SumOf(g, S) \in Nat
  BY SumNat
<1> QED
  BY <1>1, <1>2

\* Changing the terms of a part changes the sum by what that part changes.
LEMMA SumChange ==
  ASSUME NEW S, IsFiniteSet(S), NEW T \in SUBSET S, NEW f, NEW g,
         \A x \in S : f[x] \in Nat /\ g[x] \in Nat,
         \A x \in S \ T : g[x] = f[x]
  PROVE  /\ SumOf(g, S) = SumOf(f, S) - SumOf(f, T) + SumOf(g, T)
         /\ SumOf(f, T) \in Nat /\ SumOf(g, T) \in Nat
         /\ SumOf(f, S) \in Nat /\ SumOf(g, S) \in Nat
<1>1. IsFiniteSet(T) /\ IsFiniteSet(S \ T)
  BY FS_Subset
<1>2. SumOf(f, S \ T) = SumOf(g, S \ T)
  BY <1>1, SumEqual
<1>3. SumOf(f, S) = SumOf(f, T) + SumOf(f, S \ T)
  BY SumSplit
<1>4. SumOf(g, S) = SumOf(g, T) + SumOf(g, S \ T)
  BY SumSplit
<1>5. /\ SumOf(f, T) \in Nat /\ SumOf(g, T) \in Nat /\ SumOf(f, S \ T) \in Nat
      /\ SumOf(f, S) \in Nat /\ SumOf(g, S) \in Nat
  BY <1>1, SumNat
<1> QED
  BY <1>2, <1>3, <1>4, <1>5

\* One term.
LEMMA SumSingle == ASSUME NEW x, NEW f, f[x] \in Nat PROVE SumOf(f, {x}) = f[x]
<1>1. IsFiniteSet({x}) /\ \A y \in {x} : f[y] \in Nat
  BY FS_Singleton
<1>2. SumOf(f, {x}) = f[x] + SumOf(f, {x} \ {x})
  BY <1>1, SumRemove
<1>3. {x} \ {x} = {}
  OBVIOUS
<1> QED
  BY <1>2, <1>3, SumEmpty

LEMMA SumPart ==
  ASSUME NEW S, IsFiniteSet(S), NEW T \in SUBSET S, NEW f, \A x \in S : f[x] \in Nat
  PROVE  SumOf(f, T) <= SumOf(f, S)
<1>1. IsFiniteSet(T) /\ IsFiniteSet(S \ T)
  BY FS_Subset
<1>2. SumOf(f, S) = SumOf(f, T) + SumOf(f, S \ T)
  BY SumSplit
<1>3. SumOf(f, T) \in Nat /\ SumOf(f, S \ T) \in Nat
  BY <1>1, SumNat
<1> QED
  BY <1>2, <1>3

\* Terms that are all zero.
LEMMA SumZero ==
  ASSUME NEW S, IsFiniteSet(S), NEW f, \A x \in S : f[x] = 0
  PROVE  SumOf(f, S) = 0
<1> DEFINE Good == {t \in SUBSET S : SumOf(f, t) = 0}
<1>1. ASSUME NEW t \in SUBSET S, \A x \in t : t \ {x} \in Good PROVE t \in Good
  <2>1. CASE t = {}
    BY <2>1, SumEmpty
  <2>2. CASE t # {}
    <3>1. PICK x \in t : TRUE
      BY <2>2
    <3>2. IsFiniteSet(t) /\ \A y \in t : f[y] \in Nat
      BY FS_Subset
    <3>3. SumOf(f, t) = f[x] + SumOf(f, t \ {x})
      BY <3>2, SumRemove
    <3>4. f[x] = 0 /\ SumOf(f, t \ {x}) = 0
      BY <1>1
    <3>5. SumOf(f, t) = 0
      BY <3>3, <3>4
    <3> QED
      BY <3>5
  <2> QED
    BY <2>1, <2>2
<1> HIDE DEF Good
<1>2. \A t \in SUBSET S : t \in Good
  BY <1>1, SubsetInduction
<1>3. S \in Good
  BY <1>2
<1> QED
  BY <1>3 DEF Good

-----------------------------------------------------------------------------
(***************************************************************************)
(* What the tracker has charged.                                           *)
(***************************************************************************)
\* what message m stands for in the spend
ChargedIn(t) == [m \in Ids |-> IF m \in t.sealed THEN Cost[m] ELSE t.largest[m]]

\* The tracker t of a conversation of n messages, of which h has been heard.
Sound(t, n, h) ==
  /\ Restorable(t.count)
  /\ n \in Nat /\ n <= MaxMessages
  /\ t.seen = 1..n /\ t.sealed \subseteq t.seen
  /\ \A m \in Ids : t.largest[m] <= Cost[m] /\ (m > n => t.largest[m] = 0)
  /\ \A m \in Ids : h[m] <= ChargedIn(t)[m]
  /\ t.count.spent = SumOf(ChargedIn(t), Ids)

LEMMA IdsAre ==
  /\ IsFiniteSet(Ids)
  /\ \A m \in Ids : m \in Nat /\ m > 0 /\ Cost[m] \in Nat /\ Cost[m] > 0
<1>1. IsFiniteSet(1..MaxMessages)
  BY MessageAssumption, FS_Interval
<1>2. \A m \in Ids : m \in Nat /\ m > 0
  BY MessageAssumption DEF Ids
<1>3. \A m \in Ids : Cost[m] \in Nat \ {0}
  BY StreamAssumption
<1> QED
  BY <1>1, <1>2, <1>3 DEF Ids

LEMMA ChargedTyped ==
  ASSUME NEW t \in IdTrackers
  PROVE  \A m \in Ids : ChargedIn(t)[m] \in Nat
BY IdsAre DEF ChargedIn, IdTrackers

\* A conversation knows its messages.
LEMMA KnownIs ==
  ASSUME NEW t \in IdTrackers, NEW n, NEW h, Sound(t, n, h)
  PROVE  Known(t) = 1..n /\ 1..n \subseteq Ids
<1>1. 1..n \subseteq Ids
  BY MessageAssumption DEF Sound, Ids
<1>2. \A m \in Ids : t.largest[m] > 0 => m \in 1..n
  BY MessageAssumption DEF Sound, Ids, IdTrackers
<1> QED
  BY <1>1, <1>2 DEF Known, Sound

\* A message that starts is the next one or one of the conversation.
LEMMA ObserveSound ==
  ASSUME NEW t \in IdTrackers, NEW n \in Nat, NEW h \in [Ids -> Nat], Sound(t, n, h),
         NEW m \in Ids, NEW k \in Nat,
         (m \in 1..n /\ k = n) \/ (m = n + 1 /\ k = n + 1)
  PROVE  /\ Observe(t, m) \in IdTrackers /\ Sound(Observe(t, m), k, h)
         /\ Observe(t, m).count = t.count /\ Observe(t, m).largest = t.largest
         /\ Observe(t, m).sealed = t.sealed
<1> DEFINE o == Observe(t, m)
<1>1. /\ o \in IdTrackers /\ o.count = t.count /\ o.largest = t.largest
      /\ o.sealed = t.sealed /\ o.seen = t.seen \cup {m}
  BY DEF Observe, IdTrackers
<1> HIDE DEF o
<1>2. ChargedIn(o) = ChargedIn(t)
  BY <1>1 DEF ChargedIn
<1>3. o.seen = 1..k /\ o.sealed \subseteq o.seen /\ k <= MaxMessages
  BY <1>1, MessageAssumption DEF Sound, Ids
<1>4. \A i \in Ids : o.largest[i] <= Cost[i] /\ (i > k => o.largest[i] = 0)
  BY <1>1, IdsAre DEF Sound
<1> QED
  BY <1>1, <1>2, <1>3, <1>4 DEF Sound, o

\* A charge to one message.
LEMMA ChargeOne ==
  ASSUME NEW t \in IdTrackers, NEW a \in IdTrackers, NEW m \in Ids, m \notin t.sealed,
         a.sealed = t.sealed, \A i \in Ids : i # m => a.largest[i] = t.largest[i]
  PROVE  /\ SumOf(ChargedIn(a), Ids) = SumOf(ChargedIn(t), Ids) - t.largest[m] + a.largest[m]
         /\ SumOf(ChargedIn(t), Ids) \in Nat
<1> DEFINE before == ChargedIn(t)
           after == ChargedIn(a)
<1>1. /\ after[m] = a.largest[m] /\ before[m] = t.largest[m]
      /\ \A x \in Ids \ {m} : after[x] = before[x]
  BY DEF ChargedIn
<1>2. /\ \A x \in Ids : before[x] \in Nat /\ after[x] \in Nat
      /\ {m} \in SUBSET Ids /\ IsFiniteSet(Ids)
  BY ChargedTyped, IdsAre
<1> HIDE DEF before, after
<1>3. /\ SumOf(after, Ids) = SumOf(before, Ids) - SumOf(before, {m}) + SumOf(after, {m})
      /\ SumOf(before, {m}) \in Nat /\ SumOf(after, {m}) \in Nat
      /\ SumOf(before, Ids) \in Nat /\ SumOf(after, Ids) \in Nat
  BY <1>1, <1>2, SumChange
<1>4. SumOf(before, {m}) = t.largest[m] /\ SumOf(after, {m}) = a.largest[m]
  BY <1>1, <1>2, SumSingle
<1> QED
  BY <1>3, <1>4 DEF before, after

\* add(): the spend grows by what the message's largest count does.
LEMMA AddSound ==
  ASSUME NEW t \in IdTrackers, NEW n \in Nat, NEW h \in [Ids -> Nat], Sound(t, n, h),
         NEW m \in Ids, m \in 1..n, NEW u \in 0..Cost[m],
         NEW a, a = Add(t, m, u), NEW g, g[m] = (IF u > h[m] THEN u ELSE h[m]),
         \A i \in Ids : i # m => g[i] = h[i]
  PROVE  /\ a \in IdTrackers /\ Sound(a, n, g) /\ a.sealed = t.sealed
         /\ \A i \in Ids : i # m => a.largest[i] = t.largest[i]
         /\ m \notin t.sealed => a.largest[m] = IF u > t.largest[m] THEN u ELSE t.largest[m]
<1>0. Cost[m] \in Nat /\ u \in Nat /\ u <= Cost[m] /\ t.largest \in [Ids -> Nat] /\ h[m] \in Nat
  BY IdsAre DEF IdTrackers
<1>1. g[m] = (IF u > h[m] THEN u ELSE h[m]) /\ \A i \in Ids \ {m} : g[i] = h[i]
  OBVIOUS
<1>2. CASE m \in t.sealed \/ u <= t.largest[m]
  <2>1. a = t
    BY <1>2 DEF Add
  <2>2. g[m] <= ChargedIn(t)[m]
    BY <1>0, <1>1, <1>2 DEF Sound, ChargedIn
  <2>3. \A i \in Ids : g[i] <= ChargedIn(t)[i]
    BY <1>1, <2>2 DEF Sound
  <2>4. Sound(t, n, g)
    BY <2>3 DEF Sound
  <2>5. m \notin t.sealed => t.largest[m] = IF u > t.largest[m] THEN u ELSE t.largest[m]
    BY <1>0, <1>2
  <2> QED
    BY <2>1, <2>4, <2>5
<1>3. CASE ~(m \in t.sealed \/ u <= t.largest[m])
  <2> DEFINE delta == u - t.largest[m]
  <2>1. delta \in Nat
    BY <1>0, <1>3
  <2> DEFINE grown == [t.largest EXCEPT ![m] = u]
  <2>2. a = [t EXCEPT !.count = Charge(t.count, delta), !.largest = grown]
    BY <1>3 DEF Add
  <2>3. Charge(t.count, delta) \in Trackers
    BY <2>1 DEF Charge, Trackers, IdTrackers
  <2>4. /\ a \in IdTrackers /\ a.count = Charge(t.count, delta)
        /\ a.largest = grown
        /\ a.seen = t.seen /\ a.sealed = t.sealed
    <3>1. grown \in [Ids -> Nat]
      BY <1>0
    <3> HIDE DEF grown, delta
    <3> QED
      BY <2>2, <2>3, <3>1 DEF IdTrackers
  <2>5. a.largest[m] = u /\ \A i \in Ids : i # m => a.largest[i] = t.largest[i]
    BY <1>0, <2>4
  <2>6. /\ ChargedIn(a)[m] = u /\ ChargedIn(t)[m] = t.largest[m]
        /\ \A i \in Ids \ {m} : ChargedIn(a)[i] = ChargedIn(t)[i]
    BY <1>3, <2>4, <2>5 DEF ChargedIn
  <2>7. SumOf(ChargedIn(a), Ids) = SumOf(ChargedIn(t), Ids) + delta
    <3>1. /\ SumOf(ChargedIn(a), Ids) = SumOf(ChargedIn(t), Ids) - t.largest[m] + a.largest[m]
          /\ SumOf(ChargedIn(t), Ids) \in Nat
      BY <1>3, <2>4, <2>5, ChargeOne
    <3> QED
      BY <1>0, <2>5, <3>1
  <2>8. a.count.spent = t.count.spent + delta /\ Restorable(a.count)
    <3>1. t.count \in Trackers /\ Restorable(t.count) /\ a.count = Charge(t.count, delta)
      BY <2>4 DEF Sound, IdTrackers
    <3> HIDE DEF delta
    <3> QED
      BY <2>1, <3>1 DEF Charge, Restorable, Trackers
  <2>9. \A i \in Ids : a.largest[i] <= Cost[i] /\ (i > n => a.largest[i] = 0)
    <3>1. a.largest[m] <= Cost[m] /\ ~(m > n)
      BY <1>0, <2>5
    <3>2. \A i \in Ids : t.largest[i] <= Cost[i] /\ (i > n => t.largest[i] = 0)
      BY DEF Sound
    <3> QED
      BY <2>5, <3>1, <3>2
  <2>10. g[m] <= ChargedIn(a)[m]
    BY <1>0, <1>1, <1>3, <2>6 DEF Sound
  <2>11. \A i \in Ids : g[i] <= ChargedIn(a)[i]
    BY <1>1, <2>6, <2>10 DEF Sound
  <2>12. Sound(a, n, g)
    BY <2>4, <2>7, <2>8, <2>9, <2>11 DEF Sound
  <2> QED
    BY <1>0, <1>3, <2>4, <2>5, <2>12
<1> QED
  BY <1>2, <1>3

\* finish_phase() after a Result that pays for the messages `ids`, whose counts
\* it makes up, or that pays for none.
LEMMA CloseSound ==
  ASSUME NEW t \in IdTrackers, NEW n \in Nat, NEW h \in [Ids -> Nat], Sound(t, n, h),
         NEW ids \in SUBSET (1..n), ids \cap t.sealed = {}, NEW more \in Nat,
         more = SumOf(Cost, ids) - SumOf(t.largest, ids)
  PROVE  LET c == CloseCount(Seal(t, ids), t.count.streamed + more)
         IN  c \in IdTrackers /\ Sound(c, n, h)
<1> DEFINE c == CloseCount(Seal(t, ids), t.count.streamed + more)
<1>1. 1..n \subseteq Ids /\ ids \subseteq Ids
  BY KnownIs
<1>2. /\ Seal(t, ids) \in IdTrackers /\ Seal(t, ids).count = t.count
      /\ Seal(t, ids).largest = t.largest /\ Seal(t, ids).seen = t.seen
      /\ Seal(t, ids).sealed = t.sealed \cup ids
  BY <1>1 DEF Seal, IdTrackers
<1>3. /\ t.count.spent = t.count.completed + t.count.streamed
      /\ t.count.spent \in Nat /\ t.count.completed \in Nat /\ t.count.streamed \in Nat
  BY DEF Sound, Restorable, IdTrackers, Trackers
<1> DEFINE f == FinishPhase(t.count, t.count.streamed + more)
<1>4. f \in Trackers /\ f.spent = t.count.spent + more /\ Restorable(f)
  BY <1>3 DEF FinishPhase, Trackers, Restorable
<1>5. c = [Seal(t, ids) EXCEPT !.count = f]
  BY <1>2 DEF CloseCount
<1> HIDE DEF f
<1>6. /\ c \in IdTrackers /\ c.count = f /\ c.largest = t.largest /\ c.seen = t.seen
      /\ c.sealed = t.sealed \cup ids
  BY <1>2, <1>4, <1>5 DEF IdTrackers
<1> HIDE DEF c
<1>7. /\ \A m \in ids : ChargedIn(c)[m] = Cost[m] /\ ChargedIn(t)[m] = t.largest[m]
      /\ \A m \in Ids \ ids : ChargedIn(c)[m] = ChargedIn(t)[m]
  BY <1>1, <1>6 DEF ChargedIn
<1>8. \A m \in Ids : ChargedIn(t)[m] \in Nat /\ ChargedIn(c)[m] \in Nat
  BY <1>6, ChargedTyped
<1>9. IsFiniteSet(ids)
  BY <1>1, IdsAre, FS_Subset
<1>10. /\ SumOf(ChargedIn(c), Ids) = SumOf(ChargedIn(t), Ids) - SumOf(ChargedIn(t), ids)
                                      + SumOf(ChargedIn(c), ids)
       /\ SumOf(ChargedIn(t), Ids) \in Nat /\ SumOf(ChargedIn(t), ids) \in Nat
       /\ SumOf(ChargedIn(c), ids) \in Nat
  <2>1. \A m \in Ids \ ids : ChargedIn(c)[m] = ChargedIn(t)[m]
    BY <1>7
  <2>2. ids \in SUBSET Ids /\ IsFiniteSet(Ids)
    BY <1>1, IdsAre
  <2> DEFINE before == ChargedIn(t)
             after == ChargedIn(c)
  <2>3. /\ \A x \in Ids : before[x] \in Nat /\ after[x] \in Nat
        /\ \A x \in Ids \ ids : after[x] = before[x]
    BY <1>8, <2>1
  <2> HIDE DEF before, after
  <2>4. /\ SumOf(after, Ids) = SumOf(before, Ids) - SumOf(before, ids) + SumOf(after, ids)
        /\ SumOf(before, ids) \in Nat /\ SumOf(after, ids) \in Nat
        /\ SumOf(before, Ids) \in Nat /\ SumOf(after, Ids) \in Nat
    BY <2>2, <2>3, SumChange, Zenon
  <2> QED
    BY <2>4 DEF before, after
<1>11. SumOf(ChargedIn(c), ids) = SumOf(Cost, ids)
  BY <1>1, <1>7, <1>8, <1>9, SumEqual
<1>12. SumOf(ChargedIn(t), ids) = SumOf(t.largest, ids)
  BY <1>1, <1>7, <1>8, <1>9, SumEqual
<1>13. c.count.spent = SumOf(ChargedIn(c), Ids)
  BY <1>4, <1>6, <1>10, <1>11, <1>12 DEF Sound
<1>14. \A m \in Ids : h[m] <= ChargedIn(c)[m]
  <2> SUFFICES ASSUME NEW m \in Ids PROVE h[m] <= ChargedIn(c)[m]
    OBVIOUS
  <2>1. h[m] <= ChargedIn(t)[m] /\ t.largest[m] <= Cost[m] /\ h[m] \in Nat
        /\ t.largest[m] \in Nat /\ Cost[m] \in Nat
    BY IdsAre DEF Sound, IdTrackers
  <2>2. CASE m \in ids
    BY <1>7, <2>1, <2>2
  <2>3. CASE m \in Ids \ ids
    BY <1>7, <2>1, <2>3
  <2> QED
    BY <2>2, <2>3
<1>15. c.sealed \subseteq c.seen
  BY <1>6 DEF Sound
<1>16. Sound(c, n, h)
  BY <1>4, <1>6, <1>13, <1>14, <1>15 DEF Sound
<1> QED
  BY <1>6, <1>16 DEF c

-----------------------------------------------------------------------------
(***************************************************************************)
(* The inductive invariant.                                                *)
(***************************************************************************)
Running == at \in {"asked", "over", "collect"}

Phase == [text: SUBSET Ids, exhausted: BOOLEAN, after: Nat]

\* What a leg knows of the n messages of the conversation, whose tracker is t.
LegKnows(l, t, n, h) ==
  /\ l.known \subseteq 1..n /\ l.started \subseteq 1..n
  /\ l.own = l.started \ l.known
  /\ \A m \in Ids \ l.started : l.observed[m] = 0
  /\ \A m \in l.own : m \notin t.sealed /\ l.observed[m] = t.largest[m] /\ l.observed[m] <= h[m]
  /\ \A m \in l.output : m \in l.own /\ l.observed[m] > 0

\* What its last Result is worth, for a query q.
LegAnswers(l, q) ==
  /\ l.done = "none" => l.tokens = 0
  /\ l.done = "ok" => q.results
  /\ l.done = "ok" /\ l.output # {} => l.complete
  /\ \/ l.tokens = 0 \/ l.output = {}
     \/ ~q.interrupted /\ l.own # {} /\ l.tokens = SumOf(Cost, l.own)
     \/ q.interrupted /\ l.tokens <= SumOf(l.observed, l.own)

\* The cutoff has reached every leg that has streamed since.
LegCut(l, q, spent) ==
  /\ l.cut => q.interrupted
  /\ l.started # {} /\ spent >= StopAt => l.cut

\* The query's text is of messages of its own, and its prompts are counted.
QuerySound(q, l, kept_, a) ==
  /\ q.initial = 1..q.after /\ q.initial \subseteq l.known
  /\ \A m \in kept_ : m > q.after
  /\ a.prompts <= 1 + q.retries + a.rejections

IInv ==
  /\ TypeOK
  /\ phases \in Seq(Phase)
  /\ Sound(tr, made, heard)
  /\ LegKnows(leg, tr, made, heard)
  /\ Running => 1..made = leg.known \cup leg.own
  /\ LegAnswers(leg, query)
  /\ LegCut(leg, query, tr.count.spent)
  /\ QuerySound(query, leg, text \cup residual, asked)
  /\ TextIsOfItsQuery

Legs == [known: SUBSET Ids, started: SUBSET Ids, own: SUBSET Ids,
         observed: [Ids -> Nat], output: SUBSET Ids,
         cut: BOOLEAN, limited: BOOLEAN, lost: BOOLEAN, spent: BOOLEAN,
         complete: BOOLEAN, fatal: BOOLEAN, done: {"none", "ok", "error"},
         tokens: Nat]

Queries == [initial: SUBSET Ids, current: Ids \cup {0}, interrupted: BOOLEAN,
            results: BOOLEAN, retries: 0..MaxRetries, after: Nat]

LEMMA Here ==
  ASSUME IInv
  PROVE  /\ tr \in IdTrackers /\ leg \in Legs /\ query \in Queries
         /\ made \in Nat /\ heard \in [Ids -> Nat] /\ asked \in [prompts: Nat, rejections: Nat]
         /\ Sound(tr, made, heard) /\ LegKnows(leg, tr, made, heard)
         /\ LegAnswers(leg, query) /\ LegCut(leg, query, tr.count.spent)
         /\ QuerySound(query, leg, text \cup residual, asked)
         /\ Known(tr) = 1..made /\ 1..made \subseteq Ids
         /\ tr.count.spent \in Nat /\ StopAt \in Nat
<1>1. /\ tr \in IdTrackers /\ leg \in Legs /\ query \in Queries
      /\ made \in Nat /\ heard \in [Ids -> Nat] /\ asked \in [prompts: Nat, rejections: Nat]
  BY DEF IInv, TypeOK, Legs, Queries
<1>2. Sound(tr, made, heard)
  BY DEF IInv
<1>3. Known(tr) = 1..made /\ 1..made \subseteq Ids
  BY <1>1, <1>2, KnownIs
<1>4. tr.count.spent \in Nat /\ StopAt \in Nat
  BY <1>1, BudgetAssumption DEF IdTrackers, Trackers, StopAt, SoftLimit
<1> QED
  BY <1>1, <1>2, <1>3, <1>4 DEF IInv

\* A leg that has just been opened, and none at all.
LEMMA NewLegIs ==
  ASSUME IInv
  PROVE  /\ NewLeg \in Legs /\ NewLeg.known = 1..made /\ NewLeg.own = {}
         /\ LegKnows(NewLeg, tr, made, heard)
         /\ \A q : LegAnswers(NewLeg, q) /\ LegCut(NewLeg, q, tr.count.spent)
<1> DEFINE k == Known(tr)
<1>1. NewLeg = [known |-> k, started |-> {}, own |-> {}, observed |-> NoCount,
                output |-> {}, cut |-> FALSE, limited |-> FALSE, lost |-> FALSE,
                spent |-> FALSE, complete |-> FALSE, fatal |-> FALSE, done |-> "none",
                tokens |-> 0]
  BY DEF NewLeg
<1>2. k = 1..made /\ k \in SUBSET Ids
  BY Here
<1>3. NoCount \in [Ids -> Nat] /\ \A m \in Ids : NoCount[m] = 0
  BY DEF NoCount
<1> HIDE DEF k
<1>4. /\ NewLeg \in Legs /\ NewLeg.known = 1..made /\ NewLeg.own = {} /\ NewLeg.started = {}
      /\ NewLeg.observed = NoCount /\ NewLeg.output = {} /\ ~NewLeg.cut
      /\ NewLeg.done = "none" /\ NewLeg.tokens = 0
  BY <1>1, <1>2, <1>3 DEF Legs
<1>5. LegKnows(NewLeg, tr, made, heard)
  BY <1>3, <1>4 DEF LegKnows
<1>6. ASSUME NEW q PROVE LegAnswers(NewLeg, q) /\ LegCut(NewLeg, q, tr.count.spent)
  BY <1>4 DEF LegAnswers, LegCut
<1> QED
  BY <1>4, <1>5, <1>6

LEMMA NoLegIs ==
  ASSUME IInv
  PROVE  /\ NoLeg \in Legs /\ NoLeg.known = {} /\ NoLeg.own = {} /\ NoLeg.started = {}
         /\ \A t, n, h : LegKnows(NoLeg, t, n, h)
         /\ \A q, spent : LegAnswers(NoLeg, q) /\ LegCut(NoLeg, q, spent)
<1>1. NewLeg \in Legs /\ NoLeg = [NewLeg EXCEPT !.known = {}]
  BY NewLegIs DEF NoLeg
<1>2. /\ NewLeg.own = {} /\ NewLeg.started = {} /\ NewLeg.output = {} /\ ~NewLeg.cut
      /\ NewLeg.done = "none" /\ NewLeg.tokens = 0 /\ NewLeg.observed = NoCount
  BY DEF NewLeg
<1>3. /\ NoLeg \in Legs /\ NoLeg.known = {} /\ NoLeg.own = {} /\ NoLeg.started = {}
      /\ NoLeg.output = {} /\ ~NoLeg.cut /\ NoLeg.observed = NoCount
      /\ NoLeg.done = "none" /\ NoLeg.tokens = 0
  BY <1>1, <1>2 DEF Legs
<1>4. \A m \in Ids : NoCount[m] = 0
  BY DEF NoCount
<1>5. ASSUME NEW t, NEW n, NEW h PROVE LegKnows(NoLeg, t, n, h)
  BY <1>3, <1>4 DEF LegKnows
<1>6. ASSUME NEW q, NEW spent PROVE LegAnswers(NoLeg, q) /\ LegCut(NoLeg, q, spent)
  BY <1>3 DEF LegAnswers, LegCut
<1> QED
  BY <1>3, <1>5, <1>6

LEMMA QueriesAre ==
  ASSUME IInv
  PROVE  /\ NewQuery \in Queries /\ NewQuery.initial = 1..made /\ NewQuery.after = made
         /\ NewQuery.retries = 0
         /\ NoQuery \in Queries /\ NoQuery.initial = {} /\ NoQuery.after = 0
         /\ NoQuery.retries = 0
<1> DEFINE k == Known(tr)
<1>1. NewQuery = [initial |-> k, current |-> 0, interrupted |-> FALSE, results |-> FALSE,
                  retries |-> 0, after |-> made]
  BY DEF NewQuery
<1>2. k = 1..made /\ k \in SUBSET Ids /\ made \in Nat /\ 0 \in 0..MaxRetries
  BY Here, StreamAssumption
<1> HIDE DEF k
<1>3. /\ NewQuery \in Queries /\ NewQuery.initial = 1..made /\ NewQuery.after = made
      /\ NewQuery.retries = 0
  BY <1>1, <1>2 DEF Queries
<1>4. /\ NoQuery \in Queries /\ NoQuery.initial = {} /\ NoQuery.after = 0
      /\ NoQuery.retries = 0
  BY <1>3 DEF NoQuery, Queries
<1> QED
  BY <1>3, <1>4

-----------------------------------------------------------------------------
(***************************************************************************)
(* Steps that stream nothing.                                              *)
(***************************************************************************)
\* Only flags of the leg and the query change, and streamed text is dropped.
LEMMA FlagStep ==
  ASSUME IInv, UNCHANGED <<tr, phases, text, made, heard, asked>>,
         residual' \subseteq residual,
         leg' \in Legs, leg'.known = leg.known, leg'.started = leg.started,
         leg'.own = leg.own, leg'.observed = leg.observed, leg'.output \subseteq leg.output,
         query' \in Queries, query'.initial = query.initial, query'.after = query.after,
         query'.retries = query.retries,
         LegAnswers(leg', query'), LegCut(leg', query', tr.count.spent),
         at' \in {"down", "ready", "asked", "over", "collect"}, Running' => Running,
         active' \in BOOLEAN, resumed' \in BOOLEAN, deferred' \in BOOLEAN, opened' \in BOOLEAN,
         kills' \in 0..MaxKills, faults' \in 0..MaxFaults
  PROVE  IInv'
<1>1. TypeOK'
  BY DEF IInv, TypeOK, Legs, Queries
<1>2. LegKnows(leg', tr, made, heard)
  BY Here DEF LegKnows
<1>3. QuerySound(query', leg', text' \cup residual', asked')
  BY Here DEF QuerySound
<1>4. TextIsOfItsQuery'
  BY DEF IInv, TextIsOfItsQuery
<1>5. Running' => 1..made' = leg'.known \cup leg'.own
  BY DEF IInv
<1> QED
  BY <1>1, <1>2, <1>3, <1>4, <1>5 DEF IInv

\* The process is gone, and with it its query.
LEMMA DownIInv ==
  ASSUME IInv, Down, kills' \in 0..MaxKills, faults' \in 0..MaxFaults
  PROVE  IInv'
<1>1. /\ at' = "down" /\ leg' = NoLeg /\ query' = NoQuery /\ asked' = NoAsk
      /\ resumed' = FALSE /\ deferred' = FALSE
      /\ UNCHANGED <<tr, active, phases, text, residual, opened, made, heard>>
  BY DEF Down, PhaseOver, tracker, kept
<1>2. NoAsk.prompts = 0 /\ NoAsk.rejections = 0 /\ NoAsk \in [prompts: Nat, rejections: Nat]
  BY DEF NoAsk
<1>3. TypeOK'
  <2>1. leg' \in Legs /\ query' \in Queries /\ asked' \in [prompts: Nat, rejections: Nat]
    BY <1>1, <1>2, NoLegIs, QueriesAre
  <2> QED
    BY <1>1, <2>1 DEF IInv, TypeOK, Legs, Queries
<1>4. \A m \in text \cup residual : m > 0
  BY IdsAre DEF IInv, TypeOK
<1>5. QuerySound(query', leg', text' \cup residual', asked')
  <2>1. /\ query'.initial = 1..query'.after /\ query'.initial \subseteq leg'.known
        /\ query'.after = 0 /\ query'.retries = 0
    <3>1. /\ query'.initial = {} /\ query'.after = 0 /\ query'.retries = 0
      BY <1>1, QueriesAre
    <3>2. 1..0 = {}
      OBVIOUS
    <3> QED
      BY <3>1, <3>2
  <2>2. asked'.prompts <= 1 + query'.retries + asked'.rejections
    BY <1>1, <1>2, <2>1
  <2> QED
    BY <1>1, <1>4, <2>1, <2>2 DEF QuerySound
<1>6. TextIsOfItsQuery' /\ ~Running'
  BY <1>1 DEF IInv, TextIsOfItsQuery, Running
<1>7. LegKnows(leg', tr', made', heard') /\ LegAnswers(leg', query')
      /\ LegCut(leg', query', tr'.count.spent)
  BY <1>1, NoLegIs
<1> QED
  BY <1>1, <1>3, <1>5, <1>6, <1>7 DEF IInv

LEMMA FaultIs == ASSUME IInv, Fault PROVE faults' \in 0..MaxFaults
BY StreamAssumption DEF Fault, IInv, TypeOK

\* An answer that ends the leg, or one of the controller's own steps.
LEMMA PlaceStep ==
  ASSUME IInv, UNCHANGED <<tracker, kept, query, leg, made, heard, asked, kills>>,
         at' \in {"down", "ready", "asked", "over", "collect"}, Running' => Running,
         resumed' \in BOOLEAN, deferred' \in BOOLEAN, opened' \in BOOLEAN,
         faults' \in 0..MaxFaults
  PROVE  IInv'
<1>1. UNCHANGED <<tr, active, phases, text, residual>>
  BY DEF tracker, kept
<1>2. active \in BOOLEAN /\ kills \in 0..MaxKills
  BY DEF IInv, TypeOK
<1> QED
  BY <1>1, <1>2, Here, FlagStep

LEMMA QuietIInv ==
  ASSUME IInv, StreamEnds \/ DeferRecovery \/ ReturnResponse \/ Restart
  PROVE  IInv'
<1>1. /\ faults \in 0..MaxFaults /\ resumed \in BOOLEAN /\ deferred \in BOOLEAN
      /\ opened \in BOOLEAN
  BY DEF IInv, TypeOK
<1>2. CASE StreamEnds
  BY <1>1, <1>2, PlaceStep DEF StreamEnds, EndLeg, Running
<1>3. CASE DeferRecovery
  BY <1>1, <1>3, PlaceStep DEF DeferRecovery, Running, bounds
<1>4. CASE ReturnResponse
  BY <1>1, <1>4, PlaceStep DEF ReturnResponse, Running, bounds
<1>5. CASE Restart
  BY <1>1, <1>5, PlaceStep DEF Restart, Running, bounds
<1> QED
  BY <1>2, <1>3, <1>4, <1>5

LEMMA GoneIInv ==
  ASSUME IInv, StreamRaises \/ GiveUp \/ RejectResponse \/ Kill
  PROVE  IInv'
<1>1. faults \in 0..MaxFaults /\ kills \in 0..MaxKills
  BY DEF IInv, TypeOK
<1>2. CASE StreamRaises
  BY <1>1, <1>2, FaultIs, DownIInv DEF StreamRaises
<1>3. CASE GiveUp
  BY <1>1, <1>3, DownIInv DEF GiveUp, bounds
<1>4. CASE RejectResponse
  BY <1>1, <1>4, DownIInv DEF RejectResponse, bounds
<1>5. CASE Kill
  <2>1. kills' \in 0..MaxKills
    BY <1>1, <1>5, StreamAssumption DEF Kill
  <2> QED
    BY <1>1, <1>5, <2>1, DownIInv DEF Kill
<1> QED
  BY <1>2, <1>3, <1>4, <1>5

-----------------------------------------------------------------------------
(***************************************************************************)
(* Failures and Results.                                                   *)
(***************************************************************************)
\* An envelope that says no more than that something is wrong.
LEMMA LegFlags ==
  ASSUME IInv, NEW l \in Legs,
         l.known = leg.known, l.started = leg.started, l.own = leg.own,
         l.observed = leg.observed, l.output = leg.output, l.cut = leg.cut,
         l.done = leg.done, l.tokens = leg.tokens, leg.complete => l.complete
  PROVE  /\ LegAnswers(l, query) /\ LegCut(l, query, tr.count.spent)
BY Here DEF LegAnswers, LegCut

LEMMA MarkedIInv ==
  ASSUME IInv, UNCHANGED <<tracker, kept, query, resumed, deferred, opened, made, heard, asked, kills>>,
         faults' \in 0..MaxFaults, Running, Running', at' \in {"asked", "over", "collect"},
         NEW l \in Legs, leg' = l,
         l.known = leg.known, l.started = leg.started, l.own = leg.own,
         l.observed = leg.observed, l.output = leg.output, l.cut = leg.cut,
         l.done = leg.done, l.tokens = leg.tokens, leg.complete => l.complete
  PROVE  IInv'
<1>1. UNCHANGED <<tr, active, phases, text, residual>>
  BY DEF tracker, kept
<1>2. /\ active \in BOOLEAN /\ kills \in 0..MaxKills /\ resumed \in BOOLEAN
      /\ deferred \in BOOLEAN /\ opened \in BOOLEAN
  BY DEF IInv, TypeOK
<1>3. LegAnswers(leg', query') /\ LegCut(leg', query', tr.count.spent)
  BY LegFlags
<1> QED
  BY <1>1, <1>2, <1>3, Here, FlagStep

LEMMA RateLimitEventIInv == ASSUME IInv, RateLimitEvent PROVE IInv'
<1> DEFINE l == [leg EXCEPT !.limited = TRUE]
<1>1. leg \in Legs /\ faults' \in 0..MaxFaults
  BY Here, FaultIs DEF RateLimitEvent
<1>2. /\ l \in Legs /\ l.known = leg.known /\ l.started = leg.started /\ l.own = leg.own
      /\ l.observed = leg.observed /\ l.output = leg.output /\ l.cut = leg.cut
      /\ l.done = leg.done /\ l.tokens = leg.tokens /\ l.complete = leg.complete
  BY <1>1 DEF Legs
<1>3. /\ leg' = l /\ at = "asked" /\ at' = at
      /\ UNCHANGED <<tracker, kept, query, resumed, deferred, opened, made, heard, asked, kills>>
  BY DEF RateLimitEvent
<1> HIDE DEF l
<1> QED
  BY <1>1, <1>2, <1>3, MarkedIInv DEF Running

LEMMA StreamBreaksIInv == ASSUME IInv, StreamBreaks PROVE IInv'
<1>1. PICK l \in {leg, [leg EXCEPT !.spent = TRUE], [leg EXCEPT !.lost = TRUE]} : EndLeg(l)
  BY DEF StreamBreaks
<1>2. leg \in Legs /\ faults' \in 0..MaxFaults
  BY Here, FaultIs DEF StreamBreaks
<1>3. /\ l \in Legs /\ l.known = leg.known /\ l.started = leg.started /\ l.own = leg.own
      /\ l.observed = leg.observed /\ l.output = leg.output /\ l.cut = leg.cut
      /\ l.done = leg.done /\ l.tokens = leg.tokens /\ l.complete = leg.complete
  BY <1>2 DEF Legs
<1>4. /\ leg' = l /\ at = "asked" /\ at' = "over"
      /\ UNCHANGED <<tracker, kept, query, resumed, deferred, opened, made, heard, asked, kills>>
  BY <1>1 DEF EndLeg
<1> QED
  BY <1>2, <1>3, <1>4, MarkedIInv DEF Running

LEMMA ErrorAssistantIInv == ASSUME IInv, ErrorAssistant PROVE IInv'
<1>1. PICK kind \in {"rate_limit", "server_error"}, ownStream \in BOOLEAN :
        /\ leg' = [leg EXCEPT
             !.limited = @ \/ kind = "rate_limit",
             !.lost = @ \/ kind = "server_error",
             !.cut = IF ownStream THEN Cut(leg) ELSE @,
             !.output = IF ownStream THEN @ ELSE @ \ {query.current}]
        /\ query' = [query EXCEPT
             !.current = IF ownStream THEN 0 ELSE @,
             !.interrupted = IF ownStream THEN Interrupted(leg) ELSE @]
        /\ residual' = IF ownStream THEN residual ELSE residual \ {query.current}
  BY DEF ErrorAssistant
<1>2. /\ at = "asked" /\ faults' \in 0..MaxFaults
      /\ tr' = tr /\ UNCHANGED <<active, phases, text, at, resumed, deferred, opened, made,
                                 heard, asked, kills>>
  BY FaultIs DEF ErrorAssistant
<1>3. leg \in Legs /\ query \in Queries
  BY Here
<1> DEFINE c == IF ownStream THEN Cut(leg) ELSE leg.cut
           i == IF ownStream THEN Interrupted(leg) ELSE query.interrupted
           o == IF ownStream THEN leg.output ELSE leg.output \ {query.current}
<1>4. /\ c \in BOOLEAN /\ i \in BOOLEAN /\ (c => i)
      /\ (leg.started # {} /\ tr.count.spent >= StopAt => c)
      /\ o \subseteq leg.output /\ o \subseteq Ids
      /\ leg.own # {} => (i <=> query.interrupted)
  <2>1. leg.own # {} => leg.started # {}
    BY Here DEF LegKnows
  <2> QED
    BY <1>2, <1>3, <2>1, Here DEF Cut, Interrupted, LegCut, Legs, Queries
<1>5. leg' = [leg EXCEPT !.limited = @ \/ kind = "rate_limit",
                         !.lost = @ \/ kind = "server_error", !.cut = c, !.output = o]
  BY <1>1
<1>6. query' = [query EXCEPT !.current = IF ownStream THEN 0 ELSE @, !.interrupted = i]
  BY <1>1
<1> HIDE DEF c, i, o
<1>7. /\ leg' \in Legs /\ leg'.known = leg.known /\ leg'.started = leg.started
      /\ leg'.own = leg.own /\ leg'.observed = leg.observed /\ leg'.output = o
      /\ leg'.cut = c /\ leg'.done = leg.done /\ leg'.tokens = leg.tokens
      /\ leg'.complete = leg.complete
  BY <1>3, <1>4, <1>5 DEF Legs
<1>8. /\ query' \in Queries /\ query'.initial = query.initial /\ query'.after = query.after
      /\ query'.retries = query.retries /\ query'.interrupted = i
      /\ query'.results = query.results
  BY <1>3, <1>4, <1>6 DEF Queries
<1>9. LegAnswers(leg', query') /\ LegCut(leg', query', tr.count.spent)
  <2>1. \/ leg.tokens = 0 \/ leg.output = {}
        \/ ~i /\ leg.own # {} /\ leg.tokens = SumOf(Cost, leg.own)
        \/ i /\ leg.tokens <= SumOf(leg.observed, leg.own)
    <3>1. leg.output # {} => leg.own # {}
      BY Here DEF LegKnows
    <3> QED
      BY <1>4, <3>1, Here DEF LegAnswers
  <2> QED
    BY <1>4, <1>7, <1>8, <2>1, Here DEF LegAnswers, LegCut
<1>10. /\ active \in BOOLEAN /\ kills \in 0..MaxKills /\ resumed \in BOOLEAN
       /\ deferred \in BOOLEAN /\ opened \in BOOLEAN
  BY DEF IInv, TypeOK
<1>11. residual' \subseteq residual
  BY <1>1
<1> QED
  BY <1>2, <1>4, <1>7, <1>8, <1>9, <1>10, <1>11, FlagStep DEF Running

\* A Result that is passed on: of an error, of no turns, or of an answer.
LEMMA YieldsIInv ==
  ASSUME IInv, NEW turns \in BOOLEAN, NEW error \in BOOLEAN, NEW tokens \in Nat,
         Yields(turns, error, tokens), at = "asked", faults' \in 0..MaxFaults,
         UNCHANGED <<tracker, kept, at, resumed, deferred, opened, made, heard, asked, kills>>,
         turns /\ ~error => (leg.own # {} => leg.started # {}),
         \/ tokens = 0
         \/ leg.output = {}
         \/ turns /\ ~error /\ ~query.interrupted /\ leg.own # {} /\ tokens = SumOf(Cost, leg.own)
         \/ turns /\ ~error /\ query.interrupted /\ tokens <= SumOf(leg.observed, leg.own),
         ~turns \/ error => tokens = 0
  PROVE  IInv'
<1>1. leg \in Legs /\ query \in Queries
  BY Here
<1> DEFINE c == leg.complete \/ (~error /\ turns /\ (leg.started # {} \/ tokens > 0))
           d == IF ~turns THEN leg.done ELSE IF error THEN "error" ELSE "ok"
           f == leg.fatal \/ error
           t == IF turns \/ query.interrupted THEN tokens ELSE leg.tokens
<1>2. c \in BOOLEAN /\ d \in {"none", "ok", "error"} /\ f \in BOOLEAN /\ t \in Nat
  BY <1>1 DEF Legs
<1>3. /\ leg' = [leg EXCEPT !.complete = c, !.fatal = f, !.done = d, !.tokens = t]
      /\ query' = [query EXCEPT !.results = TRUE]
  BY DEF Yields
<1>4. /\ (leg.complete => c) /\ (turns /\ ~error /\ leg.started # {} => c)
      /\ (~turns => d = leg.done) /\ (turns /\ error => d = "error")
      /\ (turns /\ ~error => d = "ok")
      /\ t = tokens \/ (~turns /\ ~query.interrupted /\ t = leg.tokens)
  OBVIOUS
<1> HIDE DEF c, d, f, t
<1>5. /\ leg' \in Legs /\ leg'.known = leg.known /\ leg'.started = leg.started
      /\ leg'.own = leg.own /\ leg'.observed = leg.observed /\ leg'.output = leg.output
      /\ leg'.cut = leg.cut /\ leg'.complete = c /\ leg'.done = d /\ leg'.tokens = t
  BY <1>1, <1>2, <1>3 DEF Legs
<1>6. /\ query' \in Queries /\ query'.initial = query.initial /\ query'.after = query.after
      /\ query'.retries = query.retries /\ query'.interrupted = query.interrupted
      /\ query'.results
  BY <1>1, <1>3 DEF Queries
<1>7. leg.output # {} => leg.own # {}
  BY Here DEF LegKnows
<1>8. LegAnswers(leg', query')
  <2>1. leg'.done = "none" => leg'.tokens = 0
    BY <1>4, <1>5, Here DEF LegAnswers
  <2>2. leg'.done = "ok" => query'.results
    BY <1>6
  <2>3. leg'.done = "ok" /\ leg'.output # {} => leg'.complete
    BY <1>4, <1>5, <1>7, Here DEF LegAnswers
  <2>4. \/ leg'.tokens = 0 \/ leg'.output = {}
        \/ ~query'.interrupted /\ leg'.own # {} /\ leg'.tokens = SumOf(Cost, leg'.own)
        \/ query'.interrupted /\ leg'.tokens <= SumOf(leg'.observed, leg'.own)
    <3>1. CASE t = tokens
      BY <1>5, <1>6, <3>1
    <3>2. CASE t = leg.tokens /\ ~query.interrupted
      BY <1>5, <1>6, <3>2, Here DEF LegAnswers
    <3> QED
      BY <1>4, <3>1, <3>2
  <2> QED
    BY <2>1, <2>2, <2>3, <2>4 DEF LegAnswers
<1>9. LegCut(leg', query', tr.count.spent)
  BY <1>5, <1>6, Here DEF LegCut
<1>10. /\ active \in BOOLEAN /\ kills \in 0..MaxKills /\ resumed \in BOOLEAN
       /\ deferred \in BOOLEAN /\ opened \in BOOLEAN
  BY DEF IInv, TypeOK
<1>11. UNCHANGED <<tr, active, phases, text, residual>>
  BY DEF tracker, kept
<1> QED
  BY <1>5, <1>6, <1>8, <1>9, <1>10, <1>11, FlagStep DEF Running

LEMMA EmptyResultIInv == ASSUME IInv, EmptyResult PROVE IInv'
<1>1. faults' \in 0..MaxFaults
  BY FaultIs DEF EmptyResult
<1> QED
  BY <1>1, YieldsIInv DEF EmptyResult

LEMMA StaleResultIInv == ASSUME IInv, StaleResult PROVE IInv'
<1> DEFINE tokens == SumOf(Cost, 1..made)
<1>1. tokens \in Nat
  <2>1. IsFiniteSet(1..made) /\ \A m \in 1..made : Cost[m] \in Nat
    BY Here, IdsAre, FS_Subset
  <2> QED
    BY <2>1, SumNat
<1>2. /\ Yields(TRUE, FALSE, tokens) /\ at = "asked" /\ leg.done = "none" /\ leg.own = {}
      /\ UNCHANGED <<tracker, kept, at, resumed, deferred, opened, made, heard, asked, bounds>>
  BY DEF StaleResult
<1> HIDE DEF tokens
<1>3. leg.output = {}
  BY <1>2, Here DEF LegKnows
<1>4. faults' \in 0..MaxFaults /\ kills' = kills
  BY <1>2 DEF bounds, IInv, TypeOK
<1> QED
  BY <1>1, <1>2, <1>3, <1>4, YieldsIInv

LEMMA AnswerResultIInv == ASSUME IInv, AnswerResult PROVE IInv'
<1> DEFINE over  == {m \in leg.own : leg.observed[m] = Cost[m]}
           paid  == IF query.interrupted THEN over ELSE leg.own
<1>1. PICK tokens \in {0, SumOf(Cost, paid)} : Yields(TRUE, FALSE, tokens)
  BY DEF AnswerResult
<1>2. /\ at = "asked" /\ leg.done = "none" /\ leg.own # {}
      /\ UNCHANGED <<tracker, kept, at, resumed, deferred, opened, made, heard, asked, bounds>>
  BY DEF AnswerResult
<1>3. faults' \in 0..MaxFaults /\ kills' = kills
  BY <1>2 DEF bounds, IInv, TypeOK
<1>4. leg.own \subseteq Ids /\ leg.observed \in [Ids -> Nat] /\ leg.started # {}
  BY <1>2, Here DEF Legs, LegKnows
<1>5. /\ IsFiniteSet(leg.own) /\ IsFiniteSet(over) /\ IsFiniteSet(paid)
      /\ over \in SUBSET leg.own /\ paid \in SUBSET leg.own
  BY <1>4, IdsAre, FS_Subset
<1>6. SumOf(Cost, paid) \in Nat
  BY <1>4, <1>5, IdsAre, SumNat
<1>7. SumOf(Cost, over) <= SumOf(leg.observed, leg.own)
  <2>1. SumOf(Cost, over) = SumOf(leg.observed, over)
    BY <1>4, <1>5, IdsAre, SumEqual
  <2>2. \A m \in leg.own : leg.observed[m] \in Nat
    BY <1>4
  <2> HIDE DEF over
  <2>3. SumOf(leg.observed, over) <= SumOf(leg.observed, leg.own)
    BY <1>5, <2>2, SumPart
  <2> QED
    BY <2>1, <2>3
<1>8. \/ tokens = 0
      \/ ~query.interrupted /\ tokens = SumOf(Cost, leg.own)
      \/ query.interrupted /\ tokens <= SumOf(leg.observed, leg.own)
  <2> HIDE DEF over
  <2> QED
    BY <1>1, <1>7
<1>9. tokens \in Nat
  BY <1>1, <1>6
<1> HIDE DEF over, paid
<1> QED
  BY <1>1, <1>2, <1>3, <1>4, <1>8, <1>9, YieldsIInv

LEMMA ErrorResultIInv == ASSUME IInv, ErrorResult PROVE IInv'
<1>1. /\ at = "asked" /\ faults' \in 0..MaxFaults
      /\ UNCHANGED <<tracker, kept, at, resumed, deferred, opened, made, heard, asked, kills>>
  BY FaultIs DEF ErrorResult
<1>2. CASE leg' \in {leg, [leg EXCEPT !.lost = TRUE]} /\ UNCHANGED query
  <2>1. leg \in Legs
    BY Here
  <2>2. /\ leg' \in Legs /\ leg'.known = leg.known /\ leg'.started = leg.started
        /\ leg'.own = leg.own /\ leg'.observed = leg.observed /\ leg'.output = leg.output
        /\ leg'.cut = leg.cut /\ leg'.done = leg.done /\ leg'.tokens = leg.tokens
        /\ leg'.complete = leg.complete
    BY <1>2, <2>1 DEF Legs
  <2> QED
    BY <1>1, <1>2, <2>2, MarkedIInv DEF Running
<1>3. CASE \E turns \in BOOLEAN : Yields(turns, TRUE, 0)
  BY <1>1, <1>3, YieldsIInv
<1> QED
  BY <1>2, <1>3 DEF ErrorResult

-----------------------------------------------------------------------------
(***************************************************************************)
(* Prompts.                                                                *)
(***************************************************************************)
\* A recovery opens a leg of the same query, and asks once more.
LEMMA ReopenIInv ==
  ASSUME IInv, NEW q \in Queries, NEW rejections \in Nat, Reopen(q, rejections), at = "over",
         q.initial = query.initial, q.after = query.after,
         q.retries + rejections = query.retries + asked.rejections + 1
  PROVE  IInv'
<1>1. /\ query' = q /\ leg' = NewLeg /\ resumed' = TRUE /\ at' = "asked"
      /\ asked' = [prompts |-> asked.prompts + 1, rejections |-> rejections]
      /\ UNCHANGED <<tr, active, phases, text, residual, deferred, opened, made, heard,
                     kills, faults>>
  BY DEF Reopen, tracker, kept, bounds
<1>2. /\ query.retries \in Nat /\ q.retries \in Nat /\ asked.prompts \in Nat
      /\ asked.rejections \in Nat
  BY Here, StreamAssumption DEF Queries
<1>3. TypeOK'
  <2>1. leg' \in Legs /\ query' \in Queries /\ asked' \in [prompts: Nat, rejections: Nat]
    BY <1>1, <1>2, NewLegIs
  <2> QED
    BY <1>1, <2>1 DEF IInv, TypeOK, Legs, Queries
<1>4. LegKnows(leg', tr', made', heard') /\ LegAnswers(leg', query')
      /\ LegCut(leg', query', tr'.count.spent)
  BY <1>1, NewLegIs
<1>5. query.initial \subseteq 1..made
  BY Here DEF QuerySound, LegKnows
<1>6. QuerySound(query', leg', text' \cup residual', asked')
  <2>1. asked'.prompts <= 1 + query'.retries + asked'.rejections
    <3>1. asked.prompts <= 1 + query.retries + asked.rejections
      BY Here DEF QuerySound
    <3>2. /\ asked'.prompts = asked.prompts + 1 /\ asked'.rejections = rejections
          /\ query'.retries = q.retries
      BY <1>1
    <3> QED
      BY <1>2, <3>1, <3>2
  <2>2. query'.initial = 1..query'.after /\ query'.initial \subseteq leg'.known
    <3>1. query'.initial = query.initial /\ query'.after = query.after
      BY <1>1
    <3>2. leg'.known = 1..made
      BY <1>1, NewLegIs
    <3>3. query.initial = 1..query.after
      BY Here DEF QuerySound
    <3> QED
      BY <1>5, <3>1, <3>2, <3>3
  <2>3. \A m \in text' \cup residual' : m > query'.after
    BY <1>1, Here DEF QuerySound
  <2> QED
    BY <2>1, <2>2, <2>3 DEF QuerySound
<1>7. TextIsOfItsQuery' /\ (1..made' = leg'.known \cup leg'.own)
  BY <1>1, NewLegIs DEF IInv, TextIsOfItsQuery
<1> QED
  BY <1>1, <1>3, <1>4, <1>6, <1>7 DEF IInv

LEMMA RecoverIInv == ASSUME IInv, RecoverRejected \/ RetryTransport PROVE IInv'
<1>1. /\ query \in Queries /\ query.retries \in 0..MaxRetries /\ query.retries \in Nat
      /\ asked.rejections \in Nat
  BY Here, StreamAssumption DEF Queries
<1>2. CASE RecoverRejected
  <2>1. Reopen(query, asked.rejections + 1) /\ at = "over"
    BY <1>2 DEF RecoverRejected
  <2>2. asked.rejections + 1 \in Nat
        /\ query.retries + (asked.rejections + 1) = query.retries + asked.rejections + 1
    BY <1>1
  <2> QED
    BY <1>1, <2>1, <2>2, ReopenIInv
<1>3. CASE RetryTransport
  <2> DEFINE q == [query EXCEPT !.retries = @ + 1]
  <2>1. Reopen(q, asked.rejections) /\ at = "over" /\ query.retries < MaxRetries
    BY <1>3 DEF RetryTransport
  <2>2. /\ q \in Queries /\ q.initial = query.initial /\ q.after = query.after
        /\ q.retries = query.retries + 1
    BY <1>1, <2>1, StreamAssumption DEF Queries
  <2> HIDE DEF q
  <2>3. q.retries + asked.rejections = query.retries + asked.rejections + 1
    BY <1>1, <2>2
  <2> QED
    BY <1>1, <2>1, <2>2, <2>3, ReopenIInv
<1> QED
  BY <1>2, <1>3

LEMMA AskIInv == ASSUME IInv, Ask PROVE IInv'
<1>1. /\ query' = NewQuery /\ leg' = NewLeg /\ text' = {} /\ residual' = {}
      /\ asked' = [prompts |-> 1, rejections |-> 0] /\ active' = TRUE
      /\ resumed' = (resumed \/ deferred) /\ deferred' = FALSE /\ at' = "asked"
      /\ UNCHANGED <<tr, phases, opened, made, heard, kills, faults>>
  BY DEF Ask, bounds
<1>2. TypeOK'
  <2>1. leg' \in Legs /\ query' \in Queries /\ asked' \in [prompts: Nat, rejections: Nat]
    BY <1>1, NewLegIs, QueriesAre
  <2> QED
    BY <1>1, <2>1 DEF IInv, TypeOK, Legs, Queries
<1>3. LegKnows(leg', tr', made', heard') /\ LegAnswers(leg', query')
      /\ LegCut(leg', query', tr'.count.spent)
  BY <1>1, NewLegIs
<1>4. QuerySound(query', leg', text' \cup residual', asked')
  BY <1>1, NewLegIs, QueriesAre DEF QuerySound
<1>5. TextIsOfItsQuery' /\ (1..made' = leg'.known \cup leg'.own)
  BY <1>1, NewLegIs DEF IInv, TextIsOfItsQuery
<1> QED
  BY <1>1, <1>2, <1>3, <1>4, <1>5 DEF IInv

-----------------------------------------------------------------------------
(***************************************************************************)
(* The stream.                                                             *)
(***************************************************************************)
LEMMA MessageStartIInv == ASSUME IInv, MessageStart PROVE IInv'
<1>1. PICK m \in Ids \ leg.started :
        /\ Generates(m) \/ Replays(m)
        /\ tr' = Observe(tr, m)
        /\ leg' = [leg EXCEPT !.started = @ \cup {m},
                              !.own = IF made' = m /\ made < m THEN @ \cup {m} ELSE @,
                              !.cut = Cut(leg)]
        /\ query' = [query EXCEPT !.current = m, !.interrupted = Interrupted(leg)]
  BY DEF MessageStart
<1>2. /\ at = "asked" /\ leg.done = "none"
      /\ UNCHANGED <<active, phases, text, residual, at, resumed, deferred, opened, heard,
                     asked, kills, faults>>
  BY DEF MessageStart, kept, bounds
<1>3. \/ m \in 1..made /\ made' = made /\ leg.own = {}
      \/ m = made + 1 /\ made' = made + 1
  BY <1>1 DEF Generates, Replays
<1>4. /\ leg \in Legs /\ query \in Queries /\ made \in Nat /\ made' \in Nat /\ m \in Nat
      /\ leg.known \subseteq 1..made /\ leg.started \subseteq 1..made
      /\ leg.own = leg.started \ leg.known /\ leg.observed[m] = 0
      /\ 1..made = leg.known \cup leg.own
  BY <1>2, <1>3, Here, IdsAre DEF LegKnows, IInv, Running
<1>5. /\ tr' \in IdTrackers /\ Sound(tr', made', heard')
      /\ tr'.count = tr.count /\ tr'.largest = tr.largest /\ tr'.sealed = tr.sealed
  <2> DEFINE o == Observe(tr, m)
  <2>1. tr \in IdTrackers /\ heard \in [Ids -> Nat] /\ Sound(tr, made, heard)
    BY Here
  <2>4. (m \in 1..made /\ made' = made) \/ (m = made + 1 /\ made' = made + 1)
    BY <1>3
  <2>2. /\ o \in IdTrackers /\ Sound(o, made', heard) /\ o.count = tr.count
        /\ o.largest = tr.largest /\ o.sealed = tr.sealed
    BY <1>4, <2>1, <2>4, ObserveSound
  <2> HIDE DEF o
  <2>3. tr' = o /\ heard' = heard
    BY <1>1, <1>2 DEF o
  <2> QED
    BY <2>2, <2>3
<1> DEFINE own == IF made' = m /\ made < m THEN leg.own \cup {m} ELSE leg.own
           c == Cut(leg)
           i == Interrupted(leg)
<1>6. /\ own = (leg.started \cup {m}) \ leg.known /\ own \subseteq Ids
      /\ leg.own \subseteq own /\ own \subseteq leg.own \cup {m}
      /\ (m \in own => m = made + 1)
      /\ 1..made' = leg.known \cup own
      /\ leg.known \subseteq 1..made' /\ leg.started \cup {m} \subseteq 1..made'
  <2>1. CASE m \in 1..made /\ made' = made /\ leg.own = {}
    <3>1. own = {} /\ m \in leg.known
      BY <1>4, <2>1
    <3> QED
      BY <1>4, <2>1, <3>1
  <2>2. CASE m = made + 1 /\ made' = made + 1
    <3>1. own = leg.own \cup {m} /\ m \notin 1..made /\ 1..made' = (1..made) \cup {m}
      BY <1>4, <2>2
    <3>2. leg.own \subseteq Ids
      BY <1>4 DEF Legs
    <3> QED
      BY <1>4, <2>2, <3>1, <3>2
  <2> QED
    BY <1>3, <2>1, <2>2
<1>7. /\ c \in BOOLEAN /\ i \in BOOLEAN /\ (c => i)
      /\ (tr.count.spent >= StopAt => c)
  BY <1>4, <1>5, Here DEF Cut, Interrupted, LegCut, Legs, Queries
<1>8. leg' = [leg EXCEPT !.started = @ \cup {m}, !.own = own, !.cut = c]
  BY <1>1
<1>9. query' = [query EXCEPT !.current = m, !.interrupted = i]
  BY <1>1
<1> HIDE DEF own, c, i
<1>10. /\ leg' \in Legs /\ leg'.known = leg.known /\ leg'.started = leg.started \cup {m}
       /\ leg'.own = own /\ leg'.observed = leg.observed /\ leg'.output = leg.output
       /\ leg'.cut = c /\ leg'.done = "none" /\ leg'.tokens = leg.tokens
  BY <1>2, <1>4, <1>6, <1>7, <1>8 DEF Legs
<1>11. /\ query' \in Queries /\ query'.initial = query.initial /\ query'.after = query.after
       /\ query'.retries = query.retries /\ query'.interrupted = i
  BY <1>4, <1>7, <1>9 DEF Queries
<1>12. LegKnows(leg', tr', made', heard')
  <2>1. \A j \in Ids \ leg'.started : leg'.observed[j] = 0
    BY <1>10, Here DEF LegKnows
  <2>2. ASSUME NEW j \in leg'.own
        PROVE  /\ j \notin tr'.sealed /\ leg'.observed[j] = tr'.largest[j]
               /\ leg'.observed[j] <= heard'[j]
    <3>1. CASE j \in leg.own
      BY <1>2, <1>5, <1>10, <3>1, Here DEF LegKnows
    <3>2. CASE j = m /\ m = made + 1
      <4>1. tr.sealed \subseteq 1..made /\ tr.largest[m] = 0 /\ heard[m] \in Nat
        BY <1>4, <3>2, Here DEF Sound
      <4> QED
        BY <1>2, <1>4, <1>5, <1>10, <3>2, <4>1
    <3> QED
      BY <1>6, <1>10, <2>2, <3>1, <3>2
  <2>3. \A j \in leg'.output : j \in leg'.own /\ leg'.observed[j] > 0
    BY <1>6, <1>10, Here DEF LegKnows
  <2> QED
    BY <1>6, <1>10, <2>1, <2>2, <2>3 DEF LegKnows
<1>13. LegAnswers(leg', query')
  BY <1>2, <1>10, Here DEF LegAnswers
<1>14. LegCut(leg', query', tr'.count.spent)
  BY <1>5, <1>7, <1>10, <1>11 DEF LegCut
<1>15. QuerySound(query', leg', text' \cup residual', asked')
  BY <1>2, <1>10, <1>11, Here DEF QuerySound
<1>16. TypeOK' /\ TextIsOfItsQuery' /\ phases' \in Seq(Phase)
  <2>1. TypeOK'
    BY <1>2, <1>4, <1>5, <1>10, <1>11 DEF IInv, TypeOK, Legs, Queries
  <2> QED
    BY <1>2, <2>1 DEF IInv, TextIsOfItsQuery
<1>17. 1..made' = leg'.known \cup leg'.own
  BY <1>6, <1>10
<1> QED
  BY <1>5, <1>12, <1>13, <1>14, <1>15, <1>16, <1>17 DEF IInv

\* A count that arrives for the current message.
LEMMA MeteredStep ==
  ASSUME IInv, at = "asked", leg.done = "none", NEW m \in Ids, m \in leg.started,
         NEW u \in 0..Cost[m], Metered(m, u),
         UNCHANGED <<active, phases, at, resumed, deferred, opened, made, asked, kills, faults>>,
         text' \subseteq Ids, residual' \subseteq Ids,
         \A j \in text' \cup residual' : j > query.after
  PROVE  IInv'
<1>1. /\ leg \in Legs /\ query \in Queries /\ made \in Nat /\ heard \in [Ids -> Nat]
      /\ tr \in IdTrackers
      /\ leg.known \subseteq 1..made /\ leg.started \subseteq 1..made
      /\ leg.own = leg.started \ leg.known
      /\ leg.observed \in [Ids -> Nat]
  BY Here DEF LegKnows, Legs
<1>2. m \in 1..made /\ u \in Nat /\ u <= Cost[m] /\ Cost[m] \in Nat
  BY <1>1, IdsAre
<1>3. tr' = Add(tr, m, u) /\ heard' = [heard EXCEPT ![m] = IF u > @ THEN u ELSE @]
  BY DEF Metered
<1>4. /\ tr' \in IdTrackers /\ Sound(tr', made, heard') /\ tr'.sealed = tr.sealed
      /\ \A j \in Ids : j # m => tr'.largest[j] = tr.largest[j]
      /\ m \notin tr.sealed =>
           tr'.largest[m] = IF u > tr.largest[m] THEN u ELSE tr.largest[m]
  <2>1. /\ tr \in IdTrackers /\ heard \in [Ids -> Nat] /\ Sound(tr, made, heard)
        /\ made \in Nat
    BY Here
  <2>2. /\ heard'[m] = (IF u > heard[m] THEN u ELSE heard[m])
        /\ \A j \in Ids : j # m => heard'[j] = heard[j]
    BY <1>2, <1>3, <2>1
  <2>3. ASSUME NEW a, a = Add(tr, m, u), NEW g, g[m] = (IF u > heard[m] THEN u ELSE heard[m]),
               \A j \in Ids : j # m => g[j] = heard[j]
        PROVE  /\ a \in IdTrackers /\ Sound(a, made, g) /\ a.sealed = tr.sealed
               /\ \A j \in Ids : j # m => a.largest[j] = tr.largest[j]
               /\ m \notin tr.sealed =>
                    a.largest[m] = IF u > tr.largest[m] THEN u ELSE tr.largest[m]
    BY <1>2, <2>1, <2>3, AddSound
  <2>4. tr' = Add(tr, m, u)
    BY <1>3
  <2> QED
    BY <2>2, <2>3, <2>4
<1> DEFINE seen == [leg.observed EXCEPT ![m] = IF u > @ THEN u ELSE @]
           out == IF u > 0 /\ m \in FreshIds THEN leg.output \cup {m} ELSE leg.output
           c == Cut(leg)
           i == Interrupted(leg)
<1>5. /\ seen \in [Ids -> Nat] /\ \A j \in Ids : j # m => seen[j] = leg.observed[j]
      /\ seen[m] = IF u > leg.observed[m] THEN u ELSE leg.observed[m]
  BY <1>1, <1>2
<1>6. /\ heard' \in [Ids -> Nat] /\ \A j \in Ids : j # m => heard'[j] = heard[j]
      /\ heard'[m] = IF u > heard[m] THEN u ELSE heard[m]
  BY <1>1, <1>2, <1>3
<1>7. /\ out \subseteq Ids /\ \A j \in out : j \in leg.own /\ seen[j] > 0
  <2>1. ASSUME NEW j \in leg.output PROVE j \in leg.own /\ seen[j] > 0 /\ j \in Ids
    <3>1. j \in leg.own /\ leg.observed[j] > 0 /\ j \in Ids /\ leg.observed[j] \in Nat
      BY <1>1, Here DEF LegKnows, Legs
    <3>2. CASE j = m
      BY <1>2, <1>5, <3>1, <3>2
    <3>3. CASE j # m
      BY <1>5, <3>1, <3>3
    <3> QED
      BY <3>1, <3>2, <3>3
  <2>2. u > 0 /\ m \in FreshIds => m \in leg.own /\ seen[m] > 0
    BY <1>1, <1>2, <1>5 DEF FreshIds
  <2> HIDE DEF seen
  <2> QED
    BY <2>1, <2>2
<1>8. /\ c \in BOOLEAN /\ i \in BOOLEAN /\ (c => i)
      /\ (tr'.count.spent >= StopAt => c)
  BY <1>1, Here DEF Cut, Interrupted, LegCut, Legs, Queries
<1>9. leg' = [leg EXCEPT !.observed = seen, !.output = out, !.cut = c]
  BY <1>1 DEF Metered
<1>10. query' = [query EXCEPT !.interrupted = i]
  BY DEF Metered
<1> HIDE DEF seen, out, c, i
<1>11. /\ leg' \in Legs /\ leg'.known = leg.known /\ leg'.started = leg.started
       /\ leg'.own = leg.own /\ leg'.observed = seen /\ leg'.output = out
       /\ leg'.cut = c /\ leg'.done = "none" /\ leg'.tokens = leg.tokens
  BY <1>1, <1>5, <1>7, <1>8, <1>9 DEF Legs
<1>12. /\ query' \in Queries /\ query'.initial = query.initial /\ query'.after = query.after
       /\ query'.retries = query.retries /\ query'.interrupted = i
  BY <1>1, <1>8, <1>10 DEF Queries
<1>13. LegKnows(leg', tr', made', heard')
  <2>1. ASSUME NEW j \in Ids \ leg.started PROVE seen[j] = 0
    BY <1>5, Here DEF LegKnows
  <2>2. ASSUME NEW j \in leg.own
        PROVE  j \notin tr'.sealed /\ seen[j] = tr'.largest[j] /\ seen[j] <= heard'[j]
    <3>1. j \notin tr.sealed /\ leg.observed[j] = tr.largest[j] /\ leg.observed[j] <= heard[j]
          /\ j \in Ids
      BY <1>1, <2>2, Here DEF LegKnows, Legs
    <3>2. CASE j = m
      BY <1>1, <1>2, <1>4, <1>5, <1>6, <3>1, <3>2
    <3>3. CASE j # m
      BY <1>4, <1>5, <1>6, <3>1, <3>3
    <3> QED
      BY <3>2, <3>3
  <2> QED
    BY <1>1, <1>7, <1>11, <2>1, <2>2 DEF LegKnows
<1>14. LegAnswers(leg', query')
  BY <1>11, Here DEF LegAnswers
<1>15. LegCut(leg', query', tr'.count.spent)
  BY <1>8, <1>11, <1>12 DEF LegCut
<1>16. QuerySound(query', leg', text' \cup residual', asked')
  BY <1>11, <1>12, Here DEF QuerySound
<1>17. TypeOK'
  BY <1>1, <1>4, <1>6, <1>11, <1>12 DEF IInv, TypeOK, Legs, Queries
<1>18. TextIsOfItsQuery' /\ phases' \in Seq(Phase) /\ (Running' => 1..made' = leg'.known \cup leg'.own)
  BY <1>11 DEF IInv, TextIsOfItsQuery, Running
<1> QED
  BY <1>4, <1>13, <1>14, <1>15, <1>16, <1>17, <1>18 DEF IInv

\* What is streamed now is no older than the query.
LEMMA StreamIs ==
  ASSUME IInv, Streaming
  PROVE  /\ query.current \in Ids /\ query.current \in leg.started
         /\ query.current \notin query.initial => query.current > query.after
         /\ query.current \in FreshIds => query.current > query.after
         /\ text \subseteq Ids /\ residual \subseteq Ids
         /\ \A j \in text \cup residual : j > query.after
<1>1. query.current \in leg.started /\ leg.started \subseteq Ids /\ query.after \in Nat
  BY Here DEF Streaming, Legs, Queries
<1>2. query.initial = 1..query.after /\ query.initial \subseteq leg.known
  BY Here DEF QuerySound
<1>3. query.current \in Nat /\ query.current > 0
  BY <1>1, IdsAre
<1>4. text \subseteq Ids /\ residual \subseteq Ids
  BY DEF IInv, TypeOK
<1>5. \A j \in text \cup residual : j > query.after
  BY Here DEF QuerySound
<1> QED
  BY <1>1, <1>2, <1>3, <1>4, <1>5 DEF FreshIds

LEMMA MessageDeltaIInv == ASSUME IInv, MessageDelta PROVE IInv'
<1>1. /\ at = "asked" /\ leg.done = "none" /\ Streaming
      /\ UNCHANGED <<active, phases, text, residual, at, resumed, deferred, opened, made,
                     asked, kills, faults>>
  BY DEF MessageDelta, kept, bounds
<1>2. PICK u \in 1..Cost[query.current] : Metered(query.current, u)
  BY DEF MessageDelta
<1>3. query.current \in Ids /\ query.current \in leg.started
  BY <1>1, StreamIs
<1>4. u \in 0..Cost[query.current]
  BY <1>3, IdsAre
<1>5. /\ text' \subseteq Ids /\ residual' \subseteq Ids
      /\ \A j \in text' \cup residual' : j > query.after
  BY <1>1, StreamIs
<1> QED
  BY <1>1, <1>2, <1>3, <1>4, <1>5, MeteredStep

LEMMA AssistantIInv == ASSUME IInv, Assistant PROVE IInv'
<1> DEFINE m == query.current
<1>1. /\ at = "asked" /\ leg.done = "none" /\ Streaming
      /\ UNCHANGED <<active, phases, at, resumed, deferred, opened, made, asked, kills, faults>>
      /\ \/ m \notin query.initial /\ text' = text \cup {m} /\ residual' = residual \ {m}
         \/ UNCHANGED <<text, residual>>
  BY DEF Assistant, ContentAllowed, kept, bounds
<1>2. PICK u \in 0..Cost[m] : Metered(m, u)
  BY DEF Assistant
<1>3. m \in Ids /\ m \in leg.started
  BY <1>1, StreamIs
<1>4. /\ text' \subseteq Ids /\ residual' \subseteq Ids
      /\ \A j \in text' \cup residual' : j > query.after
  BY <1>1, StreamIs
<1> QED
  BY <1>1, <1>2, <1>3, <1>4, MeteredStep

LEMMA TextDeltaIInv == ASSUME IInv, TextDelta PROVE IInv'
<1>1. /\ at = "asked" /\ Streaming /\ query.current \in FreshIds
      /\ residual' = residual \cup {query.current}
      /\ UNCHANGED <<tr, active, phases, text, at, query, leg, resumed, deferred, opened, made,
                     heard, asked, kills, faults>>
  BY DEF TextDelta, tracker, bounds
<1>2. /\ residual' \subseteq Ids /\ \A j \in text' \cup residual' : j > query'.after
  BY <1>1, StreamIs
<1>3. TypeOK'
  BY <1>1, <1>2 DEF IInv, TypeOK
<1>4. QuerySound(query', leg', text' \cup residual', asked')
  BY <1>1, <1>2, Here DEF QuerySound
<1> QED
  BY <1>1, <1>3, <1>4 DEF IInv, TextIsOfItsQuery, Running

-----------------------------------------------------------------------------
(***************************************************************************)
(* The end of a phase.                                                     *)
(***************************************************************************)
\* What the last Result adds to the spend is what the messages it pays for
\* have cost beyond their streamed counts: a leg that is sealed has answered
\* uninterrupted, and any other pays for nothing.
LEMMA PaidIs ==
  ASSUME IInv
  PROVE  /\ PaidFor \in SUBSET (1..made) /\ PaidFor \cap tr.sealed = {}
         /\ Unstreamed \in Nat
         /\ Unstreamed = SumOf(Cost, PaidFor) - SumOf(tr.largest, PaidFor)
<1>1. /\ FreshIds = leg.own /\ leg.own \in SUBSET (1..made) /\ leg.own \in SUBSET Ids
      /\ IsFiniteSet(leg.own)
      /\ leg.observed \in [Ids -> Nat] /\ tr.largest \in [Ids -> Nat]
      /\ leg.tokens \in Nat
      /\ \A m \in leg.own : m \notin tr.sealed /\ leg.observed[m] = tr.largest[m]
  BY Here, IdsAre, FS_Subset DEF LegKnows, FreshIds, Legs, IdTrackers
<1>2. ObservedFresh = SumOf(leg.observed, leg.own) /\ ObservedFresh \in Nat
  BY <1>1, SumNat DEF ObservedFresh
<1>3. SumOf(leg.observed, leg.own) = SumOf(tr.largest, leg.own)
  BY <1>1, SumEqual
<1>4. SumOf(Cost, leg.own) \in Nat /\ SumOf(leg.observed, leg.own) <= SumOf(Cost, leg.own)
  <2>1. \A m \in leg.own : leg.observed[m] \in Nat /\ Cost[m] \in Nat /\ leg.observed[m] <= Cost[m]
    BY <1>1, IdsAre, Here DEF Sound
  <2> QED
    BY <1>1, <2>1, SumMonotone, SumNat
<1>5. leg.output # {} => ObservedFresh > 0
  <2>1. SUFFICES ASSUME leg.output # {} PROVE ObservedFresh > 0
    OBVIOUS
  <2>2. PICK m \in leg.own : leg.observed[m] > 0
    BY <2>1, Here DEF LegKnows
  <2>3. {m} \in SUBSET leg.own /\ leg.observed[m] \in Nat
        /\ \A j \in leg.own : leg.observed[j] \in Nat
    BY <1>1
  <2>4. SumOf(leg.observed, {m}) = leg.observed[m]
    BY <2>3, SumSingle
  <2>5. SumOf(leg.observed, {m}) <= SumOf(leg.observed, leg.own)
    BY <1>1, <2>3, SumPart
  <2> QED
    BY <1>2, <2>2, <2>3, <2>4, <2>5
<1>6. SumOf(Cost, {}) = 0 /\ SumOf(tr.largest, {}) = 0
  BY SumEmpty
<1>7. CASE leg.output = {} \/ leg.tokens = 0 \/ (query.interrupted /\ leg.tokens <= ObservedFresh)
  <2>1. PaidFor = {}
    BY <1>2, <1>5, <1>7 DEF PaidFor
  <2>2. Unstreamed = 0
    BY <1>1, <1>2, <1>7 DEF Unstreamed
  <2> QED
    BY <1>6, <2>1, <2>2
<1>8. CASE leg.output # {} /\ ~query.interrupted /\ leg.tokens = SumOf(Cost, leg.own)
  <2>1. PaidFor = leg.own
    BY <1>1, <1>2, <1>4, <1>8 DEF PaidFor
  <2>2. Unstreamed = SumOf(Cost, leg.own) - SumOf(leg.observed, leg.own) /\ Unstreamed \in Nat
    BY <1>1, <1>2, <1>4, <1>8 DEF Unstreamed
  <2> QED
    BY <1>1, <1>3, <2>1, <2>2
<1> QED
  BY <1>2, <1>7, <1>8, Here DEF LegAnswers

\* A phase that is committed has the text of its own query.
LEMMA CommitTextStep ==
  ASSUME IInv, NEW exhausted \in BOOLEAN, CommitText(exhausted)
  PROVE  /\ phases' \in Seq(Phase) /\ TextIsOfItsQuery'
         /\ Len(phases') = Len(phases) + 1
         /\ phases'[Len(phases')] = [text |-> text \cup residual, exhausted |-> exhausted,
                                     after |-> query.after]
         /\ active' = FALSE /\ text' = {} /\ residual' = {}
<1> DEFINE phase == [text |-> text \cup residual, exhausted |-> exhausted, after |-> query.after]
<1>1. phases \in Seq(Phase)
  BY DEF IInv
<1>2. phase \in Phase
  BY Here DEF Phase, Queries, IInv, TypeOK
<1>3. \A m \in phase.text : m > phase.after
  BY Here DEF QuerySound
<1>4. phases' = Append(phases, phase) /\ active' = FALSE /\ text' = {} /\ residual' = {}
  BY DEF CommitText
<1> HIDE DEF phase
<1>5. /\ phases' \in Seq(Phase) /\ Len(phases') = Len(phases) + 1
      /\ phases'[Len(phases')] = phase
      /\ \A i \in DOMAIN phases' : phases'[i] = phase \/ (i \in DOMAIN phases /\ phases'[i] = phases[i])
  BY <1>1, <1>2, <1>4
<1>6. TextIsOfItsQuery'
  BY <1>3, <1>5 DEF IInv, TextIsOfItsQuery
<1> QED
  BY <1>4, <1>5, <1>6 DEF phase

LEMMA CommitPhaseIInv == ASSUME IInv, CommitPhase PROVE IInv'
<1>1. /\ tr' = CloseCount(Seal(tr, PaidFor), tr.count.streamed + Unstreamed)
      /\ CommitText(query.interrupted)
      /\ resumed' = (resumed /\ leg.output = {}) /\ at' = "ready"
      /\ leg' = NoLeg /\ query' = NoQuery /\ asked' = NoAsk
      /\ UNCHANGED <<deferred, opened, made, heard, kills, faults>>
  BY DEF CommitPhase, PhaseOver, bounds
<1>2. tr' \in IdTrackers /\ Sound(tr', made', heard')
  <2>1. /\ tr \in IdTrackers /\ made \in Nat /\ heard \in [Ids -> Nat] /\ Sound(tr, made, heard)
    BY Here
  <2> DEFINE c == CloseCount(Seal(tr, PaidFor), tr.count.streamed + Unstreamed)
  <2>2. c \in IdTrackers /\ Sound(c, made, heard)
    BY <2>1, PaidIs, CloseSound
  <2> HIDE DEF c
  <2>3. tr' = c /\ made' = made /\ heard' = heard
    BY <1>1 DEF c
  <2> QED
    BY <2>2, <2>3
<1>3. query.interrupted \in BOOLEAN
  BY Here DEF Queries
<1>4. /\ phases' \in Seq(Phase) /\ TextIsOfItsQuery'
      /\ active' = FALSE /\ text' = {} /\ residual' = {}
  BY <1>1, <1>3, CommitTextStep
<1>5. /\ leg' \in Legs /\ query' \in Queries /\ asked' \in [prompts: Nat, rejections: Nat]
      /\ asked'.prompts = 0 /\ asked'.rejections = 0
  BY <1>1, NoLegIs, QueriesAre DEF NoAsk
<1>6. TypeOK'
  <2>1. \A i \in DOMAIN phases' : phases'[i] \in Phase
    BY <1>4
  <2>2. /\ active' \in BOOLEAN /\ text' \subseteq Ids /\ residual' \subseteq Ids
        /\ at' \in {"down", "ready", "asked", "over", "collect"}
    BY <1>1, <1>4
  <2>3. /\ resumed' \in BOOLEAN /\ deferred' \in BOOLEAN /\ opened' \in BOOLEAN
        /\ made' \in Nat /\ heard' \in [Ids -> Nat]
        /\ kills' \in 0..MaxKills /\ faults' \in 0..MaxFaults
    BY <1>1 DEF IInv, TypeOK
  <2> QED
    BY <1>2, <1>5, <2>1, <2>2, <2>3 DEF TypeOK, Legs, Queries, Phase
<1>7. LegKnows(leg', tr', made', heard') /\ LegAnswers(leg', query')
      /\ LegCut(leg', query', tr'.count.spent)
  BY <1>1, NoLegIs
<1>8. QuerySound(query', leg', text' \cup residual', asked')
  <2>1. /\ query'.initial = {} /\ query'.after = 0 /\ query'.retries = 0
    BY <1>1, QueriesAre
  <2>2. 1..0 = {}
    OBVIOUS
  <2> QED
    BY <1>4, <1>5, <2>1, <2>2 DEF QuerySound
<1>9. ~Running'
  BY <1>1 DEF Running
<1> QED
  BY <1>2, <1>4, <1>6, <1>7, <1>8, <1>9 DEF IInv

LEMMA FinalizeKilledIInv == ASSUME IInv, FinalizeKilled PROVE IInv'
<1>1. /\ at = "ready" /\ tr' = CloseCount(tr, 0) /\ CommitText(TRUE)
      /\ UNCHANGED <<at, query, leg, resumed, deferred, opened, made, heard, asked, kills, faults>>
  BY DEF FinalizeKilled, bounds
<1>2. /\ tr \in IdTrackers /\ made \in Nat /\ heard \in [Ids -> Nat] /\ Sound(tr, made, heard)
  BY Here
<1> DEFINE f == FinishPhase(tr.count, 0)
<1>3. f \in Trackers /\ f.spent = tr.count.spent /\ Restorable(f)
  BY <1>2 DEF FinishPhase, Trackers, Restorable, Sound, IdTrackers
<1>4. tr' = [tr EXCEPT !.count = f]
  BY <1>1 DEF CloseCount
<1> HIDE DEF f
<1>5. /\ tr' \in IdTrackers /\ tr'.count = f /\ tr'.largest = tr.largest
      /\ tr'.seen = tr.seen /\ tr'.sealed = tr.sealed
  BY <1>2, <1>3, <1>4 DEF IdTrackers
<1>6. ChargedIn(tr') = ChargedIn(tr)
  BY <1>5 DEF ChargedIn
<1>7. Sound(tr', made', heard')
  BY <1>1, <1>2, <1>3, <1>5, <1>6 DEF Sound
<1>8. /\ phases' \in Seq(Phase) /\ TextIsOfItsQuery'
      /\ active' = FALSE /\ text' = {} /\ residual' = {}
  BY <1>1, CommitTextStep
<1>9. TypeOK'
  <2>1. \A i \in DOMAIN phases' : phases'[i] \in Phase
    BY <1>8
  <2>2. active' \in BOOLEAN /\ text' \subseteq Ids /\ residual' \subseteq Ids
    BY <1>8
  <2>3. /\ at' \in {"down", "ready", "asked", "over", "collect"}
        /\ resumed' \in BOOLEAN /\ deferred' \in BOOLEAN /\ opened' \in BOOLEAN
        /\ made' \in Nat /\ heard' \in [Ids -> Nat]
        /\ kills' \in 0..MaxKills /\ faults' \in 0..MaxFaults
    BY <1>1 DEF IInv, TypeOK
  <2>4. query' \in Queries /\ leg' \in Legs /\ asked' \in [prompts: Nat, rejections: Nat]
    BY <1>1, Here
  <2> QED
    BY <1>5, <2>1, <2>2, <2>3, <2>4 DEF TypeOK, Legs, Queries, Phase
<1>10. LegKnows(leg', tr', made', heard')
  BY <1>1, <1>5, Here DEF LegKnows
<1>11. LegAnswers(leg', query') /\ LegCut(leg', query', tr'.count.spent)
  BY <1>1, <1>3, <1>5, Here
<1>12. QuerySound(query', leg', text' \cup residual', asked') /\ ~Running'
  BY <1>1, <1>8, Here DEF QuerySound, Running
<1> QED
  BY <1>7, <1>8, <1>9, <1>10, <1>11, <1>12 DEF IInv

-----------------------------------------------------------------------------
LEMMA InitIInv == Init => IInv
<1> SUFFICES ASSUME Init PROVE IInv
  OBVIOUS
<1>1. /\ tr = NewIdTracker /\ active = FALSE /\ phases = <<>> /\ text = {} /\ residual = {}
      /\ made = 0 /\ heard = NoCount /\ at = "down"
      /\ query = NoQuery /\ leg = NoLeg /\ asked = NoAsk
      /\ resumed = FALSE /\ deferred = FALSE /\ opened = FALSE /\ kills = 0 /\ faults = 0
  BY DEF Init
<1>2. 1..0 = {}
  OBVIOUS
<1>3. /\ tr \in IdTrackers /\ tr.seen = {} /\ tr.sealed = {} /\ \A m \in Ids : tr.largest[m] = 0
      /\ tr.count.spent = 0 /\ tr.count \in Trackers /\ Restorable(tr.count)
  BY <1>1 DEF NewIdTracker, IdTrackers, NewTracker, Trackers, Restorable
<1>4. NoCount \in [Ids -> Nat] /\ \A m \in Ids : NoCount[m] = 0
  BY DEF NoCount
<1>5. Known(tr) = {}
  BY <1>3 DEF Known
<1>6. Sound(tr, made, heard)
  <2>1. \A m \in Ids : ChargedIn(tr)[m] = 0
    BY <1>3 DEF ChargedIn
  <2>2. SumOf(ChargedIn(tr), Ids) = 0
    BY <2>1, IdsAre, SumZero
  <2>3. \A m \in Ids : tr.largest[m] <= Cost[m] /\ (m > 0 => tr.largest[m] = 0)
    BY <1>3, IdsAre
  <2> QED
    BY <1>1, <1>2, <1>3, <1>4, <2>1, <2>2, <2>3, MessageAssumption DEF Sound
<1>7. /\ NewLeg = [known |-> {}, started |-> {}, own |-> {}, observed |-> NoCount,
                   output |-> {}, cut |-> FALSE, limited |-> FALSE, lost |-> FALSE,
                   spent |-> FALSE, complete |-> FALSE, fatal |-> FALSE, done |-> "none",
                   tokens |-> 0]
      /\ leg = [NewLeg EXCEPT !.known = {}]
  BY <1>1, <1>5 DEF NewLeg, NoLeg
<1>8. /\ leg \in Legs /\ leg.known = {} /\ leg.started = {} /\ leg.own = {}
      /\ leg.observed = NoCount /\ leg.output = {} /\ ~leg.cut
      /\ leg.done = "none" /\ leg.tokens = 0
  BY <1>4, <1>7 DEF Legs
<1>9. /\ query = [[initial |-> {}, current |-> 0, interrupted |-> FALSE, results |-> FALSE,
                   retries |-> 0, after |-> 0] EXCEPT !.initial = {}, !.after = 0]
  BY <1>1, <1>5 DEF NewQuery, NoQuery
<1>10. query \in Queries /\ query.initial = {} /\ query.after = 0 /\ query.retries = 0
  <2> DEFINE q == [initial |-> {}, current |-> 0, interrupted |-> FALSE, results |-> FALSE,
                   retries |-> 0, after |-> 0]
  <2>1. 0 \in 0..MaxRetries /\ q.initial = {} /\ q.after = 0 /\ q.retries = 0
    BY StreamAssumption
  <2>2. q \in Queries
    BY <2>1 DEF Queries
  <2>3. query = [q EXCEPT !.initial = {}, !.after = 0]
    BY <1>9
  <2> HIDE DEF q
  <2> QED
    BY <2>1, <2>2, <2>3 DEF Queries
<1>11. asked \in [prompts: Nat, rejections: Nat] /\ asked.prompts = 0 /\ asked.rejections = 0
  BY <1>1 DEF NoAsk
<1>12. TypeOK /\ phases \in Seq(Phase)
  <2>1. phases \in Seq(Phase) /\ \A i \in DOMAIN phases : phases[i] \in Phase
    BY <1>1
  <2>2. made \in Nat /\ heard \in [Ids -> Nat] /\ kills \in 0..MaxKills /\ faults \in 0..MaxFaults
    BY <1>1, <1>4, StreamAssumption
  <2>3. /\ text \subseteq Ids /\ residual \subseteq Ids /\ active \in BOOLEAN
        /\ at \in {"down", "ready", "asked", "over", "collect"}
        /\ resumed \in BOOLEAN /\ deferred \in BOOLEAN /\ opened \in BOOLEAN
    BY <1>1
  <2> QED
    BY <1>3, <1>8, <1>10, <1>11, <2>1, <2>2, <2>3 DEF TypeOK, Legs, Queries, Phase
<1>13. LegKnows(leg, tr, made, heard) /\ LegAnswers(leg, query)
       /\ LegCut(leg, query, tr.count.spent)
  BY <1>1, <1>4, <1>8 DEF LegKnows, LegAnswers, LegCut
<1>14. QuerySound(query, leg, text \cup residual, asked) /\ TextIsOfItsQuery /\ ~Running
  BY <1>1, <1>2, <1>10, <1>11 DEF QuerySound, TextIsOfItsQuery, Running
<1> QED
  BY <1>6, <1>12, <1>13, <1>14 DEF IInv

LEMMA StepIInv == IInv /\ [Next]_vars => IInv'
<1> SUFFICES ASSUME IInv, [Next]_vars PROVE IInv'
  OBVIOUS
<1>1. CASE UNCHANGED vars
  <2>1. UNCHANGED <<tr, active, phases, text, residual, at, query, leg, resumed, deferred,
                    opened, made, heard, asked, kills, faults>>
    BY <1>1 DEF vars, tracker, kept, bounds
  <2> QED
    BY <2>1 DEF IInv, TypeOK, TextIsOfItsQuery, Running
<1>2. CASE Next /\ ~UNCHANGED vars
  <2>1. CASE Envelope
    BY <2>1, MessageStartIInv, MessageDeltaIInv, TextDeltaIInv, AssistantIInv DEF Envelope
  <2>2. CASE Failure
    BY <2>2, ErrorAssistantIInv, RateLimitEventIInv, EmptyResultIInv, ErrorResultIInv,
       StreamBreaksIInv, GoneIInv DEF Failure
  <2>3. CASE Result
    BY <2>3, AnswerResultIInv, StaleResultIInv DEF Result
  <2>4. CASE Control
    BY <2>4, QuietIInv, GoneIInv, RecoverIInv, CommitPhaseIInv, AskIInv, FinalizeKilledIInv
       DEF Control
  <2>5. CASE StreamEnds \/ Kill
    BY <2>5, QuietIInv, GoneIInv
  <2>6. ~Finished
    BY <1>2 DEF Finished
  <2> QED
    BY <1>2, <2>1, <2>2, <2>3, <2>4, <2>5, <2>6 DEF Next
<1> QED
  BY <1>1, <1>2

LEMMA Inductive == Spec => []IInv
  BY InitIInv, StepIInv, PTL DEF Spec

-----------------------------------------------------------------------------
(***************************************************************************)
(* What follows from the invariant.                                        *)
(***************************************************************************)
\* What is charged is no more than what the messages of the conversation cost.
LEMMA SpendBounded == ASSUME IInv PROVE ChargedOnce
<1> DEFINE own == 1..made
           c   == ChargedIn(tr)
<1>1. own \in SUBSET Ids /\ IsFiniteSet(own) /\ IsFiniteSet(Ids \ own)
  BY Here, IdsAre, FS_Subset
<1>2. tr \in IdTrackers /\ made \in Nat /\ \A m \in Ids : c[m] \in Nat
  BY Here, ChargedTyped
<1>3. ASSUME NEW m \in Ids \ own PROVE c[m] = 0
  <2>1. m > made
    BY <1>2, IdsAre
  <2>2. m \notin tr.sealed /\ tr.largest[m] = 0
    BY <2>1, Here DEF Sound
  <2> QED
    BY <2>2 DEF ChargedIn
<1>4. ASSUME NEW m \in own PROVE c[m] \in Nat /\ Cost[m] \in Nat /\ c[m] <= Cost[m]
  <2>1. m \in Ids
    BY <1>1
  <2>2. c[m] \in Nat /\ Cost[m] \in Nat /\ tr.largest[m] <= Cost[m]
    BY <1>2, <2>1, IdsAre, Here DEF Sound
  <2> QED
    BY <2>1, <2>2 DEF ChargedIn
<1>5. tr.count.spent = SumOf(c, Ids)
  BY Here DEF Sound
<1> HIDE DEF own, c
<1>6. SumOf(c, Ids) = SumOf(c, own) + SumOf(c, Ids \ own)
  BY <1>1, <1>2, IdsAre, SumSplit
<1>7. SumOf(c, Ids \ own) = 0
  BY <1>1, <1>3, SumZero
<1>8. SumOf(c, own) <= SumOf(Cost, own) /\ SumOf(c, own) \in Nat
  BY <1>1, <1>4, SumMonotone, SumNat
<1>9. tr.count.spent <= SumOf(Cost, own)
  BY <1>5, <1>6, <1>7, <1>8
<1> QED
  BY <1>9 DEF ChargedOnce, own

LEMMA SpendCoversHeard == ASSUME IInv PROVE ReportedIsCharged
<1>1. tr \in IdTrackers /\ heard \in [Ids -> Nat] /\ IsFiniteSet(Ids)
  BY Here, IdsAre
<1>2. \A m \in Ids : heard[m] \in Nat /\ ChargedIn(tr)[m] \in Nat /\ heard[m] <= ChargedIn(tr)[m]
  BY <1>1, ChargedTyped, Here DEF Sound
<1>3. SumOf(heard, Ids) <= SumOf(ChargedIn(tr), Ids)
  BY <1>1, <1>2, SumMonotone
<1> QED
  BY <1>3, Here DEF ReportedIsCharged, Sound

LEMMA PromptsBounded == ASSUME IInv PROVE RetriesBounded
<1>1. /\ asked.prompts \in Nat /\ asked.rejections \in Nat
      /\ query.retries \in 0..MaxRetries
  BY Here DEF Queries
<1>2. asked.prompts <= 1 + query.retries + asked.rejections
  BY Here DEF QuerySound
<1> QED
  BY <1>1, <1>2, StreamAssumption DEF RetriesBounded

\* Only two steps end a phase, and only one of them as complete.
LEMMA PhasesGrow ==
  ASSUME IInv, [Next]_vars, Len(phases') > Len(phases)
  PROVE  CommitPhase \/ FinalizeKilled
<1> SUFFICES ASSUME ~CommitPhase, ~FinalizeKilled PROVE phases' = phases
  <2>1. Len(phases) \in Nat
    BY DEF IInv
  <2> QED
    BY <2>1
<1>1. CASE UNCHANGED vars
  BY <1>1 DEF vars, tracker
<1>2. CASE Envelope
  BY <1>2 DEF Envelope, MessageStart, MessageDelta, TextDelta, Assistant, tracker
<1>3. CASE Failure
  BY <1>3 DEF Failure, ErrorAssistant, RateLimitEvent, EmptyResult, ErrorResult,
     StreamBreaks, EndLeg, StreamRaises, Down, tracker
<1>4. CASE Result
  BY <1>4 DEF Result, AnswerResult, StaleResult, tracker
<1>5. CASE Control
  BY <1>5 DEF Control, DeferRecovery, RecoverRejected, RetryTransport, Reopen, GiveUp, Down,
     ReturnResponse, RejectResponse, Restart, Ask, tracker
<1>6. CASE StreamEnds \/ Kill \/ Finished
  BY <1>6 DEF StreamEnds, EndLeg, Kill, Down, Finished, vars, tracker
<1> QED
  BY <1>1, <1>2, <1>3, <1>4, <1>5, <1>6 DEF Next

LEMMA FreshStep ==
  ASSUME IInv, [Next]_vars, Len(phases') > Len(phases), ~phases'[Len(phases')].exhausted
  PROVE  \E m \in leg.own : heard[m] > 0
<1>1. CASE FinalizeKilled
  <2>1. CommitText(TRUE)
    BY <1>1 DEF FinalizeKilled
  <2>2. phases'[Len(phases')] = [text |-> text \cup residual, exhausted |-> TRUE,
                                 after |-> query.after]
    BY <2>1, CommitTextStep
  <2> QED
    BY <2>2
<1>2. CASE CommitPhase
  <2>1. query.interrupted \in BOOLEAN /\ CommitText(query.interrupted)
    BY <1>2, Here DEF CommitPhase, Queries
  <2>2. ~query.interrupted
    <3>1. phases'[Len(phases')] = [text |-> text \cup residual,
                                   exhausted |-> query.interrupted, after |-> query.after]
      BY <2>1, CommitTextStep
    <3> QED
      BY <3>1
  <2>3. leg.output # {}
    BY <1>2, <2>2 DEF CommitPhase, Accepted
  <2>4. PICK m \in leg.output : m \in leg.own /\ leg.observed[m] > 0
    BY <2>3, Here DEF LegKnows
  <2>5. leg.observed[m] <= heard[m] /\ leg.observed[m] \in Nat /\ heard[m] \in Nat
    BY <2>4, Here DEF LegKnows, Legs
  <2> QED
    BY <2>4, <2>5
<1> QED
  BY <1>1, <1>2, PhasesGrow

\* An answer is kept until its phase is committed, unless its stream goes on with
\* what gives it up: its leg has completed, so no other failure asks again.
LEMMA AnswerStep ==
  ASSUME IInv, [Next]_vars, Answered, kills' = kills
  PROVE  \/ Answered'
         \/ /\ Len(phases') = Len(phases) + 1
            /\ phases'[Len(phases')].text = text \cup residual
         \/ GivenUp
<1>1. /\ at \in {"asked", "over", "collect"} /\ leg.done = "ok" /\ leg.output # {}
      /\ leg \in Legs /\ query \in Queries
  BY Here DEF Answered
<1>2. leg.complete /\ query.results /\ Accepted
  BY <1>1, Here DEF LegAnswers, Accepted
<1>3. ~Kill
  <2>1. kills \in Nat
    BY StreamAssumption DEF IInv, TypeOK
  <2> QED
    BY <2>1 DEF Kill
<1>4. ~Envelope /\ ~Result
  BY <1>1 DEF Envelope, MessageStart, MessageDelta, TextDelta, Assistant,
     Result, AnswerResult, StaleResult
<1>5. /\ ~RecoverRejected /\ ~RetryTransport /\ ~GiveUp /\ ~RejectResponse
      /\ ~Restart /\ ~Ask /\ ~FinalizeKilled /\ ~Finished
  BY <1>1, <1>2 DEF RecoverRejected, RetryTransport, GiveUp, RejectResponse, Restart, Ask,
     FinalizeKilled, Finished
<1>6. CASE UNCHANGED vars
  BY <1>1, <1>6 DEF vars, Answered
<1>7. CASE RateLimitEvent
  BY <1>1, <1>7 DEF RateLimitEvent, Answered, Legs
<1>8. CASE EmptyResult
  <2>1. leg' = [leg EXCEPT !.complete = @ \/ (~FALSE /\ FALSE /\ (leg.started # {} \/ 0 > 0)),
                           !.fatal = @ \/ FALSE, !.done = @,
                           !.tokens = IF FALSE \/ query.interrupted THEN 0 ELSE @]
        /\ at' = at
    BY <1>8 DEF EmptyResult, Yields
  <2>2. leg'.done = leg.done /\ leg'.output = leg.output
    BY <1>1, <2>1 DEF Legs
  <2> QED
    BY <1>1, <2>1, <2>2 DEF Answered
<1>9. CASE StreamBreaks \/ StreamEnds
  <2>1. at' = "over" /\ \/ leg' = leg
                        \/ leg' = [leg EXCEPT !.spent = TRUE]
                        \/ leg' = [leg EXCEPT !.lost = TRUE]
    BY <1>9 DEF StreamBreaks, StreamEnds, EndLeg
  <2> QED
    BY <1>1, <2>1 DEF Answered, Legs
<1>10. CASE DeferRecovery \/ ReturnResponse
  BY <1>1, <1>10 DEF DeferRecovery, ReturnResponse, Answered
<1>11. CASE CommitPhase
  <2>1. query.interrupted \in BOOLEAN /\ CommitText(query.interrupted)
    BY <1>1, <1>11 DEF CommitPhase, Queries
  <2>2. /\ Len(phases') = Len(phases) + 1
        /\ phases'[Len(phases')] = [text |-> text \cup residual,
                                    exhausted |-> query.interrupted, after |-> query.after]
    BY <2>1, CommitTextStep
  <2> QED
    BY <2>2
<1>12. Fault => faults' > faults
  BY StreamAssumption DEF Fault, IInv, TypeOK
<1>13. CASE StreamRaises
  BY <1>12, <1>13 DEF StreamRaises, Down, GivenUp
<1>14. CASE ErrorResult
  <2>1. at = "asked" /\ at' = "asked" /\ Fault
    BY <1>14 DEF ErrorResult
  <2>2. CASE leg' = leg \/ leg' = [leg EXCEPT !.lost = TRUE]
    BY <1>1, <2>1, <2>2 DEF Answered, Legs
  <2>3. CASE \E turns \in BOOLEAN : Yields(turns, TRUE, 0)
    <3>1. PICK turns \in BOOLEAN : Yields(turns, TRUE, 0)
      BY <2>3
    <3>2. /\ leg'.fatal /\ leg'.output = leg.output
          /\ leg'.done = IF turns THEN "error" ELSE leg.done
      BY <1>1, <3>1 DEF Yields, Legs
    <3>3. CASE turns
      BY <1>12, <2>1, <3>2, <3>3 DEF GivenUp
    <3>4. CASE ~turns
      BY <1>1, <2>1, <3>2, <3>4 DEF Answered
    <3> QED
      BY <3>3, <3>4
  <2> QED
    BY <1>14, <2>2, <2>3 DEF ErrorResult
<1>15. CASE ErrorAssistant
  <2>1. at = "asked" /\ at' = "asked" /\ Fault
    BY <1>15 DEF ErrorAssistant
  <2>2. leg'.done = leg.done /\ leg'.output \in {leg.output, leg.output \ {query.current}}
    BY <1>1, <1>15 DEF ErrorAssistant, Legs
  <2>3. CASE leg'.output = {}
    <3>1. leg.output = {query.current}
      BY <1>1, <2>2, <2>3
    <3> QED
      BY <1>12, <2>1, <2>3, <3>1 DEF GivenUp
  <2>4. CASE leg'.output # {}
    BY <1>1, <2>1, <2>2, <2>4 DEF Answered
  <2> QED
    BY <2>3, <2>4
<1> QED
  BY <1>3, <1>4, <1>5, <1>6, <1>7, <1>8, <1>9, <1>10, <1>11, <1>13, <1>14, <1>15
     DEF Next, Failure, Control

-----------------------------------------------------------------------------
(***************************************************************************)
(* The theorems.                                                           *)
(***************************************************************************)
\* A conversation has the types of its state, replays and failures included.
THEOREM StreamTypes == Spec => []TypeOK
<1>1. IInv => TypeOK
  BY DEF IInv
<1> QED
  BY <1>1, Inductive, PTL

\* No token is charged twice: the spend never exceeds what the provider has
\* generated, through replays, reconnects, restarts and Result true-ups
\* (BudgetTracker.add_streamed_usage, run_phase).
THEOREM NothingChargedTwice == Spec => []ChargedOnce
  BY Inductive, SpendBounded, PTL

\* What was ever streamed for a message of the conversation stays charged.
THEOREM HeardIsCharged == Spec => []ReportedIsCharged
  BY Inductive, SpendCoversHeard, PTL

\* No replayed text, and none of a discarded phase, is in a committed phase.
THEOREM OwnTextOnly == Spec => []TextIsOfItsQuery
<1>1. IInv => TextIsOfItsQuery
  BY DEF IInv
<1> QED
  BY <1>1, Inductive, PTL

\* Once the cutoff is reached every connection that streams is interrupted.
THEOREM EveryLegIsCut == Spec => []CutoffStopsEveryLeg
<1>1. IInv => CutoffStopsEveryLeg
  BY Here DEF LegCut, CutoffStopsEveryLeg
<1> QED
  BY <1>1, Inductive, PTL

\* However the transport fails, a prompt is repeated a bounded number of times.
THEOREM RetriesEnd == Spec => []RetriesBounded
  BY Inductive, PromptsBounded, PTL

\* A phase is committed as complete only on output that the provider generated
\* on the very connection that answered (run_phase, connection_fresh_output_ids).
THEOREM CompletionsAreFresh == Spec => CompletionIsFresh
<1>1. IInv /\ [Next]_vars =>
        [Len(phases') > Len(phases) /\ ~phases'[Len(phases')].exhausted =>
           \E m \in leg.own : heard[m] > 0]_vars
  BY FreshStep
<1> QED
  BY <1>1, Inductive, PTL DEF Spec, CompletionIsFresh

\* An answered query is committed, with all the text it has kept, through every
\* failure but the three by which the code gives an answer up while its stream
\* lasts, and a kill (receive_response, _defer_completed_recovery).
THEOREM AnswersAreCommitted == Spec => AnswerIsCommitted
<1>1. IInv /\ [Next]_vars =>
        [Answered /\ kills' = kills =>
           \/ Answered'
           \/ /\ Len(phases') = Len(phases) + 1
              /\ phases'[Len(phases')].text = text \cup residual
           \/ GivenUp]_vars
  BY AnswerStep
<1> QED
  BY <1>1, Inductive, PTL DEF Spec, AnswerIsCommitted
=============================================================================
