-------------------------- MODULE BudgetCuts_proofs --------------------------
(***************************************************************************)
(* Proofs about BudgetCuts: what a budget cut certifies, for trajectories  *)
(* of any length and any threshold.                                        *)
(***************************************************************************)
EXTENDS BudgetCuts, WellFoundedInduction, TLAPS

\* A phase as run_phase returns it, and whether a critique found no gap; label
\* and text are left open.
PhaseSet(L, T) ==
  [label : L, text : T, nogap : BOOLEAN, cumulative : Nat, exhausted : BOOLEAN]

\* LastOf picks the greatest member of every nonempty set of indices.
LEMMA LeastNatural ==
  ASSUME NEW S \in SUBSET Nat, S # {}
  PROVE  \E m \in S : \A k \in S : m <= k
<1> DEFINE R == OpToRel(<, Nat)
<1>1. IsWellFoundedOn(R, Nat)
  BY NatLessThanWellFounded
<1>2. \A x, y \in Nat : x < y => <<x, y>> \in R
  BY DEF OpToRel
<1> HIDE DEF R
<1>3. PICK x \in S : \A y \in S : ~ (<<y, x>> \in R)
  BY <1>1, WFMin
<1>4. \A y \in S : ~ (y < x)
  BY <1>2, <1>3
<1> QED
  BY <1>3, <1>4

LEMMA LastOfGreatest ==
  ASSUME NEW n \in Nat, NEW S \in SUBSET (1..n), S # {}
  PROVE  LastOf(S) \in S /\ \A j \in S : j <= LastOf(S)
<1> DEFINE D == {n - i : i \in S}
<1>1. D \in SUBSET Nat
  <2>1. ASSUME NEW i \in S PROVE n - i \in Nat
    <3>1. i \in 1..n
      BY <2>1
    <3> QED
      BY <3>1
  <2> QED
    BY <2>1
<1>2. D # {}
  OBVIOUS
<1>3. PICK m \in D : \A k \in D : m <= k
  BY <1>1, <1>2, LeastNatural
<1>4. PICK i \in S : m = n - i
  BY <1>3
<1>5. \A j \in S : j <= i
  <2> SUFFICES ASSUME NEW j \in S PROVE j <= i
    OBVIOUS
  <2>1. n - j \in D
    OBVIOUS
  <2>2. n - i <= n - j /\ j \in Int /\ i \in Int
    BY <1>3, <1>4, <2>1
  <2> QED
    BY <2>2
<1> QED
  BY <1>5 DEF LastOf

\* On a metered trajectory the phases within a threshold are an initial
\* segment of it.
LEMMA WithinIsPrefix ==
  ASSUME NEW L, NEW T, NEW phases \in Seq(PhaseSet(L, T)), Metered(phases),
         NEW threshold \in Int, NEW i \in DOMAIN phases,
         phases[i].cumulative <= threshold
  PROVE  \A j \in 1..i : phases[j].cumulative <= threshold
<1> SUFFICES ASSUME NEW j \in 1..i PROVE phases[j].cumulative <= threshold
  OBVIOUS
<1>1. j \in DOMAIN phases /\ j <= i
  OBVIOUS
<1>2. phases[j].cumulative \in Nat /\ phases[i].cumulative \in Nat
  <2>1. phases[j] \in PhaseSet(L, T) /\ phases[i] \in PhaseSet(L, T)
    BY <1>1
  <2> QED
    BY <2>1 DEF PhaseSet
<1>3. phases[j].cumulative <= phases[i].cumulative
  BY <1>1 DEF Metered
<1> QED
  BY <1>2, <1>3

\* "exactly what a run hard-stopped at the threshold would have been graded
\* on": a budget cut of an uninterrupted attempt (_phase_at_cut) is the
\* write-up of the attempt stopped there.
THEOREM CutIsHardStop ==
  ASSUME NEW L, NEW T, NEW phases \in Seq(PhaseSet(L, T)), Metered(phases),
         NEW threshold \in Int
  PROVE  PhaseAtCut(phases, threshold) = HardStopped(phases, threshold)
<1> DEFINE Stopped == {i \in DOMAIN phases :
                         /\ Complete(phases[i])
                         /\ \A j \in 1..i : phases[j].cumulative <= threshold}
<1>1. ASSUME NEW i \in Snapshot(phases, threshold) PROVE i \in Stopped
  <2>1. i \in DOMAIN phases /\ phases[i].cumulative <= threshold /\ Complete(phases[i])
    BY <1>1 DEF Snapshot, Within
  <2> QED
    BY <2>1, WithinIsPrefix
<1>2. ASSUME NEW i \in Stopped PROVE i \in Snapshot(phases, threshold)
  <2>1. i \in DOMAIN phases /\ i \in 1..i
    OBVIOUS
  <2> QED
    BY <2>1 DEF Snapshot, Within
<1>3. Snapshot(phases, threshold) = Stopped
  BY <1>1, <1>2
<1> QED
  BY <1>3 DEF PhaseAtCut, HardStopped

\* The phases of a continuation count from where its prefix stopped
\* (_offset_phases): all of them lie behind the fork.
LEMMA OffsetBehindFork ==
  ASSUME NEW L, NEW T, NEW phases \in Seq(PhaseSet(L, T)), NEW offset \in Nat,
         \A i \in DOMAIN phases : phases[i].cumulative > 0
  PROVE  /\ Len(OffsetPhases(phases, offset)) = Len(phases)
         /\ OffsetPhases(phases, offset) \in Seq(PhaseSet(L, T))
         /\ \A i \in 1..Len(phases) : OffsetPhases(phases, offset)[i].cumulative > offset
<1> DEFINE moved == OffsetPhases(phases, offset)
<1>1. DOMAIN phases = 1..Len(phases) /\ Len(phases) \in Nat
  OBVIOUS
<1>2. moved = [i \in 1..Len(phases) |-> [phases[i] EXCEPT !.cumulative = @ + offset]]
  BY <1>1 DEF OffsetPhases
<1>3. ASSUME NEW i \in 1..Len(phases)
      PROVE  /\ moved[i] \in PhaseSet(L, T)
             /\ moved[i].cumulative > offset
  <2>1. phases[i] \in PhaseSet(L, T) /\ phases[i].cumulative > 0
    BY <1>1, <1>3
  <2>2. moved[i] = [phases[i] EXCEPT !.cumulative = @ + offset]
    BY <1>2, <1>3
  <2> QED
    BY <2>1, <2>2 DEF PhaseSet
<1> HIDE DEF moved
<1>4. moved \in [1..Len(phases) -> PhaseSet(L, T)]
  BY <1>2, <1>3
<1>5. moved \in Seq(PhaseSet(L, T)) /\ Len(moved) = Len(phases)
  BY <1>1, <1>4
<1> QED
  BY <1>3, <1>5 DEF moved

\* What follows the fork cannot enter a cut at or before it: the write-up a
\* late control or a late hint is graded on there is the shared prefix's.
\* The fork must lie at or behind the cut, which the prefix loop does not
\* guarantee (the run late_prefix_boundary).
THEOREM ForkKeepsPrefixCuts ==
  ASSUME NEW L, NEW T, NEW prefix \in Seq(PhaseSet(L, T)),
         NEW later \in Seq(PhaseSet(L, T)), NEW offset \in Nat,
         \A i \in DOMAIN later : later[i].cumulative > 0,
         NEW threshold \in Int, threshold <= offset
  PROVE  PhaseAtCut(prefix \o OffsetPhases(later, offset), threshold)
           = PhaseAtCut(prefix, threshold)
<1> DEFINE tail == OffsetPhases(later, offset)
           whole == prefix \o tail
<1>1. /\ Len(tail) = Len(later) /\ tail \in Seq(PhaseSet(L, T))
      /\ \A i \in 1..Len(later) : tail[i].cumulative > offset
  BY OffsetBehindFork
<1> HIDE DEF tail
<1>2. /\ whole \in Seq(PhaseSet(L, T)) /\ Len(prefix) \in Nat /\ Len(later) \in Nat
      /\ DOMAIN prefix = 1..Len(prefix)
      /\ DOMAIN whole = 1..(Len(prefix) + Len(later))
      /\ \A i \in 1..Len(prefix) : whole[i] = prefix[i]
      /\ \A i \in 1..(Len(prefix) + Len(later)) :
           i > Len(prefix) => whole[i] = tail[i - Len(prefix)]
  <2> DEFINE P == PhaseSet(L, T)
  <2> HIDE DEF P
  <2>1. prefix \in Seq(P) /\ tail \in Seq(P) /\ later \in Seq(P)
    BY <1>1 DEF P
  <2>2. Len(prefix) \in Nat /\ Len(later) \in Nat /\ DOMAIN prefix = 1..Len(prefix)
    BY <2>1
  <2>3. whole \in Seq(P) /\ Len(whole) = Len(prefix) + Len(tail)
    BY <2>1
  <2>4. DOMAIN whole = 1..(Len(prefix) + Len(later))
    BY <1>1, <2>3
  <2>5. \A i \in 1..Len(prefix) : whole[i] = prefix[i]
    BY <2>1
  <2>6. \A i \in 1..(Len(prefix) + Len(tail)) :
          i > Len(prefix) => whole[i] = tail[i - Len(prefix)]
    BY <2>1
  <2> QED
    BY <1>1, <2>2, <2>3, <2>4, <2>5, <2>6 DEF P
<1> HIDE DEF whole
<1>3. ASSUME NEW i \in DOMAIN whole, i > Len(prefix)
      PROVE  ~(whole[i].cumulative <= threshold)
  <2>1. i - Len(prefix) \in 1..Len(later)
    BY <1>2, <1>3
  <2>2. tail[i - Len(prefix)].cumulative > offset
    BY <1>1, <2>1
  <2>3. tail[i - Len(prefix)].cumulative \in Nat
    <3>1. tail[i - Len(prefix)] \in PhaseSet(L, T)
      BY <1>1, <2>1
    <3> QED
      BY <3>1 DEF PhaseSet
  <2>4. whole[i].cumulative = tail[i - Len(prefix)].cumulative
    BY <1>2, <1>3
  <2> QED
    BY <2>2, <2>3, <2>4
<1>4. Snapshot(whole, threshold) = Snapshot(prefix, threshold)
  <2>1. ASSUME NEW i \in Snapshot(whole, threshold) PROVE i \in Snapshot(prefix, threshold)
    <3>1. i \in DOMAIN whole /\ whole[i].cumulative <= threshold /\ Complete(whole[i])
      BY <2>1 DEF Snapshot, Within
    <3>2. i \in 1..Len(prefix)
      BY <1>2, <1>3, <3>1
    <3> QED
      BY <1>2, <3>1, <3>2 DEF Snapshot, Within
  <2>2. ASSUME NEW i \in Snapshot(prefix, threshold) PROVE i \in Snapshot(whole, threshold)
    <3>1. i \in DOMAIN prefix /\ prefix[i].cumulative <= threshold /\ Complete(prefix[i])
      BY <2>2 DEF Snapshot, Within
    <3>2. i \in DOMAIN whole /\ whole[i] = prefix[i]
      BY <1>2, <3>1
    <3> QED
      BY <3>1, <3>2 DEF Snapshot, Within
  <2> QED
    BY <2>1, <2>2
<1>5. ASSUME NEW i \in Snapshot(prefix, threshold) PROVE whole[i] = prefix[i]
  BY <1>2, <1>5 DEF Snapshot, Within
<1>6. ASSUME Snapshot(prefix, threshold) # {}
      PROVE  LastOf(Snapshot(prefix, threshold)) \in Snapshot(prefix, threshold)
  <2>1. Snapshot(prefix, threshold) \in SUBSET (1..Len(prefix))
    BY <1>2 DEF Snapshot, Within
  <2> QED
    BY <1>2, <1>6, <2>1, LastOfGreatest
<1>7. PhaseAtCut(whole, threshold) = PhaseAtCut(prefix, threshold)
  <2>1. CASE Snapshot(prefix, threshold) = {}
    BY <1>4, <2>1 DEF PhaseAtCut, TextOf
  <2>2. CASE Snapshot(prefix, threshold) # {}
    BY <1>4, <1>5, <1>6, <2>2 DEF PhaseAtCut, TextOf
  <2> QED
    BY <2>1, <2>2
<1> QED
  BY <1>7 DEF whole, tail
=============================================================================
