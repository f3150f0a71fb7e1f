----------------------------- MODULE BudgetCuts -----------------------------
(***************************************************************************)
(* The write-up an attempt is graded on, in full and at each budget cut.   *)
(* A phase is [label, text, cumulative, exhausted]; a trajectory is the    *)
(* sequence of the phases an attempt committed.  Budgets are in tokens.    *)
(*                                                                         *)
(* Sources: src/storage.py (final_solution_text, _phase_at_cut,            *)
(* materialize_budget_cut_snapshots, the cut multipliers),                 *)
(* src/late_intervention.py (_proof_at_prefix), src/run.py                 *)
(* (_offset_phases).                                                       *)
(***************************************************************************)
EXTENDS Integers, Sequences

CONSTANT NoText         \* a phase without text, and a cut without a snapshot

\* Powers of two below the full budget: the cuts every run writes.
SparseCuts(units) == {m \in 1..(units - 1) : \E k \in 0..m : m = 2^k}

\* Every multiplier below it, for a dense audit
DenseCuts(units) == 1..(units - 1)

Complete(phase) == phase.label # "critique" /\ ~phase.exhausted /\ phase.text # NoText

\* Planner phases are gradeable only as cuts; no sequential attempt has any.
Gradeable(phase) == Complete(phase) /\ phase.label \notin {"plan", "plan_wrap_up"}

Within(phases, threshold) == {i \in DOMAIN phases : phases[i].cumulative <= threshold}

\* The last index of a set of them, 0 when it is empty
LastOf(S) == IF S = {} THEN 0 ELSE CHOOSE i \in S : \A j \in S : j <= i

TextOf(phases, S) == IF S = {} THEN NoText ELSE phases[LastOf(S)].text

\* Faulty variant: a phase that ends exactly at the cut is left out
SnapshotBelow(phases, threshold) ==
  {i \in Within(phases, threshold - 1) : Complete(phases[i])}

\* The phases a snapshot at the threshold may come from; it takes the last.
Snapshot(phases, threshold) == {i \in Within(phases, threshold) : Complete(phases[i])}

PhaseAtCut(phases, threshold) == TextOf(phases, Snapshot(phases, threshold))

FinalSolution(phases, budget) ==
  TextOf(phases, {i \in Within(phases, budget) : Gradeable(phases[i])})

\* The proof a retained prefix is recorded with; no threshold is applied.
ProofAtPrefix(phases) == TextOf(phases, {i \in DOMAIN phases : Complete(phases[i])})

\* Faulty variant: the continuation counts its tokens from zero
OffsetByNothing(phases, offset) == phases

\* A continuation's phases, counted from where its prefix stopped
OffsetPhases(phases, offset) ==
  [i \in DOMAIN phases |-> [phases[i] EXCEPT !.cumulative = @ + offset]]

-----------------------------------------------------------------------------
\* Cumulative counts never decrease along a trajectory.
Metered(phases) ==
  \A i, j \in DOMAIN phases : i <= j => phases[i].cumulative <= phases[j].cumulative

\* "exactly what a run hard-stopped at the threshold would have been graded
\* on": the phases such a run would have completed, the last of them that is
\* a write-up.
HardStopped(phases, threshold) ==
  TextOf(phases, {i \in DOMAIN phases :
                    /\ Complete(phases[i])
                    /\ \A j \in 1..i : phases[j].cumulative <= threshold})
=============================================================================
