--------------------------- MODULE BudgetTracker ---------------------------
(***************************************************************************)
(* Output-token accounting of one conversation (class BudgetTracker in     *)
(* src/solver.py).  The counters are a record so that the in-memory tracker *)
(* and the snapshot written to state.json or to a phase file are the same   *)
(* kind of value.  Only the three counters that decide control flow are     *)
(* kept here; the per-message maxima behind add() decide how large a charge *)
(* is, which callers choose.                                                *)
(***************************************************************************)
EXTENDS Naturals

CONSTANTS
  Budget,    \* budget_tokens: the hard cutoff
  Reserve    \* wrap_up_reserve_tokens: what only the wrap-up phase may spend

\* config.py accepts 0 < wrap_up_reserve_tokens < unit_output_tokens only, and
\* every budget is at least one unit.
ASSUME BudgetAssumption == Budget \in Nat /\ Reserve \in 1..Budget-1

SoftLimit == Budget - Reserve

Trackers == [spent: Nat, completed: Nat, streamed: Nat]

NewTracker == [spent |-> 0, completed |-> 0, streamed |-> 0]

\* add() once it has worked out the newly charged delta
Charge(t, delta) ==
  [spent |-> t.spent + delta,
   completed |-> t.completed,
   streamed |-> t.streamed + delta]

\* Faulty variant: trusts the Result count alone.
FinishPhaseUnfloored(t, result) ==
  [spent |-> t.completed + result, completed |-> t.completed + result, streamed |-> 0]

\* finish_phase(): the ResultMessage count never takes a phase below what was
\* streamed, and spend is recomputed from the completed phases
FinishPhase(t, result) ==
  LET phase == IF result > t.streamed THEN result ELSE t.streamed
  IN  [spent |-> t.completed + phase,
       completed |-> t.completed + phase,
       streamed |-> 0]

Exhausted(t)     == t.spent >= Budget
SoftExhausted(t) == t.spent >= SoftLimit

\* the cross-check restore() makes before it accepts a snapshot
Restorable(t) == t.spent = t.completed + t.streamed
=============================================================================
