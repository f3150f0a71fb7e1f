--------------------------- MODULE MessageTracker ---------------------------
(***************************************************************************)
(* The part of class BudgetTracker (src/solver.py) that decides how much   *)
(* one envelope charges.  A resumed CLI may stream old messages again, and *)
(* several envelopes of one message carry growing counts, so the tracker   *)
(* remembers the largest count of every message of the conversation, the   *)
(* ids it has seen without a count, and the ids a Result has paid for.     *)
(***************************************************************************)
EXTENDS BudgetTracker, FiniteSets, FiniteSetsExt

CONSTANTS
  MaxMessages   \* bound on the messages of a conversation; ids are 1..MaxMessages

ASSUME MessageAssumption == MaxMessages \in Nat

Ids == 1..MaxMessages

\* message_tokens has no entry for an id whose largest count is 0.
IdTrackers == [count: Trackers, largest: [Ids -> Nat], seen: SUBSET Ids,
               sealed: SUBSET Ids]

NewIdTracker == [count |-> NewTracker, largest |-> [m \in Ids |-> 0],
                 seen |-> {}, sealed |-> {}]

\* known_message_ids
Known(t) == {m \in Ids : t.largest[m] > 0} \cup t.seen \cup t.sealed

\* observe_message_id()
Observe(t, m) == [t EXCEPT !.seen = @ \cup {m}]

\* Faulty variant: counts are added up instead of compared.
AddSum(t, m, tokens) ==
  IF m \in t.sealed
  THEN t
  ELSE [t EXCEPT !.count = Charge(@, tokens), !.largest[m] = tokens]

\* add(): only growth beyond the largest count is charged, and nothing for an
\* id that a Result has paid for
Add(t, m, tokens) ==
  IF m \in t.sealed \/ tokens <= t.largest[m]
  THEN t
  ELSE [t EXCEPT !.count = Charge(@, tokens - t.largest[m]), !.largest[m] = tokens]

\* seal_message_ids()
Seal(t, ids) == [t EXCEPT !.sealed = @ \cup ids]

\* finish_phase()
CloseCount(t, result) == [t EXCEPT !.count = FinishPhase(@, result)]
=============================================================================
