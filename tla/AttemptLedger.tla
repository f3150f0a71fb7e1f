--------------------------- MODULE AttemptLedger ---------------------------
(***************************************************************************)
(* What a checkpointed Self-Refine attempt promises, as if its process     *)
(* never stopped (src/README.md, "resumable"; run.py, solve_seed): phases  *)
(* are opened by the rules of the protocol, paid for while open, and       *)
(* appended once, in order, to a ledger that is never rewritten.           *)
(***************************************************************************)
EXTENDS Naturals, FiniteSets

CONSTANTS Budget, Reserve, Refine, InitialLabel, MinRounds, NoGapStreak

VARIABLES
  ledger,   \* committed phases by sequence number: label, spend so far, no-gap
  open,     \* label of the phase being run, or "none"
  paid      \* tokens the attempt has durably paid for

vars == <<ledger, open, paid>>

Soft == Budget - Reserve
Size == Cardinality(DOMAIN ledger)
Last == ledger[Size-1]

Critiques == {i \in DOMAIN ledger : ledger[i].label = "critique"}
CleanTail == {i \in Critiques : \A j \in Critiques : j >= i => ledger[j].noGap}
Converged == /\ Cardinality(Critiques) >= MinRounds
             /\ Cardinality(CleanTail) >= NoGapStreak

Wrapped == \E i \in DOMAIN ledger : ledger[i].label = "wrap_up"

\* The loop may go round again.
Refining == Refine /\ ~Wrapped /\ ~Converged /\ paid < Soft

MayOpen(label) ==
  \/ label = InitialLabel /\ Size = 0
  \/ label = "critique" /\ Size > 0 /\ Last.label \in {"solve", "revise"} /\ Refining
  \/ label = "revise" /\ Size > 0 /\ Last.label = "critique" /\ Refining
  \/ label = "wrap_up" /\ Size > 0 /\ ~Wrapped /\ Soft <= paid /\ paid < Budget

Init ==
  /\ DOMAIN ledger = {}
  /\ open = "none"
  /\ paid = 0

Open(label) ==
  /\ open = "none"
  /\ MayOpen(label)
  /\ open' = label
  /\ UNCHANGED <<ledger, paid>>

Pay ==
  /\ open # "none"
  /\ paid' > paid
  /\ UNCHANGED <<ledger, open>>

\* The phase is appended with everything paid so far, its last tokens included.
Commit ==
  /\ open # "none"
  /\ paid' >= paid
  /\ DOMAIN ledger' = DOMAIN ledger \cup {Size}
  /\ \A i \in DOMAIN ledger : ledger'[i] = ledger[i]
  /\ ledger'[Size].label = open
  /\ ledger'[Size].spent = paid'
  /\ open' = "none"

Next ==
  \/ \E label \in {"solve", "critique", "revise", "wrap_up"} : Open(label)
  \/ Pay
  \/ Commit

Spec == Init /\ [][Next]_vars
=============================================================================
