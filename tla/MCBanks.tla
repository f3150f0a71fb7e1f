------------------------------ MODULE MCBanks ------------------------------
(***************************************************************************)
(* Small instances of Banks for TLC: parallel banks that compete for the   *)
(* capacity, and one uniform-strategy or planner-only bank over a longer   *)
(* history.                                                                *)
(***************************************************************************)
EXTENDS Banks

CONSTANTS b1, b2

Parallel(n) == [mode |-> "parallel", capacity |-> n, banks |-> {b1, b2}, starts |-> 1, edits |-> 0]
Uniform(m, n) == [mode |-> m, capacity |-> n, banks |-> {b1}, starts |-> 3, edits |-> 1]

MCArms == {Parallel(1), Parallel(3), Parallel(4)}
     \cup {[Parallel(2) EXCEPT !.banks = {b1}, !.starts = 3, !.edits = 1]}
     \cup {Uniform("uniform", 2), Uniform("uniform", 1), Uniform("only", 1)}
=============================================================================
