------------------------- MODULE MCLateIntervention -------------------------
(***************************************************************************)
(* A small instance of LateIntervention for TLC: two units of prefix, a    *)
(* stopping rule of one round, two baselines from nothing.                 *)
(***************************************************************************)
EXTENDS LateIntervention

MCCosts == {1, 3}
=============================================================================
