------------------------------ MODULE MCAudits ------------------------------
(***************************************************************************)
(* Small instances of Audits for TLC: one sequential attempt with four     *)
(* units, alone over three invocations and with two that overlap; a bank   *)
(* of two members, of one with overlap, and of none; a planner's proposals.*)
(***************************************************************************)
EXTENDS Audits, TLC

CONSTANTS d1, d2, p1, p2, A, B

Arm(mode, alone, dirs, n) == [mode |-> mode, alone |-> alone, dirs |-> dirs, starts |-> n]

MCArms ==
  {Arm("sequential", TRUE, {d1}, 3), Arm("sequential", FALSE, {d1}, 2),
   Arm("bank", TRUE, {d1, d2}, 2), Arm("bank", FALSE, {d1}, 2),
   Arm("bank", TRUE, {}, 1), Arm("strategies", TRUE, {d1}, 2)}

\* A proof that comes back, one that is missing at first, and none in full
MCTrajectories == {<<A, B, A, A>>, <<NoText, A, B, A>>, <<NoText, A, A, NoText>>}

\* Invocations are interchangeable.
MCSymmetry == Permutations({p1, p2})
=============================================================================
