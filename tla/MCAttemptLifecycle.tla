------------------------ MODULE MCAttemptLifecycle ------------------------
(***************************************************************************)
(* Small instances of AttemptLifecycle for TLC.  Invocations only differ   *)
(* by name.                                                                *)
(***************************************************************************)
EXTENDS AttemptLifecycle, TLC

InvocationSymmetry == Permutations(Invocations)
=============================================================================
