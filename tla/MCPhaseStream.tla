--------------------------- MODULE MCPhaseStream ---------------------------
(***************************************************************************)
(* Small instances of PhaseStream for TLC.                                 *)
(***************************************************************************)
EXTENDS PhaseStream

MCCost == [m \in Ids |-> 2]
=============================================================================
