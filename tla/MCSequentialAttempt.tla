------------------------ MODULE MCSequentialAttempt ------------------------
(***************************************************************************)
(* Small instances of SequentialAttempt for TLC.                           *)
(***************************************************************************)
EXTENDS SequentialAttempt

MCDeltas  == {1, 2}
MCTrueUps == {0, 1}
=============================================================================
