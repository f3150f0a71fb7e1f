---------------------------- MODULE MCTokenPool ----------------------------
(***************************************************************************)
(* Small instances of TokenPool for TLC.                                   *)
(***************************************************************************)
EXTENDS TokenPool

CONSTANTS k1, k2, k3

MCRotation   == <<k1, k2>>
MCRotation3  == <<k1, k2, k3>>
MCResetTimes == {0, 2, 3}
=============================================================================
