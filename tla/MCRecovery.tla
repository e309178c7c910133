------------------------------ MODULE MCRecovery ------------------------------
(***************************************************************************)
(* Instances of Recovery for TLC.                                          *)
(***************************************************************************)
EXTENDS Recovery, TLC

CONSTANTS r1, r2, o1, d1, d2

MCSymmetry == Permutations(Device)
=============================================================================
