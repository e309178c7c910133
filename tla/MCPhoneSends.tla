----------------------------- MODULE MCPhoneSends -----------------------------
(***************************************************************************)
(* The instances of PhoneSends that TLC checks.                            *)
(***************************************************************************)
EXTENDS PhoneSends

CONSTANTS t, o
===============================================================================
