---------------------------- MODULE MCSendRequest ----------------------------
(***************************************************************************)
(* The instances of SendRequest that TLC checks: requests are alike, and   *)
(* so are phones.                                                          *)
(***************************************************************************)
EXTENDS SendRequest, TLC

CONSTANTS q1, q2, q3, d1, d2

MCSymmetry == Permutations(Request) \cup Permutations(Device)
=============================================================================
