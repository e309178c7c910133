---------------------------- MODULE MCSendQueue ----------------------------
(***************************************************************************)
(* Instances of SendQueue for TLC.                                         *)
(***************************************************************************)
EXTENDS SendQueue, TLC

CONSTANTS w1, w2, c1, d1, d2

MCActor == QueueWorker \cup CliSend
MCSymmetry == Permutations(QueueWorker) \cup Permutations(Device)
=============================================================================
