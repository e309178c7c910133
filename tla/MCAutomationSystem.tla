-------------------------- MODULE MCAutomationSystem --------------------------
(***************************************************************************)
(* Instances of AutomationSystem for TLC.                                  *)
(***************************************************************************)
EXTENDS AutomationSystem, TLC

CONSTANTS w1, w2, c1, r1, o1, d1, d2

MCActor == QueueWorker \cup CliSend \cup RecoveryWorker
=============================================================================
