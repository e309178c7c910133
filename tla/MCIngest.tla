------------------------------- MODULE MCIngest -------------------------------
(***************************************************************************)
(* The instances of Ingest that TLC checks.                                *)
(***************************************************************************)
EXTENDS Ingest

CONSTANTS f1, f2
=============================================================================
