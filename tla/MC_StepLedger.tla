---------------------------- MODULE MC_StepLedger ----------------------------
(***************************************************************************)
(* Processes and their loops over one database.                            *)
(***************************************************************************)
EXTENDS StepLedger

CONSTANTS p1, p2, l1, l2
=============================================================================
