---------------------------- MODULE MC_ConfirmGate ----------------------------
(***************************************************************************)
(* Two engines, so that one asks after the other or beside it, two people, *)
(* and a sweep beside both.                                                *)
(***************************************************************************)
EXTENDS ConfirmGate
=============================================================================
