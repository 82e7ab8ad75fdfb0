------------------------------- MODULE MC_Hub -------------------------------
(***************************************************************************)
(* One name of the bus with the receivers the configuration names.         *)
(***************************************************************************)
EXTENDS Hub
=============================================================================
