----------------------------- MODULE MC_PhaseRun -----------------------------
(***************************************************************************)
(* Two or three phases, so that one can disturb the next.                   *)
(***************************************************************************)
EXTENDS PhaseRun
=============================================================================
