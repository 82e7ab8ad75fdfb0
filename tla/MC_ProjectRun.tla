---------------------------- MODULE MC_ProjectRun ----------------------------
(***************************************************************************)
(* Two threads for requests; a fuse of one or two instead of five.         *)
(***************************************************************************)
EXTENDS ProjectRun

CONSTANTS c1, c2
=============================================================================
