--------------------------- MODULE MC_DeveloperTask ---------------------------
(* The developer task with two work items and a handful of model calls. *)
EXTENDS DeveloperTask

\* one failure that is the code's; gaps of the environment come up in the local checks
MCFailures ==
    {[sig |-> "bug", env |-> FALSE, human |-> FALSE]}
=============================================================================
