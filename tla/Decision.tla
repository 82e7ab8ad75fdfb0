------------------------------ MODULE Decision ------------------------------
(***************************************************************************)
(* What the confirm gate promises: a question gets one decision, once, and *)
(* whoever asks learns this decision or none.                              *)
(***************************************************************************)
CONSTANTS Readers, Decisions, NoDecision

VARIABLES decided, known

vars == <<decided, known>>

Init == decided = NoDecision /\ known = [r \in Readers |-> NoDecision]

Decide(d) == decided = NoDecision /\ decided' = d /\ UNCHANGED known

Learn(r) == decided # NoDecision /\ known' = [known EXCEPT ![r] = decided] /\ UNCHANGED decided

\* The reader's process dies.
Forget(r) == known' = [known EXCEPT ![r] = NoDecision] /\ UNCHANGED decided

Next == (\E d \in Decisions : Decide(d)) \/ \E r \in Readers : Learn(r) \/ Forget(r)

Spec == Init /\ [][Next]_vars
=============================================================================
