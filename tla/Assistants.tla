-------------------------------- MODULE Assistants -------------------------------
(***************************************************************************)
(* The read-only assistants of the developer (tools/readonlySubAgent.ts,    *)
(* tools/delegateReadonly.ts) and the rows of its ledger they are claimed   *)
(* by (ledger.ts).  An assistant reads the project piece by piece and says  *)
(* what is missing there; the developer may write at the same time, since   *)
(* the calls of one answer are carried out together.  One failure is looked *)
(* into once, and what was said of it is said again as long as the sources   *)
(* are the same.                                                            *)
(***************************************************************************)
EXTENDS Naturals, FiniteSets

CONSTANTS
    Failures,   \* what the developer asks about: a failure, or a question of its own
    Helpers,    \* the roles it asks
    Facts,      \* what there may be in the project
    MaxCalls,   \* calls of a task
    Together,   \* calls at one time
    Edits,      \* changes of the project that its hash tells of, and as many hashes that
                \* stand for more
    Boots       \* starts of the process

VARIABLES
    tree,       \* what is there; the hash of the sources, and the last new one; as a history,
                \* the hashes that have stood for more than one state of what is there
    row,        \* the ledger: the call for each failure
    at_work,    \* the calls of this process that are waited for
    said,       \* answers the developer may use at once, the last ones
    begun,      \* how often an analysis was begun for each failure
    life

vars == <<tree, row, at_work, said, begun, life>>

READONLY_SUBAGENT_ROLES ==
    {"explorer", "debugger", "ui-reviewer", "architect-advisor", "acceptance-advisor"}
Roles == Helpers \intersect READONLY_SUBAGENT_ROLES

\* The hash of the sources covers the roots a task may write in, not the contract; of these the
\* first six levels, up to 4000 entries, without node_modules, dist, build and the like, and of
\* each entry its path and its time.
Outside == {"contract"}

Unclaimed == [status |-> "none"]

Init ==
    /\ tree \in [has : SUBSET Facts, hash : {0}, last : {0}, blurred : {{}}]
    /\ row = [f \in Failures |-> Unclaimed]
    /\ at_work = {}
    /\ said = {}
    /\ begun = [f \in Failures |-> 0]
    /\ life = 1

(***************************************************************************)
(* What each of them finds missing in what it has read                      *)
(***************************************************************************)

briefArchitectAdvisor(has) ==
    ({"project file", "router", "contract"} \ has)
    \union (IF "router" \in has THEN {"routes"} \ has ELSE {})
    \union (IF "ddl" \in has THEN {"ddl applied"} \ has ELSE {})

briefAcceptanceAdvisor(has) ==
    ({"endpoints", "conflicts"} \ has)
    \union (IF "endpoints" \in has THEN {"routes"} \ has ELSE {})

briefExplorer(has) == {"project file", "entry"} \ has

\* what stands at the lines that the output of the command names
briefDebugger(has) == {"named line"} \ has

briefUiReviewer(has) ==
    (IF "views" \in has THEN {"router", "filled page"} \ has ELSE {})
    \union (IF "views" \in has \/ "router" \in has THEN {"mount"} \ has ELSE {})

buildContextBrief(role, has) ==
    CASE role = "explorer" -> briefExplorer(has)
      [] role = "debugger" -> briefDebugger(has)
      [] role = "ui-reviewer" -> briefUiReviewer(has)
      [] role = "architect-advisor" -> briefArchitectAdvisor(has)
      [] role = "acceptance-advisor" -> briefAcceptanceAdvisor(has)

(***************************************************************************)
(* The calls                                                                *)
(***************************************************************************)

sourceSnapshot == tree.hash

subagentCallCount == Cardinality({f \in Failures : row[f].status # "none"})

claimSubagentCall(f, role) ==
    row' = [row EXCEPT ![f] = [status |-> "running", role |-> role, snap |-> sourceSnapshot,
                               gaps |-> {}]]

\* Mutant: the answer is entered with the sources as they are when it comes.
SnapAtTheEnd(f, status, gaps) ==
    row' = [row EXCEPT ![f].status = status, ![f].gaps = gaps, ![f].snap = sourceSnapshot]

settleSubagentCall(f, status, gaps) ==
    row' = [row EXCEPT ![f].status = status, ![f].gaps = gaps]

\* An answer that may be used, with whether it is an old one.
Say(role, f, gaps, again) ==
    said' = {[role |-> role, of |-> row[f].role, gaps |-> gaps, again |-> again,
              blurred |-> tree.hash \in tree.blurred, has |-> tree.has]}

mayClaim(f) == row[f].status = "none"

\* A question that is not well-formed, one over the budget, and one whose first
\* call has come to nothing are refused, and nothing changes.
invoke(f, role) ==
    /\ subagentCallCount < MaxCalls
    /\ IF mayClaim(f)
       THEN /\ Cardinality(at_work) < Together
            /\ claimSubagentCall(f, role)
            /\ at_work' = at_work \union {[f |-> f, role |-> role, left |-> Facts, has |-> {}]}
            /\ begun' = [begun EXCEPT ![f] = @ + 1]
            /\ UNCHANGED said
       ELSE /\ row[f].status = "done" /\ row[f].snap = sourceSnapshot
            /\ Say(role, f, row[f].gaps, TRUE)
            /\ UNCHANGED <<row, at_work, begun>>
    /\ UNCHANGED <<tree, life>>

\* it looks at one thing after the other
looks(w) ==
    /\ \E x \in w.left :
          at_work' = (at_work \ {w}) \union
                        {[w EXCEPT !.left = @ \ {x},
                                   !.has = @ \union ({x} \intersect tree.has)]}
    /\ UNCHANGED <<tree, row, said, begun, life>>

\* The role is written over whatever the answer says of it; what else does not
\* fit the form is refused.
finalizeReadonlySubAgentResult(role, gaps) == {[fits |-> TRUE, gaps |-> gaps],
                                               [fits |-> FALSE, gaps |-> {}]}

answers(w) ==
    /\ w.left = {}
    /\ at_work' = at_work \ {w}
    /\ \E r \in finalizeReadonlySubAgentResult(w.role, buildContextBrief(w.role, w.has)) :
          IF r.fits
          THEN settleSubagentCall(w.f, "done", r.gaps) /\ Say(w.role, w.f, r.gaps, FALSE)
          ELSE settleSubagentCall(w.f, "failed", {}) /\ UNCHANGED said
    /\ UNCHANGED <<tree, begun, life>>

\* It throws or takes too long; what a late one says is heard by nobody.
runWithTimeout(w) ==
    /\ at_work' = at_work \ {w}
    /\ \E status \in {"failed", "timeout"} : settleSubagentCall(w.f, status, {})
    /\ UNCHANGED <<tree, said, begun, life>>

Changed(x, gone) == IF gone THEN tree.has \ {x} ELSE tree.has \union {x}

\* The developer writes in the sources, and they have a new hash.
edits ==
    /\ tree.last < Edits
    /\ \E x \in Facts \ Outside, gone \in BOOLEAN :
          tree' = [tree EXCEPT !.has = Changed(x, gone), !.hash = tree.last + 1, !.last = @ + 1]
    /\ UNCHANGED <<row, at_work, said, begun, life>>

\* Something is written where the hash does not look, or with its old time: the hash stays, or
\* comes back.
editsUnseen ==
    /\ Cardinality(tree.blurred) < Edits
    /\ \E x \in Facts, gone \in BOOLEAN, hash \in 0..tree.last :
          tree' = [tree EXCEPT !.has = Changed(x, gone), !.hash = hash, !.blurred = @ \union {hash}]
    /\ UNCHANGED <<row, at_work, said, begun, life>>

\* The process ends; the ledger stays.
crash ==
    /\ life < Boots
    /\ life' = life + 1
    /\ at_work' = {} /\ said' = {}
    /\ UNCHANGED <<tree, row, begun>>

Next ==
    \/ \E f \in Failures, role \in Roles : invoke(f, role)
    \/ \E w \in at_work : looks(w) \/ answers(w) \/ runWithTimeout(w)
    \/ edits \/ editsUnseen \/ crash
    \/ UNCHANGED vars

(***************************************************************************)
(* Properties                                                               *)
(***************************************************************************)

TypeOK ==
    /\ tree.has \subseteq Facts /\ tree.last \in 0..Edits /\ tree.hash \in 0..tree.last
    /\ \A f \in Failures : row[f].status \in {"none", "running", "done", "failed", "timeout"}
    /\ Cardinality(at_work) <= Together
    /\ life \in 1..Boots

(* One failure is looked into once, whatever came of it and through restarts, *)
(* and all failures together no more often than allowed                     *)
(* (readonlySubAgent.ts:396, ledger.ts, claimSubagentCall).                 *)
OncePerFailure ==
    /\ \A f \in Failures : begun[f] <= 1
    /\ Cardinality({f \in Failures : begun[f] > 0}) <= MaxCalls

(* What is said again is still what the same assistant would find now, though  *)
(* the sources may have been written while it was reading                       *)
(* (readonlySubAgent.ts:374, 404), as long as the hash has stood for one state   *)
(* of the project only.                                                        *)
RepeatedIsCurrent ==
    \A s \in said : s.again => s.blurred \/ s.gaps = buildContextBrief(s.of, s.has)

(* The same of what is said for the first time.  The code does not have it: the *)
(* sources may have changed between two looks, and the snapshot is not compared. *)
FirstIsCurrent ==
    \A s \in said : ~s.again => s.blurred \/ s.gaps = buildContextBrief(s.of, s.has)

(* The same whatever the hash has stood for.  The code does not have it: the      *)
(* contract, the directories passed over and what keeps its time are no part    *)
(* of the hash.                                                                *)
HashIsExact ==
    \A s \in said : s.again => s.gaps = buildContextBrief(s.of, s.has)

(* Who has said it is who was asked.  The code does not have it: the failure the  *)
(* tester reports stands for every question, and the role is written over.       *)
LabelsAreTrue ==
    \A s \in said : s.role = s.of
=============================================================================
