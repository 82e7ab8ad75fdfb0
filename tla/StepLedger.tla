----------------------------- MODULE StepLedger -----------------------------
(***************************************************************************)
(* The step ledger of a run (engine/run: scheduler.ts, store.ts).  Some    *)
(* processes call runSteps over one database, with the same list of steps; *)
(* in each, a few loops take the steps in turn.  A step's row says who is  *)
(* at work on it, under a lease, and what came out.                        *)
(*                                                                         *)
(* The loops of a process share one thread, and the database calls do not  *)
(* wait: from taking a step to the call of its body no other loop of the   *)
(* process moves.  Between two database calls other processes do.          *)
(***************************************************************************)
EXTENDS Naturals, FiniteSets

CONSTANTS
    Processes,
    Loops,          \* the loops of a process: concurrency, at most one per step
    N,              \* how many steps there are
    Inputs,         \* what a step's input may be, and with it the hash
    MaxSteps        \* budget.maxSteps

Steps == 1 .. N
None == "none"

ASSUME StepLedgerConstants ==
    /\ N \in Nat /\ MaxSteps \in Nat /\ None \notin Inputs
    /\ IsFiniteSet(Loops) /\ Loops # {}

VARIABLES
    row,        \* the table: status, hash, lease, and the input the result is from
    input,      \* the input each process calls runSteps with, None when it does not run
    registered, \* how many steps it has registered
    cursor,     \* the last step taken
    loop,       \* what each loop does, on which step
    out,        \* what became of each step, as runSteps reports it
    overrun     \* history: the steps whose lease has ended under somebody's work

vars == <<row, input, registered, cursor, loop, out, overrun>>

Rows == [status : {"absent", "pending", "running", "ok", "failed"}, hash : Inputs \cup {None},
         lease : {"none", "live", "over"}, result : Inputs \cup {None}]
LoopStates == [pc : {"top", "look", "claim", "run", "over"}, step : 0 .. N]
Reports == {"none", "cached", "busy", "executed", "failed"}

TypeOK ==
    /\ row \in [Steps -> Rows]
    /\ input \in [Processes -> Inputs \cup {None}]
    /\ registered \in [Processes -> 0 .. N]
    /\ cursor \in [Processes -> 0 .. N]
    /\ loop \in [Processes -> [Loops -> LoopStates]]
    /\ out \in [Processes -> [Steps -> Reports]]
    /\ overrun \subseteq Steps

Idle == [l \in Loops |-> [pc |-> "top", step |-> 0]]
Fresh == [s \in Steps |-> "none"]

Init ==
    /\ row = [s \in Steps |-> [status |-> "absent", hash |-> None,
                               lease |-> "none", result |-> None]]
    /\ input = [p \in Processes |-> None]
    /\ registered = [p \in Processes |-> 0]
    /\ cursor = [p \in Processes |-> 0]
    /\ loop = [p \in Processes |-> Idle]
    /\ out = [p \in Processes |-> Fresh]
    /\ overrun = {}

Runs(p) == input[p] # None
At(p, l, pc) == Runs(p) /\ loop[p][l].pc = pc
Step(p, l) == loop[p][l].step
WorksOn(p, l, s) == At(p, l, "run") /\ Step(p, l) = s

\* The thread of p is free: no loop is between two database calls.
ThreadFree(p) == \A l \in Loops : loop[p][l].pc \notin {"look", "claim"}

Move(p, l, pc, s) == loop' = [loop EXCEPT ![p][l] = [pc |-> pc, step |-> s]]

\* A loop is through with its step and looks for the next.
Report(p, l, what) ==
    /\ out' = [out EXCEPT ![p][Step(p, l)] = what]
    /\ Move(p, l, "top", 0)

-----------------------------------------------------------------------------

\* runSteps is called, for the first time or again.
Start(p, i) ==
    /\ ~Runs(p)
    /\ input' = [input EXCEPT ![p] = i]
    /\ registered' = [registered EXCEPT ![p] = 0]
    /\ cursor' = [cursor EXCEPT ![p] = 0]
    /\ loop' = [loop EXCEPT ![p] = Idle]
    /\ out' = [out EXCEPT ![p] = Fresh]
    /\ UNCHANGED <<row, overrun>>

\* ensureStep: a row that is there is left alone.
Register(p) ==
    /\ Runs(p) /\ registered[p] < N
    /\ LET s == registered[p] + 1
       IN  /\ registered' = [registered EXCEPT ![p] = s]
           /\ row' = IF row[s].status = "absent"
                     THEN [row EXCEPT ![s].status = "pending", ![s].hash = input[p]]
                     ELSE row
    /\ UNCHANGED <<input, cursor, loop, out, overrun>>

Executed(p) == {s \in Steps : out[p][s] = "executed"}

\* The next step, unless the budget is spent or none is left.  (It is registered
\* again, which changes nothing.)
Take(p, l) ==
    /\ At(p, l, "top") /\ ThreadFree(p) /\ registered[p] = N
    /\ IF cursor[p] = N \/ Cardinality(Executed(p)) >= MaxSteps
       THEN Move(p, l, "over", 0) /\ UNCHANGED cursor
       ELSE /\ cursor' = [cursor EXCEPT ![p] = @ + 1]
            /\ Move(p, l, "look", cursor[p] + 1)
    /\ UNCHANGED <<row, input, registered, out, overrun>>

\* maxWallMs or shouldStop end the loop before its next step.
StopEarly(p, l) ==
    /\ At(p, l, "top") /\ ThreadFree(p) /\ registered[p] = N
    /\ Move(p, l, "over", 0)
    /\ UNCHANGED <<row, input, registered, cursor, out, overrun>>

\* Mutant: any row with the same input passes for done.
LookAtHashOnly(p, l) ==
    /\ At(p, l, "look")
    /\ IF row[Step(p, l)].hash = input[p]
       THEN Report(p, l, "cached")
       ELSE Move(p, l, "claim", Step(p, l)) /\ UNCHANGED out
    /\ UNCHANGED <<row, input, registered, cursor, overrun>>

\* isCachedOk
Look(p, l) ==
    /\ At(p, l, "look")
    /\ LET r == row[Step(p, l)]
       IN  IF r.status = "ok" /\ r.hash = input[p]
           THEN Report(p, l, "cached")
           ELSE Move(p, l, "claim", Step(p, l)) /\ UNCHANGED out
    /\ UNCHANGED <<row, input, registered, cursor, overrun>>

\* Mutant: a done step may be claimed.
ClaimableAlsoOk(r) == r.status \in {"pending", "failed", "ok"} \/ (r.status = "running" /\ r.lease # "live")

\* A lease that has passed its end counts as none.
Claimable(r) == r.status \in {"pending", "failed"} \/ (r.status = "running" /\ r.lease # "live")

\* Mutant: who finds the step held waits for it.
ClaimOrWait(p, l) ==
    /\ At(p, l, "claim")
    /\ Claimable(row[Step(p, l)]) \/ row[Step(p, l)].status = "ok"
    /\ IF Claimable(row[Step(p, l)])
       THEN /\ row' = [row EXCEPT ![Step(p, l)].status = "running", ![Step(p, l)].lease = "live"]
            /\ Move(p, l, "run", Step(p, l))
            /\ UNCHANGED out
       ELSE Report(p, l, "busy") /\ UNCHANGED row
    /\ UNCHANGED <<input, registered, cursor, overrun>>

\* claim: one conditional update; who comes too late goes on to the next step.
Claim(p, l) ==
    /\ At(p, l, "claim")
    /\ IF Claimable(row[Step(p, l)])
       THEN /\ row' = [row EXCEPT ![Step(p, l)].status = "running", ![Step(p, l)].lease = "live"]
            /\ Move(p, l, "run", Step(p, l))
            /\ UNCHANGED out
       ELSE Report(p, l, "busy") /\ UNCHANGED row
    /\ UNCHANGED <<input, registered, cursor, overrun>>

\* The body has returned or thrown.  finish updates the row by its id alone, and
\* leaves the hash it was registered with.
Finish(p, l, ok) ==
    /\ At(p, l, "run") /\ ThreadFree(p)
    /\ row' = [row EXCEPT ![Step(p, l)] =
                  [status |-> IF ok THEN "ok" ELSE "failed", hash |-> @.hash, lease |-> "none",
                   result |-> IF ok THEN input[p] ELSE None]]
    /\ Report(p, l, IF ok THEN "executed" ELSE "failed")
    /\ UNCHANGED <<input, registered, cursor, overrun>>

LoopSteps(p, l) ==
    Take(p, l) \/ StopEarly(p, l) \/ Look(p, l) \/ Claim(p, l) \/ \E ok \in BOOLEAN : Finish(p, l, ok)

\* The process dies, or runSteps returns.
Leave(p) ==
    /\ input' = [input EXCEPT ![p] = None]
    /\ loop' = [loop EXCEPT ![p] = Idle]
    /\ UNCHANGED <<row, registered, cursor, out, overrun>>

Die(p) == Runs(p) /\ Leave(p)
Return(p) == (\A l \in Loops : At(p, l, "over")) /\ Runs(p) /\ Leave(p)

\* Time passes the end of a lease, however far the work has come: it is a fixed time from the
\* claim (60 s unless told otherwise), and nobody renews it.
Expire(s) ==
    /\ row[s].status = "running" /\ row[s].lease = "live"
    /\ row' = [row EXCEPT ![s].lease = "over"]
    /\ overrun' = IF \E p \in Processes, l \in Loops : WorksOn(p, l, s)
                  THEN overrun \cup {s} ELSE overrun
    /\ UNCHANGED <<input, registered, cursor, loop, out>>

Next ==
    \/ \E p \in Processes :
          \/ \E i \in Inputs : Start(p, i)
          \/ Register(p)
          \/ \E l \in Loops : LoopSteps(p, l)
          \/ Return(p)
          \/ Die(p)
    \/ \E s \in Steps : Expire(s)

Spec == Init /\ [][Next]_vars

\* A process that lives goes on, and a step's body returns.
FairSpec ==
    /\ Spec
    /\ \A p \in Processes :
          WF_vars(Register(p)) /\ WF_vars(Return(p)) /\ \A l \in Loops : WF_vars(LoopSteps(p, l))

-----------------------------------------------------------------------------
(***************************************************************************)
(* No two loops work on one step, whichever process they are of (claim),   *)
(* until its lease has ended under the work.                               *)
(***************************************************************************)
OneAtATime ==
    \A p, q \in Processes, l, m \in Loops, s \in Steps \ overrun :
        WorksOn(p, l, s) /\ WorksOn(q, m, s) => p = q /\ l = m

(***************************************************************************)
(* A done step stays done, with its result (claim and finish), unless its  *)
(* lease has ended under the work: then a late finish writes over the      *)
(* successor's result.                                                     *)
(***************************************************************************)
VerifiedIsNotRunAgain ==
    [][\A s \in Steps \ overrun : row[s].status = "ok" => row'[s] = row[s]]_vars

(***************************************************************************)
(* What a run reports as executed or cached is done in the table: nothing  *)
(* only pretends to be complete, after crashes, takeovers and early stops  *)
(* too (runSteps), with the same exception.                                *)
(***************************************************************************)
ReportsAreTrue ==
    \A p \in Processes, s \in Steps \ overrun :
        out[p][s] \in {"executed", "cached"} => row[s].status = "ok"

(***************************************************************************)
(* The budget is overrun by what the other loops have at work, no more     *)
(* (budgetStop counts the executed steps only).                            *)
(***************************************************************************)
BudgetHolds ==
    \A p \in Processes :
        Cardinality(Executed(p)) < MaxSteps + Cardinality(Loops)

(***************************************************************************)
(* runSteps comes back, whatever others hold or left behind (runSteps,     *)
(* "neither takes nor waits").                                             *)
(***************************************************************************)
RunsReturn == \A p \in Processes : Runs(p) ~> ~Runs(p)

(***************************************************************************)
(* A cached step's result is that of the input asked for (state.ts, on the *)
(* hash of the input).                                                     *)
(***************************************************************************)
CacheHitsAreFresh ==
    \A p \in Processes, s \in Steps :
        Runs(p) /\ out[p][s] = "cached" => row[s].result = input[p]

(***************************************************************************)
(* A run to the end leaves no result of another input behind (state.ts:    *)
(* a changed input is run again).                                          *)
(***************************************************************************)
ChangedInputIsRunAgain ==
    \A p \in Processes :
        (Runs(p) /\ cursor[p] = N /\ \A l \in Loops : At(p, l, "over")) =>
            \A s \in Steps : row[s].status = "ok" => row[s].result = input[p]
=============================================================================
