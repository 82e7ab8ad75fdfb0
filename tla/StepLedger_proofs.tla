-------------------------- MODULE StepLedger_proofs --------------------------
(***************************************************************************)
(* Proofs about the step ledger, for any number of processes, loops and    *)
(* steps: as long as a step's lease has not ended under the work, nobody   *)
(* works on it beside another, and once done it stays done.                *)
(***************************************************************************)
EXTENDS StepLedger, FiniteSetTheorems, TLAPS

\* A loop that is at a step is at one of the list.
Aimed ==
    \A p \in Processes, l \in Loops :
        loop[p][l].pc \in {"look", "claim", "run"} => Step(p, l) \in Steps

\* Who works on a step has its row, under a lease that still runs, until one has ended.
Held ==
    \A p \in Processes, l \in Loops, s \in Steps \ overrun :
        WorksOn(p, l, s) => row[s].status = "running" /\ row[s].lease = "live"

IInv == TypeOK /\ Aimed /\ Held /\ OneAtATime /\ ReportsAreTrue

\* Move sets one loop and no other.
LEMMA MoveOne ==
    ASSUME TypeOK, NEW p \in Processes, NEW l \in Loops, NEW pc, NEW s, Move(p, l, pc, s)
    PROVE  /\ loop'[p][l] = [pc |-> pc, step |-> s]
           /\ \A q \in Processes, m \in Loops : q # p \/ m # l => loop'[q][m] = loop[q][m]
<1> DEFINE r == [pc |-> pc, step |-> s]
<1>1. loop \in [Processes -> [Loops -> LoopStates]]
  BY DEF TypeOK
<1>2. loop' = [loop EXCEPT ![p][l] = r]
  BY DEF Move
<1> HIDE DEF r
<1>3. loop'[p][l] = r /\ \A q \in Processes, m \in Loops : q # p \/ m # l => loop'[q][m] = loop[q][m]
  BY <1>1, <1>2
<1> QED
  BY <1>3 DEF r

\* A loop that is set to one of its states leaves all in theirs.
LEMMA MoveTyped ==
    ASSUME TypeOK, NEW p \in Processes, NEW l \in Loops, NEW pc, NEW s, Move(p, l, pc, s),
           [pc |-> pc, step |-> s] \in LoopStates
    PROVE  loop' \in [Processes -> [Loops -> LoopStates]]
<1> DEFINE r == [pc |-> pc, step |-> s]
<1>1. loop \in [Processes -> [Loops -> LoopStates]]
  BY DEF TypeOK
<1>2. loop' = [loop EXCEPT ![p][l] = r] /\ r \in LoopStates
  BY DEF Move
<1> HIDE DEF r
<1> QED
  BY <1>1, <1>2

\* Report sets the report on one step and no other.
LEMMA ReportOne ==
    ASSUME TypeOK, Aimed, NEW p \in Processes, NEW l \in Loops, NEW what \in Reports,
           loop[p][l].pc \in {"look", "claim", "run"}, Report(p, l, what)
    PROVE  /\ out'[p][Step(p, l)] = what
           /\ \A q \in Processes, s \in Steps : q # p \/ s # Step(p, l) => out'[q][s] = out[q][s]
           /\ out' \in [Processes -> [Steps -> Reports]]
<1> DEFINE t == Step(p, l)
<1>1. out \in [Processes -> [Steps -> Reports]]
  BY DEF TypeOK
<1>2. out' = [out EXCEPT ![p][t] = what]
  BY DEF Report
<1>3. t \in Steps
  BY DEF Aimed
<1> HIDE DEF t
<1> QED
  BY <1>1, <1>2, <1>3 DEF t

\* The invariant holds of an empty table that nobody works on.
LEMMA InitIInv == Init => IInv
<1> SUFFICES ASSUME Init PROVE IInv
  OBVIOUS
<1> USE StepLedgerConstants DEF Init, Idle, Fresh
<1>1. TypeOK
  BY DEF TypeOK, Rows, LoopStates, Reports
<1>2. Aimed /\ Held /\ OneAtATime /\ ReportsAreTrue
  BY DEF Aimed, Held, OneAtATime, ReportsAreTrue, WorksOn, At, Runs, Step
<1> QED
  BY <1>1, <1>2 DEF IInv

\* A step keeps the types, and loops at steps of the list.
LEMMA TypeOKStep ==
    ASSUME TypeOK, Aimed, [Next]_vars
    PROVE  TypeOK' /\ Aimed'
<1> USE StepLedgerConstants
<1>1. CASE UNCHANGED vars
  BY <1>1 DEF vars, TypeOK, Aimed, Step
<1>2. ASSUME NEW p \in Processes, NEW i \in Inputs, Start(p, i)
      PROVE  TypeOK' /\ Aimed'
  <2>1. Idle \in [Loops -> LoopStates] /\ Fresh \in [Steps -> Reports]
    BY DEF Idle, Fresh, LoopStates, Reports
  <2>2. TypeOK'
    BY <1>2, <2>1 DEF Start, TypeOK
  <2>3. \A l \in Loops : loop'[p][l].pc = "top"
    BY <1>2 DEF Start, Idle, TypeOK
  <2>4. \A q \in Processes : q # p => loop'[q] = loop[q]
    BY <1>2 DEF Start, TypeOK
  <2> QED
    BY <2>2, <2>3, <2>4 DEF Aimed, Step
<1>3. ASSUME NEW p \in Processes, Register(p)
      PROVE  TypeOK' /\ Aimed'
  <2>1. registered[p] + 1 \in Steps
    BY <1>3 DEF Register, TypeOK, Steps
  <2>2. row' \in [Steps -> Rows]
    <3> DEFINE t == registered[p] + 1
               r == [row[t] EXCEPT !.status = "pending", !.hash = input[p]]
    <3>1. row[t] \in Rows /\ input[p] \in Inputs \cup {None}
      BY <2>1 DEF TypeOK
    <3>2. r \in Rows
      BY <3>1 DEF Rows
    <3>3. row' = row \/ row' = [row EXCEPT ![t] = r]
      BY <1>3 DEF Register
    <3> QED
      BY <2>1, <3>2, <3>3 DEF TypeOK
  <2>3. registered' \in [Processes -> 0 .. N]
    BY <1>3, <2>1 DEF Register, TypeOK, Steps
  <2> QED
    BY <1>3, <2>2, <2>3 DEF Register, TypeOK, Aimed, Step
<1>4. ASSUME NEW p \in Processes, NEW l \in Loops, NEW pc, NEW s, Move(p, l, pc, s),
             pc \in {"top", "look", "claim", "run", "over"}, s \in 0 .. N,
             pc \in {"look", "claim", "run"} => s \in Steps
      PROVE  Aimed' /\ loop' \in [Processes -> [Loops -> LoopStates]]
  <2>1. [pc |-> pc, step |-> s] \in LoopStates
    BY <1>4 DEF LoopStates
  <2>2. loop' \in [Processes -> [Loops -> LoopStates]]
    BY <1>4, <2>1, MoveTyped
  <2>0. /\ loop'[p][l] = [pc |-> pc, step |-> s]
        /\ \A q \in Processes, m \in Loops : q # p \/ m # l => loop'[q][m] = loop[q][m]
    BY <1>4, MoveOne
  <2>3. ASSUME NEW q \in Processes, NEW m \in Loops, loop'[q][m].pc \in {"look", "claim", "run"}
        PROVE  loop'[q][m].step \in Steps
    <3>1. CASE q = p /\ m = l
      BY <1>4, <2>0, <2>3, <3>1
    <3>2. CASE q # p \/ m # l
      BY <2>0, <2>3, <3>2 DEF Aimed, Step
    <3> QED
      BY <3>1, <3>2
  <2> QED
    BY <2>2, <2>3 DEF Aimed, Step
<1>5. ASSUME NEW p \in Processes, NEW l \in Loops, LoopSteps(p, l)
      PROVE  TypeOK' /\ Aimed'
  <2>1. 0 \in 0 .. N /\ \A s \in Steps : s \in 0 .. N
    BY StepLedgerConstants DEF Steps
  <2>2. ASSUME NEW what \in Reports, loop[p][l].pc \in {"look", "claim", "run"}, Report(p, l, what)
        PROVE  /\ Aimed' /\ loop' \in [Processes -> [Loops -> LoopStates]]
               /\ out' \in [Processes -> [Steps -> Reports]]
    <3>1. Aimed' /\ loop' \in [Processes -> [Loops -> LoopStates]]
      BY <1>4, <2>1, <2>2 DEF Report
    <3>2. out' \in [Processes -> [Steps -> Reports]]
      BY <2>2, ReportOne
    <3> QED
      BY <3>1, <3>2
  <2>3. CASE Take(p, l)
    <3>1. CASE Move(p, l, "over", 0) /\ UNCHANGED cursor
      <4>1. Aimed' /\ loop' \in [Processes -> [Loops -> LoopStates]]
        BY <1>4, <2>1, <3>1
      <4> QED
        BY <2>3, <3>1, <4>1 DEF Take, TypeOK
    <3>2. CASE cursor[p] # N /\ cursor' = [cursor EXCEPT ![p] = @ + 1]
               /\ Move(p, l, "look", cursor[p] + 1)
      <4>1. cursor[p] + 1 \in Steps
        BY <3>2 DEF TypeOK, Steps
      <4>2. Aimed' /\ loop' \in [Processes -> [Loops -> LoopStates]]
        BY <1>4, <2>1, <3>2, <4>1
      <4>3. cursor' \in [Processes -> 0 .. N]
        BY <2>1, <3>2, <4>1 DEF TypeOK
      <4> QED
        BY <2>3, <4>2, <4>3 DEF Take, TypeOK
    <3> QED
      BY <2>3, <3>1, <3>2 DEF Take
  <2>4. CASE StopEarly(p, l)
    <3>1. Aimed' /\ loop' \in [Processes -> [Loops -> LoopStates]]
      BY <1>4, <2>1, <2>4 DEF StopEarly
    <3> QED
      BY <2>4, <3>1 DEF StopEarly, TypeOK
  <2>5. CASE Look(p, l)
    <3>1. loop[p][l].pc = "look" /\ Step(p, l) \in Steps
      BY <2>5 DEF Look, At, Aimed
    <3>2. CASE Report(p, l, "cached")
      <4>1. "cached" \in Reports
        BY DEF Reports
      <4> QED
        BY <2>2, <2>5, <3>1, <3>2, <4>1 DEF Look, TypeOK
    <3>3. CASE Move(p, l, "claim", Step(p, l)) /\ UNCHANGED out
      <4>1. Aimed' /\ loop' \in [Processes -> [Loops -> LoopStates]]
        BY <1>4, <2>1, <3>1, <3>3
      <4> QED
        BY <2>5, <3>3, <4>1 DEF Look, TypeOK
    <3> QED
      BY <2>5, <3>2, <3>3 DEF Look
  <2>6. CASE Claim(p, l)
    <3>1. loop[p][l].pc = "claim" /\ Step(p, l) \in Steps
      BY <2>6 DEF Claim, At, Aimed
    <3>2. CASE Report(p, l, "busy") /\ UNCHANGED row
      <4>1. "busy" \in Reports
        BY DEF Reports
      <4> QED
        BY <2>2, <2>6, <3>1, <3>2, <4>1 DEF Claim, TypeOK
    <3>3. CASE Move(p, l, "run", Step(p, l)) /\ UNCHANGED out
               /\ row' = [row EXCEPT ![Step(p, l)].status = "running", ![Step(p, l)].lease = "live"]
      <4>1. Aimed' /\ loop' \in [Processes -> [Loops -> LoopStates]]
        BY <1>4, <2>1, <3>1, <3>3
      <4>2. row' \in [Steps -> Rows]
        <5> DEFINE r == [row[Step(p, l)] EXCEPT !.status = "running", !.lease = "live"]
        <5>1. row[Step(p, l)] \in Rows
          BY <3>1 DEF TypeOK
        <5>2. r \in Rows
          BY <5>1 DEF Rows
        <5>3. row' = [row EXCEPT ![Step(p, l)] = r]
          BY <3>3
        <5> QED
          BY <3>1, <5>2, <5>3 DEF TypeOK
      <4> QED
        BY <2>6, <3>3, <4>1, <4>2 DEF Claim, TypeOK
    <3> QED
      BY <2>6, <3>2, <3>3 DEF Claim
  <2>7. ASSUME NEW ok \in BOOLEAN, Finish(p, l, ok)
        PROVE  TypeOK' /\ Aimed'
    <3>1. loop[p][l].pc = "run" /\ Step(p, l) \in Steps
      BY <2>7 DEF Finish, At, Aimed
    <3>2. row' \in [Steps -> Rows]
      BY <2>7, <3>1 DEF Finish, TypeOK, Rows
    <3>3. (IF ok THEN "executed" ELSE "failed") \in Reports
      BY DEF Reports
    <3> QED
      BY <2>2, <2>7, <3>1, <3>2, <3>3 DEF Finish, TypeOK
  <2> QED
    BY <1>5, <2>3, <2>4, <2>5, <2>6, <2>7 DEF LoopSteps
<1>6. ASSUME NEW p \in Processes, Leave(p)
      PROVE  TypeOK' /\ Aimed'
  BY <1>6 DEF Leave, Idle, TypeOK, Aimed, Step, LoopStates
<1>7. ASSUME NEW s \in Steps, Expire(s)
      PROVE  TypeOK' /\ Aimed'
  BY <1>7 DEF Expire, TypeOK, Aimed, Step, Rows
<1> QED
  BY <1>1, <1>2, <1>3, <1>5, <1>6, <1>7 DEF Next, Die, Return

\* A done step is not written: Register wants an absent row, Claim a claimable one,
\* Finish and Expire one that is worked on.
LEMMA DoneStays ==
    ASSUME IInv, [Next]_vars, NEW s \in Steps \ overrun, row[s].status = "ok"
    PROVE  row'[s] = row[s]
<1> USE DEF IInv, TypeOK
<1>1. CASE UNCHANGED row
  BY <1>1
<1>2. ASSUME NEW p \in Processes, Register(p)
      PROVE  row'[s] = row[s]
  BY <1>2 DEF Register
<1>3. ASSUME NEW p \in Processes, NEW l \in Loops, Claim(p, l)
      PROVE  row'[s] = row[s]
  BY <1>3 DEF Claim, Claimable
<1>4. ASSUME NEW p \in Processes, NEW l \in Loops, NEW ok \in BOOLEAN, Finish(p, l, ok)
      PROVE  row'[s] = row[s]
  <2>1. Step(p, l) # s
    BY <1>4 DEF Finish, Held, WorksOn
  <2> QED
    BY <1>4, <2>1 DEF Finish
<1>5. ASSUME NEW t \in Steps, Expire(t)
      PROVE  row'[s] = row[s]
  BY <1>5 DEF Expire
<1> QED
  BY <1>1, <1>2, <1>3, <1>4, <1>5
     DEF Next, LoopSteps, Start, Take, StopEarly, Look, Die, Return, Leave, vars

\* Who works after a loop has moved: who did, and the loop that goes to work.
LEMMA WorkAfterMove ==
    ASSUME TypeOK, NEW p \in Processes, NEW l \in Loops, NEW pc, NEW s,
           Move(p, l, pc, s), UNCHANGED input
    PROVE  \A q \in Processes, m \in Loops, t \in Steps :
               WorksOn(q, m, t)' =>
                   \/ WorksOn(q, m, t) /\ ~(q = p /\ m = l)
                   \/ pc = "run" /\ q = p /\ m = l /\ t = s
<1>0. /\ loop'[p][l] = [pc |-> pc, step |-> s]
      /\ \A q \in Processes, m \in Loops : q # p \/ m # l => loop'[q][m] = loop[q][m]
  BY MoveOne
<1> SUFFICES ASSUME NEW q \in Processes, NEW m \in Loops, NEW t \in Steps,
                    input'[q] # None, loop'[q][m].pc = "run", loop'[q][m].step = t
             PROVE  \/ WorksOn(q, m, t) /\ ~(q = p /\ m = l)
                    \/ pc = "run" /\ q = p /\ m = l /\ t = s
  BY DEF WorksOn, At, Step, Runs
<1>2. CASE q = p /\ m = l
  BY <1>0, <1>2
<1>3. CASE q # p \/ m # l
  <2>1. loop[q][m].pc = "run" /\ loop[q][m].step = t /\ input[q] # None
    BY <1>0, <1>3
  <2> QED
    BY <1>3, <2>1 DEF WorksOn, At, Step, Runs
<1> QED
  BY <1>2, <1>3

\* What is overrun stays overrun, and only Expire adds to it.
LEMMA OverrunGrows ==
    ASSUME [Next]_vars
    PROVE  overrun \subseteq overrun' /\ (overrun' = overrun \/ \E s \in Steps : Expire(s))
  BY DEF Next, LoopSteps, Start, Register, Take, StopEarly, Look, Claim, Finish, Die, Return,
         Leave, Expire, vars

\* Rows stay held and workers apart when rows that are worked on stay as they are and
\* nobody goes to work.
LEMMA NoNewWork ==
    ASSUME Held, OneAtATime, overrun \subseteq overrun',
           \A q \in Processes, m \in Loops, t \in Steps \ overrun' : WorksOn(q, m, t)' =>
               WorksOn(q, m, t) /\ (row[t].status = "running" => row'[t] = row[t])
    PROVE  Held' /\ OneAtATime'
<1>1. Held'
  BY DEF Held
<1>2. OneAtATime'
  BY DEF OneAtATime
<1> QED
  BY <1>1, <1>2

\* A step keeps rows held and workers apart: a claim wants a row nobody holds, and
\* a lease that ends under a worker makes the step overrun.
LEMMA HeldStep ==
    ASSUME IInv, [Next]_vars
    PROVE  Held' /\ OneAtATime'
<1> USE DEF IInv
<1>0. overrun \subseteq overrun'
  BY OverrunGrows
<1>1. CASE UNCHANGED vars
  BY <1>0, <1>1, NoNewWork DEF vars, WorksOn, At, Step, Runs
<1>2. ASSUME NEW p \in Processes, NEW i \in Inputs, Start(p, i)
      PROVE  Held' /\ OneAtATime'
  <2>1. \A q \in Processes, m \in Loops, t \in Steps : WorksOn(q, m, t)' => WorksOn(q, m, t)
    BY <1>2 DEF Start, Idle, WorksOn, At, Step, Runs, TypeOK
  <2> QED
    BY <1>0, <1>2, <2>1, NoNewWork DEF Start
<1>3. ASSUME NEW p \in Processes, Register(p)
      PROVE  Held' /\ OneAtATime'
  <2>1. \A q \in Processes, m \in Loops, t \in Steps : WorksOn(q, m, t)' => WorksOn(q, m, t)
    BY <1>3 DEF Register, WorksOn, At, Step, Runs
  <2>2. \A t \in Steps : row[t].status = "running" => row'[t] = row[t]
    BY <1>3 DEF Register, TypeOK
  <2> QED
    BY <1>0, <2>1, <2>2, NoNewWork
<1>4. ASSUME NEW p \in Processes, NEW l \in Loops, NEW pc, NEW s, Move(p, l, pc, s),
             UNCHANGED <<row, input>>, pc # "run"
      PROVE  Held' /\ OneAtATime'
  BY <1>0, <1>4, WorkAfterMove, NoNewWork
<1>5. ASSUME NEW p \in Processes, NEW l \in Loops, Take(p, l) \/ StopEarly(p, l) \/ Look(p, l)
      PROVE  Held' /\ OneAtATime'
  BY <1>4, <1>5 DEF Take, StopEarly, Look, Report
<1>6. ASSUME NEW p \in Processes, NEW l \in Loops, Claim(p, l)
      PROVE  Held' /\ OneAtATime'
  <2> DEFINE t == Step(p, l)
  <2>1. t \in Steps
    BY <1>6 DEF Claim, Aimed, At
  <2>2. CASE Claimable(row[t])
    <3>1. t \notin overrun => \A q \in Processes, m \in Loops : ~WorksOn(q, m, t)
      BY <2>1, <2>2 DEF Held, Claimable
    <3>2. \A q \in Processes, m \in Loops, s \in Steps :
              WorksOn(q, m, s)' => WorksOn(q, m, s) \/ (q = p /\ m = l /\ s = t)
      BY <1>6, <2>1, <2>2, WorkAfterMove DEF Claim
    <3>3. row'[t].status = "running" /\ row'[t].lease = "live"
      BY <1>6, <2>1, <2>2 DEF Claim, TypeOK, Rows
    <3>4. \A s \in Steps : s # t => row'[s] = row[s]
      BY <1>6, <2>1, <2>2 DEF Claim, TypeOK
    <3> HIDE DEF t
    <3>5. Held'
      BY <1>0, <3>2, <3>3, <3>4 DEF Held
    <3>6. OneAtATime'
      BY <1>0, <3>1, <3>2 DEF OneAtATime
    <3> QED
      BY <3>5, <3>6
  <2>3. CASE ~Claimable(row[t])
    BY <1>4, <1>6, <2>3 DEF Claim, Report
  <2> QED
    BY <2>2, <2>3
<1>7. ASSUME NEW p \in Processes, NEW l \in Loops, NEW ok \in BOOLEAN, Finish(p, l, ok)
      PROVE  Held' /\ OneAtATime'
  <2>1. PICK t \in Steps : t = Step(p, l) /\ WorksOn(p, l, t)
    BY <1>7 DEF Finish, Aimed, At, WorksOn
  <2>2. \A q \in Processes, m \in Loops, s \in Steps :
            WorksOn(q, m, s)' => WorksOn(q, m, s) /\ ~(q = p /\ m = l)
    BY <1>7, WorkAfterMove DEF Finish, Report
  <2>3. \A s \in Steps : s # t => row'[s] = row[s]
    BY <1>7, <2>1 DEF Finish, TypeOK
  <2>4. t \notin overrun => \A q \in Processes, m \in Loops : ~WorksOn(q, m, t)'
    BY <2>1, <2>2 DEF OneAtATime
  <2> QED
    BY <1>0, <2>2, <2>3, <2>4, NoNewWork
<1>8. ASSUME NEW p \in Processes, Leave(p)
      PROVE  Held' /\ OneAtATime'
  <2>1. \A q \in Processes, m \in Loops, t \in Steps : WorksOn(q, m, t)' => WorksOn(q, m, t)
    BY <1>8 DEF Leave, Idle, WorksOn, At, Step, Runs, TypeOK
  <2> QED
    BY <1>0, <1>8, <2>1, NoNewWork DEF Leave
<1>9. ASSUME NEW t \in Steps, Expire(t)
      PROVE  Held' /\ OneAtATime'
  <2>1. \A q \in Processes, m \in Loops, s \in Steps : WorksOn(q, m, s)' => WorksOn(q, m, s)
    BY <1>9 DEF Expire, WorksOn, At, Step, Runs
  <2>2. t \notin overrun' => \A q \in Processes, m \in Loops : ~WorksOn(q, m, t)
    BY <1>9 DEF Expire
  <2>3. \A s \in Steps : s # t => row'[s] = row[s]
    BY <1>9 DEF Expire, TypeOK
  <2> QED
    BY <1>0, <2>1, <2>2, <2>3, NoNewWork
<1> QED
  BY <1>1, <1>2, <1>3, <1>5, <1>6, <1>7, <1>8, <1>9 DEF Next, LoopSteps, Die, Return

\* A step keeps the reports true: what was done stays done, and what is reported now
\* was just read or written.
LEMMA ReportsStep ==
    ASSUME IInv, [Next]_vars
    PROVE  ReportsAreTrue'
<1> USE DEF IInv, TypeOK
<1>0. overrun \subseteq overrun'
  BY OverrunGrows
<1>1. ASSUME NEW p \in Processes, NEW s \in Steps \ overrun,
             out'[p][s] \in {"executed", "cached"}, out'[p][s] = out[p][s]
      PROVE  row'[s].status = "ok"
  <2>1. row[s].status = "ok"
    BY <1>1 DEF ReportsAreTrue
  <2> QED
    BY <2>1, DoneStays
<1>2. CASE UNCHANGED out
  BY <1>0, <1>1, <1>2 DEF ReportsAreTrue
<1>3. ASSUME NEW p \in Processes, NEW i \in Inputs, Start(p, i)
      PROVE  ReportsAreTrue'
  <2>1. \A q \in Processes : q # p => out'[q] = out[q]
    BY <1>3 DEF Start
  <2>2. \A s \in Steps : out'[p][s] = "none"
    BY <1>3 DEF Start, Fresh
  <2> QED
    BY <1>0, <1>1, <2>1, <2>2 DEF ReportsAreTrue
<1>4. ASSUME NEW p \in Processes, NEW l \in Loops, NEW what \in Reports,
             loop[p][l].pc \in {"look", "claim", "run"}, Report(p, l, what),
             what \in {"executed", "cached"} => row'[Step(p, l)].status = "ok"
      PROVE  ReportsAreTrue'
  <2>1. ASSUME NEW q \in Processes, NEW s \in Steps,
               out'[q][s] \in {"executed", "cached"}, out'[q][s] # out[q][s]
        PROVE  row'[s].status = "ok"
    <3>1. q = p /\ s = Step(p, l) /\ out'[q][s] = what
      BY <1>4, <2>1, ReportOne
    <3> QED
      BY <1>4, <2>1, <3>1
  <2> QED
    BY <1>0, <1>1, <2>1 DEF ReportsAreTrue
<1>5. ASSUME NEW p \in Processes, NEW l \in Loops, Look(p, l) \/ Claim(p, l)
      PROVE  ReportsAreTrue'
  BY <1>2, <1>4, <1>5 DEF Look, Claim, At, Reports
<1>6. ASSUME NEW p \in Processes, NEW l \in Loops, NEW ok \in BOOLEAN, Finish(p, l, ok)
      PROVE  ReportsAreTrue'
  <2>1. Step(p, l) \in Steps
    BY <1>6 DEF Finish, Aimed, At
  <2>2. ok => row'[Step(p, l)].status = "ok"
    BY <1>6, <2>1 DEF Finish
  <2> QED
    BY <1>4, <1>6, <2>2 DEF Finish, At, Reports
<1> QED
  BY <1>2, <1>3, <1>5, <1>6
     DEF Next, LoopSteps, Register, Take, StopEarly, Die, Return, Leave, Expire, vars

\* The inductive invariant holds.
THEOREM Invariance == Spec => []IInv
<1>1. IInv /\ [Next]_vars => IInv'
  BY TypeOKStep, HeldStep, ReportsStep DEF IInv
<1> QED
  BY InitIInv, <1>1, PTL DEF Spec

\* The ledger's rows, loops and reports are well formed, whatever leases do.
THEOREM LedgerTyped == Spec => []TypeOK
<1>1. Init => TypeOK /\ Aimed
  BY InitIInv DEF IInv
<1>2. (TypeOK /\ Aimed) /\ [Next]_vars => (TypeOK /\ Aimed)'
  BY TypeOKStep
<1> QED
  BY <1>1, <1>2, PTL DEF Spec

\* No two loops of any processes work on one step whose lease has not ended under the
\* work (claim).
THEOREM WorkIsExclusive == Spec => []OneAtATime
<1>1. IInv => OneAtATime
  BY DEF IInv
<1> QED
  BY Invariance, <1>1, PTL

\* What runs report as executed or cached is done in the table, with that exception
\* (runSteps).
THEOREM TrueReports == Spec => []ReportsAreTrue
<1>1. IInv => ReportsAreTrue
  BY DEF IInv
<1> QED
  BY Invariance, <1>1, PTL

\* A done step is never claimed or written again, with that exception (claim, finish).
THEOREM DoneForGood == Spec => VerifiedIsNotRunAgain
<1>1. IInv /\ [Next]_vars => [\A s \in Steps \ overrun : row[s].status = "ok" => row'[s] = row[s]]_vars
  BY DoneStays
<1> QED
  BY Invariance, <1>1, PTL DEF Spec, VerifiedIsNotRunAgain

-----------------------------------------------------------------------------

AtWork(p) == {l \in Loops : loop[p][l].pc \in {"look", "claim", "run"}}

\* What is executed and what is at work may together become what the budget allows and
\* all loops but one.
BudgetKept ==
    \A p \in Processes :
        Cardinality(Executed(p)) + Cardinality(AtWork(p)) < MaxSteps + Cardinality(Loops)

\* The sets that are counted are finite, and counting is monotonous.
LEMMA Counts ==
    ASSUME NEW S, IsFiniteSet(S)
    PROVE  \A T \in SUBSET S : /\ IsFiniteSet(T) /\ Cardinality(T) \in Nat
                              /\ Cardinality(T) <= Cardinality(S)
  BY FS_Subset, FS_CardinalityType

\* A process whose executed and busy sets do not grow keeps its budget; so does one that
\* moves a step from the busy to the executed.
LEMMA BudgetOfOne ==
    ASSUME NEW E, NEW W, NEW F, NEW V, IsFiniteSet(E), IsFiniteSet(W), NEW b \in Nat,
           Cardinality(E) + Cardinality(W) < b,
           \/ F \subseteq E /\ V \subseteq W
           \/ (\E s : F \subseteq E \cup {s}) /\ (\E l \in W : V \subseteq W \ {l})
    PROVE  Cardinality(F) + Cardinality(V) < b
<1>0. Cardinality(E) \in Nat /\ Cardinality(W) \in Nat
  BY FS_CardinalityType
<1>1. CASE F \subseteq E /\ V \subseteq W
  <2>1. Cardinality(F) \in Nat /\ Cardinality(F) <= Cardinality(E)
    BY <1>1, Counts
  <2>2. Cardinality(V) \in Nat /\ Cardinality(V) <= Cardinality(W)
    BY <1>1, Counts
  <2> QED
    BY <1>0, <2>1, <2>2
<1>2. ASSUME NEW s, F \subseteq E \cup {s}, NEW l \in W, V \subseteq W \ {l}
      PROVE  Cardinality(F) + Cardinality(V) < b
  <2>1. IsFiniteSet(E \cup {s}) /\ Cardinality(E \cup {s}) <= Cardinality(E) + 1
    <3>1. /\ IsFiniteSet(E \cup {s})
          /\ Cardinality(E \cup {s}) = IF s \in E THEN Cardinality(E) ELSE Cardinality(E) + 1
      BY FS_AddElement
    <3> QED
      BY <1>0, <3>1
  <2>2. IsFiniteSet(W \ {l}) /\ Cardinality(W \ {l}) = Cardinality(W) - 1
    BY FS_RemoveElement
  <2>3. Cardinality(F) \in Nat /\ Cardinality(F) <= Cardinality(E \cup {s})
    BY <1>2, <2>1, Counts
  <2>4. Cardinality(V) \in Nat /\ Cardinality(V) <= Cardinality(W \ {l})
    BY <1>2, <2>2, Counts
  <2>5. Cardinality(E \cup {s}) \in Nat
    BY <2>1, FS_CardinalityType
  <2> QED
    BY <1>0, <2>1, <2>2, <2>3, <2>4, <2>5
<1> QED
  BY <1>1, <1>2

\* A step keeps the budget: a loop goes to work only under it.
LEMMA BudgetStep ==
    ASSUME TypeOK, Aimed, BudgetKept, [Next]_vars
    PROVE  BudgetKept'
<1>0. /\ \A p \in Processes : IsFiniteSet(Executed(p)) /\ IsFiniteSet(AtWork(p))
      /\ MaxSteps + Cardinality(Loops) \in Nat
  <2>1. IsFiniteSet(Steps)
    BY StepLedgerConstants, FS_Interval DEF Steps
  <2>2. IsFiniteSet(Loops) /\ Cardinality(Loops) \in Nat
    BY StepLedgerConstants, FS_CardinalityType
  <2>3. \A p \in Processes : Executed(p) \in SUBSET Steps /\ AtWork(p) \in SUBSET Loops
    BY DEF Executed, AtWork
  <2> QED
    BY <2>1, <2>2, <2>3, Counts, StepLedgerConstants
<1>1. ASSUME NEW p \in Processes,
             \/ Executed(p)' \subseteq Executed(p) /\ AtWork(p)' \subseteq AtWork(p)
             \/ /\ \E s : Executed(p)' \subseteq Executed(p) \cup {s}
                /\ \E l \in AtWork(p) : AtWork(p)' \subseteq AtWork(p) \ {l}
      PROVE  Cardinality(Executed(p)') + Cardinality(AtWork(p)') < MaxSteps + Cardinality(Loops)
  BY <1>0, <1>1, BudgetOfOne DEF BudgetKept
<1>2. ASSUME NEW p \in Processes, loop'[p] = loop[p], out'[p] = out[p]
      PROVE  Executed(p)' = Executed(p) /\ AtWork(p)' = AtWork(p)
  BY <1>2 DEF Executed, AtWork
<1>3. ASSUME NEW p \in Processes,
             \A q \in Processes : q # p => loop'[q] = loop[q] /\ out'[q] = out[q],
             Cardinality(Executed(p)') + Cardinality(AtWork(p)') < MaxSteps + Cardinality(Loops)
      PROVE  BudgetKept'
  BY <1>1, <1>2, <1>3 DEF BudgetKept
<1>4. CASE UNCHANGED <<loop, out>>
  BY <1>1, <1>2, <1>4 DEF BudgetKept
<1>5. ASSUME NEW p \in Processes, loop' = [loop EXCEPT ![p] = Idle],
             out' = out \/ out' = [out EXCEPT ![p] = Fresh]
      PROVE  BudgetKept'
  <2>1. loop'[p] = Idle /\ (out'[p] = out[p] \/ out'[p] = Fresh)
    BY <1>5 DEF TypeOK
  <2>2. AtWork(p)' = {}
    BY <2>1 DEF AtWork, Idle
  <2>3. Executed(p)' \subseteq Executed(p)
    BY <2>1 DEF Executed, Fresh
  <2>4. \A q \in Processes : q # p => loop'[q] = loop[q] /\ out'[q] = out[q]
    BY <1>5 DEF TypeOK
  <2> QED
    BY <1>1, <1>3, <2>2, <2>3, <2>4
<1>6. ASSUME NEW p \in Processes, NEW l \in Loops, NEW pc, NEW s, Move(p, l, pc, s)
      PROVE  /\ \A q \in Processes : q # p => loop'[q] = loop[q]
             /\ pc \in {"top", "over"} => AtWork(p)' \subseteq AtWork(p) \ {l}
             /\ loop[p][l].pc \in {"look", "claim", "run"} => AtWork(p)' \subseteq AtWork(p)
  <2>1. /\ loop'[p][l] = [pc |-> pc, step |-> s]
        /\ \A q \in Processes, m \in Loops : q # p \/ m # l => loop'[q][m] = loop[q][m]
    BY <1>6, MoveOne
  <2>2. \A q \in Processes : q # p => loop'[q] = loop[q]
    BY <1>6 DEF Move, TypeOK
  <2>3. \A m \in Loops : m # l => loop'[p][m] = loop[p][m]
    BY <2>1
  <2> QED
    BY <2>1, <2>2, <2>3 DEF AtWork
<1>7. ASSUME NEW p \in Processes, NEW l \in Loops, NEW what \in Reports,
             loop[p][l].pc \in {"look", "claim", "run"}, Report(p, l, what)
      PROVE  BudgetKept'
  <2>1. /\ \A q \in Processes : q # p => loop'[q] = loop[q]
        /\ AtWork(p)' \subseteq AtWork(p) \ {l}
    BY <1>6, <1>7 DEF Report
  <2>2. l \in AtWork(p)
    BY <1>7 DEF AtWork
  <2>3. Executed(p)' \subseteq Executed(p) \cup {Step(p, l)}
    BY <1>7, ReportOne DEF Executed
  <2>4. \A q \in Processes : q # p => out'[q] = out[q]
    BY <1>7 DEF Report, TypeOK
  <2>5. \E s : Executed(p)' \subseteq Executed(p) \cup {s}
    BY <2>3
  <2> QED
    BY <1>1, <1>3, <2>1, <2>2, <2>4, <2>5
<1>8. ASSUME NEW p \in Processes, NEW l \in Loops, UNCHANGED out, NEW pc, NEW s, Move(p, l, pc, s),
             pc \in {"top", "over"} \/ loop[p][l].pc \in {"look", "claim", "run"}
      PROVE  BudgetKept'
  <2>1. /\ \A q \in Processes : q # p => loop'[q] = loop[q]
        /\ AtWork(p)' \subseteq AtWork(p)
    BY <1>6, <1>8
  <2>2. Executed(p)' = Executed(p)
    BY <1>8 DEF Executed
  <2> QED
    BY <1>1, <1>3, <1>8, <2>1, <2>2
<1>9. ASSUME NEW p \in Processes, NEW l \in Loops, Take(p, l)
      PROVE  BudgetKept'
  <2>1. CASE cursor[p] = N \/ Cardinality(Executed(p)) >= MaxSteps
    BY <1>8, <1>9, <2>1 DEF Take
  <2>2. CASE ~(cursor[p] = N \/ Cardinality(Executed(p)) >= MaxSteps)
    <3>1. Move(p, l, "look", cursor[p] + 1) /\ UNCHANGED out
      BY <1>9, <2>2 DEF Take
    <3>2. \A q \in Processes : q # p => loop'[q] = loop[q] /\ out'[q] = out[q]
      BY <1>6, <3>1
    <3>3. Executed(p)' = Executed(p) /\ AtWork(p)' \in SUBSET Loops
      BY <3>1 DEF Executed, AtWork
    <3>4. Cardinality(AtWork(p)') \in Nat /\ Cardinality(AtWork(p)') <= Cardinality(Loops)
      BY <3>3, Counts, StepLedgerConstants
    <3>5. Cardinality(Executed(p)) \in Nat /\ Cardinality(Executed(p)) < MaxSteps
      BY <1>0, <2>2, FS_CardinalityType, StepLedgerConstants
    <3>6. Cardinality(Loops) \in Nat
      BY FS_CardinalityType, StepLedgerConstants
    <3>7. Cardinality(Executed(p)') + Cardinality(AtWork(p)') < MaxSteps + Cardinality(Loops)
      BY <3>3, <3>4, <3>5, <3>6, StepLedgerConstants
    <3> QED
      BY <1>3, <3>2, <3>7
  <2> QED
    BY <2>1, <2>2
<1>10. ASSUME NEW p \in Processes, NEW l \in Loops,
              \/ StopEarly(p, l) \/ Look(p, l) \/ Claim(p, l)
              \/ \E ok \in BOOLEAN : Finish(p, l, ok)
       PROVE  BudgetKept'
  <2>1. CASE StopEarly(p, l)
    BY <1>8, <2>1 DEF StopEarly
  <2>2. CASE Look(p, l)
    BY <1>7, <1>8, <2>2 DEF Look, At, Reports
  <2>3. CASE Claim(p, l)
    BY <1>7, <1>8, <2>3 DEF Claim, At, Reports
  <2>4. ASSUME NEW ok \in BOOLEAN, Finish(p, l, ok)
        PROVE  BudgetKept'
    BY <1>7, <2>4 DEF Finish, At, Reports
  <2> QED
    BY <1>10, <2>1, <2>2, <2>3, <2>4
<1> QED
  BY <1>4, <1>5, <1>9, <1>10
     DEF Next, LoopSteps, Start, Register, Die, Return, Leave, Expire, vars

\* The budget is overrun by the other loops' work at most (budgetStop).
THEOREM BudgetRespected == Spec => []BudgetHolds
<1>1. Init => TypeOK /\ Aimed /\ BudgetKept
  <2> SUFFICES ASSUME Init PROVE BudgetKept
    BY InitIInv DEF IInv
  <2>1. \A p \in Processes : Executed(p) = {} /\ AtWork(p) = {}
    BY DEF Init, Executed, AtWork, Idle, Fresh
  <2>2. Cardinality(Loops) \in Nat /\ Cardinality(Loops) # 0
    BY StepLedgerConstants, FS_CardinalityType, FS_EmptySet
  <2>3. MaxSteps \in Nat /\ Cardinality({}) = 0
    BY StepLedgerConstants, FS_EmptySet
  <2>4. 0 + 0 < MaxSteps + Cardinality(Loops)
    BY <2>2, <2>3
  <2>5. ASSUME NEW p \in Processes
        PROVE  Cardinality(Executed(p)) + Cardinality(AtWork(p)) = 0 + 0
    BY <2>1, <2>3
  <2> QED
    BY <2>4, <2>5 DEF BudgetKept
<1>2. (TypeOK /\ Aimed /\ BudgetKept) /\ [Next]_vars => (TypeOK /\ Aimed /\ BudgetKept)'
  BY TypeOKStep, BudgetStep
<1>3. TypeOK /\ BudgetKept => BudgetHolds
  <2> SUFFICES ASSUME TypeOK, BudgetKept, NEW p \in Processes
               PROVE  Cardinality(Executed(p)) < MaxSteps + Cardinality(Loops)
    BY DEF BudgetHolds
  <2>1. Executed(p) \in SUBSET Steps /\ AtWork(p) \in SUBSET Loops /\ IsFiniteSet(Steps)
    BY StepLedgerConstants, FS_Interval DEF Executed, AtWork, Steps
  <2>2. Cardinality(Executed(p)) \in Nat /\ Cardinality(AtWork(p)) \in Nat
    BY <2>1, Counts, StepLedgerConstants
  <2>3. Cardinality(Loops) \in Nat
    BY StepLedgerConstants, FS_CardinalityType
  <2> QED
    BY <2>2, <2>3, StepLedgerConstants DEF BudgetKept
<1> QED
  BY <1>1, <1>2, <1>3, PTL DEF Spec
=============================================================================
