------------------------------ MODULE PhaseRun ------------------------------
(***************************************************************************)
(* How one project runs through its phases (agent/engine): the driver of   *)
(* projectRunner, the architect's split coroutines and two-step dispatch,  *)
(* the maintainer's accounting and the developer line, each with its box   *)
(* on the bus, in one process that may die or leave and be started again.  *)
(*                                                                         *)
(* A phase is one flow task: a blueprint, a batch per work item, and one   *)
(* terminal message of the developer.  Survives a process: the task rows,  *)
(* the dispatch ledger, the developer's task ledgers, the project status.  *)
(* Everything else, every message included, dies with it.                  *)
(*                                                                         *)
(* An action is one synchronous segment, or several between which nothing  *)
(* that others can see changes.  Faults names what may go wrong:           *)
(*   kill       the process dies (crash, watchdog, stop button)            *)
(*   throw      a split fails; its rejection kills the process or is logged*)
(*   reject     the plan is refused at the confirm gate                    *)
(*   block      the developer gives up and says so                         *)
(*   exception  an invocation throws                                       *)
(*   pause      a brake checkpoint is not answered in time                 *)
(*   humanStop  a brake checkpoint is answered with stop                   *)
(*   retry      a failed row is set back to todo and the project restarted *)
(*   lostWrite  the maintainer's write of a row fails                      *)
(* Left out: consult requests, the test engineer's messages (the result of *)
(* a test appears as the outcome of TestAnswered), the developer_blocked   *)
(* copy to the architect, which nothing there handles, and a human stop of *)
(* the project, which is a kill here.                                      *)
(***************************************************************************)
EXTENDS Integers, Sequences, FiniteSets

CONSTANTS
    NumPhases,   \* phases of the plan
    NumBatches,  \* work items per phase
    Modes,       \* values EXIT_AT_PHASE_BOUNDARY takes, a subset of BOOLEAN
    Faults,
    MaxRuns      \* bound: processes started

ASSUME PhaseRunConstants ==
    /\ NumPhases \in Nat \ {0} /\ NumBatches \in Nat \ {0} /\ MaxRuns \in Nat
    /\ Modes \subseteq BOOLEAN

Phases == 1..NumPhases

VARIABLES
    row,           \* status of each phase's task in sys_task, "none" without one
    dispatched,    \* dispatch ledger: <<phase, item>> sent, item 0 the blueprint
    ledger,        \* status in each task's developer ledger
    status,        \* sys_project.status
    runs,          \* processes started so far
    hasty,         \* history: a process went on without the maintainer, see below
    driver,        \* drivePhases and what follows it
    managerBox, architectBox, maintainerBox, developerBox,
    split,         \* runPhaseSplit of each phase: its stage and next item
    maint,         \* the maintainer's fields
    writing,       \* the row write its handler is awaiting, at most one
    line,          \* the developer line
    stop           \* the stop signal (requestBrakeStop) and its reason

durable  == <<row, dispatched, ledger, status>>
boxes    == <<managerBox, architectBox, maintainerBox, developerBox>>
volatile == <<boxes, split, maint, writing, line, stop>>
vars     == <<durable, runs, hasty, driver, volatile>>

Message(t, p) == [type |-> t, phase |-> p]
Batch(p, k)   == [type |-> "architect_batch", phase |-> p, item |-> k]

Concluded   == {"done", "failed"}
Recorded(p) == row[p] \in Concluded
Up          == driver.pc # "off"

TypeOK ==
    /\ row \in [Phases -> {"none", "todo"} \cup Concluded]
    /\ dispatched \subseteq Phases \X (0..NumBatches)
    /\ ledger \in [Phases -> {"none", "open", "waiting_human", "ready", "blocked", "failed"}]
    /\ status \in {"executing", "done", "failed", "blocked"}
    /\ runs \in 0..MaxRuns /\ hasty \in BOOLEAN
    /\ driver \in [pc : {"off", "waiting", "draining", "gate", "leaving"},
                   at : Phases, boundary : BOOLEAN]
    /\ split \in [Phases -> [stage : {"off", "planning", "sending", "saving"},
                             item : 0..(NumBatches + 1)]]
    /\ maint \in [phase : 0..NumPhases, declared : SUBSET Phases,
                  final : BOOLEAN, terminals : SUBSET Phases]
    /\ writing \subseteq [phase : Phases, verdict : Concluded, under : 0..NumPhases]
    /\ line \in [pc : {"idle", "working", "item", "test", "closing", "dead"},
                 task : Phases, arrived : 0..NumBatches,
                 verdict : {"ready", "blocked", "failed"}, quiet : BOOLEAN]
    /\ stop \in {"none", "paused", "terminal"}

Idle == [pc |-> "idle", task |-> 1, arrived |-> 0, verdict |-> "ready", quiet |-> FALSE]

\* What a process holds before its first message.
Fresh ==
    /\ managerBox' = <<>> /\ maintainerBox' = <<>> /\ developerBox' = <<>>
    /\ split' = [p \in Phases |-> [stage |-> "off", item |-> 0]]
    /\ maint' = [phase |-> 0, declared |-> {}, final |-> FALSE, terminals |-> {}]
    /\ writing' = {}
    /\ line' = Idle
    /\ stop' = "none"

Init ==
    /\ row = [p \in Phases |-> "none"]
    /\ dispatched = {}
    /\ ledger = [p \in Phases |-> "none"]
    /\ status = "executing"
    /\ runs = 0 /\ hasty = FALSE
    /\ driver = [pc |-> "off", at |-> 1, boundary |-> FALSE]
    /\ managerBox = <<>> /\ architectBox = <<>> /\ maintainerBox = <<>> /\ developerBox = <<>>
    /\ split = [p \in Phases |-> [stage |-> "off", item |-> 0]]
    /\ maint = [phase |-> 0, declared |-> {}, final |-> FALSE, terminals |-> {}]
    /\ writing = {}
    /\ line = Idle
    /\ stop = "none"

-----------------------------------------------------------------------------
(* The process *)

\* findResumeIndex: the first phase without a verdict.
Open == {p \in Phases : ~Recorded(p)}
FirstOpen == CHOOSE p \in Open : \A q \in Open : p <= q

\* A process starts while the project is executing (start button or reconciler).
\* Without any row the old tree is archived, ledgers and files with it, and a
\* new blueprint never has an old key.
Start ==
    /\ ~Up /\ status = "executing" /\ runs < MaxRuns
    /\ runs' = runs + 1
    /\ Fresh
    /\ \E b \in Modes :
           \/ /\ Open # {}
              /\ driver' = [pc |-> "waiting", at |-> FirstOpen, boundary |-> b]
              /\ architectBox' = <<Message("phase_plan", FirstOpen)>>
           \/ /\ Open = {}
              /\ driver' = [pc |-> "gate", at |-> NumPhases, boundary |-> b]
              /\ architectBox' = <<>>
    /\ IF \A p \in Phases : row[p] = "none"
       THEN dispatched' = {} /\ ledger' = [p \in Phases |-> "none"]
       ELSE UNCHANGED <<dispatched, ledger>>
    /\ UNCHANGED <<row, status, hasty>>

\* The rows after the writes in w have reached the database: they find their row
\* by id and phase, and never turn done into failed.
RowsAfter(w) ==
    [p \in Phases |->
        IF row[p] \in {"none", "done"} THEN row[p]
        ELSE IF \E x \in w : x.phase = p /\ x.under = p
             THEN (CHOOSE x \in w : x.phase = p /\ x.under = p).verdict
             ELSE row[p]]

\* The writes that succeed if w are attempted.
Attempts(w) == IF "lostWrite" \in Faults THEN SUBSET w ELSE {w}

Off ==
    /\ driver' = [driver EXCEPT !.pc = "off"]
    /\ architectBox' = <<>>
    /\ Fresh

Kill ==
    /\ "kill" \in Faults /\ Up
    /\ Off
    /\ \E w \in SUBSET writing : row' = RowsAfter(w)
    /\ UNCHANGED <<dispatched, ledger, status, runs, hasty>>

\* closeTaskBridge lets a query in flight end, for three seconds; of a write, which is a
\* query for the row and one that changes it, the second may find the pool closed.
Exit ==
    /\ driver.pc = "leaving"
    /\ Off
    /\ \E w \in SUBSET writing : row' = RowsAfter(w) /\ hasty' = (hasty \/ w # writing)
    /\ UNCHANGED <<dispatched, ledger, status, runs>>

\* The board sends a failed task back to todo and the project is started again.
Retry(p) ==
    /\ "retry" \in Faults /\ ~Up
    /\ status \in {"failed", "blocked"} /\ row[p] = "failed"
    /\ row' = [row EXCEPT ![p] = "todo"]
    /\ status' = "executing"
    /\ UNCHANGED <<dispatched, ledger, runs, hasty, driver, volatile>>

-----------------------------------------------------------------------------
(* projectRunner.drivePhases and the end of runProject *)

\* Anything but the request for this phase is marked done and dropped.
TakeRequest ==
    /\ driver.pc = "waiting" /\ managerBox # <<>>
    /\ managerBox' = Tail(managerBox)
    /\ IF Head(managerBox) # Message("phase_request", driver.at)
       THEN UNCHANGED <<driver, architectBox>>
       ELSE IF driver.at = NumPhases
       THEN driver' = [driver EXCEPT !.pc = "gate"] /\ UNCHANGED architectBox
       ELSE IF driver.boundary
       THEN driver' = [driver EXCEPT !.pc = "leaving"] /\ UNCHANGED architectBox
       ELSE /\ driver' = [driver EXCEPT !.at = @ + 1]
            /\ architectBox' = Append(architectBox, Message("phase_plan", driver.at + 1))
    /\ UNCHANGED <<durable, runs, hasty, maintainerBox, developerBox,
                   split, maint, writing, line, stop>>

\* The stop signal wins the race: a pause leaves at once, a terminal first lets
\* the maintainer's and the architect's boxes drain.
TakeStop ==
    /\ driver.pc = "waiting" /\ stop # "none"
    /\ driver' = [driver EXCEPT !.pc = IF stop = "paused" THEN "leaving" ELSE "draining"]
    /\ UNCHANGED <<durable, runs, hasty, volatile>>

\* waitQueuesDrained, until both boxes are empty or its 2 s are over, and settleOnFailure.
SettleFailed ==
    /\ driver.pc = "draining"
    /\ hasty' = (hasty \/ maintainerBox # <<>> \/ architectBox # <<>>)
    /\ status' = "failed"
    /\ driver' = [driver EXCEPT !.pc = "leaving"]
    /\ UNCHANGED <<row, dispatched, ledger, runs, volatile>>

\* decideProjectStatus, with the verdict of the delivery gate.
Decide(gate) ==
    IF \A p \in Phases : row[p] = "none" THEN "failed"
    ELSE IF \E p \in Phases : row[p] = "failed" THEN "failed"
    ELSE gate

\* Mutant: the delivery gate alone decides.
SettleByGateAlone ==
    /\ driver.pc = "gate"
    /\ status' \in {"done", "failed", "blocked"}
    /\ driver' = [driver EXCEPT !.pc = "leaving"]
    /\ UNCHANGED <<row, dispatched, ledger, runs, hasty, volatile>>

\* runFinalGate and settleProject.
Settle ==
    /\ driver.pc = "gate"
    /\ \E gate \in {"done", "failed", "blocked"} : status' = Decide(gate)
    /\ driver' = [driver EXCEPT !.pc = "leaving"]
    /\ UNCHANGED <<row, dispatched, ledger, runs, hasty, volatile>>

Driver == TakeRequest \/ TakeStop \/ SettleFailed \/ Settle

-----------------------------------------------------------------------------
(* architect: the message handlers and runPhaseSplit, not awaited by them *)

TakePlan(p) ==
    /\ Up /\ architectBox # <<>> /\ Head(architectBox) = Message("phase_plan", p)
    /\ architectBox' = Tail(architectBox)
    /\ split' = [split EXCEPT ![p] = [stage |-> "planning", item |-> 0]]
    /\ UNCHANGED <<durable, runs, hasty, driver, managerBox, maintainerBox, developerBox,
                   maint, writing, line, stop>>

TakePhaseDone(p) ==
    /\ Up /\ architectBox # <<>> /\ Head(architectBox) = Message("phase_done", p)
    /\ architectBox' = Tail(architectBox)
    /\ managerBox' = Append(managerBox, Message("phase_request", p))
    /\ UNCHANGED <<durable, runs, hasty, driver, maintainerBox, developerBox,
                   split, maint, writing, line, stop>>

\* Timing assumption: a plan takes minutes of model calls, closing a task and
\* leaving after an unsuccessful one takes seconds.
Winding == line.pc = "closing" \/ stop # "none"

\* The task row is created (an existing one keeps its status), then the
\* maintainer is told, then the dispatch starts.
Declare(p) ==
    /\ Up /\ split[p].stage = "planning" /\ ~Winding
    /\ split' = [split EXCEPT ![p].stage = "sending"]
    /\ row' = [row EXCEPT ![p] = IF @ = "none" THEN "todo" ELSE @]
    /\ maintainerBox' = Append(maintainerBox, Message("tasks_declared", p))
    /\ UNCHANGED <<dispatched, ledger, status, runs, hasty, driver, managerBox, architectBox,
                   developerBox, maint, writing, line, stop>>

\* The plan is refused: no task is declared, and that is final.
Reject(p) ==
    /\ "reject" \in Faults /\ Up /\ split[p].stage = "planning" /\ ~Winding
    /\ split' = [split EXCEPT ![p].stage = "off"]
    /\ maintainerBox' = Append(maintainerBox, Message("nothing_declared", p))
    /\ status' = "executing"
    /\ UNCHANGED <<row, dispatched, ledger, runs, hasty, driver, managerBox, architectBox,
                   developerBox, maint, writing, line, stop>>

NextItem(p) ==
    split' = [split EXCEPT ![p].item = @ + 1,
                           ![p].stage = IF split[p].item = NumBatches THEN "saving" ELSE @]

\* Mutant: the keys are kept in memory only and every process starts without.
SendItemForgetting(p) ==
    /\ Up /\ split[p].stage = "sending"
    /\ NextItem(p)
    /\ developerBox' = Append(developerBox, IF split[p].item = 0 THEN Message("architect_task", p)
                                            ELSE Batch(p, split[p].item))
    /\ UNCHANGED <<durable, runs, hasty, driver, managerBox, architectBox, maintainerBox,
                   maint, writing, line, stop>>

\* One item of dispatchArchitectTaskBatched: sent and entered in the ledger, or
\* skipped because an earlier process has sent it.
SendItem(p) ==
    /\ Up /\ split[p].stage = "sending"
    /\ NextItem(p)
    /\ LET key == <<p, split[p].item>>
       IN  /\ dispatched' = dispatched \cup {key}
           /\ developerBox' =
                  IF key \in dispatched THEN developerBox
                  ELSE Append(developerBox, IF split[p].item = 0 THEN Message("architect_task", p)
                                            ELSE Batch(p, split[p].item))
    /\ UNCHANGED <<row, ledger, status, runs, hasty, driver, managerBox, architectBox, maintainerBox,
                   maint, writing, line, stop>>

\* The split fails for good and its coroutine ends in an unhandled rejection.
\* Once the dispatch has begun the manager is told, and the developer too if the
\* blueprint is out; nobody is when a file cannot be written (writeJson).
FailSplit(p) ==
    /\ "throw" \in Faults /\ Up /\ split[p].stage \in {"planning", "sending"}
    /\ \/ /\ Off
          /\ \E w \in SUBSET writing : row' = RowsAfter(w)
       \/ /\ split' = [split EXCEPT ![p].stage = "off"]
          /\ \/ UNCHANGED <<managerBox, developerBox>>
             \/ /\ split[p].stage = "sending"
                /\ managerBox' = Append(managerBox, Message("architect_dispatch_failed", p))
                /\ developerBox' = IF split[p].item = 0 THEN developerBox
                                   ELSE Append(developerBox, Message("cancel_task", p))
          /\ UNCHANGED <<row, driver, architectBox, maintainerBox, maint, writing, line, stop>>
    /\ UNCHANGED <<dispatched, ledger, status, runs, hasty>>

\* saveArchitectOutput.
SaveOutput(p) ==
    /\ Up /\ split[p].stage = "saving"
    /\ split' = [split EXCEPT ![p].stage = "off"]
    /\ status' = "executing"
    /\ UNCHANGED <<row, dispatched, ledger, runs, hasty, driver, boxes, maint, writing, line, stop>>

Architect(p) ==
    \/ TakePlan(p) \/ TakePhaseDone(p) \/ Declare(p) \/ Reject(p)
    \/ SendItem(p) \/ FailSplit(p) \/ SaveOutput(p)

-----------------------------------------------------------------------------
(* maintainer: its loop awaits each handler *)

\* checkConverged with the fields m: once the declaration is final and every
\* declared task has its verdict, the phase is reported and the account emptied.
Converge(m) ==
    IF m.final /\ m.declared \subseteq m.terminals
    THEN /\ architectBox' = Append(architectBox, Message("phase_done", m.phase))
         /\ maint' = [m EXCEPT !.declared = {}, !.final = FALSE, !.terminals = {}]
    ELSE /\ UNCHANGED architectBox
         /\ maint' = m

\* Mutant: the phase is not taken over, and the row is looked up under another.
TakeDeclaredWithoutPhase(p) ==
    /\ Up /\ writing = {} /\ maintainerBox # <<>>
    /\ Head(maintainerBox) \in {Message("tasks_declared", p), Message("nothing_declared", p)}
    /\ maintainerBox' = Tail(maintainerBox)
    /\ Converge([maint EXCEPT !.final = TRUE,
                     !.declared = IF Head(maintainerBox).type = "tasks_declared"
                                  THEN @ \cup {p} ELSE @])
    /\ UNCHANGED <<durable, runs, hasty, driver, managerBox, developerBox,
                   split, writing, line, stop>>

TakeDeclared(p) ==
    /\ Up /\ writing = {} /\ maintainerBox # <<>>
    /\ Head(maintainerBox) \in {Message("tasks_declared", p), Message("nothing_declared", p)}
    /\ maintainerBox' = Tail(maintainerBox)
    /\ Converge([maint EXCEPT !.phase = p, !.final = TRUE,
                     !.declared = IF Head(maintainerBox).type = "tasks_declared"
                                  THEN @ \cup {p} ELSE @])
    /\ UNCHANGED <<durable, runs, hasty, driver, managerBox, developerBox,
                   split, writing, line, stop>>

\* Mutant: the write of the row is started and not awaited.
TakeTerminalNotAwaiting(p) ==
    /\ Up /\ writing = {} /\ maintainerBox # <<>>
    /\ \E t \in {"developer_ready", "developer_blocked", "developer_failed"} :
           /\ Head(maintainerBox) = Message(t, p)
           /\ writing' = {[phase |-> p, under |-> maint.phase,
                           verdict |-> IF t = "developer_ready" THEN "done" ELSE "failed"]}
    /\ maintainerBox' = Tail(maintainerBox)
    /\ Converge([maint EXCEPT !.terminals = @ \cup {p}])
    /\ UNCHANGED <<durable, runs, hasty, driver, managerBox, developerBox, split, line, stop>>

\* The first terminal of a task counts; its row is looked up under the phase
\* declared last, because the message carries none.
TakeTerminal(p) ==
    /\ Up /\ writing = {} /\ maintainerBox # <<>>
    /\ \E t \in {"developer_ready", "developer_blocked", "developer_failed"} :
           /\ Head(maintainerBox) = Message(t, p)
           /\ writing' = IF p \in maint.terminals THEN {}
                         ELSE {[phase |-> p, under |-> maint.phase,
                                verdict |-> IF t = "developer_ready" THEN "done" ELSE "failed"]}
    /\ maintainerBox' = Tail(maintainerBox)
    /\ maint' = [maint EXCEPT !.terminals = @ \cup {p}]
    /\ UNCHANGED <<durable, runs, hasty, driver, managerBox, architectBox, developerBox,
                   split, line, stop>>

\* The awaited write is over, whatever became of it; the handler goes on.
Write ==
    /\ Up /\ writing # {}
    /\ \E w \in Attempts(writing) : row' = RowsAfter(w)
    /\ writing' = {}
    /\ Converge(maint)
    /\ UNCHANGED <<dispatched, ledger, status, runs, hasty, driver, managerBox, maintainerBox,
                   developerBox, split, line, stop>>

Maintainer == Write \/ \E p \in Phases : TakeDeclared(p) \/ TakeTerminal(p)

-----------------------------------------------------------------------------
(* developerTeamRunner.startDeveloperLine, runOneTask, driveToTerminal and the *)
(* entry points of developerAgent/index.ts                                     *)

Serving == line.pc \in {"item", "test"}

Tell(t) == maintainerBox' = Append(maintainerBox, Message(t, line.task))

\* The task has its verdict; quiet if its end will not stop the process.
Conclude(verdict, quiet) ==
    line' = [line EXCEPT !.pc = "closing", !.verdict = verdict, !.quiet = quiet]

\* Between tasks everything but a task is dropped.
TakeTask ==
    /\ Up /\ line.pc = "idle" /\ developerBox # <<>>
    /\ developerBox' = Tail(developerBox)
    /\ line' = IF Head(developerBox).type = "architect_task"
               THEN [Idle EXCEPT !.pc = "working", !.task = Head(developerBox).phase]
               ELSE line
    /\ UNCHANGED <<durable, runs, hasty, driver, managerBox, architectBox, maintainerBox,
                   split, maint, writing, stop>>

\* An invocation comes to rest and is persisted: it waits for the next batch,
\* or, once all have come, for the test.
WorkRests ==
    /\ Up /\ line.pc = "working"
    /\ line' = [line EXCEPT !.pc = IF line.arrived < NumBatches THEN "item" ELSE "test"]
    /\ ledger' = [ledger EXCEPT ![line.task] = "open"]
    /\ UNCHANGED <<row, dispatched, status, runs, hasty, driver, boxes, split, maint, writing, stop>>

\* resumeWithBatch: the next batch of this task is worked on, any other aborts it.
TakeBatch ==
    /\ Up /\ line.pc = "item" /\ developerBox # <<>>
    /\ Head(developerBox).type = "architect_batch"
    /\ developerBox' = Tail(developerBox)
    /\ IF Head(developerBox) = Batch(line.task, line.arrived + 1)
       THEN /\ line' = [line EXCEPT !.pc = "working", !.arrived = @ + 1]
            /\ UNCHANGED maintainerBox
       ELSE Conclude("blocked", FALSE) /\ Tell("developer_blocked")
    /\ UNCHANGED <<durable, runs, hasty, driver, managerBox, architectBox,
                   split, maint, writing, stop>>

\* A cancel_task aborts whatever task is being served.
TakeCancel ==
    /\ Up /\ Serving /\ developerBox # <<>> /\ Head(developerBox).type = "cancel_task"
    /\ developerBox' = Tail(developerBox)
    /\ Conclude("blocked", FALSE) /\ Tell("developer_blocked")
    /\ UNCHANGED <<durable, runs, hasty, driver, managerBox, architectBox,
                   split, maint, writing, stop>>

\* A message for another window is parked in the task's handle and dies with it.
Park ==
    /\ Up /\ Serving /\ developerBox # <<>>
    /\ \/ Head(developerBox).type = "architect_task"
       \/ Head(developerBox).type = "architect_batch" /\ line.pc = "test"
    /\ developerBox' = Tail(developerBox)
    /\ UNCHANGED <<durable, runs, hasty, driver, managerBox, architectBox, maintainerBox,
                   split, maint, writing, line, stop>>

\* The test passes; developer_ready goes out before anything is persisted.
TestAnswered ==
    /\ Up /\ line.pc = "test"
    /\ Conclude("ready", TRUE) /\ Tell("developer_ready")
    /\ UNCHANGED <<durable, runs, hasty, driver, managerBox, architectBox, developerBox,
                   split, maint, writing, stop>>

\* The graph ends in developerBlocked, or the watchdog of the test wait does it.
\* In the first invocation runOneTask finishes without stopping the process.
GiveUp ==
    /\ "block" \in Faults /\ Up /\ line.pc \in {"working", "test"}
    /\ Conclude("blocked", line.arrived = 0) /\ Tell("developer_blocked")
    /\ UNCHANGED <<durable, runs, hasty, driver, managerBox, architectBox, developerBox,
                   split, maint, writing, stop>>

\* An invocation throws: acceptArchitectTask reports it, the resume paths only
\* persist the failure.
Throw ==
    /\ "exception" \in Faults /\ Up /\ line.pc \in {"working", "test"}
    /\ Conclude("failed", line.arrived = 0)
    /\ IF line.arrived = 0 THEN Tell("developer_failed") ELSE UNCHANGED maintainerBox
    /\ UNCHANGED <<durable, runs, hasty, driver, managerBox, architectBox, developerBox,
                   split, maint, writing, stop>>

\* A brake checkpoint is answered with stop.
HumanStop ==
    /\ "humanStop" \in Faults /\ Up /\ Serving
    /\ Conclude("blocked", TRUE) /\ Tell("developer_blocked")
    /\ UNCHANGED <<durable, runs, hasty, driver, managerBox, architectBox, developerBox,
                   split, maint, writing, stop>>

\* A brake checkpoint is not answered: the task waits for a human, the line ends.
Pause ==
    /\ "pause" \in Faults /\ Up /\ Serving
    /\ ledger' = [ledger EXCEPT ![line.task] = "waiting_human"]
    /\ line' = [line EXCEPT !.pc = "dead"]
    /\ stop' = IF stop = "none" THEN "paused" ELSE stop
    /\ UNCHANGED <<row, dispatched, status, runs, hasty, driver, boxes, split, maint, writing>>

\* Mutant: an unsuccessful end does not ask the process to stop.
CloseOutWithoutStop ==
    /\ Up /\ line.pc = "closing"
    /\ ledger' = [ledger EXCEPT ![line.task] = line.verdict]
    /\ developerBox' = <<>>
    /\ line' = Idle
    /\ UNCHANGED <<row, dispatched, status, runs, hasty, driver, managerBox, architectBox,
                   maintainerBox, split, maint, writing, stop>>

\* The verdict is persisted and the handle shut down, an unsuccessful end stops
\* the process, drainStale empties the box, and the line ends or goes on.
CloseOut ==
    /\ Up /\ line.pc = "closing"
    /\ ledger' = [ledger EXCEPT ![line.task] = line.verdict]
    /\ stop' = IF line.verdict # "ready" /\ ~line.quiet /\ stop = "none" THEN "terminal" ELSE stop
    /\ developerBox' = <<>>
    /\ line' = [Idle EXCEPT !.pc = IF stop' = "none" THEN "idle" ELSE "dead"]
    /\ UNCHANGED <<row, dispatched, status, runs, hasty, driver, managerBox, architectBox,
                   maintainerBox, split, maint, writing>>

Developer ==
    \/ TakeTask \/ WorkRests \/ TakeBatch \/ TakeCancel \/ Park \/ TestAnswered
    \/ GiveUp \/ Throw \/ HumanStop \/ Pause \/ CloseOut

Next ==
    \/ Start \/ Kill \/ Exit \/ Driver \/ Maintainer \/ Developer
    \/ \E p \in Phases : Retry(p) \/ Architect(p)

Spec == Init /\ [][Next]_vars

\* Ready continuations run, invocations and tests come to an end (the graph is
\* bounded in calls, the test wait in time), and a project that is executing is
\* started by the reconciler.
FairSpec ==
    /\ Spec
    /\ WF_vars(Start) /\ WF_vars(Exit) /\ WF_vars(TakeRequest) /\ WF_vars(TakeStop)
    /\ WF_vars(SettleFailed) /\ WF_vars(Settle) /\ WF_vars(Maintainer)
    /\ WF_vars(TakeTask \/ WorkRests \/ TakeBatch \/ TakeCancel \/ Park) /\ WF_vars(CloseOut)
    /\ WF_vars(TestAnswered)
    /\ \A p \in Phases :
           /\ WF_vars(TakePlan(p)) /\ WF_vars(TakePhaseDone(p))
           /\ WF_vars(Declare(p)) /\ WF_vars(SendItem(p)) /\ WF_vars(SaveOutput(p))

-----------------------------------------------------------------------------
Holds(box, m) == \E i \in 1..Len(box) : box[i] = m

(***************************************************************************)
(* The run of a phase is over only when its task's verdict is in the       *)
(* database: behind the driver every phase is recorded, and so is a phase  *)
(* whose successor is being requested, so that a process that leaves or    *)
(* dies now is not followed by one that does the phase again.              *)
(***************************************************************************)
EarlierPhasesRecorded ==
    /\ Up => \A q \in Phases : q < driver.at => Recorded(q)
    /\ driver.pc = "gate" => \A q \in Phases : Recorded(q)
    /\ \A q \in Phases : Holds(managerBox, Message("phase_request", q)) => Recorded(q)

(***************************************************************************)
(* The dispatch ledger and the developer's task ledgers agree across       *)
(* restarts: a task that arrives is one the developer has no ledger of, so *)
(* no blueprint is worked on twice.                                        *)
(***************************************************************************)
TasksArriveFresh ==
    \A q \in Phases : Holds(developerBox, Message("architect_task", q)) => ledger[q] = "none"

(***************************************************************************)
(* A project is done only if the developer got every single phase ready,   *)
(* although the final decision looks only for failed rows.                 *)
(***************************************************************************)
DoneMeansAllReady ==
    status = "done" => \A q \in Phases : row[q] = "done"

(***************************************************************************)
(* When a project has ended, the failure of each task that was given up or *)
(* aborted is in the task table, not only in the developer's ledger: the   *)
(* way from the end of a task over the maintainer to its row is finished   *)
(* before the process leaves.  Excepted are the processes that were hasty: *)
(* the boxes were not empty after the two seconds, or the exit came        *)
(* between the two queries of a write.                                     *)
(***************************************************************************)
EndedTasksAreRecorded ==
    ~Up /\ status # "executing" /\ ~hasty
        => \A q \in Phases : ledger[q] = "blocked" => row[q] = "failed"

(***************************************************************************)
(* Said without the exception (projectRunner.ts:303, and :461): the status *)
(* of the task is in the table when the process leaves.                    *)
(***************************************************************************)
EndedTasksAreRecordedAlways ==
    ~Up /\ status # "executing" => \A q \in Phases : ledger[q] = "blocked" => row[q] = "failed"

(***************************************************************************)
(* The process never waits for something nobody will do: while the driver  *)
(* waits, a message is under way, a coroutine or the line is at work, a    *)
(* write is awaited, or the stop signal is up.                             *)
(***************************************************************************)
SomebodyWillAct ==
    driver.pc = "waiting" =>
        \/ stop # "none" \/ writing # {}
        \/ <<managerBox, architectBox, maintainerBox, developerBox>> # <<<<>>, <<>>, <<>>, <<>>>>
        \/ \E p \in Phases : split[p].stage # "off"
        \/ line.pc \notin {"idle", "item", "dead"}

(***************************************************************************)
(* Every process comes to an end by itself, also after a failure.          *)
(***************************************************************************)
EveryRunEnds == Up ~> ~Up

(***************************************************************************)
(* developerTeamRunner.ts:74 and :440 (and projectRunner.ts:306): after a  *)
(* brake pause a new process takes the task up where it stopped.           *)
(***************************************************************************)
PausedTaskIsTakenUp ==
    \A p \in Phases :
        driver.pc = "waiting" /\ stop = "none" /\ ledger[p] = "waiting_human"
            /\ split[p].stage = "saving"
        => \/ line.task = p /\ line.pc # "idle"
           \/ Holds(developerBox, Message("architect_task", p))

(***************************************************************************)
(* projectRunner.ts:302: once the line has stopped on a failed task, this  *)
(* phase sends no phase_request any more.                                  *)
(***************************************************************************)
NoRequestAfterTerminal ==
    driver.pc = "waiting" /\ stop = "terminal"
        => ~Holds(managerBox, Message("phase_request", driver.at))

(***************************************************************************)
(* projectRunner.ts:302: after a terminal stop the process leaves with the *)
(* status of the task recorded, also if the task ended by an exception.    *)
(***************************************************************************)
FailedTasksAreRecorded ==
    ~Up /\ status # "executing" /\ ~hasty
        => \A q \in Phases : ledger[q] = "failed" => row[q] = "failed"

(***************************************************************************)
(* developerTeamRunner.ts:173: what is left of a task that has ended is    *)
(* not carried into the next one.                                          *)
(***************************************************************************)
LeftoversStayOut ==
    line.pc = "item" /\ developerBox # <<>> => Head(developerBox).phase = line.task
=============================================================================
