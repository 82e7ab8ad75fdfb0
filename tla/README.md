# CrewForge: TLA+ models, model checks and proofs

CrewForge lets a team of language-model agents plan, write, test and deliver a
web application.  A Java server keeps the projects and starts one engine
process (TypeScript) per project; the engine runs the agents over a message bus
kept in memory; people watch, answer questions and press start and stop in a web
client.  What the models write is data.  What this directory is about is the
control around them: who waits for whom, what survives a crash, what is done
twice or never, who decides.

Sources are quoted relative to `src/`; `E/` stands for `agent/engine/`, `D/` for
`agent/engine/developerAgent/` and `J/` for
`backend/server/src/main/java/com/hina/crewforge/service/impl/`.

## 1. The system

### Components with control of their own

| Component | Source | State it keeps | Operations | Modelled by |
|---|---|---|---|---|
| Token gate | `E/concurrency.ts`, `E/settings.ts` | tokens in use, queue of resolvers, limit from the settings | acquire, release, refresh of the limit | `TokenGate` |
| Hub | `E/Hub.ts`, `E/BaseAgent.ts` | per name: box, busy flag, pending count, stored resolver | register, sendMessage, waitForMessage, markDone, message loop | `Mailbox`, `Hub` |
| Project manager | `E/manager.ts`, `E/pm-cli.ts`, `E/Node.ts` | a dialogue, the columns of the project | confirm functions, refine, plan, ask | `Manager` |
| Phase driver | `E/projectRunner.ts` | phase at hand, project status | findResumeIndex, drivePhases, settle, exit at a boundary | `PhaseRun` |
| Architect | `E/architect.ts`, `E/architectTaskBuilder.ts`, `D/architectAgent.ts` | a split coroutine per phase, checks and the dispatch ledger on disk | phase_plan, consult, confirm, bootstrap, decompose, two-step dispatch, phase_done | `PhaseRun`, `Split` |
| Maintainer | `E/maintainer.ts` | declared and concluded tasks of the phase | tasks_declared, developer terminals, convergence | `PhaseRun` |
| Developer line | `E/developerTeamRunner.ts`, `D/index.ts` | task at hand, batches arrived, the task's ledger, the stop signal | serve, resume, abort, close out | `PhaseRun`, `DeveloperTask` |
| Developer graph | `D/graph.ts`, `D/state.ts`, `D/escalation.ts` | status of the task and its items, repairs, questions | plan, code, rehearse, request a test, repair, escalate | `DeveloperGraph` |
| Tool loop | `D/graph.ts`, `D/tools/*.ts` | the files, what was read, cached results, calls planned and charged | a round of model and tools, dedup, experts | `ToolLoop` |
| Context | `D/contextBudget.ts`, `D/contextCompaction.ts` | the history and its size | thresholds, summary, retries, restoring | `Context` |
| Brake | `D/brake.ts`, `E/developerTeamRunner.ts` | wall clock, calls, question numbers | check, extend, pause, guide, stop | `Brake` |
| Consultation | `E/consult*.ts`, `D/index.ts` | question numbers, the receive in flight, revisions on file | ask a station, time out, answer late | `Consult` |
| Test engineer | `E/testEngineer.ts`, `E/testAgentAdapter.ts`, `agent/testAgent/src/verify.ts` | requests seen, checks on disk | load, translate, run, review, judge, deliver | `Acceptance` |
| Test agent | `agent/testAgent/src/*.ts` | permissions, dialogue, files touched, context | its own loop, ask, repair, measure | `TestAgent` |
| Child processes | `D/tools/processManager.ts`, `processTools.ts` | a record per process | start, run, watch, stop, clean up | `Processes` |
| Sandbox | `D/tools/processSandbox.ts`, `D/workspace.ts` | protected files and their snapshots | a command with its watch and its blame | `Sandbox` |
| Assistants | `D/tools/readonlySubAgent.ts`, `D/ledger.ts` | answers kept, snapshots of what was read | delegate, repeat, once per failure | `Assistants` |
| Rehearsal and probe | `E/contractProbeCore.ts`, `D/tools/runAcceptance.ts`, `D/regression.ts` | the service under test, the baseline | clean start, sign-in, preparations, assertions, report | `Probe` |
| Task rows | `E/task.ts`, `J/TaskServiceImpl.java` | `sys_task` | create, set a verdict, retry | `PhaseRun` |
| Delivery gate | `E/engine/run/finalGate.ts`, `completion.ts`, `E/engine/exec/verify/*.ts` | database, container and application of the check, papers | verify, clear away, report, settle | `Delivery` |
| Engine process control | `J/ProjectRunServiceImpl.java` | handles in memory, `sys_project_run`, watchdog threads | start, stop, reconcile, watchdog | `ProjectRun` |
| Confirm gate | `J/ConfirmServiceImpl.java`, `E/confirm.ts` | `sys_confirm` | ask, getAnswer, answer, sweep | `Decision`, `ConfirmGate` |
| Permission rules | `J/PermissionRuleServiceImpl.java`, `D/guardrails.ts` | standing rules, the mode | upsert, disable, remember, decide | `Rules` |
| Step ledger | `E/engine/run/scheduler.ts`, `store.ts` | the `step` table with leases | runSteps: register, take, look, claim, finish | `StepLedger` |
| Web client | `frontend/src/views/*.vue`, `composables/usePolling.ts`, `utils/json.ts` | what a page shows and what is being edited | poll, edit, save, answer | `Editors`, `Pages` |
| Older engineers | `E/backendEngineer.ts`, `E/frontendEngineer.ts`, `E/fileTools.ts` | two queues, files written, failures known | sketch, make files, write out, compile | `Engineers` |

`PROJECT.json` lists every component, those left out included, each with its
reason; section 7 sums them up.

### How they interact

- The agents of one engine call each other only through the **hub**; a handler
  is awaited, so an agent handles one message at a time, but the architect's
  split of a phase runs on after its handler has returned.
- The **manager's** plan is a column of the project: written turn by turn, edited
  by pages, and read by the next process that starts.
- The driver sends `phase_plan` to the architect; the architect declares the
  phase's task to the maintainer and sends a blueprint and then one batch per
  work item to the developer; the developer's terminal message goes to the
  maintainer, which writes the row, and answers the architect with `phase_done`;
  the architect asks the driver for the next phase with `phase_request`.  An
  unsuccessful task raises the **stop signal**, which races `phase_request`.
- Inside a task the driver runs the developer's **graph**; it suspends while it
  waits for a batch, the test engineer, a station or a person, and the driver
  serves messages and looks at the **brake** in between.
- The graph's work is the **tool loop**: it reads, writes, runs commands in the
  **sandbox** as **child processes**, asks **assistants**, rehearses contracts
  with the **probe**, and is cut to size by the **context** budget.
- An engine may leave at every phase boundary.  What the next one finds is in
  the database (rows, project status) and on disk (dispatch ledger, task
  ledgers); the messages are gone.
- The server's **reconciler** looks every 30 s for projects that should have an
  engine and have none; the start and stop buttons work on the same account row;
  every process has a watchdog thread with a deadline.
- Engines **ask people** through a row that they poll; the same row is answered
  by browsers and lapses by whoever finds it expired.
- Calls of models go through the **token gate**.

### What is hard

Interleavings of one thread's continuations (gate, hub, developer line, pages);
read-decide-write over a database row by several threads (reconciler against the
buttons) or processes (step ledger, confirm gate) or pages; durable records whose
message is volatile (dispatch ledger, questions of the brake and of a
consultation); the end of a process racing the accounting of why it ends;
timeouts racing late answers; what was read being stale when it is used (dedup,
cached results, assistants, plans on a page); and waiting for a message nobody is
going to send.  `PROJECT.json` lists each such hazard with its line and the
properties that cover it.

### What makes each part correct

| Part | Promise |
|---|---|
| Token gate | the counter is who is inside; no sleeper without a wake-up to come |
| Hub | every message is handed to its receiver exactly once, in order, whenever it registers |
| Phases | no phase is passed before its verdict is recorded; a project is done only with all phases ready; no blueprint is worked on twice; the process always ends |
| A task | ready only with every list of checks that was sent; no batch is lost; it ends whoever stays silent, if the architect sends its batches or takes them back |
| Tool loop | its budget is kept; "unchanged" is said only of what the model has seen, as far as time and size of a file tell |
| A test | a pass stands for the checks at hand that can be read, each run and green |
| Brake, consultation | every question is asked until answered and its answer used once; a reply is to its question |
| Child processes | what runs is known to run, or its record says that the kill did not reach all of it |
| Plan | a finished dialogue leaves a whole plan; a page leaves one the engine can use |
| Delivery | what a check has started and knows of it removes, whichever way it ended (a `docker run` that times out may leave a container nobody knows of, `runVerify.ts:221`) |
| Rules | an allowance takes no effect away from a denial it was checked against |
| Engine process control | at most one engine, unless a project is started twice and operations overlap; stopped stays stopped; restarts without progress are bounded; a due engine comes |
| Confirm gate | one decision per card, the same for all, never a permit by timeout |
| Step ledger | as long as no lease ends under the work: reports are true; a done step is not run again |


## 2. Modules

    Mailbox      <-- Hub          Hub implements Mailbox          (Hub_proofs)
    TokenGate                                                     (TokenGate_proofs)
    Decision     <-- ConfirmGate  ConfirmGate implements Decision (ConfirmGate_proofs)
    StepLedger                                                    (StepLedger_proofs)
    PhaseRun                      uses a bus as Mailbox promises it (PhaseRun_proofs)
    ProjectRun                    sees an engine from outside     (ProjectRun_proofs)
    DeveloperGraph <-- DeveloperTask      one task, its graph as operators
                                                                  (DeveloperTask_proofs)
    ToolLoop                      must keep the contract by which DeveloperGraph knows it

    MC_Workbench   ToolLoop  Processes  Context  Split  Acceptance
                   Brake  Consult  TestAgent  Sandbox  Assistants  Manager  Editors
                   Pages  Engineers  Delivery  Probe
                   Rules                                          (Workbench_proofs)

`MC_X.tla` instantiates `X` for TLC.  `MC_Workbench` instantiates the parts that
stand around a phase and never share a variable: which part runs is chosen in the
initial state, the variables of the others stay idle, and each property is of one
part.  Definitions whose comment begins with *Mutant* are faulty variants of the
definition that follows them; a run with the variant in its place must violate
the property it is listed with, which shows that the property depends on the code.

### TokenGate

State: `inUse`, the queue `waiters` of stored resolvers, the `setting`, and for
each caller whether it is out, queued, woken (its promise is resolved, its
continuation has not run) or inside.  `Acquire`, `Resume` and `Release` are the
three segments of `acquire` and `release`; between a `Release` that wakes and the
`Resume` anybody else may take the token, as in the code, and the woken caller
then queues again at the end.  `LimitUnder` is `limitOf` with its repair of
nonsense settings.  Bound: `MaxCalls` calls per caller.

### Mailbox, Hub

`Mailbox` is the promise: a queue per name, sending appends, handing out takes
the head.  `Hub` has one name's box, busy flag, pending count and stored
resolver, senders that may come before the receiver has registered (the code
makes box and account on demand), and receivers that poll, sleep, are woken and
mark messages done.  `WakeAgent` is the pair of `Hub.wait` and `Hub.set`: one
resolver is stored, a second wait overwrites it.  Messages are numbers, so that
order and loss can be told.  Bound: `MaxSent`.

### PhaseRun

One project over several engine processes.  Durable: `row`, `dispatched`,
`ledger`, `status`.  Volatile: four boxes, a `split` per phase, the maintainer's
fields, the row write its handler is awaiting (`writing`), the developer line and
the stop signal.  An action is one synchronous segment, or several between which
nothing visible to others changes.  `Start` is `runProject` up to the hand-over
(resume point, archiving of the old tree when there is no row yet); `Kill` and
`Exit` drop everything volatile.  A row is written by a query that looks and one
that writes (`task.ts:187`, `:211`), so either may cut off the write in flight:
`Kill` always, `Exit` because the driver waits for the boxes of maintainer and
architect, not for the handlers, and for 2 s at most (`waitQueuesDrained`,
`projectRunner.ts:476`; `SettleFailed`, which may go on at any time).  The history
`hasty` says that a process has gone on with one of these boxes not empty, or has
left under a write.  `FailSplit` records and tells what the handler of a split that
throws can, which is nothing when the file with the reason cannot be written.  The actions of driver, architect, maintainer and developer line
stand for the handlers `map` names.  `Faults` names what may go wrong, and the
module's header says what each name means.

Assumption `Winding`: a plan is not declared or refused between the end of a task
and the end of its clean-up (seconds against the minutes of model calls a plan
takes), nor while the process leaves after the stop signal.

What happens inside the architect's split is `Split`, inside a task
`DeveloperTask`; here both are the messages they send.  The copy of
`developer_blocked` to the architect, which handles it in no way, is left out.

### ProjectRun

One project and its server.  `account` is the row of `sys_project_run`.  Each request
to start or stop runs on a thread of its own (`clerk`), so that two of them and the
reconciler may be under way together; every thread reads the row whole, keeps a copy
and writes it back whole, and each database access is a step.  `held` is the process
handle in the server's map, `alive` what the operating system has, so that handle, row
and reality can disagree; a handle is removed by whoever saw one, whichever it is by
then (`Count`).  Time is counted in spawns, which is what `hasTaskProgressSince`
compares.  A launch may fail (`LaunchFails`, `LaunchAgainFails`), and a start whose
accesses throw destroys the process it has launched (`TakeBack`).  Engines may end,
hang, ask a question, make progress at any time.  Two histories: `met`, two operations
have been under way at a time, and `barren`, the spawns without progress.  Faults:
`overlap` (requests and reconciler at the same time), `restart` (the server restarts
between operations), `crash` (at any point).  Bounds: `MaxStarts` and `MaxStops` uses of
the buttons, `MaxProgress`, `MaxSpawns`.  Left out: the errors of the database outside
the `try` of `start`, which leave a thread as a crash does.

### Decision, ConfirmGate

`Decision` is the promise: something is decided once, and whoever learns learns
that.  `ConfirmGate` is one card: engines that look for the questionId, insert
(a duplicate key takes the card as it is) and poll; a poll that finds the card
late lets it lapse by a conditional update and reads again; people whose answer
is checked and then written by a conditional update, with the standing rule as a
second statement; sweeps.  A question lapses to its first option or the empty
text, a permission to a denial.  Engines may die while they poll.

### StepLedger

`runSteps` in several processes over one table.  A process registers its steps,
and its loops (they share a thread: `ThreadFree`) take the next step, look for a
cached result, claim the row by a conditional update under a lease, run the body
and finish.  Leases end (`Expire`), processes die and start again with the same or
a changed input.  `finish` writes by id alone and leaves the hash of the first
registration, as the code does.  Left out: attempts, worker ids, slice states,
events and the list of reclaimed steps, which nothing here reads.  A lease is 60 s
from the claim unless the caller sets it, and nobody renews it (`scheduler.ts:47`), so it may end under the
work; the history variable `overrun` keeps the steps it did so for.  The
properties are about the other steps: without that exception each of them fails,
for the late `finish` of the first worker writes over the row of the second.

### DeveloperGraph, DeveloperTask

`DeveloperGraph` has no variables: a run's state is a record, each node of the
graph an operator from a state to the states it may leave, with the next node in
it, and the edges' conditions as they are evaluated in order.  A list of checks is
the set of its sources (blueprint, batch of item i), which is what its hash tells
apart.  The tool loop in it is an operator that says how many calls it may have
charged and how it may have ended.  `DeveloperTask` lets the graph run a node per
step beside the driver (which waits for the invocation, a message, a timer), the
architect who sends batches or withdraws them (`SplitFails`), or whose split breaks off
without a word since a file cannot be written (`SplitBreaks`: the exception of
`architectTaskBuilder.ts:1180` or `:1225` passes by `cancelDeveloper`), the test engineer, a
station that is consulted, the person who answers, the deadline of a test wait and
the brake's wall clock.  A message is parked until the ledger's status has a use
for it.  Bounds: `MaxBrakes`, `MaxConsults`, and `HardCalls`, which is the code's.

### ToolLoop

A round is a context guard, a call of the model and one tool call, with the
file's text and time stamp beside what the loop remembers of it (`memo`), results
kept under a fingerprint (`cache`), and what was spent on experts.  A command
may leave another text under the time stamp the file had (`cp -p`, `touch -r`, or a
write within one tick of the clock): the history `sly` says that it has.  Its
contract with `DeveloperGraph` is the property `LoopKeepsContract`, whose right
hand side is that module's operator; so what `DeveloperTask` checks about tasks
does not rest on a looser loop than the code's.

### Context, Assistants, Consult, Brake

`Context`: a history of entries with sizes, the lines at which it is summarised or
refused, the retries that cut its head off, the breaker kept in the ledger.
`Assistants`: read-only helpers at work together with the developer's own writes;
an analysis is claimed by a row and reused while the hash of the sources is the
same.  The hash is of paths and times below the task's roots, six levels and 4000
entries deep, without `node_modules`, `dist` and the like (`workspace.ts:469-471`,
`processSandbox.ts:320-358`), while a helper reads the project: an edit may change what
there is and leave the hash as it was, and the history `blurred` keeps the hashes that
have stood for more than one state.  `Consult`: one consultation at a time, time-outs, answers that come late or
to an earlier question, over restarts.  The four stations answer each in their own
way: test engineer and maintainer from what they hold, architect and project
manager by a model, with amendments of the plan (at most two) and of the clarified
requirements (one), which are kept in memory, on file, or both.  `Brake`:
time and calls against soft and hard limits; questions whose number follows from
the ledger; processes that end with a question open; an attended and an unattended
project.

### Split, Acceptance, Manager

`Split`: the graph of the architect's nodes run anew at each answer, what is on
disk of a phase, the two-step dispatch, the fallbacks, kills.  `Acceptance`: what
the test engineer does with a request, from repeated tickets to its verdict; the
process that tests may die, hang, answer for another request or claim more than
its evidence bears out.  A file of checks that cannot be read is passed over, by whoever
reads it: one batch alone, or the list, with which the comparison of hashes is left
out (`testEngineer.ts:297-302`, `developerTeamRunner.ts:988-992`).  `Manager`: a dialogue of turns that confirm, refine and
plan; which columns are written when; calls of models that fail; the dialogue at a
terminal, which refines once.

### TestAgent, Sandbox, Processes, Probe

`TestAgent`: loops of model and tools behind three gates (mode, rule, dialogue),
with a person who allows once, always or not; repairs measured by a command.
`Sandbox`: what is guarded, looked at before, between and after a command, while
services and other processes write too.  A look is a walk four levels and 4000 entries
deep, past `node_modules`, `dist`, `target`, `build`, `.venv` and `__pycache__` and past
the task's own roots, and compares times: `conceal` is a write it does not notice, off
the walk or with the time put back.  `Processes`: the manager's records beside
what the operating system runs; an own end races a stop, timers fire at any time, and a
kill reaches a process with its descendants, the process alone, or nothing, which the
record then says.
`Probe`: a service started on clean data (or on data that could not be removed),
sign-in, preparations, assertions, retries on other ports, and the baseline of the
rehearsal before.

### Editors, Pages

`Editors`: two pages that edit columns the engine writes too; a page knows what it
read, and saves what it makes of it.  `Pages`: requests on their way answered in
any order, timers set after awaited calls, pages that are left half set up.

### Delivery, Rules, Engineers

`Delivery`: what the final check starts, what it owes at its end, the papers it
leaves and the row it settles.  `Rules`: rules by content and source with a rank,
the decision, and the writing of a rule in its three queries (the shadow check, the look
for a row, the insert or update), between which other requests may write, as there is no
transaction (`PermissionRuleServiceImpl.java:94`, `:103`, `:114`, `:119`).  Which pattern fits
which command is a constant.  `Engineers`: the two queues of the older engineers,
which nothing creates at present; modelled since the compile loop and the claims
of files are theirs.

## 3. Runs

| Run | What it shows | Bounds, and why they are enough |
|---|---|---|
| `token_gate` | `Accounting`, `NoLostWakeup`; every sleeper gets in (`QueuedGetsIn`) | four callers of two calls, limits 1 to 3: one more caller than tokens with somebody queued behind a woken one, and a limit that moves both ways at any time |
| `hub` | `ImplementsMailbox`, `EveryMessageArrives` | one receiver, twelve messages: box states repeat after three, the rest is margin; one loop per name is what the agents have |
| `phase_run` | `EarlierPhasesRecorded`, `DoneMeansAllReady`, `TasksArriveFresh` | two phases of two items, so that a first and a last one differ and a crash falls between any two sends; three processes in both process modes; every fault but refused plans and lost writes, each of which leaves a phase without a verdict by intent |
| `phase_live` | `SomebodyWillAct`, `EndedTasksAreRecorded` (of a process that was not `hasty`), `EveryRunEnds` | two phases of three items in one process; giving up, exceptions, human stops, refused plans.  Kills, pauses and failed splits are excluded: after each the next process waits for what was dispatched already, see `PausedTaskIsTakenUp` below |
| `project_run` | `SecondEngineIsRaced`, `DueEngineComes`, `EveryEngineEnds` | two clerks and the reconciler at the same time, two starts, one stop, server restarts, a fuse of one, one process with progress, three spawns: enough for two starts that meet, a start that meets the reconciler, and one that comes when all is over, with a restart before or after.  What the fuse does beyond one restart is proved |
| `project_stop` | **violated** `StoppedStaysDown` | overlap alone, two clerks, two stops, a fuse of two |
| `confirm` | `PermitsComeFromPeople`, `ImplementsDecision`, `AskersAreServed` | two engines, two people, one sweep, both kinds of card: every pair of writers meets |
| `ledger` | `ReportsAreTrue`, `VerifiedIsNotRunAgain` | two processes of one loop over two steps and two inputs: a race between processes, with a dead one, and leases that end at any time |
| `dev_task` | `ReadyMeansChecked`, `NoBatchIsLost`, `Settles` (but for a batch that a broken split owes) | two items, so that one can be missing, dropped, late, withdrawn or cut off while the other is checked; three calls that one extension raises to the most; one consultation; one repair, and every ending of a test |
| `dev_stale` | **violated** `VerdictIsForThisRequest` | the same |
| `workbench` | one or two properties for each part (table below) | 2.2 million states in all, per part as in the table |
| `leave` | **violated** `YesBeginsWork` | `Split` as in `workbench` |

| Part of `workbench` | Property | Bounds |
|---|---|---|
| `ToolLoop` | `LoopKeepsContract`, `StubsAreTrue` | two texts of one length, commands that keep the stamp or not, two steps in two loops, one expert.  With three steps, a budget of three and two further calls (9.1 million states) the same |
| `Processes` | `NothingRunsUnseen` | three children, begun in their order, two at a time; every kill may fail |
| `Context` | `PairsStayTogether` | five entries of two sizes, around a window of 60 or 90: every line is passed |
| `Split` | `OneDeclaration` | two phases of two pieces, one topic to ask about, one kill anywhere.  With two topics (626,000 states) the same |
| `Acceptance` | `PassIsEarned` | two checks of which any may be unreadable, two requests, one of them twice |
| `Brake` | `QuestionsInTurn` | three processes, three questions, three units beyond the limits |
| `Consult` | `RepliesFit` | three stations with a question each, three consultations, one restart.  With four consultations (237,000 states) the same |
| `TestAgent` | `NothingWithoutLeave` | three iterations, two lines typed; every kind of call behind every gate |
| `Sandbox` | `GreenIsClean` | two commands or services, one write of what is guarded by whoever, noticed or concealed, and removals at any time |
| `Assistants` | `RepeatedIsCurrent` | two helpers at once, two failures, two facts of which the hash covers one, one edit that the hash tells of and one it does not, two processes |
| `Manager` | `FinalPlanIsWhole` | two functions, one answer, two processes |
| `Editors` | `PlanStaysUsable` | two phases, three moves of a person beside the engine |
| `Pages` | `GoneIsLeftAlone` | six pages, two cards, one file, two requests on their way.  With two files (259,000 states) the same |
| `Engineers` | `EveryTaskIsReportedOnce` | two tasks, one file shared, one sent back |
| `Delivery` | `NothingIsForgotten` | two starts |
| `Probe` | `NoPassUnprepared` | every kind of check, two tries.  With two rehearsals and one rework (510,000 states) the same |
| `Rules` | `AllowSparesDenies` | three patterns of which one covers the others, two commands, two writings that may be under way together |

The modules state more that holds on these very instances; add it to the
configuration to check it, here it is either proved (section 5) or the lesser of two
promises: every `TypeOK` (that of `MC_Workbench` is the parts' together);
`InsideAtMostLargest`; `AccountMatchesBox`, `SleeperCanBeWoken`,
`ExactlyOnceInOrder`; `FuseHolds`; `EnginesAgree`, `RuleOnlyIfDecided`,
`SettledForGood`; `OneAtATime`, `BudgetHolds`; and of the workbench
`ExpertsAreAskedOnce`, `BreakerHolds`, `PiecesDoNotCollide`, `OneAnswerPerRequest`,
`MeasuredNotClaimed`, `OneReprieve`, `OncePerFailure`, all seven of them proved.

Deadlock is not checked where a system may rest: all calls made, all messages
handled, the project settled, the card decided.  The other modules either have no
such state or have a step that says the part rests.

### Fairness

- `TokenGate`, `Hub`: a continuation whose promise is resolved runs, and a caller
  or handler that holds something comes back: the code releases in `finally` and
  the work has time limits of its own.  No fairness of newcomers or senders.
- `PhaseRun`: ready continuations run, coroutines and invocations come to an end
  (calls of models are bounded in number and time), the test wait has a limit,
  and the reconciler starts what is executing.  No fault is fair.
- `ProjectRun`: the reconciler is scheduled every 30 s, threads go on, watchdogs
  fire, questions expire, and a program that is launched again and again is started at
  last (strong fairness of `LaunchAgain`): a missing program is no fault of the control.
  Engines owe nothing.  `EveryEngineEnds` is under the condition that questions stop
  being asked, since each one prolongs the deadline.
- `ConfirmGate`: time passes a card's end, and an engine polls.  People owe
  nothing.
- `StepLedger`: a living process goes on and a step's body returns.  Leases need
  not end, since nobody waits for one.
- `DeveloperTask`: the invocation, the driver and the architect go on, and the two
  clocks run.  The tester, the station and the person owe nothing: that a task ends
  although none of them ever answers is what `Settles` says.

## 4. What the code does otherwise than it says

Listed in `PROJECT.json` and part of the runs:

- **`project_stop`.**  `stop` kills the engine before it writes the account
  (`ProjectRunServiceImpl.java:138-147`).  `reconcileOne` finds the engine dead, reads
  the account, which still says running, and writes the whole row back after the stop
  has written its own (`:226`): the stop is undone, and the engine started again
  (`:230`), with no start under way.
- **`dev_stale`.**  All test requests of a task carry one id.  A message that a
  timed-out consultation set aside is dispatched too; after a repair the copy is
  found again and an old verdict is taken for the answer to a new request.
- **`leave`.**  The leave to begin is cleared before the gate that reads it: in the
  modes with confirmation a person who says yes is asked again until the phase is
  declared empty.

More counterexamples, each of a sentence in the source that the code does not
keep.  For the parts of the workbench, leave one property of
`MC_Workbench_not.cfg` in place and run `tlc -config MC_Workbench_not.cfg
MC_Workbench.tla`:

| Part | Property | What the code does |
|---|---|---|
| `ToolLoop` | `WriteTakesEffect` | a repeated write is answered from the kept result although the file has changed since (`D/graph.ts:554`) |
| | `EveryStubIsTrue` | "unchanged" is said by size and time, which a command may have left as they were (`D/tools/readDedup.ts:63-78`) |
| | `OnlyWritesAreChanges` | commands count as changes of files, so a repair that changed nothing is not recognised (`D/graph.ts:2419`, `:1146`) |
| `Processes` | `NothingOutlivesTheTask` | with `Ghosts`: a tool still at work when the task is closed starts a process after the clean-up (`D/index.ts:1341`) |
| | `KillsAreReal` | a child whose kill failed is recorded as killed, though with the method `none` (`D/tools/processManager.ts:366`) |
| `Context` | `ChainsAreKept` | the first round cut from too long a history is the summary of all before (`D/contextBudget.ts:241`) |
| `Split` | `AnswersFitQuestions` | the answer stands beside another question in the history (`E/architect.ts:811`) |
| | `IdsAreUnique` | ids that occur twice in one batch pass (`D/architectAgent.ts:459`) |
| `Acceptance` | `AnsweredOrOverdue` | what a person must look at is answered to nobody, and a request with fewer checks than are on disk is dropped; the developer waits it out |
| | `PassCoversAll` | checks in a file that cannot be read are no part of the list, of the developer's or the tester's (`E/developerTeamRunner.ts:988-992`) |
| `Brake` | `ExtensionBuysWork` | at the ceiling, and after a restart, whose budget starts over while the calls go on, the extended limit may lie below what is spent (`D/brake.ts:168`) |
| | `BrakeDoesNotKill` | its deadline during a test wait blocks the task without a question (`E/developerTeamRunner.ts:568-591`) |
| | `EndedMeansStopping` | after the end a person wanted the process goes on, and so it does when a later process meets an ended task (`:470`, `:496-499`) |
| | `GuidanceIsHeard` | what a person wrote beside an answer is added only to a task that is begun, not to one that goes on (`D/brake.ts:590`) |
| `Consult` | `RepliesFitForever` | after a restart the counter starts at the number of requests, and a question answered from the ledger takes an id without a request, so a later question meets that reply under its id (`D/index.ts:431`) |
| | `InForceIsOnFile`, `FileIsKnown` | after a restart the list of revisions is begun anew and written over the file (`E/consultStation.ts:399`), and a file of clarified requirements that cannot be read is written over; a reply that comes late is on file and never read |
| `TestAgent` | `DisciplineCanBeRead` | the agent's own discipline lies outside of the project, so reading it is refused (`main.ts:180`, `:205`) |
| | `EveryQuestionIsPut` | of two questions at once the second is never answered (`index.ts:245-266`) |
| | `PassIsMeasured` | in automatic mode a pass is what the model says |
| | `ChangedFilesAreTrue` | an edit is reported before it is tried, and what a command writes is not reported (`main.ts:65`) |
| | `RemindedOnce` | with `Iterations = 5`: the reminder comes again (`main.ts:147`, `:162`) |
| `Sandbox` | `GreenHasNotWritten` | a write outside of what the look walks through, or with the time put back, is not seen (`D/workspace.ts:484-490`, `D/tools/processSandbox.ts:320-358`) |
| | `RemovalIsSeen`, `BlameIsJust`, `IsolationIsReal` | only what is there afterwards is compared, so a removal is not seen; whoever writes, the command at work is ended; with the settings for a container processes are begun on this machine (`D/tools/processSandbox.ts:219`) |
| `Assistants` | `FirstIsCurrent`, `HashIsExact`, `LabelsAreTrue` | sources may change between two looks of an analysis; the contract, what is skipped or too deep, and what keeps its time are no part of what is hashed; the failure the tester reports stands for every question, and the role is written over |
| `Manager` | `OnlyFinalPlansAreBuilt` | each turn writes a plan, and a process that starts then builds it (`E/Node.ts:183`) |
| | `ConfirmedAreListed` | the next turn writes its own functions only (`E/manager.ts:388`) |
| | `AnswersAreToTheQuestion` | cards bear the same names in every process (`E/projectRunner.ts:413-416`) |
| | `EveryFunctionIsPlanned` | refinement may drop one (`E/manager.ts:199`) |
| `Editors` | `AddedStays`, `DetailsSurvive`, `StackSurvives`, `GoalsStay`, `NumbersAreUnique`, `TheDeadAreFound` | what a page loses of what the engine or a person wrote (`CreateProjectView.vue:171`, `:179`, `utils/json.ts:121`, `:268`, `E/Node.ts:179-181`) |
| `Pages` | `EveryPageIsQuiet`, `LeftIsLeftAlone` | two pages go on asking for a project that is gone, and a page left while being set up polls for ever (`usePolling.ts:6`) |
| | `TextIsForTheCard`, `AnsweredStaysAway`, `ContentIsOfTheFile`, `EditsAreKept`, `TasksGoForward` | answers in another order than the requests (`ExecutionView.vue:183`, `:697`) |
| `Engineers` | `FailureLeavesNoTrace`, `EngineFilesAreKept`, `OneWriterPerFile`, `PatchesFitTheFile` | a task that fails has written already; claims of files are not asked for |
| `Delivery` | `CleanedIsTrue`, `PapersAreOfTheLastRun`, `ShownAsPassed`, `FailedMeansAtFault`, `SettledIsWritten` | a removal that failed counts as done (`runVerify.ts:139-141`); papers of an earlier run are shown; a failure of the host is called one of the code (`finalGate.ts:25-30`) |
| `Probe` | `GreenMeansAllRan`, `FailedAreListed`, `BrokenIsNamed`, `StartIsClean`, `OwnIsJudged`, `NothingIsLeft` | some need three rehearsals and two reworks: a green report with checks that could not be run, data of an earlier try, and a service of an earlier probe that answers |
| `Rules` | `DeniesHaveEffect`, `DeniedIsNotRun` | a denial that is written beside a standing allowance of a higher rank is not checked against it, and no caller of the engine asks the rules |
| | `NoneIsShadowed` | a denial that is written between the check of an allowance and its insert is shadowed by it (`PermissionRuleServiceImpl.java:94`, `:114`) |

Two configurations of the same kind lie beside the runs:

| Configuration | Property | What it shows |
|---|---|---|
| `MC_PhaseRun_pause` | `PausedTaskIsTakenUp` | the dispatch ledger remembers what was sent and the bus does not: after a pause the blueprint is skipped, the line gets nothing, the process waits (`E/architectTaskBuilder.ts:1118`) |
| `MC_DeveloperTask_unseeded` | `ReadyCoversEveryBatch` | a batch that was never sent is not waited for (`D/index.ts:156` against `E/developerTeamRunner.ts:453`) |

Met while modelling, and not kept as configurations: a raised limit wakes nobody
(`E/concurrency.ts:12`); a second wait on a name overwrites the resolver of the
first (`E/Hub.ts:45`); `phase_request` may come after a task has failed
(`E/projectRunner.ts:302`); what is sent after the drain reaches the next task
(`E/developerTeamRunner.ts:173`); a task that has ended is given another end
(`D/index.ts:1195` against `TerminalIsFinal` of `DeveloperTask`); a worker whose lease has
ended writes over its successor; the hash of a first registration stays beside the
result of another input.

Of `ProjectRun` (`OneEngine`, `OrphansEndToo`): two starts at once, or a second start
beside the reconciler, make two engines, since the check of a start and its launch are
two steps (`ProjectRunServiceImpl.java:81-88`); a server that dies between launch and the
write of the pid leaves an engine nobody knows; an engine that hangs over a restart of the
server has no watchdog; when a launch fails after progress, the count is set to zero at
each further try, and the fuse does not burn.

Of `PhaseRun` (`EndedTasksAreRecordedAlways`): a process that leaves too
early loses the failure of a task for the table: `waitQueuesDrained` gives up after 2 s
(`E/projectRunner.ts:476`), and the exit may come between the two queries of the write
(`E/task.ts:187`, `:211`).

Of `DeveloperTask` (`SettlesAlways`): "a cancellation must arrive unconditionally", says
`E/architectTaskBuilder.ts:1144`, but the exception of a file that cannot be written
(`:1180`, `:1225`) passes by `cancelDeveloper`, and the task waits for a batch that
nobody is going to send.

## 5. Proofs

Checked by TLAPS for every value of the constants, from the named assumptions of
each module only.  Each theorem has the same shape: an inductive invariant, one
step per action and under it one per conjunct the action can disturb, and a last
temporal step.

**TokenGate** (`CallersFinite`, `LimitBounds`: finitely many callers, and the limits are natural numbers, the smallest
at least 1).  `TokensAreCallersInside`, `WakeupsAreNotLost`, `InsideIsBounded`.
`NoLostWakeup` is not inductive without the accounting: a release lowers the
count of those inside and raises that of the woken, so the sum must be of two
disjoint sets whose cardinalities are the counter and the woken callers, and the
queue must hold each sleeper once, or a wake-up would hit somebody already awake.

**Hub**.  `AccountsMatchBoxes`, `SleepersCanBeWoken`, `HubImplementsMailbox`, for
any number of messages and one receiver.  The invariant ties what is handed out,
what is in hand and what lies in the box to what was sent, and says that a
receiver asleep beside a full box has its resolver stored with a wake-up due.

**ConfirmGate** (`ConfirmGateConstants`: rulings are not texts of answers).
`GateTyped`, `CardsSettleForGood`, `AllEnginesAgree`, `OnlyPeoplePermit`,
`RulesAreDecided`, `GateImplementsDecision`.  The invariant: a card has a decision
exactly when it is settled; what an engine has got is the card's; the decision is
one the card's kind allows; a rule is there only on a card decided so.

**StepLedger** (`StepLedgerConstants`).  `LedgerTyped` and `BudgetRespected` are
about every step; `WorkIsExclusive`, `DoneForGood` and `TrueReports` about those
whose lease has not ended under the work (`overrun`).  `Aimed` says that a loop past the top has a step of the list,
which no other loop of its process has; `Held` that a step at work is running
under a live lease unless it is overrun; `BudgetKept` counts what is executed and at work together,
which is below the budget plus the loops: the bound on the executed steps alone
is not inductive.

**ProjectRun**, for any number of clerks, starts, stops and spawns and any fuse.
`NeverTwoEngines` (`SecondEngineIsRaced`) and `FuseIsKept` (`FuseHolds`) let start, stop,
reconciler and restarts of the server interleave in any way, as long as the server does
not die within an operation (`"crash"` is not in `Faults`).  Both exclude the case in
which the code has two engines: a project started twice whose operations have met.  What
is left is a union of two, and each has an inductive invariant of its own.

- No operations have met (`~met`), however often the project is started.  `Serial`: one
  thread at work.  `Current`: what a thread has read of the account is still so.
  `Known`: whoever runs is the one the account names, except in the steps after a
  launch, when the thread that launched it knows its number; a handle names it too.
  `Fuse`: the count in the account is at most one behind the spawns without progress,
  which alone is what the code's comparison of time stamps can be relied on for.
- One start (`starts <= 1`), whatever meets.  `Serial` and `Current` do not hold then,
  since a stop and the reconciler each write back an account the other has changed.  In
  their place: `Once`, the reconciler has nothing to do until the one start is over, so
  of the two only one launches; `Latest`, only the last engine may live, and whenever a
  running account does not name it the reconciler is about to enter it; `Charge`, the
  count of restarts is at most one behind in the account or in the copy the reconciler
  is going to write.

`StoppedIsDown` (`StoppedStaysDown`) needs operations one after the other (`"overlap"` is
not in `Faults`; with it the property is false, see `project_stop`) but lets the server
crash at any point: `Current` for the threads a crash has left.

**PhaseRun** (`PhaseRunConstants`), for any number of phases, items and processes.
`PhaseTyped`, `PhaseCourse` and `TasksFresh` hold whatever fails.  `TasksFresh`
rests on `SentInv`: who has a ledger at the developer, or is in its box, or is
being worked at, was entered as dispatched before, and what is in the box has no
ledger yet; the dispatch ledger is read before a blueprint is sent, so two
processes never send one.  `PhasesRecorded` and `DoneIsReady` need more, since
"behind the driver everything is recorded" is not inductive: one has to know where
the verdict is on its way.  `Course` says so: the work on the driver's task is in
one place (a split about to send, the developer's box, the line), and the phase is
in one of three states: `Quiet` (not declared, or over), `Refused`, or `Declared`,
and then the terminal message is still to come, in the maintainer's box behind the
declaration, or being written.  Which message may stand at which place of which box
follows, and with it that `phase_done` is only sent with the row written.  The
hypothesis `Reliable` (no plan refused, no write lost) is what `phase_run` assumes
too: the code goes on without a verdict in those two cases, and means to.

`EndsRecorded` (`EndedTasksAreRecorded`) is over all processes, under `Calm`: nothing is
killed, no split and no write of a row fails, no failed row is set back (each of the four
makes it false: the ledger of the developer is then ahead of the row for good, or names a
task that is being done again).  `EndInv` follows a failure on its way: what is given up is
in the row, or the maintainer has it in its box, or is writing it; that the write finds an
open row rests on the same account as above.  A process that leaves and was not `hasty` has
nothing on its way, since after a terminal stop the boxes were drained and the write done, and
after a pause, or at the end of the last phase, nothing was told (`Heard`, `Still`).  The
exception is the code's: it waits for 2 s, and for the boxes alone.

`SomebodyActs` (`SomebodyWillAct`) is about the first process (`runs <= 1`) with any
faults but failing splits.  A later process after a kill or a pause may well wait for what
an earlier one has sent (`PausedTaskIsTakenUp`), and a split that fails while it plans
tells nobody, so there the claim is false.  `ActInv`
has three parts beside `Course`.  `Keys`: the dispatch ledger holds nothing that has still
to be sent, so no item is skipped.  `Supply`: a batch the line has not had is going to be
sent or lies in the box, behind the blueprint if that is there.  `Moves`: while the driver
waits and no stop is up, a phase not declared is to be planned, planned or requested, and
a maintainer that waits for a verdict waits for a task at work, or for one whose exception
was not reported (`Throw` after the first item) and whose end will stop the process.

**DeveloperTask** (`GraphConstants`, `TaskConstants`), for any number of items and
any budgets.  `DeveloperCourse` is the inductive invariant, four parts of which are
needed together.  `RunInv` is about the run alone: batches are merged in their
order, no item but the first is done without its batch, and a run that is past its
batches waits for one, is out of calls, or has ended; so whoever asks for a test
has every batch.  `Stand` relates the driver's line to the invocation, `MailInv`
says of everything in a box, parked, or in the run's hand that it is true of what
was sent and, of results, that they cover the list of checks: that is why a result
set aside by an earlier consultation cannot make a task ready with a list too short,
although it may be of an older request (`dev_stale`).  `KeptInv` follows each batch
from hand to hand, which gives `BatchesKept`; `VerdictInv` carries the passed result
from the test to the ledger, which gives `ReadyIsChecked`.  The latter is for two
items or more: with one item the run needs no batch, and is ready with the
blueprint's checks alone (`MC_DeveloperTask_unseeded`).  `DeveloperTyped` adds that an
answer bears the number of a request that was made.

**The workbench**, in one module, a part at a time.  Where a part is not at work its variables stay as they began, so its invariant holds there.
What each invariant adds to its property:

| Theorem | What had to be added, and why |
|---|---|
| `SeenRunning` | a stop whose record is not yet written has taken effect, without which "killed" might be written over a process that runs; the limit holds of what is believed to run.  Nothing is assumed of kills: whom one did not reach with all descendants the record names, and only those are excepted |
| `DeliveryTyped`, `NothingForgotten` | for each place of the check, what runs is lost for good or is known and going to be removed (`AllKnown`); that the application of this start is not lost meanwhile rests on the numbers of the starts |
| `RulesTyped`, `DenialsAreSpared` | a request carries the denials that its check has read, none of which its allowance shadows, through the look and the write, whatever is written meanwhile (`Passed`, `UpsertSpares`); a denial it did not read is not covered, see `NoneIsShadowed` of `MC_Workbench_not.cfg` |
| `ReportedOnce` | a task has been sent as often as it was reported, plus one if it is queued, at work or with the compiler (`Balanced`) |
| `RepliesToTheQuestion` | before a restart no id in use is above the counter, and request and reply under the awaited id are of the awaited question (`OwnIds`) |
| `AnswersAreUsedOnce` | the extensions in the ledger are 1 to the number granted, no question is put beyond the next one, and a pause names the round after its extensions, so a process that takes up an old pause asks an answered question only to pass it |
| `PassesAreEarned` | a request's hash is of no more checks than were translated for it, at each stage of its round, and the round knows which of them it could not read (`RoundIsWhole`) |
| `OneAnswerEach` | the request at work is marked as seen and has no answer yet, and nothing that is not marked has one, so a copy is turned away at every stage of its original |
| `DeclaredOnce` | the empty declaration is made only on a settled phase that has no other, and once declared the split is past its nodes or has noted that it sent |
| `PiecesKeepApart` | outside the start of a phase the thread stands at one of the pieces that are on disk, so what a new piece is compared with (what was delivered before the thread's place) is all of them |
| `GreenCommands` | a write of the command itself that a look can notice lies after the snapshot it is compared with, and a timeout is the cause only of a late command |
| `RepeatedAnswers` | a helper at work has seen, and a row that is done holds, what is found on the sources as they were at the row's snapshot; as long as that is the current one, and its hash has not come to stand for another state, nothing has been left out |
| `FailuresAreSeenOnce` | an analysis was begun exactly for the failures with a row, a helper at work has one, and there are finitely many, at most as many as a task may ask for |
| `PlansAreWhole` | the tasks in the graph are those refined in the dialogue, and a plan with the flag up is of these tasks and says how the pages are to be (`PlanIsFresh`) |
| `PlansRemainUsable` | the phases of a plan, in the column and on the page, have numbers all or none (`Uniform`), whatever was added, taken away and moved |
| `ToldPagesAreQuiet` | a dialogue or panel that was told has no timer, and never had a vain request after it was told |
| `LeaveIsGiven` | each mind is `Sound`: a call about to act is cleared, a call that is asked about is of the kind one asks about, and a rule is trusted only once somebody allowed for good |
| `RepairsAreMeasured` | before the end there is no result |
| `ReprievedOnce` | a loop has its budget or, once marked as reprieved, the raised one, at every place it can be at (`Budgeted`) |
| `PassesArePrepared` | at each position of a try what was accepted and named is exactly what the steps behind it give, and it has a verdict only when over (`Prepared`) |
| `StubsTellTheTruth` | the stamp of the file as it is now counts as read only if the text last shown is the file's, or a command has changed it under its stamp |
| `LoopsFitTheGraph` | calls charged, planned and heard go together in each of the loop's positions; experts are paid from the extras |
| `ExpertsAskedOnce` | no row, nothing begun; a row keeps a status whatever its expert came to, so a crash or a failure opens no second call |
| `PairsAreKept` | what was given to be summarised has every result right behind its call (`Beside`), a stronger claim than that both are there, since it survives every cut that does not begin with a result; calls have ids of their own, or a tail could take another's call for its result's |
| `BreakerIsKept` | while a summary is being made there is room for one more failure, whatever loops and processes have ended meanwhile |

`PairsAreKept` is about sequences of any length that a function puts together piece by
piece (`FlattenSeq` of the messages of each entry), so it is proved by induction.  The
induction theorems of the library take an operator and cannot be used, but the least
element of a non-empty set of numbers follows from the well-foundedness of `<` on `Nat`
(`LeastNumber`), and from it induction over a *set* of numbers (`Induct`), which needs no
operator.  With it: the function that joins pieces exists for any number of them
(`Joins`, `FlattenJoins`), each call's result stands behind it in the messages of any
history (`HistoryBeside`), a finite set of numbers has a member of every rank
(`Ranked`, for the rounds that are dropped) and a greatest one (`GreatestNumber`, for the
last boundary).

Only model-checked is what is liveness (`QueuedGetsIn`, `EveryMessageArrives`,
`EveryRunEnds`, `DueEngineComes`, `EveryEngineEnds`, `AskersAreServed`, `Settles`): TLAPS
proves neither liveness from fairness nor `ENABLED`.

## 6. Plan

Done, in this order: `TokenGate`, `Mailbox`/`Hub`, `PhaseRun`, `ProjectRun`,
`Decision`/`ConfirmGate`, `StepLedger`, `DeveloperGraph`/`DeveloperTask`, the parts
of the workbench, with the proofs of section 5.

Next, by importance:

1. `PhaseRun` over several processes with the late write of `saveArchitectOutput`
   and without `Winding`.
2. `Split` composed with `PhaseRun`, so that the messages `PhaseRun` allows the
   architect are those `Split` sends, as `LoopKeepsContract` does for the tool loop.

## 7. Not modelled

| Part | Why |
|---|---|
| Contract and scenario IR, checkers | functions over parsed documents: schemas, normal forms and rules on text, with no state; what they find is a choice where a caller decides on it |
| Foundation, scaffolds and stacks | files copied from templates, and tables of versions |
| Environment probe | calls of the host's tools and what they print; its outcome is a choice in `Delivery` and `Sandbox` |
| Live runners | scripts that drive the same classes by hand against real models |
| Settings service | one row read and written whole; what matters of it (a limit that changes at any time) is in `TokenGate` |
| Projects, agents and pools | plain rows with forms |
| Files and login | reading a tree and checking a token |

Within modelled parts, and named there: prompts, wording of reports, parsing of
models' answers, classification of compiler output, styling of pages, and code
nothing reaches (micro-compaction in `D/contextBudget.ts`).
