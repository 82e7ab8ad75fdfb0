----------------------------- MODULE DeveloperTask -----------------------------
(***************************************************************************)
(* One task of the developer line, from its blueprint to its end: the      *)
(* handle that runs the state graph (developerAgent/index.ts), the driver  *)
(* that feeds it messages and watches time and budget                      *)
(* (developerTeamRunner.ts, brake.ts), the architect who sends the batches *)
(* (architectTaskBuilder.ts), the test engineer (testEngineer.ts) and the  *)
(* person who answers.  One process; PhaseRun models its death and the     *)
(* tasks before and after this one.                                        *)
(*                                                                         *)
(* An invocation of the graph (job) runs a node per step, between which    *)
(* everybody else may move.  The driver waits for it, except that in       *)
(* "await" it waits for it or for a timer, whichever comes first.  A       *)
(* message is parked until the ledger's status has a use for it.           *)
(* Left out: the unattended ceiling of the brake (it stops like a person   *)
(* who answers stop), messages that are not for this task, what is sent    *)
(* after the task has ended, forged messages.                              *)
(***************************************************************************)
EXTENDS DeveloperGraph, Sequences, SequencesExt

CONSTANTS
    Calls,      \* budgetOf: calls the task starts with
    Extend,     \* extendLlmCalls, by how many an answer "continue" raises it
    MaxBrakes,  \* bound: times the person answers the brake with continue
    MaxConsults \* bound: times the run asks another station

ASSUME TaskConstants ==
    /\ {Calls, Extend} \subseteq Nat \ {0} /\ Calls <= HardCalls
    /\ MaxBrakes \in Nat /\ MaxConsults \in Nat

VARIABLES
    dev,     \* the state of the run, the handle's `current` between invocations
    job,     \* the invocation: "idle", "graph", "consult" while a station is asked,
             \* "ask" while a person is
    line,    \* the driver
    led,     \* the task's ledger: status, calls, the open test wait and its lateness;
             \* req counts the requests, a history: all carry one correlation id
    limit,   \* llmBudgetRef: calls allowed now
    wall,    \* the brake's wall clock has run out
    brakes,  \* extensions granted
    box, parked,   \* the developer's inbox, the messages set aside
    consult, \* consults begun, those not answered, and how many that timed out
             \* still hold on to the one receive under way
    sent,    \* batches the architect has written to disk and sent
    split,   \* the architect's split: "on", "cancelled" or broken off by an exception
    test,    \* requests the tester has not answered, the oldest first
    verdict, \* history: the result of a test that was last acted upon
    refused  \* history: why the gate last refused a message

vars == <<dev, job, line, led, limit, wall, brakes, box, parked, consult, sent,
          split, test, verdict, refused>>

outside == <<limit, wall, brakes, sent, split>>
mail    == <<box, parked, consult>>
ghosts  == <<verdict, refused>>

None == {-1}     \* stands where a check list may be missing

Batch(i)       == [kind |-> "architect_batch", item |-> i]
Passed(t)      == [kind |-> "test_passed", checks |-> t.checks, req |-> t.req]
Failed(t, f)   == [kind |-> "test_failure", checks |-> t.checks, req |-> t.req, failure |-> f]
Cancel         == [kind |-> "cancel_task"]
Reply(n)       == [kind |-> "consult_reply", consult |-> n]

\* what the inbox takes; anything else is refused at its edge (parseInbound)
Messages ==
    [kind : {"architect_batch"}, item : Items]
    \cup [kind : {"test_passed"}, checks : SUBSET (0..N), req : Nat]
    \cup [kind : {"test_failure"}, checks : SUBSET (0..N), req : Nat, failure : Failures]
    \cup {Cancel} \cup [kind : {"consult_reply"}, consult : Nat]

NoVerdict == [kind |-> "none", checks |-> None, req |-> 0]

TypeOK ==
    /\ dev.status \in Statuses
    /\ dev.node \in Nodes \cup {"end", "threw", "illegal"}
    /\ dev.done \cup dev.here \subseteq Items /\ dev.item \in 0..N
    /\ dev.checks \subseteq 0..N
    /\ dev.got <= dev.planned /\ dev.planned <= HardCalls
    /\ job \in {"idle", "graph", "consult", "ask"}
    /\ line \in {"first", "drive", "serve", "await", "brake", "closing", "paused", "over"}
    /\ led.status \in {"none"} \cup Statuses
    /\ led.got \in 0..HardCalls /\ led.late \in BOOLEAN
    /\ led.wait = None \/ led.wait \subseteq 0..N
    /\ verdict.req \in 0..led.req
    /\ \A k \in DOMAIN test : test[k].req \in 1..led.req
    /\ consult.made \in 0..MaxConsults /\ consult.open \subseteq 1..consult.made
    /\ consult.late \in 0..consult.made
    /\ {box, parked} \subseteq Seq(Messages)
    /\ limit \in 0..HardCalls /\ brakes \in 0..MaxBrakes
    /\ sent \in 0..N /\ wall \in BOOLEAN /\ split \in {"on", "cancelled", "broken"}
    /\ refused \in {"no", "late", "stale", "order"}

Init ==
    /\ dev = initialDeveloperState
    /\ job = "graph" /\ line = "first"
    /\ led = [status |-> "none", got |-> 0, wait |-> None, late |-> FALSE, req |-> 0]
    /\ limit = Calls /\ wall = FALSE /\ brakes = 0
    /\ box = <<>> /\ parked = <<>>
    /\ consult = [made |-> 0, open |-> {}, late |-> 0]
    /\ sent = 0 /\ split = "on"
    /\ test = <<>>
    /\ verdict = NoVerdict /\ refused = "no"

-----------------------------------------------------------------------------
(* The invocation: one action per node.  Once the ledger is closed a node  *)
(* throws at its first entry.                                              *)

At(node, nexts) ==
    /\ job = "graph" /\ dev.node = node /\ line # "over"
    /\ dev' \in nexts
    /\ UNCHANGED <<job, line, outside, mail, ghosts>>

Quiet == UNCHANGED <<led, test>>

ReceiveTask    == At("receiveTask", {receiveTask(dev)}) /\ Quiet
InspectProject == At("inspectProject", {inspectProject(dev)}) /\ Quiet
LoadContext    == At("loadContext", {loadContext(dev)}) /\ Quiet

Implement ==
    LET left == IF limit > dev.planned THEN limit - dev.planned ELSE 0 IN
    /\ At("bootstrapOrImplement",
          {bootstrapOrImplement(dev, o, limit) : o \in runToolLoop(left)})
    /\ Quiet

LocalChecks ==
    /\ At("runLocalChecks", {runLocalChecks(dev, e, limit) : e \in {"none", "code", "env"}})
    /\ Quiet

\* the ledger's row of the wait for a test
openTestWait(checks) == [led EXCEPT !.wait = checks, !.late = FALSE, !.req = @ + 1]
clearTestWait        == [led EXCEPT !.wait = None]

\* the request opens the wait and goes to the tester
RequestTest ==
    /\ At("requestTest", {requestTest(dev)})
    /\ led' = openTestWait(dev.checks)
    /\ test' = Append(test, [checks |-> dev.checks, req |-> led'.req])

HandleTestResult ==
    /\ At("handleTestResult", {handleTestResult(dev)})
    /\ led' = clearTestWait
    /\ UNCHANGED test

WaitBatch   == At("waitBatch", {waitBatch(dev)}) /\ Quiet
AcceptBatch == At("acceptBatch", {acceptBatch(dev)}) /\ Quiet
Repair      == At("repair", {repair(dev, o) : o \in runToolLoop(RepairCalls)}) /\ Quiet
Escalate    == At("escalate", {escalate(dev, limit)}) /\ Quiet
Ready       == At("developerReady", {developerReady(dev)}) /\ Quiet
Blocked     == At("developerBlocked", {developerBlocked(dev)}) /\ Quiet

\* a model asks the station that owns what is in its way, between two of its calls
ConsultStation ==
    /\ job = "graph" /\ line # "over" /\ consult.made < MaxConsults
    /\ \/ dev.node = "bootstrapOrImplement" /\ limit > dev.planned
       \/ dev.node = "repair"
    /\ consult' = [consult EXCEPT !.made = @ + 1, !.open = @ \cup {consult.made + 1}]
    /\ job' = "consult"
    /\ UNCHANGED <<dev, line, led, test, outside, box, parked, ghosts>>

\* consults that have timed out set aside whatever their receive brings
Copies(m) == [k \in 1..consult.late |-> m]

Caught == [consult EXCEPT !.late = 0, !.open = IF job = "consult" THEN @ ELSE {}]

\* Mutant: what comes while a station is asked, and is not its answer, is dropped.
ConsultSwallows ==
    /\ job = "consult" /\ box # <<>> /\ line # "over"
    /\ box' = Tail(box) /\ consult' = Caught
    /\ job' = IF Head(box) = Reply(consult.made) THEN "graph" ELSE job
    /\ UNCHANGED <<dev, line, led, test, outside, parked, ghosts>>

\* what comes while a station is asked, and is not its answer, is set aside
ConsultReceives ==
    /\ job = "consult" /\ box # <<>> /\ line # "over"
    /\ box' = Tail(box) /\ consult' = Caught
    /\ IF Head(box) = Reply(consult.made)
       THEN job' = "graph" /\ parked' = parked \o Copies(Head(box))
       ELSE job' = job /\ parked' = parked \o Copies(Head(box)) \o <<Head(box)>>
    /\ UNCHANGED <<dev, line, led, test, outside, ghosts>>

\* the run goes on without an answer; the receive stays under way
ConsultTimesOut ==
    /\ job = "consult" /\ box = <<>> /\ line # "over"
    /\ job' = "graph"
    /\ consult' = [consult EXCEPT !.late = @ + 1]
    /\ UNCHANGED <<dev, line, led, test, outside, box, parked, ghosts>>

\* that receive brings a message while nobody else waits for one
LateReceive ==
    /\ consult.late > 0 /\ box # <<>> /\ job \in {"graph", "ask"} /\ line # "over"
    /\ box' = Tail(box) /\ consult' = Caught
    /\ parked' = parked \o Copies(Head(box))
    /\ UNCHANGED <<dev, job, line, led, test, outside, ghosts>>

\* the invocation returns with a question: ask it and wait for the answer
AskHuman ==
    /\ job = "graph" /\ dev.node = "end" /\ dev.human /\ line # "over"
    /\ job' = "ask"
    /\ UNCHANGED <<dev, line, led, test, outside, mail, ghosts>>

\* a person answers, or the question could not be put, which counts as continue
Answered ==
    /\ job = "ask" /\ line # "over"
    /\ \E a \in {"continue", "narrow", "stop"} :
          dev' = [dev EXCEPT !.answer = a, !.node = dev.resume]
    /\ job' = "graph"
    /\ UNCHANGED <<line, led, test, outside, mail, ghosts>>

\* the invocation is over: write the state down and let the driver go on
InvocationEnds ==
    /\ job = "graph" /\ line # "over"
    /\ dev.node \in {"threw", "illegal"} \/ (dev.node = "end" /\ ~dev.human)
    /\ dev' = [dev EXCEPT !.mail = NoMail]
    /\ LET status == IF dev.node = "end" THEN dev.status ELSE "failed" IN
       led' = IF status = "waiting_test"
              THEN [led EXCEPT !.status = status, !.got = dev.got]
              ELSE [led EXCEPT !.status = status, !.got = dev.got, !.wait = None]
    /\ verdict' = IF led'.status = "ready" THEN verdict ELSE NoVerdict
    /\ job' = "idle"
    /\ line' = IF line \in {"first", "serve", "await"} THEN "drive" ELSE line
    /\ UNCHANGED <<test, outside, mail, refused>>

\* an invocation the driver no longer waits for meets the closed ledger
OrphanDies ==
    /\ line = "over" /\ job # "idle"
    /\ job' = "idle"
    /\ UNCHANGED <<dev, line, led, test, outside, mail, ghosts>>

-----------------------------------------------------------------------------
(* The driver. *)

\* the brake asks only between invocations
Tripped == wall \/ led.got >= limit

Drive ==
    /\ line = "drive"
    /\ line' = CASE led.status \in Terminal      -> "over"
                 [] led.status \notin Terminal
                    /\ Tripped                   -> "brake"
                 [] OTHER -> IF led.status = "waiting_test" THEN "await" ELSE "serve"
    /\ UNCHANGED <<dev, job, led, test, outside, mail, ghosts>>

\* continue raises the budget; the clock may have run past the extension too
BrakeContinue ==
    /\ line = "brake" /\ brakes < MaxBrakes
    /\ brakes' = brakes + 1
    /\ limit'  = Cap(limit + Extend)
    /\ wall' \in {wall, FALSE}
    /\ line'   = "drive"
    /\ UNCHANGED <<dev, job, led, test, mail, sent, split, ghosts>>

BrakeStop ==
    /\ line = "brake"
    /\ line' = "closing"
    /\ UNCHANGED <<dev, job, led, test, outside, mail, ghosts>>

\* nobody confirms: the task is left for another process
BrakePause ==
    /\ line = "brake"
    /\ led'  = [led EXCEPT !.status = "waiting_human"]
    /\ line' = "paused"
    /\ UNCHANGED <<dev, job, test, outside, mail, ghosts>>

\* abortRun and blockUnverified found the task open; after the clean-up they write
ClosingWrites ==
    /\ line = "closing"
    /\ led'  = [led EXCEPT !.status = "blocked", !.wait = None]
    /\ line' = "drive"
    /\ UNCHANGED <<dev, job, test, outside, mail, ghosts>>

-----------------------------------------------------------------------------
(* Messages. *)

Serving == line \in {"serve", "await"} /\ job = "idle"

fitsCurrentStatus(m) ==
    CASE m.kind = "architect_batch" -> led.status = "waiting_item"
      [] m.kind \in {"test_passed", "test_failure"} -> led.status = "waiting_test"
      [] m.kind = "cancel_task" -> led.status \notin {"ready", "blocked", "failed"}
      [] m.kind = "consult_reply" -> TRUE

Refuse(why) ==
    /\ refused' = why
    /\ line' = "closing"
    /\ UNCHANGED <<dev, job, verdict>>

Resume(m, status, node) ==
    /\ dev' = [dev EXCEPT !.status = status, !.resume = node, !.node = node, !.mail = m]
    /\ job' = "graph"
    /\ UNCHANGED <<line, refused>>

resumeWithBatch(m) ==
    /\ UNCHANGED verdict
    /\ IF m.item \in dev.here \cup dev.done
       THEN line' = "drive" /\ UNCHANGED <<dev, job, refused>>
       ELSE IF m.item # nextUnarrivedWorkItem(dev) THEN Refuse("order")
       ELSE Resume(m, "waiting_item", "acceptBatch")

\* what the answer must be about: the open wait, else what the last checkpoint had
Expected == IF led.wait # None THEN led.wait ELSE dev.checks

\* checkIdentity; task, run and correlation are the same for every request of a run
Identified(m) == m.checks = Expected

resumeFromTestMessage(m) ==
    IF led.late THEN Refuse("late")
    ELSE IF ~Identified(m) THEN Refuse("stale")
    ELSE /\ Resume(m, "waiting_test", "handleTestResult")
         /\ verdict' = [kind |-> m.kind, checks |-> m.checks, req |-> m.req]

dispatchMessage(m) ==
    CASE m.kind = "architect_batch" -> resumeWithBatch(m)
      [] m.kind \in {"test_passed", "test_failure"} -> resumeFromTestMessage(m)
      [] m.kind = "cancel_task" ->
            line' = "closing" /\ UNCHANGED <<dev, job, verdict, refused>>
      [] m.kind = "consult_reply" ->
            line' = "drive" /\ UNCHANGED <<dev, job, verdict, refused>>

Waiting == {i \in DOMAIN parked : fitsCurrentStatus(parked[i])}

\* the parked message that fits, the oldest first
TakeParked ==
    /\ Serving /\ Waiting # {}
    /\ parked' = RemoveAt(parked, First(Waiting))
    /\ dispatchMessage(parked[First(Waiting)])
    /\ UNCHANGED <<led, test, box, consult, outside>>

Receive ==
    /\ Serving /\ Waiting = {} /\ box # <<>>
    /\ box' = Tail(box) /\ consult' = Caught
    /\ UNCHANGED <<led, test, outside>>
    /\ IF fitsCurrentStatus(Head(box))
       THEN dispatchMessage(Head(box)) /\ parked' = parked \o Copies(Head(box))
       ELSE /\ parked' = parked \o Copies(Head(box)) \o <<Head(box)>>
            /\ UNCHANGED <<dev, job, line, ghosts>>

\* Mutant: the wait for a test has no timer of its own.
WatchdogAsleep ==
    /\ line = "await" /\ wall
    /\ line' = "closing"
    /\ UNCHANGED <<dev, job, led, test, outside, mail, ghosts>>

\* the timer of a wait for a test: the wait it was set for has gone late, was
\* answered before, or the brake's deadline has come
WatchdogFires ==
    /\ line = "await"
    /\ led.late \/ wall \/ job # "idle"
    /\ line' = "closing"
    /\ UNCHANGED <<dev, job, led, test, outside, mail, ghosts>>

-----------------------------------------------------------------------------
(* The architect, the tester and time. *)

\* a receive is under way; what is sent at other times is as good as sent then
Listening == (job \in {"idle", "consult"} \/ consult.late > 0) /\ line \notin {"over", "paused"}

SendBatch ==
    /\ Listening /\ split = "on" /\ sent < N
    /\ sent' = sent + 1
    /\ box' = Append(box, Batch(sent'))
    /\ UNCHANGED <<dev, job, line, led, limit, wall, brakes, parked, consult, split, test, ghosts>>

\* an item is refused three times: the rest is called off
SplitFails ==
    /\ Listening /\ split = "on" /\ sent < N
    /\ split' = "cancelled"
    /\ box' = Append(box, Cancel)
    /\ UNCHANGED <<dev, job, line, led, limit, wall, brakes, parked, consult, sent, test, ghosts>>

\* the batch or its directory cannot be written: the exception passes abortBatch
\* by, and in a process that outlives it (PhaseRun) nobody is told
SplitBreaks ==
    /\ Listening /\ split = "on" /\ sent < N
    /\ split' = "broken"
    /\ UNCHANGED <<dev, job, line, led, limit, wall, brakes, mail, sent, test, ghosts>>

\* Mutant: the tester does not ask whether its list is the one on disk.
handleTestRequestUnread ==
    /\ Listening /\ test # <<>>
    /\ test' = Tail(test)
    /\ box' \in IF led.late THEN {box}
                ELSE {box, Append(box, Passed(Head(test)))}
                     \cup {Append(box, Failed(Head(test), f)) : f \in Failures}
    /\ UNCHANGED <<dev, job, line, led, outside, parked, consult, ghosts>>

\* the tester answers only about the list it finds on disk, and only in time
handleTestRequest ==
    /\ Listening /\ test # <<>>
    /\ test' = Tail(test)
    /\ box' \in IF led.late \/ Head(test).checks # 0..sent THEN {box}
                ELSE {box, Append(box, Passed(Head(test)))}
                     \cup {Append(box, Failed(Head(test), f)) : f \in Failures}
    /\ UNCHANGED <<dev, job, line, led, outside, parked, consult, ghosts>>

\* a station answers, be it with a refusal, or never does (an answer that comes when
\* no consult holds on to a receive is ignored, and left out)
StationAnswers ==
    /\ job = "consult" \/ consult.late > 0
    /\ line \notin {"over", "paused"}
    /\ \E n \in consult.open :
          /\ consult' = [consult EXCEPT !.open = @ \ {n}]
          /\ box' = Append(box, Reply(n))
    /\ UNCHANGED <<dev, job, line, led, test, outside, parked, ghosts>>

\* the clock moves on where somebody looks at it
DeadlinePasses ==
    /\ line = "await" /\ job = "idle" /\ ~led.late
    /\ led' = [led EXCEPT !.late = TRUE]
    /\ UNCHANGED <<dev, job, line, test, outside, mail, ghosts>>

WallPasses ==
    /\ line \in {"drive", "await"} /\ ~wall
    /\ wall' = TRUE
    /\ UNCHANGED <<dev, job, line, led, limit, brakes, sent, split, test, mail, ghosts>>

\* a run that waits for a batch after an exception has broken the split off
Stranded == split = "broken" /\ led.status = "waiting_item"

Settled ==
    /\ (line \in {"over", "paused"} /\ job = "idle") \/ Stranded
    /\ UNCHANGED vars

-----------------------------------------------------------------------------
Invocation ==
    \/ ReceiveTask \/ InspectProject \/ LoadContext \/ Implement \/ LocalChecks
    \/ RequestTest \/ HandleTestResult \/ WaitBatch \/ AcceptBatch \/ Repair
    \/ Escalate \/ Ready \/ Blocked \/ AskHuman \/ InvocationEnds \/ OrphanDies
    \/ ConsultStation \/ ConsultReceives \/ ConsultTimesOut \/ LateReceive

Driver == Drive \/ ClosingWrites \/ TakeParked \/ Receive
Person == Answered \/ BrakeContinue \/ BrakeStop \/ BrakePause
Architect == SendBatch \/ SplitFails \/ SplitBreaks

Next ==
    \/ Invocation \/ Driver \/ Person \/ WatchdogFires \/ Architect
    \/ handleTestRequest \/ StationAnswers \/ DeadlinePasses \/ WallPasses \/ Settled

\* nothing is assumed of the person, of the tester or of the wall clock
Fairness ==
    /\ WF_vars(Invocation) /\ WF_vars(Driver) /\ WF_vars(Architect)
    /\ WF_vars(DeadlinePasses) /\ WF_vars(WatchdogFires)

Spec == Init /\ [][Next]_vars /\ Fairness

-----------------------------------------------------------------------------
(* Properties. *)

\* with two items or more, ready is said only of a run whose test passed with the
\* whole check list, the blueprint's and every batch's, which is the run's own too
ReadyMeansChecked ==
    led.status = "ready" =>
        verdict.kind = "test_passed" /\ verdict.checks = 0..N /\ dev.checks = 0..N

\* no route through the graph ever asks the status table for a forbidden step
RoutesAreLegal == dev.node # "illegal"

\* the gate refuses a message, and with it the whole task, only for coming late:
\* parking has kept every batch in order and every verdict with its own request
OnlyLateIsRefused == refused \in {"no", "late"}

\* whatever order batches, verdicts and answers come in, a batch that was sent is
\* in the inbox, set aside, in the run, or its item is done, while the task is open
NoBatchIsLost ==
    \A i \in 1..sent :
        \/ i \in dev.here \cup dev.done
        \/ \E k \in DOMAIN box : box[k] = Batch(i)
        \/ \E k \in DOMAIN parked : parked[k] = Batch(i)
        \/ dev.mail = Batch(i)
        \/ line \in {"closing", "paused", "over"} \/ led.status \in Terminal

\* a task does not hang: it ends or is paused, or a person is being asked, unless it
\* is stranded
Settles == []<>(line \in {"over", "paused", "brake"} \/ job = "ask" \/ Stranded)

\* What the comments promise and the code does not keep:
\* no wait of a task is for ever (developerTeamRunner.ts:71-73), without exception
SettlesAlways == []<>(line \in {"over", "paused", "brake"} \/ job = "ask")

\* with any number of items, what is ready has passed every batch's checks
ReadyCoversEveryBatch == led.status = "ready" => verdict.checks = 0..N

\* a result that is acted upon is the answer to the last request, so it is about
\* the code as it is now
VerdictIsForThisRequest == dev.node = "handleTestResult" => verdict.req = led.req

\* a task that has ended keeps the end it was given
TerminalIsFinal ==
    [][led.status \in Terminal => led'.status = led.status]_vars
=============================================================================
