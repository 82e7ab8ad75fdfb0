---------------------------------- MODULE Brake ----------------------------------
(***************************************************************************)
(* The brake of a developer task (E/developerAgent/brake.ts and the driving *)
(* loop of E/developerTeamRunner.ts): at the end of its time or of its calls *)
(* the task stops and asks a person whether to go on.  An answer extends the *)
(* task or ends it; without one the task is put aside, the process ends, and *)
(* the next one asks the same question again.  The ledger and the questions *)
(* outlive the process, the policy and the round are of the process.        *)
(***************************************************************************)
EXTENDS Naturals, Sequences

CONSTANTS
    SoftWall, WallStep,    \* units of time before the first question, and per extension
    SoftCalls, CallStep,   \* calls of the model, likewise
    Patience,              \* how long an answer is waited for
    Launches,              \* how many processes there are
    Questions,             \* how many questions are followed
    Late                   \* units of time a process is followed

VARIABLES
    alone,      \* nobody is there: AUTO_CONFIRM, which answers yes by itself
    book,       \* the ledger of the task
    asks,       \* the questions kept by the server, by number
    run,        \* the process and its policy
    starts

vars == <<alone, book, asks, run, starts>>

Terminal == {"ready", "blocked"}
HardWall == SoftWall + WallStep
HardCalls == 2 * SoftCalls
Down == [at |-> "down"]
NoPause == [round |-> 0, ext |-> 0]

Least(a, b) == IF a < b THEN a ELSE b
Most(a, b) == IF a > b THEN a ELSE b

Init ==
    /\ alone \in BOOLEAN
    /\ book = [status |-> "none", calls |-> 0, extended |-> <<>>, pause |-> NoPause,
               words |-> FALSE, heard |-> FALSE, by |-> "nobody"]
    /\ asks = [q \in 1..Questions |-> "none"]
    /\ run = Down
    /\ starts = 0

Follow(r) == run' = r /\ UNCHANGED <<alone, starts>>
Go(at) == Follow([run EXCEPT !.at = at])

(***************************************************************************)
(* A process takes the task up                                              *)
(***************************************************************************)

\* A policy is never taken over from an earlier process; the calls are.
resolveBrakePolicy ==
    [at |-> "gate", elapsed |-> 0, maxWall |-> SoftWall, deadline |-> SoftWall,
     maxCalls |-> SoftCalls, budget |-> SoftCalls, ext |-> 0,
     round |-> Most(book.pause.round, 1), waited |-> 0, bought |-> FALSE]

\* a few lines of the ledger: what a person said, in a task that was put aside
resumeBrief == book.words /\ book.pause # NoPause

taskWithBrief == [book EXCEPT !.status = "executing", !.heard = resumeBrief]

\* What a person said is put into the instructions of a task that is begun, not of
\* one that is resumed.
runOneTask ==
    /\ run.at = "down" /\ starts < Launches
    /\ starts' = starts + 1
    /\ run' = [resolveBrakePolicy EXCEPT !.at = IF book.status \in Terminal THEN "idle" ELSE "gate"]
    /\ book' = IF book.status # "none" THEN book ELSE taskWithBrief
    /\ UNCHANGED <<alone, asks>>

\* The process is killed, or ends as it was asked to.
Exit ==
    /\ run.at # "down"
    /\ Follow(Down)
    /\ UNCHANGED <<book, asks>>

(***************************************************************************)
(* The driving loop                                                         *)
(***************************************************************************)

callAllowance == Least(run.budget, run.maxCalls)

checkBrake(allowance) ==
    LET hard == alone /\ (run.elapsed >= HardWall \/ book.calls >= HardCalls) IN
    IF run.elapsed < run.maxWall /\ book.calls < allowance THEN "free"
    ELSE IF hard THEN "stop" ELSE "ask"

driveToTerminal ==
    /\ run.at = "gate"
    /\ LET gate == checkBrake(callAllowance) IN
       Go(CASE book.status = "ready" -> "idle"
            [] book.status = "blocked" -> "stopping"
            [] gate = "ask" /\ book.status \notin Terminal -> "checkpoint"
            [] gate = "stop" /\ book.status \notin Terminal -> "ceiling"
            [] OTHER -> IF book.status = "waiting_test" THEN "await" ELSE "serve")
    /\ UNCHANGED <<book, asks>>

\* A message is dealt with: the graph calls the model and moves on, ends included.
serveOnce ==
    /\ run.at \in {"serve", "await"}
    /\ \E more \in 0..1, status \in {"executing", "waiting_test", "ready", "blocked"} :
          /\ book.calls + more <= run.budget
          /\ book' = [book EXCEPT !.calls = @ + more, !.status = status,
                                  !.by = IF status = "blocked" THEN "graph" ELSE @]
          /\ run' = [run EXCEPT !.at = "gate", !.bought = @ /\ more = 0]
    /\ UNCHANGED <<alone, asks, starts>>

Tick ==
    /\ run.at \in {"serve", "await", "ask"}
    /\ run.elapsed < Late
    /\ Follow([run EXCEPT !.elapsed = @ + 1,
                          !.waited = IF run.at = "ask" THEN @ + 1 ELSE @,
                          !.bought = @ /\ run.at = "ask"])
    /\ UNCHANGED <<book, asks>>

\* The wait for a test ends with its own window or with the time of the task.
watchdog ==
    /\ run.at = "await"
    /\ book' = [book EXCEPT !.status = "blocked",
                            !.by = IF run.elapsed >= run.deadline THEN "brake" ELSE "tests"]
    /\ Go("gate")
    /\ UNCHANGED asks

(***************************************************************************)
(* The checkpoint                                                           *)
(***************************************************************************)

countExtensions == Len(book.extended)

\* Mutant: the round of this process alone says which question it is.
ByTheRound(round) == round

\* The question that was open at the last pause, unless its answer is used up.
pickQuestionId(round) ==
    IF book.pause # NoPause /\ countExtensions = book.pause.ext THEN book.pause.round
    ELSE Most(round, countExtensions + 1)

\* Asking a question that exists does not ask it anew.
brakeCheckpoint ==
    /\ run.at = "checkpoint"
    /\ LET q == pickQuestionId(run.round) IN
       /\ q <= Questions
       /\ asks' = IF asks[q] = "none" /\ ~alone THEN [asks EXCEPT ![q] = "open"] ELSE asks
       /\ \E at \in {"ask", "pausing"} :
             Follow([run EXCEPT !.at = at, !.round = q, !.waited = 0, !.bought = FALSE])
    /\ UNCHANGED book

\* Somebody answers, whether or not a process waits; the server agrees by itself
\* when the question's own time is over.
Answer ==
    /\ \E q \in DOMAIN asks, a \in {"go", "go on like this", "end"} :
          asks[q] = "open" /\ asks' = [asks EXCEPT ![q] = a]
    /\ UNCHANGED <<alone, book, run, starts>>

Said == IF alone THEN "go" ELSE asks[run.round]

\* Both clocks move: the limit by a step, the deadline to a step from now, and the
\* calls by a step up to the ceiling, for the policy and for the graph.
grantBrakeExtension ==
    [run EXCEPT !.at = "gate", !.round = @ + 1, !.ext = @ + 1, !.bought = TRUE,
        !.maxWall = @ + WallStep, !.deadline = run.elapsed + WallStep,
        !.maxCalls = Least(@ + CallStep, HardCalls),
        !.budget = Least(@ + CallStep, HardCalls)]

Extend ==
    /\ run.at = "ask" /\ Said \in {"go", "go on like this"}
    /\ Follow(grantBrakeExtension)
    /\ book' = [book EXCEPT !.extended = Append(@, run.round),
                            !.words = @ \/ Said = "go on like this"]
    /\ UNCHANGED asks

\* The end that a person wants: the process is not asked to end with the task.
Finish ==
    /\ run.at = "ask" /\ Said = "end"
    /\ book' = [book EXCEPT !.status = "blocked", !.by = "person"]
    /\ Go("idle")
    /\ UNCHANGED asks

\* the end of a run without people at the ceiling
brakeFinalized ==
    /\ run.at = "ceiling"
    /\ book' = [book EXCEPT !.status = "blocked", !.by = "ceiling"]
    /\ Go("stopping")
    /\ UNCHANGED asks

askBrakeQuietly ==
    /\ run.at = "ask" /\ run.waited >= Patience
    /\ Go("pausing")
    /\ UNCHANGED <<book, asks>>

\* the report of a pause, which counts the extensions of the ledger
summaryOf == [round |-> run.round, ext |-> Most(run.ext, countExtensions)]

\* The report is written before the state.
pauseBrake ==
    \/ /\ run.at = "pausing"
       /\ book' = [book EXCEPT !.pause = summaryOf]
       /\ Go("paused")
       /\ UNCHANGED asks
    \/ /\ run.at = "paused"
       /\ book' = [book EXCEPT !.status = "waiting_human"]
       /\ Go("stopping")
       /\ UNCHANGED asks

Stay == UNCHANGED vars

Next ==
    \/ runOneTask \/ Exit
    \/ driveToTerminal \/ serveOnce \/ Tick \/ watchdog
    \/ brakeCheckpoint \/ Answer \/ Extend \/ Finish \/ brakeFinalized
    \/ askBrakeQuietly \/ pauseBrake
    \/ Stay

(***************************************************************************)
(* Properties                                                               *)
(***************************************************************************)

TypeOK ==
    /\ book.status \in Terminal \union {"none", "executing", "waiting_test", "waiting_human"}
    /\ book.calls \in 0..HardCalls
    /\ run.at \in {"down", "gate", "idle", "serve", "await", "checkpoint", "ceiling", "ask",
                   "pausing", "paused", "stopping"}
    /\ starts \in 0..Launches

(* Every question is asked until it is answered, and its answer is used once, *)
(* over pauses and kills of the process anywhere (developerTeamRunner.ts:711, *)
(* pickQuestionId): an answer given while nothing runs is not passed over,  *)
(* and no answer extends a task twice.                                      *)
QuestionsInTurn ==
    /\ \A i \in DOMAIN book.extended : book.extended[i] = i
    /\ \A q \in DOMAIN asks : asks[q] # "none" => q <= countExtensions + 1

(* An extension buys work: the gate is open when it is looked at next        *)
(* (brake.ts:168).  The code does not have it: at the ceiling, which holds  *)
(* with people too, after a restart, whose budget starts over while the     *)
(* calls go on, and when the answer took as long as the extension is.       *)
ExtensionBuysWork ==
    run.at = "checkpoint" => ~run.bought

(* The brake ends no task of a person who did not say so                    *)
(* (developerTeamRunner.ts:516).  The code does not have it: a wait for a   *)
(* test ends with the time of the task, and the task with the wait.         *)
BrakeDoesNotKill ==
    book.by # "brake"

(* A task that ended without success ends the process                       *)
(* (developerTeamRunner.ts:470).  The code does not have it: not after the  *)
(* end a person wanted, nor when an ended task is met by a later process.   *)
EndedMeansStopping ==
    run.at = "idle" => book.status = "ready"

(* What a person wrote beside the answer reaches the model (brake.ts:590).   *)
(* The code does not have it: it is added to a task that is begun only.     *)
GuidanceIsHeard ==
    (run.at = "serve" /\ book.words /\ book.pause # NoPause /\ starts = Launches) => book.heard
=============================================================================
