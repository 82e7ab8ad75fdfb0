------------------------------- MODULE ToolLoop -------------------------------
(***************************************************************************)
(* The loop in which a model works with its tools                          *)
(* (developerAgent/graph.ts, runToolLoop): a decision per model call, a    *)
(* tool call per decision, and all the ways to stop.  With it what its     *)
(* tools remember of a file: the reads already answered                    *)
(* (tools/readDedup.ts), the files seen before they may be overwritten     *)
(* (observedFiles.ts), the results kept under a fingerprint                *)
(* (invokeWithFingerprintCache), the experts already asked                 *)
(* (tools/readonlySubAgent.ts, ledger.ts).                                 *)
(*                                                                         *)
(* One file, whose texts all have one length (the worst case for the       *)
(* deduplication of reads), one command, one acceptance rehearsal.  Left   *)
(* out: searches, web requests, long-running processes (see Processes),    *)
(* the extension of timeouts, reminders, clipping.  A crash loses what is  *)
(* in memory; the next loop finds the same disk and database.              *)
(***************************************************************************)
EXTENDS Naturals, FiniteSets

CONSTANTS
    Texts,      \* what the file may hold
    Green,      \* the texts with which the rehearsal passes
    Signatures, \* failures an expert may be asked about
    MaxSteps,   \* maxSteps
    Budget,     \* llmBudget
    Tolerance,  \* llmErrorTolerance
    Retries,    \* most summary requests of one compaction: 1 + MAX_PTL_RETRIES
    Experts,    \* SUBAGENT_MAX_CALLS_DEFAULT
    MaxExtras,  \* bound: calls spent on compactions and experts
    StallLimit, \* ACCEPTANCE_STALL_LIMIT
    MaxLoops    \* bound: loops of the task, one after the other

VARIABLES
    loop,     \* the locals of runToolLoop, see Fresh
    file,     \* the file on disk: its text, "none" if absent, and its mtime
    memo,     \* in memory: the mtime of the read on record (or {}), is the file
              \* observed; shown and sly are histories: the text last sent in full, and
              \* whether a command has since changed the text under the mark it had
    cache,    \* completed_tool_call: fingerprints, with what was answered
    experts,  \* subagent_call: per signature its status and the text analysed
    answer,   \* the last tool's answer
    loops,    \* which loop it is
    asked     \* history: analyses begun per signature

vars == <<loop, file, memo, cache, experts, answer, loops, asked>>

Fresh ==
    [at |-> "guard", steps |-> 0, planned |-> 0, got |-> 0, streak |-> 0,
     extra |-> 0, extraGot |-> 0, expert |-> FALSE, late |-> 0, stall |-> 0,
     key |-> "none", touched |-> FALSE, wrote |-> FALSE]

Silence == [call |-> <<"none">>, ok |-> TRUE, how |-> "none"]
Forgotten(shown) == [read |-> {}, observed |-> FALSE, shown |-> shown, sly |-> FALSE]

Init ==
    /\ loop = Fresh
    /\ file \in [text : Texts \cup {"none"}, stamp : {0}]
    /\ memo = Forgotten("none")
    /\ cache = {}
    /\ experts = [s \in Signatures |-> [status |-> "none", text |-> "none"]]
    /\ answer = Silence
    /\ loops = 1
    /\ asked = [s \in Signatures |-> 0]

world == <<file, memo, cache, experts, asked>>

-----------------------------------------------------------------------------
(* Between two steps: the context guard, the budget, the model. *)

\* the guard has the history summarised: every request for it costs a call
Compact ==
    /\ loop.at = "guard" /\ loop.steps < MaxSteps
    /\ \E n \in 1..Retries, ok \in BOOLEAN :
          /\ loop.planned + n <= Budget /\ loop.extra + n <= MaxExtras
          /\ LET k == IF ok THEN n ELSE n - 1 IN
             loop' = [loop EXCEPT !.at = "send", !.planned = @ + n, !.got = @ + k,
                                  !.extra = @ + n, !.extraGot = @ + k]
    /\ UNCHANGED <<world, answer, loops>>

\* the history fits, cannot be made to, or there is no step left
Guard ==
    /\ loop.at = "guard"
    /\ loop' \in IF loop.steps < MaxSteps
                 THEN {[loop EXCEPT !.at = "send"], [loop EXCEPT !.at = "full"]}
                 ELSE {[loop EXCEPT !.at = "steps"]}
    /\ UNCHANGED <<world, answer, loops>>

\* Mutant: the request goes out before it is counted.
SendFirst ==
    /\ loop.at = "send"
    /\ loop' = IF loop.planned > Budget
               THEN [loop EXCEPT !.at = "budget"]
               ELSE [loop EXCEPT !.at = "sent", !.planned = @ + 1]
    /\ UNCHANGED <<world, answer, loops>>

\* a call is charged before it is made
Send ==
    /\ loop.at = "send"
    /\ loop' = IF loop.planned + 1 > Budget
               THEN [loop EXCEPT !.at = "budget"]
               ELSE [loop EXCEPT !.at = "sent", !.planned = @ + 1]
    /\ UNCHANGED <<world, answer, loops>>

CallFails ==
    /\ loop.at = "sent"
    /\ loop' = IF loop.streak + 1 > Tolerance
               THEN [loop EXCEPT !.at = "threw"]
               ELSE [loop EXCEPT !.at = "guard", !.streak = @ + 1, !.steps = @ + 1]
    /\ UNCHANGED <<world, answer, loops>>

\* done, a claim of authority the protocol forbids, or nothing that can be acted upon
Decides ==
    /\ loop.at = "sent"
    /\ LET heard == [loop EXCEPT !.got = @ + 1, !.streak = 0] IN
       loop' \in {[heard EXCEPT !.at = "done"], [heard EXCEPT !.at = "threw"],
                  [heard EXCEPT !.at = "guard", !.steps = @ + 1]}
    /\ UNCHANGED <<world, answer, loops>>

-----------------------------------------------------------------------------
(* What follows a tool call. *)

\* the paths of what succeeds are noted as changed, be they only read
Touches(a, batch) == a.ok /\ ~batch /\ a.call[1] \in {"read", "write", "edit"}

Writes(a) == a.ok /\ a.how = "ran" /\ a.call[1] \in {"write", "edit", "run"}

\* the failures of a rehearsal, "" if there are none
Stalled(a) ==
    IF a.call[1] # "rehearse" THEN loop
    ELSE IF a.fails = "" THEN [loop EXCEPT !.stall = 0, !.key = "none"]
    ELSE [loop EXCEPT !.stall = IF a.fails = loop.key THEN @ + 1 ELSE 1, !.key = a.fails]

\* two timeouts of the command in a row, or three rehearsals alike, stop the loop
Hears(a, batch) ==
    LET late == IF a.call[1] # "run" THEN loop.late ELSE IF a.how = "late" THEN loop.late + 1 ELSE 0
        s == Stalled(a)
    IN [s EXCEPT !.at = CASE a.call[1] = "run" /\ late >= 2 -> "slow"
                          [] a.call[1] = "rehearse" /\ s.stall >= StallLimit -> "stall"
                          [] OTHER -> "guard",
                 !.steps = @ + 1, !.got = @ + 1, !.streak = 0, !.late = late,
                 !.touched = @ \/ Touches(a, batch),
                 !.wrote = @ \/ Writes(a)]

Answers(a) ==
    /\ answer' = a
    /\ loop' = Hears(a, FALSE)
    /\ UNCHANGED <<experts, asked, loops>>

\* the result kept under this fingerprint, if any, else the tool's own, kept from now
Kept(print) == {c \in cache : c.print = print}

Cached(print) ==
    /\ \E c \in Kept(print) : Answers([c.answer EXCEPT !.how = "cached"])
    /\ UNCHANGED <<file, memo, cache>>

Ran(print, a) ==
    /\ Kept(print) = {}
    /\ Answers(a)
    /\ cache' = cache \cup {[print |-> print, answer |-> a]}

-----------------------------------------------------------------------------
(* The tools. *)

Unchanged == file.stamp \in memo.read

\* a read may come alone or in a batch, which then counts for no change
ReadFile ==
    /\ loop.at = "sent" /\ file.text # "none"
    /\ \E force, batch \in BOOLEAN :
          LET stub == ~force /\ Unchanged
              a == [call |-> <<"read">>, ok |-> TRUE, how |-> IF stub THEN "stub" ELSE "full"]
          IN /\ memo' = IF stub THEN [memo EXCEPT !.observed = TRUE]
                        ELSE [read |-> {file.stamp}, observed |-> TRUE, shown |-> file.text,
                              sly |-> FALSE]
             /\ answer' = a /\ loop' = Hears(a, batch)
    /\ UNCHANGED <<file, cache, experts, asked, loops>>

\* two writes, or a read and a write, may fall into one tick of the disk's clock; a command may
\* also put the mark back
Stamped(t) == {[text |-> t, stamp |-> file.stamp + k] : k \in 0..1}

\* Mutant: writing does not make the tool forget what it has read.
PutRemembering(t, observed) ==
    /\ file' \in Stamped(t)
    /\ memo' = [memo EXCEPT !.observed = observed]

Put(t, observed) ==
    /\ file' \in Stamped(t)
    /\ memo' = [memo EXCEPT !.read = {}, !.observed = observed, !.sly = FALSE]

WriteFile(t) ==
    LET call == <<"write", t>>
        a(ok) == [call |-> call, ok |-> ok, how |-> "ran"]
    IN /\ loop.at = "sent"
       /\ \/ Cached(call)
          \/ /\ file.text # "none" /\ ~memo.observed      \* FS_NOT_OBSERVED
             /\ Ran(call, a(FALSE))
             /\ UNCHANGED <<file, memo>>
          \/ /\ file.text = "none" \/ memo.observed
             /\ Put(t, TRUE) /\ Ran(call, a(TRUE))

EditFile(find, t) ==
    LET call == <<"edit", find, t>>
        a(ok) == [call |-> call, ok |-> ok, how |-> "ran"]
    IN /\ loop.at = "sent" /\ find # t
       /\ \/ Cached(call)
          \/ file.text # find /\ Ran(call, a(FALSE)) /\ UNCHANGED <<file, memo>>
          \/ file.text = find /\ Put(t, memo.observed) /\ Ran(call, a(TRUE))

\* a command may change the file; its result is kept under the text it started from,
\* unless it was cut short
RunCommand ==
    LET print == <<"run", file.text>>
        a(ok, how) == [call |-> <<"run">>, ok |-> ok, how |-> how]
    IN /\ loop.at = "sent"
       /\ \/ Cached(print)
          \/ /\ file' \in {file} \cup UNION {Stamped(t) : t \in Texts}
             /\ memo' = [memo EXCEPT !.sly = @ \/ (file'.stamp = file.stamp /\ file'.text # file.text)]
             /\ \/ Ran(print, a(TRUE, "ran"))
                \/ /\ Kept(print) = {}
                   /\ Answers(a(FALSE, "late")) /\ UNCHANGED cache

\* the acceptance rehearsal is kept under its arguments alone
Rehearse ==
    LET fails == IF file.text \in Green THEN "" ELSE file.text
    IN /\ loop.at = "sent"
       /\ \/ Cached(<<"rehearse">>)
          \/ /\ Ran(<<"rehearse">>, [call |-> <<"rehearse">>, ok |-> fails = "",
                                     how |-> "ran", fails |-> fails])
             /\ UNCHANGED <<file, memo>>

-----------------------------------------------------------------------------
(* The experts. *)

Refused(call) == [call |-> call, ok |-> FALSE, how |-> "refused"]
Called == Cardinality({s \in Signatures : experts[s].status # "none"})

\* asked once a loop, as long as there is a call left, and once about a failure
Delegate(s) ==
    LET call == <<"delegate", s>> IN
    /\ loop.at = "sent" /\ loop.extra < MaxExtras
    /\ IF loop.expert \/ loop.planned + 1 > Budget
       THEN /\ answer' = Refused(call) /\ loop' = Hears(Refused(call), FALSE)
            /\ UNCHANGED <<experts, asked>>
       ELSE IF Called >= Experts
       THEN /\ answer' = Refused(call)
            /\ loop' = [Hears(Refused(call), FALSE) EXCEPT !.expert = TRUE]
            /\ UNCHANGED <<experts, asked>>
       ELSE IF experts[s].status # "none"
       THEN LET a == [call |-> call, how |-> "old",
                      ok |-> experts[s].status = "done" /\ experts[s].text = file.text]
            IN /\ answer' = a /\ loop' = [Hears(a, FALSE) EXCEPT !.expert = TRUE]
               /\ UNCHANGED <<experts, asked>>
       ELSE /\ experts' = [experts EXCEPT ![s] = [status |-> "running", text |-> file.text]]
            /\ asked' = [asked EXCEPT ![s] = @ + 1]
            /\ loop' = [loop EXCEPT !.at = "expert"]
            /\ answer' = [call |-> call, ok |-> FALSE, how |-> "running"]
    /\ UNCHANGED <<file, memo, cache, loops>>

\* Mutant: a claim that has led to nothing is given up.
SettleOrRelease(s, status) ==
    experts' = [experts EXCEPT ![s].status = IF status = "done" THEN status ELSE "none"]

Settle(s, status) == experts' = [experts EXCEPT ![s].status = status]

\* the expert answers, answers nonsense, or does not answer in time
ExpertEnds(s) ==
    /\ loop.at = "expert" /\ answer.call[2] = s
    /\ \E status \in {"done", "failed", "timeout"}, heard \in BOOLEAN :
          LET a == [call |-> answer.call, ok |-> status = "done", how |-> "new"]
              k == IF heard THEN 1 ELSE 0
          IN /\ status = "done" => heard
             /\ status = "timeout" => ~heard
             /\ Settle(s, status)
             /\ answer' = a
             /\ loop' = [Hears(a, FALSE) EXCEPT
                            !.expert = TRUE, !.planned = @ + 1, !.extra = @ + 1,
                            !.got = @ + k, !.extraGot = @ + k]
    /\ UNCHANGED <<file, memo, cache, asked, loops>>

-----------------------------------------------------------------------------
Ends == {"full", "steps", "budget", "threw", "done", "slow", "stall"}

\* the next node of the graph, or a repair, starts a loop; the count of rehearsals
\* without progress goes on
NextLoop ==
    /\ loop.at \in Ends \ {"threw"} /\ loops < MaxLoops
    /\ loops' = loops + 1
    /\ loop' = [Fresh EXCEPT !.stall = loop.stall, !.key = loop.key]
    /\ answer' = Silence
    /\ UNCHANGED world

Crash ==
    /\ loop.at \notin Ends /\ loops < MaxLoops
    /\ loops' = loops + 1
    /\ loop' = Fresh /\ answer' = Silence
    /\ memo' = Forgotten(memo.shown)
    /\ UNCHANGED <<file, cache, experts, asked>>

Over == loop.at \in Ends /\ UNCHANGED vars

Tool ==
    \/ ReadFile \/ RunCommand \/ Rehearse
    \/ \E t \in Texts : WriteFile(t) \/ \E f \in Texts : EditFile(f, t)
    \/ \E s \in Signatures : Delegate(s) \/ ExpertEnds(s)

Next == Compact \/ Guard \/ Send \/ CallFails \/ Decides \/ Tool \/ NextLoop \/ Crash \/ Over

Spec == Init /\ [][Next]_vars

-----------------------------------------------------------------------------
TypeOK ==
    /\ loop.at \in {"guard", "send", "sent", "expert"} \cup Ends
    /\ loop.got <= loop.planned /\ loop.planned <= Budget /\ loop.steps <= MaxSteps
    /\ file.text \in Texts \cup {"none"}
    /\ memo.read \subseteq 0..file.stamp

Graph == INSTANCE DeveloperGraph WITH
    N <- 1, RepairCalls <- 1, HardCalls <- Budget, Failures <- {}, Extras <- MaxExtras

(* What the graph takes the loop for (DeveloperGraph.runToolLoop, with      *)
(* which the developer task is checked) is what the loop does: the calls    *)
(* charged and answered fit the way it ended, and the budget is kept with   *)
(* compactions and experts in between.                                      *)
LoopKeepsContract ==
    loop.at \in Ends \ {"threw"} =>
        [end |-> loop.at, used |-> loop.planned, got |-> loop.got, wrote |-> loop.touched]
            \in Graph!runToolLoop(Budget)

(* The model is told "unchanged" only if the file holds what it was last    *)
(* shown in full, whatever wrote to it meanwhile, within one tick of the    *)
(* disk's clock too; excepted is a command that has changed it and left its *)
(* size and its time as they were.                                          *)
StubsAreTrue == answer.how = "stub" => memo.shown = file.text \/ memo.sly

(* Not so in the code: without the exception (readDedup.ts:63).             *)
EveryStubIsTrue == answer.how = "stub" => memo.shown = file.text

(* An expert's analysis of a failure is paid for once, however the first    *)
(* ended and whether or not the process died over it.                       *)
ExpertsAreAskedOnce == \A s \in Signatures : asked[s] <= 1

(* A write that is reported done is on the disk (graph.ts:554 of the kept   *)
(* results).  The code does not have it.                                    *)
WriteTakesEffect ==
    answer.call[1] = "write" /\ answer.ok => file.text = answer.call[2]

(* The files a loop reports as changed are files it has written, so that a  *)
(* repair that changed nothing is recognised (graph.ts:2419).  The code     *)
(* does not have it.                                                        *)
OnlyWritesAreChanges == loop.touched => loop.wrote
=============================================================================
