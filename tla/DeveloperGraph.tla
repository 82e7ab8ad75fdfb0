---------------------------- MODULE DeveloperGraph ----------------------------
(***************************************************************************)
(* The state graph a developer task runs through                           *)
(* (developerAgent/graph.ts, state.ts, escalation.ts): what each node does *)
(* to the state and which node the edges choose next.  No variables: a     *)
(* state is a record, a node an operator from a state to the states it may *)
(* leave, with the field node naming the next node, "end" when the         *)
(* invocation returns, "threw" or "illegal" when it throws.                *)
(*                                                                         *)
(* Kept: the status table, the tool loop's ways to stop and its account of *)
(* model calls, work items and their batches, the fuses, the question to a *)
(* person.  Abstracted: prompts, skills, files, the texts of errors (only  *)
(* whether they name a gap of the environment), the counter behind         *)
(* "acceptance makes no progress" (only whether it stands at its limit).   *)
(* Calls are counted up to HardCalls, the most any budget reaches.         *)
(***************************************************************************)
EXTENDS Integers, FiniteSets

CONSTANTS
    N,            \* work items of the blueprint, in order
    RepairCalls,  \* REPAIR_LLM_BUDGET
    HardCalls,    \* BrakePolicy.hardLlmCalls
    MaxSteps,     \* maxStepsPerLoop
    Tolerance,    \* llmErrorTolerance
    Extras,       \* calls a loop may spend on compactions and experts
    Failures      \* what a test may find: records [sig, env, human]

ASSUME GraphConstants ==
    /\ N \in Nat \ {0}
    /\ {RepairCalls, HardCalls, MaxSteps} \subseteq Nat \ {0}
    /\ {Tolerance, Extras} \subseteq Nat
    /\ \A f \in Failures : f.env \in BOOLEAN /\ f.human \in BOOLEAN

Items == 1..N

-----------------------------------------------------------------------------
(* The status table. *)

Terminal == {"ready", "blocked", "failed", "cancelled"}

STATUS_TRANSITIONS ==
    LET stop == {"waiting_human", "blocked", "failed", "cancelled"} IN
    [received      |-> {"inspecting"} \cup stop,
     inspecting    |-> {"implementing"} \cup stop,
     implementing  |-> {"implementing", "testing", "waiting_test", "waiting_item",
                        "repairing"} \cup stop,
     testing       |-> {"testing", "waiting_test", "repairing", "ready"} \cup stop,
     waiting_test  |-> {"testing", "repairing", "ready"} \cup stop,
     waiting_item  |-> {"implementing"} \cup stop,
     repairing     |-> {"implementing", "testing", "waiting_test"} \cup stop,
     waiting_human |-> {"implementing", "repairing", "testing", "waiting_test",
                        "waiting_item"} \cup (stop \ {"waiting_human"}),
     ready |-> {}, blocked |-> {}, failed |-> {}, cancelled |-> {}]

Statuses == DOMAIN STATUS_TRANSITIONS

canTransitionStatus(from, to) == from = to \/ to \in STATUS_TRANSITIONS[from]

\* next(): the node has written what it writes into s; an illegal status throws
Goto(s, to, node) ==
    IF canTransitionStatus(s.status, to)
    THEN [s EXCEPT !.status = to, !.node = node]
    ELSE [s EXCEPT !.node = "illegal"]

Nodes == {"receiveTask", "inspectProject", "loadContext", "bootstrapOrImplement",
          "runLocalChecks", "requestTest", "handleTestResult", "waitBatch",
          "acceptBatch", "repair", "escalate", "developerReady", "developerBlocked"}

-----------------------------------------------------------------------------
(* The state of a run.  A check list is the set of its sources: 0 is the   *)
(* blueprint's own list, i the list that came with the batch of item i.    *)
(* Equal sets have equal acceptance hashes.                                *)

NoMail    == [kind |-> "none"]
NoFailure == [sig |-> "none", env |-> FALSE, human |-> FALSE]

initialDeveloperState ==
    [status |-> "received", node |-> "receiveTask", resume |-> "none",
     item |-> 1, done |-> {}, here |-> {}, checks |-> {0},
     planned |-> 0, got |-> 0, repairs |-> 0, most |-> 2,
     stalled |-> FALSE, stall |-> FALSE, slow |-> FALSE, full |-> FALSE,
     err |-> "none", failure |-> NoFailure, sigs |-> {},
     human |-> FALSE, answer |-> "none", asked |-> 0, shelved |-> {},
     mail |-> NoMail]

First(set) == IF set = {} THEN 0 ELSE CHOOSE i \in set : \A j \in set : i <= j

nextWorkItem(s)          == First(Items \ s.done)
nextArrivedWorkItem(s)   == First(s.here \ s.done)
nextUnarrivedWorkItem(s) == First(Items \ (s.done \cup s.here))
hasPendingWorkItem(s)    == nextWorkItem(s) # 0

isBudgetExceeded(s, max)  == s.got >= max
canReserveLlmCall(s, max) == s.planned + 1 <= max
isRepairExhausted(s)      == s.repairs >= s.most
isRepeatedFailure(s)      == s.failure.sig # "none" /\ s.failure.sig \in s.sigs
canGoReady(s) ==
    /\ s.status = "testing"
    /\ s.failure = NoFailure
    /\ s.mail.kind = "test_passed"

-----------------------------------------------------------------------------
(* The tool loop.  One step of it reserves a call before it makes it; a    *)
(* failed call is tolerated unless Tolerance + 1 of them come in a row.    *)

Cap(n) == IF n > HardCalls THEN HardCalls ELSE n

\* with used calls of which got were answered, the last one too if answered
Tolerated(used, got, answered) ==
    IF answered THEN got > 0 /\ used <= got * (Tolerance + 1)
                ELSE used <= got + (got + 1) * Tolerance

\* how a loop that may make left calls ends, used and got of them for its decisions
Stops(end, used, got, spent, left) ==
    /\ got <= used /\ used <= MaxSteps
    /\ CASE end = "done"   -> Tolerated(used, got, TRUE)
         [] end = "budget" -> spent = left /\ used < MaxSteps /\ Tolerated(used, got, FALSE)
         [] end = "steps"  -> used = MaxSteps /\ Tolerated(used, got, FALSE)
         [] end = "slow"   -> got > 1 /\ Tolerated(used, got, TRUE)
         [] end = "stall"  -> Tolerated(used, got, TRUE)
         [] end = "full"   -> used < MaxSteps /\ Tolerated(used, got, FALSE)
         [] end = "threw"  -> spent = left /\ left > 0 /\ got = 0

\* its outcome: what it has spent in all, and whether it reports changed files (of a
\* loop that threw nothing is heard, and one outcome stands for all)
runToolLoop(left) ==
    {o \in [end : {"done", "budget", "steps", "slow", "stall", "full", "threw"},
            used : 0..left, got : 0..left, wrote : BOOLEAN] :
        /\ o.wrote => o.got > 0 /\ o.end # "threw"
        /\ \E more \in 0..Extras : \E heard \in 0..more :
              /\ more <= o.used /\ heard <= o.got
              /\ Stops(o.end, o.used - more, o.got - heard, o.used, left)}

\* what both users of the loop take over from it
Spent(s, o) ==
    [s EXCEPT !.planned = Cap(@ + o.used), !.got = Cap(@ + o.got)]
Looped(s, o) ==
    [Spent(s, o) EXCEPT !.slow = (o.end = "slow"), !.stall = @ \/ o.end = "stall"]

\* the request cannot be sent: straight to the question
Overflown(s, o) ==
    Goto([Spent(s, o) EXCEPT !.full = TRUE, !.err = "code", !.resume = "escalate"],
         "waiting_human", "unrouted")

-----------------------------------------------------------------------------
(* The edges. *)

routeAfterImplement(s, max) ==
    IF s.full \/ s.stall THEN "escalate"
    ELSE IF isBudgetExceeded(s, max) \/ s.slow THEN "runLocalChecks"
    ELSE IF nextArrivedWorkItem(s) # 0 /\ canReserveLlmCall(s, max) THEN "loadContext"
    ELSE IF nextUnarrivedWorkItem(s) # 0 THEN "waitBatch"
    ELSE "runLocalChecks"

routeAfterLocalChecks(s, max) ==
    IF s.full \/ s.slow \/ s.stall THEN "escalate"
    ELSE IF hasPendingWorkItem(s) /\ isBudgetExceeded(s, max) THEN "escalate"
    ELSE IF hasPendingWorkItem(s) /\ canReserveLlmCall(s, max) THEN "loadContext"
    ELSE IF nextUnarrivedWorkItem(s) # 0 THEN "waitBatch"
    ELSE IF s.err = "none" THEN "requestTest"
    ELSE IF isRepairExhausted(s) \/ s.stalled THEN "escalate"
    ELSE "repair"

routeAfterTestResult(s) ==
    CASE s.mail.kind = "test_passed"  -> IF canGoReady(s) THEN "developerReady" ELSE "escalate"
      [] s.mail.kind = "test_failure" ->
            IF isRepeatedFailure(s) \/ isRepairExhausted(s) \/ s.stalled
            THEN "escalate" ELSE "repair"
      [] OTHER -> "escalate"

\* take the edge the node's new state calls for, unless the node threw
Routed(s, target) == IF s.node = "unrouted" THEN [s EXCEPT !.node = target] ELSE s

-----------------------------------------------------------------------------
(* The nodes. *)

receiveTask(s) == Goto([s EXCEPT !.checks = {0}, !.item = 1], "inspecting", "inspectProject")

inspectProject(s) == Goto(s, "inspecting", "loadContext")

loadContext(s) ==
    Goto(s, IF s.status = "implementing" THEN "implementing" ELSE "inspecting",
         "bootstrapOrImplement")

\* one turn at the current item; the model's own "done" completes it
bootstrapOrImplement(s, o, max) ==
    LET completed == s.done \cup (IF o.end = "done" /\ s.item # 0 THEN {s.item} ELSE {})
        t == [Looped(s, o) EXCEPT
                 !.done = completed, !.item = First(Items \ completed),
                 !.err  = IF o.end \in {"slow", "stall"} THEN "code" ELSE @]
        u == IF o.end = "full" THEN Overflown(s, o) ELSE Goto(t, "implementing", "unrouted")
    IN IF o.end = "threw" THEN [s EXCEPT !.node = "threw"]
       ELSE Routed(u, routeAfterImplement(u, max))

\* err is what the build, the routes and the migrations of the site show
runLocalChecks(s, err, max) ==
    LET t == Goto([s EXCEPT !.err = err], "implementing", "unrouted")
    IN Routed(t, routeAfterLocalChecks(t, max))

requestTest(s) ==
    Goto([s EXCEPT !.resume = "handleTestResult"], "waiting_test", "end")

handleTestResult(s) ==
    LET t == Goto([s EXCEPT !.resume = "none",
                            !.failure = IF s.mail.kind = "test_failure"
                                        THEN s.mail.failure ELSE NoFailure],
                  "testing", "unrouted")
    IN Routed(t, routeAfterTestResult(t))

waitBatch(s) == Goto([s EXCEPT !.resume = "acceptBatch"], "waiting_item", "end")

\* merge the batch: its checks join the list, its item is the one to work on
acceptBatch(s) ==
    LET i == s.mail.item
        t == [s EXCEPT !.here = @ \cup {i},
                       !.checks = IF i \in s.here THEN @ ELSE @ \cup {i}]
        target == IF nextArrivedWorkItem(t) # 0 THEN nextArrivedWorkItem(t) ELSE nextWorkItem(t)
    IN IF s.mail.kind # "architect_batch"
       THEN Goto([s EXCEPT !.resume = "acceptBatch"], "waiting_item", "end")
       ELSE Goto([t EXCEPT !.item = target, !.resume = "loadContext"],
                 "implementing", "loadContext")

\* a repair has calls of its own; one that changes no file is the last
repair(s, o) ==
    LET t == [Looped(s, o) EXCEPT
                 !.repairs = @ + 1, !.stalled = ~o.wrote,
                 !.sigs = @ \cup ({s.failure.sig} \ {"none"}),
                 !.err  = IF o.end = "stall" THEN "code" ELSE "none"]
        u == IF o.end = "full" THEN Overflown(s, o) ELSE Goto(t, "repairing", "unrouted")
    IN IF o.end = "threw" THEN [s EXCEPT !.node = "threw"]
       ELSE Routed(u, "runLocalChecks")

unfinishedUnitIds(s) == Items \ (s.done \cup s.shelved)

\* envGapsFrom: the texts at hand name something only a person can mend
EnvGaps(s) == s.err = "env" \/ s.failure.env

\* is there a reason to ask, and is the person still to be asked
shouldEscalate(s, max) ==
    /\ s.asked < 2
    /\ \/ s.full
       \/ EnvGaps(s)
       \/ s.failure.human
       \/ s.stall
       \/ unfinishedUnitIds(s) # {} /\ isBudgetExceeded(s, max)

\* all fuses lead here: ask, or act upon the answer, or give up
escalate(s, max) ==
    LET over  == [s EXCEPT !.human = FALSE, !.answer = "none"]
        heard == [over EXCEPT !.asked = @ + 1, !.full = FALSE]
        fresh == [heard EXCEPT !.repairs = 0, !.stalled = FALSE, !.stall = FALSE,
                               !.slow = FALSE, !.err = "none",
                               !.most = IF s.answer = "narrow" THEN 1 ELSE 2,
                               !.shelved = IF s.answer = "narrow"
                                           THEN @ \cup unfinishedUnitIds(s) ELSE @]
    IN IF ~shouldEscalate(s, max) THEN Goto(over, "blocked", "developerBlocked")
       ELSE IF s.answer = "none"
            THEN [s EXCEPT !.human = TRUE, !.status = "waiting_human",
                           !.resume = "escalate", !.node = "end"]
       ELSE IF s.answer = "stop"
            THEN Goto([heard EXCEPT !.err = "code"], "blocked", "developerBlocked")
       ELSE Goto(fresh, "implementing", "loadContext")

developerReady(s) ==
    IF canGoReady(s) THEN Goto(s, "ready", "end") ELSE Goto(s, "blocked", "end")

developerBlocked(s) == Goto(s, "blocked", "end")
=============================================================================
