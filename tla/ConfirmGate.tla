---------------------------- MODULE ConfirmGate ----------------------------
(***************************************************************************)
(* One card of the confirm gate (ConfirmServiceImpl over sys_confirm, and  *)
(* the engine's HttpQuestioner): engines ask and poll, people answer from  *)
(* several browser windows, and whoever finds the card expired settles it. *)
(* Every database access is a step of its own.                             *)
(*                                                                         *)
(* A card is a question, whose decision is the text of an answer, or a     *)
(* permission, whose decision says whether a command may run.              *)
(***************************************************************************)
EXTENDS FiniteSets

CONSTANTS
    Engines,   \* engine processes that ask, by the same questionId
    People,    \* requests of browsers to answer
    Sweepers,  \* listPending and the reconciler
    Answers,   \* texts people may give
    Default    \* the first option, or the empty text

Permits  == {"allow_once", "allow_always"}
Rulings  == Permits \cup {"deny"}
Decisions == Answers \cup {Default} \cup Rulings
None == "none"

ASSUME ConfirmGateConstants == None \notin Decisions /\ Rulings \cap (Answers \cup {Default}) = {}

VARIABLES
    kind,      \* "question" or "permission"
    row,       \* the row of sys_confirm: its status and decision
    late,      \* the card's expire_at has passed
    engine,    \* what each engine does, and the decision it has got
    person,    \* what each request to answer does, and the decision it carries
    sweeper,   \* what each sweep does
    rule       \* a rule that allows the command for ever has been written

vars == <<kind, row, late, engine, person, sweeper, rule>>

\* A card has a decision once it is settled, and not before.
Cards == [status : {"absent", "pending"}, decision : {None}]
             \cup [status : {"answered", "auto_passed"}, decision : Decisions]
Settled == row.status \in {"answered", "auto_passed"}

TypeOK ==
    /\ kind \in {"question", "permission"}
    /\ row \in Cards
    /\ late \in BOOLEAN /\ rule \in BOOLEAN
    /\ engine \in [Engines -> [pc : {"off", "insert", "poll", "pass", "reread", "done"},
                               got : Decisions \cup {None}]]
    /\ person \in [People -> [pc : {"off", "write", "remember", "over"},
                              wants : Decisions \cup {None}]]
    /\ sweeper \in [Sweepers -> {"off", "pass"}]

Init ==
    /\ kind \in {"question", "permission"}
    /\ row = [status |-> "absent", decision |-> None]
    /\ late = FALSE
    /\ engine = [e \in Engines |-> [pc |-> "off", got |-> None]]
    /\ person = [p \in People |-> [pc |-> "off", wants |-> None]]
    /\ sweeper = [s \in Sweepers |-> "off"]
    /\ rule = FALSE

At(e, pc) == engine[e].pc = pc
EngineTo(e, pc) == engine' = [engine EXCEPT ![e].pc = pc]

-----------------------------------------------------------------------------
(* The engine: ask and getAnswer *)

\* ask looks for the questionId first.
Ask(e) ==
    /\ At(e, "off")
    /\ EngineTo(e, IF row.status = "absent" THEN "insert" ELSE "poll")
    /\ UNCHANGED <<kind, row, late, person, sweeper, rule>>

\* Mutant: the unique key is not there and the card is written over.
InsertOver(e) ==
    /\ At(e, "insert")
    /\ row' = [status |-> "pending", decision |-> None]
    /\ EngineTo(e, "poll")
    /\ UNCHANGED <<kind, late, person, sweeper, rule>>

\* The loser of a duplicate key takes the card as it is.
Insert(e) ==
    /\ At(e, "insert")
    /\ row' = IF row.status = "absent" THEN [status |-> "pending", decision |-> None] ELSE row
    /\ EngineTo(e, "poll")
    /\ UNCHANGED <<kind, late, person, sweeper, rule>>

\* The reply to a poll: a settled card's decision, nothing on a pending one.
Deliver(e) ==
    engine' = [engine EXCEPT ![e] =
                  IF Settled THEN [pc |-> "done", got |-> row.decision]
                             ELSE [pc |-> "poll", got |-> None]]

\* Mutant: expiry is left to others.
PollOnly(e) ==
    /\ At(e, "poll")
    /\ Deliver(e)
    /\ UNCHANGED <<kind, row, late, person, sweeper, rule>>

Poll(e) ==
    /\ At(e, "poll")
    /\ IF row.status = "pending" /\ late THEN EngineTo(e, "pass") ELSE Deliver(e)
    /\ UNCHANGED <<kind, row, late, person, sweeper, rule>>

\* passExpired: where still pending, a question gets its default answer and a
\* permission is denied.
Lapse ==
    row' = IF row.status = "pending"
           THEN [status |-> "auto_passed",
                 decision |-> IF kind = "permission" THEN "deny" ELSE Default]
           ELSE row

\* Mutant: a permission nobody rules on is given, as for a question.
PassOpen(e) ==
    /\ At(e, "pass")
    /\ row' = IF row.status = "pending"
              THEN [status |-> "auto_passed",
                    decision |-> IF kind = "permission" THEN "allow_once" ELSE Default]
              ELSE row
    /\ EngineTo(e, "reread")
    /\ UNCHANGED <<kind, late, person, sweeper, rule>>

Pass(e) ==
    /\ At(e, "pass")
    /\ Lapse
    /\ EngineTo(e, "reread")
    /\ UNCHANGED <<kind, late, person, sweeper, rule>>

\* A person may have been faster: the final state is read again.
Reread(e) ==
    /\ At(e, "reread")
    /\ Deliver(e)
    /\ UNCHANGED <<kind, row, late, person, sweeper, rule>>

\* The engine dies or is killed; the next one asks by the same questionId.
EngineDies(e) ==
    /\ ~At(e, "off")
    /\ engine' = [engine EXCEPT ![e] = [pc |-> "off", got |-> None]]
    /\ UNCHANGED <<kind, row, late, person, sweeper, rule>>

-----------------------------------------------------------------------------
(* answer *)

\* The card is read and the decision checked against its kind.
Submit(p, d) ==
    /\ person[p].pc = "off" /\ row.status # "absent"
    /\ d \in IF kind = "permission" THEN Rulings ELSE Answers
    /\ person' = [person EXCEPT ![p] = [pc |-> "write", wants |-> d]]
    /\ UNCHANGED <<kind, row, late, engine, sweeper, rule>>

Remembers(p) == kind = "permission" /\ person[p].wants = "allow_always"

\* The conditional update; a loser is told so and does nothing more.
Write(p) ==
    /\ person[p].pc = "write"
    /\ IF row.status = "pending"
       THEN /\ row' = [status |-> "answered", decision |-> person[p].wants]
            /\ person' = [person EXCEPT ![p].pc = IF Remembers(p) THEN "remember" ELSE "over"]
       ELSE /\ UNCHANGED row
            /\ person' = [person EXCEPT ![p].pc = "over"]
    /\ UNCHANGED <<kind, late, engine, sweeper, rule>>

\* The rule is written after the answer, or not: without a pattern, or if the
\* write fails, the answer stands alone.
Remember(p) ==
    /\ person[p].pc = "remember"
    /\ rule' \in {rule, TRUE}
    /\ person' = [person EXCEPT ![p].pc = "over"]
    /\ UNCHANGED <<kind, row, late, engine, sweeper>>

-----------------------------------------------------------------------------
(* sweepExpired, and the time *)

Find(s) ==
    /\ sweeper[s] = "off" /\ row.status = "pending" /\ late
    /\ sweeper' = [sweeper EXCEPT ![s] = "pass"]
    /\ UNCHANGED <<kind, row, late, engine, person, rule>>

Sweep(s) ==
    /\ sweeper[s] = "pass"
    /\ Lapse
    /\ sweeper' = [sweeper EXCEPT ![s] = "off"]
    /\ UNCHANGED <<kind, late, engine, person, rule>>

Expire ==
    /\ row.status # "absent" /\ ~late
    /\ late' = TRUE
    /\ UNCHANGED <<kind, row, engine, person, sweeper, rule>>

EngineSteps(e) == Ask(e) \/ Insert(e) \/ Poll(e) \/ Pass(e) \/ Reread(e)

Next ==
    \/ \E e \in Engines : EngineSteps(e) \/ EngineDies(e)
    \/ \E p \in People : Write(p) \/ Remember(p) \/ \E d \in Decisions : Submit(p, d)
    \/ \E s \in Sweepers : Find(s) \/ Sweep(s)
    \/ Expire

Spec == Init /\ [][Next]_vars

\* An engine that lives goes on polling, requests come to an end, time passes.
FairSpec ==
    /\ Spec
    /\ WF_vars(Expire)
    /\ \A e \in Engines : WF_vars(EngineSteps(e))

-----------------------------------------------------------------------------
(***************************************************************************)
(* The card's final states are final: who answers and who lets it lapse    *)
(* race, and one of them wins (ConfirmServiceImpl, answer and passExpired).*)
(***************************************************************************)
SettledForGood == [][Settled => row' = row]_vars

(***************************************************************************)
(* Whatever an engine goes on with is what the card says, for every engine *)
(* that asked, before and after a restart (getAnswer's second read).       *)
(***************************************************************************)
EnginesAgree == \A e \in Engines : engine[e].got # None => engine[e].got = row.decision

(***************************************************************************)
(* A command runs only on a ruling a person sent: a permission card that   *)
(* lapses is denied (passExpired).                                         *)
(***************************************************************************)
PermitsComeFromPeople ==
    \A e \in Engines : engine[e].got \in Permits =>
        kind = "permission" /\ \E p \in People : person[p].wants = engine[e].got

(***************************************************************************)
(* A standing rule is there only if "always" is what was decided: a late   *)
(* click that lost leaves none (answer).                                   *)
(***************************************************************************)
RuleOnlyIfDecided == rule => row = [status |-> "answered", decision |-> "allow_always"]

(***************************************************************************)
(* An engine that asks gets its decision, or dies, although nobody answers.*)
(***************************************************************************)
AskersAreServed == \A e \in Engines : At(e, "poll") ~> At(e, "done") \/ At(e, "off")

(***************************************************************************)
(* The gate implements the one-time decision.                              *)
(***************************************************************************)
Gate == INSTANCE Decision WITH
    Readers <- Engines, Decisions <- Decisions, NoDecision <- None,
    decided <- row.decision, known <- [e \in Engines |-> engine[e].got]

ImplementsDecision == Gate!Spec
=============================================================================
