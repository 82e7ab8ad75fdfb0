-------------------------------- MODULE TestAgent --------------------------------
(***************************************************************************)
(* The test agent when it may change the project (testAgent/index.ts, src/  *)
(* main.ts, permission.ts, context.ts, tool.ts): a loop of model and tools  *)
(* behind gates.  A repair is judged by the command that failed, the         *)
(* automatic mode by what the model says; in a session a person types tasks, *)
(* each of which is a loop of its own, and answers what the gates ask.      *)
(***************************************************************************)
EXTENDS Naturals

CONSTANTS
    Iterations,     \* iterations of a loop, before the reprieve
    RepairRounds,   \* loops of a repair
    Lines           \* tasks a person types, answered or not

VARIABLES
    duty,       \* what it was started for
    stage,      \* where the start program is
    minds,      \* the loops
    alive,      \* the loops begun
    trusted,    \* rules a person has allowed for the session
    dialog,     \* the loop whose question is on the screen, or 0
    touched,    \* files reported as changed
    measured,   \* the last run of the failed command, and the rounds so far
    result,
    did         \* the last call carried out, and what there has been

vars == <<duty, stage, minds, alive, trusted, dialog, touched, measured, result, did>>

\* What the model asks for: to edit or to write a file, in the project or not, to
\* read the discipline, a command of the daily kind, one that nobody has listed,
\* one that cannot be undone, and a tool there is none of.
Calls == {"edit", "edit outside", "read skill", "daily", "unlisted", "ruin", "no tool"}

\* The discipline is the agent's own, so it lies outside of the project unless the
\* agent is at work on itself; the project may have none of that name.
Duties ==
    [kind : {"repair"}, yes : BOOLEAN, skill : {"none"}]
    \union [kind : {"auto"}, yes : {FALSE}, skill : {"none", "inside", "outside"}]
    \union [kind : {"session"}, yes : {FALSE}, skill : {"none"}]

Asleep == [at |-> "off"]
Fresh == [at |-> "top", i |-> 0, max |-> Iterations, extended |-> FALSE,
          reminders |-> 0, read |-> FALSE, call |-> "no tool", leave |-> "none", capped |-> FALSE]

Init ==
    /\ duty \in Duties
    /\ stage = "start"
    /\ minds = [a \in 1..Lines |-> Asleep]
    /\ alive = 0
    /\ trusted = {} /\ dialog = 0 /\ touched = {}
    /\ measured = [exit |-> "none", since |-> FALSE, rounds |-> 0]
    /\ result = "none"
    /\ did = [call |-> "no tool", read |-> FALSE, leave |-> "none",
              always |-> FALSE, ran |-> FALSE, changed |-> FALSE]

Put(a, m) == minds' = [minds EXCEPT ![a] = m]

(***************************************************************************)
(* One loop                                                                 *)
(***************************************************************************)

BUDGET_EXTEND_FACTOR(n) == (3 * n + 1) \div 2

Reprieved == TRUE

\* At the last iteration the budget is raised, once; a session has none to speak of.
AtTop(m) ==
    IF ~m.extended /\ duty.kind # "session" /\ m.i = m.max - 1
    THEN [m EXCEPT !.max = BUDGET_EXTEND_FACTOR(@), !.extended = Reprieved]
    ELSE m

\* the reminder that the budget runs out, at three quarters of it
Reminded(m) ==
    IF duty.kind # "session" /\ m.i = (3 * m.max) \div 4
    THEN [m EXCEPT !.reminders = @ + 1] ELSE m

\* The model answers, or asks for a tool; over the budget it is made to answer.
runAgent(a) ==
    /\ minds[a].at = "top"
    /\ LET m == Reminded(AtTop(minds[a])) IN
       \/ /\ m.i >= m.max
          /\ Put(a, [m EXCEPT !.at = "said", !.capped = TRUE])
       \/ /\ m.i < m.max
          /\ \/ Put(a, [m EXCEPT !.at = "said"])
             \/ \E c \in Calls : Put(a, [m EXCEPT !.at = "called", !.call = c])
    /\ UNCHANGED <<duty, stage, alive, trusted, dialog, touched, measured, result, did>>

\* One call is dealt with; the same answer may hold another.  A session has 999
\* iterations, which are not counted here.
Dealt(a, m) ==
    \/ Put(a, [m EXCEPT !.at = "top", !.i = IF duty.kind = "session" THEN 0 ELSE @ + 1,
                       !.call = "no tool", !.leave = "none"])
    \/ \E c \in Calls : Put(a, [m EXCEPT !.at = "called", !.call = c])

\* Nothing is edited before the discipline was read; it is not required where
\* there is none.
requireSkillReads(m) ==
    m.call \in {"edit", "edit outside"} /\ duty.skill # "none" /\ ~m.read

decidePath(call) ==
    IF call = "edit" \/ (call = "read skill" /\ duty.skill = "inside")
    THEN "allow" ELSE "deny"

decideBash(call) ==
    CASE call = "ruin" -> "deny"
      [] call = "daily" -> "allow"
      [] call = "unlisted" -> "ask"

Decision(call) ==
    IF call \in {"daily", "unlisted", "ruin"} THEN decideBash(call) ELSE decidePath(call)

\* Without a person nothing is allowed that would have to be asked.
checkPermission(call) ==
    IF Decision(call) # "ask" THEN Decision(call)
    ELSE IF call \in trusted \/ duty.yes THEN "allow"
    ELSE IF duty.kind = "session" THEN "ask" ELSE "deny"

\* What is edited is reported before the tool has tried it.
Admit(a, m, leave) ==
    /\ touched' = IF m.call = "edit" THEN touched \union {"file"} ELSE touched
    /\ Put(a, [m EXCEPT !.at = "acts", !.leave = leave])

Refuse(a, m) ==
    /\ Dealt(a, m)
    /\ UNCHANGED touched

gate(a) ==
    LET m == minds[a] IN
    /\ m.at = "called"
    /\ \/ /\ m.call = "no tool" \/ requireSkillReads(m) \/ checkPermission(m.call) = "deny"
          /\ Refuse(a, m)
          /\ UNCHANGED dialog
       \/ /\ m.call # "no tool" /\ ~requireSkillReads(m)
          /\ checkPermission(m.call) = "allow"
          /\ Admit(a, m, IF Decision(m.call) = "allow" THEN "rule"
                         ELSE IF duty.yes THEN "start" ELSE "kept")
          /\ UNCHANGED dialog
       \/ /\ m.call # "no tool" /\ checkPermission(m.call) = "ask"
          \* a question while there is one on the screen is lost with its answer
          /\ IF dialog = 0 THEN dialog' = a /\ Put(a, [m EXCEPT !.at = "asks"])
             ELSE Put(a, [m EXCEPT !.at = "lost"]) /\ UNCHANGED dialog
          /\ UNCHANGED touched
    /\ UNCHANGED <<duty, stage, alive, trusted, measured, result, did>>

\* Mutant: what is allowed once is kept as allowed.
KeepEveryYes(answer) == answer # "no"

Remembered(answer) == answer = "always"

confirmer(a) ==
    LET m == minds[a] IN
    /\ m.at = "asks"
    /\ dialog' = 0
    /\ \E answer \in {"once", "always", "no"} :
          /\ IF answer = "no" THEN Refuse(a, m) ELSE Admit(a, m, answer)
          /\ trusted' = IF Remembered(answer) THEN trusted \union {m.call} ELSE trusted
          /\ did' = [did EXCEPT !.always = @ \/ answer = "always"]
    /\ UNCHANGED <<duty, stage, alive, measured, result>>

\* Whether a file of the project is written: an edit may not find its place, a
\* command may write what it likes, and whatever is read or written for the first
\* time is entered in the index that the tools keep in the project.
Effects(call) == IF call = "read skill" THEN {TRUE} ELSE BOOLEAN

\* The tool is run and says what came of it; a discipline that was found is
\* unlocked.
act(a) ==
    LET m == minds[a] IN
    /\ m.at = "acts"
    /\ Dealt(a, IF m.call = "read skill" THEN [m EXCEPT !.read = TRUE] ELSE m)
    /\ measured' = [measured EXCEPT !.since = TRUE]
    /\ \E writes \in Effects(m.call) :
          did' = [did EXCEPT !.call = m.call, !.read = m.read, !.leave = m.leave,
                             !.ran = @ \/ m.call \in {"daily", "unlisted"},
                             !.changed = @ \/ writes]
    /\ UNCHANGED <<duty, stage, alive, trusted, dialog, touched, result>>

\* The model cannot be asked: the whole of it ends.
fails(a) ==
    /\ minds[a].at = "top"
    /\ Put(a, Asleep)
    /\ result' = "error"
    /\ stage' = "end"
    /\ UNCHANGED <<duty, alive, trusted, dialog, touched, measured, did>>

(***************************************************************************)
(* The repair                                                               *)
(***************************************************************************)

Exits == {"green", "red"}

Repaired(exit) == exit = "green"

execOnce(exit, rounds) == measured' = [exit |-> exit, since |-> FALSE, rounds |-> rounds]

StartLoop(a) == Put(a, Fresh) /\ alive' = a

\* the command that is said to have failed is run before anything is done
runRepair ==
    /\ duty.kind = "repair" /\ stage = "start"
    /\ \E exit \in Exits :
          /\ execOnce(exit, 0)
          /\ IF exit = "green"
             THEN result' = "unchanged" /\ stage' = "end" /\ UNCHANGED <<minds, alive>>
             ELSE stage' = "loop" /\ StartLoop(1) /\ UNCHANGED result
    /\ UNCHANGED <<duty, trusted, dialog, touched, did>>

\* and again after each loop
runAgain ==
    LET n == measured.rounds + 1 IN
    /\ duty.kind = "repair" /\ stage = "loop" /\ minds[1].at = "said"
    /\ \E exit \in Exits :
          /\ execOnce(exit, n)
          /\ IF Repaired(exit) \/ n >= RepairRounds
             THEN /\ result' = IF Repaired(exit) THEN "changed" ELSE "incomplete"
                  /\ stage' = "end" /\ UNCHANGED <<minds, alive>>
             ELSE StartLoop(1) /\ UNCHANGED <<stage, result>>
    /\ UNCHANGED <<duty, trusted, dialog, touched, did>>

(***************************************************************************)
(* The automatic mode and the session                                       *)
(***************************************************************************)

detectContext == BOOLEAN

\* no command is guessed: without one nothing is begun
runAuto ==
    /\ duty.kind = "auto" /\ stage = "start"
    /\ \E found \in detectContext :
          IF found THEN stage' = "loop" /\ StartLoop(1) /\ UNCHANGED result
          ELSE stage' = "end" /\ result' = "error" /\ UNCHANGED <<minds, alive>>
    /\ UNCHANGED <<duty, trusted, dialog, touched, measured, did>>

\* what the last words come to, if they are a verdict at all
parseVerdict(capped) ==
    {"pass", "fail", "incomplete", IF capped THEN "incomplete" ELSE "error"}

autoEnds ==
    /\ duty.kind = "auto" /\ stage = "loop" /\ minds[1].at = "said"
    /\ result' \in parseVerdict(minds[1].capped)
    /\ stage' = "end"
    /\ UNCHANGED <<duty, minds, alive, trusted, dialog, touched, measured, did>>

\* A line begins a loop whether the last one has ended or not, unless it answers a
\* question.
line ==
    /\ duty.kind = "session" /\ stage # "end" /\ dialog = 0
    /\ alive < Lines
    /\ StartLoop(alive + 1)
    /\ stage' = "loop"
    /\ UNCHANGED <<duty, trusted, dialog, touched, measured, result, did>>

Still == UNCHANGED vars

Next ==
    \/ \E a \in 1..alive :
          /\ stage = "loop"
          /\ runAgent(a) \/ gate(a) \/ confirmer(a) \/ act(a) \/ fails(a)
    \/ runRepair \/ runAgain \/ runAuto \/ autoEnds \/ line
    \/ Still

(***************************************************************************)
(* Properties                                                               *)
(***************************************************************************)

TypeOK ==
    /\ duty \in Duties /\ stage \in {"start", "loop", "end"}
    /\ alive \in 0..Lines /\ dialog \in 0..Lines /\ touched \subseteq {"file"}
    /\ result \in {"none", "unchanged", "changed", "pass", "fail", "incomplete", "error"}

(* A repair that is called done was measured: the command was run after the  *)
(* last call of any tool, and it was green (main.ts, runRepair).            *)
MeasuredNotClaimed ==
    result \in {"changed", "unchanged"} => measured.exit = "green" /\ ~measured.since

(* No call is carried out without leave: nothing outside of the project and   *)
(* nothing that cannot be undone, an unlisted command by the word of a person *)
(* given for it or for all, and in the automatic mode no edit before the     *)
(* discipline was read.                                                      *)
NothingWithoutLeave ==
    /\ did.call \notin {"edit outside", "ruin"}
    /\ did.call = "unlisted" =>
          \/ did.leave \in {"once", "always"} \/ duty.yes
          \/ did.leave = "kept" /\ did.always
    /\ did.call = "edit" /\ duty.skill # "none" => did.read

(* No loop thinks longer than one and a half of its budget                    *)
OneReprieve ==
    \A a \in 1..alive : minds[a].at # "off" => minds[a].max <= BUDGET_EXTEND_FACTOR(Iterations)

(* The discipline can be followed (main.ts:205).  The code does not have it:   *)
(* the agent's own is outside of the project, so reading it is refused.      *)
DisciplineCanBeRead ==
    \A a \in 1..alive :
        minds[a].at = "called" => ~(minds[a].call = "read skill" /\ Decision("read skill") = "deny"
                                    /\ duty.skill # "none")

(* A question reaches the person.  The code does not have it: of two at once   *)
(* the second is never answered.                                             *)
EveryQuestionIsPut ==
    \A a \in 1..alive : minds[a].at # "lost"

(* One reminder (main.ts:162).  The code does not have it.                     *)
RemindedOnce ==
    \A a \in 1..alive : minds[a].at # "off" => minds[a].reminders <= 1

(* In the automatic mode a pass was measured by somebody.  The code does not   *)
(* have it: nothing but the model's words is asked.                           *)
PassIsMeasured ==
    result = "pass" => did.ran

(* The files reported by a repair are those it changed (main.ts:65).  The code  *)
(* does not have it: an edit is reported before it is tried, and what a       *)
(* command or the index of the tools writes is not.                          *)
ChangedFilesAreTrue ==
    result = "changed" => (did.changed <=> touched # {})
=============================================================================
