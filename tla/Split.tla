---------------------------------- MODULE Split ----------------------------------
(***************************************************************************)
(* The architect splits a phase (E/architect.ts): it consults the person,  *)
(* plans, chooses a stack, asks for leave to begin, lays the foundation and *)
(* dispatches a blueprint with one batch per work item.  The graph of these *)
(* nodes is run again from its start at every answer (E/GraphFactory.ts).   *)
(* Phases come one after the other; the process may be killed anywhere.     *)
(***************************************************************************)
EXTENDS Naturals, Sequences, Functions

CONSTANTS
    Phases,     \* number of phases
    Modes,      \* confirm modes: 0 automatic, 1 mixed, 2 manual, of which 1 and 2 act alike
    Topics,     \* what the model may want to know
    MaxTurns,   \* answers an interaction takes, MAX_INTERACTION_TURNS
    Pieces,      \* number of work items of a blueprint
    CheckIds,        \* ids of acceptance checks
    Kills       \* how often the process is killed

VARIABLES
    mode,       \* the project's confirm mode
    phase,      \* the phase at hand
    at,         \* the node at work
    thread,     \* the state of the graph, in memory
    disk,       \* foundation laid, blueprint and batches of the phase
    cards,      \* questions kept by the server, by their id
    bus,        \* what the developer and the maintainer were sent
    kills

vars == <<mode, phase, at, thread, disk, cards, bus, kills>>

None == "none"

\* what an answer of the model can carry: the checks of a blueprint or batch
Checks == UNION {[1..n -> CheckIds] : n \in 0..2}

Fresh(boot) ==
    [question |-> None, answer |-> None, human |-> None, yes |-> None,
     history |-> <<>>, turns |-> 0, boot |-> boot, item |-> 0, sent |-> FALSE,
     leave |-> FALSE]

\* nothing generated, nothing dispatched
Bare(boot) == [boot |-> boot, files |-> <<>>, half |-> FALSE, keys |-> 0]
Silent == [declared |-> FALSE, cancelled |-> FALSE, empty |-> FALSE]

Init ==
    /\ mode \in Modes
    /\ phase = 1
    /\ at = "split"
    /\ thread = Fresh(FALSE)
    /\ disk = Bare(FALSE)
    /\ cards = [n \in 0..MaxTurns |-> None]
    /\ bus = Silent
    /\ kills = 0

(***************************************************************************)
(* The nodes                                                                *)
(***************************************************************************)

\* A phase begins with what an earlier one left on disk, a new thread, and the
\* mode the person has chosen meanwhile.
runPhaseSplit ==
    /\ at = "split"
    /\ mode' \in Modes
    /\ thread' = Fresh(disk.boot)
    /\ at' = "consult"
    /\ UNCHANGED <<phase, disk, cards, bus, kills>>

\* A call of the model whose retries are used up ends the split.
Fails ==
    /\ at \in {"consult", "plan", "stack", "base"}
    /\ at = "consult" => mode # 0 /\ ~thread.boot
    /\ at' = "thrown"
    /\ UNCHANGED <<mode, phase, thread, disk, cards, bus, kills>>

\* Whatever was answered goes to the question of the node, and is then forgotten.
architectConsult ==
    /\ at = "consult"
    /\ at' = "gate"
    /\ \E q \in IF thread.boot \/ mode = 0 THEN {None} ELSE Topics \union {None} :
          thread' = [thread EXCEPT
              !.history = IF thread.answer # None /\ thread.question # None
                          THEN Append(@, <<thread.question, thread.answer>>) ELSE @,
              !.question = q, !.human = None, !.answer = None]
    /\ UNCHANGED <<mode, phase, disk, cards, bus, kills>>

\* The id of a question is its number in the history.
consultGate ==
    /\ at = "gate"
    /\ IF thread.question = None
       THEN at' = "plan" /\ UNCHANGED thread
       ELSE /\ at' = "ended"
            /\ thread' = [thread EXCEPT !.human = <<"consult", Len(thread.history)>>]
    /\ UNCHANGED <<mode, phase, disk, cards, bus, kills>>

\* architectPlan, architectStack and base ask the model for a document each
Thinks ==
    /\ at \in {"plan", "stack", "base"}
    /\ at' = CASE at = "plan" -> (IF thread.boot THEN "dispatch" ELSE "stack")
               [] at = "stack" -> "confirm"
               [] at = "base" -> "bootstrap"
    /\ UNCHANGED <<mode, phase, thread, disk, cards, bus, kills>>

confirmGate ==
    /\ at = "confirm"
    /\ LET yes == IF thread.answer # None THEN thread.answer ELSE "y" IN
       IF thread.answer # None \/ mode = 0
       THEN /\ thread' = [thread EXCEPT !.yes = yes, !.human = None, !.answer = None]
            /\ at' = IF yes = "y" THEN "base" ELSE "ended"
       ELSE /\ thread' = [thread EXCEPT !.human = <<"confirm">>]
            /\ at' = IF thread.yes = "y" THEN "base" ELSE "ended"
    /\ UNCHANGED <<mode, phase, disk, cards, bus, kills>>

\* A foundation that fails is passed over, one that is laid may fail to be noted.
bootstrap ==
    /\ at = "bootstrap"
    /\ at' = "dispatch"
    /\ \/ UNCHANGED <<thread, disk>>
       \/ \E noted \in BOOLEAN :
             /\ thread' = [thread EXCEPT !.boot = TRUE]
             /\ disk' = [disk EXCEPT !.boot = @ \/ noted]
    /\ UNCHANGED <<mode, phase, cards, bus, kills>>

(***************************************************************************)
(* Dispatch: the blueprint is piece 0, the batches of the items follow; what *)
(* is on disk is taken from there, and what the ledger holds is not sent.   *)
(***************************************************************************)

\* Mutant: the checks of batches are not added to those already delivered.
DeliveredByBlueprint ==
    IF thread.item = 0 \/ disk.files = <<>> THEN {} ELSE Range(disk.files[1])

\* the ids of the pieces this run has been through
Delivered == UNION {Range(disk.files[k]) : k \in 1..thread.item}

\* A piece is refused if it has ids of earlier ones; a blueprint needs a check.
Accepted(c) ==
    /\ Range(c) \intersect Delivered = {}
    /\ thread.item = 0 => c # <<>>

\* the next piece has to be generated
Missing ==
    /\ at = "dispatch" /\ bus.declared
    /\ thread.item = Len(disk.files) /\ thread.item <= Pieces

declare ==
    /\ at = "dispatch" /\ ~bus.declared
    /\ bus' = [bus EXCEPT !.declared = TRUE]
    /\ UNCHANGED <<mode, phase, at, thread, disk, cards, kills>>

decompose ==
    /\ Missing /\ ~disk.half
    /\ \E c \in Checks :
          /\ Accepted(c)
          /\ disk' = [disk EXCEPT !.files = Append(@, c)]
    /\ UNCHANGED <<mode, phase, at, thread, cards, bus, kills>>

\* The ledger of dispatches outlives the process; its keys are those of the pieces.
isDuplicate == thread.item < disk.keys
markDispatched == [disk EXCEPT !.keys = thread.item + 1]

sendOnce ==
    /\ at = "dispatch" /\ bus.declared
    /\ thread.item < Len(disk.files)
    /\ thread' = [thread EXCEPT !.item = @ + 1]
    /\ disk' = IF isDuplicate THEN disk ELSE markDispatched
    /\ UNCHANGED <<mode, phase, at, cards, bus, kills>>

\* Mutant: a phase whose batch fails is declared empty at once.
abortedIsEmpty ==
    /\ Missing
    /\ bus' = [bus EXCEPT !.cancelled = thread.item > 0, !.empty = ~thread.sent]
    /\ at' = "thrown"
    /\ UNCHANGED <<mode, phase, thread, disk, cards, kills>>

\* All attempts at a piece are refused, or its file is torn: the developer is
\* told to give up, if it has been told to begin.
abortBatch ==
    /\ Missing
    /\ bus' = [bus EXCEPT !.cancelled = thread.item > 0]
    /\ at' = "thrown"
    /\ UNCHANGED <<mode, phase, thread, disk, cards, kills>>

dispatched ==
    /\ at = "dispatch" /\ thread.item = Pieces + 1
    /\ thread' = [thread EXCEPT !.sent = TRUE]
    /\ at' = "ended"
    /\ UNCHANGED <<mode, phase, disk, cards, bus, kills>>

(***************************************************************************)
(* Around the graph                                                         *)
(***************************************************************************)

\* A question that is on file is answered from there; a leave to begin has an
\* id of its own each time.  The answer starts the graph anew.
Ask ==
    /\ at = "ended" /\ thread.human # None /\ thread.turns < MaxTurns
    /\ \E reply \in {"y", "n"} :
          IF thread.human = <<"confirm">>
          THEN /\ thread' = [thread EXCEPT !.answer = reply, !.turns = @ + 1,
                                           !.leave = reply = "y"]
               /\ UNCHANGED cards
          ELSE LET n == thread.human[2]
                   card == IF cards[n] = None THEN <<thread.question, reply>>
                           ELSE cards[n] IN
               /\ cards' = [cards EXCEPT ![n] = card]
               /\ thread' = [thread EXCEPT !.answer = card[2], !.turns = @ + 1]
    /\ at' = "consult"
    /\ UNCHANGED <<mode, phase, disk, bus, kills>>

\* nothing was handed to the developer
Empty == ~thread.sent

\* The interaction is over: a phase without work is declared to have none.
Close ==
    /\ at = "ended"
    /\ thread.human = None \/ thread.turns = MaxTurns
    /\ bus' = [bus EXCEPT !.empty = Empty]
    /\ at' = "settled"
    /\ UNCHANGED <<mode, phase, thread, disk, cards, kills>>

NextPhase ==
    /\ at = "settled" /\ phase < Phases
    /\ phase' = phase + 1
    /\ disk' = Bare(disk.boot)
    /\ bus' = Silent
    /\ at' = "split"
    /\ UNCHANGED <<mode, thread, cards, kills>>

\* The process dies, perhaps over a file it was writing.
Kill ==
    /\ kills < Kills
    /\ at # "split"
    /\ kills' = kills + 1
    /\ at' = "split"
    /\ \E torn \in IF Missing THEN BOOLEAN ELSE {FALSE} :
          disk' = [disk EXCEPT !.half = @ \/ torn]
    /\ bus' = Silent
    /\ UNCHANGED <<mode, phase, thread, cards>>

\* After the last phase, or after an error nobody handles, nothing goes on.
Over ==
    /\ at = "thrown" \/ (at = "settled" /\ phase = Phases)
    /\ UNCHANGED vars

Next ==
    \/ runPhaseSplit \/ architectConsult \/ consultGate \/ Thinks \/ Fails
    \/ confirmGate \/ bootstrap
    \/ declare \/ decompose \/ sendOnce \/ abortBatch \/ dispatched
    \/ Ask \/ Close \/ NextPhase \/ Over \/ Kill

(***************************************************************************)
(* Properties                                                               *)
(***************************************************************************)

TypeOK ==
    /\ mode \in Modes /\ phase \in 1..Phases /\ kills \in 0..Kills
    /\ at \in {"split", "consult", "gate", "plan", "stack", "confirm", "base",
              "bootstrap", "dispatch", "ended", "settled", "thrown"}
    /\ thread.turns \in 0..MaxTurns /\ thread.item \in 0..(Pieces + 1)
    /\ thread.question \in Topics \union {None}
    /\ \A k \in DOMAIN disk.files : disk.files[k] \in Checks

(* The maintainer is told of a phase either to wait for a task or that there *)
(* is none, never both (architect.ts:1485): else the phase would be closed  *)
(* over the work just handed out.                                           *)
OneDeclaration == ~(bus.declared /\ bus.empty)

(* No two pieces of a blueprint bear one check id, over restarts and pieces *)
(* taken from disk too (architectAgent.ts, the gate on ids): the developer  *)
(* drops a check whose id it knows, and the item would go unchecked.        *)
PiecesDoNotCollide ==
    \A j, k \in DOMAIN disk.files :
        j # k => Range(disk.files[j]) \intersect Range(disk.files[k]) = {}

(* A person whose last word is to begin sees work begin (architect.ts:825). *)
(* The code does not have it.                                               *)
YesBeginsWork == thread.leave => ~bus.empty

(* An answer in the history was given to the question it stands beside      *)
(* (architect.ts:811).  The code does not have it.                          *)
AnswersFitQuestions ==
    \A i \in DOMAIN thread.history :
        cards[i - 1][1] = thread.history[i][1]

(* All check ids are unique (architectAgent.ts:459).  The code does not     *)
(* have it: ids that occur twice in one batch pass.                         *)
IdsAreUnique == \A k \in DOMAIN disk.files : IsInjective(disk.files[k])
=============================================================================
