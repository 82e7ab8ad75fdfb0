--------------------------------- MODULE Probe ----------------------------------
(***************************************************************************)
(* The developer's rehearsal of its checks (developerAgent/tools/           *)
(* runAcceptance.ts): commands are run, and for each contract a service is  *)
(* started, asked and killed (E/contractProbeCore.ts); what the checks gave *)
(* is compared with the rehearsal before (developerAgent/regression.ts).    *)
(***************************************************************************)
EXTENDS Naturals, Sequences, FiniteSets

CONSTANTS
    Order,        \* the checks of the task, in the order of the task
    Intent,       \* what each of them asks for
    MaxTries,     \* ports tried for one service (4 in the code)
    Rehearsals,   \* how often the developer rehearses
    Reworks       \* how often it changes the code in between

VARIABLES
    works,      \* the checks that the code in the tree meets, and the changes so far
    store,      \* the data files of the service: are there rows in them?
    running,    \* "own": the service of this probe; "left": one that an earlier one has left
    rehearsal,  \* the call under way
    probe,      \* the contract under way
    baseline,   \* what the last rehearsal found, in the ledger
    told,       \* the last report, until the next call
    known       \* what was last found for each check (for the properties)

vars == <<works, store, running, rehearsal, probe, baseline, told, known>>

Checks  == {Order[i] : i \in DOMAIN Order}
Found   == {"none", "pass", "fail", "unevaluable"}
Unfound == [c \in Checks |-> "none"]
NoProbe == [at |-> "off", try |-> 0, clash |-> FALSE, dirty |-> FALSE, by |-> "none",
            names |-> {}, accepted |-> {}, step |-> 0, result |-> "none"]
NoCall  == [at |-> "off", nr |-> 0, todo |-> {}, asked |-> {}, resets |-> FALSE,
            serve |-> FALSE, found |-> Unfound, listed |-> {}]
NoReport == [ok |-> FALSE, asked |-> {}, found |-> Unfound, listed |-> {}, regressed |-> {},
             fresh |-> FALSE]

TypeOK ==
    /\ works \in [met : SUBSET Checks, nr : 0..Reworks] /\ store \in BOOLEAN
    /\ running \subseteq {"own", "left"}
    /\ rehearsal.at \in {"off", "item", "probe"} /\ rehearsal.nr \in 0..Rehearsals
    /\ rehearsal.found \in [Checks -> Found] /\ rehearsal.listed \subseteq Checks
    /\ probe.at \in {"off", "reset", "spawn", "boot", "auth", "setup", "kill"}
    /\ probe.try \in 0..MaxTries /\ probe.result \in Found
    /\ baseline \in [Checks -> Found] /\ known \in [Checks -> Found]
    /\ told.regressed \subseteq Checks

Init ==
    /\ works \in [met : SUBSET Checks, nr : {0}]
    /\ store \in BOOLEAN /\ running \in {{}, {"left"}}      \* an earlier task may have been here
    /\ rehearsal = NoCall /\ probe = NoProbe
    /\ baseline = Unfound /\ told = NoReport /\ known = Unfound

-----------------------------------------------------------------------------
(* What can be run, and what can be judged at all *)

\* A maven or gradle wrapper, a package with a script that builds, python or go.
HasEntry(files) == files \cap {"mvnw", "gradlew", "package.build", "pyproject", "go.mod"} # {}

\* A command, a compilation whose directory has a known entry, a contract with a path.
Runnable(c) ==
    \/ Intent[c].kind = "command"
    \/ Intent[c].kind = "compile" /\ HasEntry(Intent[c].files)
    \/ Intent[c].kind = "contract" /\ Intent[c].path

\* The names each request uses are given by the steps before it, and by nothing else.
Unresolved(intent) ==
    LET given(i) == {intent.setup[j].gives : j \in 1..i-1} IN
    \/ \E i \in DOMAIN intent.setup : ~(intent.setup[i].uses \subseteq given(i))
    \/ ~(intent.uses \subseteq given(Len(intent.setup) + 1))

\* An assertion is one modifier, or "each" with a least length, and "each" holds one in turn.
Evaluable(shape) ==
    /\ Cardinality(shape.says) = 1 \/ shape.says = {"each", "minLength"}
    /\ "each" \in shape.says => Cardinality(shape.each) = 1

\* All assertions are evaluated; one that cannot be is no pass, but no fault of the code either
\* unless another one fails.
Assertions(intent, hold) ==
    IF \A i \in DOMAIN intent.asserts : Evaluable(intent.asserts[i])
    THEN IF hold THEN "pass" ELSE "fail"
    ELSE IF hold \/ \A i \in DOMAIN intent.asserts : ~Evaluable(intent.asserts[i])
         THEN "unevaluable" ELSE "fail"

-----------------------------------------------------------------------------
(* The rehearsal *)

Rework ==
    /\ rehearsal.at = "off" /\ works.nr < Reworks
    /\ \E met \in SUBSET Checks : works' = [met |-> met, nr |-> works.nr + 1]
    /\ UNCHANGED <<store, running, rehearsal, probe, baseline, told, known>>

\* All checks or only some of them; the data to delete is that of the call, and what the
\* check itself declares is read and dropped.
runAcceptance ==
    /\ rehearsal.at = "off" /\ rehearsal.nr < Rehearsals
    /\ \E only \in SUBSET Checks \ {{}}, resets \in BOOLEAN, serve \in BOOLEAN :
           rehearsal' = [NoCall EXCEPT !.at = "item", !.nr = rehearsal.nr + 1, !.asked = only,
                             !.resets = resets, !.serve = serve,
                             !.todo = {i \in DOMAIN Order : Order[i] \in only /\ Runnable(Order[i])}]
    /\ told' = NoReport
    /\ UNCHANGED <<works, store, running, probe, baseline, known>>

AtItem == rehearsal.at = "item" /\ rehearsal.todo # {}
First  == CHOOSE i \in rehearsal.todo : \A j \in rehearsal.todo : i <= j
Item   == Order[First]

\* A result is noted; only what a contract failed by gets into the list of ids.
Notes(result, listed) ==
    rehearsal' = [rehearsal EXCEPT !.at = "item", !.todo = @ \ {First}, !.found[Item] = result,
                      !.listed = IF listed /\ result = "fail" THEN @ \cup {Item} ELSE @]

\* Exit 0, in time, with nothing written out of bounds.
RunsCommand ==
    /\ AtItem /\ Intent[Item].kind \in {"command", "compile"}
    /\ \E late \in BOOLEAN : Notes(IF Item \in works.met /\ ~late THEN "pass" ELSE "fail", FALSE)
    /\ UNCHANGED <<works, store, running, probe, baseline, told, known>>

\* Neither the call nor the project says how to start the service.
ServeUnknown ==
    /\ AtItem /\ Intent[Item].kind = "contract" /\ ~rehearsal.serve
    /\ Notes("fail", FALSE)
    /\ UNCHANGED <<works, store, running, probe, baseline, told, known>>

Contract == AtItem /\ Intent[Item].kind = "contract" /\ rehearsal.serve

\* Found out before anything is started.
Precheck ==
    /\ Contract /\ Unresolved(Intent[Item])
    /\ Notes("unevaluable", TRUE)
    /\ UNCHANGED <<works, store, running, probe, baseline, told, known>>

Probes ==
    /\ Contract /\ ~Unresolved(Intent[Item])
    /\ rehearsal' = [rehearsal EXCEPT !.at = "probe"]
    /\ probe' = [NoProbe EXCEPT !.at = "reset", !.try = 1]
    /\ UNCHANGED <<works, store, running, baseline, told, known>>

\* What passed in the rehearsal before and does not in this one.
Regressed(found) == {c \in Checks : baseline[c] = "pass" /\ found[c] \notin {"none", "pass"}}

\* The last rehearsal is the only one that is looked up.
Saves(found) == baseline' = found

\* The report, when nothing is left to do or the time is up.
Report ==
    /\ rehearsal.at = "item"
    /\ LET found     == rehearsal.found
           measured  == {c \in Checks : found[c] # "none"}
           regressed == Regressed(found)
           runnable  == {c \in rehearsal.asked : Runnable(c)}
       IN  /\ told' = [ok |-> runnable # {} /\ \A c \in measured : found[c] = "pass",
                       asked |-> runnable, found |-> found, listed |-> rehearsal.listed,
                       regressed |-> regressed,
                       fresh |-> \A c \in measured : known[c] = "pass" /\ found[c] # "pass"
                                                        => c \in regressed]
           /\ Saves(found)
           /\ known' = [c \in Checks |-> IF c \in measured THEN found[c] ELSE known[c]]
    /\ rehearsal' = [NoCall EXCEPT !.nr = rehearsal.nr]
    /\ UNCHANGED <<works, store, running, probe>>

\* The process of the developer dies in the middle; its child lives on.
Dies ==
    /\ rehearsal.at # "off"
    /\ running' = IF "own" \in running THEN {"left"} ELSE running
    /\ rehearsal' = [NoCall EXCEPT !.nr = rehearsal.nr] /\ probe' = NoProbe
    /\ UNCHANGED <<works, store, baseline, told, known>>

-----------------------------------------------------------------------------
(* The probe of one contract *)

Probing(at) == rehearsal.at = "probe" /\ probe.at = at
Ends(result) == probe' = [probe EXCEPT !.at = "kill", !.result = result]

\* The files that are there are deleted, or cannot be, which ends the probe.
Reset ==
    /\ Probing("reset")
    /\ IF rehearsal.resets /\ store
       THEN \/ /\ store' = FALSE
               /\ probe' = [probe EXCEPT !.at = "spawn"]
            \/ Ends("fail") /\ UNCHANGED store
       ELSE /\ probe' = [probe EXCEPT !.at = "spawn", !.dirty = store]
            /\ UNCHANGED store
    /\ UNCHANGED <<works, running, rehearsal, baseline, told, known>>

Spawn ==
    /\ Probing("spawn")
    /\ \/ running' = running \cup {"own"} /\ probe' = [probe EXCEPT !.at = "boot"]
       \/ Ends("fail") /\ UNCHANGED running
    /\ UNCHANGED <<works, store, rehearsal, baseline, told, known>>

\* Something answers at the port: the service, or another one that has the port already.
Answers ==
    /\ Probing("boot")
    /\ \E by \in running : probe' = [probe EXCEPT !.at = "auth", !.by = by]
    /\ UNCHANGED <<works, store, running, rehearsal, baseline, told, known>>

\* Killed with what it has started, or only the outer process of the two.
killTree == running' \in {running \ {"own"},
                          IF "own" \in running THEN {"left"} ELSE running}

\* No answer in time, or the process is over.  Another port is tried if the output of all
\* tries so far speaks of a port in use; the data is not deleted again.
BootFails ==
    /\ Probing("boot")
    /\ killTree
    /\ \E clash \in {probe.clash, TRUE} :
           probe' = IF clash /\ probe.try < MaxTries
                    THEN [probe EXCEPT !.at = "spawn", !.try = probe.try + 1, !.clash = TRUE]
                    ELSE [probe EXCEPT !.at = "kill", !.result = "fail"]
    /\ store' \in {store, TRUE}
    /\ UNCHANGED <<works, rehearsal, baseline, told, known>>

\* The token, if the contract wants one.
Authorizes ==
    /\ Probing("auth")
    /\ \/ probe' = [probe EXCEPT !.at = "setup", !.step = 1]
       \/ Intent[Item].auth /\ Ends("fail")
    /\ UNCHANGED <<works, store, running, rehearsal, baseline, told, known>>

Setup == Intent[Item].setup

\* Mutant: a step that is refused is passed over.
SetupStepGoesOn ==
    /\ Probing("setup") /\ probe.step <= Len(Setup)
    /\ \E taken \in BOOLEAN :
           probe' = [probe EXCEPT !.step = probe.step + 1, !.names = @ \cup {Setup[probe.step].gives},
                         !.accepted = IF taken THEN @ \cup {probe.step} ELSE @]
    /\ store' \in {store, TRUE}
    /\ UNCHANGED <<works, running, rehearsal, baseline, told, known>>

\* One step of preparation: refused, or without the value to be taken from it, ends the probe.
SetupStep ==
    /\ Probing("setup") /\ probe.step <= Len(Setup)
    /\ \/ probe' = [probe EXCEPT !.step = probe.step + 1, !.names = @ \cup {Setup[probe.step].gives},
                        !.accepted = @ \cup {probe.step}]
       \/ Ends("fail")
    /\ store' \in {store, TRUE}
    /\ UNCHANGED <<works, running, rehearsal, baseline, told, known>>

\* The request itself: its status, a word in the text, the assertions.  The right code answers
\* as it should on the data it is meant for; another service answers as it will.
AsksServer ==
    /\ Probing("setup") /\ probe.step > Len(Setup)
    /\ \E hold \in BOOLEAN, status \in BOOLEAN :
           /\ hold => status
           /\ probe.by = "own" /\ ~probe.dirty => (hold <=> Item \in works.met)
           /\ Ends(IF status THEN Assertions(Intent[Item], hold) ELSE "fail")
    /\ store' \in {store, TRUE}
    /\ UNCHANGED <<works, running, rehearsal, baseline, told, known>>

\* The request, or any before it, gets no answer in time; the time of the probe is up.
Fails ==
    /\ rehearsal.at = "probe" /\ probe.at \in {"spawn", "boot", "auth", "setup"}
    /\ Ends("fail")
    /\ UNCHANGED <<works, store, running, rehearsal, baseline, told, known>>

\* Whatever happened, the service is killed, and the result is noted.
Kill ==
    /\ Probing("kill")
    /\ killTree
    /\ Notes(probe.result, TRUE)
    /\ probe' = NoProbe
    /\ UNCHANGED <<works, store, baseline, told, known>>

Stay == UNCHANGED vars

Next ==
    \/ Rework \/ runAcceptance \/ RunsCommand \/ ServeUnknown \/ Precheck \/ Probes \/ Report \/ Dies
    \/ Reset \/ Spawn \/ Answers \/ BootFails \/ Authorizes \/ SetupStep \/ AsksServer \/ Fails \/ Kill
    \/ Stay

Spec == Init /\ [][Next]_vars

-----------------------------------------------------------------------------
(* Properties *)

\* A contract passes only if everything it prepares was accepted, every name in its request
\* was given a value and every assertion could be judged (runContractProbe: "never ask the main
\* request after a preparation that failed"), over retries of the port and deaths in between.
NoPassUnprepared ==
    probe.result = "pass" =>
        /\ probe.accepted = DOMAIN Setup
        /\ Intent[Item].uses \subseteq probe.names
        /\ \A i \in DOMAIN Intent[Item].asserts : Evaluable(Intent[Item].asserts[i])

\* Not so in the code: a rehearsal that is green has run all it was asked to run.
GreenMeansAllRan == told.ok => \A c \in told.asked : told.found[c] # "none"

\* Not so in the code: the list of failed checks is complete.
FailedAreListed == {c \in Checks : told.found[c] = "fail"} \subseteq told.listed

\* Not so in the code: a check that has passed and does not any more is named as a regression.
BrokenIsNamed == told # NoReport => told.fresh

\* Not so in the code: a contract that declares its data is judged from a clean start.
StartIsClean ==
    probe.result = "pass" /\ Intent[Item].resets => ~probe.dirty

\* Not so in the code: what is judged is the service that was started.
OwnIsJudged == probe.result = "pass" => probe.by = "own"

\* Not so in the code: no path leaves a process in the background.
NothingIsLeft == rehearsal.at = "off" => running = {}
=============================================================================
