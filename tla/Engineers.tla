-------------------------------- MODULE Engineers --------------------------------
(***************************************************************************)
(* An engineer of the older line (BackendEngineer, FrontendEngineer): a     *)
(* task passes through a sketch (queue one) to the code (queue two), where  *)
(* its files are made one after the other, by the loop with the file tools  *)
(* or in one shot, written out, and tried with the real compiler.  No       *)
(* driver of the repository creates these two classes at present; merger    *)
(* and tester, to whom they report, are outside.  An exception that leaves  *)
(* a worker ends the process and is not modelled.                           *)
(***************************************************************************)
EXTENDS Naturals, Sequences, FiniteSets

CONSTANTS
    FilesOf,      \* the files of each task, in order
    Reserved,     \* paths that are the engine's own
    Seats,        \* tasks in code at once (the gate)
    MaxRounds,    \* rounds of the tool loop before the round of grace
    MaxAttempt,   \* shots without tools
    Repairs,      \* how often a task is sent back by the compiler
    Marks,        \* signatures of failures
    Deliveries    \* how often a task is sent, the first time included

VARIABLES
    bench,        \* each task: where it is and how far
    shelf,        \* who wrote each path last; "old": what was there before
    toolMode,     \* the setting, until the tools fail once
    burnt         \* signatures in the ledger of failures

vars == <<bench, shelf, toolMode, burnt>>

Jobs  == DOMAIN FilesOf
Paths == UNION {{FilesOf[j][i] : i \in DOMAIN FilesOf[j]} : j \in Jobs}

Coding == {"tools", "editing", "landed", "patching", "shots", "out", "trying"}
InWork == {"asked", "sketched"} \cup Coding

Fresh == [stage |-> "away", pos |-> 1, round |-> 1, quiet |-> FALSE, tries |-> 1, base |-> "old",
          put |-> {}, end |-> "none", got |-> 0, told |-> 0, repaired |-> 0]

TypeOK ==
    /\ bench \in [Jobs -> [stage : {"away"} \cup InWork, pos : 1..2, round : 1..(MaxRounds + 1),
                           quiet : BOOLEAN, tries : 1..MaxAttempt, base : Jobs \cup {"old"},
                           put : SUBSET Paths, end : {"none", "good", "unmade", "refused", "broken"},
                           got : 0..Deliveries, told : 0..Deliveries, repaired : 0..Repairs]]
    /\ shelf \in [Paths -> Jobs \cup {"old"}]
    /\ toolMode \in BOOLEAN /\ burnt \subseteq Marks

Init ==
    /\ bench = [j \in Jobs |-> Fresh]
    /\ shelf = [p \in Paths |-> "old"]
    /\ toolMode \in BOOLEAN
    /\ burnt = {}

Target(j) == FilesOf[j][bench[j].pos]
Patching(j) == bench[j].stage \in {"editing", "patching"}
Held(p)   == \E k \in Jobs : Patching(k) /\ Target(k) = p
Change(j, r) == bench' = [bench EXCEPT ![j] = r]

\* A file is begun: with the tools while they are on, else in one shot.
Begun(r) == [r EXCEPT !.round = 1, !.quiet = FALSE, !.tries = 1, !.base = "old",
                      !.stage = IF toolMode THEN "tools" ELSE "shots"]

\* The task is reported to the merger.
Told(r, end) == [r EXCEPT !.stage = "away", !.told = r.told + 1, !.end = end,
                          !.pos = 1, !.round = 1, !.quiet = FALSE, !.tries = 1, !.base = "old"]

\* What comes after a file that was made: the next, or writing all of them out.
Made(j) ==
    LET r == bench[j]
    IN  IF r.pos = Len(FilesOf[j])
        THEN [r EXCEPT !.stage = "out", !.round = 1, !.quiet = FALSE, !.tries = 1, !.base = "old"]
        ELSE Begun([r EXCEPT !.pos = r.pos + 1])

-----------------------------------------------------------------------------
(* The two queues *)

\* A task from the architect, or a revision of one that was reported.
Take(j) ==
    /\ bench[j].stage = "away" /\ bench[j].got < Deliveries
    /\ Change(j, [bench[j] EXCEPT !.stage = "asked", !.got = bench[j].got + 1,
                                  !.put = {}, !.end = "none"])
    /\ UNCHANGED <<shelf, toolMode, burnt>>

\* The sketch is left out for a small task and after three failures; the task goes on.
Sketch(j) ==
    /\ bench[j].stage = "asked"
    /\ Change(j, [bench[j] EXCEPT !.stage = "sketched"])
    /\ UNCHANGED <<shelf, toolMode, burnt>>

Open(j) ==
    /\ bench[j].stage = "sketched"
    /\ Cardinality({k \in Jobs : bench[k].stage \in Coding}) < Seats
    /\ Change(j, IF FilesOf[j] = <<>> THEN Told(bench[j], "good") ELSE Begun(bench[j]))
    /\ UNCHANGED <<shelf, toolMode, burnt>>

-----------------------------------------------------------------------------
(* One file with the tools *)

\* A loop that ends with nothing landed leaves the file to the shots.
NextRound(r) ==
    IF r.round = MaxRounds + 1 THEN [r EXCEPT !.stage = "shots", !.round = 1, !.quiet = FALSE]
                               ELSE [r EXCEPT !.round = r.round + 1]

\* A round of reading, or of deliveries the checks refuse; in the last round and in the
\* one of grace what is read is refused as well.
Look(j) ==
    /\ bench[j].stage = "tools"
    /\ Change(j, NextRound(bench[j]))
    /\ UNCHANGED <<shelf, toolMode, burnt>>

\* A round without any call: once it is reminded of the tools, then given up.
Silent(j) ==
    /\ bench[j].stage = "tools"
    /\ Change(j, IF bench[j].quiet
                 THEN [bench[j] EXCEPT !.stage = "shots", !.round = 1, !.quiet = FALSE]
                 ELSE NextRound([bench[j] EXCEPT !.quiet = TRUE]))
    /\ UNCHANGED <<shelf, toolMode, burnt>>

\* The file lands: on the disk, in the task's memory, and as the end of the loop.
Land(j) ==
    /\ shelf' = [shelf EXCEPT ![Target(j)] = j]
    /\ Change(j, [bench[j] EXCEPT !.stage = "landed", !.base = "old",
                                  !.put = @ \cup {Target(j)}])
    /\ UNCHANGED <<toolMode, burnt>>

\* The whole file: checked before the path is locked.
Write(j) == bench[j].stage \in {"tools", "landed"} /\ ~Held(Target(j)) /\ Land(j)

\* A patch: under the lock the text is read, from the task's memory if it is there.
EditBegins(j) ==
    /\ bench[j].stage \in {"tools", "landed"} /\ ~Held(Target(j))
    /\ Change(j, IF bench[j].stage = "landed"
                 THEN [bench[j] EXCEPT !.stage = "patching", !.base = j]
                 ELSE [bench[j] EXCEPT !.stage = "editing", !.base = shelf[Target(j)]])
    /\ UNCHANGED <<shelf, toolMode, burnt>>

EditLands(j) == Patching(j) /\ Land(j)

\* What the checks refuse is not written; an earlier call of the round may have landed.
EditRefused(j) ==
    /\ Patching(j)
    /\ Change(j, LET r == [bench[j] EXCEPT !.base = "old"]
                 IN  IF r.stage = "patching" THEN [r EXCEPT !.stage = "landed"]
                                             ELSE NextRound([r EXCEPT !.stage = "tools"]))
    /\ UNCHANGED <<shelf, toolMode, burnt>>

RoundOver(j) ==
    /\ bench[j].stage = "landed"
    /\ Change(j, Made(j))
    /\ UNCHANGED <<shelf, toolMode, burnt>>

\* An exception of a call: no tools any more in this process.
Breaks(j) ==
    /\ bench[j].stage = "tools"
    /\ toolMode' = FALSE
    /\ Change(j, [bench[j] EXCEPT !.stage = "shots", !.round = 1, !.quiet = FALSE])
    /\ UNCHANGED <<shelf, burnt>>

-----------------------------------------------------------------------------
(* One file in one shot *)

ShotPasses(j) ==
    /\ bench[j].stage = "shots"
    /\ Change(j, Made(j))
    /\ UNCHANGED <<shelf, toolMode, burnt>>

\* No code, code that the checks refuse, or an exception.
ShotFails(j) ==
    /\ bench[j].stage = "shots"
    /\ Change(j, IF bench[j].tries < MaxAttempt
                 THEN [bench[j] EXCEPT !.tries = bench[j].tries + 1]
                 ELSE Told(bench[j], "unmade"))
    /\ UNCHANGED <<shelf, toolMode, burnt>>

-----------------------------------------------------------------------------
(* The whole task *)

\* decideWrite for the paths of a task: what is the engine's own is refused.
Refused(j) == {i \in DOMAIN FilesOf[j] : FilesOf[j][i] \in Reserved}

\* The files go out one by one up to the first that is refused.  A path is claimed and
\* released within this step, and the lock of the tools is not asked for.
WriteOut(j) ==
    /\ bench[j].stage = "out"
    /\ LET written == {FilesOf[j][i] : i \in {n \in DOMAIN FilesOf[j] : \A m \in Refused(j) : n < m}}
           r       == [bench[j] EXCEPT !.put = @ \cup written]
       IN  /\ shelf' = [p \in Paths |-> IF p \in written THEN j ELSE shelf[p]]
           /\ Change(j, IF Refused(j) = {} THEN [r EXCEPT !.stage = "trying"] ELSE Told(r, "refused"))
    /\ UNCHANGED <<toolMode, burnt>>

\* The task is with the compiler; what it finds may lie in files of any task.
Trying(j) == bench[j].stage = "trying"

\* The ledger of failures: whether this one was met before, in whichever task.
Known(m) == m \in burnt

\* The compiler is content, or there is none to ask.
Passes(j) ==
    /\ Trying(j)
    /\ Change(j, Told(bench[j], "good"))
    /\ UNCHANGED <<shelf, toolMode, burnt>>

\* Mutant: what is sent back is reported as well.
FailsAndTells(j) ==
    /\ Trying(j)
    /\ \E m \in Marks :
           /\ burnt' = burnt \cup {m}
           /\ Change(j, LET r == Told(bench[j], "broken")
                        IN  IF Known(m) \/ bench[j].repaired = Repairs THEN r
                            ELSE [r EXCEPT !.stage = "asked", !.repaired = @ + 1])
    /\ UNCHANGED <<shelf, toolMode>>

\* It is not: back to the first queue, unless the ledger knows the failure or the repairs
\* of this task are used up.
Fails(j) ==
    /\ Trying(j)
    /\ \E m \in Marks :
           /\ burnt' = burnt \cup {m}
           /\ Change(j, IF Known(m) \/ bench[j].repaired = Repairs
                        THEN Told(bench[j], "broken")
                        ELSE [bench[j] EXCEPT !.stage = "asked", !.repaired = @ + 1, !.pos = 1])
    /\ UNCHANGED <<shelf, toolMode>>

Stay == UNCHANGED vars

Next ==
    \/ \E j \in Jobs :
           \/ Take(j) \/ Sketch(j) \/ Open(j)
           \/ Look(j) \/ Silent(j) \/ Write(j) \/ EditBegins(j) \/ EditLands(j)
           \/ EditRefused(j) \/ RoundOver(j) \/ Breaks(j)
           \/ ShotPasses(j) \/ ShotFails(j)
           \/ WriteOut(j) \/ Passes(j) \/ Fails(j)
    \/ Stay

Spec == Init /\ [][Next]_vars

-----------------------------------------------------------------------------
(* Properties *)

\* Merger and tester count the answers: every sending of a task is reported once, however
\* often the compiler sent it back in between (codeWorker, verifyAfterWrite).
EveryTaskIsReportedOnce ==
    \A j \in Jobs :
        bench[j].told + (IF bench[j].stage \in InWork THEN 1 ELSE 0) = bench[j].got

\* Not so in the code: a task whose files could not all be made has left none on the disk.
FailureLeavesNoTrace == \A j \in Jobs : bench[j].end = "unmade" => bench[j].put = {}

\* Not so in the code: no task writes what is the engine's own.
EngineFilesAreKept == \A p \in Reserved \cap Paths : shelf[p] = "old"

\* Not so in the code: the text a patch is made for is the text it replaces.
PatchesFitTheFile == \A j \in Jobs : Patching(j) => bench[j].base = shelf[Target(j)]

\* Not so in the code: two tasks in work have not written the same path.
OneWriterPerFile ==
    \A j, k \in Jobs :
        j # k /\ bench[j].stage \in InWork /\ bench[k].stage \in InWork
            => bench[j].put \cap bench[k].put = {}
=============================================================================
