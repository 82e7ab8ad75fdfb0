------------------------- MODULE ProjectRun_proofs -------------------------
(***************************************************************************)
(* Proofs about the server's engine processes, for any number of clerks,   *)
(* starts, stops and spawns, any fuse, and restarts of the server between  *)
(* its operations: first as long as no two operations have met; then when  *)
(* they meet in any way, as long as the engine was started once.           *)
(***************************************************************************)
EXTENDS ProjectRun, FiniteSetTheorems, TLAPS

States  == {"none", "running", "stopped"}
Entries == [state : States, pid : Nat, lastSpawn : Nat, restarts : Nat]

StartSteps == {"spawn", "note", "account", "status"}
StopSteps == {"kill", "close", "mark"}
ClerkStates == [pc : {"idle"} \cup StartSteps \cup StopSteps, row : Entries, pid : Nat,
                executing : BOOLEAN]
ReconcilerStates == [pc : {"idle", "write", "fuse", "spawn", "note"}, row : Entries, pid : Nat,
                     executing : BOOLEAN]

\* The shapes, without the bounds.
Shapes ==
    /\ account \in Entries
    /\ executing \in BOOLEAN /\ met \in BOOLEAN
    /\ moved \in Nat /\ spawns \in Nat /\ held \in Nat /\ barren \in Nat /\ starts \in Nat
    /\ alive \subseteq 1..spawns /\ moved <= spawns
    /\ clerk \in [Clerks -> ClerkStates]
    /\ reconciler \in ReconcilerStates

\* A step of a clerk's changes that clerk alone.
LEMMA GoesOne ==
    ASSUME Shapes, NEW c \in Clerks, NEW pc \in {"idle"} \cup StartSteps \cup StopSteps, Goes(c, pc)
    PROVE  /\ clerk' \in [Clerks -> ClerkStates]
           /\ clerk'[c].pc = pc /\ clerk'[c].row = clerk[c].row /\ clerk'[c].pid = clerk[c].pid
           /\ \A d \in Clerks : d # c => clerk'[d] = clerk[d]
<1>1. clerk \in [Clerks -> ClerkStates] /\ clerk' = [clerk EXCEPT ![c].pc = pc]
  BY DEF Shapes, Goes
<1>2. clerk[c] \in ClerkStates
  BY <1>1
<1> DEFINE t == [clerk[c] EXCEPT !.pc = pc]
<1>3. t \in ClerkStates /\ t.pc = pc /\ t.row = clerk[c].row /\ t.pid = clerk[c].pid
  BY <1>2 DEF ClerkStates
<1>4. clerk' = [clerk EXCEPT ![c] = t]
  BY <1>1
<1> HIDE DEF t
<1> QED
  BY <1>1, <1>3, <1>4

LEMMA BecomesOne ==
    ASSUME Shapes, NEW c \in Clerks, NEW t \in ClerkStates, Becomes(c, t)
    PROVE  /\ clerk' \in [Clerks -> ClerkStates] /\ clerk'[c] = t
           /\ \A d \in Clerks : d # c => clerk'[d] = clerk[d]
  BY DEF Shapes, Becomes

\* The records a thread may become.
LEMMA RestingTyped ==
    /\ Resting \in ClerkStates /\ Resting \in ReconcilerStates
    /\ Resting.pc = "idle" /\ Resting.row.state = "none"
  BY DEF Resting, NoRow, Entries, States, ClerkStates, ReconcilerStates

LEMMA LaunchedTyped ==
    ASSUME Shapes, Launch
    PROVE  /\ Launched \in ClerkStates /\ Launched \in ReconcilerStates
           /\ Launched.pc = "note" /\ Launched.row = account /\ Launched.pid = spawns'
           /\ spawns' = spawns + 1 /\ alive' = alive \cup {spawns'} /\ held' = spawns'
           /\ alive' \subseteq 1..spawns' /\ moved <= spawns' /\ spawns' \in Nat /\ moved' = moved
           /\ account' = account
<1>1. spawns' = spawns + 1 /\ alive' = alive \cup {spawns'} /\ held' = spawns'
  BY DEF Launch
<1>2. alive' \subseteq 1..spawns' /\ moved <= spawns' /\ spawns' \in Nat
  BY <1>1 DEF Shapes
<1>3. account \in Entries /\ spawns' \in Nat
  BY <1>2 DEF Shapes
<1>4. Launched \in ClerkStates /\ Launched \in ReconcilerStates
  BY <1>3 DEF Launched, Resting, NoRow, ClerkStates, ReconcilerStates, StartSteps
<1>5. Launched.pc = "note" /\ Launched.row = account /\ Launched.pid = spawns'
  BY DEF Launched, Resting
<1> QED
  BY <1>1, <1>2, <1>4, <1>5 DEF Launch

\* What a thread writes into the account is an entry.
LEMMA NoteTyped ==
    ASSUME Shapes, NEW t, t \in ClerkStates \/ t \in ReconcilerStates, NoteSpawn(t)
    PROVE  /\ account' \in Entries
           /\ t.row.state = "none" => account' = account
           /\ t.row.state # "none" =>
                 /\ account'.state = t.row.state /\ account'.pid = t.pid
                 /\ account'.lastSpawn = spawns /\ account'.restarts = t.row.restarts
<1>1. account \in Entries /\ spawns \in Nat
  BY DEF Shapes
<1>2. t.row \in Entries /\ t.pid \in Nat
  BY DEF ClerkStates, ReconcilerStates
<1>3. account' = IF t.row.state = "none" THEN account
                 ELSE [t.row EXCEPT !.pid = t.pid, !.lastSpawn = spawns]
  BY DEF NoteSpawn
<1> QED
  BY <1>1, <1>2, <1>3 DEF Entries

\* The count of a row.
LEMMA CountTyped ==
    ASSUME Shapes, NEW r \in Entries
    PROVE  /\ Counted(r) \in Entries /\ Counted(r).lastSpawn = r.lastSpawn
           /\ Counted(r).state = r.state /\ Counted(r).pid = r.pid
           /\ ~Progressed(r) => Counted(r).restarts = r.restarts + 1
  BY DEF Counted, Entries

\* What the steps do.
Moves(c, pc) ==
    /\ clerk' \in [Clerks -> ClerkStates] /\ clerk'[c].pc = pc
    /\ \A d \in Clerks : d # c => clerk'[d] = clerk[d]

LEMMA BeginsAlone ==
    ASSUME Begins, met \in BOOLEAN
    PROVE  /\ met' \in BOOLEAN
           /\ "overlap" \notin Faults => met' = met
           /\ ~met' => ~met /\ Quiet
<1> DEFINE q == Quiet
<1>1. "overlap" \in Faults \/ q
  BY DEF Begins
<1>2. met' = (met \/ ~q)
  BY DEF Begins
<1> HIDE DEF q
<1>3. CASE q
  BY <1>2, <1>3 DEF q
<1>4. CASE ~q
  BY <1>1, <1>2, <1>4 DEF q
<1> QED
  BY <1>3, <1>4

LEMMA CheckStartDoes ==
    ASSUME Shapes, NEW c \in Clerks, CheckStart(c)
    PROVE  /\ Idle(c) /\ Begins /\ Moves(c, "spawn") /\ ~Running /\ starts' = starts + 1
           /\ UNCHANGED <<executing, account, moved, alive, spawns, held, reconciler, barren>>
<1>1. Goes(c, "spawn")
  BY DEF CheckStart
<1>2. Moves(c, "spawn")
  BY <1>1, GoesOne DEF Moves, StartSteps
<1> QED
  BY <1>2 DEF CheckStart, world

LEMMA LaunchStartDoes ==
    ASSUME Shapes, NEW c \in Clerks, LaunchStart(c)
    PROVE  /\ clerk[c].pc = "spawn" /\ Moves(c, "note")
           /\ clerk'[c].row = account /\ clerk'[c].pid = spawns'
           /\ spawns' = spawns + 1 /\ alive' = alive \cup {spawns'} /\ held' = spawns'
           /\ alive' \subseteq 1..spawns' /\ moved <= spawns' /\ spawns' \in Nat
           /\ UNCHANGED <<executing, account, moved, reconciler, starts, barren, met>>
<1>1. Launch /\ Becomes(c, Launched)
  BY DEF LaunchStart
<1>2. Moves(c, "note") /\ clerk'[c].row = account /\ clerk'[c].pid = spawns'
  BY <1>1, LaunchedTyped, BecomesOne DEF Moves
<1>3. UNCHANGED <<executing, account, moved, reconciler, starts, barren, met>>
  BY DEF LaunchStart, Launch, bounds, history
<1> QED
  BY <1>1, <1>2, <1>3, LaunchedTyped DEF LaunchStart

LEMMA LaunchFailsDoes ==
    ASSUME Shapes, NEW c \in Clerks, LaunchFails(c)
    PROVE  /\ clerk[c].pc = "spawn" /\ Moves(c, "idle")
           /\ UNCHANGED <<executing, account, moved, alive, spawns, held, reconciler, starts, barren, met>>
<1>1. Moves(c, "idle")
  BY RestingTyped, BecomesOne DEF Moves, LaunchFails
<1> QED
  BY <1>1 DEF LaunchFails, world, bounds, history

LEMMA NoteStartDoes ==
    ASSUME Shapes, NEW c \in Clerks, NoteStart(c)
    PROVE  /\ clerk[c].pc = "note" /\ Moves(c, "account") /\ clerk'[c].pid = clerk[c].pid
           /\ account' \in Entries
           /\ clerk[c].row.state = "none" => account' = account
           /\ clerk[c].row.state # "none" =>
                 /\ account'.state = clerk[c].row.state /\ account'.lastSpawn = spawns
                 /\ account'.restarts = clerk[c].row.restarts
           /\ UNCHANGED <<executing, moved, alive, spawns, held, reconciler, starts, barren, met>>
<1> DEFINE t == [Resting EXCEPT !.pc = "account", !.pid = clerk[c].pid]
<1>1. clerk[c] \in ClerkStates /\ NoteSpawn(clerk[c]) /\ Becomes(c, t)
  BY DEF NoteStart, Shapes
<1>2. t \in ClerkStates /\ t.pc = "account" /\ t.pid = clerk[c].pid
  BY <1>1 DEF ClerkStates, StartSteps, Resting, NoRow, Entries, States
<1> HIDE DEF t
<1>3. Moves(c, "account") /\ clerk'[c].pid = clerk[c].pid
  BY <1>1, <1>2, BecomesOne DEF Moves
<1>4. UNCHANGED <<executing, moved, alive, spawns, held, reconciler, starts, barren, met>>
  BY DEF NoteStart, NoteSpawn, world, bounds, history
<1> QED
  BY <1>1, <1>3, <1>4, NoteTyped DEF NoteStart

LEMMA OpenAccountDoes ==
    ASSUME Shapes, NEW c \in Clerks, OpenAccount(c)
    PROVE  /\ clerk[c].pc = "account" /\ Moves(c, "status")
           /\ account' \in Entries /\ account'.state = "running" /\ account'.pid = clerk[c].pid
           /\ account'.lastSpawn = spawns /\ account'.restarts = 0 /\ barren' = 0
           /\ UNCHANGED <<executing, moved, alive, spawns, held, reconciler, starts, met>>
<1>1. clerk[c] \in ClerkStates /\ spawns \in Nat
  BY DEF Shapes
<1>2. clerk[c].pid \in Nat
  BY <1>1 DEF ClerkStates
<1>3. account' = [state |-> "running", pid |-> clerk[c].pid, lastSpawn |-> spawns, restarts |-> 0]
  BY DEF OpenAccount
<1>4. account' \in Entries
  BY <1>1, <1>2, <1>3 DEF Entries, States
<1>5. Moves(c, "status")
  BY GoesOne DEF Moves, StartSteps, OpenAccount
<1>6. UNCHANGED <<executing, moved, alive, spawns, held, reconciler, starts, met>> /\ barren' = 0
  BY DEF OpenAccount, world, bounds
<1> QED
  BY <1>3, <1>4, <1>5, <1>6 DEF OpenAccount

LEMMA FinishStartDoes ==
    ASSUME Shapes, NEW c \in Clerks, FinishStart(c)
    PROVE  /\ clerk[c].pc = "status" /\ Moves(c, "idle") /\ executing' = TRUE
           /\ UNCHANGED <<account, moved, alive, spawns, held, reconciler, starts, barren, met>>
<1>1. Moves(c, "idle")
  BY RestingTyped, BecomesOne DEF Moves, FinishStart
<1> QED
  BY <1>1 DEF FinishStart, world, bounds, history

LEMMA TakeBackDoes ==
    ASSUME Shapes, NEW c \in Clerks, TakeBack(c)
    PROVE  /\ clerk[c].pc \in {"account", "status"} /\ Moves(c, "idle")
           /\ alive' = alive \ {clerk[c].pid}
           /\ UNCHANGED <<executing, account, moved, spawns, held, reconciler, starts, barren, met>>
<1>1. Moves(c, "idle")
  BY RestingTyped, BecomesOne DEF Moves, TakeBack
<1> QED
  BY <1>1 DEF TakeBack, Kill, bounds, history

LEMMA BeginStopDoes ==
    ASSUME Shapes, NEW c \in Clerks, BeginStop(c)
    PROVE  /\ Idle(c) /\ Begins /\ Moves(c, "kill") /\ clerk'[c].row = account
           /\ UNCHANGED <<executing, account, moved, alive, spawns, held, reconciler, starts, barren>>
<1> DEFINE t == [Resting EXCEPT !.pc = "kill", !.row = account, !.executing = (executing)]
<1>1. Becomes(c, [Resting EXCEPT !.pc = "kill", !.row = account, !.executing = executing])
  BY DEF BeginStop
<1>2. account \in Entries /\ executing \in BOOLEAN
  BY DEF Shapes
<1>3. t \in ClerkStates /\ t.pc = "kill" /\ t.row = account
  BY <1>2 DEF ClerkStates, StopSteps, Resting, NoRow, Entries, States
<1>4. Becomes(c, t)
  BY <1>1
<1> HIDE DEF t
<1>5. Moves(c, "kill") /\ clerk'[c].row = account
  BY <1>3, <1>4, BecomesOne DEF Moves
<1> QED
  BY <1>5 DEF BeginStop, world

LEMMA KillEngineDoes ==
    ASSUME Shapes, NEW c \in Clerks, KillEngine(c)
    PROVE  /\ clerk[c].pc = "kill" /\ Moves(c, "close") /\ clerk'[c].row = clerk[c].row
           /\ alive' = alive \ {IF held \in alive THEN held ELSE clerk[c].row.pid}
           /\ held' = 0
           /\ UNCHANGED <<executing, account, moved, spawns, reconciler, starts, barren, met>>
<1>1. Goes(c, "close")
  BY DEF KillEngine
<1>2. Moves(c, "close") /\ clerk'[c].row = clerk[c].row
  BY <1>1, GoesOne DEF Moves, StopSteps
<1> QED
  BY <1>2 DEF KillEngine, Kill, bounds, history

LEMMA CloseAccountDoes ==
    ASSUME Shapes, NEW c \in Clerks, CloseAccount(c)
    PROVE  /\ clerk[c].pc = "close" /\ Moves(c, "mark") /\ account' \in Entries
           /\ clerk[c].row.state = "none" => account' = account
           /\ clerk[c].row.state # "none" => account'.state = "stopped" /\ account'.pid = clerk[c].row.pid
           /\ UNCHANGED <<executing, moved, alive, spawns, held, reconciler, starts, barren, met>>
<1> DEFINE t == [Resting EXCEPT !.pc = "mark", !.executing = clerk[c].executing]
<1>1. Becomes(c, t) /\ clerk[c] \in ClerkStates
  BY DEF CloseAccount, Shapes
<1>2. t \in ClerkStates /\ t.pc = "mark"
  BY <1>1 DEF ClerkStates, StopSteps, Resting, NoRow, Entries, States
<1> HIDE DEF t
<1>3. Moves(c, "mark")
  BY <1>1, <1>2, BecomesOne DEF Moves
<1>4. clerk[c].row \in Entries /\ account \in Entries
  BY <1>1 DEF ClerkStates, Shapes
<1>5. account' = IF clerk[c].row.state = "none" THEN account
                 ELSE [clerk[c].row EXCEPT !.state = "stopped"]
  BY DEF CloseAccount
<1>6. /\ account' \in Entries
      /\ clerk[c].row.state = "none" => account' = account
      /\ clerk[c].row.state # "none" => account'.state = "stopped" /\ account'.pid = clerk[c].row.pid
  BY <1>4, <1>5 DEF Entries, States
<1> QED
  BY <1>3, <1>6 DEF CloseAccount, world, bounds, history

LEMMA FinishStopDoes ==
    ASSUME Shapes, NEW c \in Clerks, FinishStop(c)
    PROVE  /\ clerk[c].pc = "mark" /\ Moves(c, "idle")
           /\ executing' \in BOOLEAN /\ (executing' => executing)
           /\ UNCHANGED <<account, moved, alive, spawns, held, reconciler, starts, barren, met>>
<1>1. Moves(c, "idle")
  BY RestingTyped, BecomesOne DEF Moves, FinishStop
<1>2. executing' \in BOOLEAN /\ (executing' => executing)
  BY Zenon DEF FinishStop
<1> QED
  BY <1>1, <1>2 DEF FinishStop, world, bounds, history

LEMMA LookDoes ==
    ASSUME Shapes, Look
    PROVE  /\ reconciler.pc = "idle" /\ Begins /\ account.state = "running"
           /\ held \notin alive /\ (held = 0 => account.pid \notin alive)
           /\ reconciler' \in ReconcilerStates /\ reconciler'.pc = "write" /\ reconciler'.row = account
           /\ UNCHANGED <<executing, account, moved, alive, spawns, held, clerk, starts, barren>>
<1>1. account \in Entries /\ held \in Nat
  BY DEF Shapes
<1>2. reconciler' = [Resting EXCEPT !.pc = "write", !.row = account, !.pid = held]
  BY DEF Look, LookFor
<1>3. reconciler' \in ReconcilerStates /\ reconciler'.pc = "write" /\ reconciler'.row = account
  BY <1>1, <1>2 DEF ReconcilerStates, Resting, NoRow, Entries, States
<1> QED
  BY <1>3 DEF Look, LookFor, world, bounds

LEMMA LookWhen == ASSUME Look PROVE executing
  BY Zenon DEF Look, LookFor

LEMMA CountDoes ==
    ASSUME Shapes, Count
    PROVE  /\ reconciler.pc = "write" /\ account' \in Entries
           /\ account'.lastSpawn = reconciler.row.lastSpawn /\ account'.pid = reconciler.row.pid
           /\ account'.restarts = Counted(reconciler.row).restarts
           /\ \/ ~(account'.restarts < MaxIdle) /\ account'.state = "stopped" /\ reconciler'.pc = "fuse"
              \/ account'.restarts < MaxIdle /\ account'.state = "running" /\ reconciler'.pc = "spawn"
           /\ reconciler' \in ReconcilerStates /\ held' \in {0, held}
           /\ UNCHANGED <<executing, moved, alive, spawns, clerk, starts, barren, met>>
<1> DEFINE r == Counted(reconciler.row)
           blown == r.restarts >= MaxIdle
<1>1. r \in Entries /\ r.lastSpawn = reconciler.row.lastSpawn /\ r.pid = reconciler.row.pid
  BY CountTyped DEF Shapes, ReconcilerStates
<1>2. /\ account' = [r EXCEPT !.state = IF blown THEN "stopped" ELSE "running"]
      /\ reconciler' = [Resting EXCEPT !.pc = IF blown THEN "fuse" ELSE "spawn"]
  BY DEF Count
<1>3. /\ UNCHANGED <<executing, moved, alive, spawns, clerk, starts, barren, met>>
      /\ held' \in {0, held} /\ reconciler.pc = "write"
  BY DEF Count, world, bounds, history
<1>4. MaxIdle \in Nat
  BY ProjectRunConstants
<1> HIDE DEF r
<1>5. /\ account' \in Entries /\ account'.lastSpawn = r.lastSpawn /\ account'.pid = r.pid
      /\ account'.restarts = r.restarts
  BY <1>1, <1>2 DEF Entries, States
<1>6. reconciler' \in ReconcilerStates
  BY <1>2 DEF ReconcilerStates, Resting, NoRow, Entries, States
<1>7. account'.state = (IF blown THEN "stopped" ELSE "running")
  BY <1>1, <1>2 DEF Entries
<1>8. reconciler'.pc = (IF blown THEN "fuse" ELSE "spawn")
  BY <1>2 DEF Resting
<1>9. r.restarts \in Nat
  BY <1>1 DEF Entries
<1>10. blown <=> ~(account'.restarts < MaxIdle)
  BY <1>4, <1>5, <1>9
<1> HIDE DEF blown
<1>11. \/ ~(account'.restarts < MaxIdle) /\ account'.state = "stopped" /\ reconciler'.pc = "fuse"
       \/ account'.restarts < MaxIdle /\ account'.state = "running" /\ reconciler'.pc = "spawn"
  BY <1>7, <1>8, <1>10
<1> QED
  BY <1>1, <1>3, <1>5, <1>6, <1>11 DEF r

LEMMA BlowFuseDoes ==
    ASSUME Shapes, BlowFuse
    PROVE  /\ reconciler.pc = "fuse" /\ reconciler' \in ReconcilerStates /\ reconciler'.pc = "idle"
           /\ executing' = FALSE
           /\ UNCHANGED <<account, moved, alive, spawns, held, clerk, starts, barren, met>>
  BY RestingTyped DEF BlowFuse, world, bounds, history

LEMMA LaunchAgainDoes ==
    ASSUME Shapes, LaunchAgain
    PROVE  /\ reconciler.pc = "spawn" /\ reconciler' \in ReconcilerStates /\ reconciler'.pc = "note"
           /\ reconciler'.row = account /\ reconciler'.pid = spawns'
           /\ spawns' = spawns + 1 /\ alive' = alive \cup {spawns'} /\ held' = spawns'
           /\ alive' \subseteq 1..spawns' /\ moved <= spawns' /\ spawns' \in Nat
           /\ barren' = barren + 1
           /\ UNCHANGED <<executing, account, moved, clerk, starts, met>>
<1>1. Launch /\ reconciler' = Launched
  BY DEF LaunchAgain
<1>2. UNCHANGED <<executing, account, moved, clerk, starts, met>>
  BY DEF LaunchAgain, Launch, bounds
<1> QED
  BY <1>1, <1>2, LaunchedTyped DEF LaunchAgain

LEMMA LaunchAgainFailsDoes ==
    ASSUME Shapes, LaunchAgainFails
    PROVE  /\ reconciler.pc = "spawn" /\ reconciler' \in ReconcilerStates /\ reconciler'.pc = "idle"
           /\ UNCHANGED <<executing, account, moved, alive, spawns, held, clerk, starts, barren, met>>
  BY RestingTyped DEF LaunchAgainFails, world, bounds, history

LEMMA NoteAgainDoes ==
    ASSUME Shapes, NoteAgain
    PROVE  /\ reconciler.pc = "note" /\ reconciler' \in ReconcilerStates /\ reconciler'.pc = "idle"
           /\ account' \in Entries
           /\ reconciler.row.state = "none" => account' = account
           /\ reconciler.row.state # "none" =>
                 /\ account'.state = reconciler.row.state /\ account'.pid = reconciler.pid
                 /\ account'.lastSpawn = spawns /\ account'.restarts = reconciler.row.restarts
           /\ UNCHANGED <<executing, moved, alive, spawns, held, clerk, starts, barren, met>>
<1>1. reconciler \in ReconcilerStates /\ NoteSpawn(reconciler)
  BY DEF NoteAgain, Shapes
<1>2. UNCHANGED <<executing, moved, alive, spawns, held, clerk, starts, barren, met>>
  BY DEF NoteAgain, NoteSpawn, world, bounds, history
<1> QED
  BY <1>1, <1>2, NoteTyped, RestingTyped DEF NoteAgain

\* Watchdogs, engines and people: engines end, and that is all.
Outside == Answer \/ \E p \in Pids : Deadline(p) \/ EngineEnds(p) \/ Ask(p)

LEMMA OutsideDoes ==
    ASSUME Shapes, Outside
    PROVE  /\ alive' \subseteq alive /\ executing' \in BOOLEAN /\ (executing' => executing)
           /\ UNCHANGED <<account, moved, spawns, held, clerk, reconciler, starts, barren, met>>
<1>0. executing \in BOOLEAN
  BY DEF Shapes
<1>1. /\ alive' \subseteq alive
      /\ UNCHANGED <<account, moved, spawns, held, clerk, reconciler, starts, barren, met>>
  BY DEF Outside, Answer, Deadline, EngineEnds, Ask, Kill, server, bounds, history
<1>2. executing' \in {executing, FALSE}
  BY DEF Outside, Answer, Deadline, EngineEnds, Ask
<1>3. executing' \in BOOLEAN /\ (executing' => executing)
  <2>1. CASE executing' = executing
    BY <1>0, <2>1
  <2>2. CASE executing' = FALSE
    BY <2>2
  <2> QED
    BY <1>2, <2>1, <2>2
<1> QED
  BY <1>1, <1>3

LEMMA ProgressDoes ==
    ASSUME NEW p \in Pids, Progress(p)
    PROVE  /\ moved' = spawns /\ barren' = 0
           /\ UNCHANGED <<executing, account, alive, spawns, held, clerk, reconciler, starts, met>>
  BY DEF Progress, server

LEMMA ServerRestartsDoes ==
    ASSUME ServerRestarts
    PROVE  /\ "crash" \notin Faults => Quiet
           /\ held' = 0 /\ clerk' \in [Clerks -> ClerkStates] /\ \A c \in Clerks : clerk'[c].pc = "idle"
           /\ reconciler' \in ReconcilerStates /\ reconciler'.pc = "idle"
           /\ UNCHANGED <<executing, account, moved, alive, spawns, starts, barren, met>>
  BY RestingTyped DEF ServerRestarts, world, bounds, history

-----------------------------------------------------------------------------
\* Every step keeps the shapes.
LEMMA ShapesStep ==
    ASSUME Shapes, Next
    PROVE  Shapes'
<1>1. ASSUME NEW c \in Clerks, CheckStart(c) PROVE Shapes'
  <2>1. /\ Moves(c, "spawn") /\ starts' = starts + 1
        /\ UNCHANGED <<executing, account, moved, alive, spawns, held, reconciler, barren>>
    BY <1>1, CheckStartDoes
  <2>2. met' \in BOOLEAN
    BY <1>1, CheckStartDoes, BeginsAlone DEF Shapes
  <2> QED
    BY <2>1, <2>2 DEF Shapes, Moves
<1>2. ASSUME NEW c \in Clerks, LaunchStart(c) PROVE Shapes'
  BY <1>2, LaunchStartDoes DEF Shapes, Moves
<1>3. ASSUME NEW c \in Clerks, LaunchFails(c) PROVE Shapes'
  BY <1>3, LaunchFailsDoes DEF Shapes, Moves
<1>4. ASSUME NEW c \in Clerks, NoteStart(c) PROVE Shapes'
  BY <1>4, NoteStartDoes DEF Shapes, Moves
<1>5. ASSUME NEW c \in Clerks, OpenAccount(c) PROVE Shapes'
  <2>1. /\ Moves(c, "status") /\ account' \in Entries /\ barren' = 0
        /\ UNCHANGED <<executing, moved, alive, spawns, held, reconciler, starts, met>>
    BY <1>5, OpenAccountDoes
  <2> QED
    BY <2>1 DEF Shapes, Moves
<1>6. ASSUME NEW c \in Clerks, FinishStart(c) PROVE Shapes'
  BY <1>6, FinishStartDoes DEF Shapes, Moves
<1>7. ASSUME NEW c \in Clerks, TakeBack(c) PROVE Shapes'
  BY <1>7, TakeBackDoes DEF Shapes, Moves
<1>8. ASSUME NEW c \in Clerks, BeginStop(c) PROVE Shapes'
  <2>1. /\ Moves(c, "kill")
        /\ UNCHANGED <<executing, account, moved, alive, spawns, held, reconciler, starts, barren>>
    BY <1>8, BeginStopDoes
  <2>2. met' \in BOOLEAN
    BY <1>8, BeginStopDoes, BeginsAlone DEF Shapes
  <2> QED
    BY <2>1, <2>2 DEF Shapes, Moves
<1>9. ASSUME NEW c \in Clerks, KillEngine(c) PROVE Shapes'
  <2>1. /\ Moves(c, "close") /\ alive' \subseteq alive /\ held' = 0
        /\ UNCHANGED <<executing, account, moved, spawns, reconciler, starts, barren, met>>
    BY <1>9, KillEngineDoes
  <2> QED
    BY <2>1 DEF Shapes, Moves
<1>10. ASSUME NEW c \in Clerks, CloseAccount(c) PROVE Shapes'
  BY <1>10, CloseAccountDoes DEF Shapes, Moves
<1>11. ASSUME NEW c \in Clerks, FinishStop(c) PROVE Shapes'
  <2>1. /\ Moves(c, "idle") /\ executing' \in BOOLEAN
        /\ UNCHANGED <<account, moved, alive, spawns, held, reconciler, starts, barren, met>>
    BY <1>11, FinishStopDoes
  <2> QED
    BY <2>1 DEF Shapes, Moves
<1>12. CASE Look
  <2>1. /\ reconciler' \in ReconcilerStates
        /\ UNCHANGED <<executing, account, moved, alive, spawns, held, clerk, starts, barren>>
    BY <1>12, LookDoes
  <2>2. met' \in BOOLEAN
    BY <1>12, LookDoes, BeginsAlone DEF Shapes
  <2> QED
    BY <2>1, <2>2 DEF Shapes, Moves
<1>13. CASE Count
  <2>1. /\ account' \in Entries /\ reconciler' \in ReconcilerStates /\ held' \in {0, held}
        /\ UNCHANGED <<executing, moved, alive, spawns, clerk, starts, barren, met>>
    BY <1>13, CountDoes
  <2> QED
    BY <2>1 DEF Shapes, Moves
<1>14. CASE BlowFuse
  BY <1>14, BlowFuseDoes DEF Shapes
<1>15. CASE LaunchAgain
  BY <1>15, LaunchAgainDoes DEF Shapes
<1>16. CASE LaunchAgainFails
  BY <1>16, LaunchAgainFailsDoes DEF Shapes
<1>17. CASE NoteAgain
  BY <1>17, NoteAgainDoes DEF Shapes
<1>18. CASE Outside
  <2>1. /\ alive' \subseteq alive /\ executing' \in BOOLEAN
        /\ UNCHANGED <<account, moved, spawns, held, clerk, reconciler, starts, barren, met>>
    BY <1>18, OutsideDoes
  <2> QED
    BY <2>1 DEF Shapes, Moves
<1>19. ASSUME NEW p \in Pids, Progress(p) PROVE Shapes'
  <2>1. /\ moved' = spawns /\ barren' = 0
        /\ UNCHANGED <<executing, account, alive, spawns, held, clerk, reconciler, starts, met>>
    BY <1>19, ProgressDoes
  <2> QED
    BY <2>1 DEF Shapes, Moves
<1>20. CASE ServerRestarts
  <2>1. /\ held' = 0 /\ clerk' \in [Clerks -> ClerkStates] /\ reconciler' \in ReconcilerStates
        /\ UNCHANGED <<executing, account, moved, alive, spawns, starts, barren, met>>
    BY <1>20, ServerRestartsDoes
  <2> QED
    BY <2>1 DEF Shapes, Moves
<1> QED
  BY <1>1, <1>2, <1>3, <1>4, <1>5, <1>6, <1>7, <1>8, <1>9, <1>10, <1>11, <1>12, <1>13, <1>14,
     <1>15, <1>16, <1>17, <1>18, <1>19, <1>20
     DEF Next, StartGoesOn, StopGoesOn, Reconciler, Outside
-----------------------------------------------------------------------------
\* A. As long as no two operations have met.

NoClerk == \A c \in Clerks : Idle(c)
Only(c) == reconciler.pc = "idle" /\ \A d \in Clerks : d # c => Idle(d)
Serial == NoClerk \/ \E c \in Clerks : Only(c)

\* What a thread has read of the account is still so.
Current ==
    /\ \A c \in Clerks :
        /\ clerk[c].pc \in {"note", "kill", "close"} => clerk[c].row = account
        /\ clerk[c].pc = "mark" => account.state # "running"
    /\ reconciler.pc \in {"write", "note"} => reconciler.row = account
    /\ reconciler.pc \in {"write", "spawn", "note"} => account.state = "running"

Unentered == reconciler.pc = "note" \/ \E c \in Clerks : clerk[c].pc \in {"note", "account"}

\* Who runs: the account names it, but for the steps after a launch; a handle is its.
Known ==
    /\ ~Unentered => alive \subseteq {account.pid}
    /\ held # 0 => alive \subseteq {held}
    /\ \A c \in Clerks :
        /\ clerk[c].pc \in {"note", "account"} =>
               alive \subseteq {clerk[c].pid} /\ clerk[c].pid = spawns /\ spawns # 0
        /\ clerk[c].pc \in {"spawn", "close", "mark"} => alive = {}
    /\ reconciler.pc = "note" => alive \subseteq {reconciler.pid} /\ reconciler.pid = spawns
    /\ reconciler.pc \in {"write", "spawn", "fuse"} => alive = {}

\* The count is at most one behind, and the last spawn is the account's.
Fuse ==
    /\ account.state = "running" /\ reconciler.pc # "note" /\ (\A c \in Clerks : clerk[c].pc # "note")
           => account.lastSpawn = spawns
    /\ moved = spawns /\ spawns # 0 => barren = 0
    /\ barren <= MaxIdle
    /\ account.state = "running" => spawns # 0 /\ barren <= account.restarts + 1
    /\ reconciler.pc = "spawn" => barren <= account.restarts /\ account.restarts < MaxIdle

\* A clerk at work is alone, and stays so.
LEMMA Alone ==
    ASSUME Serial, NEW c \in Clerks, ~Idle(c)
    PROVE  Only(c)
  BY DEF Serial, NoClerk, Only

LEMMA StaysAlone ==
    ASSUME NEW c \in Clerks, NEW pc, Only(c), Moves(c, pc), UNCHANGED reconciler
    PROVE  /\ Serial' /\ reconciler'.pc = "idle" /\ reconciler.pc = "idle"
           /\ \A d \in Clerks : d # c => clerk'[d].pc = "idle" /\ clerk[d].pc = "idle"
  BY DEF Serial, Only, Idle, Moves

LEMMA ReconcilerAlone ==
    ASSUME Serial, reconciler.pc # "idle" \/ Quiet, UNCHANGED clerk
    PROVE  Serial' /\ \A d \in Clerks : clerk'[d].pc = "idle" /\ clerk[d].pc = "idle"
  BY DEF Serial, NoClerk, Only, Idle, Quiet

\* Whatever the server does, what its threads know stays true: also when it crashes.
LEMMA CurrentStep ==
    ASSUME Shapes, ~met => Serial /\ Current, Next, ~met'
    PROVE  Serial' /\ Current'
<1>1. ASSUME NEW c \in Clerks, CheckStart(c) PROVE Serial' /\ Current'
  <2>1. ~met /\ Only(c) /\ Serial /\ Current
    <3>1. ~met /\ Quiet
      BY <1>1, CheckStartDoes, BeginsAlone DEF Shapes
    <3> QED
      BY <3>1 DEF Quiet, Only, Idle
  <2>2. Moves(c, "spawn") /\ UNCHANGED reconciler
    BY <1>1, CheckStartDoes
  <2>3. Serial' /\ reconciler'.pc = "idle" /\ \A d \in Clerks : d # c => clerk'[d].pc = "idle"
    BY <2>1, <2>2, StaysAlone
  <2> QED
    BY <1>1, <2>1, <2>3, CheckStartDoes DEF Current, Moves
<1>2. ASSUME NEW c \in Clerks, LaunchStart(c) PROVE Serial' /\ Current'
  <2>1. ~met /\ Only(c) /\ Serial /\ Current
    BY <1>2, LaunchStartDoes, Alone DEF Idle
  <2>2. Moves(c, "note") /\ UNCHANGED reconciler
    BY <1>2, LaunchStartDoes
  <2>3. Serial' /\ reconciler'.pc = "idle" /\ \A d \in Clerks : d # c => clerk'[d].pc = "idle"
    BY <2>1, <2>2, StaysAlone
  <2> QED
    BY <1>2, <2>1, <2>3, LaunchStartDoes DEF Current, Moves
<1>3. ASSUME NEW c \in Clerks, LaunchFails(c) PROVE Serial' /\ Current'
  <2>1. ~met /\ Only(c) /\ Serial /\ Current
    BY <1>3, LaunchFailsDoes, Alone DEF Idle
  <2>2. Moves(c, "idle") /\ UNCHANGED reconciler
    BY <1>3, LaunchFailsDoes
  <2>3. Serial' /\ reconciler'.pc = "idle" /\ \A d \in Clerks : d # c => clerk'[d].pc = "idle"
    BY <2>1, <2>2, StaysAlone
  <2> QED
    BY <1>3, <2>1, <2>3, LaunchFailsDoes DEF Current, Moves
<1>4. ASSUME NEW c \in Clerks, NoteStart(c) PROVE Serial' /\ Current'
  <2>1. ~met /\ Only(c) /\ Serial /\ Current
    BY <1>4, NoteStartDoes, Alone DEF Idle
  <2>2. Moves(c, "account") /\ UNCHANGED reconciler
    BY <1>4, NoteStartDoes
  <2>3. Serial' /\ reconciler'.pc = "idle" /\ \A d \in Clerks : d # c => clerk'[d].pc = "idle"
    BY <2>1, <2>2, StaysAlone
  <2> QED
    BY <1>4, <2>1, <2>3, NoteStartDoes DEF Current, Moves
<1>5. ASSUME NEW c \in Clerks, OpenAccount(c) PROVE Serial' /\ Current'
  <2>1. ~met /\ Only(c) /\ Serial /\ Current
    BY <1>5, OpenAccountDoes, Alone DEF Idle
  <2>2. Moves(c, "status") /\ UNCHANGED reconciler
    BY <1>5, OpenAccountDoes
  <2>3. Serial' /\ reconciler'.pc = "idle" /\ \A d \in Clerks : d # c => clerk'[d].pc = "idle"
    BY <2>1, <2>2, StaysAlone
  <2> QED
    BY <1>5, <2>1, <2>3, OpenAccountDoes DEF Current, Moves
<1>6. ASSUME NEW c \in Clerks, FinishStart(c) PROVE Serial' /\ Current'
  <2>1. ~met /\ Only(c) /\ Serial /\ Current
    BY <1>6, FinishStartDoes, Alone DEF Idle
  <2>2. Moves(c, "idle") /\ UNCHANGED reconciler
    BY <1>6, FinishStartDoes
  <2>3. Serial' /\ reconciler'.pc = "idle" /\ \A d \in Clerks : d # c => clerk'[d].pc = "idle"
    BY <2>1, <2>2, StaysAlone
  <2> QED
    BY <1>6, <2>1, <2>3, FinishStartDoes DEF Current, Moves
<1>7. ASSUME NEW c \in Clerks, TakeBack(c) PROVE Serial' /\ Current'
  <2>1. ~met /\ Only(c) /\ Serial /\ Current
    BY <1>7, TakeBackDoes, Alone DEF Idle
  <2>2. Moves(c, "idle") /\ UNCHANGED reconciler
    BY <1>7, TakeBackDoes
  <2>3. Serial' /\ reconciler'.pc = "idle" /\ \A d \in Clerks : d # c => clerk'[d].pc = "idle"
    BY <2>1, <2>2, StaysAlone
  <2> QED
    BY <1>7, <2>1, <2>3, TakeBackDoes DEF Current, Moves
<1>8. ASSUME NEW c \in Clerks, BeginStop(c) PROVE Serial' /\ Current'
  <2>1. ~met /\ Only(c) /\ Serial /\ Current
    <3>1. ~met /\ Quiet
      BY <1>8, BeginStopDoes, BeginsAlone DEF Shapes
    <3> QED
      BY <3>1 DEF Quiet, Only, Idle
  <2>2. Moves(c, "kill") /\ UNCHANGED reconciler
    BY <1>8, BeginStopDoes
  <2>3. Serial' /\ reconciler'.pc = "idle" /\ \A d \in Clerks : d # c => clerk'[d].pc = "idle"
    BY <2>1, <2>2, StaysAlone
  <2> QED
    BY <1>8, <2>1, <2>3, BeginStopDoes DEF Current, Moves
<1>9. ASSUME NEW c \in Clerks, KillEngine(c) PROVE Serial' /\ Current'
  <2>1. ~met /\ Only(c) /\ Serial /\ Current
    BY <1>9, KillEngineDoes, Alone DEF Idle
  <2>2. Moves(c, "close") /\ UNCHANGED reconciler
    BY <1>9, KillEngineDoes
  <2>3. Serial' /\ reconciler'.pc = "idle" /\ \A d \in Clerks : d # c => clerk'[d].pc = "idle"
    BY <2>1, <2>2, StaysAlone
  <2> QED
    BY <1>9, <2>1, <2>3, KillEngineDoes DEF Current, Moves
<1>10. ASSUME NEW c \in Clerks, CloseAccount(c) PROVE Serial' /\ Current'
  <2>1. ~met /\ Only(c) /\ Serial /\ Current
    BY <1>10, CloseAccountDoes, Alone DEF Idle
  <2>2. Moves(c, "mark") /\ UNCHANGED reconciler
    BY <1>10, CloseAccountDoes
  <2>3. Serial' /\ reconciler'.pc = "idle" /\ \A d \in Clerks : d # c => clerk'[d].pc = "idle"
    BY <2>1, <2>2, StaysAlone
  <2> QED
    BY <1>10, <2>1, <2>3, CloseAccountDoes DEF Current, Moves
<1>11. ASSUME NEW c \in Clerks, FinishStop(c) PROVE Serial' /\ Current'
  <2>1. ~met /\ Only(c) /\ Serial /\ Current
    BY <1>11, FinishStopDoes, Alone DEF Idle
  <2>2. Moves(c, "idle") /\ UNCHANGED reconciler
    BY <1>11, FinishStopDoes
  <2>3. Serial' /\ reconciler'.pc = "idle" /\ \A d \in Clerks : d # c => clerk'[d].pc = "idle"
    BY <2>1, <2>2, StaysAlone
  <2> QED
    BY <1>11, <2>1, <2>3, FinishStopDoes DEF Current, Moves
<1>12. ASSUME Look PROVE Serial' /\ Current'
  <2>1. ~met /\ (reconciler.pc # "idle" \/ Quiet) /\ Serial /\ Current /\ UNCHANGED clerk
    BY <1>12, LookDoes, BeginsAlone DEF Shapes
  <2>2. Serial' /\ \A d \in Clerks : clerk'[d].pc = "idle"
    BY <2>1, ReconcilerAlone
  <2> QED
    BY <1>12, <2>1, <2>2, LookDoes DEF Current
<1>13. ASSUME Count PROVE Serial' /\ Current'
  <2>1. ~met /\ (reconciler.pc # "idle" \/ Quiet) /\ Serial /\ Current /\ UNCHANGED clerk
    BY <1>13, CountDoes
  <2>2. Serial' /\ \A d \in Clerks : clerk'[d].pc = "idle"
    BY <2>1, ReconcilerAlone
  <2> QED
    BY <1>13, <2>1, <2>2, CountDoes DEF Current
<1>14. ASSUME BlowFuse PROVE Serial' /\ Current'
  <2>1. ~met /\ (reconciler.pc # "idle" \/ Quiet) /\ Serial /\ Current /\ UNCHANGED clerk
    BY <1>14, BlowFuseDoes
  <2>2. Serial' /\ \A d \in Clerks : clerk'[d].pc = "idle"
    BY <2>1, ReconcilerAlone
  <2> QED
    BY <1>14, <2>1, <2>2, BlowFuseDoes DEF Current
<1>15. ASSUME LaunchAgain PROVE Serial' /\ Current'
  <2>1. ~met /\ (reconciler.pc # "idle" \/ Quiet) /\ Serial /\ Current /\ UNCHANGED clerk
    BY <1>15, LaunchAgainDoes
  <2>2. Serial' /\ \A d \in Clerks : clerk'[d].pc = "idle"
    BY <2>1, ReconcilerAlone
  <2> QED
    BY <1>15, <2>1, <2>2, LaunchAgainDoes DEF Current
<1>16. ASSUME LaunchAgainFails PROVE Serial' /\ Current'
  <2>1. ~met /\ (reconciler.pc # "idle" \/ Quiet) /\ Serial /\ Current /\ UNCHANGED clerk
    BY <1>16, LaunchAgainFailsDoes
  <2>2. Serial' /\ \A d \in Clerks : clerk'[d].pc = "idle"
    BY <2>1, ReconcilerAlone
  <2> QED
    BY <1>16, <2>1, <2>2, LaunchAgainFailsDoes DEF Current
<1>17. ASSUME NoteAgain PROVE Serial' /\ Current'
  <2>1. ~met /\ (reconciler.pc # "idle" \/ Quiet) /\ Serial /\ Current /\ UNCHANGED clerk
    BY <1>17, NoteAgainDoes
  <2>2. Serial' /\ \A d \in Clerks : clerk'[d].pc = "idle"
    BY <2>1, ReconcilerAlone
  <2> QED
    BY <1>17, <2>1, <2>2, NoteAgainDoes DEF Current
<1>18. CASE Outside
  <2>1. UNCHANGED <<account, clerk, reconciler, met>>
    BY <1>18, OutsideDoes
  <2> QED
    BY <2>1 DEF Serial, NoClerk, Only, Idle, Current
<1>19. ASSUME NEW p \in Pids, Progress(p) PROVE Serial' /\ Current'
  <2>1. UNCHANGED <<account, clerk, reconciler, met>>
    BY <1>19, ProgressDoes
  <2> QED
    BY <2>1 DEF Serial, NoClerk, Only, Idle, Current
<1>20. CASE ServerRestarts
  <2>1. (\A c \in Clerks : clerk'[c].pc = "idle") /\ reconciler'.pc = "idle"
    BY <1>20, ServerRestartsDoes
  <2> QED
    BY <2>1 DEF Serial, NoClerk, Idle, Current
<1> QED
  BY <1>1, <1>2, <1>3, <1>4, <1>5, <1>6, <1>7, <1>8, <1>9, <1>10, <1>11, <1>12, <1>13, <1>14,
     <1>15, <1>16, <1>17, <1>18, <1>19, <1>20
     DEF Next, StartGoesOn, StopGoesOn, Reconciler, Outside

\* As long as no two operations have met, nobody but a start opens a stopped account.
LEMMA NobodyOpens ==
    ASSUME Shapes, Serial, Current, Next, account.state = "stopped", account'.state = "running"
    PROVE  StartUnderWay
<1>1. ASSUME NEW c \in Clerks, clerk[c].pc \in StartSteps PROVE StartUnderWay
  BY <1>1 DEF StartUnderWay, StartSteps
<1>2. ASSUME NEW c \in Clerks, CloseAccount(c) PROVE FALSE
  BY <1>2, CloseAccountDoes
<1>3. ASSUME Count \/ NoteAgain PROVE FALSE
  BY <1>3, CountDoes, NoteAgainDoes DEF Current
<1>4. ASSUME account' = account PROVE FALSE
  BY <1>4
<1>5. CASE \E c \in Clerks : CheckStart(c) \/ BeginStop(c) \/ KillEngine(c) \/ FinishStop(c)
  BY <1>4, <1>5, CheckStartDoes, BeginStopDoes, KillEngineDoes, FinishStopDoes
<1>6. CASE \E c \in Clerks : StartGoesOn(c)
  BY <1>1, <1>6 DEF StartGoesOn, LaunchStart, LaunchFails, NoteStart, OpenAccount, FinishStart,
     TakeBack, StartSteps
<1>7. CASE Look \/ BlowFuse \/ LaunchAgain \/ LaunchAgainFails
  BY <1>4, <1>7, LookDoes, BlowFuseDoes, LaunchAgainDoes, LaunchAgainFailsDoes
<1>8. CASE Outside
  BY <1>4, <1>8, OutsideDoes
<1>9. CASE (\E p \in Pids : Progress(p)) \/ ServerRestarts
  BY <1>4, <1>9, ProgressDoes, ServerRestartsDoes
<1> QED
  BY <1>2, <1>3, <1>5, <1>6, <1>7, <1>8, <1>9
     DEF Next, StopGoesOn, Reconciler, Outside

\* Nobody runs whom the records do not name.
LEMMA KnownStep ==
    ASSUME "crash" \notin Faults, Shapes, Serial, Current, Known, Next, ~met'
    PROVE  Known'
<1>1. ASSUME NEW c \in Clerks, CheckStart(c) PROVE Known'
  <2>1. ~met /\ Only(c)
    <3>1. ~met /\ Quiet
      BY <1>1, CheckStartDoes, BeginsAlone DEF Shapes
    <3> QED
      BY <3>1 DEF Quiet, Only, Idle
  <2>2. Moves(c, "spawn") /\ UNCHANGED reconciler
    BY <1>1, CheckStartDoes
  <2>3. /\ reconciler'.pc = "idle" /\ reconciler.pc = "idle"
        /\ \A d \in Clerks : d # c => clerk'[d].pc = "idle" /\ clerk[d].pc = "idle"
    BY <2>1, <2>2, StaysAlone
  <2>4. alive = {}
    <3>1. ~Unentered
      BY <1>1, <2>3, CheckStartDoes DEF Unentered, Idle
    <3>2. held \notin alive /\ account.pid \notin alive
      BY <1>1, CheckStartDoes DEF Running
    <3> QED
      BY <3>1, <3>2 DEF Known
  <2> QED
    BY <1>1, <2>2, <2>3, <2>4, CheckStartDoes DEF Known, Unentered, Moves, Idle
<1>2. ASSUME NEW c \in Clerks, LaunchStart(c) PROVE Known'
  <2>1. ~met /\ Only(c)
    BY <1>2, LaunchStartDoes, Alone DEF Idle
  <2>2. Moves(c, "note") /\ UNCHANGED reconciler
    BY <1>2, LaunchStartDoes
  <2>3. /\ reconciler'.pc = "idle" /\ reconciler.pc = "idle"
        /\ \A d \in Clerks : d # c => clerk'[d].pc = "idle" /\ clerk[d].pc = "idle"
    BY <2>1, <2>2, StaysAlone
  <2> QED
    BY <1>2, <2>2, <2>3, LaunchStartDoes DEF Known, Unentered, Current, Shapes, Moves, Idle
<1>3. ASSUME NEW c \in Clerks, LaunchFails(c) PROVE Known'
  <2>1. ~met /\ Only(c)
    BY <1>3, LaunchFailsDoes, Alone DEF Idle
  <2>2. Moves(c, "idle") /\ UNCHANGED reconciler
    BY <1>3, LaunchFailsDoes
  <2>3. /\ reconciler'.pc = "idle" /\ reconciler.pc = "idle"
        /\ \A d \in Clerks : d # c => clerk'[d].pc = "idle" /\ clerk[d].pc = "idle"
    BY <2>1, <2>2, StaysAlone
  <2> QED
    BY <1>3, <2>2, <2>3, LaunchFailsDoes DEF Known, Unentered, Current, Shapes, Moves, Idle
<1>4. ASSUME NEW c \in Clerks, NoteStart(c) PROVE Known'
  <2>1. ~met /\ Only(c)
    BY <1>4, NoteStartDoes, Alone DEF Idle
  <2>2. Moves(c, "account") /\ UNCHANGED reconciler
    BY <1>4, NoteStartDoes
  <2>3. /\ reconciler'.pc = "idle" /\ reconciler.pc = "idle"
        /\ \A d \in Clerks : d # c => clerk'[d].pc = "idle" /\ clerk[d].pc = "idle"
    BY <2>1, <2>2, StaysAlone
  <2> QED
    BY <1>4, <2>2, <2>3, NoteStartDoes DEF Known, Unentered, Current, Shapes, Moves, Idle
<1>5. ASSUME NEW c \in Clerks, OpenAccount(c) PROVE Known'
  <2>1. ~met /\ Only(c)
    BY <1>5, OpenAccountDoes, Alone DEF Idle
  <2>2. Moves(c, "status") /\ UNCHANGED reconciler
    BY <1>5, OpenAccountDoes
  <2>3. /\ reconciler'.pc = "idle" /\ reconciler.pc = "idle"
        /\ \A d \in Clerks : d # c => clerk'[d].pc = "idle" /\ clerk[d].pc = "idle"
    BY <2>1, <2>2, StaysAlone
  <2> QED
    BY <1>5, <2>2, <2>3, OpenAccountDoes DEF Known, Unentered, Current, Shapes, Moves, Idle
<1>6. ASSUME NEW c \in Clerks, FinishStart(c) PROVE Known'
  <2>1. ~met /\ Only(c)
    BY <1>6, FinishStartDoes, Alone DEF Idle
  <2>2. Moves(c, "idle") /\ UNCHANGED reconciler
    BY <1>6, FinishStartDoes
  <2>3. /\ reconciler'.pc = "idle" /\ reconciler.pc = "idle"
        /\ \A d \in Clerks : d # c => clerk'[d].pc = "idle" /\ clerk[d].pc = "idle"
    BY <2>1, <2>2, StaysAlone
  <2> QED
    BY <1>6, <2>2, <2>3, FinishStartDoes DEF Known, Unentered, Current, Shapes, Moves, Idle
<1>7. ASSUME NEW c \in Clerks, TakeBack(c) PROVE Known'
  <2>1. ~met /\ Only(c)
    BY <1>7, TakeBackDoes, Alone DEF Idle
  <2>2. Moves(c, "idle") /\ UNCHANGED reconciler
    BY <1>7, TakeBackDoes
  <2>3. /\ reconciler'.pc = "idle" /\ reconciler.pc = "idle"
        /\ \A d \in Clerks : d # c => clerk'[d].pc = "idle" /\ clerk[d].pc = "idle"
    BY <2>1, <2>2, StaysAlone
  <2> QED
    BY <1>7, <2>2, <2>3, TakeBackDoes DEF Known, Unentered, Current, Shapes, Moves, Idle
<1>8. ASSUME NEW c \in Clerks, BeginStop(c) PROVE Known'
  <2>1. ~met /\ Only(c)
    <3>1. ~met /\ Quiet
      BY <1>8, BeginStopDoes, BeginsAlone DEF Shapes
    <3> QED
      BY <3>1 DEF Quiet, Only, Idle
  <2>2. Moves(c, "kill") /\ UNCHANGED reconciler
    BY <1>8, BeginStopDoes
  <2>3. /\ reconciler'.pc = "idle" /\ reconciler.pc = "idle"
        /\ \A d \in Clerks : d # c => clerk'[d].pc = "idle" /\ clerk[d].pc = "idle"
    BY <2>1, <2>2, StaysAlone
  <2> QED
    BY <1>8, <2>2, <2>3, BeginStopDoes DEF Known, Unentered, Current, Shapes, Moves, Idle
<1>9. ASSUME NEW c \in Clerks, KillEngine(c) PROVE Known'
  <2>1. ~met /\ Only(c)
    BY <1>9, KillEngineDoes, Alone DEF Idle
  <2>2. Moves(c, "close") /\ UNCHANGED reconciler
    BY <1>9, KillEngineDoes
  <2>3. /\ reconciler'.pc = "idle" /\ reconciler.pc = "idle"
        /\ \A d \in Clerks : d # c => clerk'[d].pc = "idle" /\ clerk[d].pc = "idle"
    BY <2>1, <2>2, StaysAlone
  <2> QED
    BY <1>9, <2>2, <2>3, KillEngineDoes DEF Known, Unentered, Current, Shapes, Moves, Idle
<1>10. ASSUME NEW c \in Clerks, CloseAccount(c) PROVE Known'
  <2>1. ~met /\ Only(c)
    BY <1>10, CloseAccountDoes, Alone DEF Idle
  <2>2. Moves(c, "mark") /\ UNCHANGED reconciler
    BY <1>10, CloseAccountDoes
  <2>3. /\ reconciler'.pc = "idle" /\ reconciler.pc = "idle"
        /\ \A d \in Clerks : d # c => clerk'[d].pc = "idle" /\ clerk[d].pc = "idle"
    BY <2>1, <2>2, StaysAlone
  <2> QED
    BY <1>10, <2>2, <2>3, CloseAccountDoes DEF Known, Unentered, Current, Shapes, Moves, Idle
<1>11. ASSUME NEW c \in Clerks, FinishStop(c) PROVE Known'
  <2>1. ~met /\ Only(c)
    BY <1>11, FinishStopDoes, Alone DEF Idle
  <2>2. Moves(c, "idle") /\ UNCHANGED reconciler
    BY <1>11, FinishStopDoes
  <2>3. /\ reconciler'.pc = "idle" /\ reconciler.pc = "idle"
        /\ \A d \in Clerks : d # c => clerk'[d].pc = "idle" /\ clerk[d].pc = "idle"
    BY <2>1, <2>2, StaysAlone
  <2> QED
    BY <1>11, <2>2, <2>3, FinishStopDoes DEF Known, Unentered, Current, Shapes, Moves, Idle
<1>12. ASSUME Look PROVE Known'
  <2>1. (reconciler.pc # "idle" \/ Quiet) /\ UNCHANGED clerk
    BY <1>12, LookDoes, BeginsAlone DEF Shapes
  <2>2. \A d \in Clerks : clerk'[d].pc = "idle" /\ clerk[d].pc = "idle"
    BY <2>1, ReconcilerAlone
  <2> QED
    BY <1>12, <2>2, LookDoes DEF Known, Unentered, Current, Shapes
<1>13. ASSUME Count PROVE Known'
  <2>1. (reconciler.pc # "idle" \/ Quiet) /\ UNCHANGED clerk
    BY <1>13, CountDoes
  <2>2. \A d \in Clerks : clerk'[d].pc = "idle" /\ clerk[d].pc = "idle"
    BY <2>1, ReconcilerAlone
  <2> QED
    BY <1>13, <2>2, CountDoes DEF Known, Unentered, Current, Shapes
<1>14. ASSUME BlowFuse PROVE Known'
  <2>1. (reconciler.pc # "idle" \/ Quiet) /\ UNCHANGED clerk
    BY <1>14, BlowFuseDoes
  <2>2. \A d \in Clerks : clerk'[d].pc = "idle" /\ clerk[d].pc = "idle"
    BY <2>1, ReconcilerAlone
  <2> QED
    BY <1>14, <2>2, BlowFuseDoes DEF Known, Unentered, Current, Shapes
<1>15. ASSUME LaunchAgain PROVE Known'
  <2>1. (reconciler.pc # "idle" \/ Quiet) /\ UNCHANGED clerk
    BY <1>15, LaunchAgainDoes
  <2>2. \A d \in Clerks : clerk'[d].pc = "idle" /\ clerk[d].pc = "idle"
    BY <2>1, ReconcilerAlone
  <2> QED
    BY <1>15, <2>2, LaunchAgainDoes DEF Known, Unentered, Current, Shapes
<1>16. ASSUME LaunchAgainFails PROVE Known'
  <2>1. (reconciler.pc # "idle" \/ Quiet) /\ UNCHANGED clerk
    BY <1>16, LaunchAgainFailsDoes
  <2>2. \A d \in Clerks : clerk'[d].pc = "idle" /\ clerk[d].pc = "idle"
    BY <2>1, ReconcilerAlone
  <2> QED
    BY <1>16, <2>2, LaunchAgainFailsDoes DEF Known, Unentered, Current, Shapes
<1>17. ASSUME NoteAgain PROVE Known'
  <2>1. (reconciler.pc # "idle" \/ Quiet) /\ UNCHANGED clerk
    BY <1>17, NoteAgainDoes
  <2>2. \A d \in Clerks : clerk'[d].pc = "idle" /\ clerk[d].pc = "idle"
    BY <2>1, ReconcilerAlone
  <2> QED
    BY <1>17, <2>2, NoteAgainDoes DEF Known, Unentered, Current, Shapes
<1>18. CASE Outside
  BY <1>18, OutsideDoes DEF Known, Unentered, Current, Shapes
<1>19. ASSUME NEW p \in Pids, Progress(p) PROVE Known'
  BY <1>19, ProgressDoes DEF Known, Unentered, Current, Shapes
<1>20. CASE ServerRestarts
  BY <1>20, ServerRestartsDoes DEF Quiet, Idle, Known, Unentered, Current, Shapes
<1> QED
  BY <1>1, <1>2, <1>3, <1>4, <1>5, <1>6, <1>7, <1>8, <1>9, <1>10, <1>11, <1>12, <1>13, <1>14,
     <1>15, <1>16, <1>17, <1>18, <1>19, <1>20
     DEF Next, StartGoesOn, StopGoesOn, Reconciler, Outside

\* The count keeps up.
LEMMA FuseStep ==
    ASSUME "crash" \notin Faults, Shapes, Serial, Current, Known, Fuse, Next, ~met'
    PROVE  Fuse'
<1>1. ASSUME NEW c \in Clerks, CheckStart(c) PROVE Fuse'
  <2>1. ~met /\ Only(c)
    <3>1. ~met /\ Quiet
      BY <1>1, CheckStartDoes, BeginsAlone DEF Shapes
    <3> QED
      BY <3>1 DEF Quiet, Only, Idle
  <2>2. Moves(c, "spawn") /\ UNCHANGED reconciler
    BY <1>1, CheckStartDoes
  <2>3. /\ reconciler'.pc = "idle" /\ reconciler.pc = "idle"
        /\ \A d \in Clerks : d # c => clerk'[d].pc = "idle" /\ clerk[d].pc = "idle"
    BY <2>1, <2>2, StaysAlone
  <2> QED
    BY <1>1, <2>2, <2>3, CheckStartDoes, ProjectRunConstants DEF Fuse, Current, Known, Shapes, Moves, Idle
<1>2. ASSUME NEW c \in Clerks, LaunchStart(c) PROVE Fuse'
  <2>1. ~met /\ Only(c)
    BY <1>2, LaunchStartDoes, Alone DEF Idle
  <2>2. Moves(c, "note") /\ UNCHANGED reconciler
    BY <1>2, LaunchStartDoes
  <2>3. /\ reconciler'.pc = "idle" /\ reconciler.pc = "idle"
        /\ \A d \in Clerks : d # c => clerk'[d].pc = "idle" /\ clerk[d].pc = "idle"
    BY <2>1, <2>2, StaysAlone
  <2> QED
    BY <1>2, <2>2, <2>3, LaunchStartDoes, ProjectRunConstants DEF Fuse, Current, Known, Shapes, Moves, Idle
<1>3. ASSUME NEW c \in Clerks, LaunchFails(c) PROVE Fuse'
  <2>1. ~met /\ Only(c)
    BY <1>3, LaunchFailsDoes, Alone DEF Idle
  <2>2. Moves(c, "idle") /\ UNCHANGED reconciler
    BY <1>3, LaunchFailsDoes
  <2>3. /\ reconciler'.pc = "idle" /\ reconciler.pc = "idle"
        /\ \A d \in Clerks : d # c => clerk'[d].pc = "idle" /\ clerk[d].pc = "idle"
    BY <2>1, <2>2, StaysAlone
  <2> QED
    BY <1>3, <2>2, <2>3, LaunchFailsDoes, ProjectRunConstants DEF Fuse, Current, Known, Shapes, Moves, Idle
<1>4. ASSUME NEW c \in Clerks, NoteStart(c) PROVE Fuse'
  <2>1. ~met /\ Only(c)
    BY <1>4, NoteStartDoes, Alone DEF Idle
  <2>2. Moves(c, "account") /\ UNCHANGED reconciler
    BY <1>4, NoteStartDoes
  <2>3. /\ reconciler'.pc = "idle" /\ reconciler.pc = "idle"
        /\ \A d \in Clerks : d # c => clerk'[d].pc = "idle" /\ clerk[d].pc = "idle"
    BY <2>1, <2>2, StaysAlone
  <2> QED
    BY <1>4, <2>2, <2>3, NoteStartDoes, ProjectRunConstants DEF Fuse, Current, Known, Shapes, Moves, Idle
<1>5. ASSUME NEW c \in Clerks, OpenAccount(c) PROVE Fuse'
  <2>1. ~met /\ Only(c)
    BY <1>5, OpenAccountDoes, Alone DEF Idle
  <2>2. Moves(c, "status") /\ UNCHANGED reconciler
    BY <1>5, OpenAccountDoes
  <2>3. /\ reconciler'.pc = "idle" /\ reconciler.pc = "idle"
        /\ \A d \in Clerks : d # c => clerk'[d].pc = "idle" /\ clerk[d].pc = "idle"
    BY <2>1, <2>2, StaysAlone
  <2> QED
    BY <1>5, <2>2, <2>3, OpenAccountDoes, ProjectRunConstants DEF Fuse, Current, Known, Shapes, Moves, Idle
<1>6. ASSUME NEW c \in Clerks, FinishStart(c) PROVE Fuse'
  <2>1. ~met /\ Only(c)
    BY <1>6, FinishStartDoes, Alone DEF Idle
  <2>2. Moves(c, "idle") /\ UNCHANGED reconciler
    BY <1>6, FinishStartDoes
  <2>3. /\ reconciler'.pc = "idle" /\ reconciler.pc = "idle"
        /\ \A d \in Clerks : d # c => clerk'[d].pc = "idle" /\ clerk[d].pc = "idle"
    BY <2>1, <2>2, StaysAlone
  <2> QED
    BY <1>6, <2>2, <2>3, FinishStartDoes, ProjectRunConstants DEF Fuse, Current, Known, Shapes, Moves, Idle
<1>7. ASSUME NEW c \in Clerks, TakeBack(c) PROVE Fuse'
  <2>1. ~met /\ Only(c)
    BY <1>7, TakeBackDoes, Alone DEF Idle
  <2>2. Moves(c, "idle") /\ UNCHANGED reconciler
    BY <1>7, TakeBackDoes
  <2>3. /\ reconciler'.pc = "idle" /\ reconciler.pc = "idle"
        /\ \A d \in Clerks : d # c => clerk'[d].pc = "idle" /\ clerk[d].pc = "idle"
    BY <2>1, <2>2, StaysAlone
  <2> QED
    BY <1>7, <2>2, <2>3, TakeBackDoes, ProjectRunConstants DEF Fuse, Current, Known, Shapes, Moves, Idle
<1>8. ASSUME NEW c \in Clerks, BeginStop(c) PROVE Fuse'
  <2>1. ~met /\ Only(c)
    <3>1. ~met /\ Quiet
      BY <1>8, BeginStopDoes, BeginsAlone DEF Shapes
    <3> QED
      BY <3>1 DEF Quiet, Only, Idle
  <2>2. Moves(c, "kill") /\ UNCHANGED reconciler
    BY <1>8, BeginStopDoes
  <2>3. /\ reconciler'.pc = "idle" /\ reconciler.pc = "idle"
        /\ \A d \in Clerks : d # c => clerk'[d].pc = "idle" /\ clerk[d].pc = "idle"
    BY <2>1, <2>2, StaysAlone
  <2> QED
    BY <1>8, <2>2, <2>3, BeginStopDoes, ProjectRunConstants DEF Fuse, Current, Known, Shapes, Moves, Idle
<1>9. ASSUME NEW c \in Clerks, KillEngine(c) PROVE Fuse'
  <2>1. ~met /\ Only(c)
    BY <1>9, KillEngineDoes, Alone DEF Idle
  <2>2. Moves(c, "close") /\ UNCHANGED reconciler
    BY <1>9, KillEngineDoes
  <2>3. /\ reconciler'.pc = "idle" /\ reconciler.pc = "idle"
        /\ \A d \in Clerks : d # c => clerk'[d].pc = "idle" /\ clerk[d].pc = "idle"
    BY <2>1, <2>2, StaysAlone
  <2> QED
    BY <1>9, <2>2, <2>3, KillEngineDoes, ProjectRunConstants DEF Fuse, Current, Known, Shapes, Moves, Idle
<1>10. ASSUME NEW c \in Clerks, CloseAccount(c) PROVE Fuse'
  <2>1. ~met /\ Only(c)
    BY <1>10, CloseAccountDoes, Alone DEF Idle
  <2>2. Moves(c, "mark") /\ UNCHANGED reconciler
    BY <1>10, CloseAccountDoes
  <2>3. /\ reconciler'.pc = "idle" /\ reconciler.pc = "idle"
        /\ \A d \in Clerks : d # c => clerk'[d].pc = "idle" /\ clerk[d].pc = "idle"
    BY <2>1, <2>2, StaysAlone
  <2> QED
    BY <1>10, <2>2, <2>3, CloseAccountDoes, ProjectRunConstants DEF Fuse, Current, Known, Shapes, Moves, Idle
<1>11. ASSUME NEW c \in Clerks, FinishStop(c) PROVE Fuse'
  <2>1. ~met /\ Only(c)
    BY <1>11, FinishStopDoes, Alone DEF Idle
  <2>2. Moves(c, "idle") /\ UNCHANGED reconciler
    BY <1>11, FinishStopDoes
  <2>3. /\ reconciler'.pc = "idle" /\ reconciler.pc = "idle"
        /\ \A d \in Clerks : d # c => clerk'[d].pc = "idle" /\ clerk[d].pc = "idle"
    BY <2>1, <2>2, StaysAlone
  <2> QED
    BY <1>11, <2>2, <2>3, FinishStopDoes, ProjectRunConstants DEF Fuse, Current, Known, Shapes, Moves, Idle
<1>12. ASSUME Look PROVE Fuse'
  <2>1. (reconciler.pc # "idle" \/ Quiet) /\ UNCHANGED clerk
    BY <1>12, LookDoes, BeginsAlone DEF Shapes
  <2>2. \A d \in Clerks : clerk'[d].pc = "idle" /\ clerk[d].pc = "idle"
    BY <2>1, ReconcilerAlone
  <2> QED
    BY <1>12, <2>2, LookDoes, ProjectRunConstants DEF Fuse, Current, Known, Shapes
<1>13. ASSUME Count PROVE Fuse'
  <2>1. (reconciler.pc # "idle" \/ Quiet) /\ UNCHANGED clerk
    BY <1>13, CountDoes
  <2>2. \A d \in Clerks : clerk'[d].pc = "idle" /\ clerk[d].pc = "idle"
    BY <2>1, ReconcilerAlone
  <2>3. /\ reconciler.row = account /\ account.state = "running" /\ account.lastSpawn = spawns
        /\ spawns # 0 /\ barren <= account.restarts + 1
    BY <1>13, <2>2, CountDoes DEF Current, Fuse
  <2>4. account \in Entries /\ account.restarts \in Nat /\ spawns \in Nat /\ moved \in Nat /\ barren \in Nat
    BY DEF Shapes, Entries
  <2>5. account'.restarts = Counted(account).restarts /\ account'.lastSpawn = spawns
    BY <1>13, <2>3, CountDoes
  <2>6. barren <= account'.restarts
    <3>1. CASE Progressed(account)
      <4>1. moved = spawns
        BY <2>3, <2>4, <3>1 DEF Progressed, Shapes
      <4>2. barren = 0 /\ Counted(account).restarts = 0
        BY <2>3, <2>4, <3>1, <4>1 DEF Fuse, Counted, Entries
      <4> QED
        BY <2>5, <4>2
    <3>2. CASE ~Progressed(account)
      BY <2>3, <2>4, <2>5, <3>2, CountTyped
    <3> QED
      BY <3>1, <3>2
  <2>7. /\ UNCHANGED <<moved, spawns, barren>> /\ account'.restarts \in Nat
        /\ reconciler'.pc = "spawn" => account'.restarts < MaxIdle
    BY <1>13, CountDoes DEF Entries
  <2> QED
    BY <2>3, <2>4, <2>5, <2>6, <2>7, ProjectRunConstants DEF Fuse
<1>14. ASSUME BlowFuse PROVE Fuse'
  <2>1. (reconciler.pc # "idle" \/ Quiet) /\ UNCHANGED clerk
    BY <1>14, BlowFuseDoes
  <2>2. \A d \in Clerks : clerk'[d].pc = "idle" /\ clerk[d].pc = "idle"
    BY <2>1, ReconcilerAlone
  <2> QED
    BY <1>14, <2>2, BlowFuseDoes, ProjectRunConstants DEF Fuse, Current, Known, Shapes
<1>15. ASSUME LaunchAgain PROVE Fuse'
  <2>1. (reconciler.pc # "idle" \/ Quiet) /\ UNCHANGED clerk
    BY <1>15, LaunchAgainDoes
  <2>2. \A d \in Clerks : clerk'[d].pc = "idle" /\ clerk[d].pc = "idle"
    BY <2>1, ReconcilerAlone
  <2>3. /\ account.state = "running" /\ barren <= account.restarts /\ account.restarts < MaxIdle
    BY <1>15, LaunchAgainDoes DEF Current, Fuse
  <2>4. /\ account.restarts \in Nat /\ spawns \in Nat /\ moved \in Nat /\ moved <= spawns /\ barren \in Nat
        /\ MaxIdle \in Nat
    BY ProjectRunConstants DEF Shapes, Entries
  <2>5. /\ spawns' = spawns + 1 /\ barren' = barren + 1 /\ reconciler'.pc = "note"
        /\ UNCHANGED <<account, moved>>
    BY <1>15, LaunchAgainDoes
  <2>6. spawns' # 0 /\ moved' # spawns' /\ barren' <= MaxIdle /\ barren' <= account'.restarts + 1
    BY <2>3, <2>4, <2>5
  <2> QED
    BY <2>5, <2>6 DEF Fuse
<1>16. ASSUME LaunchAgainFails PROVE Fuse'
  <2>1. (reconciler.pc # "idle" \/ Quiet) /\ UNCHANGED clerk
    BY <1>16, LaunchAgainFailsDoes
  <2>2. \A d \in Clerks : clerk'[d].pc = "idle" /\ clerk[d].pc = "idle"
    BY <2>1, ReconcilerAlone
  <2> QED
    BY <1>16, <2>2, LaunchAgainFailsDoes, ProjectRunConstants DEF Fuse, Current, Known, Shapes
<1>17. ASSUME NoteAgain PROVE Fuse'
  <2>1. (reconciler.pc # "idle" \/ Quiet) /\ UNCHANGED clerk
    BY <1>17, NoteAgainDoes
  <2>2. \A d \in Clerks : clerk'[d].pc = "idle" /\ clerk[d].pc = "idle"
    BY <2>1, ReconcilerAlone
  <2> QED
    BY <1>17, <2>2, NoteAgainDoes, ProjectRunConstants DEF Fuse, Current, Known, Shapes
<1>18. CASE Outside
  BY <1>18, OutsideDoes DEF Fuse, Current, Known, Shapes
<1>19. ASSUME NEW p \in Pids, Progress(p) PROVE Fuse'
  <2>1. /\ barren' = 0 /\ moved' = spawns
        /\ UNCHANGED <<account, spawns, clerk, reconciler>>
    BY <1>19, ProgressDoes
  <2>2. account.restarts \in Nat /\ MaxIdle \in Nat
    BY ProjectRunConstants DEF Shapes, Entries
  <2>3. barren' <= MaxIdle /\ barren' <= account'.restarts + 1 /\ barren' <= account'.restarts
    BY <2>1, <2>2
  <2> QED
    BY <2>1, <2>3 DEF Fuse
<1>20. CASE ServerRestarts
  BY <1>20, ServerRestartsDoes DEF Quiet, Idle, Fuse, Current, Known, Shapes
<1> QED
  BY <1>1, <1>2, <1>3, <1>4, <1>5, <1>6, <1>7, <1>8, <1>9, <1>10, <1>11, <1>12, <1>13, <1>14,
     <1>15, <1>16, <1>17, <1>18, <1>19, <1>20
     DEF Next, StartGoesOn, StopGoesOn, Reconciler, Outside

-----------------------------------------------------------------------------
\* B. When operations meet in any way, as long as the engine was started once.

Starting(c) == clerk[c].pc \in StartSteps

\* The one start comes before anything the reconciler does.
Once ==
    /\ \A c, d \in Clerks : Starting(c) /\ Starting(d) => c = d
    /\ starts = 0 => account.state = "none" /\ spawns = 0 /\ \A c \in Clerks : ~Starting(c)
    /\ account.state = "none" =>
           /\ ~executing /\ reconciler.pc = "idle"
           /\ \A c \in Clerks : clerk[c].pc \in {"kill", "close"} => clerk[c].row.state = "none"
    /\ \A c \in Clerks :
        /\ Starting(c) => ~executing /\ reconciler.pc = "idle"
        /\ clerk[c].pc = "spawn" => spawns = 0
        /\ clerk[c].pc = "note" => clerk[c].row.state = "none"
        /\ clerk[c].pc \in {"note", "account"} => clerk[c].pid = spawns /\ spawns # 0
        /\ clerk[c].pc \in {"spawn", "note", "account"} => account.state = "none"
        /\ clerk[c].pc = "status" => account.state # "none"

\* Only the latest engine lives, and whoever opens the account knows it.
Latest ==
    /\ alive \subseteq {spawns}
    /\ held \in {0, spawns}
    /\ account.state = "running" /\ reconciler.pc # "note" =>
           account.pid = spawns /\ account.lastSpawn = spawns /\ spawns # 0
    /\ reconciler.pc \in {"write", "spawn", "fuse"} => alive = {}
    /\ reconciler.pc = "write" =>
           reconciler.row.pid = spawns /\ reconciler.row.lastSpawn = spawns /\ spawns # 0
    /\ reconciler.pc = "note" => reconciler.pid = spawns /\ spawns # 0 /\ reconciler.row.state # "none"

\* The count of whoever opens the account is at most one behind.
Charge ==
    /\ barren <= MaxIdle
    /\ moved = spawns /\ spawns # 0 => barren = 0
    /\ account.state = "running" /\ reconciler.pc # "note" => barren <= account.restarts + 1
    /\ reconciler.pc = "write" => barren <= reconciler.row.restarts + 1
    /\ reconciler.pc = "spawn" =>
           barren < MaxIdle /\ (account.state = "running" => barren <= account.restarts)
    /\ reconciler.pc = "note" /\ reconciler.row.state = "running" =>
           barren <= reconciler.row.restarts + 1

\* Before the start there is nothing, and nothing runs beside it.
LEMMA OnceStep ==
    ASSUME "crash" \notin Faults, Shapes, Once, Latest, Next, starts' <= 1
    PROVE  Once'
<1>1. ASSUME NEW c \in Clerks, CheckStart(c) PROVE Once'
  BY <1>1, CheckStartDoes DEF Once, Starting, StartSteps, Shapes, Moves, Idle
<1>2. ASSUME NEW c \in Clerks, LaunchStart(c) PROVE Once'
  BY <1>2, LaunchStartDoes DEF Once, Starting, StartSteps, Shapes, Moves, Idle
<1>3. ASSUME NEW c \in Clerks, LaunchFails(c) PROVE Once'
  BY <1>3, LaunchFailsDoes DEF Once, Starting, StartSteps, Shapes, Moves, Idle
<1>4. ASSUME NEW c \in Clerks, NoteStart(c) PROVE Once'
  BY <1>4, NoteStartDoes DEF Once, Starting, StartSteps, Shapes, Moves, Idle
<1>5. ASSUME NEW c \in Clerks, OpenAccount(c) PROVE Once'
  BY <1>5, OpenAccountDoes DEF Once, Starting, StartSteps, Shapes, Moves, Idle
<1>6. ASSUME NEW c \in Clerks, FinishStart(c) PROVE Once'
  <2>1. /\ clerk[c].pc = "status" /\ Moves(c, "idle")
        /\ UNCHANGED <<account, spawns, reconciler, starts>>
    BY <1>6, FinishStartDoes
  <2>2. account.state # "none" /\ reconciler.pc = "idle" /\ starts # 0
    BY <2>1 DEF Once, Starting, StartSteps
  <2>3. \A d \in Clerks : clerk'[d].pc \notin StartSteps
    <3>1. \A d \in Clerks : d # c => clerk[d].pc \notin StartSteps
      BY <2>1 DEF Once, Starting, StartSteps
    <3> QED
      BY <2>1, <3>1 DEF Moves, StartSteps
  <2> QED
    BY <2>1, <2>2, <2>3 DEF Once, Starting, StartSteps
<1>7. ASSUME NEW c \in Clerks, TakeBack(c) PROVE Once'
  BY <1>7, TakeBackDoes DEF Once, Starting, StartSteps, Shapes, Moves, Idle
<1>8. ASSUME NEW c \in Clerks, BeginStop(c) PROVE Once'
  BY <1>8, BeginStopDoes DEF Once, Starting, StartSteps, Shapes, Moves, Idle
<1>9. ASSUME NEW c \in Clerks, KillEngine(c) PROVE Once'
  BY <1>9, KillEngineDoes DEF Once, Starting, StartSteps, Shapes, Moves, Idle
<1>10. ASSUME NEW c \in Clerks, CloseAccount(c) PROVE Once'
  BY <1>10, CloseAccountDoes DEF Once, Starting, StartSteps, Shapes, Moves, Idle
<1>11. ASSUME NEW c \in Clerks, FinishStop(c) PROVE Once'
  BY <1>11, FinishStopDoes DEF Once, Starting, StartSteps, Shapes, Moves, Idle
<1>12. ASSUME Look PROVE Once'
  BY <1>12, LookDoes, LookWhen DEF Once, Starting, StartSteps, Shapes
<1>13. ASSUME Count PROVE Once'
  BY <1>13, CountDoes DEF Once, Starting, StartSteps, Shapes
<1>14. ASSUME BlowFuse PROVE Once'
  BY <1>14, BlowFuseDoes DEF Once, Starting, StartSteps, Shapes
<1>15. ASSUME LaunchAgain PROVE Once'
  BY <1>15, LaunchAgainDoes DEF Once, Starting, StartSteps, Shapes
<1>16. ASSUME LaunchAgainFails PROVE Once'
  BY <1>16, LaunchAgainFailsDoes DEF Once, Starting, StartSteps, Shapes
<1>17. ASSUME NoteAgain PROVE Once'
  BY <1>17, NoteAgainDoes DEF Once, Starting, StartSteps, Shapes
<1>18. CASE Outside
  BY <1>18, OutsideDoes DEF Once, Starting, StartSteps, Shapes
<1>19. ASSUME NEW p \in Pids, Progress(p) PROVE Once'
  BY <1>19, ProgressDoes DEF Once, Starting, StartSteps, Shapes
<1>20. CASE ServerRestarts
  BY <1>20, ServerRestartsDoes DEF Quiet, Idle, Once, Starting, StartSteps, Shapes
<1> QED
  BY <1>1, <1>2, <1>3, <1>4, <1>5, <1>6, <1>7, <1>8, <1>9, <1>10, <1>11, <1>12, <1>13, <1>14,
     <1>15, <1>16, <1>17, <1>18, <1>19, <1>20
     DEF Next, StartGoesOn, StopGoesOn, Reconciler, Outside

\* A launch comes when nobody lives.
LEMMA LatestStep ==
    ASSUME "crash" \notin Faults, Shapes, Once, Latest, Next, starts' <= 1
    PROVE  Latest'
<1>1. ASSUME NEW c \in Clerks, CheckStart(c) PROVE Latest'
  BY <1>1, CheckStartDoes DEF Latest, Once, Starting, StartSteps, Shapes, Moves, Idle
<1>2. ASSUME NEW c \in Clerks, LaunchStart(c) PROVE Latest'
  BY <1>2, LaunchStartDoes DEF Latest, Once, Starting, StartSteps, Shapes, Moves, Idle
<1>3. ASSUME NEW c \in Clerks, LaunchFails(c) PROVE Latest'
  BY <1>3, LaunchFailsDoes DEF Latest, Once, Starting, StartSteps, Shapes, Moves, Idle
<1>4. ASSUME NEW c \in Clerks, NoteStart(c) PROVE Latest'
  BY <1>4, NoteStartDoes DEF Latest, Once, Starting, StartSteps, Shapes, Moves, Idle
<1>5. ASSUME NEW c \in Clerks, OpenAccount(c) PROVE Latest'
  BY <1>5, OpenAccountDoes DEF Latest, Once, Starting, StartSteps, Shapes, Moves, Idle
<1>6. ASSUME NEW c \in Clerks, FinishStart(c) PROVE Latest'
  BY <1>6, FinishStartDoes DEF Latest, Once, Starting, StartSteps, Shapes, Moves, Idle
<1>7. ASSUME NEW c \in Clerks, TakeBack(c) PROVE Latest'
  BY <1>7, TakeBackDoes DEF Latest, Once, Starting, StartSteps, Shapes, Moves, Idle
<1>8. ASSUME NEW c \in Clerks, BeginStop(c) PROVE Latest'
  BY <1>8, BeginStopDoes DEF Latest, Once, Starting, StartSteps, Shapes, Moves, Idle
<1>9. ASSUME NEW c \in Clerks, KillEngine(c) PROVE Latest'
  BY <1>9, KillEngineDoes DEF Latest, Once, Starting, StartSteps, Shapes, Moves, Idle
<1>10. ASSUME NEW c \in Clerks, CloseAccount(c) PROVE Latest'
  BY <1>10, CloseAccountDoes DEF Latest, Once, Starting, StartSteps, Shapes, Moves, Idle
<1>11. ASSUME NEW c \in Clerks, FinishStop(c) PROVE Latest'
  BY <1>11, FinishStopDoes DEF Latest, Once, Starting, StartSteps, Shapes, Moves, Idle
<1>12. ASSUME Look PROVE Latest'
  BY <1>12, LookDoes, LookWhen DEF Latest, Once, Starting, StartSteps, Shapes
<1>13. ASSUME Count PROVE Latest'
  BY <1>13, CountDoes DEF Latest, Once, Starting, StartSteps, Shapes
<1>14. ASSUME BlowFuse PROVE Latest'
  BY <1>14, BlowFuseDoes DEF Latest, Once, Starting, StartSteps, Shapes
<1>15. ASSUME LaunchAgain PROVE Latest'
  BY <1>15, LaunchAgainDoes DEF Latest, Once, Starting, StartSteps, Shapes
<1>16. ASSUME LaunchAgainFails PROVE Latest'
  BY <1>16, LaunchAgainFailsDoes DEF Latest, Once, Starting, StartSteps, Shapes
<1>17. ASSUME NoteAgain PROVE Latest'
  BY <1>17, NoteAgainDoes DEF Latest, Once, Starting, StartSteps, Shapes
<1>18. CASE Outside
  BY <1>18, OutsideDoes DEF Latest, Once, Starting, StartSteps, Shapes
<1>19. ASSUME NEW p \in Pids, Progress(p) PROVE Latest'
  BY <1>19, ProgressDoes DEF Latest, Once, Starting, StartSteps, Shapes
<1>20. CASE ServerRestarts
  BY <1>20, ServerRestartsDoes DEF Quiet, Idle, Latest, Once, Starting, StartSteps, Shapes
<1> QED
  BY <1>1, <1>2, <1>3, <1>4, <1>5, <1>6, <1>7, <1>8, <1>9, <1>10, <1>11, <1>12, <1>13, <1>14,
     <1>15, <1>16, <1>17, <1>18, <1>19, <1>20
     DEF Next, StartGoesOn, StopGoesOn, Reconciler, Outside

\* The count keeps up.
LEMMA ChargeStep ==
    ASSUME "crash" \notin Faults, Shapes, Once, Latest, Charge, Next, starts' <= 1
    PROVE  Charge'
<1>1. ASSUME NEW c \in Clerks, CheckStart(c) PROVE Charge'
  BY <1>1, CheckStartDoes DEF Charge, Latest, Once, Starting, StartSteps, Shapes, Moves, Idle
<1>2. ASSUME NEW c \in Clerks, LaunchStart(c) PROVE Charge'
  BY <1>2, LaunchStartDoes DEF Charge, Latest, Once, Starting, StartSteps, Shapes, Moves, Idle
<1>3. ASSUME NEW c \in Clerks, LaunchFails(c) PROVE Charge'
  BY <1>3, LaunchFailsDoes DEF Charge, Latest, Once, Starting, StartSteps, Shapes, Moves, Idle
<1>4. ASSUME NEW c \in Clerks, NoteStart(c) PROVE Charge'
  BY <1>4, NoteStartDoes DEF Charge, Latest, Once, Starting, StartSteps, Shapes, Moves, Idle
<1>5. ASSUME NEW c \in Clerks, OpenAccount(c) PROVE Charge'
  <2>1. /\ clerk[c].pc = "account" /\ account'.restarts = 0 /\ barren' = 0
        /\ UNCHANGED <<moved, spawns, reconciler>>
    BY <1>5, OpenAccountDoes
  <2>2. reconciler.pc = "idle"
    BY <2>1 DEF Once, Starting, StartSteps
  <2>3. barren' <= MaxIdle /\ barren' <= account'.restarts + 1
    BY <2>1, ProjectRunConstants
  <2> QED
    BY <2>1, <2>2, <2>3 DEF Charge
<1>6. ASSUME NEW c \in Clerks, FinishStart(c) PROVE Charge'
  BY <1>6, FinishStartDoes DEF Charge, Latest, Once, Starting, StartSteps, Shapes, Moves, Idle
<1>7. ASSUME NEW c \in Clerks, TakeBack(c) PROVE Charge'
  BY <1>7, TakeBackDoes DEF Charge, Latest, Once, Starting, StartSteps, Shapes, Moves, Idle
<1>8. ASSUME NEW c \in Clerks, BeginStop(c) PROVE Charge'
  BY <1>8, BeginStopDoes DEF Charge, Latest, Once, Starting, StartSteps, Shapes, Moves, Idle
<1>9. ASSUME NEW c \in Clerks, KillEngine(c) PROVE Charge'
  BY <1>9, KillEngineDoes DEF Charge, Latest, Once, Starting, StartSteps, Shapes, Moves, Idle
<1>10. ASSUME NEW c \in Clerks, CloseAccount(c) PROVE Charge'
  BY <1>10, CloseAccountDoes DEF Charge, Latest, Once, Starting, StartSteps, Shapes, Moves, Idle
<1>11. ASSUME NEW c \in Clerks, FinishStop(c) PROVE Charge'
  BY <1>11, FinishStopDoes DEF Charge, Latest, Once, Starting, StartSteps, Shapes, Moves, Idle
<1>12. ASSUME Look PROVE Charge'
  BY <1>12, LookDoes, LookWhen DEF Charge, Latest, Once, Starting, StartSteps, Shapes
<1>13. ASSUME Count PROVE Charge'
  <2> DEFINE row == reconciler.row
  <2>1. /\ row.lastSpawn = spawns /\ spawns # 0 /\ barren <= row.restarts + 1
        /\ account'.restarts = Counted(row).restarts /\ account' \in Entries
    BY <1>13, CountDoes DEF Charge, Latest
  <2>2. /\ row \in Entries /\ row.restarts \in Nat /\ account'.restarts \in Nat /\ spawns \in Nat
        /\ moved \in Nat /\ moved <= spawns /\ barren \in Nat /\ MaxIdle \in Nat
    BY <2>1, ProjectRunConstants DEF Shapes, Entries, ReconcilerStates
  <2> HIDE DEF row
  <2>3. barren <= account'.restarts
    <3>1. CASE Progressed(row)
      <4>1. moved = spawns
        BY <2>1, <2>2, <3>1 DEF Progressed
      <4>2. barren = 0
        BY <2>1, <4>1 DEF Charge
      <4> QED
        BY <2>2, <4>2
    <3>2. CASE ~Progressed(row)
      BY <2>1, <2>2, <3>2, CountTyped
    <3> QED
      BY <3>1, <3>2
  <2>4. /\ UNCHANGED <<moved, spawns, barren>>
        /\ \/ reconciler'.pc = "fuse" /\ account'.state = "stopped"
           \/ reconciler'.pc = "spawn" /\ account'.restarts < MaxIdle
    BY <1>13, CountDoes
  <2>5. /\ barren' <= account'.restarts + 1 /\ barren' <= account'.restarts
        /\ account'.restarts < MaxIdle => barren' < MaxIdle
    BY <2>2, <2>3, <2>4
  <2> QED
    BY <2>4, <2>5 DEF Charge
<1>14. ASSUME BlowFuse PROVE Charge'
  BY <1>14, BlowFuseDoes DEF Charge, Latest, Once, Starting, StartSteps, Shapes
<1>15. ASSUME LaunchAgain PROVE Charge'
  <2>1. /\ reconciler.pc = "spawn" /\ reconciler'.pc = "note" /\ reconciler'.row = account
        /\ spawns' = spawns + 1 /\ barren' = barren + 1 /\ UNCHANGED <<account, moved>>
    BY <1>15, LaunchAgainDoes
  <2>2. /\ spawns \in Nat /\ moved \in Nat /\ moved <= spawns /\ barren \in Nat /\ MaxIdle \in Nat
        /\ account.restarts \in Nat
    BY ProjectRunConstants DEF Shapes, Entries
  <2>3. barren < MaxIdle /\ (account.state = "running" => barren <= account.restarts)
    BY <2>1 DEF Charge
  <2>4. barren' <= MaxIdle /\ moved' # spawns'
    BY <2>1, <2>2, <2>3
  <2>5. account.state = "running" => barren' <= account.restarts + 1
    BY <2>1, <2>2, <2>3
  <2> QED
    BY <2>1, <2>4, <2>5 DEF Charge
<1>16. ASSUME LaunchAgainFails PROVE Charge'
  BY <1>16, LaunchAgainFailsDoes DEF Charge, Latest, Once, Starting, StartSteps, Shapes
<1>17. ASSUME NoteAgain PROVE Charge'
  BY <1>17, NoteAgainDoes DEF Charge, Latest, Once, Starting, StartSteps, Shapes
<1>18. CASE Outside
  BY <1>18, OutsideDoes DEF Charge, Latest, Once, Starting, StartSteps, Shapes
<1>19. ASSUME NEW p \in Pids, Progress(p) PROVE Charge'
  <2>1. barren' = 0 /\ moved' = spawns /\ UNCHANGED <<account, spawns, reconciler>>
    BY <1>19, ProgressDoes
  <2>2. /\ account.restarts \in Nat /\ reconciler.row.restarts \in Nat /\ MaxIdle \in Nat
        /\ barren \in Nat
    BY ProjectRunConstants DEF Shapes, Entries, ReconcilerStates
  <2>3. /\ barren' <= MaxIdle /\ barren' <= account'.restarts + 1 /\ barren' <= account'.restarts
        /\ barren' <= reconciler'.row.restarts + 1 /\ (barren < MaxIdle => barren' < MaxIdle)
    BY <2>1, <2>2
  <2> QED
    BY <2>1, <2>3 DEF Charge
<1>20. CASE ServerRestarts
  BY <1>20, ServerRestartsDoes DEF Quiet, Idle, Charge, Latest, Once, Starting, StartSteps, Shapes
<1> QED
  BY <1>1, <1>2, <1>3, <1>4, <1>5, <1>6, <1>7, <1>8, <1>9, <1>10, <1>11, <1>12, <1>13, <1>14,
     <1>15, <1>16, <1>17, <1>18, <1>19, <1>20
     DEF Next, StartGoesOn, StopGoesOn, Reconciler, Outside

-----------------------------------------------------------------------------
\* A set with at most one member has at most one.
LEMMA AtMostOne ==
    ASSUME NEW p, alive \subseteq {p}
    PROVE  OneEngine
<1>1. IsFiniteSet({p}) /\ Cardinality({p}) = 1
  BY FS_Singleton
<1>2. Cardinality(alive) <= Cardinality({p})
  BY <1>1, FS_Subset
<1>3. Cardinality(alive) \in Nat
  BY <1>1, FS_Subset, FS_CardinalityType
<1> QED
  BY <1>1, <1>2, <1>3 DEF OneEngine

InvA == ~met => Serial /\ Current
InvK == ~met => Known /\ Fuse
InvB == starts <= 1 => Once /\ Latest /\ Charge

LEMMA InitHolds ==
    ASSUME Init
    PROVE  Shapes /\ InvA /\ InvK /\ InvB
<1>1. /\ executing = FALSE /\ account = NoRow /\ moved = 0 /\ alive = {} /\ spawns = 0 /\ held = 0
      /\ clerk = [c \in Clerks |-> Resting] /\ reconciler = Resting /\ starts = 0 /\ barren = 0
      /\ met = FALSE
  BY DEF Init
<1>2. /\ clerk \in [Clerks -> ClerkStates] /\ reconciler \in ReconcilerStates
      /\ \A c \in Clerks : clerk[c].pc = "idle"
      /\ reconciler.pc = "idle"
  BY <1>1, RestingTyped
<1>3. account \in Entries /\ account.state = "none"
  BY <1>1 DEF NoRow, Entries, States
<1>4. MaxIdle \in Nat /\ barren <= MaxIdle
  BY <1>1, ProjectRunConstants
<1>5. Shapes
  <2>1. executing \in BOOLEAN /\ met \in BOOLEAN
    BY <1>1
  <2>2. /\ moved \in Nat /\ spawns \in Nat /\ held \in Nat /\ barren \in Nat /\ starts \in Nat
        /\ alive \subseteq 1..spawns /\ moved <= spawns
    BY <1>1
  <2> QED
    BY <1>2, <1>3, <2>1, <2>2 DEF Shapes
<1>6. Serial /\ Current
  BY <1>2 DEF Serial, NoClerk, Idle, Current
<1>7. Known /\ Fuse
  BY <1>1, <1>2, <1>3, <1>4 DEF Known, Fuse
<1>8. Once /\ Latest /\ Charge
  BY <1>1, <1>2, <1>3, <1>4 DEF Once, Starting, StartSteps, Latest, Charge
<1> QED
  BY <1>5, <1>6, <1>7, <1>8 DEF InvA, InvK, InvB

\* The histories change where an operation begins.
LEMMA HistoryMoves ==
    ASSUME Shapes, Next
    PROVE  \/ met' = met /\ starts' = starts
           \/ Begins /\ (starts' = starts \/ starts' = starts + 1)
<1>1. CASE \E c \in Clerks : CheckStart(c) \/ BeginStop(c)
  BY <1>1 DEF CheckStart, BeginStop
<1>2. CASE \E c \in Clerks : StartGoesOn(c) \/ StopGoesOn(c)
  BY <1>2 DEF StartGoesOn, StopGoesOn, LaunchStart, LaunchFails, NoteStart, OpenAccount,
     FinishStart, TakeBack, KillEngine, CloseAccount, FinishStop, bounds, history
<1>3. CASE Reconciler
  BY <1>3 DEF Reconciler, Look, LookFor, Count, BlowFuse, LaunchAgain, LaunchAgainFails,
     NoteAgain, bounds, history
<1>4. CASE Outside
  BY <1>4, OutsideDoes
<1>5. CASE (\E p \in Pids : Progress(p)) \/ ServerRestarts
  BY <1>5, ProgressDoes, ServerRestartsDoes
<1> QED
  BY <1>1, <1>2, <1>3, <1>4, <1>5 DEF Next, Outside

LEMMA HistoryGrows ==
    ASSUME Shapes, Next
    PROVE  (~met' => ~met) /\ (starts' <= 1 => starts <= 1)
<1>1. ~met' => ~met
  BY HistoryMoves, BeginsAlone DEF Shapes
<1>2. starts \in Nat /\ (starts' = starts \/ starts' = starts + 1)
  BY HistoryMoves DEF Shapes
<1>3. starts' <= 1 => starts <= 1
  BY <1>2
<1> QED
  BY <1>1, <1>3

LEMMA ServingAlone == Spec => [](Shapes /\ InvA)
<1>1. Init => Shapes /\ InvA
  BY InitHolds
<1>2. Shapes /\ InvA /\ [Next]_vars => (Shapes /\ InvA)'
  <2> SUFFICES ASSUME Shapes, InvA, [Next]_vars PROVE (Shapes /\ InvA)'
    OBVIOUS
  <2>1. CASE Next
    BY <2>1, ShapesStep, CurrentStep DEF InvA
  <2>2. CASE UNCHANGED vars
    BY <2>2 DEF vars, world, server, bounds, history, Shapes, InvA, Serial, NoClerk, Only, Idle, Current
  <2> QED
    BY <2>1, <2>2
<1> QED
  BY <1>1, <1>2, PTL DEF Spec

LEMMA KnownAlone ==
    ASSUME "crash" \notin Faults
    PROVE  Spec => []InvK
<1>1. Init => InvK
  BY InitHolds
<1>2. Shapes /\ InvA /\ InvK /\ [Next]_vars => InvK'
  <2> SUFFICES ASSUME Shapes, InvA, InvK, [Next]_vars, ~met' PROVE (Known /\ Fuse)'
    BY DEF InvK
  <2>1. CASE Next
    <3>1. ~met
      BY <2>1, HistoryGrows
    <3> QED
      BY <2>1, <3>1, KnownStep, FuseStep DEF InvA, InvK
  <2>2. CASE UNCHANGED vars
    BY <2>2 DEF vars, world, server, bounds, history, InvK, Known, Fuse, Unentered
  <2> QED
    BY <2>1, <2>2
<1> QED
  BY <1>1, <1>2, ServingAlone, PTL DEF Spec

LEMMA StartedOnce ==
    ASSUME "crash" \notin Faults
    PROVE  Spec => []InvB
<1>1. Init => InvB
  BY InitHolds
<1>2. Shapes /\ InvB /\ [Next]_vars => InvB'
  <2> SUFFICES ASSUME Shapes, InvB, [Next]_vars, starts' <= 1 PROVE (Once /\ Latest /\ Charge)'
    BY DEF InvB
  <2>1. CASE Next
    <3>1. Once /\ Latest /\ Charge
      BY <2>1, HistoryGrows DEF InvB
    <3> QED
      BY <2>1, <3>1, OnceStep, LatestStep, ChargeStep
  <2>2. CASE UNCHANGED vars
    BY <2>2 DEF vars, world, server, bounds, history, InvB, Once, Starting, Latest, Charge
  <2> QED
    BY <2>1, <2>2
<1> QED
  BY <1>1, <1>2, ServingAlone, PTL DEF Spec

(***************************************************************************)
(* As long as the server does not crash within an operation: a project has *)
(* never two engines unless it was started a second time and operations    *)
(* have met.                                                               *)
(***************************************************************************)
THEOREM NeverTwoEngines ==
    ASSUME "crash" \notin Faults
    PROVE  Spec => []SecondEngineIsRaced
<1>1. Shapes /\ InvA /\ InvK => (~met => OneEngine)
  <2> SUFFICES ASSUME Known PROVE OneEngine
    BY DEF InvK
  <2>1. CASE ~Unentered
    BY <2>1, AtMostOne DEF Known
  <2>2. CASE Unentered
    BY <2>2, AtMostOne DEF Known, Unentered
  <2> QED
    BY <2>1, <2>2
<1>2. InvB => (starts <= 1 => OneEngine)
  BY AtMostOne DEF InvB, Latest
<1>3. Shapes /\ InvA /\ InvK /\ InvB => SecondEngineIsRaced
  BY <1>1, <1>2 DEF SecondEngineIsRaced
<1> QED
  BY <1>3, ServingAlone, KnownAlone, StartedOnce, PTL

(***************************************************************************)
(* Under the same assumption, and but for the same case: no more engines   *)
(* are started without progress between them than the fuse allows.         *)
(***************************************************************************)
THEOREM FuseIsKept ==
    ASSUME "crash" \notin Faults
    PROVE  Spec => []FuseHolds
<1>1. InvK /\ InvB => FuseHolds
  BY DEF InvK, InvB, Fuse, Charge, FuseHolds
<1> QED
  BY <1>1, KnownAlone, StartedOnce, PTL

(***************************************************************************)
(* When operations come one after the other - and whenever the server      *)
(* crashes - a stopped project is set to running by a start alone.         *)
(***************************************************************************)
THEOREM StoppedIsDown ==
    ASSUME "overlap" \notin Faults
    PROVE  Spec => StoppedStaysDown
<1>1. Init => ~met
  BY DEF Init
<1>2. Shapes /\ ~met /\ [Next]_vars => ~met'
  <2> SUFFICES ASSUME Shapes, ~met, Next PROVE ~met'
    BY DEF vars, history
  <2>1. met' = met \/ Begins
    BY HistoryMoves
  <2> QED
    BY <2>1, BeginsAlone DEF Shapes
<1>3. Spec => []~met
  BY <1>1, <1>2, ServingAlone, PTL DEF Spec
<1>4. Shapes /\ InvA /\ ~met /\ [Next]_vars =>
          [account.state = "stopped" /\ account'.state = "running" => StartUnderWay]_vars
  BY NobodyOpens DEF InvA
<1> QED
  BY <1>3, <1>4, ServingAlone, PTL DEF Spec, StoppedStaysDown
=============================================================================
