--------------------------- MODULE PhaseRun_proofs ---------------------------
(***************************************************************************)
(* Proofs about the run of a project through its phases, for any number of  *)
(* phases, items and processes.                                             *)
(***************************************************************************)
EXTENDS PhaseRun, WellFoundedInduction, TLAPS

Kinds ==
    {"phase_plan", "phase_done", "phase_request", "tasks_declared", "nothing_declared",
     "architect_task", "architect_dispatch_failed", "cancel_task",
     "developer_ready", "developer_blocked", "developer_failed"}
Mail ==
    [type : Kinds, phase : Phases] \cup
    [type : {"architect_batch"}, phase : Phases, item : Nat]

Rows    == [Phases -> {"none", "todo"} \cup Concluded]
Ledgers == [Phases -> {"none", "open", "waiting_human", "ready", "blocked", "failed"}]
Drivers == [pc : {"off", "waiting", "draining", "gate", "leaving"}, at : Phases, boundary : BOOLEAN]
Stages  == [stage : {"off", "planning", "sending", "saving"}, item : 0..(NumBatches + 1)]
Fields  == [phase : 0..NumPhases, declared : SUBSET Phases, final : BOOLEAN, terminals : SUBSET Phases]
Writes  == [phase : Phases, verdict : Concluded, under : 0..NumPhases]
Lines   == [pc : {"idle", "working", "item", "test", "closing", "dead"}, task : Phases,
            arrived : 0..NumBatches, verdict : {"ready", "blocked", "failed"}, quiet : BOOLEAN]

\* TypeOK, with the boxes, and what keeps items and batches within the plan.
TypeInv ==
    /\ row \in Rows /\ ledger \in Ledgers /\ dispatched \subseteq Phases \X (0..NumBatches)
    /\ status \in {"executing", "done", "failed", "blocked"} /\ stop \in {"none", "paused", "terminal"}
    /\ runs \in 0..MaxRuns /\ driver \in Drivers
    /\ split \in [Phases -> Stages] /\ maint \in Fields /\ writing \subseteq Writes /\ line \in Lines
    /\ managerBox \in Seq(Mail) /\ architectBox \in Seq(Mail)
    /\ maintainerBox \in Seq(Mail) /\ developerBox \in Seq(Mail)
    /\ \A p \in Phases : split[p].stage \in {"planning", "sending"} => split[p].item <= NumBatches
    /\ maint.final => maint.phase \in Phases
    /\ line.pc = "item" => line.arrived < NumBatches

-----------------------------------------------------------------------------
(* Boxes and rows *)

\* Taking the first message of a box.
LEMMA Taken ==
    ASSUME NEW S, NEW s \in Seq(S), s # <<>>
    PROVE  /\ Len(s) \in Nat /\ Len(s) >= 1 /\ Head(s) = s[1] /\ s[1] \in S
           /\ Tail(s) \in Seq(S) /\ Len(Tail(s)) = Len(s) - 1
           /\ \A i \in 1..(Len(s) - 1) : Tail(s)[i] = s[i + 1]
OBVIOUS

\* Putting a message at the end of a box.
LEMMA Put ==
    ASSUME NEW S, NEW s \in Seq(S), NEW m \in S
    PROVE  /\ Len(s) \in Nat /\ Append(s, m) \in Seq(S) /\ Len(Append(s, m)) = Len(s) + 1
           /\ \A i \in 1..Len(s) : Append(s, m)[i] = s[i]
           /\ Append(s, m)[Len(s) + 1] = m
OBVIOUS

\* An empty box.
LEMMA EmptyBox ==
    ASSUME NEW S
    PROVE  /\ <<>> \in Seq(S) /\ Len(<<>>) = 0
           /\ \A s \in Seq(S) : s = <<>> <=> Len(s) = 0
OBVIOUS

\* A box with one message.
LEMMA OneMessage ==
    ASSUME NEW S, NEW m \in S
    PROVE  <<m>> \in Seq(S) /\ Len(<<m>>) = 1 /\ <<m>>[1] = m /\ <<m>> # <<>>
OBVIOUS

\* A box with a message taken holds nothing new.
LEMMA TakenHolds ==
    ASSUME NEW S, NEW s \in Seq(S), s # <<>>, NEW m, Holds(Tail(s), m)
    PROVE  Holds(s, m)
BY Taken DEF Holds

\* A box with a message put holds nothing else that is new.
LEMMA PutHolds ==
    ASSUME NEW S, NEW s \in Seq(S), NEW x \in S, NEW m, Holds(Append(s, x), m)
    PROVE  Holds(s, m) \/ m = x
BY Put DEF Holds

\* An empty box holds nothing.
LEMMA EmptyHolds == ASSUME NEW m PROVE ~Holds(<<>>, m)
BY DEF Holds

\* The words of the bus are mail.
LEMMA Words ==
    ASSUME NEW p \in Phases
    PROVE  /\ \A t \in Kinds : Message(t, p) \in Mail
           /\ \A k \in Nat : Batch(p, k) \in Mail
BY DEF Mail, Message, Batch

\* The first open phase is the first one.
LEMMA FirstIsFirst ==
    ASSUME Open # {}
    PROVE  FirstOpen \in Open /\ \A q \in Open : FirstOpen <= q
<1>1. Open \subseteq Nat /\ Open # {}
  BY DEF Open, Phases
<1>2. PICK p \in Open : \A q \in Open : <<q, p>> \notin OpToRel(<, Nat)
  BY <1>1, NatLessThanWellFounded, WFMin
<1>3. \A q \in Open : p <= q
  <2> SUFFICES ASSUME NEW q \in Open, q < p PROVE FALSE
    BY <1>1
  <2>1. <<q, p>> \in OpToRel(<, Nat)
    BY <1>1, Zenon DEF OpToRel
  <2> QED
    BY <1>2, <2>1
<1> QED
  BY <1>3 DEF FirstOpen

\* Writes that reach the database: rows stay rows, and what is recorded stays so.
LEMMA RowsKept ==
    ASSUME row \in Rows, NEW w \in SUBSET Writes
    PROVE  /\ RowsAfter(w) \in Rows
           /\ \A p \in Phases : /\ row[p] = "none" <=> RowsAfter(w)[p] = "none"
                                /\ row[p] \in Concluded => RowsAfter(w)[p] \in Concluded
                                /\ row[p] = "done" => RowsAfter(w)[p] = "done"
<1>1. ASSUME NEW p \in Phases, \E x \in w : x.phase = p /\ x.under = p
      PROVE  (CHOOSE x \in w : x.phase = p /\ x.under = p).verdict \in Concluded
  BY <1>1 DEF Writes
<1> QED
  BY <1>1 DEF RowsAfter, Concluded, Rows

\* A write under the phase of its row is found in the row.
LEMMA Booked ==
    ASSUME NEW p \in Phases, NEW v \in Concluded, row[p] # "none"
    PROVE  RowsAfter({[phase |-> p, under |-> p, verdict |-> v]})[p] \in Concluded
<1> DEFINE w == {[phase |-> p, under |-> p, verdict |-> v]}
<1>1. \E x \in w : x.phase = p /\ x.under = p
  OBVIOUS
<1> DEFINE c == CHOOSE x \in w : x.phase = p /\ x.under = p
<1>2. c \in w
  BY <1>1
<1>3. c.verdict = v
  BY <1>2
<1> QED
  BY <1>1, <1>3 DEF RowsAfter, Concluded

-----------------------------------------------------------------------------
(* Types *)

\* A process without anything.
LEMMA FreshTyped ==
    ASSUME Fresh
    PROVE  /\ managerBox' \in Seq(Mail) /\ maintainerBox' \in Seq(Mail) /\ developerBox' \in Seq(Mail)
           /\ split' \in [Phases -> Stages] /\ maint' \in Fields /\ writing' \subseteq Writes /\ line' \in Lines
           /\ stop' \in {"none", "paused", "terminal"}
           /\ \A p \in Phases : split'[p].stage = "off"
           /\ ~maint'.final /\ line'.pc = "idle"
<1>1. <<>> \in Seq(Mail)
  BY EmptyBox
<1>2. 1 \in Phases
  BY PhaseRunConstants DEF Phases
<1>3. split' \in [Phases -> Stages] /\ \A p \in Phases : split'[p].stage = "off"
  BY PhaseRunConstants DEF Fresh, Stages
<1>4. maint' \in Fields /\ ~maint'.final /\ writing' \subseteq Writes
  BY PhaseRunConstants DEF Fresh, Fields
<1>5. line' \in Lines /\ line'.pc = "idle"
  BY <1>2, PhaseRunConstants DEF Fresh, Idle, Lines
<1> QED
  BY <1>1, <1>3, <1>4, <1>5 DEF Fresh

\* The end of a process, with some of the writes in flight.
LEMMA OffTyped ==
    ASSUME TypeInv, Off, \E w \in SUBSET writing : row' = RowsAfter(w),
           UNCHANGED <<dispatched, ledger, status, runs>>
    PROVE  TypeInv'
<1>1. row' \in Rows
  BY RowsKept DEF TypeInv
<1>2. driver' \in Drivers /\ architectBox' \in Seq(Mail)
  BY EmptyBox DEF TypeInv, Drivers, Off
<1> QED
  BY <1>1, <1>2, FreshTyped DEF TypeInv, Off

\* Starting, dying and leaving.
LEMMA ProcessTyped ==
    ASSUME TypeInv, Start \/ Kill \/ Exit
    PROVE  TypeInv'
<1>1. CASE Start
  <2>1. driver' \in Drivers /\ architectBox' \in Seq(Mail)
    <3>1. Open # {} => FirstOpen \in Phases
      BY FirstIsFirst DEF Open
    <3>2. NumPhases \in Phases
      BY PhaseRunConstants DEF Phases
    <3>3. PICK b \in Modes :
           \/ /\ Open # {}
              /\ driver' = [pc |-> "waiting", at |-> FirstOpen, boundary |-> b]
              /\ architectBox' = <<Message("phase_plan", FirstOpen)>>
           \/ /\ Open = {}
              /\ driver' = [pc |-> "gate", at |-> NumPhases, boundary |-> b]
              /\ architectBox' = <<>>
      BY <1>1 DEF Start
    <3>4. b \in BOOLEAN
      BY PhaseRunConstants
    <3>5. Open # {} => Message("phase_plan", FirstOpen) \in Mail
      BY <3>1, Words DEF Kinds
    <3>6. driver' \in Drivers
      BY <3>1, <3>2, <3>3, <3>4 DEF Drivers
    <3> QED
      BY <3>3, <3>5, <3>6, EmptyBox, OneMessage
  <2>2. runs' \in 0..MaxRuns
    BY <1>1, PhaseRunConstants DEF Start, TypeInv
  <2>3. row' \in Rows /\ ledger' \in Ledgers /\ dispatched' \subseteq Phases \X (0..NumBatches)
    BY <1>1 DEF Start, TypeInv, Ledgers
  <2>4. status' = status
    BY <1>1 DEF Start
  <2> QED
    BY <1>1, <2>1, <2>2, <2>3, <2>4, FreshTyped DEF Start, TypeInv
<1>2. CASE Kill \/ Exit
  BY <1>2, OffTyped DEF Kill, Exit
<1> QED
  BY <1>1, <1>2

\* The driver and a retry.
LEMMA DriverTyped ==
    ASSUME TypeInv, Driver \/ \E p \in Phases : Retry(p)
    PROVE  TypeInv'
<1>1. CASE TakeRequest
  <2>1. managerBox' \in Seq(Mail)
    BY <1>1, Taken DEF TypeInv, TakeRequest
  <2>2. CASE driver' = [driver EXCEPT !.at = @ + 1] /\ driver.at # NumPhases
             /\ architectBox' = Append(architectBox, Message("phase_plan", driver.at + 1))
    <3>1. driver.at + 1 \in Phases
      BY <2>2, PhaseRunConstants DEF TypeInv, Drivers, Phases
    <3>2. Message("phase_plan", driver.at + 1) \in Mail
      BY <3>1, Words DEF Kinds
    <3>3. architectBox' \in Seq(Mail) /\ driver' \in Drivers
      BY <2>2, <3>1, <3>2, Put DEF TypeInv, Drivers
    <3> QED
      BY <1>1, <2>1, <3>3 DEF TakeRequest, TypeInv, durable
  <2>3. CASE architectBox' = architectBox
             /\ (driver' = driver \/ \E pc \in {"gate", "leaving"} : driver' = [driver EXCEPT !.pc = pc])
    <3>1. driver' \in Drivers
      BY <2>3 DEF TypeInv, Drivers
    <3> QED
      BY <1>1, <2>1, <2>3, <3>1 DEF TakeRequest, TypeInv, durable
  <2> QED
    BY <1>1, <2>2, <2>3 DEF TakeRequest
<1>2. CASE TakeStop \/ SettleFailed \/ Settle
  <2>1. driver' \in Drivers /\ status' \in {"executing", "done", "failed", "blocked"}
    BY <1>2 DEF TakeStop, SettleFailed, Settle, Decide, TypeInv, Drivers, durable
  <2> QED
    BY <1>2, <2>1 DEF TakeStop, SettleFailed, Settle, TypeInv, durable, volatile, boxes
<1>3. ASSUME NEW p \in Phases, Retry(p) PROVE TypeInv'
  <2>1. row' \in Rows /\ status' = "executing"
    BY <1>3 DEF Retry, TypeInv, Rows
  <2> QED
    BY <1>3, <2>1 DEF Retry, TypeInv, volatile, boxes
<1> QED
  BY <1>1, <1>2, <1>3 DEF Driver

\* The architect's handlers and coroutines.
LEMMA ArchitectTyped ==
    ASSUME TypeInv, NEW p \in Phases, Architect(p)
    PROVE  TypeInv'
<1>0. split[p] \in Stages /\ Message("phase_request", p) \in Mail /\ Message("tasks_declared", p) \in Mail
      /\ Message("nothing_declared", p) \in Mail /\ Message("cancel_task", p) \in Mail
      /\ Message("architect_dispatch_failed", p) \in Mail /\ Message("architect_task", p) \in Mail
  BY Words DEF TypeInv, Kinds
<1>1. CASE TakePlan(p)
  <2>1. split' \in [Phases -> Stages] /\ architectBox' \in Seq(Mail)
        /\ \A q \in Phases : split'[q].stage \in {"planning", "sending"} => split'[q].item <= NumBatches
    BY <1>1, Taken, PhaseRunConstants DEF TakePlan, TypeInv, Stages
  <2> QED
    BY <1>1, <2>1 DEF TakePlan, TypeInv, durable
<1>2. CASE TakePhaseDone(p)
  <2>1. architectBox' \in Seq(Mail) /\ managerBox' \in Seq(Mail)
    BY <1>0, <1>2, Taken, Put DEF TakePhaseDone, TypeInv
  <2> QED
    BY <1>2, <2>1 DEF TakePhaseDone, TypeInv, durable
<1>3. CASE Declare(p)
  <2>1. row' \in Rows /\ maintainerBox' \in Seq(Mail)
    BY <1>0, <1>3, Put DEF Declare, TypeInv, Rows
  <2>2. split' \in [Phases -> Stages] /\ split'[p].stage = "sending" /\ split'[p].item = split[p].item
        /\ \A q \in Phases : q # p => split'[q] = split[q]
    BY <1>3 DEF Declare, TypeInv, Stages
  <2>3. split'[p].item <= NumBatches
    BY <1>3, <2>2 DEF Declare, TypeInv
  <2> QED
    BY <1>3, <2>1, <2>2, <2>3 DEF Declare, TypeInv
<1>4. CASE Reject(p)
  <2>1. maintainerBox' \in Seq(Mail)
    BY <1>0, <1>4, Put DEF Reject, TypeInv
  <2>2. split' \in [Phases -> Stages]
        /\ \A q \in Phases : split'[q].stage \in {"planning", "sending"} => split'[q].item <= NumBatches
    BY <1>4 DEF Reject, TypeInv, Stages
  <2> QED
    BY <1>4, <2>1, <2>2 DEF Reject, TypeInv
<1>5. CASE SendItem(p)
  <2>1. split[p].item \in 0..NumBatches
    <3>1. split[p].item \in Nat /\ split[p].item <= NumBatches
      <4>1. split[p].stage = "sending"
        BY <1>5 DEF SendItem
      <4>2. split[p].item <= NumBatches
        BY <4>1 DEF TypeInv
      <4> QED
        BY <1>0, <4>2, PhaseRunConstants DEF Stages
    <3> QED
      BY <3>1, PhaseRunConstants
  <2>2. split' \in [Phases -> Stages]
        /\ \A q \in Phases : split'[q].stage \in {"planning", "sending"} => split'[q].item <= NumBatches
    <3> DEFINE g == IF split[p].item = NumBatches THEN "saving" ELSE split[p].stage
               new == [split[p] EXCEPT !.item = split[p].item + 1, !.stage = g]
    <3>1. split' = [split EXCEPT ![p] = new]
      BY <1>5 DEF SendItem, NextItem, TypeInv
    <3>2. split[p].stage = "sending" /\ split[p].item + 1 \in 0..(NumBatches + 1)
      BY <1>5, <2>1, PhaseRunConstants DEF SendItem
    <3>3. new \in Stages /\ new.stage = g /\ new.item = split[p].item + 1
      BY <1>0, <3>2 DEF Stages
    <3>4. new.stage \in {"planning", "sending"} => new.item <= NumBatches
      BY <2>1, <3>2, <3>3, PhaseRunConstants
    <3> HIDE DEF new
    <3>5. \A q \in Phases : split'[q] = IF q = p THEN new ELSE split[q]
      BY <3>1 DEF TypeInv
    <3> QED
      BY <3>1, <3>3, <3>4, <3>5 DEF TypeInv
  <2>3. dispatched' \subseteq Phases \X (0..NumBatches)
    BY <1>5, <2>1 DEF SendItem, TypeInv
  <2>4. Batch(p, split[p].item) \in Mail
    BY <2>1, Words, PhaseRunConstants
  <2>5. developerBox' \in Seq(Mail)
    BY <1>0, <1>5, <2>4, Put DEF SendItem, TypeInv
  <2> QED
    BY <1>5, <2>2, <2>3, <2>5 DEF SendItem, TypeInv
<1>6. CASE FailSplit(p)
  <2>1. CASE /\ Off
             /\ \E w \in SUBSET writing : row' = RowsAfter(w)
             /\ UNCHANGED <<dispatched, ledger, status, runs>>
    BY <2>1, OffTyped
  <2>2. CASE /\ split' = [split EXCEPT ![p].stage = "off"]
             /\ \/ UNCHANGED <<managerBox, developerBox>>
                \/ /\ split[p].stage = "sending"
                   /\ managerBox' = Append(managerBox, Message("architect_dispatch_failed", p))
                   /\ developerBox' = IF split[p].item = 0 THEN developerBox
                                      ELSE Append(developerBox, Message("cancel_task", p))
             /\ UNCHANGED <<row, driver, architectBox, maintainerBox, maint, writing, line, stop>>
             /\ UNCHANGED <<dispatched, ledger, status, runs>>
    <3>1. managerBox' \in Seq(Mail) /\ developerBox' \in Seq(Mail)
      <4>1. managerBox \in Seq(Mail) /\ developerBox \in Seq(Mail)
        BY DEF TypeInv
      <4>2. /\ managerBox' \in {managerBox, Append(managerBox, Message("architect_dispatch_failed", p))}
            /\ developerBox' \in {developerBox, Append(developerBox, Message("cancel_task", p))}
        BY <2>2
      <4>3. \A b \in Seq(Mail), m \in Mail : Append(b, m) \in Seq(Mail)
        BY Put
      <4>4. Message("architect_dispatch_failed", p) \in Mail /\ Message("cancel_task", p) \in Mail
        BY Words DEF Kinds
      <4> QED
        BY <4>1, <4>2, <4>3, <4>4
    <3>2. split' \in [Phases -> Stages]
          /\ \A q \in Phases : split'[q].stage \in {"planning", "sending"} => split'[q].item <= NumBatches
      BY <2>2 DEF TypeInv, Stages
    <3> QED
      BY <2>2, <3>1, <3>2 DEF TypeInv
  <2> QED
    BY <1>6, <2>1, <2>2 DEF FailSplit
<1>7. CASE SaveOutput(p)
  <2>1. split' \in [Phases -> Stages]
        /\ \A q \in Phases : split'[q].stage \in {"planning", "sending"} => split'[q].item <= NumBatches
    BY <1>7 DEF SaveOutput, TypeInv, Stages
  <2> QED
    BY <1>7, <2>1 DEF SaveOutput, TypeInv, boxes
<1> QED
  BY <1>1, <1>2, <1>3, <1>4, <1>5, <1>6, <1>7 DEF Architect

\* The maintainer's account is one, and what it says of a phase is mail.
LEMMA ConvergeTyped ==
    ASSUME TypeInv, NEW m \in Fields, m.final => m.phase \in Phases, Converge(m)
    PROVE  maint' \in Fields /\ (maint'.final => maint'.phase \in Phases) /\ architectBox' \in Seq(Mail)
<1>1. CASE m.final /\ m.declared \subseteq m.terminals
  <2>1. Message("phase_done", m.phase) \in Mail
    BY <1>1, Words DEF Kinds
  <2>2. architectBox' \in Seq(Mail)
    <3>1. architectBox' = Append(architectBox, Message("phase_done", m.phase))
      BY <1>1 DEF Converge
    <3> QED
      BY <2>1, <3>1, Put DEF TypeInv
  <2>3. maint' = [m EXCEPT !.declared = {}, !.final = FALSE, !.terminals = {}]
    BY <1>1 DEF Converge
  <2>4. maint' \in Fields /\ ~maint'.final
    BY <2>3 DEF Fields
  <2> QED
    BY <2>2, <2>4
<1>2. CASE ~(m.final /\ m.declared \subseteq m.terminals)
  BY <1>2 DEF Converge, TypeInv
<1> QED
  BY <1>1, <1>2

\* The maintainer.
LEMMA MaintainerTyped ==
    ASSUME TypeInv, Maintainer
    PROVE  TypeInv'
<1>1. ASSUME NEW p \in Phases, TakeDeclared(p) PROVE TypeInv'
  <2> DEFINE m == [maint EXCEPT !.phase = p, !.final = TRUE,
                       !.declared = IF Head(maintainerBox).type = "tasks_declared"
                                    THEN @ \cup {p} ELSE @]
  <2>0. p \in 0..NumPhases
    BY PhaseRunConstants DEF Phases
  <2>1. m \in Fields /\ m.phase \in Phases
    BY <2>0 DEF TypeInv, Fields
  <2>2. maint' \in Fields /\ (maint'.final => maint'.phase \in Phases) /\ architectBox' \in Seq(Mail)
    BY <1>1, <2>1, ConvergeTyped DEF TakeDeclared
  <2>3. maintainerBox' \in Seq(Mail)
    BY <1>1, Taken DEF TakeDeclared, TypeInv
  <2> QED
    BY <1>1, <2>2, <2>3 DEF TakeDeclared, TypeInv, durable
<1>2. ASSUME NEW p \in Phases, TakeTerminal(p) PROVE TypeInv'
  <2>1. maintainerBox' \in Seq(Mail) /\ maint' \in Fields /\ maint'.final = maint.final /\ maint'.phase = maint.phase
    BY <1>2, Taken DEF TakeTerminal, TypeInv, Fields
  <2>2. writing' \subseteq Writes
    BY <1>2 DEF TakeTerminal, TypeInv, Fields, Writes, Concluded
  <2> QED
    BY <1>2, <2>1, <2>2 DEF TakeTerminal, TypeInv, durable
<1>3. CASE Write
  <2>1. PICK w \in SUBSET writing : row' = RowsAfter(w)
    BY <1>3 DEF Write, Attempts
  <2>2. row' \in Rows
    BY <2>1, RowsKept DEF TypeInv
  <2>3. maint' \in Fields /\ (maint'.final => maint'.phase \in Phases) /\ architectBox' \in Seq(Mail)
    BY <1>3, ConvergeTyped DEF Write, TypeInv
  <2> QED
    BY <1>3, <2>2, <2>3 DEF Write, TypeInv
<1> QED
  BY <1>1, <1>2, <1>3 DEF Maintainer

\* The developer line.
LEMMA DeveloperTyped ==
    ASSUME TypeInv, Developer
    PROVE  TypeInv'
<1>0. /\ line.task \in Phases /\ line.arrived \in 0..NumBatches /\ 1 \in Phases /\ line \in Lines
      /\ 0 \in 0..NumBatches
      /\ \A t \in {"developer_ready", "developer_blocked", "developer_failed"} : Message(t, line.task) \in Mail
  BY Words, PhaseRunConstants DEF TypeInv, Lines, Kinds, Phases
<1>20. Idle \in Lines /\ Idle.pc = "idle"
  BY <1>0 DEF Idle, Lines
<1>21. ASSUME NEW t \in {"developer_ready", "developer_blocked", "developer_failed"}, Tell(t)
      PROVE  maintainerBox' \in Seq(Mail)
  <2>1. Message(t, line.task) \in Mail
    BY <1>0
  <2> QED
    BY <1>21, <2>1, Put DEF Tell, TypeInv
<1>22. ASSUME NEW v \in {"ready", "blocked", "failed"}, NEW q \in BOOLEAN, Conclude(v, q)
      PROVE  line' \in Lines /\ line'.pc # "item"
  BY <1>0, <1>22 DEF Conclude, Lines
<1>23. line.arrived \in Nat /\ NumBatches \in Nat
  BY <1>0, PhaseRunConstants
<1>1. CASE TakeTask
  <2>1. developerBox' \in Seq(Mail) /\ Head(developerBox) \in Mail
    BY <1>1, Taken DEF TakeTask, TypeInv
  <2>2. Head(developerBox).phase \in Phases
    BY <2>1 DEF Mail
  <2>3. line' \in Lines /\ (line'.pc = "item" => line'.arrived < NumBatches)
    <3>1. CASE Head(developerBox).type = "architect_task"
      <4>1. line' = [Idle EXCEPT !.pc = "working", !.task = Head(developerBox).phase]
        BY <1>1, <3>1 DEF TakeTask
      <4> QED
        BY <1>20, <2>2, <4>1 DEF Lines
    <3>2. CASE Head(developerBox).type # "architect_task"
      BY <1>1, <3>2 DEF TakeTask, TypeInv
    <3> QED
      BY <3>1, <3>2
  <2> QED
    BY <1>1, <2>1, <2>3 DEF TakeTask, TypeInv, durable
<1>2. CASE WorkRests
  <2>1. line' \in Lines /\ (line'.pc = "item" => line'.arrived < NumBatches)
    BY <1>0, <1>2 DEF WorkRests, Lines
  <2>2. ledger' \in Ledgers
    BY <1>2 DEF WorkRests, TypeInv, Ledgers
  <2> QED
    BY <1>2, <2>1, <2>2 DEF WorkRests, TypeInv, boxes
<1>3. CASE TakeBatch
  <2>1. developerBox' \in Seq(Mail)
    BY <1>3, Taken DEF TakeBatch, TypeInv
  <2>2. maintainerBox' \in Seq(Mail)
    BY <1>3, <1>21 DEF TakeBatch, TypeInv
  <2>3. line' \in Lines /\ line'.pc # "item"
    <3>1. CASE line' = [line EXCEPT !.pc = "working", !.arrived = @ + 1]
      <4>1. line.arrived + 1 \in 0..NumBatches
        BY <1>3, <1>23 DEF TakeBatch, TypeInv
      <4> QED
        BY <1>0, <3>1, <4>1 DEF Lines
    <3> QED
      BY <1>3, <1>22, <3>1 DEF TakeBatch
  <2> QED
    BY <1>3, <2>1, <2>2, <2>3 DEF TakeBatch, TypeInv, durable
<1>4. CASE TakeCancel \/ TestAnswered \/ GiveUp \/ Throw \/ HumanStop
  <2>1. developerBox' \in Seq(Mail)
    BY <1>4, Taken DEF TakeCancel, TestAnswered, GiveUp, Throw, HumanStop, TypeInv
  <2>2. maintainerBox' \in Seq(Mail)
    BY <1>4, <1>21 DEF TakeCancel, TestAnswered, GiveUp, Throw, HumanStop, TypeInv
  <2>3. line' \in Lines /\ line'.pc # "item"
    <3>1. (line.arrived = 0) \in BOOLEAN
      OBVIOUS
    <3> QED
      BY <1>4, <1>22, <3>1 DEF TakeCancel, TestAnswered, GiveUp, Throw, HumanStop
  <2> QED
    BY <1>4, <2>1, <2>2, <2>3 DEF TakeCancel, TestAnswered, GiveUp, Throw, HumanStop, TypeInv, durable
<1>5. CASE Park
  <2>1. developerBox' \in Seq(Mail)
    BY <1>5, Taken DEF Park, TypeInv
  <2> QED
    BY <1>5, <2>1 DEF Park, TypeInv, durable
<1>6. CASE Pause
  <2>1. line' \in Lines /\ line'.pc # "item" /\ ledger' \in Ledgers /\ stop' \in {"none", "paused", "terminal"}
    BY <1>0, <1>6 DEF Pause, Lines, TypeInv, Ledgers
  <2> QED
    BY <1>6, <2>1 DEF Pause, TypeInv, boxes
<1>7. CASE CloseOut
  <2>1. line' \in Lines /\ line'.pc # "item"
    BY <1>7, <1>20 DEF CloseOut, Lines
  <2>2. ledger' \in Ledgers
    BY <1>0, <1>7 DEF CloseOut, TypeInv, Ledgers, Lines
  <2>3. stop' \in {"none", "paused", "terminal"} /\ developerBox' \in Seq(Mail)
    BY <1>7, EmptyBox DEF CloseOut, TypeInv
  <2> QED
    BY <1>7, <2>1, <2>2, <2>3 DEF CloseOut, TypeInv
<1> QED
  BY <1>1, <1>2, <1>3, <1>4, <1>5, <1>6, <1>7 DEF Developer

\* Every step keeps the types.
LEMMA TypeKeeps ==
    ASSUME TypeInv, [Next]_vars
    PROVE  TypeInv'
<1>1. CASE UNCHANGED vars
  BY <1>1 DEF vars, durable, volatile, boxes, TypeInv
<1> QED
  BY <1>1, ProcessTyped, DriverTyped, ArchitectTyped, MaintainerTyped, DeveloperTyped DEF Next

-----------------------------------------------------------------------------
(* The course of a phase *)

Blueprint(q) == Message("architect_task", q)
Active    == line.pc \in {"working", "item", "test"}
Unsent    == split[driver.at].stage = "sending" /\ split[driver.at].item = 0
AtWork    == Unsent \/ Active \/ \E q \in Phases : Holds(developerBox, Blueprint(q))
Requested == Holds(managerBox, Message("phase_request", driver.at))

\* Splits of later phases have not begun; of earlier ones only batches are left.
Splits ==
    \A q \in Phases :
        /\ q > driver.at => split[q].stage = "off"
        /\ q # driver.at => split[q].stage # "planning" /\ (split[q].stage = "sending" => split[q].item # 0)

\* The work on a task is in one place: its blueprint is going to be sent, is in the box, once, or
\* the line is at it.
Works ==
    /\ \A q \in Phases : Holds(developerBox, Blueprint(q)) => q = driver.at /\ ~Active /\ ~Unsent
    /\ Active => line.task = driver.at /\ ~Unsent
    /\ \A i, j \in 1..Len(developerBox) :
           developerBox[i] = Blueprint(driver.at) /\ developerBox[j] = Blueprint(driver.at) => i = j

IsTerminal(m) ==
    m \in {Message(t, driver.at) : t \in {"developer_ready", "developer_blocked", "developer_failed"}}

\* The account of the maintainer: blank, open, or waiting for the row.
Blank == maint.declared = {} /\ ~maint.final /\ maint.terminals = {} /\ writing = {}
Known ==
    /\ maint.phase = driver.at /\ maint.declared = {driver.at} /\ maint.final
    /\ maint.terminals = {} /\ writing = {}
Booking ==
    /\ maint.phase = driver.at /\ maint.declared = {driver.at} /\ maint.final
    /\ maint.terminals = {driver.at}
    /\ \E v \in Concluded : writing = {[phase |-> driver.at, under |-> driver.at, verdict |-> v]}

\* The driver's phase has not been declared, or is over; it is refused; it is declared and not
\* over.  The messages about it are never in two boxes.
Quiet ==
    /\ Blank /\ maintainerBox = <<>> /\ ~AtWork
    /\ \/ architectBox = <<>>
       \/ /\ Len(architectBox) = 1
          /\ architectBox[1] \in {Message("phase_plan", driver.at), Message("phase_done", driver.at)}
    /\ architectBox # <<>> => split[driver.at].stage # "planning" /\ ~Requested
    /\ split[driver.at].stage = "planning" => ~Requested
Refused ==
    /\ Blank /\ Len(maintainerBox) = 1 /\ maintainerBox[1] = Message("nothing_declared", driver.at)
    /\ ~AtWork /\ architectBox = <<>> /\ split[driver.at].stage # "planning" /\ ~Requested
Told ==
    /\ Blank /\ Len(maintainerBox) \in {1, 2}
    /\ maintainerBox[1] = Message("tasks_declared", driver.at)
    /\ Len(maintainerBox) = 2 => IsTerminal(maintainerBox[2]) /\ ~AtWork
Awaited ==
    /\ Known /\ Len(maintainerBox) \in {0, 1}
    /\ Len(maintainerBox) = 1 => IsTerminal(maintainerBox[1]) /\ ~AtWork
Booked1 == Booking /\ maintainerBox = <<>> /\ ~AtWork
Declared ==
    /\ architectBox = <<>> /\ split[driver.at].stage # "planning" /\ ~Requested /\ row[driver.at] # "none"
    /\ Told \/ Awaited \/ Booked1
Account == Quiet \/ Refused \/ Declared

Requests == \A q \in Phases : Holds(managerBox, Message("phase_request", q)) => q <= driver.at

Course == Splits /\ Works /\ Account /\ Requests
IInv ==
    /\ TypeInv
    /\ Up => Course
    /\ ~Up => managerBox = <<>> /\ developerBox = <<>> /\ line.pc = "idle"

\* A step that adds no work and leaves the maintainer and what is about it alone keeps the account.
LEMMA AccountStays ==
    ASSUME Account, AtWork' => AtWork, driver'.at = driver.at, Requested' => Requested,
           split'[driver.at].stage = "planning" => split[driver.at].stage = "planning",
           UNCHANGED <<maint, writing, maintainerBox, architectBox>>,
           row[driver.at] # "none" => row'[driver.at] # "none"
    PROVE  Account'
<1>1. Blank' = Blank /\ Known' = Known /\ Booking' = Booking
  BY DEF Blank, Known, Booking
<1>2. \A m : IsTerminal(m)' = IsTerminal(m)
  BY DEF IsTerminal
<1>3. CASE Quiet
  BY <1>1, <1>3 DEF Quiet, Account
<1>4. CASE Refused
  BY <1>1, <1>4 DEF Refused, Account
<1>5. CASE Declared
  <2>1. Told => Told'
    BY <1>1 DEF Told, IsTerminal
  <2>2. Awaited => Awaited'
    BY <1>1 DEF Awaited, IsTerminal
  <2>3. Booked1 => Booked1'
    BY <1>1 DEF Booked1
  <2> QED
    BY <1>5, <2>1, <2>2, <2>3 DEF Declared, Account
<1> QED
  BY <1>3, <1>4, <1>5 DEF Account

\* A process begins.
LEMMA CourseBegins ==
    ASSUME IInv, TypeInv', Start
    PROVE  IInv'
<1>1. /\ driver'.at \in Phases /\ driver'.pc # "off"
      /\ architectBox' = <<>> \/ architectBox' = <<Message("phase_plan", driver'.at)>>
  <2>1. driver'.at \in Phases
    BY DEF TypeInv, Drivers
  <2> QED
    BY <2>1 DEF Start
<1>2. /\ managerBox' = <<>> /\ maintainerBox' = <<>> /\ developerBox' = <<>> /\ line'.pc = "idle"
      /\ \A p \in Phases : split'[p].stage = "off"
      /\ maint'.declared = {} /\ ~maint'.final /\ maint'.terminals = {} /\ writing' = {}
  BY DEF Start, Fresh, Idle
<1>3. Splits'
  BY <1>2 DEF Splits
<1>4. Works' /\ ~AtWork'
  BY <1>1, <1>2, EmptyHolds, EmptyBox DEF Works, AtWork, Active, Unsent
<1>5. Requests' /\ ~Requested'
  BY <1>2, EmptyHolds DEF Requests, Requested
<1>6. Quiet'
  BY <1>1, <1>2, <1>4, <1>5, OneMessage DEF Quiet, Blank
<1> QED
  BY <1>1, <1>3, <1>4, <1>5, <1>6 DEF Account, Course, IInv, Up

\* A process ends.
LEMMA CourseEnds ==
    ASSUME TypeInv', Off
    PROVE  IInv'
BY DEF Off, IInv, Up, TypeInv, Drivers, Fresh, Idle
\* The driver's other steps leave the course alone.
LEMMA CourseStays ==
    ASSUME IInv, TypeInv', Up, Up', driver'.at = driver.at,
           UNCHANGED <<row, boxes, split, maint, writing, line>>
    PROVE  IInv'
<1>1. Splits' /\ Requests'
  BY DEF IInv, Course, Splits, Requests, boxes
<1>2. Works'
  BY DEF IInv, Course, Works, Active, Unsent, boxes
<1>3. (AtWork' => AtWork) /\ (Requested' => Requested)
  BY DEF AtWork, Active, Unsent, Requested, boxes
<1>4. Account'
  BY <1>3, AccountStays DEF IInv, Course, boxes
<1> QED
  BY <1>1, <1>2, <1>4 DEF IInv, Course

\* The driver goes on to the next phase when the request for this one has come, and then nothing
\* about this one is left but batches.
LEMMA CourseGoesOn ==
    ASSUME IInv, TypeInv', TakeRequest
    PROVE  IInv'
<1>0. /\ TypeInv /\ Course /\ Up /\ Up' /\ driver \in Drivers /\ driver' \in Drivers /\ managerBox # <<>>
      /\ managerBox' = Tail(managerBox) /\ managerBox \in Seq(Mail) /\ Head(managerBox) = managerBox[1]
      /\ 1 \in 1..Len(managerBox)
      /\ UNCHANGED <<row, maintainerBox, developerBox, split, maint, writing, line>>
  <2>1. TypeInv /\ managerBox \in Seq(Mail) /\ managerBox # <<>> /\ driver.pc = "waiting"
    BY DEF IInv, TypeInv, TakeRequest
  <2>2. Up'
    BY <2>1 DEF TakeRequest, Up, TypeInv, Drivers
  <2> QED
    BY <2>1, <2>2, Taken DEF IInv, TakeRequest, TypeInv, Up, durable
<1>1. \A q : Holds(managerBox', Message("phase_request", q)) => Holds(managerBox, Message("phase_request", q))
  BY <1>0, TakenHolds
<1>2. CASE driver'.at = driver.at /\ architectBox' = architectBox
  <2>1. Splits' /\ Works'
    BY <1>0, <1>2 DEF Course, Splits, Works, Active, Unsent
  <2>2. Requests' /\ (Requested' => Requested) /\ (AtWork' => AtWork)
    BY <1>0, <1>1, <1>2 DEF Course, Requests, Requested, AtWork, Active, Unsent
  <2>3. Account'
    BY <1>0, <1>2, <2>2, AccountStays DEF Course
  <2> QED
    BY <1>0, <2>1, <2>2, <2>3 DEF IInv, Course
<1>3. CASE /\ Head(managerBox) = Message("phase_request", driver.at)
           /\ driver'.at = driver.at + 1
           /\ architectBox' = Append(architectBox, Message("phase_plan", driver.at + 1))
  <2>0. driver.at \in Nat /\ driver.at \in Phases /\ driver.at + 1 \in Phases /\ Phases \subseteq Nat
    BY <1>0, <1>3 DEF Drivers, Phases
  <2>1. Requested
    BY <1>0, <1>3 DEF Requested, Holds
  <2>2. /\ Blank /\ maintainerBox = <<>> /\ ~AtWork /\ architectBox = <<>>
        /\ split[driver.at].stage # "planning"
    BY <1>0, <2>1 DEF Course, Account, Quiet, Refused, Declared
  <2>3. ~Active /\ ~Unsent /\ \A q \in Phases : ~Holds(developerBox, Blueprint(q))
    BY <2>2 DEF AtWork
  <2>4. split[driver.at + 1].stage = "off"
    BY <1>0, <2>0 DEF Course, Splits
  <2>5. Splits'
    BY <1>0, <1>3, <2>0, <2>2, <2>3 DEF Course, Splits, Unsent
  <2>6. ~AtWork' /\ ~Active' /\ ~Unsent'
    BY <1>0, <1>3, <2>3, <2>4 DEF AtWork, Active, Unsent
  <2>7. Works'
    <3>1. \A i \in 1..Len(developerBox) : developerBox[i] # Blueprint(driver.at + 1)
      BY <2>0, <2>3 DEF Holds
    <3> QED
      BY <1>0, <1>3, <2>3, <2>6, <3>1 DEF Works
  <2>8. Requests' /\ ~Requested'
    BY <1>0, <1>1, <1>3, <2>0 DEF Course, Requests, Requested
  <2>9. architectBox' = <<Message("phase_plan", driver'.at)>>
    BY <1>3, <2>2
  <2>10. Len(architectBox') = 1 /\ architectBox'[1] = Message("phase_plan", driver'.at)
    BY <2>9, OneMessage
  <2>11. Blank' /\ maintainerBox' = <<>> /\ split'[driver'.at].stage # "planning"
    BY <1>0, <1>3, <2>2, <2>4 DEF Blank
  <2>12. Account'
    BY <2>6, <2>8, <2>10, <2>11 DEF Account, Quiet
  <2> QED
    BY <1>0, <2>5, <2>7, <2>8, <2>12 DEF IInv, Course
<1> QED
  <2>1. driver.pc = "waiting"
    BY DEF TakeRequest
  <2> QED
    BY <1>0, <1>2, <1>3 DEF TakeRequest, Drivers

\* The plan of a phase is taken once.
LEMMA PlanKeeps ==
    ASSUME IInv, TypeInv', NEW p \in Phases, TakePlan(p)
    PROVE  IInv'
<1>0. /\ TypeInv /\ Course /\ Up /\ architectBox # <<>> /\ architectBox \in Seq(Mail)
      /\ Head(architectBox) = Message("phase_plan", p)
      /\ architectBox' = Tail(architectBox)
      /\ split' = [split EXCEPT ![p] = [stage |-> "planning", item |-> 0]]
      /\ UNCHANGED <<row, driver, managerBox, maintainerBox, developerBox, maint, writing, line>>
  BY DEF IInv, TakePlan, TypeInv, durable
<1>1. Head(architectBox) = architectBox[1] /\ Len(architectBox') = Len(architectBox) - 1 /\ architectBox' \in Seq(Mail)
  BY <1>0, Taken
<1>2. /\ Quiet /\ Len(architectBox) = 1 /\ ~Requested
      /\ architectBox[1] \in {Message("phase_plan", driver.at), Message("phase_done", driver.at)}
  BY <1>0 DEF Course, Account, Quiet, Refused, Declared
<1>3. p = driver.at
  BY <1>0, <1>1, <1>2 DEF Message
<1>4. architectBox' = <<>>
  BY <1>1, <1>2, EmptyBox
<1>5. split'[p].stage = "planning" /\ \A q \in Phases : q # p => split'[q] = split[q]
  BY <1>0 DEF TypeInv
<1>6. Splits'
  BY <1>0, <1>3, <1>5 DEF Course, Splits, TypeInv, Drivers, Phases
<1>7. ~AtWork' /\ ~Active /\ Works'
  <2>1. ~Active /\ \A q \in Phases : ~Holds(developerBox, Blueprint(q))
    BY <1>2 DEF Quiet, AtWork
  <2>2. ~Unsent' /\ ~Active'
    BY <1>0, <1>3, <1>5, <2>1 DEF Unsent, Active
  <2>3. Works'
    BY <1>0, <2>1, <2>2 DEF Course, Works
  <2> QED
    BY <1>0, <2>1, <2>2, <2>3 DEF AtWork
<1>8. Requests' /\ ~Requested'
  BY <1>0, <1>2 DEF Course, Requests, Requested
<1>9. Quiet'
  BY <1>0, <1>2, <1>4, <1>7, <1>8 DEF Quiet, Blank
<1> QED
  BY <1>0, <1>6, <1>7, <1>8, <1>9 DEF IInv, Course, Account, Up

\* A phase that is over is requested of the driver.
LEMMA DoneKeeps ==
    ASSUME IInv, TypeInv', NEW p \in Phases, TakePhaseDone(p)
    PROVE  IInv'
<1>0. /\ TypeInv /\ Course /\ Up /\ architectBox # <<>> /\ architectBox \in Seq(Mail) /\ managerBox \in Seq(Mail)
      /\ Head(architectBox) = Message("phase_done", p)
      /\ architectBox' = Tail(architectBox)
      /\ managerBox' = Append(managerBox, Message("phase_request", p))
      /\ UNCHANGED <<row, driver, maintainerBox, developerBox, split, maint, writing, line>>
  BY DEF IInv, TakePhaseDone, TypeInv, durable
<1>1. Head(architectBox) = architectBox[1] /\ Len(architectBox') = Len(architectBox) - 1 /\ architectBox' \in Seq(Mail)
  BY <1>0, Taken
<1>2. /\ Quiet /\ Len(architectBox) = 1 /\ split[driver.at].stage # "planning"
      /\ architectBox[1] \in {Message("phase_plan", driver.at), Message("phase_done", driver.at)}
  BY <1>0 DEF Course, Account, Quiet, Refused, Declared
<1>3. p = driver.at
  BY <1>0, <1>1, <1>2 DEF Message
<1>4. architectBox' = <<>>
  BY <1>1, <1>2, EmptyBox
<1>5. \A q : Holds(managerBox', Message("phase_request", q))
             => Holds(managerBox, Message("phase_request", q)) \/ q = p
  <2>1. Message("phase_request", p) \in Mail
    BY Words DEF Kinds
  <2>2. \A q : Message("phase_request", q) = Message("phase_request", p) => q = p
    BY DEF Message
  <2> QED
    BY <1>0, <2>1, <2>2, PutHolds
<1>6. Requests'
  BY <1>0, <1>3, <1>5 DEF Course, Requests, TypeInv, Drivers, Phases
<1>7. Splits' /\ Works' /\ ~AtWork'
  BY <1>0, <1>2 DEF Course, Quiet, Splits, Works, AtWork, Active, Unsent
<1>8. Quiet'
  BY <1>0, <1>2, <1>4, <1>7 DEF Quiet, Blank
<1> QED
  BY <1>0, <1>6, <1>7, <1>8 DEF IInv, Course, Account, Up

\* Taking a message, putting one that is no blueprint and emptying the box bring no blueprint.
LEMMA NoNewBlueprint ==
    ASSUME developerBox \in Seq(Mail),
           \/ developerBox' = developerBox
           \/ developerBox # <<>> /\ developerBox' = Tail(developerBox)
           \/ \E m \in Mail : m.type # "architect_task" /\ developerBox' = Append(developerBox, m)
           \/ developerBox' = <<>>
    PROVE  \A q \in Phases :
               /\ Holds(developerBox', Blueprint(q)) => Holds(developerBox, Blueprint(q))
               /\ (\A i, j \in 1..Len(developerBox) :
                       developerBox[i] = Blueprint(q) /\ developerBox[j] = Blueprint(q) => i = j)
                  => \A i, j \in 1..Len(developerBox') :
                       developerBox'[i] = Blueprint(q) /\ developerBox'[j] = Blueprint(q) => i = j
<1> SUFFICES ASSUME NEW q \in Phases
             PROVE  /\ Holds(developerBox', Blueprint(q)) => Holds(developerBox, Blueprint(q))
                    /\ (\A i, j \in 1..Len(developerBox) :
                            developerBox[i] = Blueprint(q) /\ developerBox[j] = Blueprint(q) => i = j)
                       => \A i, j \in 1..Len(developerBox') :
                            developerBox'[i] = Blueprint(q) /\ developerBox'[j] = Blueprint(q) => i = j
  OBVIOUS
<1> DEFINE b == Blueprint(q)
<1>0. b.type = "architect_task"
  BY DEF Blueprint, Message
<1> HIDE DEF b
<1>1. CASE developerBox' = developerBox
  BY <1>1
<1>2. CASE developerBox # <<>> /\ developerBox' = Tail(developerBox)
  <2>1. /\ Len(developerBox) \in Nat /\ Len(developerBox') = Len(developerBox) - 1 /\ Len(developerBox) >= 1
        /\ \A i \in 1..(Len(developerBox) - 1) : developerBox'[i] = developerBox[i + 1]
    <3>1. /\ Len(developerBox) \in Nat /\ Len(Tail(developerBox)) = Len(developerBox) - 1 /\ Len(developerBox) >= 1
          /\ \A i \in 1..(Len(developerBox) - 1) : Tail(developerBox)[i] = developerBox[i + 1]
      BY <1>2, Taken
    <3> QED
      BY <1>2, <3>1
  <2>2. \A i \in 1..Len(developerBox') :
            i \in Int /\ i + 1 \in 1..Len(developerBox) /\ developerBox'[i] = developerBox[i + 1]
    BY <2>1
  <2>3. Holds(developerBox', b) => Holds(developerBox, b)
    BY <2>2 DEF Holds
  <2>4. (\A i, j \in 1..Len(developerBox) : developerBox[i] = b /\ developerBox[j] = b => i = j)
        => \A i, j \in 1..Len(developerBox') : developerBox'[i] = b /\ developerBox'[j] = b => i = j
    <3> SUFFICES ASSUME \A i, j \in 1..Len(developerBox) : developerBox[i] = b /\ developerBox[j] = b => i = j,
                        NEW i \in 1..Len(developerBox'), NEW j \in 1..Len(developerBox'),
                        developerBox'[i] = b, developerBox'[j] = b
                 PROVE  i = j
      OBVIOUS
    <3>1. i + 1 = j + 1
      BY <2>2
    <3>2. i \in Int /\ j \in Int
      BY <2>2
    <3> QED
      BY <3>1, <3>2
  <2> QED
    BY <2>3, <2>4 DEF b
<1>3. ASSUME NEW m \in Mail, m.type # "architect_task", developerBox' = Append(developerBox, m)
      PROVE  /\ Holds(developerBox', b) => Holds(developerBox, b)
             /\ (\A i, j \in 1..Len(developerBox) : developerBox[i] = b /\ developerBox[j] = b => i = j)
                => \A i, j \in 1..Len(developerBox') : developerBox'[i] = b /\ developerBox'[j] = b => i = j
  <2>1. m # b
    BY <1>0, <1>3
  <2>2. /\ Len(developerBox) \in Nat /\ Len(developerBox') = Len(developerBox) + 1
        /\ \A i \in 1..Len(developerBox) : developerBox'[i] = developerBox[i]
        /\ developerBox'[Len(developerBox) + 1] = m
    BY <1>3, Put
  <2>3. \A i \in 1..Len(developerBox') :
            developerBox'[i] = b => i \in 1..Len(developerBox) /\ developerBox[i] = b
    BY <2>1, <2>2
  <2> QED
    BY <2>3 DEF Holds
<1>4. CASE developerBox' = <<>>
  BY <1>4 DEF Holds
<1> QED
  BY <1>1, <1>2, <1>3, <1>4 DEF b

\* A step after which there is no more work than before, and nothing new for the maintainer.
LEMMA WorkStays ==
    ASSUME IInv, TypeInv', Up, Up', Splits', driver'.at = driver.at,
           Active' => Active /\ line'.task = line.task, Unsent' => Unsent,
           \/ developerBox' = developerBox
           \/ developerBox # <<>> /\ developerBox' = Tail(developerBox)
           \/ \E m \in Mail : m.type # "architect_task" /\ developerBox' = Append(developerBox, m)
           \/ developerBox' = <<>>
    PROVE  Works' /\ (AtWork' => AtWork)
<1>1. developerBox \in Seq(Mail) /\ Works /\ driver.at \in Phases
  BY DEF IInv, TypeInv, Course, Drivers
<1>2. \A q \in Phases : Holds(developerBox', Blueprint(q)) => Holds(developerBox, Blueprint(q))
  BY <1>1, NoNewBlueprint
<1>3. \A i, j \in 1..Len(developerBox') :
          developerBox'[i] = Blueprint(driver.at) /\ developerBox'[j] = Blueprint(driver.at) => i = j
  BY <1>1, NoNewBlueprint DEF Works
<1>4. \A q \in Phases : Blueprint(q)' = Blueprint(q)
  BY DEF Blueprint
<1>5. \A q \in Phases : Holds(developerBox', Blueprint(q)) => q = driver'.at /\ ~Active' /\ ~Unsent'
  BY <1>1, <1>2 DEF Works
<1>6. Active' => line'.task = driver'.at /\ ~Unsent'
  BY <1>1 DEF Works
<1> QED
  BY <1>2, <1>3, <1>5, <1>6 DEF Works, AtWork, Blueprint

\* The plan of the driver's phase is the only one, and nothing is said of it yet.
LEMMA PlanningIsQuiet ==
    ASSUME IInv, Up, NEW p \in Phases, split[p].stage = "planning"
    PROVE  p = driver.at /\ Quiet /\ architectBox = <<>> /\ ~Requested
<1>1. Course
  BY DEF IInv
<1>2. p = driver.at
  BY <1>1 DEF Course, Splits
<1> QED
  BY <1>1, <1>2 DEF Course, Account, Quiet, Refused, Declared

\* What the architect declares, or refuses to.
LEMMA DeclarationKeeps ==
    ASSUME IInv, TypeInv', NEW p \in Phases, Declare(p) \/ Reject(p)
    PROVE  IInv'
<1>0. /\ TypeInv /\ Course /\ Up /\ split[p].stage = "planning"
      /\ UNCHANGED <<driver, managerBox, architectBox, developerBox, maint, writing, line>>
  BY DEF IInv, Declare, Reject
<1>1. p = driver.at /\ Quiet /\ architectBox = <<>> /\ ~Requested
  BY <1>0, PlanningIsQuiet
<1>2. maintainerBox = <<>> /\ Blank /\ ~Active /\ \A q \in Phases : ~Holds(developerBox, Blueprint(q))
  BY <1>1 DEF Quiet, AtWork
<1>3. /\ split'[p].stage \in {"sending", "off"} /\ (Reject(p) => split'[p].stage = "off")
      /\ \A q \in Phases : q # p => split'[q] = split[q]
  BY DEF IInv, TypeInv, Stages, Declare, Reject
<1>4. Splits' /\ Requests' /\ ~Requested'
  BY <1>0, <1>1, <1>3 DEF Course, Splits, Requests, Requested, TypeInv, Drivers, Phases
<1>5. Works'
  BY <1>0, <1>2 DEF Works, Active, Blueprint, TypeInv, Drivers, Holds
<1>6. Blank' /\ Up' /\ architectBox' = <<>> /\ split'[driver'.at].stage # "planning"
  BY <1>0, <1>1, <1>2, <1>3 DEF Blank, Up
<1>7. CASE Declare(p)
  <2>1. Message("tasks_declared", p) \in Mail
    BY Words DEF Kinds
  <2>2. Len(maintainerBox') = 1 /\ maintainerBox'[1] = Message("tasks_declared", driver'.at)
    BY <1>0, <1>1, <1>2, <1>7, <2>1, OneMessage DEF Declare
  <2>3. row'[driver'.at] # "none"
    BY <1>0, <1>1, <1>7 DEF Declare, TypeInv, Rows
  <2> QED
    BY <1>0, <1>4, <1>5, <1>6, <2>2, <2>3 DEF IInv, Course, Account, Declared, Told
<1>8. CASE Reject(p)
  <2>1. Message("nothing_declared", p) \in Mail
    BY Words DEF Kinds
  <2>2. Len(maintainerBox') = 1 /\ maintainerBox'[1] = Message("nothing_declared", driver'.at)
    BY <1>0, <1>1, <1>2, <1>8, <2>1, OneMessage DEF Reject
  <2>3. ~Unsent' /\ ~AtWork'
    BY <1>0, <1>1, <1>2, <1>3, <1>8 DEF Unsent, AtWork, Active, Blueprint
  <2> QED
    BY <1>0, <1>4, <1>5, <1>6, <2>2, <2>3 DEF IInv, Course, Account, Refused
<1> QED
  BY <1>7, <1>8

\* A failed task is taken up again while no process runs.
LEMMA RetryKeeps ==
    ASSUME IInv, TypeInv', NEW p \in Phases, Retry(p)
    PROVE  IInv'
BY DEF IInv, Retry, volatile, boxes, Up
\* Nothing but the first item brings work to the developer, and that once.
LEMMA SendingKeeps ==
    ASSUME IInv, TypeInv', NEW p \in Phases, SendItem(p)
    PROVE  IInv'
<1>0. /\ TypeInv /\ Course /\ Up /\ Up' /\ split[p].stage = "sending" /\ split[p] \in Stages
      /\ driver.at \in Phases /\ developerBox \in Seq(Mail) /\ split[p].item \in Nat
      /\ UNCHANGED <<row, driver, managerBox, architectBox, maintainerBox, maint, writing, line>>
  BY PhaseRunConstants DEF IInv, SendItem, TypeInv, Drivers, Up, Stages
<1>1. /\ split'[p].item = split[p].item + 1 /\ split'[p].stage \in {"sending", "saving"}
      /\ \A q \in Phases : q # p => split'[q] = split[q]
  <2> DEFINE new == [split[p] EXCEPT !.item = split[p].item + 1,
                                     !.stage = IF split[p].item = NumBatches THEN "saving" ELSE split[p].stage]
  <2>1. split' = [split EXCEPT ![p] = new]
    BY DEF SendItem, NextItem, IInv, TypeInv
  <2>2. new.item = split[p].item + 1 /\ new.stage \in {"sending", "saving"}
    BY <1>0 DEF Stages
  <2> HIDE DEF new
  <2> QED
    BY <1>0, <2>1, <2>2 DEF TypeInv
<1>2. Splits' /\ ~(p = driver.at /\ Unsent')
  BY <1>0, <1>1 DEF Course, Splits, Unsent
<1>3. Unsent' => Unsent
  BY <1>0, <1>1, <1>2 DEF Unsent
<1>4. split'[driver.at].stage = "planning" => split[driver.at].stage = "planning"
  BY <1>0, <1>1
<1>5. CASE split[p].item # 0
  <2>1. \/ developerBox' = developerBox
        \/ \E m \in Mail : m.type # "architect_task" /\ developerBox' = Append(developerBox, m)
    <3>1. Batch(p, split[p].item) \in Mail /\ Batch(p, split[p].item).type # "architect_task"
      BY <1>0, Words DEF Batch
    <3> QED
      BY <1>5, <3>1 DEF SendItem
  <2>2. Works' /\ (AtWork' => AtWork)
    BY <1>0, <1>2, <1>3, <2>1, WorkStays DEF Active
  <2>3. Account'
    BY <1>0, <1>4, <2>2, AccountStays DEF Course, Requested
  <2> QED
    BY <1>0, <1>2, <2>2, <2>3 DEF IInv, Course, Requests
<1>6. CASE split[p].item = 0
  <2>1. p = driver.at /\ Unsent
    BY <1>0, <1>6 DEF Course, Splits, Unsent
  <2>2. ~Active /\ ~Unsent' /\ \A q \in Phases : ~Holds(developerBox, Blueprint(q))
    BY <1>0, <1>2, <2>1 DEF Course, Works
  <2>3. Blueprint(p) \in Mail /\ \A q \in Phases : Blueprint(q) = Blueprint(p) => q = p
    BY Words DEF Blueprint, Kinds, Message
  <2>4. developerBox' = developerBox \/ developerBox' = Append(developerBox, Blueprint(p))
    BY <1>6 DEF SendItem, Blueprint
  <2>5. \A q \in Phases : Holds(developerBox', Blueprint(q)) => q = p
    <3> SUFFICES ASSUME NEW q \in Phases, Holds(developerBox', Blueprint(q)) PROVE q = p
      OBVIOUS
    <3>1. developerBox' # developerBox
      BY <2>2
    <3>2. Holds(Append(developerBox, Blueprint(p)), Blueprint(q))
      BY <2>4, <3>1
    <3>3. Blueprint(q) = Blueprint(p)
      BY <1>0, <2>2, <2>3, <3>2, PutHolds
    <3> QED
      BY <2>3, <3>3
  <2>6. \A i, j \in 1..Len(developerBox') :
            developerBox'[i] = Blueprint(p) /\ developerBox'[j] = Blueprint(p) => i = j
    <3>1. \A i \in 1..Len(developerBox) : developerBox[i] # Blueprint(p)
      BY <2>2 DEF Holds
    <3>2. CASE developerBox' = Append(developerBox, Blueprint(p))
      <4>1. /\ Len(developerBox) \in Nat /\ Len(developerBox') = Len(developerBox) + 1
            /\ \A i \in 1..Len(developerBox) : developerBox'[i] = developerBox[i]
        BY <1>0, <2>3, <3>2, Put
      <4>2. \A i \in 1..Len(developerBox') : developerBox'[i] = Blueprint(p) => i = Len(developerBox) + 1
        BY <3>1, <4>1
      <4> QED
        BY <4>2
    <3> QED
      BY <2>4, <3>1, <3>2
  <2>7. Works'
    BY <1>0, <2>1, <2>2, <2>5, <2>6 DEF Works, Active, Blueprint
  <2>8. Account'
    BY <1>0, <1>4, <2>1, AccountStays DEF Course, Requested, AtWork
  <2> QED
    BY <1>0, <1>2, <2>7, <2>8 DEF IInv, Course, Requests
<1> QED
  BY <1>5, <1>6

\* A split that fails or is saved leaves nothing new.
LEMMA SplitEndKeeps ==
    ASSUME IInv, TypeInv', NEW p \in Phases, FailSplit(p) \/ SaveOutput(p)
    PROVE  IInv'
<1>1. CASE Off
  BY <1>1, CourseEnds
<1>2. CASE ~Off
  <2>0. /\ TypeInv /\ Course /\ Up /\ driver.at \in Phases /\ managerBox \in Seq(Mail)
        /\ split' = [split EXCEPT ![p].stage = "off"]
        /\ managerBox' = managerBox \/ managerBox' = Append(managerBox, Message("architect_dispatch_failed", p))
        /\ developerBox' = developerBox \/ developerBox' = Append(developerBox, Message("cancel_task", p))
        /\ UNCHANGED <<row, driver, architectBox, maintainerBox, maint, writing, line>>
    BY <1>2 DEF IInv, TypeInv, Drivers, FailSplit, SaveOutput, boxes
  <2>1. split'[p].stage = "off" /\ (\A q \in Phases : q # p => split'[q] = split[q]) /\ Up'
    BY <2>0 DEF TypeInv, Stages, Up
  <2>2. Splits' /\ (Unsent' => Unsent) /\ (split'[driver.at].stage = "planning" => split[driver.at].stage = "planning")
    BY <2>0, <2>1 DEF Course, Splits, Unsent
  <2>3. \/ developerBox' = developerBox
        \/ \E m \in Mail : m.type # "architect_task" /\ developerBox' = Append(developerBox, m)
    <3>1. Message("cancel_task", p) \in Mail /\ Message("cancel_task", p).type # "architect_task"
      BY Words DEF Message, Kinds
    <3> QED
      BY <2>0, <3>1
  <2>4. Works' /\ (AtWork' => AtWork)
    BY <2>0, <2>1, <2>2, <2>3, WorkStays DEF Active
  <2>5. \A q \in Phases : Holds(managerBox', Message("phase_request", q)) => Holds(managerBox, Message("phase_request", q))
    <3> SUFFICES ASSUME NEW q \in Phases, Holds(managerBox', Message("phase_request", q)),
                        managerBox' = Append(managerBox, Message("architect_dispatch_failed", p))
                 PROVE  Holds(managerBox, Message("phase_request", q))
      BY <2>0
    <3>1. Message("architect_dispatch_failed", p) \in Mail
      BY Words DEF Kinds
    <3>2. Message("architect_dispatch_failed", p) # Message("phase_request", q)
      BY DEF Message
    <3> QED
      BY <2>0, <3>1, <3>2, PutHolds
  <2>6. Requests' /\ (Requested' => Requested)
    BY <2>0, <2>5 DEF Course, Requests, Requested
  <2>7. Account'
    BY <2>0, <2>2, <2>4, <2>6, AccountStays DEF Course
  <2> QED
    BY <2>0, <2>1, <2>2, <2>4, <2>6, <2>7 DEF IInv, Course
<1> QED
  BY <1>1, <1>2

\* What the maintainer is told and what it books.
LEMMA MaintainerKeeps ==
    ASSUME IInv, TypeInv', Maintainer
    PROVE  IInv'
<1>0. /\ TypeInv /\ Course /\ Up /\ Up' /\ driver.at \in Phases /\ maintainerBox \in Seq(Mail) /\ architectBox \in Seq(Mail)
      /\ maint \in Fields
      /\ UNCHANGED <<driver, managerBox, developerBox, split, line>>
      /\ \A q \in Phases : row[q] # "none" => row'[q] # "none"
  <2>1. \A q \in Phases : row[q] # "none" => row'[q] # "none"
    <3>1. CASE Write
      BY <3>1, RowsKept DEF Write, Attempts, IInv, TypeInv
    <3> QED
      BY <3>1 DEF Maintainer, TakeDeclared, TakeTerminal, durable
  <2> QED
    BY <2>1 DEF IInv, TypeInv, Drivers, Up, Maintainer, TakeDeclared, TakeTerminal, Write
<1>1. Splits' /\ Works' /\ Requests' /\ AtWork' = AtWork /\ Requested' = Requested
  BY <1>0 DEF Course, Splits, Works, Requests, AtWork, Requested, Active, Unsent, Blueprint
<1>2. SUFFICES Account'
  BY <1>0, <1>1 DEF IInv, Course
<1>3. ASSUME NEW p \in Phases, TakeDeclared(p) PROVE Account'
  <2>1. /\ maintainerBox # <<>> /\ Head(maintainerBox) = maintainerBox[1] /\ maintainerBox' = Tail(maintainerBox)
        /\ Len(maintainerBox) \in Nat /\ maintainerBox' \in Seq(Mail) /\ Len(maintainerBox') = Len(maintainerBox) - 1
        /\ \A i \in 1..(Len(maintainerBox) - 1) : maintainerBox'[i] = maintainerBox[i + 1]
        /\ UNCHANGED <<row, writing>>
        /\ maintainerBox[1] \in {Message("tasks_declared", p), Message("nothing_declared", p)}
    BY <1>0, <1>3, Taken DEF TakeDeclared, durable
  <2> DEFINE m == [maint EXCEPT !.phase = p, !.final = TRUE,
                       !.declared = IF Head(maintainerBox).type = "tasks_declared"
                                    THEN @ \cup {p} ELSE @]
  <2>2. Converge(m)
    BY <1>3 DEF TakeDeclared
  <2>3. /\ m.phase = p /\ m.final /\ m.terminals = maint.terminals
        /\ m.declared = IF maintainerBox[1].type = "tasks_declared" THEN maint.declared \cup {p} ELSE maint.declared
    BY <1>0, <2>1 DEF Fields
  <2>4. m \in [phase : {p}, final : {TRUE}, terminals : SUBSET Phases, declared : SUBSET Phases]
    BY <1>0 DEF Fields
  <2> HIDE DEF m
  <2>5. CASE Refused
    <3>1. maintainerBox[1].type = "nothing_declared" /\ p = driver.at
      BY <2>1, <2>5 DEF Refused, Message
    <3>2. architectBox' = Append(architectBox, Message("phase_done", driver.at))
          /\ maint' = [m EXCEPT !.declared = {}, !.final = FALSE, !.terminals = {}]
      BY <2>2, <2>3, <2>5, <3>1 DEF Converge, Refused, Blank
    <3>3. maint'.declared = {} /\ ~maint'.final /\ maint'.terminals = {}
      BY <2>4, <3>2
    <3>4. Message("phase_done", driver.at) \in Mail
      BY <1>0, Words DEF Kinds
    <3>5. Len(architectBox') = 1 /\ architectBox'[1] = Message("phase_done", driver.at)
      BY <2>5, <3>2, <3>4, OneMessage DEF Refused
    <3>6. maintainerBox' = <<>>
      BY <2>1, <2>5, EmptyBox DEF Refused
    <3>7. Quiet'
      BY <1>0, <1>1, <2>1, <2>5, <3>3, <3>5, <3>6 DEF Refused, Blank, Quiet
    <3> QED
      BY <3>7 DEF Account
  <2>6. CASE Declared /\ Told
    <3>1. maintainerBox[1].type = "tasks_declared" /\ p = driver.at
      BY <2>1, <2>6 DEF Told, Message
    <3>2. maint' = m /\ architectBox' = architectBox
      BY <2>2, <2>3, <2>6, <3>1 DEF Converge, Told, Blank
    <3>3. Known'
      BY <1>0, <2>1, <2>3, <2>6, <3>1, <3>2 DEF Known, Told, Blank
    <3>4. Len(maintainerBox') \in {0, 1} /\ (Len(maintainerBox') = 1 => IsTerminal(maintainerBox'[1]) /\ ~AtWork)
      BY <2>1, <2>6 DEF Told
    <3>5. Awaited'
      BY <1>0, <1>1, <3>3, <3>4 DEF Awaited, IsTerminal
    <3> QED
      BY <1>0, <1>1, <2>6, <3>2, <3>5 DEF Account, Declared
  <2>7. ~Quiet /\ ~Booked1
    BY <2>1 DEF Quiet, Booked1
  <2>8. ~Awaited
    <3> SUFFICES ASSUME Awaited PROVE FALSE
      OBVIOUS
    <3>1. Len(maintainerBox) = 1
      BY <2>1, <1>0, EmptyBox DEF Awaited
    <3>2. IsTerminal(maintainerBox[1])
      BY <3>1 DEF Awaited
    <3> QED
      BY <2>1, <3>2 DEF IsTerminal, Message
  <2> QED
    BY <1>0, <2>5, <2>6, <2>7, <2>8 DEF Course, Account, Declared
<1>4. ASSUME NEW p \in Phases, TakeTerminal(p) PROVE Account'
  <2>1. PICK t \in {"developer_ready", "developer_blocked", "developer_failed"} :
           /\ Head(maintainerBox) = Message(t, p)
           /\ writing' = IF p \in maint.terminals THEN {}
                         ELSE {[phase |-> p, under |-> maint.phase,
                                verdict |-> IF t = "developer_ready" THEN "done" ELSE "failed"]}
    BY <1>4 DEF TakeTerminal
  <2>2. /\ maintainerBox # <<>> /\ Head(maintainerBox) = maintainerBox[1] /\ maintainerBox' = Tail(maintainerBox)
        /\ Len(maintainerBox) \in Nat /\ maintainerBox' \in Seq(Mail) /\ Len(maintainerBox') = Len(maintainerBox) - 1
        /\ UNCHANGED <<row, architectBox>>
        /\ maint' = [maint EXCEPT !.terminals = @ \cup {p}] /\ writing = {}
    BY <1>0, <1>4, Taken DEF TakeTerminal, durable
  <2>3. ~Quiet /\ ~Refused /\ ~Told /\ ~Booked1
    BY <2>1, <2>2 DEF Quiet, Refused, Told, Booked1, Message
  <2>4. Declared /\ Awaited
    BY <1>0, <2>3 DEF Course, Account, Declared
  <2>5. Len(maintainerBox) = 1 /\ IsTerminal(maintainerBox[1]) /\ ~AtWork /\ Known
    BY <1>0, <2>2, <2>4, EmptyBox DEF Awaited
  <2>6. p = driver.at
    BY <2>1, <2>2, <2>5 DEF IsTerminal, Message
  <2>7. maintainerBox' = <<>>
    BY <2>2, <2>5, EmptyBox
  <2>8. maint'.phase = driver.at /\ maint'.declared = {driver.at} /\ maint'.final /\ maint'.terminals = {driver.at}
    BY <1>0, <2>2, <2>5, <2>6 DEF Known, Fields
  <2>9. \E v \in Concluded : writing' = {[phase |-> driver.at, under |-> driver.at, verdict |-> v]}
    BY <2>1, <2>5, <2>6 DEF Known, Concluded
  <2>10. Booked1'
    BY <1>0, <1>1, <2>5, <2>7, <2>8, <2>9 DEF Booked1, Booking
  <2> QED
    BY <1>0, <1>1, <2>2, <2>4, <2>10 DEF Account, Declared
<1>5. CASE Write
  <2>1. writing # {} /\ writing' = {} /\ Converge(maint) /\ maintainerBox' = maintainerBox
    BY <1>5 DEF Write
  <2>2. Declared /\ Booked1
    BY <1>0, <2>1 DEF Course, Account, Declared, Quiet, Refused, Told, Awaited, Blank, Known
  <2>3. architectBox' = Append(architectBox, Message("phase_done", driver.at))
        /\ maint' = [maint EXCEPT !.declared = {}, !.final = FALSE, !.terminals = {}]
    BY <2>1, <2>2 DEF Converge, Booked1, Booking
  <2>4. maint'.declared = {} /\ ~maint'.final /\ maint'.terminals = {}
    BY <1>0, <2>3 DEF Fields
  <2>5. Message("phase_done", driver.at) \in Mail
    BY <1>0, Words DEF Kinds
  <2>6. Len(architectBox') = 1 /\ architectBox'[1] = Message("phase_done", driver.at)
    BY <2>2, <2>3, <2>5, OneMessage DEF Declared
  <2>7. Quiet'
    BY <1>0, <1>1, <2>1, <2>2, <2>4, <2>6 DEF Quiet, Blank, Declared, Booked1
  <2> QED
    BY <2>7 DEF Account
<1> QED
  BY <1>3, <1>4, <1>5 DEF Maintainer
\* Steps of the line that bring no work and tell nothing.
LEMMA LineRests ==
    ASSUME IInv, TypeInv', Up,
           UNCHANGED <<row, driver, managerBox, architectBox, maintainerBox, split, maint, writing>>,
           Active' => Active /\ line'.task = line.task,
           \/ developerBox' = developerBox
           \/ developerBox # <<>> /\ developerBox' = Tail(developerBox)
           \/ developerBox' = <<>>
    PROVE  IInv'
<1>1. Course /\ Up' /\ Splits' /\ Requests' /\ Requested' = Requested /\ Unsent' = Unsent
  BY DEF IInv, Course, Up, Splits, Requests, Requested, Unsent
<1>2. Works' /\ (AtWork' => AtWork)
  BY <1>1, WorkStays
<1>3. Account'
  BY <1>1, <1>2, AccountStays DEF Course
<1> QED
  BY <1>1, <1>2, <1>3 DEF IInv, Course

\* The line ends its task and says so: the maintainer hears it once.
LEMMA LineTells ==
    ASSUME IInv, TypeInv', Up, Active,
           NEW t \in {"developer_ready", "developer_blocked", "developer_failed"}, Tell(t), line'.pc = "closing",
           UNCHANGED <<row, driver, managerBox, architectBox, split, maint, writing>>,
           developerBox' = developerBox \/ (developerBox # <<>> /\ developerBox' = Tail(developerBox))
    PROVE  IInv'
<1>1. /\ TypeInv /\ Course /\ Up' /\ Splits' /\ Requests' /\ Requested' = Requested /\ Unsent' = Unsent /\ ~Active'
      /\ driver.at \in Phases /\ maintainerBox \in Seq(Mail) /\ developerBox \in Seq(Mail)
  BY DEF IInv, TypeInv, Drivers, Course, Up, Splits, Requests, Requested, Unsent, Active
<1>2. Works'
  BY <1>1, WorkStays
<1>3. line.task = driver.at /\ ~Unsent /\ AtWork /\ \A q \in Phases : ~Holds(developerBox, Blueprint(q))
  BY <1>1 DEF Course, Works, AtWork
<1>4. ~AtWork'
  <2>1. \A q \in Phases : ~Holds(developerBox', Blueprint(q))
    BY <1>1, <1>3, NoNewBlueprint
  <2> QED
    BY <1>1, <1>3, <2>1 DEF AtWork, Blueprint
<1>5. Declared /\ ((Told /\ Len(maintainerBox) = 1) \/ (Awaited /\ Len(maintainerBox) = 0))
  BY <1>1, <1>3 DEF Course, Account, Quiet, Refused, Declared, Told, Awaited, Booked1
<1>6. /\ maintainerBox' = Append(maintainerBox, Message(t, driver.at))
      /\ Message(t, driver.at) \in Mail /\ IsTerminal(Message(t, driver.at))
  BY <1>1, <1>3, Words DEF Tell, Kinds, IsTerminal
<1>7. /\ Len(maintainerBox') = Len(maintainerBox) + 1
      /\ \A i \in 1..Len(maintainerBox) : maintainerBox'[i] = maintainerBox[i]
      /\ maintainerBox'[Len(maintainerBox) + 1] = Message(t, driver.at)
  BY <1>1, <1>6, Put
<1>8. Told' \/ Awaited'
  <2>1. CASE Told /\ Len(maintainerBox) = 1
    <3>1. Len(maintainerBox') = 2 /\ maintainerBox'[1] = Message("tasks_declared", driver.at) /\ IsTerminal(maintainerBox'[2])
      BY <1>6, <1>7, <2>1 DEF Told
    <3> QED
      BY <1>4, <2>1, <3>1 DEF Told, Blank, IsTerminal
  <2>2. CASE Awaited /\ Len(maintainerBox) = 0
    <3>1. Len(maintainerBox') = 1 /\ IsTerminal(maintainerBox'[1])
      BY <1>6, <1>7, <2>2
    <3> QED
      BY <1>4, <2>2, <3>1 DEF Awaited, Known, IsTerminal
  <2> QED
    BY <1>5, <2>1, <2>2
<1>9. Account'
  BY <1>1, <1>5, <1>8 DEF Account, Declared
<1> QED
  BY <1>1, <1>2, <1>9 DEF IInv, Course

\* The line takes the one blueprint there is.
LEMMA BlueprintTaken ==
    ASSUME IInv, TypeInv', Up, line.pc = "idle", developerBox # <<>>, Head(developerBox).type = "architect_task",
           developerBox' = Tail(developerBox), line'.pc = "working", line'.task = Head(developerBox).phase,
           UNCHANGED <<row, driver, managerBox, architectBox, maintainerBox, split, maint, writing>>
    PROVE  IInv' /\ Head(developerBox) = Blueprint(driver.at)
<1>1. /\ TypeInv /\ Course /\ Up' /\ Splits' /\ Requests' /\ Requested' = Requested /\ Unsent' = Unsent
      /\ driver.at \in Phases /\ developerBox \in Seq(Mail)
  BY DEF IInv, TypeInv, Drivers, Course, Up, Splits, Requests, Requested, Unsent
<1>2. /\ Len(developerBox) \in Nat /\ Len(developerBox) >= 1 /\ Head(developerBox) = developerBox[1]
      /\ developerBox[1] \in Mail /\ Len(developerBox') = Len(developerBox) - 1
      /\ \A i \in 1..(Len(developerBox) - 1) : developerBox'[i] = developerBox[i + 1]
  BY <1>1, Taken
<1>3. developerBox[1] = Blueprint(line'.task) /\ line'.task \in Phases
  BY <1>2 DEF Mail, Kinds, Blueprint, Message
<1>4. Holds(developerBox, Blueprint(line'.task))
  BY <1>2, <1>3 DEF Holds
<1>5. line'.task = driver.at /\ ~Unsent /\ AtWork
  BY <1>1, <1>3, <1>4 DEF Course, Works, AtWork
<1>6. \A i \in 1..Len(developerBox') : developerBox'[i] # Blueprint(driver.at)
  <2> SUFFICES ASSUME NEW i \in 1..Len(developerBox'), developerBox'[i] = Blueprint(driver.at) PROVE FALSE
    OBVIOUS
  <2>1. i + 1 \in 1..Len(developerBox) /\ 1 \in 1..Len(developerBox) /\ i + 1 # 1 /\ developerBox[i + 1] = Blueprint(driver.at)
    BY <1>2
  <2> QED
    BY <1>1, <1>3, <1>5, <2>1 DEF Course, Works
<1>7. \A q \in Phases : ~Holds(developerBox', Blueprint(q))
  <2> SUFFICES ASSUME NEW q \in Phases, Holds(developerBox', Blueprint(q)) PROVE FALSE
    OBVIOUS
  <2>1. Holds(developerBox, Blueprint(q))
    BY <1>1, TakenHolds
  <2>2. q = driver.at
    BY <1>1, <2>1 DEF Course, Works
  <2> QED
    BY <1>6, <2>2 DEF Holds
<1>8. Works'
  BY <1>1, <1>5, <1>6, <1>7 DEF Works, Active, Blueprint
<1>9. Account'
  BY <1>1, <1>5, AccountStays DEF Course
<1> QED
  BY <1>1, <1>2, <1>3, <1>5, <1>8, <1>9 DEF IInv, Course

\* The developer line.
LEMMA DeveloperKeeps ==
    ASSUME IInv, TypeInv', Developer
    PROVE  IInv'
<1>0. line \in Lines /\ Up /\ TypeInv
  BY DEF IInv, TypeInv, Developer, TakeTask, WorkRests, TakeBatch, TakeCancel, Park, TestAnswered,
         GiveUp, Throw, HumanStop, Pause, CloseOut
<1>1. CASE TakeTask
  <2>1. CASE Head(developerBox).type = "architect_task"
    <3>1. line' = [Idle EXCEPT !.pc = "working", !.task = Head(developerBox).phase]
      BY <1>1, <2>1 DEF TakeTask
    <3>2. line'.pc = "working" /\ line'.task = Head(developerBox).phase
      BY <3>1 DEF Idle
    <3> QED
      BY <1>0, <1>1, <2>1, <3>2, BlueprintTaken DEF TakeTask, durable
  <2>2. CASE Head(developerBox).type # "architect_task"
    BY <1>0, <1>1, <2>2, LineRests DEF TakeTask, durable, Active
  <2> QED
    BY <2>1, <2>2
<1>2. CASE WorkRests
  <2>1. Active' => Active /\ line'.task = line.task
    BY <1>0, <1>2 DEF WorkRests, Active, Lines
  <2> QED
    BY <1>0, <1>2, <2>1, LineRests DEF WorkRests, boxes
<1>3. CASE TakeBatch
  <2>1. CASE Head(developerBox) = Batch(line.task, line.arrived + 1)
    <3>1. Active' => Active /\ line'.task = line.task
      BY <1>0, <1>3, <2>1 DEF TakeBatch, Active, Lines
    <3> QED
      BY <1>0, <1>3, <2>1, <3>1, LineRests DEF TakeBatch, durable
  <2>2. CASE Head(developerBox) # Batch(line.task, line.arrived + 1)
    <3>1. line'.pc = "closing" /\ Active /\ Tell("developer_blocked")
      BY <1>0, <1>3, <2>2 DEF TakeBatch, Conclude, Active, Lines
    <3> QED
      BY <1>0, <1>3, <3>1, LineTells DEF TakeBatch, durable
  <2> QED
    BY <2>1, <2>2
<1>4. CASE TakeCancel \/ TestAnswered \/ GiveUp \/ HumanStop \/ (Throw /\ line.arrived = 0)
  <2>1. line'.pc = "closing" /\ Active
    BY <1>0, <1>4 DEF TakeCancel, TestAnswered, GiveUp, HumanStop, Throw, Serving, Conclude, Active, Lines
  <2>2. Tell("developer_ready") \/ Tell("developer_blocked") \/ Tell("developer_failed")
    BY <1>4 DEF TakeCancel, TestAnswered, GiveUp, HumanStop, Throw
  <2>3. /\ developerBox' = developerBox \/ (developerBox # <<>> /\ developerBox' = Tail(developerBox))
        /\ UNCHANGED <<row, driver, managerBox, architectBox, split, maint, writing>>
    BY <1>4 DEF TakeCancel, TestAnswered, GiveUp, HumanStop, Throw, durable
  <2> QED
    BY <1>0, <2>1, <2>2, <2>3, LineTells
<1>5. CASE Throw /\ line.arrived # 0
  <2>1. ~Active'
    BY <1>0, <1>5 DEF Throw, Conclude, Active, Lines
  <2> QED
    BY <1>0, <1>5, <2>1, LineRests DEF Throw, durable
<1>6. CASE Park
  BY <1>0, <1>6, LineRests DEF Park, durable, Active
<1>7. CASE Pause
  <2>1. ~Active'
    BY <1>0, <1>7 DEF Pause, Active, Lines
  <2> QED
    BY <1>0, <1>7, <2>1, LineRests DEF Pause, boxes
<1>8. CASE CloseOut
  <2>1. ~Active'
    BY <1>0, <1>8 DEF CloseOut, Active, Idle
  <2> QED
    BY <1>0, <1>8, <2>1, LineRests DEF CloseOut
<1> QED
  BY <1>1, <1>2, <1>3, <1>4, <1>5, <1>6, <1>7, <1>8 DEF Developer

\* The course is begun by the first process and kept by every step.
LEMMA CourseKeeps ==
    ASSUME IInv, [Next]_vars
    PROVE  IInv'
<1>0. TypeInv /\ TypeInv'
  BY TypeKeeps DEF IInv
<1>1. CASE Start
  BY <1>0, <1>1, CourseBegins
<1>2. CASE Kill \/ Exit
  BY <1>0, <1>2, CourseEnds DEF Kill, Exit
<1>3. CASE TakeRequest
  BY <1>0, <1>3, CourseGoesOn
<1>4. CASE TakeStop \/ SettleFailed \/ Settle
  <2>1. Up /\ Up' /\ driver'.at = driver.at /\ UNCHANGED <<row, boxes, split, maint, writing, line>>
    BY <1>0, <1>4 DEF TakeStop, SettleFailed, Settle, Up, TypeInv, Drivers, durable, volatile
  <2> QED
    BY <1>0, <2>1, CourseStays
<1>5. CASE Maintainer
  BY <1>0, <1>5, MaintainerKeeps
<1>6. CASE Developer
  BY <1>0, <1>6, DeveloperKeeps
<1>7. ASSUME NEW p \in Phases, Retry(p) \/ Architect(p) PROVE IInv'
  BY <1>0, <1>7, RetryKeeps, PlanKeeps, DoneKeeps, DeclarationKeeps, SendingKeeps, SplitEndKeeps DEF Architect
<1>8. CASE UNCHANGED vars
  <2>1. CASE Up
    BY <1>0, <1>8, <2>1, CourseStays DEF vars, durable, volatile, boxes, Up
  <2>2. CASE ~Up
    BY <1>0, <1>8, <2>2 DEF IInv, vars, volatile, boxes, Up
  <2> QED
    BY <2>1, <2>2
<1> QED
  BY <1>1, <1>2, <1>3, <1>4, <1>5, <1>6, <1>7, <1>8 DEF Next, Driver

\* A process that was hasty is never unsaid.
LEMMA HasteStays ==
    ASSUME hasty \in BOOLEAN, [Next]_vars
    PROVE  hasty' \in BOOLEAN /\ (hasty => hasty')
<1>1. CASE Start \/ Kill \/ UNCHANGED vars
  BY <1>1 DEF Start, Kill, vars
<1>2. CASE Exit
  BY <1>2 DEF Exit
<1>3. CASE Driver
  BY <1>3 DEF Driver, TakeRequest, TakeStop, SettleFailed, Settle
<1>4. CASE Maintainer
  BY <1>4 DEF Maintainer, TakeDeclared, TakeTerminal, Write
<1>5. CASE Developer
  BY <1>5 DEF Developer, TakeTask, WorkRests, TakeBatch, TakeCancel, Park, TestAnswered, GiveUp, Throw,
             HumanStop, Pause, CloseOut
<1>6. ASSUME NEW p \in Phases, Retry(p) \/ Architect(p) PROVE hasty' = hasty
  BY <1>6 DEF Retry, Architect, TakePlan, TakePhaseDone, Declare, Reject, SendItem, FailSplit, SaveOutput
<1> QED
  BY <1>1, <1>2, <1>3, <1>4, <1>5, <1>6 DEF Next

\* How it begins, in facts.
LEMMA Begun ==
    ASSUME Init
    PROVE  /\ driver.pc = "off" /\ stop = "none" /\ line = Idle /\ runs = 0 /\ ~hasty /\ hasty \in BOOLEAN
           /\ developerBox = <<>> /\ maintainerBox = <<>>
           /\ \A p \in Phases : row[p] = "none" /\ ledger[p] = "none"
<1>1. stop = "none" /\ line = Idle /\ runs = 0 /\ developerBox = <<>> /\ maintainerBox = <<>>
      /\ row = [p \in Phases |-> "none"] /\ ledger = [p \in Phases |-> "none"]
      /\ driver = [pc |-> "off", at |-> 1, boundary |-> FALSE]
  BY Zenon DEF Init
<1>2. hasty = FALSE
  BY Zenon DEF Init
<1> QED
  BY <1>1, <1>2

\* Initially.
LEMMA CourseFirst ==
    ASSUME Init
    PROVE  IInv
<1>1. 1 \in Phases /\ <<>> \in Seq(Mail)
  BY PhaseRunConstants, EmptyBox DEF Phases
<1>2. row \in Rows /\ ledger \in Ledgers /\ driver \in Drivers /\ runs \in 0..MaxRuns
  BY <1>1, PhaseRunConstants DEF Init, Rows, Ledgers, Drivers
<1>3. split \in [Phases -> Stages] /\ \A p \in Phases : split[p].stage = "off"
  BY PhaseRunConstants DEF Init, Stages
<1>4. maint \in Fields /\ ~maint.final
  BY PhaseRunConstants DEF Init, Fields
<1>5. line \in Lines /\ line.pc = "idle"
  BY <1>1, PhaseRunConstants DEF Init, Idle, Lines
<1>6. TypeInv
  BY <1>1, <1>2, <1>3, <1>4, <1>5 DEF Init, TypeInv
<1> QED
  BY <1>5, <1>6 DEF Init, IInv, Up

\* The variables keep their types: there is never a write, a stage or a message of something else.
THEOREM PhaseTyped == Spec => []TypeOK
<1> DEFINE Inv == IInv /\ hasty \in BOOLEAN
<1>1. Init => Inv
  BY CourseFirst, Begun
<1>2. Inv /\ [Next]_vars => Inv'
  BY CourseKeeps, HasteStays
<1>3. Inv => TypeOK
  BY DEF IInv, TypeInv, TypeOK, Rows, Ledgers, Drivers, Stages, Fields, Writes, Lines
<1> QED
  BY <1>1, <1>2, <1>3, PTL DEF Spec

\* The course of a phase, in every state: this is what the theorems below rest on.
THEOREM PhaseCourse == Spec => []IInv
BY CourseFirst, CourseKeeps, PTL DEF Spec
-----------------------------------------------------------------------------
(* What has been sent *)

\* Both ledgers: a task has a ledger of the developer only if its blueprint was entered as sent,
\* and so has one that is in the box or that the line is at; the one in the box has none.
SentInv ==
    /\ \A q \in Phases : ledger[q] # "none" => <<q, 0>> \in dispatched
    /\ \A q \in Phases : Holds(developerBox, Blueprint(q)) => <<q, 0>> \in dispatched /\ ledger[q] = "none"
    /\ line.pc \notin {"idle", "dead"} => <<line.task, 0>> \in dispatched

\* Steps that leave the ledgers alone, bring no blueprint and begin no task.
LEMMA SentStays ==
    ASSUME SentInv, TypeInv, ledger' = ledger, dispatched \subseteq dispatched',
           line'.pc \notin {"idle", "dead"} => line.pc \notin {"idle", "dead"} /\ line'.task = line.task,
           \/ developerBox' = developerBox
           \/ developerBox # <<>> /\ developerBox' = Tail(developerBox)
           \/ \E m \in Mail : m.type # "architect_task" /\ developerBox' = Append(developerBox, m)
           \/ developerBox' = <<>>
    PROVE  SentInv'
<1>1. \A q \in Phases : Holds(developerBox', Blueprint(q)) => Holds(developerBox, Blueprint(q))
  BY NoNewBlueprint DEF TypeInv
<1> QED
  BY <1>1 DEF SentInv, Blueprint

\* The line's own steps.
LEMMA LineKeepsSent ==
    ASSUME IInv, SentInv, TypeInv', Developer
    PROVE  SentInv'
<1>0. line \in Lines /\ Up /\ TypeInv /\ Course /\ ledger \in Ledgers /\ developerBox \in Seq(Mail)
  BY DEF IInv, TypeInv, Developer, TakeTask, WorkRests, TakeBatch, TakeCancel, Park, TestAnswered,
         GiveUp, Throw, HumanStop, Pause, CloseOut
<1>1. CASE TakeTask
  <2>1. CASE Head(developerBox).type = "architect_task"
    <3>1. line' = [Idle EXCEPT !.pc = "working", !.task = Head(developerBox).phase]
      BY <1>1, <2>1 DEF TakeTask
    <3>2. line'.pc = "working" /\ line'.task = Head(developerBox).phase
      BY <3>1 DEF Idle
    <3>3. Head(developerBox) = Blueprint(driver.at)
      BY <1>0, <1>1, <2>1, <3>2, BlueprintTaken DEF TakeTask, durable
    <3>4. driver.at \in Phases /\ line'.task = driver.at
      BY <1>0, <3>2, <3>3 DEF TypeInv, Drivers, Blueprint, Message
    <3>5. Holds(developerBox, Blueprint(driver.at))
      BY <1>0, <1>1, <3>3, Taken DEF Holds, TakeTask
    <3>6. <<line'.task, 0>> \in dispatched
      BY <3>4, <3>5 DEF SentInv
    <3>7. \A q \in Phases : Holds(developerBox', Blueprint(q)) => Holds(developerBox, Blueprint(q))
      BY <1>0, <1>1, NoNewBlueprint DEF TakeTask
    <3> QED
      BY <1>1, <3>6, <3>7 DEF SentInv, TakeTask, durable, Blueprint
  <2>2. CASE Head(developerBox).type # "architect_task"
    BY <1>0, <1>1, <2>2, SentStays DEF TakeTask, durable
  <2> QED
    BY <2>1, <2>2
<1>2. CASE WorkRests \/ Pause
  <2>1. /\ Active /\ line.pc \notin {"idle", "dead"} /\ line'.task = line.task /\ line.task \in Phases
        /\ \E s \in {"open", "waiting_human"} : ledger' = [ledger EXCEPT ![line.task] = s]
        /\ UNCHANGED <<dispatched, developerBox>>
    BY <1>0, <1>2 DEF WorkRests, Pause, Serving, Active, Lines, boxes
  <2>2. \A q \in Phases : ~Holds(developerBox, Blueprint(q))
    BY <1>0, <2>1 DEF Course, Works
  <2>3. <<line.task, 0>> \in dispatched /\ \A q \in Phases : q # line.task => ledger'[q] = ledger[q]
    BY <1>0, <2>1 DEF SentInv, Ledgers
  <2> QED
    BY <2>1, <2>2, <2>3 DEF SentInv, Blueprint
<1>3. CASE TakeBatch
  <2>1. line.pc = "item" /\ line'.task = line.task
    BY <1>0, <1>3 DEF TakeBatch, Conclude, Lines
  <2> QED
    BY <1>0, <1>3, <2>1, SentStays DEF TakeBatch, durable
<1>4. CASE TakeCancel \/ TestAnswered \/ GiveUp \/ Throw \/ HumanStop
  <2>1. line.pc \notin {"idle", "dead"} /\ line'.task = line.task
    BY <1>0, <1>4 DEF TakeCancel, TestAnswered, GiveUp, Throw, HumanStop, Serving, Conclude, Lines
  <2> QED
    BY <1>0, <1>4, <2>1, SentStays DEF TakeCancel, TestAnswered, GiveUp, Throw, HumanStop, durable
<1>5. CASE Park
  BY <1>0, <1>5, SentStays DEF Park, durable
<1>6. CASE CloseOut
  <2>1. /\ line'.pc \in {"idle", "dead"} /\ ledger' = [ledger EXCEPT ![line.task] = line.verdict]
        /\ developerBox' = <<>> /\ dispatched' = dispatched /\ line.pc = "closing"
    BY <1>6 DEF CloseOut, Idle
  <2> QED
    BY <1>0, <2>1, EmptyHolds DEF SentInv, Ledgers, Blueprint
<1> QED
  BY <1>1, <1>2, <1>3, <1>4, <1>5, <1>6 DEF Developer

\* Every step.
LEMMA SentKeeps ==
    ASSUME IInv, SentInv, [Next]_vars
    PROVE  SentInv'
<1>0. TypeInv /\ TypeInv' /\ developerBox \in Seq(Mail)
  BY TypeKeeps DEF IInv, TypeInv
<1>1. ASSUME Off, ledger' = ledger, dispatched' = dispatched PROVE SentInv'
  BY <1>1, EmptyHolds DEF Off, Fresh, Idle, SentInv
<1>2. CASE Start
  <2>1. developerBox' = <<>> /\ line'.pc = "idle"
    BY <1>2 DEF Start, Fresh, Idle
  <2>2. \A q \in Phases : ledger'[q] # "none" => <<q, 0>> \in dispatched'
    BY <1>2 DEF Start, SentInv
  <2> QED
    BY <2>1, <2>2, EmptyHolds DEF SentInv
<1>3. CASE Kill \/ Exit
  BY <1>1, <1>3 DEF Kill, Exit
<1>4. CASE Driver \/ Maintainer \/ UNCHANGED vars
  <2>1. UNCHANGED <<ledger, dispatched, line, developerBox>>
    BY <1>4 DEF Driver, TakeRequest, TakeStop, SettleFailed, Settle, Maintainer, Write, TakeDeclared, TakeTerminal,
                vars, durable, volatile, boxes
  <2> QED
    BY <1>0, <2>1, SentStays
<1>5. CASE Developer
  BY <1>0, <1>5, LineKeepsSent
<1>6. ASSUME NEW p \in Phases, Retry(p) \/ TakePlan(p) \/ TakePhaseDone(p) \/ Declare(p) \/ Reject(p) \/ SaveOutput(p)
      PROVE  SentInv'
  <2>1. UNCHANGED <<ledger, dispatched, line, developerBox>>
    BY <1>6 DEF Retry, TakePlan, TakePhaseDone, Declare, Reject, SaveOutput, durable, volatile, boxes
  <2> QED
    BY <1>0, <2>1, SentStays
<1>7. ASSUME NEW p \in Phases, FailSplit(p) PROVE SentInv'
  <2>1. ledger' = ledger /\ dispatched' = dispatched
    BY <1>7 DEF FailSplit
  <2>2. CASE ~Off
    <3>1. line' = line /\ (developerBox' = developerBox \/ developerBox' = Append(developerBox, Message("cancel_task", p)))
      BY <1>7, <2>2 DEF FailSplit
    <3>2. Message("cancel_task", p) \in Mail /\ Message("cancel_task", p).type # "architect_task"
      BY Words DEF Kinds, Message
    <3> QED
      BY <1>0, <2>1, <3>1, <3>2, SentStays
  <2> QED
    BY <1>1, <2>1, <2>2
<1>8. ASSUME NEW p \in Phases, SendItem(p) PROVE SentInv'
  <2>1. UNCHANGED <<ledger, line>> /\ dispatched' = dispatched \cup {<<p, split[p].item>>}
    BY <1>8 DEF SendItem
  <2>2. CASE <<p, split[p].item>> \in dispatched
    BY <1>0, <1>8, <2>1, <2>2, SentStays DEF SendItem
  <2>3. CASE <<p, split[p].item>> \notin dispatched /\ split[p].item # 0
    <3>1. Batch(p, split[p].item) \in Mail /\ Batch(p, split[p].item).type # "architect_task"
      <4>1. split[p].item \in Nat
        BY <1>0, PhaseRunConstants DEF TypeInv, Stages
      <4> QED
        BY <4>1, Words DEF Batch
    <3> QED
      BY <1>0, <1>8, <2>1, <2>3, <3>1, SentStays DEF SendItem
  <2>4. CASE <<p, 0>> \notin dispatched /\ split[p].item = 0
    <3>1. developerBox' = Append(developerBox, Blueprint(p)) /\ <<p, 0>> \in dispatched' /\ ledger[p] = "none"
      BY <1>8, <2>1, <2>4 DEF SendItem, Blueprint, SentInv
    <3>2. Blueprint(p) \in Mail /\ \A q \in Phases : Blueprint(q) = Blueprint(p) => q = p
      BY Words DEF Blueprint, Kinds, Message
    <3>3. \A q \in Phases : Holds(developerBox', Blueprint(q)) => Holds(developerBox, Blueprint(q)) \/ q = p
      <4> SUFFICES ASSUME NEW q \in Phases, Holds(Append(developerBox, Blueprint(p)), Blueprint(q))
                   PROVE  Holds(developerBox, Blueprint(q)) \/ q = p
        BY <3>1
      <4> QED
        BY <1>0, <3>2, PutHolds
    <3> QED
      BY <2>1, <3>1, <3>3 DEF SentInv, Blueprint
  <2> QED
    BY <2>2, <2>3, <2>4
<1> QED
  BY <1>2, <1>3, <1>4, <1>5, <1>6, <1>7, <1>8 DEF Next, Architect

\* A task that arrives at the developer is one it has no ledger of (TasksArriveFresh), whatever fails and
\* however often the process is started again.
THEOREM TasksFresh == Spec => []TasksArriveFresh
<1> DEFINE Inv == IInv /\ SentInv
<1>1. Init => Inv
  BY CourseFirst, Begun, EmptyHolds DEF SentInv, Idle
<1>2. Inv /\ [Next]_vars => Inv'
  BY CourseKeeps, SentKeeps
<1>3. Inv => TasksArriveFresh
  BY DEF SentInv, TasksArriveFresh, Blueprint
<1> QED
  BY <1>1, <1>2, <1>3, PTL DEF Spec
-----------------------------------------------------------------------------
(* What is in the database *)

\* No plan is refused and no write of a row fails.
Reliable == {"reject", "lostWrite"} \cap Faults = {}

\* What is recorded, with the two places a verdict is in on its way to the driver, and a project that
\* is done.
RecordedInv ==
    /\ EarlierPhasesRecorded
    /\ Up /\ Holds(architectBox, Message("phase_done", driver.at)) => Recorded(driver.at)
    /\ \A i \in 1..Len(maintainerBox) : maintainerBox[i].type # "nothing_declared"
    /\ DoneMeansAllReady

\* Nothing on this way is taken back while a process runs.
LEMMA RecordsStay ==
    ASSUME RecordedInv, TypeInv, Up, driver' = driver,
           \A q \in Phases : /\ Recorded(q) => Recorded(q)'
                             /\ Holds(managerBox', Message("phase_request", q)) => Recorded(q)'
                             /\ row[q] = "done" => row'[q] = "done",
           Holds(architectBox', Message("phase_done", driver.at)) => Recorded(driver.at)',
           status' = "done" => status = "done",
           \A i \in 1..Len(maintainerBox') : maintainerBox'[i].type # "nothing_declared"
    PROVE  RecordedInv'
<1>1. Up' /\ driver.at \in Phases
  BY DEF Up, TypeInv, Drivers
<1>2. EarlierPhasesRecorded'
  BY <1>1 DEF RecordedInv, EarlierPhasesRecorded
<1>3. DoneMeansAllReady'
  BY DEF RecordedInv, DoneMeansAllReady
<1> QED
  BY <1>1, <1>2, <1>3 DEF RecordedInv

\* Nor when a process ends.
LEMMA RecordsOutlive ==
    ASSUME RecordedInv, TypeInv, TypeInv', ~Up', managerBox' = <<>>, maintainerBox' = <<>>,
           \A q \in Phases : row[q] = "done" => row'[q] = "done",
           status' = status
    PROVE  RecordedInv'
<1>1. EarlierPhasesRecorded'
  BY EmptyHolds DEF EarlierPhasesRecorded, Up, TypeInv
<1>2. \A i \in 1..Len(maintainerBox') : maintainerBox'[i].type # "nothing_declared"
  BY EmptyBox
<1> QED
  BY <1>1, <1>2 DEF RecordedInv, DoneMeansAllReady

\* The driver goes on to a phase, or to the gate, when those before are recorded.
LEMMA DriverKeepsRecords ==
    ASSUME IInv, RecordedInv, TypeInv', Start \/ Driver
    PROVE  RecordedInv'
<1>0. TypeInv /\ driver \in Drivers /\ driver' \in Drivers /\ driver.at \in Phases /\ driver'.at \in Phases
      /\ Phases \subseteq Nat /\ row' = row /\ managerBox \in Seq(Mail) /\ architectBox \in Seq(Mail)
  BY DEF IInv, TypeInv, Drivers, Phases, Start, Driver, TakeRequest, TakeStop, SettleFailed, Settle, durable
<1>1. CASE Start
  <2>1. /\ managerBox' = <<>> /\ maintainerBox' = <<>> /\ status' = status
        /\ architectBox' = <<>> \/ architectBox' = <<Message("phase_plan", driver'.at)>>
    BY <1>1 DEF Start, Fresh
  <2>2. \A q \in Phases : q < driver'.at => Recorded(q)
    <3>1. CASE Open # {} /\ driver'.at = FirstOpen
      <4> SUFFICES ASSUME NEW q \in Phases, q < driver'.at, q \in Open PROVE FALSE
        BY DEF Open
      <4>1. driver'.at <= q /\ q \in Nat /\ driver'.at \in Nat
        BY <1>0, <3>1, FirstIsFirst
      <4> QED
        BY <4>1
    <3>2. CASE Open = {}
      BY <3>2 DEF Open
    <3> QED
      BY <1>1, <3>1, <3>2 DEF Start
  <2>3. driver'.pc = "gate" => \A q \in Phases : Recorded(q)
    BY <1>1 DEF Start, Open
  <2>4. ~Holds(architectBox', Message("phase_done", driver'.at))
    <3>1. Message("phase_plan", driver'.at) \in Mail /\ Message("phase_plan", driver'.at) # Message("phase_done", driver'.at)
      BY <1>0, Words DEF Kinds, Message
    <3> QED
      BY <2>1, <3>1, EmptyHolds, OneMessage DEF Holds
  <2>5. EarlierPhasesRecorded'
    BY <1>0, <2>1, <2>2, <2>3, EmptyHolds DEF EarlierPhasesRecorded, Recorded
  <2>6. DoneMeansAllReady' /\ \A i \in 1..Len(maintainerBox') : maintainerBox'[i].type # "nothing_declared"
    BY <1>0, <2>1, EmptyBox DEF RecordedInv, DoneMeansAllReady
  <2> QED
    BY <2>4, <2>5, <2>6 DEF RecordedInv
<1>2. CASE TakeRequest
  <2>1. /\ Up /\ managerBox # <<>> /\ managerBox' = Tail(managerBox)
        /\ UNCHANGED <<row, status, maintainerBox>>
    BY <1>0, <1>2 DEF TakeRequest, Up, durable
  <2>2. \A q \in Phases : Holds(managerBox', Message("phase_request", q)) => Recorded(q)
    <3> SUFFICES ASSUME NEW q \in Phases, Holds(Tail(managerBox), Message("phase_request", q)) PROVE Recorded(q)
      BY <2>1
    <3>1. Holds(managerBox, Message("phase_request", q))
      BY <1>0, <2>1, TakenHolds
    <3> QED
      BY <3>1 DEF RecordedInv, EarlierPhasesRecorded
  <2>3. \A q \in Phases : Recorded(q)' = Recorded(q)
    BY <2>1 DEF Recorded
  <2>4. DoneMeansAllReady' /\ \A i \in 1..Len(maintainerBox') : maintainerBox'[i].type # "nothing_declared"
    BY <2>1 DEF RecordedInv, DoneMeansAllReady
  <2>5. \A q \in Phases : q < driver.at => Recorded(q)
    BY <2>1 DEF RecordedInv, EarlierPhasesRecorded
  <2>6. CASE Head(managerBox) # Message("phase_request", driver.at)
    <3>1. driver' = driver /\ architectBox' = architectBox
      BY <1>2, <2>6 DEF TakeRequest
    <3> QED
      BY <1>0, <2>1, <2>2, <2>3, <2>4, <3>1, RecordsStay DEF RecordedInv
  <2>7. CASE Head(managerBox) = Message("phase_request", driver.at)
    <3>1. Requested /\ Course
      BY <1>0, <2>1, <2>7, Taken DEF Requested, Holds, IInv
    <3>2. Recorded(driver.at) /\ architectBox = <<>>
      BY <1>0, <3>1 DEF Course, Account, Quiet, Refused, Declared, Requested, RecordedInv, EarlierPhasesRecorded
    <3>3. driver.pc = "waiting"
      BY <1>2 DEF TakeRequest
    <3>4. CASE driver'.at = driver.at /\ architectBox' = architectBox
               /\ (driver'.pc = "gate" => driver.at = NumPhases)
      <4>1. driver'.pc = "gate" => \A q \in Phases : Recorded(q)
        BY <1>0, <2>5, <3>2, <3>4, PhaseRunConstants DEF Phases
      <4>2. EarlierPhasesRecorded'
        BY <2>2, <2>3, <2>5, <3>4, <4>1 DEF EarlierPhasesRecorded
      <4>3. ~Holds(architectBox', Message("phase_done", driver'.at))
        BY <3>2, <3>4, EmptyHolds
      <4> QED
        BY <2>4, <4>2, <4>3 DEF RecordedInv
    <3>5. CASE driver'.at = driver.at + 1 /\ driver'.pc = "waiting"
               /\ architectBox' = Append(architectBox, Message("phase_plan", driver.at + 1))
      <4>1. \A q \in Phases : q < driver'.at => Recorded(q)
        <5> SUFFICES ASSUME NEW q \in Phases, q < driver'.at PROVE Recorded(q)
          OBVIOUS
        <5>1. q \in Nat /\ driver.at \in Nat
          BY <1>0
        <5>2. q < driver.at \/ q = driver.at
          BY <3>5, <5>1
        <5> QED
          BY <2>5, <3>2, <5>2
      <4>2. EarlierPhasesRecorded'
        BY <2>2, <2>3, <3>5, <4>1 DEF EarlierPhasesRecorded
      <4>3. Message("phase_plan", driver'.at) \in Mail /\ Message("phase_plan", driver'.at) # Message("phase_done", driver'.at)
        BY <1>0, Words DEF Kinds, Message
      <4>4. ~Holds(<<Message("phase_plan", driver'.at)>>, Message("phase_done", driver'.at))
        BY <4>3, OneMessage DEF Holds
      <4>5. architectBox' = <<Message("phase_plan", driver'.at)>>
        BY <3>2, <3>5
      <4> QED
        BY <2>4, <4>2, <4>4, <4>5 DEF RecordedInv
    <3>6. \/ driver'.at = driver.at /\ architectBox' = architectBox /\ (driver'.pc = "gate" => driver.at = NumPhases)
          \/ driver'.at = driver.at + 1 /\ driver'.pc = "waiting"
             /\ architectBox' = Append(architectBox, Message("phase_plan", driver.at + 1))
      BY <1>0, <1>2, <2>7, <3>3 DEF TakeRequest, Drivers
    <3> QED
      BY <3>4, <3>5, <3>6
  <2> QED
    BY <2>6, <2>7
<1>3. CASE TakeStop \/ SettleFailed
  <2>1. Up /\ Up' /\ driver'.at = driver.at /\ driver'.pc # "gate" /\ (status' = "done" => status = "done")
        /\ UNCHANGED <<row, managerBox, architectBox, maintainerBox>>
    BY <1>0, <1>3 DEF TakeStop, SettleFailed, Up, Drivers, durable, volatile, boxes
  <2> QED
    BY <2>1 DEF RecordedInv, EarlierPhasesRecorded, DoneMeansAllReady, Recorded
<1>4. CASE Settle
  <2>1. Up /\ Up' /\ driver'.at = driver.at /\ driver'.pc # "gate" /\ driver.pc = "gate"
        /\ UNCHANGED <<row, managerBox, architectBox, maintainerBox>>
    BY <1>0, <1>4 DEF Settle, Up, Drivers, volatile, boxes
  <2>2. \A q \in Phases : Recorded(q)
    BY <2>1 DEF RecordedInv, EarlierPhasesRecorded
  <2>3. PICK gate \in {"done", "failed", "blocked"} : status' = Decide(gate)
    BY <1>4 DEF Settle
  <2>4. status' = "done" => \A q \in Phases : row[q] # "failed"
    BY <2>3 DEF Decide
  <2>5. DoneMeansAllReady'
    BY <2>1, <2>2, <2>4 DEF DoneMeansAllReady, Recorded, Concluded
  <2> QED
    BY <2>1, <2>5 DEF RecordedInv, EarlierPhasesRecorded, Recorded
<1> QED
  BY <1>1, <1>2, <1>3, <1>4 DEF Driver

\* The architect passes on what the maintainer reported.
LEMMA ArchitectKeepsRecords ==
    ASSUME IInv, RecordedInv, Reliable, TypeInv', NEW p \in Phases, Architect(p), ~Off
    PROVE  RecordedInv'
<1>0. TypeInv /\ Course /\ Up /\ driver' = driver /\ driver.at \in Phases /\ row \in Rows
      /\ managerBox \in Seq(Mail) /\ architectBox \in Seq(Mail) /\ maintainerBox \in Seq(Mail)
  BY DEF IInv, TypeInv, Drivers, Architect, TakePlan, TakePhaseDone, Declare, Reject, SendItem, FailSplit, SaveOutput, Off
<1>1. \A q \in Phases : (Recorded(q) => Recorded(q)') /\ (row[q] = "done" => row'[q] = "done")
  <2>1. CASE Declare(p)
    BY <1>0, <2>1 DEF Declare, Rows, Recorded, Concluded
  <2>2. CASE row' = row
    BY <2>2 DEF Recorded
  <2> QED
    BY <2>1, <2>2 DEF Architect, TakePlan, TakePhaseDone, Reject, SendItem, FailSplit, SaveOutput, durable
<1>2. \A q \in Phases : Holds(managerBox, Message("phase_request", q)) => Recorded(q)
  BY DEF RecordedInv, EarlierPhasesRecorded
<1>3. Holds(architectBox, Message("phase_done", driver.at)) => Recorded(driver.at)
  BY <1>0 DEF RecordedInv
<1>4. \A q \in Phases : Holds(managerBox', Message("phase_request", q)) => Recorded(q)
  <2> SUFFICES ASSUME NEW q \in Phases, Holds(managerBox', Message("phase_request", q)) PROVE Recorded(q)
    OBVIOUS
  <2>1. CASE managerBox' = managerBox
    BY <1>2, <2>1
  <2>2. CASE FailSplit(p) /\ managerBox' = Append(managerBox, Message("architect_dispatch_failed", p))
    <3>1. Message("architect_dispatch_failed", p) \in Mail
          /\ Message("architect_dispatch_failed", p) # Message("phase_request", q)
      BY Words DEF Kinds, Message
    <3>2. Holds(managerBox, Message("phase_request", q))
      BY <1>0, <2>2, <3>1, PutHolds
    <3> QED
      BY <1>2, <3>2
  <2>3. CASE TakePhaseDone(p)
    <3>1. /\ architectBox # <<>> /\ Head(architectBox) = Message("phase_done", p)
          /\ managerBox' = Append(managerBox, Message("phase_request", p))
      BY <2>3 DEF TakePhaseDone
    <3>2. Holds(architectBox, Message("phase_done", p)) /\ architectBox[1] = Message("phase_done", p)
      BY <1>0, <3>1, Taken DEF Holds
    <3>3. architectBox[1] \in {Message("phase_plan", driver.at), Message("phase_done", driver.at)}
      BY <1>0, <3>1 DEF Course, Account, Quiet, Refused, Declared
    <3>4. p = driver.at
      BY <3>2, <3>3 DEF Message
    <3>5. Message("phase_request", p) \in Mail /\ (Message("phase_request", q) = Message("phase_request", p) => q = p)
      BY Words DEF Kinds, Message
    <3>6. Holds(managerBox, Message("phase_request", q)) \/ q = p
      BY <1>0, <3>1, <3>5, PutHolds
    <3> QED
      BY <1>2, <1>3, <3>2, <3>4, <3>6
  <2> QED
    BY <2>1, <2>2, <2>3 DEF Architect, TakePlan, Declare, Reject, SendItem, FailSplit, SaveOutput, boxes
<1>5. Holds(architectBox', Message("phase_done", driver.at)) => Recorded(driver.at)
  <2>1. CASE architectBox' = architectBox
    BY <1>3, <2>1
  <2>2. CASE architectBox # <<>> /\ architectBox' = Tail(architectBox)
    BY <1>0, <1>3, <2>2, TakenHolds
  <2> QED
    BY <2>1, <2>2 DEF Architect, TakePlan, TakePhaseDone, Declare, Reject, SendItem, FailSplit, SaveOutput, boxes
<1>6. \A i \in 1..Len(maintainerBox') : maintainerBox'[i].type # "nothing_declared"
  <2>1. CASE maintainerBox' = maintainerBox
    BY <2>1 DEF RecordedInv
  <2>2. CASE maintainerBox' = Append(maintainerBox, Message("tasks_declared", p))
    <3>1. Message("tasks_declared", p) \in Mail /\ Message("tasks_declared", p).type # "nothing_declared"
      BY Words DEF Kinds, Message
    <3>2. /\ Len(maintainerBox) \in Nat /\ Len(maintainerBox') = Len(maintainerBox) + 1
          /\ \A i \in 1..Len(maintainerBox) : maintainerBox'[i] = maintainerBox[i]
          /\ maintainerBox'[Len(maintainerBox) + 1] = Message("tasks_declared", p)
      BY <1>0, <2>2, <3>1, Put
    <3> QED
      BY <3>1, <3>2 DEF RecordedInv
  <2>3. ~Reject(p)
    BY DEF Reject, Reliable
  <2> QED
    BY <2>1, <2>2, <2>3 DEF Architect, TakePlan, TakePhaseDone, Declare, SendItem, FailSplit, SaveOutput, boxes
<1>7. status' = "done" => status = "done"
  BY DEF Architect, TakePlan, TakePhaseDone, Declare, Reject, SendItem, FailSplit, SaveOutput, durable
<1> QED
  BY <1>0, <1>1, <1>4, <1>5, <1>6, <1>7, RecordsStay

\* The maintainer reports a phase when the row has its verdict.
LEMMA MaintainerKeepsRecords ==
    ASSUME IInv, RecordedInv, Reliable, TypeInv', Maintainer
    PROVE  RecordedInv'
<1>0. TypeInv /\ Course /\ Up /\ driver' = driver /\ driver.at \in Phases /\ row \in Rows
      /\ architectBox \in Seq(Mail) /\ maintainerBox \in Seq(Mail) /\ managerBox' = managerBox /\ status' = status
  BY DEF IInv, TypeInv, Drivers, Maintainer, TakeDeclared, TakeTerminal, Write, durable
<1>1. \A q \in Phases : (Recorded(q) => Recorded(q)') /\ (row[q] = "done" => row'[q] = "done")
  <2>1. CASE Write
    BY <1>0, <2>1, RowsKept DEF Write, Attempts, Recorded, TypeInv
  <2> QED
    BY <2>1 DEF Maintainer, TakeDeclared, TakeTerminal, Recorded, durable
<1>2. \A i \in 1..Len(maintainerBox') : maintainerBox'[i].type # "nothing_declared"
  <2>1. CASE maintainerBox' = maintainerBox
    BY <2>1 DEF RecordedInv
  <2>2. CASE maintainerBox # <<>> /\ maintainerBox' = Tail(maintainerBox)
    <3>1. /\ Len(maintainerBox) \in Nat /\ Len(maintainerBox') = Len(maintainerBox) - 1
          /\ \A i \in 1..(Len(maintainerBox) - 1) : maintainerBox'[i] = maintainerBox[i + 1]
      BY <1>0, <2>2, Taken
    <3>2. \A i \in 1..Len(maintainerBox') : i + 1 \in 1..Len(maintainerBox) /\ maintainerBox'[i] = maintainerBox[i + 1]
      BY <3>1
    <3> QED
      BY <3>2 DEF RecordedInv
  <2> QED
    BY <2>1, <2>2 DEF Maintainer, TakeDeclared, TakeTerminal, Write
<1>3. ~Refused
  <2>1. Refused => 1 \in 1..Len(maintainerBox) /\ maintainerBox[1].type = "nothing_declared"
    BY DEF Refused, Message
  <2> QED
    BY <2>1 DEF RecordedInv
<1>4. Holds(architectBox', Message("phase_done", driver.at)) => Recorded(driver.at)'
  <2>1. CASE architectBox' = architectBox
    BY <1>0, <1>1, <2>1 DEF RecordedInv
  <2>2. ASSUME NEW p \in Phases, TakeDeclared(p) PROVE architectBox' = architectBox
    <3>1. /\ maintainerBox # <<>> /\ Head(maintainerBox) = maintainerBox[1] /\ Len(maintainerBox) \in Nat
          /\ maintainerBox[1] \in {Message("tasks_declared", p), Message("nothing_declared", p)}
      BY <1>0, <2>2, Taken DEF TakeDeclared
    <3>2. ~Quiet /\ ~Booked1
      BY <3>1 DEF Quiet, Booked1
    <3>3. ~Awaited
      <4>1. Awaited => IsTerminal(maintainerBox[1])
        BY <1>0, <3>1, EmptyBox DEF Awaited
      <4> QED
        BY <3>1, <4>1 DEF IsTerminal, Message
    <3>4. Told
      BY <1>0, <1>3, <3>2, <3>3 DEF Course, Account, Declared
    <3>5. Head(maintainerBox).type = "tasks_declared" /\ maint.terminals = {}
      BY <3>1, <3>4 DEF Told, Message, Blank
    <3> DEFINE m == [maint EXCEPT !.phase = p, !.final = TRUE,
                         !.declared = IF Head(maintainerBox).type = "tasks_declared"
                                      THEN @ \cup {p} ELSE @]
    <3>6. p \in m.declared /\ m.terminals = {}
      BY <1>0, <3>5 DEF TypeInv, Fields
    <3>7. Converge(m)
      BY <2>2 DEF TakeDeclared
    <3> HIDE DEF m
    <3> QED
      BY <3>6, <3>7 DEF Converge
  <2>3. CASE Write
    <3>1. writing # {}
      BY <2>3 DEF Write
    <3>2. Declared /\ Booking
      BY <1>0, <3>1 DEF Course, Account, Declared, Quiet, Refused, Told, Awaited, Booked1, Blank, Known
    <3>3. PICK v \in Concluded : writing = {[phase |-> driver.at, under |-> driver.at, verdict |-> v]}
      BY <3>2 DEF Booking
    <3>4. row' = RowsAfter(writing)
      BY <2>3 DEF Write, Attempts, Reliable
    <3>5. row[driver.at] # "none"
      BY <3>2 DEF Declared
    <3>6. Recorded(driver.at)'
      BY <1>0, <3>3, <3>4, <3>5, Booked DEF Recorded
    <3> QED
      BY <3>6
  <2> QED
    BY <2>1, <2>2, <2>3 DEF Maintainer, TakeTerminal
<1>5. \A q \in Phases : Holds(managerBox', Message("phase_request", q)) => Recorded(q)
  BY <1>0 DEF RecordedInv, EarlierPhasesRecorded
<1> QED
  BY <1>0, <1>1, <1>2, <1>4, <1>5, RecordsStay

\* Every step.
LEMMA RecordsKeep ==
    ASSUME IInv, RecordedInv, Reliable, [Next]_vars
    PROVE  RecordedInv'
<1>0. TypeInv /\ TypeInv' /\ row \in Rows
  BY TypeKeeps DEF IInv, TypeInv
<1>1. CASE Start \/ Driver
  BY <1>0, <1>1, DriverKeepsRecords
<1>2. CASE Maintainer
  BY <1>0, <1>2, MaintainerKeepsRecords
<1>3. CASE Developer
  <2>1. /\ Up /\ UNCHANGED <<row, status, driver, managerBox, architectBox>>
        /\ maintainerBox' = maintainerBox
           \/ \E t \in {"developer_ready", "developer_blocked", "developer_failed"} :
                  maintainerBox' = Append(maintainerBox, Message(t, line.task))
    BY <1>3 DEF Developer, TakeTask, WorkRests, TakeBatch, TakeCancel, Park, TestAnswered,
                GiveUp, Throw, HumanStop, Pause, CloseOut, Tell, durable, boxes
  <2>2. \A i \in 1..Len(maintainerBox') : maintainerBox'[i].type # "nothing_declared"
    <3>1. CASE maintainerBox' = maintainerBox
      BY <3>1 DEF RecordedInv
    <3>2. ASSUME NEW t \in {"developer_ready", "developer_blocked", "developer_failed"},
                 maintainerBox' = Append(maintainerBox, Message(t, line.task))
          PROVE  \A i \in 1..Len(maintainerBox') : maintainerBox'[i].type # "nothing_declared"
      <4>1. line.task \in Phases /\ maintainerBox \in Seq(Mail)
        BY <1>0 DEF TypeInv, Lines
      <4>2. Message(t, line.task) \in Mail /\ Message(t, line.task).type # "nothing_declared"
        BY <4>1, Words DEF Kinds, Message
      <4>3. /\ Len(maintainerBox) \in Nat /\ Len(maintainerBox') = Len(maintainerBox) + 1
            /\ \A i \in 1..Len(maintainerBox) : maintainerBox'[i] = maintainerBox[i]
            /\ maintainerBox'[Len(maintainerBox) + 1] = Message(t, line.task)
        BY <3>2, <4>1, <4>2, Put
      <4> QED
        BY <4>2, <4>3 DEF RecordedInv
    <3> QED
      BY <2>1, <3>1, <3>2
  <2>3. \A q \in Phases : Holds(managerBox, Message("phase_request", q)) => Recorded(q)
    BY DEF RecordedInv, EarlierPhasesRecorded
  <2>4. \A q \in Phases : Recorded(q)' = Recorded(q)
    BY <2>1 DEF Recorded
  <2>5. driver.at \in Phases
    BY <1>0 DEF TypeInv, Drivers
  <2> QED
    BY <1>0, <2>1, <2>2, <2>3, <2>4, <2>5, RecordsStay DEF RecordedInv
<1>4. ASSUME Off, \E w \in SUBSET writing : row' = RowsAfter(w), status' = status PROVE RecordedInv'
  <2>1. ~Up' /\ managerBox' = <<>> /\ maintainerBox' = <<>>
    BY <1>0, <1>4 DEF Off, Fresh, Up, TypeInv, Drivers
  <2>2. \A q \in Phases : row[q] = "done" => row'[q] = "done"
    BY <1>0, <1>4, RowsKept DEF TypeInv
  <2> QED
    BY <1>0, <1>4, <2>1, <2>2, RecordsOutlive
<1>5. CASE Kill \/ Exit
  BY <1>4, <1>5 DEF Kill, Exit
<1>6. ASSUME NEW p \in Phases, Retry(p) PROVE RecordedInv'
  <2>1. ~Up' /\ managerBox' = <<>> /\ status' = "executing" /\ maintainerBox' = maintainerBox
    BY <1>6 DEF Retry, IInv, Up, volatile, boxes
  <2>2. EarlierPhasesRecorded'
    BY <2>1, EmptyHolds DEF EarlierPhasesRecorded, Up
  <2> QED
    BY <2>1, <2>2 DEF RecordedInv, DoneMeansAllReady
<1>7. ASSUME NEW p \in Phases, Architect(p) PROVE RecordedInv'
  <2>1. CASE Off
    <3>1. FailSplit(p) \/ ~Up'
      BY <1>0, <2>1 DEF Off, Up, TypeInv, Drivers
    <3>2. CASE FailSplit(p) /\ \E w \in SUBSET writing : row' = RowsAfter(w)
      BY <1>4, <2>1, <3>2 DEF FailSplit
    <3>3. CASE ~(FailSplit(p) /\ \E w \in SUBSET writing : row' = RowsAfter(w))
      <4>1. driver' = driver /\ Up
        BY <1>7, <3>3 DEF Architect, TakePlan, TakePhaseDone, Declare, Reject, SendItem, FailSplit, SaveOutput
      <4>2. FALSE
        BY <1>0, <2>1, <4>1 DEF Off, Up, TypeInv, Drivers
      <4> QED
        BY <4>2
    <3> QED
      BY <3>2, <3>3
  <2>2. CASE ~Off
    BY <1>0, <1>7, <2>2, ArchitectKeepsRecords
  <2> QED
    BY <2>1, <2>2
<1>8. CASE UNCHANGED vars
  BY <1>8 DEF vars, durable, volatile, boxes, RecordedInv, EarlierPhasesRecorded, DoneMeansAllReady, Recorded, Up
<1> QED
  BY <1>1, <1>2, <1>3, <1>5, <1>6, <1>7, <1>8 DEF Next

\* Initially.
LEMMA RecordsFirst ==
    ASSUME Init
    PROVE  RecordedInv
BY EmptyHolds, EmptyBox DEF Init, RecordedInv, EarlierPhasesRecorded, DoneMeansAllReady, Up

\* If no plan is refused and no write of a row is lost, then behind the driver, and wherever a next phase
\* is being requested, the verdict is in the database (EarlierPhasesRecorded), whatever else fails.
THEOREM PhasesRecorded == Reliable => (Spec => []EarlierPhasesRecorded)
<1> SUFFICES ASSUME Reliable PROVE Spec => []EarlierPhasesRecorded
  OBVIOUS
<1> DEFINE Inv == IInv /\ RecordedInv
<1>1. Init => Inv
  BY CourseFirst, RecordsFirst
<1>2. Inv /\ [Next]_vars => Inv'
  BY CourseKeeps, RecordsKeep
<1>3. Inv => EarlierPhasesRecorded
  BY DEF RecordedInv
<1> QED
  BY <1>1, <1>2, <1>3, PTL DEF Spec

\* Under the same conditions a project that is done has every phase ready (DoneMeansAllReady).
THEOREM DoneIsReady == Reliable => (Spec => []DoneMeansAllReady)
<1> SUFFICES ASSUME Reliable PROVE Spec => []DoneMeansAllReady
  OBVIOUS
<1> DEFINE Inv == IInv /\ RecordedInv
<1>1. Init => Inv
  BY CourseFirst, RecordsFirst
<1>2. Inv /\ [Next]_vars => Inv'
  BY CourseKeeps, RecordsKeep
<1>3. Inv => DoneMeansAllReady
  BY DEF RecordedInv
<1> QED
  BY <1>1, <1>2, <1>3, PTL DEF Spec
-----------------------------------------------------------------------------
(* What a project that has ended leaves behind *)

\* No process is killed, no split and no write of a row fails, no failed task is taken up again.
Calm == {"kill", "throw", "lostWrite", "retry"} \cap Faults = {}

\* The task at hand has been begun, and its verdict is not in its row yet.
Settled == \E i \in 1..Len(maintainerBox) : IsTerminal(maintainerBox[i])
Doing   == Active \/ Holds(developerBox, Blueprint(driver.at)) \/ Settled \/ writing # {}

\* A task is given up, and the maintainer is told or has it in hand.
GivenUp(q) == ledger[q] = "blocked" \/ (line.pc = "closing" /\ line.verdict = "blocked" /\ line.task = q)
Heard      == Holds(maintainerBox, Message("developer_blocked", driver.at))
OnItsWay   == Heard \/ writing = {[phase |-> driver.at, under |-> driver.at, verdict |-> "failed"]}

\* Nothing will come to be done.
Still == Blank /\ maintainerBox = <<>> /\ architectBox = <<>> /\ split[driver.at].stage # "planning"

\* What is recorded has been sent; the line ends with the stop signal; and what has been given up is on its
\* way to its row, as long as a process runs, which leaves when there is nothing on its way but a write.
EndInv ==
    /\ \A q \in Phases : Recorded(q) => <<q, 0>> \in dispatched
    /\ stop # "none" => line.pc = "dead"
    /\ stop = "paused" => ~Heard
    /\ Up => /\ Doing => ~Recorded(driver.at) /\ <<driver.at, 0>> \in dispatched
             /\ \A q \in Phases : GivenUp(q) => row[q] = "failed" \/ (q = driver.at /\ OnItsWay)
             /\ driver.pc = "draining" => stop # "none"
             /\ driver.pc \in {"gate", "leaving"} => ~Heard /\ (stop # "none" \/ Still)
    /\ ~Up => \A q \in Phases : ledger[q] = "blocked" => row[q] = "failed"

\* A message stays in its box when another is taken, and when one is put.
LEMMA HoldsStays ==
    ASSUME NEW S, NEW s \in Seq(S), NEW m, Holds(s, m)
    PROVE  /\ s # <<>> /\ Head(s) # m => Holds(Tail(s), m)
           /\ \A x \in S : Holds(Append(s, x), m)
<1>1. PICK i \in 1..Len(s) : s[i] = m
  BY DEF Holds
<1>2. ASSUME s # <<>>, Head(s) # m PROVE Holds(Tail(s), m)
  <2>1. /\ Len(s) \in Nat /\ Len(Tail(s)) = Len(s) - 1 /\ s[1] # m
        /\ \A j \in 1..(Len(s) - 1) : Tail(s)[j] = s[j + 1]
    BY <1>2, Taken
  <2>2. i # 1
    BY <1>1, <2>1
  <2>3. i - 1 \in 1..(Len(s) - 1) /\ (i - 1) + 1 = i
    BY <2>1, <2>2
  <2>4. Tail(s)[i - 1] = m
    BY <1>1, <2>1, <2>3
  <2> QED
    BY <2>1, <2>3, <2>4 DEF Holds
<1>3. ASSUME NEW x \in S PROVE Holds(Append(s, x), m)
  <2>1. /\ Len(s) \in Nat /\ Len(Append(s, x)) = Len(s) + 1
        /\ \A j \in 1..Len(s) : Append(s, x)[j] = s[j]
    BY Put
  <2>2. i \in 1..Len(Append(s, x)) /\ Append(s, x)[i] = m
    BY <1>1, <2>1
  <2> QED
    BY <2>2 DEF Holds
<1> QED
  BY <1>2, <1>3

\* What is put is in the box.
LEMMA PutIsHeld ==
    ASSUME NEW S, NEW s \in Seq(S), NEW m \in S
    PROVE  Holds(Append(s, m), m)
BY Put DEF Holds

\* A write of the row of its phase lands there and nowhere else.
LEMMA Landed ==
    ASSUME row \in Rows, NEW p \in Phases, NEW v \in Concluded, row[p] \notin {"none", "done"}
    PROVE  /\ RowsAfter({[phase |-> p, under |-> p, verdict |-> v]})[p] = v
           /\ \A q \in Phases : q # p => RowsAfter({[phase |-> p, under |-> p, verdict |-> v]})[q] = row[q]
<1> DEFINE w == {[phase |-> p, under |-> p, verdict |-> v]}
           c == CHOOSE x \in w : x.phase = p /\ x.under = p
<1>1. \E x \in w : x.phase = p /\ x.under = p
  OBVIOUS
<1>2. c \in w
  BY <1>1
<1>3. c.verdict = v
  BY <1>2
<1>4. \A q \in Phases : q # p => ~\E x \in w : x.phase = q /\ x.under = q
  OBVIOUS
<1> QED
  BY <1>1, <1>3, <1>4 DEF RowsAfter, Concluded

\* While there is work, nothing is told and nothing is written.
LEMMA WorkIsUntold ==
    ASSUME IInv, Up, AtWork
    PROVE  ~Settled /\ ~Heard /\ writing = {} /\ ~Still
<1>1. Declared /\ ((Told /\ Len(maintainerBox) = 1) \/ (Awaited /\ Len(maintainerBox) = 0))
  BY DEF IInv, Course, Account, Quiet, Refused, Declared, Told, Awaited, Booked1
<1>2. CASE Told /\ Len(maintainerBox) = 1
  <2>1. \A i \in 1..Len(maintainerBox) : maintainerBox[i] = Message("tasks_declared", driver.at)
    BY <1>2 DEF Told
  <2>2. \A i \in 1..Len(maintainerBox) : maintainerBox[i].type = "tasks_declared"
    BY <2>1 DEF Message
  <2> QED
    BY <1>2, <2>2, EmptyBox DEF Settled, Heard, Holds, IsTerminal, Message, Told, Blank, Still, IInv, TypeInv
<1>3. CASE Awaited /\ Len(maintainerBox) = 0
  BY <1>3 DEF Settled, Heard, Holds, Awaited, Known, Still, Blank
<1> QED
  BY <1>1, <1>2, <1>3

\* The account when a write is awaited: it is the verdict of the task at hand.
LEMMA WriteLands ==
    ASSUME IInv, EndInv, Up, writing # {}
    PROVE  /\ maintainerBox = <<>> /\ ~AtWork /\ ~Still /\ driver.at \in Phases
           /\ <<driver.at, 0>> \in dispatched /\ ~Recorded(driver.at)
           /\ \E v \in Concluded :
                  /\ writing = {[phase |-> driver.at, under |-> driver.at, verdict |-> v]}
                  /\ RowsAfter(writing)[driver.at] = v
           /\ \A q \in Phases : q # driver.at => RowsAfter(writing)[q] = row[q]
<1>0. driver.at \in Phases /\ row \in Rows
  BY DEF IInv, TypeInv, Drivers
<1>1. Declared /\ Booked1 /\ ~Still
  BY DEF IInv, Course, Account, Declared, Quiet, Refused, Told, Awaited, Blank, Known, Still
<1>2. <<driver.at, 0>> \in dispatched /\ ~Recorded(driver.at)
  BY DEF EndInv, Doing
<1>3. row[driver.at] \notin {"none", "done"}
  BY <1>1, <1>2 DEF Declared, Recorded, Concluded
<1>4. PICK v \in Concluded : writing = {[phase |-> driver.at, under |-> driver.at, verdict |-> v]}
  BY <1>1 DEF Booked1, Booking
<1>5. RowsAfter(writing)[driver.at] = v /\ \A q \in Phases : q # driver.at => RowsAfter(writing)[q] = row[q]
  <2> DEFINE w == {[phase |-> driver.at, under |-> driver.at, verdict |-> v]}
  <2>1. writing = w
    BY <1>4
  <2>2. RowsAfter(w)[driver.at] = v /\ \A q \in Phases : q # driver.at => RowsAfter(w)[q] = row[q]
    <3>1. \A u \in Concluded :
              /\ RowsAfter({[phase |-> driver.at, under |-> driver.at, verdict |-> u]})[driver.at] = u
              /\ \A q \in Phases : q # driver.at =>
                     RowsAfter({[phase |-> driver.at, under |-> driver.at, verdict |-> u]})[q] = row[q]
      BY <1>0, <1>3, Landed, Zenon
    <3> QED
      BY <1>4, <3>1
  <2> HIDE DEF w
  <2> QED
    BY <2>1, <2>2
<1> QED
  BY <1>0, <1>1, <1>2, <1>4, <1>5 DEF Booked1

\* Steps of a process that give nothing up and unsay nothing.
LEMMA EndStays ==
    ASSUME EndInv, Up, driver' = driver, dispatched \subseteq dispatched',
           \A q \in Phases : /\ row'[q] \in Concluded => row'[q] = row[q]
                             /\ row[q] = "failed" => row'[q] = "failed"
                             /\ GivenUp(q)' => GivenUp(q),
           stop' # "none" => line'.pc = "dead", stop' = "paused" => ~Heard', stop # "none" => stop' # "none",
           Doing' => ~Recorded(driver.at)' /\ <<driver.at, 0>> \in dispatched',
           OnItsWay => OnItsWay', Heard' => Heard,
           driver.pc \in {"gate", "leaving"} /\ stop' = "none" => Still'
    PROVE  EndInv'
<1>1. Up'
  BY DEF Up
<1>2. \A q \in Phases : Recorded(q)' => <<q, 0>> \in dispatched'
  BY DEF EndInv, Recorded
<1>3. \A q \in Phases : GivenUp(q)' => row'[q] = "failed" \/ (q = driver'.at /\ OnItsWay')
  BY DEF EndInv
<1>4. (driver'.pc = "draining" => stop' # "none")
      /\ (driver'.pc \in {"gate", "leaving"} => ~Heard' /\ (stop' # "none" \/ Still'))
  BY DEF EndInv
<1> QED
  BY <1>1, <1>2, <1>3, <1>4 DEF EndInv

\* A process begins, or leaves.
LEMMA EndOfProcess ==
    ASSUME IInv, EndInv, Calm, TypeInv', Start \/ Exit, ~hasty'
    PROVE  EndInv'
<1>0. TypeInv /\ row \in Rows /\ driver' \in Drivers /\ driver'.at \in Phases
  BY DEF IInv, TypeInv, Drivers
<1>1. /\ maintainerBox' = <<>> /\ stop' = "none" /\ line'.pc = "idle" /\ ~Heard' /\ ~Settled'
      /\ Blank' /\ (driver'.at \in Phases => split'[driver'.at].stage = "off") /\ developerBox' = <<>>
  BY EmptyHolds, EmptyBox DEF Start, Exit, Off, Fresh, Idle, Heard, Settled, Blank
<1>2. CASE Start
  <2>1. /\ ~Up /\ Up' /\ row' = row /\ driver'.pc # "draining" /\ (driver'.pc = "gate" => architectBox' = <<>>)
        /\ driver'.pc # "leaving"
    BY <1>2 DEF Start, Up
  <2>2. ~Doing'
    BY <1>1, EmptyHolds DEF Doing, Active, Blank, Blueprint
  <2>3. \A q \in Phases : Recorded(q)' => <<q, 0>> \in dispatched'
    BY <1>2, <2>1 DEF Start, EndInv, Recorded, Concluded
  <2>4. \A q \in Phases : GivenUp(q)' => row'[q] = "failed"
    BY <1>1, <1>2, <2>1 DEF Start, EndInv, GivenUp
  <2>5. driver'.pc = "gate" => Still'
    BY <1>0, <1>1, <2>1 DEF Still
  <2> QED
    BY <1>1, <2>1, <2>2, <2>3, <2>4, <2>5 DEF EndInv
<1>3. CASE Exit
  <2>1. /\ Up /\ ~Up' /\ driver.pc = "leaving" /\ row' = RowsAfter(writing)
        /\ UNCHANGED <<dispatched, ledger>>
    <3>1. row' = RowsAfter(writing)
      BY <1>3 DEF Exit
    <3> QED
      BY <1>0, <1>3, <3>1 DEF Exit, Off, Up, TypeInv, Drivers
  <2>2. ~Heard
    BY <2>1 DEF EndInv
  <2>3. \A q \in Phases : ledger[q] = "blocked" =>
            row[q] = "failed" \/ (q = driver.at /\ writing = {[phase |-> driver.at, under |-> driver.at, verdict |-> "failed"]})
    BY <2>1, <2>2 DEF EndInv, GivenUp, OnItsWay
  <2>4. CASE writing = {}
    <3>1. \A q \in Phases : row'[q] = row[q]
      BY <2>1, <2>4 DEF RowsAfter
    <3> QED
      BY <1>1, <2>1, <2>3, <2>4, <3>1 DEF EndInv, Recorded
  <2>5. CASE writing # {}
    <3>1. PICK v \in Concluded :
              /\ writing = {[phase |-> driver.at, under |-> driver.at, verdict |-> v]}
              /\ row'[driver.at] = v
      BY <2>1, <2>5, WriteLands
    <3>2. /\ <<driver.at, 0>> \in dispatched /\ ~Recorded(driver.at)
          /\ \A q \in Phases : q # driver.at => row'[q] = row[q]
      BY <2>1, <2>5, WriteLands
    <3>3. \A q \in Phases : Recorded(q)' => <<q, 0>> \in dispatched'
      BY <2>1, <3>2 DEF EndInv, Recorded
    <3>4. row[driver.at] # "failed"
      BY <3>2 DEF Recorded, Concluded
    <3>5. writing = {[phase |-> driver.at, under |-> driver.at, verdict |-> "failed"]} => v = "failed"
      <4> DEFINE a == [phase |-> driver.at, under |-> driver.at, verdict |-> v]
                 b == [phase |-> driver.at, under |-> driver.at, verdict |-> "failed"]
      <4>1. {a} = {b} => a = b
        OBVIOUS
      <4>2. a = b => a.verdict = b.verdict
        OBVIOUS
      <4> QED
        BY <3>1, <4>1, <4>2
    <3>6. \A q \in Phases : ledger[q] = "blocked" => row'[q] = "failed"
      BY <2>3, <3>1, <3>2, <3>4, <3>5
    <3> QED
      BY <1>1, <2>1, <3>3, <3>6 DEF EndInv
  <2> QED
    BY <2>4, <2>5
<1> QED
  BY <1>2, <1>3

\* The driver goes on, to another phase, to the gate or away, when the account is closed or the line is dead.
LEMMA DriverKeepsEnds ==
    ASSUME IInv, EndInv, TypeInv', Driver, ~hasty'
    PROVE  EndInv'
<1>0. /\ TypeInv /\ Course /\ Up /\ Up' /\ driver \in Drivers /\ driver' \in Drivers /\ managerBox \in Seq(Mail)
      /\ UNCHANGED <<row, dispatched, ledger, maintainerBox, developerBox, split, maint, writing, line, stop>>
  BY DEF IInv, TypeInv, Drivers, Up, Driver, TakeRequest, TakeStop, SettleFailed, Settle, durable, volatile, boxes
<1>1. \A q \in Phases : GivenUp(q)' = GivenUp(q) /\ Recorded(q)' = Recorded(q)
  BY <1>0 DEF GivenUp, Recorded
<1>2. CASE TakeRequest /\ Head(managerBox) = Message("phase_request", driver.at)
  <2>1. Requested
    BY <1>0, <1>2, Taken DEF TakeRequest, Requested, Holds
  <2>2. Quiet /\ architectBox = <<>> /\ split[driver.at].stage # "planning"
    BY <1>0, <2>1 DEF Course, Account, Quiet, Refused, Declared
  <2>3. maintainerBox = <<>> /\ writing = {} /\ ~Active /\ \A q \in Phases : ~Holds(developerBox, Blueprint(q))
    BY <2>2 DEF Quiet, Blank, AtWork
  <2>4. ~Heard /\ ~Heard' /\ ~Settled'
    BY <1>0, <2>3, EmptyHolds, EmptyBox DEF Heard, Settled
  <2>5. driver'.at \in Phases /\ ~Doing'
    BY <1>0, <2>3, <2>4 DEF Doing, Active, Blueprint, Drivers
  <2>6. ~OnItsWay
    BY <2>3, <2>4 DEF OnItsWay
  <2>7. \A q \in Phases : GivenUp(q)' => row'[q] = "failed"
    BY <1>0, <1>1, <2>6 DEF EndInv
  <2>8. driver'.pc # "draining" /\ (driver'.pc \in {"gate", "leaving"} => driver'.at = driver.at /\ architectBox' = architectBox)
    BY <1>0, <1>2 DEF TakeRequest, Drivers
  <2>9. driver'.pc \in {"gate", "leaving"} => Still'
    BY <1>0, <2>2, <2>8 DEF Still, Quiet, Blank
  <2> QED
    BY <1>0, <1>1, <2>4, <2>5, <2>7, <2>8, <2>9 DEF EndInv
<1>3. CASE ~(TakeRequest /\ Head(managerBox) = Message("phase_request", driver.at))
  <2>1. /\ driver'.at = driver.at /\ architectBox' = architectBox
        /\ driver'.pc = "draining" => stop # "none"
        /\ driver'.pc \in {"gate", "leaving"} =>
               \/ stop = "paused"
               \/ driver.pc = "draining" /\ maintainerBox = <<>>
               \/ driver.pc \in {"gate", "leaving"}
    <3>1. CASE TakeRequest
      BY <1>0, <1>3, <3>1 DEF TakeRequest
    <3>2. CASE TakeStop
      BY <1>0, <3>2 DEF TakeStop, Drivers, volatile, boxes
    <3>3. CASE SettleFailed \/ Settle
      <4>1. SettleFailed => maintainerBox = <<>>
        BY DEF SettleFailed
      <4>2. /\ driver'.at = driver.at /\ driver'.pc = "leaving" /\ architectBox' = architectBox
            /\ SettleFailed => driver.pc = "draining"
            /\ Settle => driver.pc = "gate"
        BY <1>0, <3>3 DEF SettleFailed, Settle, Drivers, volatile, boxes
      <4> QED
        BY <3>3, <4>1, <4>2
    <3> QED
      BY <3>1, <3>2, <3>3 DEF Driver
  <2>2. Heard' = Heard /\ OnItsWay' = OnItsWay /\ Doing' = Doing /\ Still' = Still
    <3>1. Heard' = Heard /\ Settled' = Settled
      BY <1>0, <2>1 DEF Heard, Settled, IsTerminal
    <3> QED
      BY <1>0, <2>1, <3>1 DEF OnItsWay, Doing, Active, Blueprint, Still, Blank
  <2>3. maintainerBox = <<>> => ~Heard
    BY EmptyHolds DEF Heard
  <2>4. driver'.pc \in {"gate", "leaving"} => ~Heard /\ (stop # "none" \/ Still)
    BY <1>0, <2>1, <2>3 DEF EndInv
  <2>5. driver.at \in Phases
    BY <1>0 DEF Drivers
  <2> QED
    BY <1>0, <1>1, <2>1, <2>2, <2>4, <2>5 DEF EndInv
<1> QED
  BY <1>2, <1>3

\* The architect sends a blueprint only of a phase without a verdict.
LEMMA ArchitectKeepsEnds ==
    ASSUME IInv, EndInv, Calm, TypeInv', NEW p \in Phases, Architect(p)
    PROVE  EndInv'
<1>0. /\ ~FailSplit(p)
      /\ TypeInv /\ Course /\ Up /\ driver' = driver /\ driver.at \in Phases /\ row \in Rows
      /\ maintainerBox \in Seq(Mail) /\ developerBox \in Seq(Mail)
      /\ UNCHANGED <<ledger, maint, writing, line, stop>> /\ dispatched \subseteq dispatched'
  BY DEF IInv, TypeInv, Drivers, Calm, Architect, TakePlan, TakePhaseDone, Declare, Reject, SendItem, FailSplit, SaveOutput, durable
<1>1. \A q \in Phases : GivenUp(q)' = GivenUp(q)
  BY <1>0 DEF GivenUp
<1>2. \A q \in Phases : (row'[q] \in Concluded => row'[q] = row[q]) /\ (row[q] = "failed" => row'[q] = "failed")
  <2>1. CASE Declare(p)
    BY <1>0, <2>1 DEF Declare, Rows, Concluded
  <2>2. CASE row' = row
    BY <2>2
  <2> QED
    BY <1>0, <2>1, <2>2 DEF Architect, TakePlan, TakePhaseDone, Reject, SendItem, SaveOutput, durable
<1>3. (Heard' => Heard) /\ (OnItsWay => OnItsWay') /\ (Settled' => Settled)
  <2>1. CASE maintainerBox' = maintainerBox
    BY <1>0, <2>1 DEF Heard, OnItsWay, Settled, IsTerminal
  <2>2. ASSUME NEW t \in {"tasks_declared", "nothing_declared"}, maintainerBox' = Append(maintainerBox, Message(t, p))
        PROVE  (Heard' => Heard) /\ (OnItsWay => OnItsWay') /\ (Settled' => Settled)
    <3>1. Message(t, p) \in Mail /\ Message(t, p) # Message("developer_blocked", driver.at) /\ ~IsTerminal(Message(t, p))
      BY Words DEF Kinds, Message, IsTerminal
    <3>2. Heard' => Heard
      BY <1>0, <2>2, <3>1, PutHolds DEF Heard
    <3>3. Heard => Heard'
      BY <1>0, <2>2, <3>1, HoldsStays DEF Heard
    <3>4. \A m : IsTerminal(m)' = IsTerminal(m)
      BY <1>0 DEF IsTerminal
    <3>5. /\ Len(maintainerBox) \in Nat /\ Len(maintainerBox') = Len(maintainerBox) + 1
          /\ \A i \in 1..Len(maintainerBox) : maintainerBox'[i] = maintainerBox[i]
          /\ maintainerBox'[Len(maintainerBox) + 1] = Message(t, p)
      BY <1>0, <2>2, <3>1, Put
    <3>6. \A i \in 1..Len(maintainerBox') : IsTerminal(maintainerBox'[i]) => i \in 1..Len(maintainerBox)
      BY <3>1, <3>5
    <3>7. Settled' => Settled
      BY <1>0, <3>5, <3>6 DEF Settled, IsTerminal
    <3> QED
      BY <1>0, <3>2, <3>3, <3>7 DEF OnItsWay
  <2> QED
    BY <1>0, <2>1, <2>2 DEF Architect, TakePlan, TakePhaseDone, Declare, Reject, SendItem, SaveOutput, boxes
<1>4. Holds(developerBox', Blueprint(driver.at)) =>
          \/ Holds(developerBox, Blueprint(driver.at))
          \/ ~Recorded(driver.at) /\ <<driver.at, 0>> \in dispatched' /\ row' = row
  <2>1. CASE SendItem(p) /\ <<p, split[p].item>> \notin dispatched
    <3> DEFINE x == IF split[p].item = 0 THEN Message("architect_task", p) ELSE Batch(p, split[p].item)
    <3>1. split[p].item \in Nat
      BY <1>0, PhaseRunConstants DEF TypeInv, Stages
    <3>2. x \in Mail /\ developerBox' = Append(developerBox, x)
      BY <2>1, <3>1, Words DEF SendItem, Kinds
    <3>3. x = Blueprint(driver.at) => split[p].item = 0 /\ p = driver.at
      BY DEF Blueprint, Batch, Message
    <3>4. Holds(developerBox', Blueprint(driver.at)) => Holds(developerBox, Blueprint(driver.at)) \/ x = Blueprint(driver.at)
      BY <1>0, <3>2, PutHolds
    <3>5. split[p].item = 0 /\ p = driver.at => ~Recorded(driver.at) /\ <<driver.at, 0>> \in dispatched' /\ row' = row
      BY <2>1 DEF SendItem, EndInv
    <3> QED
      BY <3>3, <3>4, <3>5
  <2>2. CASE developerBox' = developerBox
    BY <2>2
  <2> QED
    BY <1>0, <2>1, <2>2 DEF Architect, TakePlan, TakePhaseDone, Declare, Reject, SendItem, SaveOutput, boxes
<1>5. Doing' => ~Recorded(driver.at)' /\ <<driver.at, 0>> \in dispatched'
  <2>1. CASE Doing
    BY <1>0, <1>2, <2>1 DEF EndInv, Recorded
  <2>2. CASE ~Doing
    BY <1>0, <1>3, <1>4, <2>2 DEF Doing, Active, Blueprint, Recorded
  <2> QED
    BY <2>1, <2>2
<1>6. driver.pc \in {"gate", "leaving"} /\ stop' = "none" => Still'
  <2> SUFFICES ASSUME driver.pc \in {"gate", "leaving"}, stop' = "none" PROVE Still'
    OBVIOUS
  <2>1. Still
    BY <1>0 DEF EndInv
  <2>2. split[p].stage # "planning"
    BY <1>0, <2>1 DEF Course, Splits, Still
  <2>3. SendItem(p) \/ SaveOutput(p)
    BY <1>0, <2>1, <2>2 DEF Still, Architect, TakePlan, TakePhaseDone, Declare, Reject
  <2>4. split'[driver.at].stage # "planning" /\ UNCHANGED <<maintainerBox, architectBox>>
    <3>1. CASE SendItem(p)
      <4>1. \A q \in Phases : q # p => split'[q] = split[q]
        BY <1>0, <3>1 DEF SendItem, NextItem, TypeInv
      <4>2. split'[p].stage \in {"sending", "saving"}
        BY <1>0, <3>1 DEF SendItem, NextItem, TypeInv, Stages
      <4> QED
        BY <1>0, <2>1, <3>1, <4>1, <4>2 DEF SendItem, Still
    <3>2. CASE SaveOutput(p)
      BY <1>0, <2>1, <3>2 DEF SaveOutput, Still, TypeInv, Stages, boxes
    <3> QED
      BY <2>3, <3>1, <3>2
  <2> QED
    BY <1>0, <2>1, <2>4 DEF Still, Blank
<1>7. stop' # "none" => line'.pc = "dead"
  BY <1>0 DEF EndInv
<1>8. stop' = "paused" => ~Heard'
  BY <1>0, <1>3 DEF EndInv
<1> QED
  BY <1>0, <1>1, <1>2, <1>3, <1>5, <1>6, <1>7, <1>8, EndStays

\* What the maintainer hears it takes in hand, and what it has in hand it writes.
LEMMA MaintainerKeepsEnds ==
    ASSUME IInv, EndInv, Calm, TypeInv', Maintainer
    PROVE  EndInv'
<1>0. /\ TypeInv /\ Course /\ Up /\ Up' /\ driver' = driver /\ driver.at \in Phases /\ row \in Rows /\ maint \in Fields
      /\ maintainerBox \in Seq(Mail)
      /\ UNCHANGED <<dispatched, ledger, developerBox, split, line, stop>>
  <2>1. TypeInv /\ driver.at \in Phases /\ row \in Rows /\ maint \in Fields /\ maintainerBox \in Seq(Mail)
    BY DEF IInv, TypeInv, Drivers
  <2>2. Up /\ driver' = driver /\ UNCHANGED <<dispatched, ledger, developerBox, split, line, stop>>
    <3>1. CASE Write
      BY <3>1 DEF Write
    <3>2. ASSUME NEW p \in Phases, TakeDeclared(p) \/ TakeTerminal(p)
          PROVE  Up /\ driver' = driver /\ UNCHANGED <<dispatched, ledger, developerBox, split, line, stop>>
      BY <3>2 DEF TakeDeclared, TakeTerminal, durable
    <3> QED
      BY <3>1, <3>2 DEF Maintainer
  <2>3. Up' /\ Course
    BY <2>2 DEF IInv, Up
  <2> QED
    BY <2>1, <2>2, <2>3
<1>1. \A q \in Phases : GivenUp(q)' = GivenUp(q)
  BY <1>0 DEF GivenUp
<1>2. stop' # "none" => line'.pc = "dead"
  BY <1>0 DEF EndInv
<1>3. ASSUME NEW p \in Phases, TakeDeclared(p) PROVE EndInv'
  <2>1. /\ maintainerBox # <<>> /\ maintainerBox' = Tail(maintainerBox) /\ UNCHANGED <<row, writing>>
        /\ Head(maintainerBox) # Message("developer_blocked", driver.at)
    BY <1>0, <1>3 DEF TakeDeclared, durable, Message
  <2>2. (Heard' => Heard) /\ (Heard => Heard')
    <3> DEFINE b == Message("developer_blocked", driver.at)
    <3>1. Holds(maintainerBox', b) => Holds(maintainerBox, b)
      BY <1>0, <2>1, TakenHolds
    <3>2. Holds(maintainerBox, b) => Holds(maintainerBox', b)
      BY <1>0, <2>1, HoldsStays
    <3> QED
      BY <1>0, <3>1, <3>2 DEF Heard
  <2>3. OnItsWay => OnItsWay'
    BY <1>0, <2>1, <2>2 DEF OnItsWay
  <2>4. Settled' => Settled
    <3>1. /\ Len(maintainerBox) \in Nat /\ Len(maintainerBox') = Len(maintainerBox) - 1
          /\ \A i \in 1..(Len(maintainerBox) - 1) : maintainerBox'[i] = maintainerBox[i + 1]
      BY <1>0, <2>1, Taken
    <3>2. \A i \in 1..Len(maintainerBox') : i + 1 \in 1..Len(maintainerBox) /\ maintainerBox'[i] = maintainerBox[i + 1]
      BY <3>1
    <3> QED
      BY <1>0, <3>2 DEF Settled, IsTerminal
  <2>5. Doing' => ~Recorded(driver.at)' /\ <<driver.at, 0>> \in dispatched'
    BY <1>0, <2>1, <2>4 DEF Doing, Active, Blueprint, EndInv, Recorded
  <2>6. ~(driver.pc \in {"gate", "leaving"} /\ stop' = "none")
    BY <1>0, <2>1 DEF EndInv, Still
  <2>7. stop' = "paused" => ~Heard'
    BY <1>0, <2>2 DEF EndInv
  <2> QED
    BY <1>0, <1>1, <1>2, <2>1, <2>2, <2>3, <2>5, <2>6, <2>7, EndStays
<1>4. ASSUME NEW p \in Phases, TakeTerminal(p) PROVE EndInv'
  <2>1. PICK t \in {"developer_ready", "developer_blocked", "developer_failed"} :
           /\ Head(maintainerBox) = Message(t, p)
           /\ writing' = IF p \in maint.terminals THEN {}
                         ELSE {[phase |-> p, under |-> maint.phase,
                                verdict |-> IF t = "developer_ready" THEN "done" ELSE "failed"]}
    BY <1>4 DEF TakeTerminal
  <2>2. /\ maintainerBox # <<>> /\ Head(maintainerBox) = maintainerBox[1] /\ maintainerBox' = Tail(maintainerBox)
        /\ Len(maintainerBox) \in Nat /\ maintainerBox' \in Seq(Mail) /\ Len(maintainerBox') = Len(maintainerBox) - 1
        /\ row' = row /\ writing = {}
    BY <1>0, <1>4, Taken DEF TakeTerminal, durable
  <2>3. ~Quiet /\ ~Refused /\ ~Told /\ ~Booked1
    BY <2>1, <2>2 DEF Quiet, Refused, Told, Booked1, Message
  <2>4. Awaited
    BY <1>0, <2>3 DEF Course, Account, Declared
  <2>5. Len(maintainerBox) = 1 /\ IsTerminal(maintainerBox[1]) /\ Known
    BY <1>0, <2>2, <2>4, EmptyBox DEF Awaited
  <2>6. p = driver.at
    BY <2>1, <2>2, <2>5 DEF IsTerminal, Message
  <2>7. maintainerBox' = <<>> /\ ~Heard'
    <3>1. maintainerBox' = <<>>
      BY <2>2, <2>5, EmptyBox
    <3> QED
      BY <3>1, EmptyHolds DEF Heard
  <2>8. Settled
    BY <2>5 DEF Settled
  <2>9. OnItsWay => OnItsWay'
    <3> SUFFICES ASSUME OnItsWay PROVE OnItsWay'
      OBVIOUS
    <3>1. Heard
      BY <2>2 DEF OnItsWay
    <3>2. maintainerBox[1] = Message("developer_blocked", driver.at)
      BY <2>5, <3>1 DEF Heard, Holds
    <3>3. t = "developer_blocked"
      BY <2>1, <2>2, <3>2 DEF Message
    <3>4. writing' = {[phase |-> driver.at, under |-> driver.at, verdict |-> "failed"]}
      BY <2>1, <2>5, <2>6, <3>3 DEF Known
    <3> QED
      BY <1>0, <3>4 DEF OnItsWay
  <2>10. Doing' => ~Recorded(driver.at)' /\ <<driver.at, 0>> \in dispatched'
    BY <1>0, <2>2, <2>8 DEF Doing, EndInv, Recorded
  <2>11. ~(driver.pc \in {"gate", "leaving"} /\ stop' = "none")
    BY <1>0, <2>2 DEF EndInv, Still
  <2> QED
    BY <1>0, <1>1, <1>2, <2>2, <2>7, <2>9, <2>10, <2>11, EndStays
<1>5. CASE Write
  <2>1. writing # {} /\ writing' = {} /\ row' = RowsAfter(writing) /\ maintainerBox' = maintainerBox
    BY <1>5 DEF Write, Attempts, Calm
  <2>2. /\ maintainerBox = <<>> /\ ~AtWork /\ ~Still
        /\ <<driver.at, 0>> \in dispatched /\ ~Recorded(driver.at)
        /\ \A q \in Phases : q # driver.at => row'[q] = row[q]
    BY <1>0, <2>1, WriteLands
  <2>3. PICK v \in Concluded :
            writing = {[phase |-> driver.at, under |-> driver.at, verdict |-> v]} /\ row'[driver.at] = v
    BY <1>0, <2>1, WriteLands
  <2>4. ~Heard /\ ~Heard' /\ ~Settled'
    BY <2>1, <2>2, EmptyHolds, EmptyBox DEF Heard, Settled
  <2>5. ~Doing'
    BY <1>0, <2>1, <2>2, <2>4 DEF Doing, AtWork, Active, Blueprint
  <2>6. \A q \in Phases : Recorded(q)' => <<q, 0>> \in dispatched'
    BY <1>0, <2>2 DEF EndInv, Recorded
  <2>7. OnItsWay => v = "failed"
    <3> DEFINE a == [phase |-> driver.at, under |-> driver.at, verdict |-> v]
               b == [phase |-> driver.at, under |-> driver.at, verdict |-> "failed"]
    <3>1. {a} = {b} => a = b
      OBVIOUS
    <3>2. a = b => a.verdict = b.verdict
      OBVIOUS
    <3> QED
      BY <2>3, <2>4, <3>1, <3>2 DEF OnItsWay
  <2>8. row[driver.at] # "failed"
    BY <2>2 DEF Recorded, Concluded
  <2>9. \A q \in Phases : GivenUp(q)' => row'[q] = "failed"
    BY <1>0, <1>1, <2>2, <2>3, <2>7, <2>8 DEF EndInv
  <2>10. driver.pc \in {"gate", "leaving"} => stop # "none"
    BY <1>0, <2>2 DEF EndInv
  <2> QED
    BY <1>0, <1>2, <2>4, <2>5, <2>6, <2>9, <2>10 DEF EndInv
<1> QED
  BY <1>3, <1>4, <1>5 DEF Maintainer

\* The line ends the task at hand: if it gives it up it says so.
LEMMA LineKeepsEnds ==
    ASSUME IInv, EndInv, Up, Active, line'.pc = "closing", line'.task = line.task,
           line'.verdict = "blocked" => Heard',
           UNCHANGED <<row, dispatched, ledger, driver, writing, stop>>
    PROVE  EndInv'
<1>0. /\ TypeInv /\ Course /\ AtWork /\ Doing /\ Up' /\ driver.at \in Phases
  BY DEF IInv, TypeInv, Drivers, AtWork, Doing, Up
<1>1. line.task = driver.at
  BY <1>0 DEF Course, Works
<1>2. ~Heard /\ writing = {} /\ ~Still
  BY <1>0, WorkIsUntold
<1>3. stop = "none"
  BY DEF EndInv, Active
<1>4. driver.pc \notin {"draining", "gate", "leaving"}
  BY <1>2, <1>3 DEF EndInv
<1>5. \A q \in Phases : GivenUp(q) => row[q] = "failed"
  BY <1>2 DEF EndInv, OnItsWay
<1>6. \A q \in Phases : GivenUp(q)' => GivenUp(q) \/ (q = driver.at /\ Heard')
  BY <1>1 DEF GivenUp
<1>7. \A q \in Phases : GivenUp(q)' => row'[q] = "failed" \/ (q = driver'.at /\ OnItsWay')
  BY <1>5, <1>6 DEF OnItsWay
<1>8. ~Recorded(driver.at)' /\ <<driver.at, 0>> \in dispatched' /\ \A q \in Phases : Recorded(q)' => <<q, 0>> \in dispatched'
  BY <1>0 DEF EndInv, Recorded
<1> QED
  BY <1>0, <1>3, <1>4, <1>7, <1>8 DEF EndInv

\* The developer line.
LEMMA DeveloperKeepsEnds ==
    ASSUME IInv, EndInv, TypeInv', Developer
    PROVE  EndInv'
<1>0. /\ TypeInv /\ Course /\ Up /\ driver' = driver /\ driver.at \in Phases /\ row' = row /\ dispatched' = dispatched
      /\ line \in Lines /\ ledger \in Ledgers /\ maintainerBox \in Seq(Mail) /\ developerBox \in Seq(Mail)
      /\ UNCHANGED <<architectBox, split, maint, writing>>
  BY DEF IInv, TypeInv, Drivers, Developer, TakeTask, WorkRests, TakeBatch, TakeCancel, Park, TestAnswered,
         GiveUp, Throw, HumanStop, Pause, CloseOut, durable, boxes
<1>1. ASSUME line.task = driver.at, Tell("developer_blocked") PROVE Heard'
  <2>1. Message("developer_blocked", driver.at) \in Mail
    BY <1>0, Words DEF Kinds
  <2>2. Holds(Append(maintainerBox, Message("developer_blocked", driver.at)), Message("developer_blocked", driver.at))
    BY <1>0, <2>1, PutIsHeld
  <2> QED
    BY <1>0, <1>1, <2>2 DEF Tell, Heard
<1>2. ASSUME maintainerBox' = maintainerBox, stop' = stop, stop # "none" => line'.pc = "dead",
             Doing' => Doing, \A q \in Phases : GivenUp(q)' => GivenUp(q)
      PROVE  EndInv'
  <2>1. Heard' = Heard /\ OnItsWay' = OnItsWay /\ Still' = Still
    BY <1>0, <1>2 DEF Heard, OnItsWay, Still, Blank
  <2>2. Doing' => ~Recorded(driver.at)' /\ <<driver.at, 0>> \in dispatched'
    BY <1>0, <1>2 DEF EndInv, Recorded
  <2>3. (stop' = "paused" => ~Heard') /\ (driver.pc \in {"gate", "leaving"} /\ stop' = "none" => Still')
    BY <1>0, <1>2, <2>1 DEF EndInv
  <2> QED
    BY <1>0, <1>2, <2>1, <2>2, <2>3, EndStays
<1>3. ASSUME maintainerBox' = maintainerBox PROVE Settled' = Settled
  BY <1>0, <1>3 DEF Settled, IsTerminal
<1>4. CASE TakeTask
  <2>1. maintainerBox' = maintainerBox /\ stop' = stop /\ ledger' = ledger /\ line.pc = "idle" /\ stop = "none"
    BY <1>4 DEF TakeTask, durable, EndInv
  <2>2. \A q \in Phases : GivenUp(q)' => GivenUp(q)
    BY <1>4, <2>1 DEF TakeTask, GivenUp, Idle
  <2>3. Doing' => Doing
    <3>1. Holds(developerBox', Blueprint(driver.at)) => Holds(developerBox, Blueprint(driver.at))
      BY <1>0, <1>4, TakenHolds DEF TakeTask
    <3>2. CASE Head(developerBox).type = "architect_task"
      <4>1. line' = [Idle EXCEPT !.pc = "working", !.task = Head(developerBox).phase]
        BY <1>4, <3>2 DEF TakeTask
      <4>2. line'.pc = "working" /\ line'.task = Head(developerBox).phase
        BY <4>1 DEF Idle
      <4>3. Head(developerBox) = Blueprint(driver.at)
        BY <1>0, <1>4, <3>2, <4>2, BlueprintTaken DEF TakeTask, durable
      <4>4. Holds(developerBox, Blueprint(driver.at))
        BY <1>0, <1>4, <4>3, Taken DEF Holds, TakeTask
      <4> QED
        BY <4>4 DEF Doing
    <3>3. CASE Head(developerBox).type # "architect_task"
      BY <1>0, <1>3, <1>4, <2>1, <3>1, <3>3 DEF TakeTask, Doing, Active, Blueprint
    <3> QED
      BY <3>2, <3>3
  <2> QED
    BY <1>2, <2>1, <2>2, <2>3
<1>5. CASE WorkRests
  <2>1. maintainerBox' = maintainerBox /\ stop' = stop /\ Active /\ stop = "none" /\ line'.pc \in {"item", "test"}
    BY <1>0, <1>5 DEF WorkRests, boxes, EndInv, Active, Lines
  <2>2. \A q \in Phases : GivenUp(q)' => GivenUp(q)
    BY <1>0, <1>5, <2>1 DEF WorkRests, GivenUp, Ledgers
  <2> QED
    BY <1>2, <2>1, <2>2 DEF Doing
<1>6. CASE TakeBatch /\ Head(developerBox) = Batch(line.task, line.arrived + 1)
  <2>1. maintainerBox' = maintainerBox /\ stop' = stop /\ Active /\ stop = "none" /\ line'.pc = "working" /\ ledger' = ledger
    BY <1>0, <1>6 DEF TakeBatch, durable, EndInv, Active, Lines
  <2>2. \A q \in Phases : GivenUp(q)' => GivenUp(q)
    BY <2>1 DEF GivenUp
  <2> QED
    BY <1>2, <2>1, <2>2 DEF Doing
<1>7. CASE Park
  <2>1. maintainerBox' = maintainerBox /\ stop' = stop /\ Active /\ stop = "none" /\ line' = line /\ ledger' = ledger
    BY <1>7 DEF Park, durable, EndInv, Active, Serving
  <2>2. \A q \in Phases : GivenUp(q)' => GivenUp(q)
    BY <2>1 DEF GivenUp
  <2> QED
    BY <1>2, <2>1, <2>2 DEF Doing
<1>8. CASE \/ TakeBatch /\ Head(developerBox) # Batch(line.task, line.arrived + 1)
           \/ TakeCancel \/ TestAnswered \/ GiveUp \/ Throw \/ HumanStop
  <2>1. Active /\ UNCHANGED <<ledger, stop>>
    BY <1>8 DEF TakeBatch, TakeCancel, TestAnswered, GiveUp, Throw, HumanStop, Active, Serving, durable
  <2>2. line.task = driver.at
    BY <1>0, <2>1 DEF Course, Works
  <2>3. /\ line'.pc = "closing" /\ line'.task = line.task
        /\ line'.verdict = "blocked" => Tell("developer_blocked")
    BY <1>0, <1>8 DEF TakeBatch, TakeCancel, TestAnswered, GiveUp, Throw, HumanStop, Conclude, Lines
  <2> QED
    BY <1>0, <1>1, <2>1, <2>2, <2>3, LineKeepsEnds
<1>9. CASE Pause
  <2>1. /\ Active /\ AtWork /\ stop = "none" /\ stop' = "paused" /\ line'.pc = "dead" /\ maintainerBox' = maintainerBox
        /\ ledger' = [ledger EXCEPT ![line.task] = "waiting_human"]
    BY <1>0, <1>9 DEF Pause, boxes, EndInv, Active, AtWork, Serving, Lines
  <2>2. ~Heard /\ ~Heard' /\ (OnItsWay => OnItsWay')
    BY <1>0, <2>1, WorkIsUntold DEF Heard, OnItsWay
  <2>3. \A q \in Phases : GivenUp(q)' => GivenUp(q)
    BY <1>0, <2>1 DEF GivenUp, Ledgers
  <2>4. Doing' => ~Recorded(driver.at)' /\ <<driver.at, 0>> \in dispatched'
    BY <1>0, <2>1 DEF EndInv, Doing, Recorded
  <2> QED
    BY <1>0, <2>1, <2>2, <2>3, <2>4, EndStays
<1>10. CASE CloseOut
  <2>1. /\ line.pc = "closing" /\ stop = "none" /\ stop' \in {"none", "terminal"} /\ maintainerBox' = maintainerBox
        /\ ledger' = [ledger EXCEPT ![line.task] = line.verdict] /\ developerBox' = <<>>
        /\ line'.pc = IF stop' = "none" THEN "idle" ELSE "dead"
    BY <1>10 DEF CloseOut, EndInv, Idle
  <2>2. Heard' = Heard /\ OnItsWay' = OnItsWay /\ Still' = Still
    BY <1>0, <2>1 DEF Heard, OnItsWay, Still, Blank
  <2>3. \A q \in Phases : GivenUp(q)' => GivenUp(q)
    BY <1>0, <2>1 DEF GivenUp, Ledgers
  <2>4. Doing' => Doing
    BY <1>0, <1>3, <2>1, EmptyHolds DEF Doing, Active
  <2>5. Doing' => ~Recorded(driver.at)' /\ <<driver.at, 0>> \in dispatched'
    BY <1>0, <2>4 DEF EndInv, Recorded
  <2>6. driver.pc \in {"gate", "leaving"} /\ stop' = "none" => Still'
    BY <1>0, <2>1, <2>2 DEF EndInv
  <2> QED
    BY <1>0, <2>1, <2>2, <2>3, <2>5, <2>6, EndStays
<1> QED
  BY <1>4, <1>5, <1>6, <1>7, <1>8, <1>9, <1>10 DEF Developer

\* Every step.
LEMMA EndsKeep ==
    ASSUME IInv, EndInv, Calm, [Next]_vars, ~hasty'
    PROVE  EndInv'
<1>0. TypeInv'
  BY TypeKeeps DEF IInv
<1>1. CASE Start \/ Exit
  BY <1>0, <1>1, EndOfProcess
<1>2. CASE Driver
  BY <1>0, <1>2, DriverKeepsEnds
<1>3. CASE Maintainer
  BY <1>0, <1>3, MaintainerKeepsEnds
<1>4. CASE Developer
  BY <1>0, <1>4, DeveloperKeepsEnds
<1>5. ~Kill /\ \A p \in Phases : ~Retry(p)
  BY DEF Kill, Retry, Calm
<1>6. ASSUME NEW p \in Phases, Architect(p) PROVE EndInv'
  BY <1>0, <1>6, ArchitectKeepsEnds
<1>7. CASE UNCHANGED vars
  <2>1. UNCHANGED <<Heard, Settled>>
    BY <1>7 DEF vars, durable, volatile, boxes, Heard, Settled, IsTerminal
  <2>2. UNCHANGED <<Doing, OnItsWay, Still, Up>> /\ \A q \in Phases : GivenUp(q)' = GivenUp(q) /\ Recorded(q)' = Recorded(q)
    BY <1>7, <2>1 DEF vars, durable, volatile, boxes, Doing, Active, Blueprint, OnItsWay, Still, Blank, GivenUp, Recorded, Up
  <2>3. UNCHANGED <<row, dispatched, ledger, driver, line, stop>>
    BY <1>7 DEF vars, durable, volatile
  <2>4. CASE Up
    <3>1. Doing' => ~Recorded(driver.at)' /\ <<driver.at, 0>> \in dispatched'
      BY <2>2, <2>3, <2>4 DEF EndInv, Recorded
    <3>2. /\ stop' # "none" => line'.pc = "dead"
          /\ stop' = "paused" => ~Heard'
          /\ driver.pc \in {"gate", "leaving"} /\ stop' = "none" => Still'
      BY <2>1, <2>2, <2>3, <2>4 DEF EndInv
    <3> QED
      BY <2>1, <2>2, <2>3, <2>4, <3>1, <3>2, EndStays
  <2>5. CASE ~Up
    <3>1. ~Up' /\ \A q \in Phases : Recorded(q)' => <<q, 0>> \in dispatched'
      BY <2>2, <2>3, <2>5 DEF EndInv
    <3>2. (stop' # "none" => line'.pc = "dead") /\ (stop' = "paused" => ~Heard')
      BY <2>1, <2>3 DEF EndInv
    <3> QED
      BY <2>3, <2>5, <3>1, <3>2 DEF EndInv
  <2> QED
    BY <2>4, <2>5
<1> QED
  BY <1>1, <1>2, <1>3, <1>4, <1>5, <1>6, <1>7 DEF Next

\* If nothing is killed, no split fails, no write is lost and no row is set back, then a project that has
\* ended has the failure of every task given up in its row (EndedTasksAreRecorded), however many processes
\* it took and whatever was refused, thrown, stopped or paused; unless one of its processes was hasty: it
\* went on after two seconds with the maintainer's or the architect's box not empty, or cut a write in two.
THEOREM EndsRecorded == Calm => (Spec => []EndedTasksAreRecorded)
<1> SUFFICES ASSUME Calm PROVE Spec => []EndedTasksAreRecorded
  OBVIOUS
<1> DEFINE Inv == IInv /\ hasty \in BOOLEAN /\ (~hasty => EndInv)
<1>1. Init => Inv
  <2> SUFFICES ASSUME Init PROVE IInv /\ hasty \in BOOLEAN /\ EndInv
    OBVIOUS
  <2>1. ~Up /\ stop = "none" /\ ~Heard /\ \A q \in Phases : ~Recorded(q) /\ ledger[q] = "none"
    BY Begun, EmptyHolds DEF Recorded, Concluded, Heard, Up
  <2>2. EndInv
    BY <2>1 DEF EndInv
  <2> QED
    BY <2>2, CourseFirst, Begun
<1>2. Inv /\ [Next]_vars => Inv'
  BY CourseKeeps, EndsKeep, HasteStays
<1>3. Inv => EndedTasksAreRecorded
  BY DEF EndInv, EndedTasksAreRecorded
<1> QED
  BY <1>1, <1>2, <1>3, PTL DEF Spec
-----------------------------------------------------------------------------
(* What keeps the first process going *)

\* The ledger holds what this process has sent: nothing of a phase that is not planned yet, and no item
\* from the next one on.
Planned  == Holds(architectBox, Message("phase_plan", driver.at))
Planning == split[driver.at].stage = "planning"
Keys ==
    /\ Planned => split[driver.at].stage = "off"
    /\ Planning => split[driver.at].item = 0
    /\ \A q \in Phases, k \in Nat : <<q, k>> \in dispatched =>
           /\ q <= driver.at
           /\ q = driver.at => /\ ~Planned /\ ~Planning
                               /\ split[driver.at].stage = "sending" => k < split[driver.at].item

\* A batch the line has not had is going to be sent or is in the box, behind the blueprint if that is there.
ToCome(k)    == split[driver.at].stage = "sending" /\ split[driver.at].item <= k
Behind(i, k) == \E j \in 1..Len(developerBox) : j > i /\ developerBox[j] = Batch(driver.at, k)
Supply ==
    /\ Active => \A k \in 1..NumBatches : k > line.arrived => ToCome(k) \/ Behind(0, k)
    /\ \A i \in 1..Len(developerBox) : developerBox[i] = Blueprint(driver.at) =>
           \A k \in 1..NumBatches : ToCome(k) \/ Behind(i, k)

\* The maintainer waits for the verdict of the task at hand; its end will stop the process unheard.
Expecting ==
    /\ maint.final \/ Holds(maintainerBox, Message("tasks_declared", driver.at))
    /\ ~Settled /\ writing = {}
Failing == line.pc = "closing" /\ line.verdict = "failed" /\ ~line.quiet

\* While the driver waits, the phase is to be planned or its end on the way, or the task is at work.
Moves ==
    driver.pc = "waiting" /\ stop = "none" =>
        /\ (Blank /\ maintainerBox = <<>>) => (architectBox # <<>> \/ Planning \/ Requested)
        /\ Expecting => (AtWork \/ Failing)

ActInv ==
    /\ line.pc = "dead" => stop # "none"
    /\ line.pc = "test" => line.arrived = NumBatches
    /\ runs = 0 => (~Up /\ \A q \in Phases : row[q] = "none")
    /\ Up => (Keys /\ Supply /\ Moves /\ (line.pc = "closing" => ~AtWork))

\* Steps that send nothing and plan nothing keep the ledger.
LEMMA KeysStay ==
    ASSUME Keys, UNCHANGED dispatched, driver'.at = driver.at, Planned' => Planned,
           split'[driver.at] = split[driver.at] \/ split'[driver.at].stage = "off"
    PROVE  Keys'
<1>1. (Planning' => Planning) /\ (Planning' => split'[driver'.at].item = 0)
  BY DEF Planning, Keys
<1>2. split'[driver'.at].stage = "sending" => split'[driver'.at] = split[driver.at]
  OBVIOUS
<1>3. Planned' => split'[driver'.at].stage = "off"
  BY DEF Keys
<1>4. ASSUME NEW q \in Phases, NEW k \in Nat, <<q, k>> \in dispatched'
      PROVE  /\ q <= driver'.at
             /\ q = driver'.at => /\ ~Planned' /\ ~Planning'
                                  /\ split'[driver'.at].stage = "sending" => k < split'[driver'.at].item
  BY <1>1, <1>2, <1>4 DEF Keys
<1> QED
  BY <1>1, <1>3, <1>4 DEF Keys

\* Steps that leave the line, its box and the sending alone keep the supply.
LEMMA SupplyStays ==
    ASSUME Supply, UNCHANGED <<line, developerBox>>, driver'.at = driver.at, NumBatches \in Nat,
           \/ ~Active /\ ~Holds(developerBox, Blueprint(driver.at))
           \/ split'[driver.at].stage = split[driver.at].stage /\ split'[driver.at].item = split[driver.at].item
           \/ split[driver.at].stage # "sending"
    PROVE  Supply'
<1>1. \A i, k : Behind(i, k)' = Behind(i, k)
  BY DEF Behind
<1>2. CASE ~Active /\ ~Holds(developerBox, Blueprint(driver.at))
  BY <1>2 DEF Supply, Active, Holds, Blueprint
<1>3. CASE \A k : ToCome(k) => ToCome(k)'
  BY <1>1, <1>3 DEF Supply, Active, Blueprint
<1>4. (~Active /\ ~Holds(developerBox, Blueprint(driver.at))) \/ \A k : ToCome(k) => ToCome(k)'
  BY DEF ToCome
<1> QED
  BY <1>2, <1>3, <1>4

\* Steps after which there is as much to wait for as before.
LEMMA MovesStay ==
    ASSUME Moves, UNCHANGED <<driver, maint, writing, maintainerBox, architectBox>>,
           stop' = "none" => stop = "none", Requested => Requested', Planning => Planning',
           AtWork => AtWork', stop' = "none" /\ Failing => Failing'
    PROVE  Moves'
<1>1. Settled' = Settled
  BY DEF Settled, IsTerminal
<1>2. Expecting' => Expecting
  BY <1>1 DEF Expecting
<1>3. Blank' = Blank
  BY DEF Blank
<1> QED
  BY <1>2, <1>3 DEF Moves

\* A process begins.
LEMMA ActsBegin ==
    ASSUME IInv, ActInv, TypeInv', Start, runs' <= 1
    PROVE  ActInv'
<1>0. TypeInv /\ runs \in Nat /\ MaxRuns \in Nat /\ ~Up /\ Up' /\ driver'.at \in Phases
  BY PhaseRunConstants DEF IInv, TypeInv, Drivers, Start, Up
<1>1. runs = 0 /\ runs' = 1
  BY <1>0 DEF Start
<1>2. dispatched' = {}
  BY <1>1 DEF Start, ActInv
<1>3. /\ maintainerBox' = <<>> /\ developerBox' = <<>> /\ line'.pc = "idle" /\ ~maint'.final
      /\ split'[driver'.at].stage = "off"
  BY <1>0 DEF Start, Fresh, Idle
<1>7. driver'.pc = "waiting" => architectBox' # <<>>
  <2>1. driver'.pc = "waiting" => architectBox' = <<Message("phase_plan", FirstOpen)>>
    BY DEF Start
  <2>2. <<Message("phase_plan", FirstOpen)>> # <<>>
    OBVIOUS
  <2> QED
    BY <2>1, <2>2
<1>4. Keys'
  BY <1>2, <1>3 DEF Keys, Planning
<1>5. Supply'
  BY <1>3, EmptyBox DEF Supply, Active
<1>6. Moves'
  BY <1>3, <1>7, EmptyHolds DEF Moves, Expecting
<1> QED
  BY <1>0, <1>1, <1>3, <1>4, <1>5, <1>6 DEF ActInv

\* The driver.
LEMMA DriverKeepsActs ==
    ASSUME IInv, ActInv, TypeInv', Driver
    PROVE  ActInv'
<1>0. /\ TypeInv /\ Course /\ Up /\ Up' /\ driver \in Drivers /\ driver' \in Drivers /\ managerBox \in Seq(Mail)
      /\ UNCHANGED <<row, dispatched, runs, maintainerBox, developerBox, split, maint, writing, line, stop>>
  BY DEF IInv, TypeInv, Drivers, Up, Driver, TakeRequest, TakeStop, SettleFailed, Settle, durable, volatile, boxes
<1>1. NumBatches \in Nat /\ driver.at \in Phases /\ driver'.at \in Phases /\ Phases \subseteq Nat
  BY <1>0, PhaseRunConstants DEF Drivers, Phases
<1>2. CASE driver'.at = driver.at /\ architectBox' = architectBox
  <2>1. Keys'
    BY <1>0, <1>2, KeysStay DEF ActInv, Planned
  <2>2. Supply'
    BY <1>0, <1>1, <1>2, SupplyStays DEF ActInv
  <2>3. AtWork' = AtWork
    BY <1>0, <1>2 DEF AtWork, Active, Unsent, Blueprint
  <2>4. Moves'
    <3>1. CASE driver'.pc # "waiting"
      BY <3>1 DEF Moves
    <3>2. CASE driver'.pc = "waiting"
      <4>1. TakeRequest /\ Head(managerBox) # Message("phase_request", driver.at)
        BY <1>0, <1>2, <3>2 DEF Driver, TakeRequest, TakeStop, SettleFailed, Settle, Drivers
      <4>2. driver' = driver /\ managerBox # <<>> /\ managerBox' = Tail(managerBox)
        BY <4>1 DEF TakeRequest
      <4>3. Requested => Requested'
        BY <1>0, <4>1, <4>2, HoldsStays DEF Requested
      <4> QED
        BY <1>0, <1>2, <2>3, <4>2, <4>3, MovesStay DEF ActInv, Planning, Failing
    <3> QED
      BY <3>1, <3>2
  <2> QED
    BY <1>0, <2>1, <2>2, <2>3, <2>4 DEF ActInv
<1>3. CASE ~(driver'.at = driver.at /\ architectBox' = architectBox)
  <2>1. /\ managerBox # <<>> /\ Head(managerBox) = Message("phase_request", driver.at)
        /\ driver'.at = driver.at + 1
        /\ architectBox' = Append(architectBox, Message("phase_plan", driver.at + 1))
    BY <1>0, <1>3 DEF Driver, TakeRequest, TakeStop, SettleFailed, Settle, Drivers, volatile, boxes
  <2>2. Requested
    BY <1>0, <2>1, Taken DEF Requested, Holds
  <2>3. Quiet /\ architectBox = <<>>
    BY <1>0, <2>2 DEF Course, Account, Quiet, Refused, Declared
  <2>4. /\ maintainerBox = <<>> /\ ~maint.final /\ ~Active /\ \A q \in Phases : ~Holds(developerBox, Blueprint(q))
    BY <2>3 DEF Quiet, Blank, AtWork
  <2>5. split[driver'.at].stage = "off"
    <3>1. driver'.at > driver.at
      BY <1>1, <2>1, PhaseRunConstants DEF Phases
    <3> QED
      BY <1>0, <1>1, <3>1 DEF Course, Splits
  <2>6. Keys'
    <3>1. \A q \in Phases, k \in Nat : <<q, k>> \in dispatched => q < driver'.at
      <4>1. \A q \in Phases, k \in Nat : <<q, k>> \in dispatched => q <= driver.at
        BY <1>0 DEF ActInv, Keys
      <4> QED
        BY <1>1, <2>1, <4>1, PhaseRunConstants DEF Phases
    <3>2. \A q \in Phases, k \in Nat : <<q, k>> \in dispatched' => q <= driver'.at /\ q # driver'.at
      <4>1. \A q \in Phases : q < driver'.at => q <= driver'.at /\ q # driver'.at
        BY <1>1, PhaseRunConstants DEF Phases
      <4> QED
        BY <1>0, <3>1, <4>1
    <3>3. ~Planning'
      BY <1>0, <2>5 DEF Planning
    <3> QED
      BY <1>0, <2>5, <3>2, <3>3 DEF Keys
  <2>7. ~Active' /\ ~AtWork' /\ Supply'
    BY <1>0, <1>1, <2>4, <2>5 DEF Supply, AtWork, Active, Unsent, Blueprint, Holds
  <2>8. Moves'
    <3>1. architectBox' # <<>>
      BY <2>1, <2>3
    <3>2. ~Expecting'
      BY <1>0, <2>4, EmptyHolds DEF Expecting
    <3> QED
      BY <3>1, <3>2 DEF Moves
  <2> QED
    BY <1>0, <2>6, <2>7, <2>8 DEF ActInv
<1> QED
  BY <1>2, <1>3

\* The architect plans, declares and sends.
LEMMA ArchitectKeepsActs ==
    ASSUME IInv, IInv', ActInv, "throw" \notin Faults, NEW p \in Phases, Architect(p)
    PROVE  ActInv'
<1>0. /\ ~FailSplit(p)
      /\ TypeInv /\ Course /\ Up /\ Up' /\ driver' = driver /\ driver.at \in Phases /\ split[p] \in Stages
      /\ architectBox \in Seq(Mail) /\ developerBox \in Seq(Mail) /\ managerBox \in Seq(Mail)
      /\ UNCHANGED <<runs, maint, writing, line, stop>>
  BY DEF IInv, TypeInv, Drivers, Up, Architect, TakePlan, TakePhaseDone, Declare, Reject,
         SendItem, FailSplit, SaveOutput, durable
<1>1. NumBatches \in Nat /\ NumBatches >= 1 /\ Phases \subseteq Nat
  BY PhaseRunConstants DEF Phases
<1>2. /\ line'.pc = "dead" => stop' # "none"
      /\ line'.pc = "test" => line'.arrived = NumBatches
      /\ runs' # 0
  BY <1>0 DEF ActInv
<1>3. Keys /\ Supply /\ Moves
  BY <1>0 DEF ActInv
<1>4. SUFFICES Keys' /\ Supply' /\ Moves' /\ (line'.pc = "closing" => ~AtWork')
  BY <1>0, <1>2 DEF ActInv
<1>5. CASE TakePlan(p)
  <2>0. /\ architectBox # <<>> /\ Head(architectBox) = Message("phase_plan", p) /\ architectBox' = Tail(architectBox)
        /\ split' = [split EXCEPT ![p] = [stage |-> "planning", item |-> 0]]
        /\ UNCHANGED <<dispatched, managerBox, maintainerBox, developerBox>>
    BY <1>5 DEF TakePlan, durable
  <2>1. /\ Head(architectBox) = architectBox[1] /\ Len(architectBox') = Len(architectBox) - 1
        /\ architectBox' \in Seq(Mail) /\ Len(architectBox) \in Nat
    BY <1>0, <2>0, Taken
  <2>2. /\ Quiet /\ Len(architectBox) = 1
        /\ architectBox[1] \in {Message("phase_plan", driver.at), Message("phase_done", driver.at)}
    BY <1>0, <2>0 DEF Course, Account, Quiet, Refused, Declared
  <2>3. p = driver.at /\ architectBox' = <<>>
    BY <2>0, <2>1, <2>2, EmptyBox DEF Message
  <2>4. Planned
    BY <2>0, <2>1, <2>2, <2>3 DEF Planned, Holds
  <2>5. split'[driver.at].stage = "planning" /\ split'[driver.at].item = 0
    BY <1>0, <2>0, <2>3 DEF TypeInv
  <2>6. Keys'
    <3>1. ~Planned'
      BY <2>3, EmptyHolds DEF Planned
    <3>2. \A q \in Phases, k \in Nat : <<q, k>> \in dispatched => q <= driver.at /\ q # driver.at
      BY <1>3, <2>4 DEF Keys
    <3> QED
      BY <1>0, <2>0, <2>5, <3>1, <3>2 DEF Keys
  <2>7. ~Active /\ ~Holds(developerBox, Blueprint(driver.at)) /\ \A q \in Phases : ~Holds(developerBox, Blueprint(q))
    BY <1>0, <2>2 DEF Quiet, AtWork
  <2>8. Supply'
    BY <1>0, <1>1, <1>3, <2>0, <2>7, SupplyStays
  <2>9. ~AtWork'
    BY <1>0, <2>0, <2>5, <2>7 DEF AtWork, Active, Unsent, Blueprint
  <2>10. Moves'
    BY <1>0, <2>0, <2>2, <2>5, EmptyHolds DEF Moves, Planning, Expecting, Quiet, Blank
  <2> QED
    BY <2>6, <2>8, <2>9, <2>10
<1>6. CASE TakePhaseDone(p)
  <2>0. /\ architectBox # <<>> /\ Head(architectBox) = Message("phase_done", p) /\ architectBox' = Tail(architectBox)
        /\ managerBox' = Append(managerBox, Message("phase_request", p))
        /\ UNCHANGED <<dispatched, split, maintainerBox, developerBox>>
    BY <1>6 DEF TakePhaseDone, durable
  <2>1. Head(architectBox) = architectBox[1]
    BY <1>0, <2>0, Taken
  <2>2. Quiet /\ architectBox[1] \in {Message("phase_plan", driver.at), Message("phase_done", driver.at)}
    BY <1>0, <2>0 DEF Course, Account, Quiet, Refused, Declared
  <2>3. p = driver.at
    BY <2>0, <2>1, <2>2 DEF Message
  <2>4. Requested'
    <3>1. Message("phase_request", p) \in Mail
      BY Words DEF Kinds
    <3> QED
      BY <1>0, <2>0, <2>3, <3>1, PutIsHeld DEF Requested
  <2>5. Planned' => Planned
    BY <1>0, <2>0, TakenHolds DEF Planned
  <2>6. Keys' /\ Supply'
    BY <1>0, <1>1, <1>3, <2>0, <2>5, KeysStay, SupplyStays
  <2>7. AtWork' = AtWork
    BY <1>0, <2>0 DEF AtWork, Active, Unsent, Blueprint
  <2>8. Moves'
    BY <1>0, <2>0, <2>2, <2>4, EmptyHolds DEF Moves, Expecting, Quiet, Blank
  <2> QED
    BY <1>0, <2>6, <2>7, <2>8 DEF ActInv
<1>7. CASE Declare(p) \/ Reject(p)
  <2>0. /\ split[p].stage = "planning" /\ ~Winding
        /\ UNCHANGED <<dispatched, managerBox, architectBox, developerBox>>
    BY <1>7 DEF Declare, Reject
  <2>1. p = driver.at /\ Quiet /\ architectBox = <<>>
    BY <1>0, <2>0, PlanningIsQuiet
  <2>2. ~Active /\ ~Holds(developerBox, Blueprint(driver.at)) /\ maintainerBox = <<>> /\ Blank
    BY <1>0, <2>1 DEF Quiet, AtWork
  <2>3. /\ Declare(p) => split'[driver.at].stage = "sending"
        /\ Reject(p) => split'[driver.at].stage = "off"
        /\ split'[driver.at].item = split[driver.at].item
    BY <1>0, <1>7, <2>1 DEF Declare, Reject, TypeInv, Stages
  <2>4. Keys'
    <3>1. ~Planned' /\ \A q \in Phases, k \in Nat : <<q, k>> \in dispatched => q <= driver.at /\ q # driver.at
      BY <1>0, <1>3, <2>0, <2>1, EmptyHolds DEF Keys, Planned, Planning
    <3> QED
      BY <1>0, <1>7, <2>0, <2>3, <3>1 DEF Keys, Planning
  <2>5. Supply'
    BY <1>0, <1>1, <1>3, <2>0, <2>2, SupplyStays
  <2>6. line.pc # "closing"
    BY <2>0 DEF Winding
  <2>7. Moves'
    <3>0. Message("tasks_declared", p) \in Mail /\ Message("nothing_declared", p) \in Mail
      BY Words DEF Kinds
    <3>1. CASE Declare(p)
      <4>1. AtWork'
        BY <1>0, <1>3, <2>0, <2>1, <2>3, <3>1 DEF Keys, Planning, AtWork, Unsent
      <4>2. maintainerBox' = Append(<<>>, Message("tasks_declared", p))
        BY <2>2, <3>1 DEF Declare
      <4>3. maintainerBox' # <<>>
        BY <3>0, <4>2, OneMessage
      <4> QED
        BY <4>1, <4>3 DEF Moves
    <3>2. CASE Reject(p)
      <4>1. maintainerBox' = Append(<<>>, Message("nothing_declared", p))
        BY <2>2, <3>2 DEF Reject
      <4>2. maintainerBox' # <<>>
        BY <3>0, <4>1, OneMessage
      <4>3. ~Holds(maintainerBox', Message("tasks_declared", driver.at))
        <5>1. Message("tasks_declared", driver.at) # Message("nothing_declared", p)
          BY DEF Message
        <5> QED
          <6>1. <<>> \in Seq(Mail) /\ ~Holds(<<>>, Message("tasks_declared", driver.at))
            BY EmptyBox, EmptyHolds
          <6> DEFINE x == Message("nothing_declared", p)
                     m == Message("tasks_declared", driver.at)
          <6>2. x \in Mail /\ m # x /\ ~Holds(<<>>, m)
            BY <3>0, <5>1, <6>1
          <6> HIDE DEF x, m
          <6>3. ~Holds(Append(<<>>, x), m)
            BY <6>1, <6>2, PutHolds
          <6> QED
            BY <4>1, <6>3 DEF x, m
      <4>4. ~Expecting'
        BY <1>0, <2>2, <4>3 DEF Expecting, Blank
      <4> QED
        BY <4>2, <4>4 DEF Moves
    <3> QED
      BY <1>7, <3>1, <3>2
  <2> QED
    BY <1>0, <2>4, <2>5, <2>6, <2>7
<1>8. CASE SendItem(p)
  <2> DEFINE k0 == split[p].item
             x  == IF k0 = 0 THEN Message("architect_task", p) ELSE Batch(p, k0)
             n  == Len(developerBox)
  <2>0. /\ split[p].stage = "sending" /\ dispatched' = dispatched \cup {<<p, k0>>}
        /\ developerBox' = IF <<p, k0>> \in dispatched THEN developerBox ELSE Append(developerBox, x)
        /\ UNCHANGED <<managerBox, architectBox, maintainerBox>>
    BY <1>8 DEF SendItem
  <2>1. k0 \in 0..NumBatches
    BY <1>0, <1>1, <2>0 DEF TypeInv, Stages
  <2>2. /\ split'[p].item = k0 + 1 /\ split'[p].stage = IF k0 = NumBatches THEN "saving" ELSE "sending"
        /\ \A q \in Phases : q # p => split'[q] = split[q]
    BY <1>0, <1>8, <2>0 DEF SendItem, NextItem, TypeInv, Stages
  <2>3. x \in Mail
    BY <2>1, Words DEF Kinds
  <2>4. /\ n \in Nat /\ Append(developerBox, x) \in Seq(Mail) /\ Len(Append(developerBox, x)) = n + 1
        /\ \A i \in 1..n : Append(developerBox, x)[i] = developerBox[i]
        /\ Append(developerBox, x)[n + 1] = x
    BY <1>0, <2>3, Put
  <2>5. (k0 = 0 => x = Blueprint(p)) /\ (k0 # 0 => x = Batch(p, k0))
    BY DEF Blueprint
  <2>6. \A q, k : Blueprint(q) # Batch(p, k)
    BY DEF Blueprint, Batch, Message
  <2>7. \A q \in Phases : Blueprint(q)' = Blueprint(q)
    BY DEF Blueprint
  <2> HIDE DEF x, n, k0
  <2>8. CASE p # driver.at
    <3>1. p < driver.at /\ k0 # 0
      <4>1. p \in Nat /\ driver.at \in Nat
        BY <1>0, <1>1
      <4>2. ~(p > driver.at) /\ split[p].item # 0
        BY <1>0, <2>0, <2>8 DEF Course, Splits
      <4> QED
        BY <2>8, <4>1, <4>2 DEF k0
    <3>2. split'[driver.at] = split[driver.at]
      BY <1>0, <2>2, <2>8
    <3>3. Keys'
      <4>1. Planned' = Planned /\ Planning' = Planning
        BY <1>0, <2>0, <3>2 DEF Planned, Planning
      <4>2. ASSUME NEW q \in Phases, NEW k \in Nat, <<q, k>> \in dispatched'
            PROVE  q <= driver.at /\ (q = driver.at => <<q, k>> \in dispatched)
        <5>1. CASE <<q, k>> \in dispatched
          BY <1>3, <5>1 DEF Keys
        <5>2. CASE q = p
          BY <1>0, <3>1, <5>2, PhaseRunConstants DEF Phases
        <5> QED
          BY <2>0, <4>2, <5>1, <5>2
      <4> QED
        BY <1>0, <1>3, <3>2, <4>1, <4>2 DEF Keys
    <3>4. \A i \in 1..Len(developerBox') : developerBox'[i] = Blueprint(driver.at) =>
              i \in 1..n /\ developerBox[i] = Blueprint(driver.at)
      BY <2>0, <2>4, <2>5, <2>6, <3>1 DEF n
    <3>5. \A i \in 0..n, k \in 1..NumBatches : Behind(i, k) => Behind(i, k)'
      BY <1>0, <2>0, <2>4 DEF Behind, n
    <3>6. \A k \in 1..NumBatches : ToCome(k)' = ToCome(k)
      BY <1>0, <3>2 DEF ToCome
    <3>7. Supply'
      BY <1>0, <1>3, <2>4, <2>7, <3>4, <3>5, <3>6 DEF Supply, Active, n
    <3>8. (AtWork => AtWork') /\ (AtWork' => AtWork)
      <4>1. \A q \in Phases : Holds(developerBox, Blueprint(q)) => Holds(developerBox', Blueprint(q))
        BY <1>0, <2>0, <2>3, HoldsStays
      <4>2. \A q \in Phases : Holds(developerBox', Blueprint(q)) => Holds(developerBox, Blueprint(q))
        BY <1>0, <2>0, <2>3, <2>5, <2>6, <3>1, PutHolds
      <4> QED
        BY <1>0, <2>7, <3>2, <4>1, <4>2 DEF AtWork, Unsent, Active
    <3>9. Moves'
      BY <1>0, <1>3, <2>0, <3>2, <3>8, MovesStay DEF Planning, Requested, Failing
    <3> QED
      BY <1>0, <3>3, <3>7, <3>8, <3>9 DEF ActInv
  <2>9. CASE p = driver.at
    <3>1. <<p, k0>> \notin dispatched /\ developerBox' = Append(developerBox, x)
      BY <1>0, <1>3, <2>0, <2>1, <2>9 DEF Keys, k0
    <3>2. ~Planned /\ ~Planned' /\ ~Planning /\ ~Planning'
      BY <1>0, <1>3, <2>0, <2>2, <2>9 DEF Keys, Planned, Planning
    <3>3. Keys'
      <4>1. ASSUME NEW q \in Phases, NEW k \in Nat, <<q, k>> \in dispatched'
            PROVE  q <= driver.at /\ (q = driver.at => k < k0 + 1)
        <5>1. CASE <<q, k>> \in dispatched
          <6>1. q <= driver.at /\ (q = driver.at => k < split[driver.at].item)
            BY <1>3, <2>0, <2>9, <5>1 DEF Keys
          <6> QED
            BY <2>1, <2>9, <6>1 DEF k0
        <5>2. CASE q = p /\ k = k0
          BY <1>0, <1>1, <2>1, <2>9, <5>2
        <5> QED
          BY <2>0, <4>1, <5>1, <5>2
      <4> QED
        BY <1>0, <2>2, <2>9, <3>2, <4>1 DEF Keys
    <3>4. ASSUME NEW i \in 0..n, NEW k \in 1..NumBatches, ToCome(k) \/ Behind(i, k)
          PROVE  ToCome(k)' \/ Behind(i, k)'
      <4>1. CASE Behind(i, k)
        BY <1>0, <2>4, <3>1, <4>1 DEF Behind, n
      <4>2. CASE ToCome(k) /\ k0 = k
        <5>1. developerBox'[n + 1] = Batch(driver.at, k) /\ n + 1 > i /\ n + 1 \in 1..Len(developerBox')
          BY <2>4, <2>5, <2>9, <3>1, <4>2
        <5> QED
          BY <1>0, <5>1 DEF Behind
      <4>3. CASE ToCome(k) /\ k0 # k
        BY <1>0, <1>1, <2>1, <2>2, <2>9, <4>3 DEF ToCome, k0
      <4> QED
        BY <3>4, <4>1, <4>2, <4>3
    <3>5. Supply'
      <4>1. ASSUME Active', NEW k \in 1..NumBatches, k > line'.arrived PROVE ToCome(k)' \/ Behind(0, k)'
        BY <1>0, <1>3, <2>4, <3>4, <4>1 DEF Supply, Active
      <4>2. ASSUME NEW i \in 1..Len(developerBox'), developerBox'[i] = Blueprint(driver.at), NEW k \in 1..NumBatches
            PROVE  ToCome(k)' \/ Behind(i, k)'
        <5>1. CASE i \in 1..n
          <6>1. developerBox[i] = Blueprint(driver.at)
            BY <2>4, <3>1, <4>2, <5>1
          <6>2. ToCome(k) \/ Behind(i, k)
            BY <1>3, <4>2, <5>1, <6>1 DEF Supply, n
          <6> QED
            BY <2>4, <3>4, <5>1, <6>2
        <5>2. CASE i = n + 1
          <6>1. k0 = 0
            BY <2>4, <2>5, <2>6, <3>1, <4>2, <5>2
          <6> QED
            BY <1>0, <1>1, <2>2, <2>9, <6>1 DEF ToCome
        <5> QED
          BY <2>4, <3>1, <4>2, <5>1, <5>2
      <4> QED
        BY <1>0, <2>7, <4>1, <4>2 DEF Supply
    <3>6. AtWork => AtWork'
      <4>1. Unsent => Holds(developerBox', Blueprint(driver.at))
        BY <1>0, <2>3, <2>5, <2>9, <3>1, PutIsHeld DEF Unsent, k0
      <4>2. \A q \in Phases : Holds(developerBox, Blueprint(q)) => Holds(developerBox', Blueprint(q))
        BY <1>0, <2>3, <3>1, HoldsStays
      <4> QED
        BY <1>0, <2>7, <4>1, <4>2 DEF AtWork, Active
    <3>7. AtWork' => AtWork
      <4>1. \A q \in Phases : Holds(developerBox', Blueprint(q)) => Holds(developerBox, Blueprint(q)) \/ x = Blueprint(q)
        BY <1>0, <2>3, <3>1, PutHolds
      <4>2. \A q : x = Blueprint(q) => Unsent
        BY <2>0, <2>5, <2>6, <2>9 DEF Unsent, k0
      <4>3. ~Unsent'
        BY <1>0, <2>1, <2>2, <2>9 DEF Unsent
      <4> QED
        BY <1>0, <2>7, <4>1, <4>2, <4>3 DEF AtWork, Active
    <3>8. Moves'
      BY <1>0, <1>3, <2>0, <3>2, <3>6, MovesStay DEF Requested, Failing
    <3> QED
      BY <1>0, <3>3, <3>5, <3>7, <3>8 DEF ActInv
  <2> QED
    BY <2>8, <2>9
<1>9. CASE SaveOutput(p)
  <2>1. /\ split[p].stage = "saving" /\ UNCHANGED <<dispatched, boxes>>
        /\ split' = [split EXCEPT ![p].stage = "off"]
    BY <1>9 DEF SaveOutput
  <2>2. UNCHANGED <<managerBox, architectBox, maintainerBox, developerBox>>
    BY <2>1 DEF boxes
  <2>3. \/ split'[driver.at] = split[driver.at]
        \/ split[driver.at].stage = "saving" /\ split'[driver.at].stage = "off"
    BY <1>0, <2>1 DEF TypeInv, Stages
  <2>4. Planned' = Planned /\ Planning' = Planning /\ Unsent' = Unsent
    BY <1>0, <2>2, <2>3 DEF Planned, Planning, Unsent
  <2>5. Keys'
    BY <1>0, <1>3, <2>1, <2>3, <2>4, KeysStay
  <2>6. Supply'
    BY <1>0, <1>1, <1>3, <2>2, <2>3, SupplyStays
  <2>7. AtWork' = AtWork
    BY <1>0, <2>2, <2>4 DEF AtWork, Active, Blueprint
  <2>8. Moves'
    BY <1>0, <1>3, <2>2, <2>4, <2>7, MovesStay DEF Requested, Failing
  <2> QED
    BY <1>0, <2>5, <2>6, <2>7, <2>8 DEF ActInv
<1> QED
  BY <1>0, <1>5, <1>6, <1>7, <1>8, <1>9 DEF Architect

\* What the maintainer has heard it books and reports.
LEMMA MaintainerKeepsActs ==
    ASSUME IInv, IInv', ActInv, Maintainer
    PROVE  ActInv'
<1>0. /\ TypeInv /\ TypeInv' /\ Up /\ Up' /\ driver' = driver /\ driver.at \in Phases
      /\ maintainerBox \in Seq(Mail) /\ architectBox \in Seq(Mail) /\ maint \in Fields
      /\ UNCHANGED <<dispatched, runs, managerBox, developerBox, split, line, stop>>
  <2>1. /\ TypeInv /\ TypeInv' /\ driver.at \in Phases
        /\ maintainerBox \in Seq(Mail) /\ architectBox \in Seq(Mail) /\ maint \in Fields
    BY DEF IInv, TypeInv, Drivers
  <2>2. Up /\ driver' = driver /\ UNCHANGED <<dispatched, runs, managerBox, developerBox, split, line, stop>>
    <3>1. CASE Write
      BY <3>1 DEF Write
    <3>2. ASSUME NEW p \in Phases, TakeDeclared(p) \/ TakeTerminal(p)
          PROVE  /\ Up /\ driver' = driver
                 /\ UNCHANGED <<dispatched, runs, managerBox, developerBox, split, line, stop>>
      BY <3>2 DEF TakeDeclared, TakeTerminal, durable
    <3> QED
      BY <3>1, <3>2 DEF Maintainer
  <2> QED
    BY <2>1, <2>2 DEF Up
<1>1. Keys /\ Supply /\ Moves /\ Account /\ Account' /\ NumBatches \in Nat
  BY <1>0, PhaseRunConstants DEF ActInv, IInv, Course
<1>2. Supply'
  BY <1>0, <1>1, SupplyStays
<1>3. AtWork' = AtWork
  BY <1>0 DEF AtWork, Active, Unsent, Blueprint
<1>4. SUFFICES (Planned' => Planned) /\ Moves'
  <2>1. Keys' \/ ~(Planned' => Planned)
    BY <1>0, <1>1, KeysStay
  <2>2. /\ line'.pc = "dead" => stop' # "none"
        /\ line'.pc = "test" => line'.arrived = NumBatches
        /\ runs' # 0
        /\ line'.pc = "closing" => ~AtWork'
    BY <1>0, <1>3 DEF ActInv
  <2> QED
    BY <1>0, <1>2, <2>1, <2>2 DEF ActInv
<1>5. ASSUME NEW q \in Phases, architectBox' = Append(architectBox, Message("phase_done", q))
      PROVE  (Planned' => Planned) /\ Moves'
  <2>1. Message("phase_done", q) \in Mail /\ Message("phase_done", q) # Message("phase_plan", driver.at)
    BY <1>5, Words DEF Kinds, Message
  <2>2. Planned' => Planned
    BY <1>0, <1>5, <2>1, PutHolds DEF Planned
  <2>3. architectBox' # <<>>
    BY <1>0, <1>5, <2>1, Put, EmptyBox
  <2>4. Quiet'
    BY <1>1, <2>3 DEF Account, Refused, Declared
  <2>5. ~Expecting'
    BY <2>4, EmptyHolds DEF Quiet, Blank, Expecting
  <2> QED
    BY <2>2, <2>3, <2>5 DEF Moves
<1>6. ASSUME NEW p \in Phases, TakeDeclared(p) PROVE (Planned' => Planned) /\ Moves'
  <2>1. /\ maintainerBox # <<>> /\ Head(maintainerBox) = maintainerBox[1] /\ maintainerBox' = Tail(maintainerBox)
        /\ Len(maintainerBox) \in Nat /\ Len(maintainerBox) >= 1 /\ Len(maintainerBox') = Len(maintainerBox) - 1
        /\ \A i \in 1..(Len(maintainerBox) - 1) : maintainerBox'[i] = maintainerBox[i + 1]
        /\ writing' = writing
        /\ maintainerBox[1] \in {Message("tasks_declared", p), Message("nothing_declared", p)}
    BY <1>0, <1>6, Taken DEF TakeDeclared, durable
  <2> DEFINE m == [maint EXCEPT !.phase = p, !.final = TRUE,
                       !.declared = IF Head(maintainerBox).type = "tasks_declared"
                                    THEN @ \cup {p} ELSE @]
  <2>2. Converge(m)
    BY <1>6 DEF TakeDeclared
  <2>3. /\ m.phase = p /\ m.final /\ m.terminals = maint.terminals
        /\ m.declared = IF maintainerBox[1].type = "tasks_declared" THEN maint.declared \cup {p} ELSE maint.declared
    BY <1>0, <2>1 DEF Fields
  <2> HIDE DEF m
  <2>4. CASE m.declared \subseteq m.terminals
    <3>1. architectBox' = Append(architectBox, Message("phase_done", p))
      BY <2>2, <2>3, <2>4 DEF Converge
    <3> QED
      BY <1>5, <3>1
  <2>5. CASE ~(m.declared \subseteq m.terminals)
    <3>1. architectBox' = architectBox /\ maint'.final
      BY <2>2, <2>3, <2>5 DEF Converge
    <3>2. ~Quiet /\ ~Booked1
      BY <2>1 DEF Quiet, Booked1
    <3>3. ~Refused
      BY <2>1, <2>3, <2>5 DEF Refused, Blank, Message
    <3>4. Told \/ Awaited
      BY <1>1, <3>2, <3>3 DEF Account, Declared
    <3>5. maint.final \/ Holds(maintainerBox, Message("tasks_declared", driver.at))
      BY <2>1, <3>4 DEF Told, Awaited, Known, Holds
    <3>6. Settled => Settled'
      <4> SUFFICES ASSUME NEW i \in 1..Len(maintainerBox), IsTerminal(maintainerBox[i]) PROVE Settled'
        BY DEF Settled
      <4>1. i # 1
        BY <2>1 DEF IsTerminal, Message
      <4>2. i - 1 \in 1..Len(maintainerBox') /\ maintainerBox'[i - 1] = maintainerBox[i]
        BY <2>1, <4>1
      <4> QED
        BY <1>0, <4>2 DEF Settled, IsTerminal
    <3>7. Expecting' => Expecting
      BY <2>1, <3>5, <3>6 DEF Expecting
    <3>8. ~Blank'
      BY <3>1 DEF Blank
    <3>9. Failing' = Failing
      BY <1>0 DEF Failing
    <3> QED
      BY <1>0, <1>1, <1>3, <3>1, <3>7, <3>8, <3>9 DEF Moves, Planned
  <2> QED
    BY <2>4, <2>5
<1>7. ASSUME NEW p \in Phases, TakeTerminal(p) PROVE (Planned' => Planned) /\ Moves'
  <2>1. PICK t \in {"developer_ready", "developer_blocked", "developer_failed"} :
           /\ Head(maintainerBox) = Message(t, p)
           /\ writing' = IF p \in maint.terminals THEN {}
                         ELSE {[phase |-> p, under |-> maint.phase,
                                verdict |-> IF t = "developer_ready" THEN "done" ELSE "failed"]}
    BY <1>7 DEF TakeTerminal
  <2>2. maintainerBox # <<>> /\ Head(maintainerBox) = maintainerBox[1] /\ architectBox' = architectBox /\ writing = {}
    BY <1>0, <1>7, Taken DEF TakeTerminal
  <2>3. ~Quiet /\ ~Refused /\ ~Told /\ ~Booked1
    BY <2>1, <2>2 DEF Quiet, Refused, Told, Booked1, Message
  <2>4. maint.terminals = {}
    BY <1>1, <2>3 DEF Account, Declared, Awaited, Known
  <2>5. writing' # {}
    BY <2>1, <2>4
  <2> QED
    BY <1>0, <2>2, <2>5 DEF Moves, Blank, Expecting, Planned
<1>8. CASE Write
  <2>1. writing # {} /\ Converge(maint)
    BY <1>8 DEF Write
  <2>2. Booked1
    BY <1>1, <2>1 DEF Account, Declared, Quiet, Refused, Told, Awaited, Blank, Known
  <2>3. architectBox' = Append(architectBox, Message("phase_done", driver.at))
    BY <2>1, <2>2 DEF Converge, Booked1, Booking
  <2> QED
    BY <1>0, <1>5, <2>3
<1> QED
  BY <1>6, <1>7, <1>8 DEF Maintainer

\* The line leaves its task, whatever becomes of the message it has taken: nothing is at work any more.
LEMMA LineLeaves ==
    ASSUME IInv, Up, Active, line'.pc \in {"closing", "dead"}, UNCHANGED <<driver, split>>,
           developerBox' = developerBox \/ (developerBox # <<>> /\ developerBox' = Tail(developerBox))
    PROVE  ~AtWork' /\ Supply'
<1>1. developerBox \in Seq(Mail) /\ Works /\ driver.at \in Phases
  BY DEF IInv, TypeInv, Course, Drivers
<1>2. ~Unsent' /\ ~Active' /\ \A q \in Phases : ~Holds(developerBox, Blueprint(q))
  BY <1>1 DEF Works, Unsent, Active
<1>3. \A q \in Phases : ~Holds(developerBox', Blueprint(q))
  BY <1>1, <1>2, NoNewBlueprint
<1>4. \A q \in Phases : Blueprint(q)' = Blueprint(q)
  BY DEF Blueprint
<1>5. ~AtWork'
  BY <1>2, <1>3, <1>4 DEF AtWork
<1>6. Supply'
  BY <1>1, <1>2, <1>3, <1>4 DEF Supply, Holds
<1> QED
  BY <1>5, <1>6

\* A batch that is not the message taken is behind what it was behind.
LEMMA BatchRemains ==
    ASSUME developerBox \in Seq(Mail), developerBox # <<>>, developerBox' = Tail(developerBox), driver' = driver
    PROVE  /\ \A i \in Nat : \A k : Behind(i + 1, k) => Behind(i, k)'
           /\ \A k : Head(developerBox) # Batch(driver.at, k) /\ Behind(0, k) => Behind(0, k)'
<1>1. /\ Len(developerBox) \in Nat /\ Head(developerBox) = developerBox[1] /\ Len(developerBox') = Len(developerBox) - 1
      /\ \A i \in 1..(Len(developerBox) - 1) : developerBox'[i] = developerBox[i + 1]
  BY Taken
<1>2. ASSUME NEW i \in Nat, NEW k, NEW j \in 1..Len(developerBox), j > i + 1, developerBox[j] = Batch(driver.at, k)
      PROVE  Behind(i, k)'
  <2>1. j - 1 \in 1..Len(developerBox') /\ j - 1 > i /\ (j - 1) + 1 = j
    BY <1>1, <1>2
  <2>2. developerBox'[j - 1] = developerBox[j]
    BY <1>1, <2>1
  <2> QED
    BY <1>2, <2>1, <2>2 DEF Behind, Batch
<1>3. ASSUME NEW k, Head(developerBox) # Batch(driver.at, k), Behind(0, k)
      PROVE  Behind(0, k)'
  <2>1. PICK j \in 1..Len(developerBox) : developerBox[j] = Batch(driver.at, k)
    BY <1>3 DEF Behind
  <2>2. j > 0 + 1
    BY <1>1, <1>3, <2>1
  <2> QED
    BY <1>2, <2>1, <2>2
<1> QED
  BY <1>2, <1>3 DEF Behind

\* The developer works, says what it has done, and stops the process where it does not.
LEMMA DeveloperKeepsActs ==
    ASSUME IInv, IInv', ActInv, Developer
    PROVE  ActInv'
<1>0. /\ TypeInv /\ TypeInv' /\ Course /\ Course' /\ Up /\ Up' /\ driver.at \in Phases /\ line \in Lines
      /\ developerBox \in Seq(Mail) /\ maintainerBox \in Seq(Mail)
      /\ UNCHANGED <<row, dispatched, runs, driver, managerBox, architectBox, split, maint, writing>>
  <2>1. Up /\ UNCHANGED <<row, dispatched, runs, driver, managerBox, architectBox, split, maint, writing>>
    BY DEF Developer, TakeTask, WorkRests, TakeBatch, TakeCancel, Park, TestAnswered, GiveUp, Throw, HumanStop,
           Pause, CloseOut, durable, boxes
  <2> QED
    BY <2>1 DEF IInv, TypeInv, Drivers, Up
<1>1. Keys /\ Supply /\ Moves /\ NumBatches \in Nat /\ line.arrived \in 0..NumBatches
  BY <1>0, PhaseRunConstants DEF ActInv, Lines
<1>2. Keys'
  BY <1>0, <1>1, KeysStay DEF Planned
<1>3. SUFFICES /\ line'.pc = "dead" => stop' # "none"
               /\ line'.pc = "test" => line'.arrived = NumBatches
               /\ line'.pc = "closing" => ~AtWork'
               /\ Supply' /\ Moves'
  BY <1>0, <1>2 DEF ActInv
<1>4. Requested' = Requested /\ Planning' = Planning /\ Unsent' = Unsent /\ \A k : ToCome(k)' = ToCome(k)
  BY <1>0 DEF Requested, Planning, Unsent, ToCome
<1>5. \A q \in Phases : Blueprint(q)' = Blueprint(q)
  BY DEF Blueprint
<1>6. Active => line.task = driver.at /\ ~Unsent /\ \A q \in Phases : ~Holds(developerBox, Blueprint(q))
  BY <1>0 DEF Course, Works
<1>7. Active' => ~Unsent' /\ \A i \in 1..Len(developerBox') : developerBox'[i] # Blueprint(driver.at)
  BY <1>0, <1>5 DEF Course, Works, Holds
<1>8. developerBox # <<>> => /\ Len(developerBox) \in Nat /\ 1 \in 1..Len(developerBox) /\ Head(developerBox) = developerBox[1]
                             /\ developerBox[1] \in Mail
  BY <1>0, Taken
<1>9. CASE TakeTask
  <2>0. line.pc = "idle" /\ developerBox # <<>> /\ developerBox' = Tail(developerBox) /\ UNCHANGED <<maintainerBox, stop>>
    BY <1>9 DEF TakeTask
  <2>1. CASE Head(developerBox).type = "architect_task"
    <3>1. line' = [Idle EXCEPT !.pc = "working", !.task = Head(developerBox).phase]
      BY <1>9, <2>1 DEF TakeTask
    <3>2. line'.pc = "working" /\ line'.task = Head(developerBox).phase /\ line'.arrived = 0
      BY <3>1 DEF Idle
    <3>3. developerBox[1] = Blueprint(driver.at)
      BY <1>0, <1>8, <2>0, <2>1, <3>2, BlueprintTaken
    <3>4. \A k \in 1..NumBatches : ToCome(k) \/ Behind(1, k)
      BY <1>1, <1>8, <2>0, <3>3 DEF Supply
    <3>5. \A k \in 1..NumBatches : ToCome(k)' \/ Behind(0, k)'
      <4>1. \A k : Behind(0 + 1, k) => Behind(0, k)'
        BY <1>0, <2>0, BatchRemains
      <4> QED
        BY <1>4, <3>4, <4>1
    <3>6. Active' /\ Supply'
      BY <1>0, <1>5, <1>7, <3>2, <3>5 DEF Supply, Active
    <3>7. Moves'
      BY <1>0, <1>1, <1>4, <2>0, <3>6 DEF Moves, Blank, AtWork
    <3> QED
      BY <3>2, <3>6, <3>7
  <2>2. CASE Head(developerBox).type # "architect_task"
    <3>1. line' = line
      BY <1>9, <2>2 DEF TakeTask
    <3>2. \A q : Head(developerBox) # Blueprint(q)
      BY <2>2 DEF Blueprint, Message
    <3>3. AtWork => AtWork'
      <4>1. \A q \in Phases : Holds(developerBox, Blueprint(q)) => Holds(developerBox', Blueprint(q))
        BY <1>0, <2>0, <3>2, HoldsStays
      <4> QED
        BY <1>4, <1>5, <3>1, <4>1 DEF AtWork, Active
    <3>4. ASSUME NEW i \in 1..Len(developerBox'), developerBox'[i] = Blueprint(driver.at), NEW k \in 1..NumBatches
          PROVE  ToCome(k)' \/ Behind(i, k)'
      <4>1. i \in Nat /\ i + 1 \in 1..Len(developerBox) /\ developerBox[i + 1] = Blueprint(driver.at)
        BY <1>0, <2>0, <3>4, Taken
      <4>2. ToCome(k) \/ Behind(i + 1, k)
        BY <1>1, <4>1 DEF Supply
      <4> QED
        BY <1>0, <1>4, <2>0, <4>1, <4>2, BatchRemains
    <3>5. Supply'
      BY <1>0, <1>5, <2>0, <3>1, <3>4 DEF Supply, Active
    <3>6. Moves'
      BY <1>0, <1>1, <1>4, <2>0, <3>1, <3>3, MovesStay DEF Failing
    <3> QED
      BY <2>0, <3>1, <3>5, <3>6
  <2> QED
    BY <2>1, <2>2
<1>10. CASE WorkRests
  <2>1. /\ line.pc = "working" /\ UNCHANGED <<developerBox, maintainerBox, stop>> /\ line'.arrived = line.arrived
        /\ line'.pc = IF line.arrived < NumBatches THEN "item" ELSE "test"
    BY <1>0, <1>10 DEF WorkRests, Lines, boxes
  <2>2. Active /\ Active'
    BY <2>1 DEF Active
  <2>3. \A i, k : Behind(i, k)' = Behind(i, k)
    BY <1>0, <2>1 DEF Behind
  <2>4. Supply'
    BY <1>0, <1>1, <1>4, <1>5, <2>1, <2>2, <2>3 DEF Supply
  <2>5. Moves'
    BY <1>0, <1>1, <1>4, <2>1, <2>2, MovesStay DEF Failing, AtWork
  <2> QED
    BY <1>1, <2>1, <2>4, <2>5
<1>11. CASE TakeBatch /\ Head(developerBox) = Batch(line.task, line.arrived + 1)
  <2>1. /\ line.pc = "item" /\ UNCHANGED <<maintainerBox, stop>> /\ line'.arrived = line.arrived + 1 /\ line'.pc = "working"
        /\ developerBox # <<>> /\ developerBox' = Tail(developerBox)
    BY <1>0, <1>11 DEF TakeBatch, Lines
  <2>2. Active /\ Active' /\ Head(developerBox) = Batch(driver.at, line.arrived + 1)
    BY <1>6, <1>11, <2>1 DEF Active
  <2>3. ASSUME NEW k \in 1..NumBatches, k > line'.arrived PROVE ToCome(k)' \/ Behind(0, k)'
    <3>1. k > line.arrived /\ k # line.arrived + 1
      BY <1>1, <2>1, <2>3
    <3>2. ToCome(k) \/ Behind(0, k)
      BY <1>1, <2>2, <3>1 DEF Supply
    <3>3. Head(developerBox) # Batch(driver.at, k)
      BY <2>2, <3>1 DEF Batch
    <3> QED
      BY <1>0, <1>4, <2>1, <3>2, <3>3, BatchRemains
  <2>4. Supply'
    BY <1>0, <1>5, <1>7, <2>2, <2>3 DEF Supply
  <2>5. Moves'
    BY <1>0, <1>1, <1>4, <2>1, <2>2, MovesStay DEF Failing, AtWork
  <2> QED
    BY <2>1, <2>4, <2>5
<1>12. CASE \/ TakeBatch /\ Head(developerBox) # Batch(line.task, line.arrived + 1)
            \/ TakeCancel \/ TestAnswered \/ GiveUp \/ (Throw /\ line.arrived = 0) \/ HumanStop
  <2>1. line'.pc = "closing" /\ Active
    BY <1>0, <1>12 DEF TakeBatch, TakeCancel, TestAnswered, GiveUp, HumanStop, Throw, Serving, Conclude, Active, Lines
  <2>2. PICK t \in {"developer_ready", "developer_blocked", "developer_failed"} : Tell(t)
    BY <1>12 DEF TakeBatch, TakeCancel, TestAnswered, GiveUp, HumanStop, Throw
  <2>3. developerBox' = developerBox \/ (developerBox # <<>> /\ developerBox' = Tail(developerBox))
    BY <1>12 DEF TakeBatch, TakeCancel, TestAnswered, GiveUp, HumanStop, Throw
  <2>4. ~AtWork' /\ Supply'
    BY <1>0, <2>1, <2>3, LineLeaves
  <2>5. /\ maintainerBox' = Append(maintainerBox, Message(t, driver.at)) /\ IsTerminal(Message(t, driver.at))
        /\ Message(t, driver.at) \in Mail
    BY <1>0, <1>6, <2>1, <2>2, Words DEF Tell, Kinds, IsTerminal
  <2>6. /\ Len(maintainerBox) \in Nat /\ Len(maintainerBox') = Len(maintainerBox) + 1
        /\ maintainerBox'[Len(maintainerBox) + 1] = Message(t, driver.at)
    BY <1>0, <2>5, Put
  <2>7. Settled'
    BY <1>0, <2>5, <2>6 DEF Settled, IsTerminal
  <2>8. maintainerBox' # <<>>
    BY <2>6, EmptyBox
  <2> QED
    BY <2>1, <2>4, <2>7, <2>8 DEF Moves, Expecting
<1>13. CASE Throw /\ line.arrived # 0
  <2>1. /\ line'.pc = "closing" /\ line'.verdict = "failed" /\ ~line'.quiet /\ Active
        /\ UNCHANGED <<developerBox, maintainerBox, stop>>
    BY <1>0, <1>13 DEF Throw, Conclude, Active, Lines
  <2>2. ~AtWork' /\ Supply'
    BY <1>0, <2>1, LineLeaves
  <2>3. Failing'
    BY <2>1 DEF Failing
  <2> QED
    BY <1>0, <1>1, <1>4, <2>1, <2>2, <2>3 DEF Moves, Blank
<1>14. CASE Park
  <2>1. /\ Active /\ Active' /\ UNCHANGED <<line, maintainerBox, stop>>
        /\ developerBox # <<>> /\ developerBox' = Tail(developerBox)
        /\ \/ Head(developerBox).type = "architect_task"
           \/ line.pc = "test"
    BY <1>14 DEF Park, Serving, Active
  <2>2. Head(developerBox).type # "architect_task"
    <3> SUFFICES ASSUME developerBox[1].type = "architect_task" PROVE FALSE
      BY <1>8, <2>1
    <3>1. developerBox[1].phase \in Phases /\ developerBox[1] = Blueprint(developerBox[1].phase)
      BY <1>8, <2>1 DEF Mail, Kinds, Blueprint, Message
    <3> QED
      BY <1>6, <1>8, <2>1, <3>1 DEF Holds
  <2>3. line'.arrived = NumBatches
    BY <2>1, <2>2 DEF ActInv
  <2>4. Supply'
    BY <1>0, <1>1, <1>5, <1>7, <2>1, <2>3 DEF Supply
  <2>5. Moves'
    BY <1>0, <1>1, <1>4, <2>1, MovesStay DEF Failing, AtWork
  <2> QED
    BY <2>1, <2>3, <2>4, <2>5 DEF Active
<1>15. CASE Pause
  <2>1. line'.pc = "dead" /\ Active /\ stop' # "none" /\ UNCHANGED <<developerBox, maintainerBox>>
    BY <1>0, <1>15 DEF Pause, Serving, Active, Lines, boxes
  <2>2. Supply'
    BY <1>0, <2>1, LineLeaves
  <2> QED
    BY <2>1, <2>2 DEF Moves
<1>16. CASE CloseOut
  <2>1. /\ line.pc = "closing" /\ developerBox' = <<>> /\ maintainerBox' = maintainerBox
        /\ line'.pc = IF stop' = "none" THEN "idle" ELSE "dead"
        /\ stop' = "none" => stop = "none" /\ ~Failing
    BY <1>0, <1>16 DEF CloseOut, Idle, Failing
  <2>2. ~AtWork /\ ~Active'
    BY <1>0, <2>1 DEF ActInv, Active
  <2>3. Supply'
    BY <2>1, <2>2, EmptyBox DEF Supply
  <2>4. Settled' = Settled
    BY <1>0, <2>1 DEF Settled, IsTerminal
  <2>5. Moves'
    BY <1>0, <1>1, <1>4, <2>1, <2>2, <2>4 DEF Moves, Blank, Expecting
  <2> QED
    BY <2>1, <2>3, <2>5
<1> QED
  BY <1>9, <1>10, <1>11, <1>12, <1>13, <1>14, <1>15, <1>16 DEF Developer

\* Every step of the first process.
LEMMA ActsKeep ==
    ASSUME IInv, runs <= 1 => ActInv, "throw" \notin Faults, [Next]_vars
    PROVE  runs' <= 1 => ActInv'
<1>0. IInv' /\ TypeInv' /\ runs \in Nat
  <2>1. runs \in Nat
    BY PhaseRunConstants DEF IInv, TypeInv
  <2> QED
    BY <2>1, CourseKeeps DEF IInv
<1>1. SUFFICES ASSUME runs' <= 1 PROVE ActInv'
  OBVIOUS
<1>2. CASE Start
  <2>1. ActInv
    BY <1>0, <1>1, <1>2 DEF Start
  <2> QED
    BY <1>0, <1>1, <1>2, <2>1, ActsBegin
<1>3. CASE ~Start
  <2>1. runs' = runs
    <3>1. CASE Kill \/ Exit
      BY <3>1 DEF Kill, Exit
    <3>2. CASE Driver
      <4>1. CASE TakeRequest
        BY <4>1 DEF TakeRequest
      <4>2. CASE TakeStop \/ SettleFailed \/ Settle
        BY <4>2 DEF TakeStop, SettleFailed, Settle
      <4> QED
        BY <3>2, <4>1, <4>2 DEF Driver
    <3>3. CASE Maintainer
      <4>1. CASE Write
        BY <4>1 DEF Write
      <4>2. ASSUME NEW p \in Phases, TakeDeclared(p) \/ TakeTerminal(p) PROVE runs' = runs
        BY <4>2 DEF TakeDeclared, TakeTerminal
      <4> QED
        BY <3>3, <4>1, <4>2 DEF Maintainer
    <3>4. CASE Developer
      BY <3>4 DEF Developer, TakeTask, WorkRests, TakeBatch, TakeCancel, Park, TestAnswered, GiveUp, Throw,
             HumanStop, Pause, CloseOut
    <3>5. ASSUME NEW p \in Phases, Retry(p) \/ Architect(p) PROVE runs' = runs
      BY <3>5 DEF Retry, Architect, TakePlan, TakePhaseDone, Declare, Reject, SendItem, FailSplit, SaveOutput
    <3>6. CASE UNCHANGED vars
      BY <3>6 DEF vars
    <3> QED
      BY <1>3, <3>1, <3>2, <3>3, <3>4, <3>5, <3>6 DEF Next
  <2>2. ActInv
    BY <1>1, <2>1
  <2>3. CASE Kill \/ Exit
    <3>1. Up /\ ~Up' /\ line'.pc = "idle"
      BY <1>0, <2>3 DEF Kill, Exit, Off, Fresh, Idle, Up, IInv, TypeInv, Drivers
    <3> QED
      BY <2>1, <2>2, <3>1 DEF ActInv
  <2>4. CASE Driver
    BY <1>0, <2>2, <2>4, DriverKeepsActs
  <2>5. CASE Maintainer
    BY <1>0, <2>2, <2>5, MaintainerKeepsActs
  <2>6. CASE Developer
    BY <1>0, <2>2, <2>6, DeveloperKeepsActs
  <2>7. ASSUME NEW p \in Phases, Architect(p) PROVE ActInv'
    BY <1>0, <2>2, <2>7, ArchitectKeepsActs
  <2>8. ASSUME NEW p \in Phases, Retry(p) PROVE ActInv'
    <3>1. ~Up' /\ UNCHANGED <<line, stop>> /\ runs # 0
      BY <2>2, <2>8 DEF Retry, ActInv, Up, volatile
    <3> QED
      BY <2>1, <2>2, <3>1 DEF ActInv
  <2>9. CASE UNCHANGED vars
    <3>1. UNCHANGED <<line, stop, row, runs, Up>>
      BY <2>9 DEF vars, durable, volatile, Up
    <3>2. UNCHANGED <<driver, split, dispatched, line, stop, maint, writing>>
          /\ UNCHANGED <<managerBox, architectBox, maintainerBox, developerBox>>
      BY <2>9 DEF vars, durable, volatile, boxes
    <3>3. AtWork' = AtWork /\ Planned' = Planned
      BY <3>2 DEF AtWork, Active, Unsent, Blueprint, Planned
    <3>4. CASE Up
      <4>1. Keys /\ Supply /\ Moves /\ NumBatches \in Nat
        BY <2>2, <3>4, PhaseRunConstants DEF ActInv
      <4>2. Keys'
        BY <3>2, <3>3, <4>1, KeysStay
      <4>3. Supply'
        BY <3>2, <4>1, SupplyStays
      <4>4. Moves'
        BY <3>2, <3>3, <4>1, MovesStay DEF Requested, Planning, Failing
      <4> QED
        BY <2>2, <3>1, <3>3, <3>4, <4>2, <4>3, <4>4 DEF ActInv
    <3> QED
      BY <2>2, <3>1, <3>4 DEF ActInv
  <2> QED
    BY <1>3, <2>3, <2>4, <2>5, <2>6, <2>7, <2>8, <2>9 DEF Next
<1> QED
  BY <1>2, <1>3

\* What the first process waits for is under way.
LEMMA ActsFollow ==
    ASSUME IInv, ActInv
    PROVE  SomebodyWillAct
<1> SUFFICES ASSUME driver.pc = "waiting", stop = "none", writing = {}, managerBox = <<>>, architectBox = <<>>,
                    maintainerBox = <<>>, developerBox = <<>>, \A p \in Phases : split[p].stage = "off",
                    line.pc \in {"idle", "item", "dead"}
             PROVE  FALSE
  BY DEF SomebodyWillAct
<1>0. Up /\ TypeInv /\ Course /\ driver.at \in Phases /\ split[driver.at].stage = "off"
  BY DEF Up, IInv, TypeInv, Drivers
<1>1. Supply /\ Moves /\ line.pc # "dead"
  BY <1>0 DEF ActInv
<1>2. ~Requested /\ ~Planning /\ ~Settled /\ ~Unsent /\ ~Failing /\ \A q \in Phases : ~Holds(developerBox, Blueprint(q))
  BY <1>0, EmptyHolds, EmptyBox DEF Requested, Planning, Settled, Unsent, Failing
<1>3. ~Active
  <2> SUFFICES ASSUME Active PROVE FALSE
    OBVIOUS
  <2>1. line.arrived < NumBatches /\ line.arrived \in Nat /\ NumBatches \in Nat
    BY <1>0, PhaseRunConstants DEF TypeInv, Lines, Active
  <2>2. line.arrived + 1 \in 1..NumBatches /\ line.arrived + 1 > line.arrived
    BY <2>1
  <2>3. ~Behind(0, line.arrived + 1) /\ ~ToCome(line.arrived + 1)
    BY <1>0, EmptyBox DEF Behind, ToCome
  <2> QED
    BY <1>1, <2>2, <2>3 DEF Supply
<1>4. ~AtWork
  BY <1>2, <1>3 DEF AtWork
<1>5. Blank
  BY <1>0, <1>1, <1>2, <1>4, EmptyBox DEF Course, Account, Quiet, Refused, Declared, Told, Awaited, Known, Booked1,
         Booking, Moves, Expecting
<1> QED
  BY <1>1, <1>2, <1>5 DEF Moves

\* If no split fails, the driver of a project's first process never waits for something nobody will do
\* (SomebodyWillAct), whatever the number of phases and items, and although tasks are given up, thrown, stopped,
\* paused or refused and writes of rows are lost.
THEOREM SomebodyActs == "throw" \notin Faults => (Spec => [](runs <= 1 => SomebodyWillAct))
<1> SUFFICES ASSUME "throw" \notin Faults PROVE Spec => [](runs <= 1 => SomebodyWillAct)
  OBVIOUS
<1> DEFINE Inv == IInv /\ (runs <= 1 => ActInv)
<1>1. Init => Inv
  BY CourseFirst, Begun DEF ActInv, Up, Idle
<1>2. Inv /\ [Next]_vars => Inv'
  BY CourseKeeps, ActsKeep
<1>3. Inv => (runs <= 1 => SomebodyWillAct)
  BY ActsFollow
<1> QED
  BY <1>1, <1>2, <1>3, PTL DEF Spec
=============================================================================
