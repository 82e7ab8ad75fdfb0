------------------------- MODULE ConfirmGate_proofs -------------------------
(***************************************************************************)
(* Proofs about the confirm gate, for any number of engines, people and    *)
(* sweeps.  The conditional update makes a settled card final; from that   *)
(* follows that whatever was learned from it, or queued because of it,     *)
(* stays true.                                                             *)
(***************************************************************************)
EXTENDS ConfirmGate, TLAPS

\* A permission card is decided by rulings only, a question by texts, and a
\* permit is one that a person sent.
RightKind ==
    /\ row.decision \in Rulings => kind = "permission"
    /\ row.decision \in Permits => \E p \in People : person[p].wants = row.decision
    /\ \A p \in People : person[p].pc = "write" =>
           person[p].wants \in IF kind = "permission" THEN Rulings ELSE Answers
    /\ \A p \in People : person[p].pc = "off" => person[p].wants = None

\* Who is about to write the rule, or has, decided the card.
RuleDecided ==
    /\ RuleOnlyIfDecided
    /\ \A p \in People : person[p].pc = "remember" =>
           row = [status |-> "answered", decision |-> "allow_always"]

IInv == TypeOK /\ EnginesAgree /\ RightKind /\ RuleDecided

\* The invariant holds of a card nobody has asked for.
LEMMA InitIInv == Init => IInv
<1> SUFFICES ASSUME Init PROVE IInv
  OBVIOUS
<1> USE ConfirmGateConstants DEF Init, None
<1>1. TypeOK
  BY DEF TypeOK, Cards
<1>2. EnginesAgree
  BY DEF EnginesAgree
<1>3. RightKind
  BY DEF RightKind, Rulings, Permits, Decisions
<1>4. RuleDecided
  BY DEF RuleDecided, RuleOnlyIfDecided
<1> QED
  BY <1>1, <1>2, <1>3, <1>4 DEF IInv

\* A settled card stays as it is, whatever step is taken.
LEMMA SettledStays ==
    ASSUME IInv, [Next]_vars, Settled
    PROVE  row' = row
<1>1. CASE UNCHANGED vars
  BY <1>1 DEF vars
<1>2. ASSUME NEW e \in Engines, EngineSteps(e) \/ EngineDies(e)
      PROVE  row' = row
  BY <1>2 DEF EngineSteps, Ask, Insert, Poll, Pass, Lapse, Reread, EngineDies, Settled
<1>3. ASSUME NEW p \in People, Write(p) \/ Remember(p) \/ \E d \in Decisions : Submit(p, d)
      PROVE  row' = row
  BY <1>3 DEF Write, Remember, Submit, Settled
<1>4. ASSUME NEW s \in Sweepers, Find(s) \/ Sweep(s)
      PROVE  row' = row
  BY <1>4 DEF Find, Sweep, Lapse, Settled
<1>5. CASE Expire
  BY <1>5 DEF Expire
<1> QED
  BY <1>1, <1>2, <1>3, <1>4, <1>5 DEF Next

\* A step keeps the types: a card is written with its status and its decision together.
LEMMA TypeOKStep ==
    ASSUME IInv, [Next]_vars
    PROVE  TypeOK'
<1> USE DEF IInv, TypeOK, Cards
<1>1. CASE UNCHANGED vars
  BY <1>1 DEF vars
<1>2. ASSUME NEW e \in Engines, EngineSteps(e) \/ EngineDies(e)
      PROVE  TypeOK'
  <2>1. row.decision \in Decisions \cup {None}
    OBVIOUS
  <2>2. CASE Ask(e)
    BY <2>2 DEF Ask, EngineTo
  <2>3. CASE Insert(e)
    BY <2>3 DEF Insert, EngineTo
  <2>4. CASE Poll(e)
    BY <2>1, <2>4 DEF Poll, EngineTo, Deliver
  <2>5. CASE Pass(e)
    BY <2>5 DEF Pass, Lapse, EngineTo, Decisions, Rulings
  <2>6. CASE Reread(e)
    BY <2>1, <2>6 DEF Reread, Deliver
  <2>7. CASE EngineDies(e)
    BY <2>7 DEF EngineDies
  <2> QED
    BY <1>2, <2>2, <2>3, <2>4, <2>5, <2>6, <2>7 DEF EngineSteps
<1>3. ASSUME NEW p \in People, Write(p) \/ Remember(p) \/ \E d \in Decisions : Submit(p, d)
      PROVE  TypeOK'
  <2>1. CASE Write(p)
    <3>1. person[p].wants \in Decisions
      BY <2>1, ConfirmGateConstants DEF RightKind, Write, Decisions
    <3> QED
      BY <2>1, <3>1 DEF Write
  <2>2. CASE Remember(p)
    BY <2>2 DEF Remember
  <2>3. CASE \E d \in Decisions : Submit(p, d)
    BY <2>3 DEF Submit
  <2> QED
    BY <1>3, <2>1, <2>2, <2>3
<1>4. ASSUME NEW s \in Sweepers, Find(s) \/ Sweep(s)
      PROVE  TypeOK'
  BY <1>4 DEF Find, Sweep, Lapse, Decisions, Rulings
<1>5. CASE Expire
  BY <1>5 DEF Expire
<1> QED
  BY <1>1, <1>2, <1>3, <1>4, <1>5 DEF Next

\* A step keeps what an engine got equal to the card's decision: the card no longer
\* changes, and what is new was just read.
LEMMA EnginesAgreeStep ==
    ASSUME IInv, [Next]_vars
    PROVE  EnginesAgree'
<1> USE DEF IInv, EnginesAgree
<1>1. ASSUME NEW f \in Engines, engine[f].got # None
      PROVE  row' = row
  <2>1. Settled
    BY <1>1 DEF TypeOK, Cards, Settled
  <2> QED
    BY <2>1, SettledStays
<1>2. CASE UNCHANGED vars
  BY <1>2 DEF vars
<1>3. ASSUME NEW e \in Engines, EngineSteps(e) \/ EngineDies(e)
      PROVE  EnginesAgree'
  <2> SUFFICES ASSUME NEW f \in Engines, engine'[f].got # None
               PROVE  engine'[f].got = row'.decision
    OBVIOUS
  <2>1. CASE engine'[f].got = engine[f].got
    BY <1>1, <2>1
  <2>2. CASE engine'[f].got # engine[f].got
    BY <1>3, <2>2 DEF EngineSteps, Ask, Insert, Poll, Pass, Reread, EngineDies, Deliver, EngineTo, TypeOK
  <2> QED
    BY <2>1, <2>2
<1>4. CASE UNCHANGED engine
  BY <1>1, <1>4
<1>5. CASE \E p \in People : Write(p) \/ Remember(p) \/ \E d \in Decisions : Submit(p, d)
  BY <1>4, <1>5 DEF Write, Remember, Submit
<1>6. CASE \E s \in Sweepers : Find(s) \/ Sweep(s)
  BY <1>4, <1>6 DEF Find, Sweep
<1>7. CASE Expire
  BY <1>4, <1>7 DEF Expire
<1> QED
  BY <1>2, <1>3, <1>5, <1>6, <1>7 DEF Next

\* Lapse, whoever does it, keeps decision and kind together.
LEMMA LapseRightKind ==
    ASSUME TypeOK, RightKind, Lapse, UNCHANGED <<kind, person>>
    PROVE  RightKind'
<1>1. CASE row' = row
  BY <1>1 DEF RightKind
<1>2. CASE row' # row
  <2>1. row'.decision = IF kind = "permission" THEN "deny" ELSE Default
    BY <1>2 DEF Lapse
  <2>2. "deny" \notin Permits /\ Default \notin Rulings /\ Permits \subseteq Rulings
    BY ConfirmGateConstants DEF Rulings, Permits
  <2> QED
    BY <2>1, <2>2 DEF RightKind
<1> QED
  BY <1>1, <1>2

\* A step keeps decisions of the card's kind, and permits those a person sent.
LEMMA RightKindStep ==
    ASSUME IInv, [Next]_vars
    PROVE  RightKind'
<1> USE DEF IInv
<1>0. None \notin Rulings /\ Permits \subseteq Rulings /\ Rulings \cap Answers = {}
  BY ConfirmGateConstants DEF Decisions, Rulings
<1>1. CASE UNCHANGED <<kind, row, person>>
  BY <1>1 DEF RightKind
<1>2. ASSUME NEW e \in Engines, EngineSteps(e) \/ EngineDies(e)
      PROVE  RightKind'
  <2>1. CASE Insert(e)
    <3>1. CASE row' = row
      BY <1>1, <2>1, <3>1 DEF Insert
    <3>2. CASE row'.decision = None
      BY <1>0, <2>1, <3>2 DEF Insert, RightKind
    <3> QED
      BY <2>1, <3>1, <3>2 DEF Insert
  <2>2. CASE Pass(e)
    BY <2>2, LapseRightKind DEF Pass
  <2>3. CASE Ask(e) \/ Poll(e) \/ Reread(e) \/ EngineDies(e)
    BY <1>1, <2>3 DEF Ask, Poll, Reread, EngineDies
  <2> QED
    BY <1>2, <2>1, <2>2, <2>3 DEF EngineSteps
<1>3. ASSUME NEW p \in People, Write(p)
      PROVE  RightKind'
  <2>1. \A q \in People : person'[q].wants = person[q].wants
    BY <1>3 DEF Write, TypeOK
  <2>2. \A q \in People : person'[q].pc \in {"write", "off"} => person'[q].pc = person[q].pc
    BY <1>3 DEF Write, TypeOK
  <2>3. kind' = kind
    BY <1>3 DEF Write
  <2>4. \A q \in People :
            /\ person'[q].pc = "write" =>
                   person'[q].wants \in IF kind' = "permission" THEN Rulings ELSE Answers
            /\ person'[q].pc = "off" => person'[q].wants = None
    BY <2>1, <2>2, <2>3 DEF RightKind
  <2>5. CASE row' = row
    BY <2>1, <2>3, <2>4, <2>5 DEF RightKind
  <2>6. CASE row'.decision = person[p].wants
    <3>1. person[p].wants \in IF kind = "permission" THEN Rulings ELSE Answers
      BY <1>3 DEF Write, RightKind
    <3> QED
      BY <1>0, <2>1, <2>3, <2>4, <2>6, <3>1 DEF RightKind
  <2> QED
    BY <1>3, <2>5, <2>6 DEF Write
<1>4. ASSUME NEW p \in People, NEW d \in Decisions, Submit(p, d)
      PROVE  RightKind'
  <2>1. person[p].pc = "off" /\ row' = row /\ kind' = kind
    BY <1>4 DEF Submit
  <2>2. \A q \in People : q # p => person'[q] = person[q]
    BY <1>4 DEF Submit, TypeOK
  <2>3. person'[p].wants \in IF kind = "permission" THEN Rulings ELSE Answers
    BY <1>4 DEF Submit, TypeOK
  <2>4. person[p].wants \notin Permits
    BY <1>0, <2>1, ConfirmGateConstants DEF RightKind, Decisions
  <2>5. person'[p].pc = "write"
    BY <1>4 DEF Submit, TypeOK
  <2>6. \A q \in People : person'[q].pc = "write" =>
            person'[q].wants \in IF kind' = "permission" THEN Rulings ELSE Answers
    BY <2>1, <2>2, <2>3 DEF RightKind
  <2>7. row'.decision \in Permits => \E q \in People : person'[q].wants = row'.decision
    BY <2>1, <2>2, <2>4 DEF RightKind
  <2> QED
    BY <2>1, <2>2, <2>5, <2>6, <2>7 DEF RightKind
<1>5. ASSUME NEW p \in People, Remember(p)
      PROVE  RightKind'
  BY <1>5 DEF Remember, RightKind, TypeOK
<1>6. ASSUME NEW s \in Sweepers, Find(s) \/ Sweep(s)
      PROVE  RightKind'
  BY <1>1, <1>6, LapseRightKind DEF Find, Sweep
<1>7. CASE Expire
  BY <1>1, <1>7 DEF Expire
<1>8. CASE UNCHANGED vars
  BY <1>1, <1>8 DEF vars
<1> QED
  BY <1>2, <1>3, <1>4, <1>5, <1>6, <1>7, <1>8 DEF Next

\* A step keeps rules to those decided: only the winner of the update writes one.
LEMMA RuleDecidedStep ==
    ASSUME IInv, [Next]_vars
    PROVE  RuleDecided'
<1> DEFINE Always == row = [status |-> "answered", decision |-> "allow_always"]
<1> USE DEF IInv
<1>1. ASSUME Always PROVE Always'
  <2>1. Settled
    BY <1>1 DEF Settled
  <2> QED
    BY <1>1, <2>1, SettledStays
<1>2. CASE UNCHANGED <<rule, person>>
  BY <1>1, <1>2 DEF RuleDecided, RuleOnlyIfDecided
<1>3. ASSUME NEW e \in Engines, EngineSteps(e) \/ EngineDies(e)
      PROVE  RuleDecided'
  BY <1>2, <1>3 DEF EngineSteps, Ask, Insert, Poll, Pass, Reread, EngineDies
<1>4. ASSUME NEW p \in People, Write(p)
      PROVE  RuleDecided'
  <2>1. \A q \in People : q # p => person'[q] = person[q]
    BY <1>4 DEF Write, TypeOK
  <2>2. person'[p].pc = "remember" => Always'
    BY <1>4 DEF Write, Remembers, TypeOK
  <2>3. rule' = rule
    BY <1>4 DEF Write
  <2> QED
    BY <1>1, <2>1, <2>2, <2>3 DEF RuleDecided, RuleOnlyIfDecided
<1>5. ASSUME NEW p \in People, NEW d \in Decisions, Submit(p, d)
      PROVE  RuleDecided'
  BY <1>1, <1>5 DEF Submit, RuleDecided, RuleOnlyIfDecided, TypeOK
<1>6. ASSUME NEW p \in People, Remember(p)
      PROVE  RuleDecided'
  BY <1>1, <1>6 DEF Remember, RuleDecided, RuleOnlyIfDecided, TypeOK
<1>7. ASSUME NEW s \in Sweepers, Find(s) \/ Sweep(s)
      PROVE  RuleDecided'
  BY <1>2, <1>7 DEF Find, Sweep
<1>8. CASE Expire
  BY <1>2, <1>8 DEF Expire
<1>9. CASE UNCHANGED vars
  BY <1>2, <1>9 DEF vars
<1> QED
  BY <1>3, <1>4, <1>5, <1>6, <1>7, <1>8, <1>9 DEF Next

\* The inductive invariant holds.
THEOREM Invariance == Spec => []IInv
<1>1. IInv /\ [Next]_vars => IInv'
  BY TypeOKStep, EnginesAgreeStep, RightKindStep, RuleDecidedStep DEF IInv
<1> QED
  BY InitIInv, <1>1, PTL DEF Spec

\* A card has a decision exactly when it is settled.
THEOREM GateTyped == Spec => []TypeOK
<1>1. IInv => TypeOK
  BY DEF IInv
<1> QED
  BY Invariance, <1>1, PTL

\* A settled card never changes (answer and passExpired update only a pending one).
THEOREM CardsSettleForGood == Spec => SettledForGood
<1>1. IInv /\ [Next]_vars => [Settled => row' = row]_vars
  BY SettledStays
<1> QED
  BY Invariance, <1>1, PTL DEF Spec, SettledForGood

\* All engines that got a decision got the same, the card's.
THEOREM AllEnginesAgree == Spec => []EnginesAgree
<1>1. IInv => EnginesAgree
  BY DEF IInv
<1> QED
  BY Invariance, <1>1, PTL

\* No timeout ever permits a command.
THEOREM OnlyPeoplePermit == Spec => []PermitsComeFromPeople
<1>1. IInv => PermitsComeFromPeople
  <2> SUFFICES ASSUME IInv, NEW e \in Engines, engine[e].got \in Permits
               PROVE  kind = "permission" /\ \E p \in People : person[p].wants = engine[e].got
    BY DEF PermitsComeFromPeople
  <2>1. engine[e].got = row.decision
    BY ConfirmGateConstants DEF IInv, EnginesAgree, Decisions, Rulings
  <2> QED
    BY <2>1 DEF IInv, RightKind, Rulings
<1> QED
  BY Invariance, <1>1, PTL

\* A standing rule is there only on a card decided "always".
THEOREM RulesAreDecided == Spec => []RuleOnlyIfDecided
<1>1. IInv => RuleOnlyIfDecided
  BY DEF IInv, RuleDecided
<1> QED
  BY Invariance, <1>1, PTL

\* The gate implements the one-time decision.
THEOREM GateImplementsDecision == Spec => ImplementsDecision
<1> USE DEF None
<1>1. Init => Gate!Init
  BY DEF Init, Gate!Init
<1>2. IInv /\ IInv' /\ [Next]_vars => [Gate!Next]_Gate!vars
  <2> SUFFICES ASSUME IInv, IInv', [Next]_vars
               PROVE  [Gate!Next]_Gate!vars
    OBVIOUS
  <2> DEFINE Known == [e \in Engines |-> engine[e].got]
  <2>1. CASE UNCHANGED <<row, engine>>
    BY <2>1 DEF Gate!vars
  <2>2. ASSUME UNCHANGED engine, row' # row
        PROVE  [Gate!Next]_Gate!vars
    <3>1. row.decision = "none"
      BY <2>2, SettledStays DEF IInv, TypeOK, Cards, Settled
    <3>2. row'.decision = "none" \/ row'.decision \in Decisions
      BY DEF IInv, TypeOK, Cards
    <3> QED
      BY <2>2, <3>1, <3>2 DEF Gate!Next, Gate!Decide, Gate!vars
  <2>3. ASSUME NEW e \in Engines, EngineSteps(e) \/ EngineDies(e)
        PROVE  [Gate!Next]_Gate!vars
    <3>1. ASSUME row' = row, NEW v, engine'[e].got = v,
                 engine' = [engine EXCEPT ![e] = engine'[e]],
                 v = "none" \/ v = row.decision
          PROVE  [Gate!Next]_Gate!vars
      <4>1. Known' = [Known EXCEPT ![e] = v]
        BY <3>1 DEF IInv, TypeOK
      <4> QED
        BY <3>1, <4>1 DEF Gate!Next, Gate!Learn, Gate!Forget, Gate!vars
    <3>2. CASE Insert(e) \/ Pass(e)
      <4>1. Known' = Known
        BY <3>2 DEF Insert, Pass, EngineTo, IInv, TypeOK
      <4>2. CASE row' = row
        BY <4>1, <4>2 DEF Gate!vars
      <4>3. CASE row' # row
        <5>1. row.decision = "none"
          BY <4>3, SettledStays DEF IInv, TypeOK, Cards, Settled
        <5>2. row'.decision = "none" \/ row'.decision \in Decisions
          BY DEF IInv, TypeOK, Cards
        <5> QED
          BY <4>1, <5>1, <5>2 DEF Gate!Next, Gate!Decide, Gate!vars
      <4> QED
        BY <4>2, <4>3
    <3>3. CASE Ask(e)
      <4>1. Known' = Known /\ row' = row
        BY <3>3 DEF Ask, EngineTo, IInv, TypeOK
      <4> QED
        BY <4>1 DEF Gate!vars
    <3>4. CASE Poll(e) \/ Reread(e)
      <4>1. row' = row
        BY <3>4 DEF Poll, Reread
      <4>2. CASE Deliver(e)
        BY <3>1, <4>1, <4>2 DEF Deliver, IInv, TypeOK
      <4>3. CASE EngineTo(e, "pass")
        <5>1. Known' = Known
          BY <4>3 DEF EngineTo, IInv, TypeOK
        <5> QED
          BY <4>1, <5>1 DEF Gate!vars
      <4> QED
        BY <3>4, <4>2, <4>3 DEF Poll, Reread
    <3>5. CASE EngineDies(e)
      BY <3>1, <3>5 DEF EngineDies, IInv, TypeOK
    <3> QED
      BY <2>3, <3>2, <3>3, <3>4, <3>5 DEF EngineSteps
  <2>4. CASE \E p \in People : Write(p) \/ Remember(p) \/ \E d \in Decisions : Submit(p, d)
    BY <2>1, <2>2, <2>4 DEF Write, Remember, Submit
  <2>5. CASE \E s \in Sweepers : Find(s) \/ Sweep(s)
    BY <2>1, <2>2, <2>5 DEF Find, Sweep
  <2>6. CASE Expire
    BY <2>1, <2>6 DEF Expire
  <2>7. CASE UNCHANGED vars
    BY <2>1, <2>7 DEF vars
  <2> QED
    BY <2>3, <2>4, <2>5, <2>6, <2>7 DEF Next
<1> QED
  BY Invariance, <1>1, <1>2, PTL DEF Spec, ImplementsDecision, Gate!Spec
=============================================================================
