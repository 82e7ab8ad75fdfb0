--------------------------- MODULE TokenGate_proofs ---------------------------
(***************************************************************************)
(* Proofs about the token gate, for any finite set of callers, any         *)
(* settings and any number of calls.  Types, accounting, the wake-up       *)
(* invariant and the upper bound are inductive together:                   *)
(*   - accounting turns inUse into the number of callers inside, so that   *)
(*     release() never goes below zero and the head of the queue sleeps;   *)
(*   - the wake-up invariant needs that a caller only queues when inUse    *)
(*     has reached a limit in force, hence MinLimit.                       *)
(***************************************************************************)
EXTENDS TokenGate, FiniteSetTheorems, TLAPS

Inv == TypeOK /\ Accounting /\ NoLostWakeup /\ InsideAtMostLargest

States == {"out", "queued", "woken", "inside"}

-----------------------------------------------------------------------------
\* The limit in force lies between the two bounds, whatever the setting.
LEMMA LimitInBounds ==
    ASSUME TypeOK
    PROVE  Limit \in Nat /\ MinLimit <= Limit /\ Limit <= MaxLimit
BY LimitBounds DEF TypeOK, Limit

\* Every set of callers in one state is finite, so it can be counted.
LEMMA Countable ==
    ASSUME NEW w
    PROVE  IsFiniteSet(In(w)) /\ Cardinality(In(w)) \in Nat
<1>1. In(w) \subseteq Callers
  BY DEF In
<1>. QED
  BY <1>1, CallersFinite, FS_Subset, FS_CardinalityType

\* A caller that enters a state adds one to it.
LEMMA Entering ==
    ASSUME NEW S, NEW c, c \notin S, IsFiniteSet(S)
    PROVE  Cardinality(S \cup {c}) = Cardinality(S) + 1
BY FS_AddElement

\* A caller that leaves a state takes one from it.
LEMMA Leaving ==
    ASSUME NEW S, NEW c, c \in S, IsFiniteSet(S)
    PROVE  Cardinality(S \ {c}) = Cardinality(S) - 1
BY FS_RemoveElement

-----------------------------------------------------------------------------
\* Everything the invariant says holds before the first call.
LEMMA InitInv == Init => Inv
<1>. SUFFICES ASSUME Init PROVE Inv
  OBVIOUS
<1>. USE DEF Init
<1>1. TypeOK
  BY LimitBounds DEF TypeOK
<1>2. In("inside") = {}
  BY DEF In
<1>3. Accounting
  BY <1>2, FS_EmptySet DEF Accounting
<1>4. NoLostWakeup /\ InsideAtMostLargest
  BY LimitBounds DEF NoLostWakeup, InsideAtMostLargest
<1>. QED
  BY <1>1, <1>3, <1>4 DEF Inv

\* One pass of the loop in acquire(), new or woken, keeps the invariant.
LEMMA TryAcquireInv ==
    ASSUME Inv, NEW c \in Callers, state[c] \in {"out", "woken"}, TryAcquire(c),
           setting' = setting, calls' \in [Callers -> 0..MaxCalls]
    PROVE  Inv'
<1>. USE DEF Inv
<1>0. Limit \in Nat /\ MinLimit <= Limit /\ Limit <= MaxLimit
  BY LimitInBounds
<1>1. CASE /\ inUse < Limit
           /\ inUse' = inUse + 1
           /\ state' = [state EXCEPT ![c] = "inside"]
           /\ UNCHANGED waiters
  <2>1. TypeOK'
    BY <1>1 DEF TypeOK
  <2>2. In("inside")' = In("inside") \cup {c} /\ c \notin In("inside")
    BY <1>1 DEF In, TypeOK
  <2>3. Cardinality(In("inside")') = inUse'
    BY <1>1, <2>2, Countable, Entering DEF Accounting
  <2>4. Accounting'
    BY <1>1, <2>3 DEF Accounting, TypeOK
  <2>5. Cardinality(In("woken")') >= Cardinality(In("woken")) - 1
    <3>1. CASE state[c] = "woken"
      <4>1. In("woken")' = In("woken") \ {c} /\ c \in In("woken")
        BY <1>1, <3>1 DEF In, TypeOK
      <4>. QED
        BY <4>1, Countable, Leaving
    <3>2. CASE state[c] = "out"
      <4>1. In("woken")' = In("woken")
        BY <1>1, <3>2 DEF In, TypeOK
      <4>. QED
        BY <4>1, Countable
    <3>. QED
      BY <3>1, <3>2
  <2>6. NoLostWakeup'
    <3>1. In("woken")' = {d \in Callers : state'[d] = "woken"}
      BY DEF In
    <3>2. Cardinality(In("woken")) \in Nat /\ Cardinality(In("woken")') \in Nat
      BY <3>1, CallersFinite, FS_Subset, FS_CardinalityType, Countable
    <3>. QED
      BY <1>1, <2>5, <3>2, LimitBounds DEF NoLostWakeup, TypeOK
  <2>7. InsideAtMostLargest'
    BY <1>0, <1>1, LimitBounds DEF InsideAtMostLargest, TypeOK
  <2>. QED
    BY <2>1, <2>4, <2>6, <2>7
<1>2. CASE /\ inUse >= Limit
           /\ waiters' = Append(waiters, c)
           /\ state' = [state EXCEPT ![c] = "queued"]
           /\ UNCHANGED inUse
  <2>1. TypeOK'
    BY <1>2 DEF TypeOK
  <2>2. In("inside")' = In("inside")
    BY <1>2 DEF In, TypeOK
  <2>3. Accounting'
    <3>1. \A i \in 1..Len(waiters) : waiters[i] # c
      BY DEF Accounting, TypeOK
    <3>2. /\ Len(waiters') = Len(waiters) + 1
          /\ \A i \in 1..Len(waiters) : waiters'[i] = waiters[i]
          /\ waiters'[Len(waiters) + 1] = c
          /\ Len(waiters) \in Nat
      BY <1>2 DEF TypeOK
    <3>3. \A d \in Callers : state'[d] = "queued"
             <=> \E i \in 1..Len(waiters') : waiters'[i] = d
      BY <1>2, <3>2 DEF Accounting, TypeOK
    <3>4. \A i, j \in 1..Len(waiters') : waiters'[i] = waiters'[j] => i = j
      BY <3>1, <3>2 DEF Accounting
    <3>. QED
      BY <1>2, <2>2, <3>3, <3>4 DEF Accounting
  <2>4. NoLostWakeup'
    <3>1. In("woken")' = {d \in Callers : state'[d] = "woken"}
      BY DEF In
    <3>2. Cardinality(In("woken")') \in Nat
      BY <3>1, CallersFinite, FS_Subset, FS_CardinalityType
    <3>. QED
      BY <1>0, <1>2, <3>2, LimitBounds DEF NoLostWakeup, TypeOK
  <2>5. InsideAtMostLargest'
    BY <1>2 DEF InsideAtMostLargest
  <2>. QED
    BY <2>1, <2>3, <2>4, <2>5
<1>. QED
  BY <1>1, <1>2 DEF TryAcquire

\* Giving a token back keeps the invariant: what inUse loses, the woken gain.
LEMMA ReleaseInv ==
    ASSUME Inv, NEW c \in Callers, Release(c)
    PROVE  Inv'
<1>. USE DEF Inv
<1>1. c \in In("inside") /\ inUse >= 1
  <2>1. c \in In("inside")
    BY DEF Release, In
  <2>2. Cardinality(In("inside") \ {c}) \in Nat
    BY Countable, FS_RemoveElement, FS_CardinalityType
  <2>. QED
    BY <2>1, <2>2, Countable, Leaving DEF Accounting
<1>2. CASE waiters = <<>>
  <2>1. /\ inUse' = inUse - 1
        /\ state' = [state EXCEPT ![c] = "out"]
        /\ waiters' = <<>> /\ UNCHANGED <<setting, calls>>
    BY <1>2 DEF Release
  <2>2. TypeOK'
    BY <1>1, <2>1 DEF TypeOK
  <2>3. In("inside")' = In("inside") \ {c}
    BY <2>1 DEF In, TypeOK
  <2>4. Accounting'
    BY <1>1, <1>2, <2>1, <2>3, Countable, Leaving DEF Accounting, TypeOK, Release
  <2>5. NoLostWakeup' /\ InsideAtMostLargest'
    BY <2>1, LimitBounds DEF NoLostWakeup, InsideAtMostLargest, TypeOK
  <2>. QED
    BY <2>2, <2>4, <2>5
<1>3. CASE waiters # <<>>
  <2>. DEFINE h == Head(waiters)
  <2>1. /\ inUse' = inUse - 1
        /\ state' = [state EXCEPT ![c] = "out", ![h] = "woken"]
        /\ waiters' = Tail(waiters) /\ UNCHANGED <<setting, calls>>
        /\ state[c] = "inside"
    BY <1>3 DEF Release
  <2>2. /\ Len(waiters) \in Nat \ {0} /\ h \in Callers /\ h = waiters[1]
        /\ Len(waiters') = Len(waiters) - 1
        /\ \A i \in 1..Len(waiters') : waiters'[i] = waiters[i + 1]
    BY <1>3, <2>1 DEF TypeOK
  <2>3. state[h] = "queued" /\ h # c
    BY <2>1, <2>2 DEF Accounting
  <2>4. TypeOK'
    BY <1>1, <2>1, <2>2 DEF TypeOK
  <2>5. In("inside")' = In("inside") \ {c}
    BY <2>1, <2>3 DEF In, TypeOK
  <2>6. In("woken")' = In("woken") \cup {h} /\ h \notin In("woken")
    BY <2>1, <2>2, <2>3 DEF In, TypeOK
  <2>7. Accounting'
    <3>1. Cardinality(In("inside")') = inUse'
      BY <1>1, <2>1, <2>5, Countable, Leaving DEF Accounting
    <3>2. \A i, j \in 1..Len(waiters') : waiters'[i] = waiters'[j] => i = j
      BY <2>2 DEF Accounting
    <3>3. \A d \in Callers : state'[d] = "queued"
             <=> \E i \in 1..Len(waiters') : waiters'[i] = d
      <4>1. ASSUME NEW d \in Callers, state'[d] = "queued"
            PROVE  \E i \in 1..Len(waiters') : waiters'[i] = d
        <5>1. state[d] = "queued" /\ d # h
          BY <2>1, <2>2, <4>1 DEF TypeOK
        <5>2. PICK k \in 1..Len(waiters) : waiters[k] = d
          BY <5>1 DEF Accounting
        <5>3. k # 1 /\ k - 1 \in 1..Len(waiters')
          BY <2>2, <5>1, <5>2
        <5>4. waiters'[k - 1] = waiters[(k - 1) + 1]
          BY <2>2, <5>3
        <5>5. (k - 1) + 1 = k
          OBVIOUS
        <5>. QED
          BY <5>2, <5>3, <5>4, <5>5
      <4>2. ASSUME NEW d \in Callers, NEW i \in 1..Len(waiters'), waiters'[i] = d
            PROVE  state'[d] = "queued"
        <5>1. waiters[i + 1] = d /\ i + 1 \in 1..Len(waiters) /\ i + 1 # 1
          BY <2>2, <4>2
        <5>2. state[d] = "queued" /\ d # h
          BY <2>2, <5>1 DEF Accounting
        <5>. QED
          BY <2>1, <5>2 DEF TypeOK
      <4>. QED
        BY <4>1, <4>2
    <3>. QED
      BY <3>1, <3>2, <3>3 DEF Accounting
  <2>8. NoLostWakeup'
    <3>1. Cardinality(In("woken")') = Cardinality(In("woken")) + 1
      BY <2>6, Countable, Entering
    <3>2. Cardinality(In("woken")) \in Nat
      BY Countable
    <3>3. inUse' + Cardinality(In("woken")') = inUse + Cardinality(In("woken"))
      BY <2>1, <3>1, <3>2 DEF TypeOK
    <3>. QED
      BY <1>3, <3>3 DEF NoLostWakeup
  <2>9. InsideAtMostLargest'
    BY <2>1, LimitBounds DEF InsideAtMostLargest, TypeOK
  <2>. QED
    BY <2>4, <2>7, <2>8, <2>9
<1>. QED
  BY <1>2, <1>3

\* A change of the settings touches neither tokens nor queue.
LEMMA ChangeSettingInv ==
    ASSUME Inv, NEW s \in Settings, ChangeSetting(s)
    PROVE  Inv'
BY DEF Inv, ChangeSetting, TypeOK, Accounting, NoLostWakeup, InsideAtMostLargest, In

-----------------------------------------------------------------------------
(***************************************************************************)
(* The gate's accounting, its upper bound and the absence of lost wake-ups *)
(* hold in every reachable state, for every value of the constants.        *)
(***************************************************************************)
THEOREM GateInvariant == Spec => []Inv
<1>1. Init => Inv
  BY InitInv
<1>2. Inv /\ [Next]_vars => Inv'
  <2>. SUFFICES ASSUME Inv, [Next]_vars PROVE Inv'
    OBVIOUS
  <2>1. ASSUME NEW c \in Callers, Acquire(c) PROVE Inv'
    <3>1. calls' \in [Callers -> 0..MaxCalls]
      BY <2>1, LimitBounds DEF Acquire, Inv, TypeOK
    <3>. QED
      BY <2>1, <3>1, TryAcquireInv DEF Acquire
  <2>2. ASSUME NEW c \in Callers, Resume(c) PROVE Inv'
    BY <2>2, TryAcquireInv DEF Resume, Inv, TypeOK
  <2>3. ASSUME NEW c \in Callers, Release(c) PROVE Inv'
    BY <2>3, ReleaseInv
  <2>4. ASSUME NEW s \in Settings, ChangeSetting(s) PROVE Inv'
    BY <2>4, ChangeSettingInv
  <2>5. CASE UNCHANGED vars
    BY <2>5 DEF vars, Inv, TypeOK, Accounting, NoLostWakeup, InsideAtMostLargest, In
  <2>. QED
    BY <2>1, <2>2, <2>3, <2>4, <2>5 DEF Next
<1>. QED
  BY <1>1, <1>2, PTL DEF Spec

\* A queued caller is never forgotten: see NoLostWakeup.
THEOREM WakeupsAreNotLost == Spec => []NoLostWakeup
BY GateInvariant, PTL DEF Inv

\* The tokens handed out are the callers inside; the queue is the sleepers.
THEOREM TokensAreCallersInside == Spec => []Accounting
BY GateInvariant, PTL DEF Inv

\* Never more callers inside than the largest limit that can be configured.
THEOREM InsideIsBounded == Spec => []InsideAtMostLargest
BY GateInvariant, PTL DEF Inv
=============================================================================
