------------------------- MODULE DeveloperTask_proofs -------------------------
(***************************************************************************)
(* Proofs about the life of one developer task, for any number of work      *)
(* items, any budgets and any failures a test may find.                     *)
(***************************************************************************)
EXTENDS DeveloperTask, WellFoundedInduction, TLAPS

\* The runs this is about have a second item.
Several == N >= 2

TestKinds == {"test_passed", "test_failure"}

Fields ==
    {"status", "node", "resume", "item", "done", "here", "checks", "planned", "got",
     "repairs", "most", "stalled", "stall", "slow", "full", "err", "failure", "sigs",
     "human", "answer", "asked", "shelved", "mail"}

\* The state of a run is well formed.
Formed(s) ==
    /\ DOMAIN s = Fields
    /\ s.status \in Statuses /\ s.node \in Nodes \cup {"end", "threw", "illegal"}
    /\ s.item \in 0..N /\ s.done \subseteq Items /\ s.here \subseteq Items
    /\ s.checks = {0} \cup s.here
    /\ s.planned \in 0..HardCalls /\ s.got \in 0..HardCalls /\ s.got <= s.planned
    /\ {s.stall, s.full, s.human} \subseteq BOOLEAN
    /\ s.mail \in Messages \cup {NoMail}

\* Every item but the first has its batch.
Supplied(s) == 2..N \subseteq s.here

Whole(s) == s.checks = 0..N

\* The run is at an item past the first one whose batch has not come.
Ahead(s) == s.item \notin s.here \cup {0, 1}

Resting(s) == s.node \in {"threw", "illegal"} \/ (s.node = "end" /\ ~s.human)

\* Batches come in order, and no item but the first is done without its own.
Orderly(s) ==
    /\ s.done \ s.here \subseteq {1}
    /\ s.item \notin s.done /\ (s.item = 0 => Items \subseteq s.done)
    /\ \A i \in s.here \cup s.done : \A j \in Items : j < i => j \in s.here \cup s.done

\* Who is ahead waits, or has no calls left, or has come to an end.
Braked(s, max) ==
    Ahead(s) => s.got >= max \/ s.node \in {"waitBatch", "acceptBatch", "developerBlocked"}
                \/ Resting(s)

\* What each node may count on.
Placed(s) ==
    /\ s.node \in {"requestTest", "handleTestResult", "repair", "developerReady"} => Supplied(s)
    /\ s.node = "receiveTask" => s.here = {} /\ s.item = 1
    /\ s.node \in {"receiveTask", "inspectProject", "loadContext", "bootstrapOrImplement",
                   "waitBatch", "acceptBatch"} => ~s.stall /\ ~s.full
    /\ s.node = "end" /\ s.status = "waiting_item" => ~s.stall /\ ~s.full
    /\ s.human => s.node \in {"end", "escalate"} /\ s.resume = "escalate"
    /\ s.node = "developerReady" => s.mail.kind = "test_passed"
    /\ s.node = "acceptBatch" => s.status = "waiting_item"
    /\ s.status = "ready" => s.node = "end" /\ ~s.human

\* A batch that was handed to the run is merged next; a result is about everything.
Delivered(s) ==
    /\ s.mail.kind = "architect_batch" =>
          IF s.node = "acceptBatch" THEN s.mail.item = nextUnarrivedWorkItem(s)
                                    ELSE s.mail.item \in s.here \cup s.done
    /\ Several /\ s.mail.kind \in TestKinds => s.mail.checks = 0..N /\ Whole(s)

RunInv(s, max) == Formed(s) /\ Orderly(s) /\ Braked(s, max) /\ Placed(s) /\ Delivered(s)

\* A message that may be on its way or set aside.
Honest(m, top, s) ==
    /\ m.kind = "architect_batch" => m.item <= top
    /\ Several /\ m.kind \in TestKinds => m.checks = 0..N /\ Whole(s)

\* A request that the tester has not answered.
Asked(t, s, last) ==
    t.checks \subseteq s.checks /\ (Several => N \in t.checks) /\ t.req \in 1..last

Requests == [checks : SUBSET (0..N), req : Nat]

Ledgers ==
    [status : {"none"} \cup Statuses, got : 0..HardCalls,
     wait : {None} \cup SUBSET (0..N), late : BOOLEAN, req : Nat]

\* The shape of what is around the run.
TypeInv ==
    /\ job \in {"idle", "graph", "consult", "ask"}
    /\ line \in {"first", "drive", "serve", "await", "brake", "closing", "paused", "over"}
    /\ led \in Ledgers
    /\ limit \in 0..HardCalls /\ wall \in BOOLEAN /\ brakes \in 0..MaxBrakes
    /\ box \in Seq(Messages) /\ parked \in Seq(Messages) /\ test \in Seq(Requests)
    /\ consult \in [made : 0..MaxConsults, open : SUBSET Nat, late : Nat]
    /\ consult.open \subseteq 1..consult.made /\ consult.late <= consult.made
    /\ job = "consult" => consult.late < consult.made
    /\ sent \in 0..N /\ split \in {"on", "cancelled", "broken"}
    /\ DOMAIN verdict = {"kind", "checks", "req"} /\ verdict.req \in Nat
    /\ refused \in {"no", "late", "stale", "order"}

\* Where the driver and the invocation stand to each other.
Stand ==
    /\ job = "idle" /\ line # "over" => Resting(dev) /\ dev.mail = NoMail
    /\ job = "ask" => dev.node = "end" /\ dev.human
    /\ line \in {"brake", "paused"} => job = "idle"
    /\ line = "drive" /\ job # "idle" => led.status = "blocked"
    /\ job = "idle" /\ line # "over" /\ led.status = "waiting_item" =>
          dev.node = "end" /\ dev.status = "waiting_item"

\* What has come by mail is true.
MailInv ==
    /\ dev.here \subseteq 1..sent
    /\ dev.mail # NoMail => Honest(dev.mail, sent, dev)
    /\ \A k \in DOMAIN box : Honest(box[k], sent, dev)
    /\ \A k \in DOMAIN parked : Honest(parked[k], sent, dev)
    /\ \A k \in DOMAIN test : Asked(test[k], dev, led.req)

Proven == verdict.kind = "test_passed" /\ verdict.checks = 0..N /\ dev.checks = 0..N

VerdictInv ==
    /\ dev.mail.kind = "test_passed" => Proven
    /\ dev.status = "ready" => Proven
    /\ led.status = "ready" => Proven /\ job = "idle" /\ line \in {"drive", "closing", "over"}

IsIn(m, q) == \E k \in DOMAIN q : q[k] = m

Located(i) == i \in dev.here \cup dev.done \/ IsIn(Batch(i), box) \/ IsIn(Batch(i), parked)
              \/ dev.mail = Batch(i)

Finished == line \in {"paused", "over"}
            \/ (job = "idle" /\ (line = "closing" \/ led.status \in Terminal))

KeptInv == \A i \in 1..sent : Located(i) \/ Finished

CourseInv == TypeInv /\ RunInv(dev, limit) /\ Stand /\ MailInv

-----------------------------------------------------------------------------
(* Records and choices *)

\* t is s with nothing changed outside of the fields F.
Keeps(s, t, F) ==
    DOMAIN s = Fields /\ DOMAIN t = Fields /\ \A f \in Fields \ F : t[f] = s[f]

\* The first of a set of numbers is its least element.
LEMMA FirstOf ==
    ASSUME NEW S, S \subseteq Nat, S # {}
    PROVE  First(S) \in S /\ \A j \in S : First(S) <= j
<1>1. PICK p \in S : \A q \in S : <<q, p>> \notin OpToRel(<, Nat)
  BY NatLessThanWellFounded, WFMin
<1>2. \A q \in S : p <= q
  <2> SUFFICES ASSUME NEW q \in S, q < p PROVE FALSE
    OBVIOUS
  <2>1. <<q, p>> \in OpToRel(<, Nat)
    BY Zenon DEF OpToRel
  <2> QED
    BY <1>1, <2>1
<1> QED
  BY <1>2 DEF First

\* The first of the items of a set, or none.
LEMMA FirstItem ==
    ASSUME NEW S, S \subseteq Items
    PROVE  /\ First(S) \in 0..N /\ (First(S) = 0 <=> S = {})
           /\ First(S) # 0 => First(S) \in S /\ First(S) \in Items
           /\ \A j \in S : First(S) <= j
<1>1. S \subseteq Nat /\ 0 \notin S
  BY GraphConstants DEF Items
<1>2. CASE S = {}
  BY <1>2, GraphConstants DEF First
<1>3. CASE S # {}
  <2>1. First(S) \in S /\ \A j \in S : First(S) <= j
    BY <1>1, <1>3, FirstOf
  <2>2. First(S) \in 1..N
    BY <2>1 DEF Items
  <2> QED
    BY <1>3, <2>1, <2>2, GraphConstants DEF Items
<1> QED
  BY <1>2, <1>3

\* A move in the status table changes the status and the node, or it throws.
LEMMA GotoKeeps ==
    ASSUME NEW s, DOMAIN s = Fields, NEW to, NEW node
    PROVE  /\ Keeps(s, Goto(s, to, node), {"status", "node"})
           /\ \/ Goto(s, to, node).node = node /\ Goto(s, to, node).status = to
              \/ /\ Goto(s, to, node).node = "illegal" /\ Goto(s, to, node).status = s.status
                 /\ ~canTransitionStatus(s.status, to)
<1>1. CASE canTransitionStatus(s.status, to)
  BY <1>1 DEF Goto, Keeps, Fields
<1>2. CASE ~canTransitionStatus(s.status, to)
  BY <1>2 DEF Goto, Keeps, Fields
<1> QED
  BY <1>1, <1>2

\* An edge is taken unless the node threw.
LEMMA RoutedKeeps ==
    ASSUME NEW s, DOMAIN s = Fields, NEW target
    PROVE  /\ Keeps(s, Routed(s, target), {"node"})
           /\ Routed(s, target).node = IF s.node = "unrouted" THEN target ELSE s.node
BY DEF Routed, Keeps, Fields

\* What is known of a loop's outcome; one that may make no call gets nothing done.
LEMMA Outcome ==
    ASSUME NEW left \in Nat, NEW o \in runToolLoop(left)
    PROVE  /\ o.used \in 0..left /\ o.got \in 0..o.used /\ o.wrote \in BOOLEAN
           /\ o.end \in {"done", "budget", "steps", "slow", "stall", "full", "threw"}
           /\ left = 0 => o.end # "done"
<1>1. /\ o \in [end : {"done", "budget", "steps", "slow", "stall", "full", "threw"},
                used : 0..left, got : 0..left, wrote : BOOLEAN]
      /\ \E more \in 0..Extras : \E heard \in 0..more :
            more <= o.used /\ heard <= o.got /\ Stops(o.end, o.used - more, o.got - heard, o.used, left)
  BY DEF runToolLoop
<1>2. PICK more \in 0..Extras : \E heard \in 0..more :
            more <= o.used /\ heard <= o.got /\ Stops(o.end, o.used - more, o.got - heard, o.used, left)
  BY <1>1
<1>3. PICK heard \in 0..more :
            more <= o.used /\ heard <= o.got /\ Stops(o.end, o.used - more, o.got - heard, o.used, left)
  BY <1>2
<1>4. more \in Nat /\ heard \in Nat /\ heard <= more /\ o.used \in Nat /\ o.got \in Nat
  BY <1>1, <1>2, <1>3, GraphConstants
<1>5. o.got - heard <= o.used - more
  BY <1>3 DEF Stops
<1>6. o.end = "done" => o.got - heard > 0
  BY <1>3 DEF Stops, Tolerated
<1> QED
  BY <1>1, <1>4, <1>5, <1>6

-----------------------------------------------------------------------------
(* The nodes *)

\* What a node's step does to a run: it stays sound, nothing it has is lost, only
\* the batch at hand is added, and ready is said only of a passed test.
Moves(s, t, max) ==
    /\ RunInv(t, max) /\ t.mail = s.mail
    /\ s.done \subseteq t.done /\ s.here \subseteq t.here
    /\ \A i \in t.here : i \in s.here \/ (s.mail.kind = "architect_batch" /\ i = s.mail.item)
    /\ t.status = "ready" => s.mail.kind = "test_passed"

\* The fields that tell how far a run has come, but for its calls.
Course == {"item", "done", "here", "checks", "mail"}

\* A step that leaves these alone is a move when the new node may count on what it
\* counts on, and no call is taken back.
LEMMA StandingMove ==
    ASSUME NEW s, NEW t, NEW max \in 0..HardCalls, RunInv(s, max), DOMAIN t = Fields,
           \A f \in Course : t[f] = s[f],
           t.planned \in 0..HardCalls, t.got \in 0..HardCalls, s.got <= t.got, t.got <= t.planned,
           t.status \in Statuses, t.status = "ready" => s.mail.kind = "test_passed",
           t.node \in Nodes \cup {"end", "threw", "illegal"},
           {t.stall, t.full, t.human} \subseteq BOOLEAN, Placed(t),
           t.node # "acceptBatch",
           s.node = "acceptBatch" => s.mail.kind # "architect_batch",
           Ahead(s) => s.got >= max \/ t.node \in {"waitBatch", "developerBlocked"} \/ Resting(t)
    PROVE  Moves(s, t, max)
<1>1. /\ t.item = s.item /\ t.done = s.done /\ t.here = s.here /\ t.checks = s.checks
      /\ t.mail = s.mail
  BY DEF Course
<1>2. Formed(t)
  BY <1>1 DEF RunInv, Formed
<1>3. Orderly(t)
  BY <1>1 DEF RunInv, Orderly
<1>4. s.got \in Int /\ t.got \in Int /\ max \in Int
  BY GraphConstants DEF RunInv, Formed
<1>5. Braked(t, max)
  BY <1>1, <1>4 DEF Braked, Ahead
<1>6. Delivered(t)
  BY <1>1 DEF RunInv, Delivered, Whole
<1> QED
  BY <1>1, <1>2, <1>3, <1>5, <1>6 DEF Moves, RunInv

\* The fields of a run that a node without the model leaves alone.
Still == Course \cup {"planned", "got"}

\* The same for a step that makes no call.
LEMMA StillMove ==
    ASSUME NEW s, NEW t, NEW max \in 0..HardCalls, RunInv(s, max), DOMAIN t = Fields,
           \A f \in Still : t[f] = s[f],
           t.status \in Statuses, t.status = "ready" => s.mail.kind = "test_passed",
           t.node \in Nodes \cup {"end", "threw", "illegal"},
           {t.stall, t.full, t.human} \subseteq BOOLEAN, Placed(t),
           t.node # "acceptBatch",
           s.node = "acceptBatch" => s.mail.kind # "architect_batch",
           Ahead(s) => s.got >= max \/ t.node \in {"waitBatch", "developerBlocked"} \/ Resting(t)
    PROVE  Moves(s, t, max)
<1>1. t.planned = s.planned /\ t.got = s.got /\ \A f \in Course : t[f] = s[f]
  BY DEF Still
<1>2. s.planned \in 0..HardCalls /\ s.got \in 0..HardCalls /\ s.got <= s.planned /\ s.got <= s.got
  BY GraphConstants DEF RunInv, Formed
<1> QED
  BY <1>1, <1>2, StandingMove

\* The statuses.
LEMMA Standings ==
    /\ Statuses = {"received", "inspecting", "implementing", "testing", "waiting_test",
                   "waiting_item", "repairing", "waiting_human", "ready", "blocked",
                   "failed", "cancelled"}
    /\ canTransitionStatus("waiting_item", "implementing")
BY DEF Statuses, STATUS_TRANSITIONS, canTransitionStatus

\* The run begins.
LEMMA ReceiveMoves ==
    ASSUME NEW s, NEW max \in 0..HardCalls, RunInv(s, max), s.node = "receiveTask"
    PROVE  Moves(s, receiveTask(s), max)
<1> DEFINE u == [s EXCEPT !.checks = {0}, !.item = 1]
<1> DEFINE t == receiveTask(s)
<1>1. /\ DOMAIN s = Fields /\ s.here = {} /\ s.item = 1 /\ s.checks = {0}
      /\ ~s.stall /\ ~s.full /\ ~s.human /\ s.status \in Statuses \ {"ready"}
      /\ {s.stall, s.full, s.human} \subseteq BOOLEAN
  BY DEF RunInv, Formed, Placed
<1>2. DOMAIN u = Fields /\ \A f \in Fields : u[f] = s[f]
  BY <1>1 DEF Fields
<1>3. t = Goto(u, "inspecting", "inspectProject")
  BY DEF receiveTask
<1> HIDE DEF u, t
<1>4. /\ Keeps(u, t, {"status", "node"})
      /\ t.status \in {"inspecting", s.status} /\ t.node \in {"inspectProject", "illegal"}
  BY <1>2, <1>3, GotoKeeps DEF Fields
<1>5. /\ DOMAIN t = Fields /\ \A f \in Still : t[f] = s[f]
      /\ t.stall = s.stall /\ t.full = s.full /\ t.human = s.human
  BY <1>2, <1>4 DEF Keeps, Still, Course, Fields
<1>6. t.status \in Statuses \ {"ready"} /\ t.node # "acceptBatch" /\ t.node \in Nodes \cup {"end", "threw", "illegal"}
  BY <1>1, <1>4, Standings DEF Nodes
<1>7. Placed(t)
  BY <1>1, <1>4, <1>5 DEF Placed
<1>8. ~Ahead(s)
  BY <1>1 DEF Ahead
<1>9. Moves(s, t, max)
  BY <1>1, <1>5, <1>6, <1>7, <1>8, StillMove
<1> QED
  BY <1>9 DEF t

\* The project is inspected.
LEMMA InspectMoves ==
    ASSUME NEW s, NEW max \in 0..HardCalls, RunInv(s, max), s.node = "inspectProject"
    PROVE  Moves(s, inspectProject(s), max)
<1> DEFINE u == s
<1> DEFINE t == inspectProject(s)
<1>1. /\ DOMAIN s = Fields /\ ~s.human /\ s.status \in Statuses \ {"ready"}
      /\ {s.stall, s.full, s.human} \subseteq BOOLEAN
      /\ ~s.stall /\ ~s.full /\ (Ahead(s) => s.got >= max)
  BY DEF RunInv, Formed, Placed, Braked, Resting
<1>2. DOMAIN u = Fields /\ \A f \in Fields \ {"resume"} : u[f] = s[f]
  BY <1>1 DEF Fields
<1>3. t = Goto(u, "inspecting", "loadContext")
  BY DEF inspectProject
<1> HIDE DEF u, t
<1>4. /\ Keeps(u, t, {"status", "node"})
      /\ t.status \in {"inspecting", s.status} /\ t.node \in {"loadContext", "illegal"}
  BY <1>1, <1>2, <1>3, GotoKeeps DEF Fields
<1>5. /\ DOMAIN t = Fields /\ \A f \in Still : t[f] = s[f]
      /\ t.stall = s.stall /\ t.full = s.full /\ t.human = s.human
  BY <1>2, <1>4 DEF Keeps, Still, Course, Fields
<1>6. t.status \in Statuses /\ t.node # "acceptBatch" /\ t.node \in Nodes \cup {"end", "threw", "illegal"}
  BY <1>1, <1>4, Standings DEF Nodes
<1>7. Placed(t)
  BY <1>1, <1>4, <1>5 DEF Placed
<1>8. Ahead(s) => s.got >= max \/ t.node \in {"waitBatch", "developerBlocked"} \/ Resting(t)
  BY <1>1, <1>4, <1>5
<1>9. t.status = "ready" => s.mail.kind = "test_passed"
  BY <1>1, <1>4
<1>10. Moves(s, t, max)
  BY <1>1, <1>5, <1>6, <1>7, <1>8, <1>9, StillMove
<1> QED
  BY <1>10 DEF t

\* The next turn is prepared.
LEMMA ContextMoves ==
    ASSUME NEW s, NEW max \in 0..HardCalls, RunInv(s, max), s.node = "loadContext"
    PROVE  Moves(s, loadContext(s), max)
<1> DEFINE u == s
<1> DEFINE t == loadContext(s)
<1>1. /\ DOMAIN s = Fields /\ ~s.human /\ s.status \in Statuses \ {"ready"}
      /\ {s.stall, s.full, s.human} \subseteq BOOLEAN
      /\ ~s.stall /\ ~s.full /\ (Ahead(s) => s.got >= max)
  BY DEF RunInv, Formed, Placed, Braked, Resting
<1>2. DOMAIN u = Fields /\ \A f \in Fields \ {"resume"} : u[f] = s[f]
  BY <1>1 DEF Fields
<1>3. t = Goto(u, IF s.status = "implementing" THEN "implementing" ELSE "inspecting",
                 "bootstrapOrImplement")
  BY DEF loadContext
<1> HIDE DEF u, t
<1>4. /\ Keeps(u, t, {"status", "node"})
      /\ t.status \in {"implementing", "inspecting", s.status} /\ t.node \in {"bootstrapOrImplement", "illegal"}
  BY <1>1, <1>2, <1>3, GotoKeeps DEF Fields
<1>5. /\ DOMAIN t = Fields /\ \A f \in Still : t[f] = s[f]
      /\ t.stall = s.stall /\ t.full = s.full /\ t.human = s.human
  BY <1>2, <1>4 DEF Keeps, Still, Course, Fields
<1>6. t.status \in Statuses /\ t.node # "acceptBatch" /\ t.node \in Nodes \cup {"end", "threw", "illegal"}
  BY <1>1, <1>4, Standings DEF Nodes
<1>7. Placed(t)
  BY <1>1, <1>4, <1>5 DEF Placed
<1>8. Ahead(s) => s.got >= max \/ t.node \in {"waitBatch", "developerBlocked"} \/ Resting(t)
  BY <1>1, <1>4, <1>5
<1>9. t.status = "ready" => s.mail.kind = "test_passed"
  BY <1>1, <1>4
<1>10. Moves(s, t, max)
  BY <1>1, <1>5, <1>6, <1>7, <1>8, <1>9, StillMove
<1> QED
  BY <1>10 DEF t

\* The run waits for the next batch.
LEMMA WaitMoves ==
    ASSUME NEW s, NEW max \in 0..HardCalls, RunInv(s, max), s.node = "waitBatch"
    PROVE  Moves(s, waitBatch(s), max)
<1> DEFINE u == [s EXCEPT !.resume = "acceptBatch"]
<1> DEFINE t == waitBatch(s)
<1>1. /\ DOMAIN s = Fields /\ ~s.human /\ s.status \in Statuses \ {"ready"}
      /\ {s.stall, s.full, s.human} \subseteq BOOLEAN
      /\ ~s.stall /\ ~s.full
  BY DEF RunInv, Formed, Placed, Braked, Resting
<1>2. DOMAIN u = Fields /\ \A f \in Fields \ {"resume"} : u[f] = s[f]
  BY <1>1 DEF Fields
<1>3. t = Goto(u, "waiting_item", "end")
  BY DEF waitBatch
<1> HIDE DEF u, t
<1>4. /\ Keeps(u, t, {"status", "node"})
      /\ t.status \in {"waiting_item", s.status} /\ t.node \in {"end", "illegal"}
  BY <1>1, <1>2, <1>3, GotoKeeps DEF Fields
<1>5. /\ DOMAIN t = Fields /\ \A f \in Still : t[f] = s[f]
      /\ t.stall = s.stall /\ t.full = s.full /\ t.human = s.human
  BY <1>2, <1>4 DEF Keeps, Still, Course, Fields
<1>6. t.status \in Statuses /\ t.node # "acceptBatch" /\ t.node \in Nodes \cup {"end", "threw", "illegal"}
  BY <1>1, <1>4, Standings DEF Nodes
<1>7. Placed(t)
  BY <1>1, <1>4, <1>5 DEF Placed
<1>8. Ahead(s) => s.got >= max \/ t.node \in {"waitBatch", "developerBlocked"} \/ Resting(t)
  BY <1>1, <1>4, <1>5 DEF Resting
<1>9. t.status = "ready" => s.mail.kind = "test_passed"
  BY <1>1, <1>4
<1>10. Moves(s, t, max)
  BY <1>1, <1>5, <1>6, <1>7, <1>8, <1>9, StillMove
<1> QED
  BY <1>10 DEF t

\* The run waits for a test.
LEMMA RequestMoves ==
    ASSUME NEW s, NEW max \in 0..HardCalls, RunInv(s, max), s.node = "requestTest"
    PROVE  Moves(s, requestTest(s), max)
<1> DEFINE u == [s EXCEPT !.resume = "handleTestResult"]
<1> DEFINE t == requestTest(s)
<1>1. /\ DOMAIN s = Fields /\ ~s.human /\ s.status \in Statuses \ {"ready"}
      /\ {s.stall, s.full, s.human} \subseteq BOOLEAN
  BY DEF RunInv, Formed, Placed, Braked, Resting
<1>2. DOMAIN u = Fields /\ \A f \in Fields \ {"resume"} : u[f] = s[f]
  BY <1>1 DEF Fields
<1>3. t = Goto(u, "waiting_test", "end")
  BY DEF requestTest
<1> HIDE DEF u, t
<1>4. /\ Keeps(u, t, {"status", "node"})
      /\ (t.status = "waiting_test" /\ t.node = "end") \/ (t.status = s.status /\ t.node = "illegal")
  BY <1>1, <1>2, <1>3, GotoKeeps DEF Fields
<1>5. /\ DOMAIN t = Fields /\ \A f \in Still : t[f] = s[f]
      /\ t.stall = s.stall /\ t.full = s.full /\ t.human = s.human
  BY <1>2, <1>4 DEF Keeps, Still, Course, Fields
<1>6. t.status \in Statuses /\ t.node # "acceptBatch" /\ t.node \in Nodes \cup {"end", "threw", "illegal"}
  BY <1>1, <1>4, Standings DEF Nodes
<1>7. Placed(t)
  BY <1>1, <1>4, <1>5 DEF Placed
<1>8. Ahead(s) => s.got >= max \/ t.node \in {"waitBatch", "developerBlocked"} \/ Resting(t)
  BY <1>1, <1>4, <1>5 DEF Resting
<1>9. t.status = "ready" => s.mail.kind = "test_passed"
  BY <1>1, <1>4
<1>10. Moves(s, t, max)
  BY <1>1, <1>5, <1>6, <1>7, <1>8, <1>9, StillMove
<1> QED
  BY <1>10 DEF t

\* The task is ready, or is not after all.
LEMMA ReadyMoves ==
    ASSUME NEW s, NEW max \in 0..HardCalls, RunInv(s, max), s.node = "developerReady"
    PROVE  Moves(s, developerReady(s), max)
<1> DEFINE u == s
<1> DEFINE t == developerReady(s)
<1>1. /\ DOMAIN s = Fields /\ ~s.human /\ s.status \in Statuses \ {"ready"}
      /\ {s.stall, s.full, s.human} \subseteq BOOLEAN /\ s.mail.kind = "test_passed"
  BY DEF RunInv, Formed, Placed, Braked, Resting
<1>2. DOMAIN u = Fields /\ \A f \in Fields \ {"resume"} : u[f] = s[f]
  BY <1>1 DEF Fields
<1>3. t \in {Goto(u, "ready", "end"), Goto(u, "blocked", "end")}
  BY DEF developerReady
<1> HIDE DEF u, t
<1>4. /\ Keeps(u, t, {"status", "node"})
      /\ (t.status \in {"ready", "blocked"} /\ t.node = "end") \/ (t.status = s.status /\ t.node = "illegal")
  BY <1>1, <1>2, <1>3, GotoKeeps DEF Fields
<1>5. /\ DOMAIN t = Fields /\ \A f \in Still : t[f] = s[f]
      /\ t.stall = s.stall /\ t.full = s.full /\ t.human = s.human
  BY <1>2, <1>4 DEF Keeps, Still, Course, Fields
<1>6. t.status \in Statuses /\ t.node # "acceptBatch" /\ t.node \in Nodes \cup {"end", "threw", "illegal"}
  BY <1>1, <1>4, Standings DEF Nodes
<1>7. Placed(t)
  BY <1>1, <1>4, <1>5 DEF Placed
<1>8. Ahead(s) => s.got >= max \/ t.node \in {"waitBatch", "developerBlocked"} \/ Resting(t)
  BY <1>1, <1>4, <1>5 DEF Resting
<1>9. t.status = "ready" => s.mail.kind = "test_passed"
  BY <1>1, <1>4
<1>10. Moves(s, t, max)
  BY <1>1, <1>5, <1>6, <1>7, <1>8, <1>9, StillMove
<1> QED
  BY <1>10 DEF t

\* The task is blocked.
LEMMA BlockedMoves ==
    ASSUME NEW s, NEW max \in 0..HardCalls, RunInv(s, max), s.node = "developerBlocked"
    PROVE  Moves(s, developerBlocked(s), max)
<1> DEFINE u == s
<1> DEFINE t == developerBlocked(s)
<1>1. /\ DOMAIN s = Fields /\ ~s.human /\ s.status \in Statuses \ {"ready"}
      /\ {s.stall, s.full, s.human} \subseteq BOOLEAN
  BY DEF RunInv, Formed, Placed, Braked, Resting
<1>2. DOMAIN u = Fields /\ \A f \in Fields \ {"resume"} : u[f] = s[f]
  BY <1>1 DEF Fields
<1>3. t = Goto(u, "blocked", "end")
  BY DEF developerBlocked
<1> HIDE DEF u, t
<1>4. /\ Keeps(u, t, {"status", "node"})
      /\ (t.status = "blocked" /\ t.node = "end") \/ (t.status = s.status /\ t.node = "illegal")
  BY <1>1, <1>2, <1>3, GotoKeeps DEF Fields
<1>5. /\ DOMAIN t = Fields /\ \A f \in Still : t[f] = s[f]
      /\ t.stall = s.stall /\ t.full = s.full /\ t.human = s.human
  BY <1>2, <1>4 DEF Keeps, Still, Course, Fields
<1>6. t.status \in Statuses /\ t.node # "acceptBatch" /\ t.node \in Nodes \cup {"end", "threw", "illegal"}
  BY <1>1, <1>4, Standings DEF Nodes
<1>7. Placed(t)
  BY <1>1, <1>4, <1>5 DEF Placed
<1>8. Ahead(s) => s.got >= max \/ t.node \in {"waitBatch", "developerBlocked"} \/ Resting(t)
  BY <1>1, <1>4, <1>5 DEF Resting
<1>9. t.status = "ready" => s.mail.kind = "test_passed"
  BY <1>1, <1>4
<1>10. Moves(s, t, max)
  BY <1>1, <1>5, <1>6, <1>7, <1>8, <1>9, StillMove
<1> QED
  BY <1>10 DEF t

\* A question is put, or the answer is acted upon, or the run gives up.
LEMMA EscalateMoves ==
    ASSUME NEW s, NEW max \in 0..HardCalls, RunInv(s, max), s.node = "escalate"
    PROVE  Moves(s, escalate(s, max), max)
<1> DEFINE t == escalate(s, max)
<1>1. /\ DOMAIN s = Fields /\ s.status \in Statuses \ {"ready"}
      /\ {s.stall, s.full, s.human} \subseteq BOOLEAN /\ (Ahead(s) => s.got >= max)
  BY DEF RunInv, Formed, Placed, Braked, Resting
<1> DEFINE over  == [s EXCEPT !.human = FALSE, !.answer = "none"]
<1> DEFINE heard == [over EXCEPT !.asked = @ + 1, !.full = FALSE]
<1> DEFINE fresh == [heard EXCEPT !.repairs = 0, !.stalled = FALSE, !.stall = FALSE,
                               !.slow = FALSE, !.err = "none",
                               !.most = IF s.answer = "narrow" THEN 1 ELSE 2,
                               !.shelved = IF s.answer = "narrow"
                                           THEN @ \cup unfinishedUnitIds(s) ELSE @]
<1> DEFINE asks == [s EXCEPT !.human = TRUE, !.status = "waiting_human",
                           !.resume = "escalate", !.node = "end"]
<1> DEFINE ends == [heard EXCEPT !.err = "code"]
<1>2. \/ t = Goto(over, "blocked", "developerBlocked")
      \/ t = asks
      \/ t = Goto(ends, "blocked", "developerBlocked")
      \/ t = Goto(fresh, "implementing", "loadContext")
  BY DEF escalate
<1>3. /\ DOMAIN over = Fields /\ \A f \in Still \cup {"status", "full", "stall"} : over[f] = s[f]
      /\ over.human = FALSE
  BY <1>1 DEF Fields, Still, Course
<1>4. /\ DOMAIN heard = Fields /\ \A f \in Still \cup {"status", "stall"} : heard[f] = s[f]
      /\ heard.human = FALSE /\ heard.full = FALSE
  BY <1>3 DEF Fields, Still, Course
<1>5. /\ DOMAIN fresh = Fields /\ \A f \in Still \cup {"status"} : fresh[f] = s[f]
      /\ fresh.human = FALSE /\ fresh.full = FALSE /\ fresh.stall = FALSE
  BY <1>4 DEF Fields, Still, Course
<1>6. /\ DOMAIN asks = Fields /\ \A f \in Still \cup {"full", "stall"} : asks[f] = s[f]
      /\ asks.human /\ asks.node = "end" /\ asks.status = "waiting_human" /\ asks.resume = "escalate"
  BY <1>1 DEF Fields, Still, Course
<1>7. /\ DOMAIN ends = Fields /\ \A f \in Still \cup {"status", "stall"} : ends[f] = s[f]
      /\ ends.human = FALSE /\ ends.full = FALSE
  BY <1>4 DEF Fields, Still, Course
<1> HIDE DEF over, heard, fresh, asks, ends, t
<1>8. ASSUME NEW u \in {over, ends, fresh}, NEW to, NEW node, t = Goto(u, to, node)
      PROVE  /\ DOMAIN t = Fields /\ \A f \in Still : t[f] = s[f]
             /\ t.stall = u.stall /\ t.full = u.full /\ t.human = FALSE
             /\ \/ t.node = node /\ t.status = to
                \/ t.node = "illegal" /\ t.status = s.status
  <2>1. Keeps(u, t, {"status", "node"})
        /\ ((t.node = node /\ t.status = to) \/ (t.node = "illegal" /\ t.status = u.status))
    BY <1>3, <1>5, <1>7, <1>8, GotoKeeps
  <2>2. /\ \A f \in Still : f \in Fields \ {"status", "node"}
        /\ {"stall", "full", "human"} \subseteq Fields \ {"status", "node"}
    BY DEF Still, Course, Fields
  <2> QED
    BY <1>3, <1>5, <1>7, <2>1, <2>2 DEF Keeps
<1>9. CASE t = asks
  <2>1. Placed(t)
    BY <1>6, <1>9 DEF Placed
  <2>2. /\ DOMAIN t = Fields /\ \A f \in Still : t[f] = s[f]
        /\ t.status \in Statuses /\ t.status # "ready"
        /\ t.node # "acceptBatch" /\ t.node \in Nodes \cup {"end", "threw", "illegal"}
        /\ {t.stall, t.full, t.human} \subseteq BOOLEAN
    BY <1>1, <1>6, <1>9, Standings
  <2>3. Moves(s, t, max)
    BY <1>1, <2>1, <2>2, StillMove
  <2> QED
    BY <2>3 DEF t
<1>10. ASSUME NEW u \in {over, ends}, t = Goto(u, "blocked", "developerBlocked")
       PROVE  Moves(s, t, max)
  <2>1. /\ DOMAIN t = Fields /\ \A f \in Still : t[f] = s[f]
        /\ t.stall = s.stall /\ (t.full = s.full \/ t.full = FALSE) /\ t.human = FALSE
        /\ \/ t.node = "developerBlocked" /\ t.status = "blocked"
           \/ t.node = "illegal" /\ t.status = s.status
    BY <1>3, <1>7, <1>8, <1>10
  <2>2. Placed(t)
    BY <1>1, <2>1 DEF Placed
  <2>3. /\ t.status \in Statuses /\ t.status # "ready"
        /\ t.node # "acceptBatch" /\ t.node \in Nodes \cup {"end", "threw", "illegal"}
        /\ {t.stall, t.full, t.human} \subseteq BOOLEAN
    BY <1>1, <2>1, Standings DEF Nodes
  <2> QED
    BY <1>1, <2>1, <2>2, <2>3, StillMove
<1>11. ASSUME t = Goto(fresh, "implementing", "loadContext")
       PROVE  Moves(s, t, max)
  <2>1. /\ DOMAIN t = Fields /\ \A f \in Still : t[f] = s[f]
        /\ t.stall = FALSE /\ t.full = FALSE /\ t.human = FALSE
        /\ {t.stall, t.full, t.human} \subseteq BOOLEAN
        /\ \/ t.node = "loadContext" /\ t.status = "implementing"
           \/ t.node = "illegal" /\ t.status = s.status
    BY <1>5, <1>8, <1>11
  <2>2. Placed(t)
    BY <1>1, <2>1 DEF Placed
  <2>3. /\ t.status \in Statuses /\ t.status # "ready"
        /\ t.node # "acceptBatch" /\ t.node \in Nodes \cup {"end", "threw", "illegal"}
    BY <1>1, <2>1, Standings DEF Nodes
  <2> QED
    BY <1>1, <2>1, <2>2, <2>3, StillMove
<1> QED
  BY <1>2, <1>9, <1>10, <1>11 DEF t

\* Once every batch is in or its item done, only the first item can lack its batch.
LEMMA AllSupplied ==
    ASSUME NEW s, s.done \ s.here \subseteq {1}, nextUnarrivedWorkItem(s) = 0
    PROVE  Supplied(s)
<1>1. Items \ (s.done \cup s.here) = {}
  BY FirstItem DEF nextUnarrivedWorkItem
<1> QED
  BY <1>1, GraphConstants DEF Supplied, Items

\* Then nobody is ahead.
LEMMA SuppliedIsNotAhead ==
    ASSUME NEW s, Formed(s), Supplied(s)
    PROVE  ~Ahead(s)
BY GraphConstants DEF Supplied, Ahead, Formed

\* Where the local checks lead.
LEMMA ChecksLead ==
    ASSUME NEW s, NEW max, s.done \ s.here \subseteq {1}
    PROVE  /\ routeAfterLocalChecks(s, max)
                 \in {"escalate", "loadContext", "waitBatch", "requestTest", "repair"}
           /\ routeAfterLocalChecks(s, max) # "escalate" => ~s.full /\ ~s.stall
           /\ routeAfterLocalChecks(s, max) \in {"requestTest", "repair"} => Supplied(s)
BY AllSupplied DEF routeAfterLocalChecks

\* The local checks have run.
LEMMA ChecksMoves ==
    ASSUME NEW s, NEW max \in 0..HardCalls, NEW err, RunInv(s, max), s.node = "runLocalChecks"
    PROVE  Moves(s, runLocalChecks(s, err, max), max)
<1> DEFINE w == [s EXCEPT !.err = err]
<1> DEFINE u == Goto(w, "implementing", "unrouted")
<1> DEFINE t == runLocalChecks(s, err, max)
<1>1. /\ DOMAIN s = Fields /\ ~s.human /\ s.status \in Statuses \ {"ready"}
      /\ {s.stall, s.full, s.human} \subseteq BOOLEAN /\ (Ahead(s) => s.got >= max)
      /\ Formed(s) /\ Orderly(s)
  BY DEF RunInv, Formed, Placed, Braked, Resting
<1>2. DOMAIN w = Fields /\ \A f \in Fields \ {"err"} : w[f] = s[f]
  BY <1>1 DEF Fields
<1>3. t = Routed(u, routeAfterLocalChecks(u, max))
  BY DEF runLocalChecks
<1> HIDE DEF w, t
<1>4. /\ Keeps(w, u, {"status", "node"})
      /\ \/ u.status = "implementing" /\ u.node = "unrouted"
         \/ u.status = s.status /\ u.node = "illegal"
  BY <1>1, <1>2, GotoKeeps DEF Fields
<1> HIDE DEF u
<1>5. /\ DOMAIN u = Fields /\ \A f \in Still : u[f] = s[f]
      /\ u.stall = s.stall /\ u.full = s.full /\ u.human = s.human
  BY <1>2, <1>4 DEF Keeps, Still, Course, Fields
<1>6. /\ u.done = s.done /\ u.here = s.here /\ u.item = s.item /\ u.checks = s.checks /\ u.mail = s.mail
      /\ u.planned = s.planned /\ u.got = s.got
  BY <1>5 DEF Still, Course
<1>7. /\ Keeps(u, t, {"node"})
      /\ t.node = IF u.node = "unrouted" THEN routeAfterLocalChecks(u, max) ELSE u.node
  BY <1>3, <1>5, RoutedKeeps
<1>8. /\ DOMAIN t = Fields /\ \A f \in Still : t[f] = s[f]
      /\ t.stall = s.stall /\ t.full = s.full /\ t.human = s.human /\ t.status = u.status
  BY <1>5, <1>7 DEF Keeps, Still, Course, Fields
<1>9. /\ routeAfterLocalChecks(u, max) \in {"escalate", "loadContext", "waitBatch", "requestTest", "repair"}
      /\ routeAfterLocalChecks(u, max) # "escalate" => ~s.full /\ ~s.stall
      /\ routeAfterLocalChecks(u, max) \in {"requestTest", "repair"} => Supplied(s)
  BY <1>1, <1>5, <1>6, ChecksLead DEF Orderly, Supplied
<1>10. /\ t.status \in Statuses /\ t.status # "ready"
       /\ t.node \in {"escalate", "loadContext", "waitBatch", "requestTest", "repair", "illegal"}
       /\ t.node \notin {"escalate", "illegal"} => ~s.full /\ ~s.stall
       /\ t.node \in {"requestTest", "repair"} => Supplied(t)
       /\ {t.stall, t.full, t.human} \subseteq BOOLEAN
  BY <1>1, <1>4, <1>6, <1>7, <1>8, <1>9, Standings DEF Supplied, Still, Course
<1>11. Placed(t)
  BY <1>1, <1>8, <1>10 DEF Placed
<1>12. t.node \in Nodes \cup {"end", "threw", "illegal"} /\ t.node # "acceptBatch"
  BY <1>10 DEF Nodes
<1>13. Moves(s, t, max)
  BY <1>1, <1>8, <1>10, <1>11, <1>12, StillMove
<1> QED
  BY <1>13 DEF t

\* A result is acted upon.
LEMMA ResultMoves ==
    ASSUME NEW s, NEW max \in 0..HardCalls, RunInv(s, max), s.node = "handleTestResult"
    PROVE  Moves(s, handleTestResult(s), max)
<1> DEFINE w == [s EXCEPT !.resume = "none",
                          !.failure = IF s.mail.kind = "test_failure" THEN s.mail.failure ELSE NoFailure]
<1> DEFINE u == Goto(w, "testing", "unrouted")
<1> DEFINE t == handleTestResult(s)
<1>1. /\ DOMAIN s = Fields /\ ~s.human /\ s.status \in Statuses \ {"ready"}
      /\ {s.stall, s.full, s.human} \subseteq BOOLEAN /\ Supplied(s) /\ ~Ahead(s)
  BY SuppliedIsNotAhead DEF RunInv, Formed, Placed
<1>2. DOMAIN w = Fields /\ \A f \in Fields \ {"resume", "failure"} : w[f] = s[f]
  BY <1>1 DEF Fields
<1>3. t = Routed(u, routeAfterTestResult(u))
  BY DEF handleTestResult
<1> HIDE DEF w, t
<1>4. /\ Keeps(w, u, {"status", "node"})
      /\ \/ u.status = "testing" /\ u.node = "unrouted"
         \/ u.status = s.status /\ u.node = "illegal"
  BY <1>1, <1>2, GotoKeeps DEF Fields
<1> HIDE DEF u
<1>5. /\ DOMAIN u = Fields /\ \A f \in Still : u[f] = s[f]
      /\ u.stall = s.stall /\ u.full = s.full /\ u.human = s.human
  BY <1>2, <1>4 DEF Keeps, Still, Course, Fields
<1>6. /\ Keeps(u, t, {"node"})
      /\ t.node = IF u.node = "unrouted" THEN routeAfterTestResult(u) ELSE u.node
  BY <1>3, <1>5, RoutedKeeps
<1>7. /\ DOMAIN t = Fields /\ \A f \in Still : t[f] = s[f]
      /\ t.stall = s.stall /\ t.full = s.full /\ t.human = s.human /\ t.status = u.status
  BY <1>5, <1>6 DEF Keeps, Still, Course, Fields
<1>8. u.mail = s.mail /\ t.mail = s.mail /\ t.here = s.here
  BY <1>5, <1>7 DEF Still, Course
<1>9. /\ routeAfterTestResult(u) \in {"developerReady", "escalate", "repair"}
      /\ routeAfterTestResult(u) = "developerReady" => s.mail.kind = "test_passed"
  BY <1>8 DEF routeAfterTestResult
<1>10. /\ t.status \in Statuses /\ t.status # "ready"
       /\ t.node \in {"developerReady", "escalate", "repair", "illegal"}
       /\ t.node = "developerReady" => t.mail.kind = "test_passed"
       /\ Supplied(t) /\ {t.stall, t.full, t.human} \subseteq BOOLEAN
  BY <1>1, <1>4, <1>6, <1>7, <1>8, <1>9, Standings DEF Supplied
<1>11. Placed(t)
  BY <1>1, <1>7, <1>10 DEF Placed
<1>12. t.node \in Nodes \cup {"end", "threw", "illegal"} /\ t.node # "acceptBatch"
  BY <1>10 DEF Nodes
<1>13. Moves(s, t, max)
  BY <1>1, <1>7, <1>10, <1>11, <1>12, StillMove
<1> QED
  BY <1>13 DEF t

\* The run is resumed without a batch: it goes on waiting.
LEMMA NoBatchMoves ==
    ASSUME NEW s, NEW max \in 0..HardCalls, RunInv(s, max), s.node = "acceptBatch",
           s.mail.kind # "architect_batch"
    PROVE  Moves(s, acceptBatch(s), max)
<1> DEFINE u == [s EXCEPT !.resume = "acceptBatch"]
<1> DEFINE t == acceptBatch(s)
<1>1. /\ DOMAIN s = Fields /\ s.human = FALSE /\ s.status = "waiting_item"
      /\ s.stall = FALSE /\ s.full = FALSE
  BY DEF RunInv, Formed, Placed
<1>2. DOMAIN u = Fields /\ \A f \in Fields \ {"resume"} : u[f] = s[f]
  BY <1>1 DEF Fields
<1>3. t = Goto(u, "waiting_item", "end")
  BY DEF acceptBatch
<1> HIDE DEF u, t
<1>4. /\ Keeps(u, t, {"status", "node"})
      /\ t.status = "waiting_item" /\ t.node \in {"end", "illegal"}
  BY <1>1, <1>2, <1>3, GotoKeeps DEF Fields
<1>5. /\ DOMAIN t = Fields /\ \A f \in Still : t[f] = s[f]
      /\ t.stall = FALSE /\ t.full = FALSE /\ t.human = FALSE
  BY <1>1, <1>2, <1>4 DEF Keeps, Still, Course, Fields
<1>6. /\ t.status \in Statuses /\ t.status # "ready"
      /\ t.node \in Nodes \cup {"end", "threw", "illegal"} /\ t.node # "acceptBatch"
      /\ {t.stall, t.full, t.human} \subseteq BOOLEAN
  BY <1>4, <1>5, Standings DEF Nodes
<1>7. Placed(t)
  BY <1>4, <1>5 DEF Placed
<1>8. Resting(t)
  BY <1>4, <1>5 DEF Resting
<1>9. Moves(s, t, max)
  BY <1>5, <1>6, <1>7, <1>8, StillMove
<1> QED
  BY <1>9 DEF t

\* The batch at hand is merged: it is the next one, and its item is the one to work on.
LEMMA BatchMoves ==
    ASSUME NEW s, NEW max \in 0..HardCalls, RunInv(s, max), s.node = "acceptBatch",
           s.mail.kind = "architect_batch"
    PROVE  Moves(s, acceptBatch(s), max) /\ s.mail.item \in acceptBatch(s).here
<1> DEFINE i == s.mail.item
<1> DEFINE b == [s EXCEPT !.here = @ \cup {i},
                          !.checks = IF i \in s.here THEN @ ELSE @ \cup {i}]
<1> DEFINE target == IF nextArrivedWorkItem(b) # 0 THEN nextArrivedWorkItem(b) ELSE nextWorkItem(b)
<1> DEFINE u == [b EXCEPT !.item = target, !.resume = "loadContext"]
<1> DEFINE t == acceptBatch(s)
<1>1. /\ DOMAIN s = Fields /\ s.human = FALSE /\ s.status = "waiting_item"
      /\ s.stall = FALSE /\ s.full = FALSE
      /\ s.done \subseteq Items /\ s.here \subseteq Items /\ s.checks = {0} \cup s.here
      /\ s.planned \in 0..HardCalls /\ s.got \in 0..HardCalls /\ s.got <= s.planned
      /\ s.mail \in Messages
  BY DEF RunInv, Formed, Placed, NoMail
<1>2. i \in Items
  BY <1>1 DEF Messages, Cancel
<1>3. i = First(Items \ (s.done \cup s.here))
  BY DEF RunInv, Delivered, nextUnarrivedWorkItem
<1>4. i \notin s.done \cup s.here /\ \A j \in Items \ (s.done \cup s.here) : i <= j
  BY <1>2, <1>3, FirstItem, GraphConstants DEF Items
<1>5. /\ DOMAIN b = Fields /\ \A f \in Fields \ {"here", "checks"} : b[f] = s[f]
      /\ b.here = s.here \cup {i} /\ b.checks = s.checks \cup {i}
  BY <1>1, <1>4 DEF Fields
<1> HIDE DEF b
<1>6. b.done = s.done
  BY <1>5 DEF Fields
<1>7. target \in b.here \ s.done
  <2>1. b.here \ b.done \subseteq Items /\ i \in b.here \ b.done
    BY <1>1, <1>2, <1>4, <1>5, <1>6
  <2> QED
    BY <2>1, <1>6, FirstItem DEF nextArrivedWorkItem
<1> HIDE DEF target
<1>8. /\ DOMAIN u = Fields /\ u.item = target /\ u.here = s.here \cup {i} /\ u.checks = s.checks \cup {i}
      /\ \A f \in Fields \ {"here", "checks", "item", "resume"} : u[f] = s[f]
  BY <1>5 DEF Fields
<1>9. t = Goto(u, "implementing", "loadContext")
  BY DEF acceptBatch, b, target
<1> HIDE DEF u, t, i
<1>10. Keeps(u, t, {"status", "node"}) /\ t.status = "implementing" /\ t.node = "loadContext"
  <2>1. u.status = "waiting_item"
    BY <1>1, <1>8 DEF Fields
  <2> QED
    BY <1>8, <1>9, <2>1, GotoKeeps, Standings
<1>11. /\ DOMAIN t = Fields /\ t.item = target /\ t.here = s.here \cup {i} /\ t.checks = s.checks \cup {i}
       /\ t.done = s.done /\ t.planned = s.planned /\ t.got = s.got /\ t.mail = s.mail
       /\ t.stall = FALSE /\ t.full = FALSE /\ t.human = FALSE
  BY <1>1, <1>8, <1>10 DEF Keeps, Fields
<1>12. Formed(t)
  <2>1. target \in 0..N
    BY <1>1, <1>2, <1>5, <1>7 DEF Items
  <2>2. t.checks = {0} \cup t.here /\ t.done \subseteq Items /\ t.here \subseteq Items
    BY <1>1, <1>2, <1>11
  <2> QED
    BY <1>1, <1>10, <1>11, <2>1, <2>2, Standings DEF Formed, Nodes
<1>13. Orderly(t)
  <2>1. t.done \ t.here \subseteq {1}
    BY <1>11 DEF RunInv, Orderly
  <2>2. t.item \notin t.done /\ t.item # 0
    BY <1>1, <1>2, <1>5, <1>7, <1>11 DEF Items
  <2>3. ASSUME NEW k \in t.here \cup t.done, NEW j \in Items, j < k
        PROVE  j \in t.here \cup t.done
    <3>1. CASE k \in s.here \cup s.done
      BY <3>1, <2>3, <1>11 DEF RunInv, Orderly
    <3>2. CASE k = i
      <4>1. ~(i <= j)
        BY <2>3, <3>2, <1>2, GraphConstants DEF Items
      <4> QED
        BY <4>1, <1>4, <1>11
    <3> QED
      BY <3>1, <3>2, <1>11
  <2> QED
    BY <2>1, <2>2, <2>3 DEF Orderly
<1>14. Braked(t, max)
  BY <1>5, <1>7, <1>11 DEF Braked, Ahead
<1>15. Placed(t)
  BY <1>10, <1>11 DEF Placed
<1>16. Delivered(t)
  BY <1>1, <1>10, <1>11 DEF Delivered, TestKinds, i
<1> QED
  BY <1>1, <1>10, <1>11, <1>12, <1>13, <1>14, <1>15, <1>16 DEF Moves, RunInv, t, i

\* What a loop spends is counted, and no count goes down.
LEMMA SpentCounts ==
    ASSUME NEW s, Formed(s), NEW o, o.used \in Nat, o.got \in 0..o.used
    PROVE  /\ DOMAIN Spent(s, o) = Fields
           /\ \A f \in Fields \ {"planned", "got"} : Spent(s, o)[f] = s[f]
           /\ Spent(s, o).planned \in 0..HardCalls /\ Spent(s, o).got \in 0..HardCalls
           /\ s.got <= Spent(s, o).got /\ Spent(s, o).got <= Spent(s, o).planned
<1>1. /\ DOMAIN s = Fields /\ s.planned \in 0..HardCalls /\ s.got \in 0..HardCalls /\ s.got <= s.planned
      /\ HardCalls \in Nat
  BY GraphConstants DEF Formed
<1>2. /\ DOMAIN Spent(s, o) = Fields /\ \A f \in Fields \ {"planned", "got"} : Spent(s, o)[f] = s[f]
      /\ Spent(s, o).planned = Cap(s.planned + o.used) /\ Spent(s, o).got = Cap(s.got + o.got)
  BY <1>1 DEF Spent, Fields
<1> QED
  BY <1>1, <1>2 DEF Cap

\* A loop that failed outright ends the invocation.
LEMMA ThrownMoves ==
    ASSUME NEW s, NEW max \in 0..HardCalls, RunInv(s, max), ~s.human, s.status # "ready",
           s.node # "acceptBatch"
    PROVE  Moves(s, [s EXCEPT !.node = "threw"], max)
<1> DEFINE t == [s EXCEPT !.node = "threw"]
<1>1. /\ DOMAIN s = Fields /\ s.status \in Statuses /\ {s.stall, s.full, s.human} \subseteq BOOLEAN
  BY DEF RunInv, Formed
<1>2. DOMAIN t = Fields /\ t.node = "threw" /\ \A f \in Fields \ {"node"} : t[f] = s[f]
  BY <1>1 DEF Fields
<1> HIDE DEF t
<1>3. /\ \A f \in Still : t[f] = s[f]
      /\ t.status = s.status /\ t.human = s.human /\ t.stall = s.stall /\ t.full = s.full
  BY <1>2 DEF Still, Course, Fields
<1>4. Placed(t)
  BY <1>2, <1>3 DEF Placed
<1>5. Resting(t)
  BY <1>2 DEF Resting
<1>6. Moves(s, t, max)
  BY <1>1, <1>2, <1>3, <1>4, <1>5, StillMove
<1> QED
  BY <1>6 DEF t

\* The request of a loop that overflows the window takes the run to the question.
LEMMA Overflows ==
    ASSUME NEW s, Formed(s), NEW o, o.used \in Nat, o.got \in 0..o.used
    PROVE  /\ DOMAIN Overflown(s, o) = Fields
           /\ \A f \in Course \cup {"stall", "human"} : Overflown(s, o)[f] = s[f]
           /\ Overflown(s, o).full = TRUE
           /\ Overflown(s, o).planned \in 0..HardCalls /\ Overflown(s, o).got \in 0..HardCalls
           /\ s.got <= Overflown(s, o).got /\ Overflown(s, o).got <= Overflown(s, o).planned
           /\ \/ Overflown(s, o).node = "unrouted" /\ Overflown(s, o).status = "waiting_human"
              \/ Overflown(s, o).node = "illegal" /\ Overflown(s, o).status = s.status
<1> DEFINE p == Spent(s, o)
<1> DEFINE w == [p EXCEPT !.full = TRUE, !.err = "code", !.resume = "escalate"]
<1> DEFINE u == Overflown(s, o)
<1>1. /\ DOMAIN p = Fields /\ \A f \in Fields \ {"planned", "got"} : p[f] = s[f]
      /\ p.planned \in 0..HardCalls /\ p.got \in 0..HardCalls /\ s.got <= p.got /\ p.got <= p.planned
  BY SpentCounts
<1> HIDE DEF p
<1>2. /\ DOMAIN w = Fields /\ w.full = TRUE
      /\ \A f \in Fields \ {"full", "err", "resume"} : w[f] = p[f]
  BY <1>1 DEF Fields
<1>3. u = Goto(w, "waiting_human", "unrouted")
  BY DEF Overflown, p
<1> HIDE DEF w, u
<1>4. /\ Keeps(w, u, {"status", "node"})
      /\ \/ u.status = "waiting_human" /\ u.node = "unrouted"
         \/ u.status = w.status /\ u.node = "illegal"
  BY <1>2, <1>3, GotoKeeps
<1>5. /\ DOMAIN u = Fields /\ u.full = TRUE /\ u.planned = p.planned /\ u.got = p.got /\ w.status = s.status
      /\ \A f \in Course \cup {"stall", "human"} : u[f] = s[f]
  BY <1>1, <1>2, <1>4 DEF Keeps, Course, Fields
<1> QED
  BY <1>1, <1>4, <1>5 DEF u

\* A repair, with calls of its own.
LEMMA RepairMoves ==
    ASSUME NEW s, NEW max \in 0..HardCalls, RunInv(s, max), s.node = "repair",
           NEW o \in runToolLoop(RepairCalls)
    PROVE  Moves(s, repair(s, o), max)
<1> DEFINE p == Spent(s, o)
<1> DEFINE w == [Looped(s, o) EXCEPT
                 !.repairs = @ + 1, !.stalled = ~o.wrote,
                 !.sigs = @ \cup ({s.failure.sig} \ {"none"}),
                 !.err  = IF o.end = "stall" THEN "code" ELSE "none"]
<1> DEFINE u == IF o.end = "full" THEN Overflown(s, o) ELSE Goto(w, "repairing", "unrouted")
<1> DEFINE t == repair(s, o)
<1>1. /\ DOMAIN s = Fields /\ s.human = FALSE /\ s.status \in Statuses \ {"ready"}
      /\ {s.stall, s.full, s.human} \subseteq BOOLEAN /\ Supplied(s) /\ ~Ahead(s) /\ Formed(s)
  BY SuppliedIsNotAhead DEF RunInv, Formed, Placed
<1>2. o.used \in Nat /\ o.got \in 0..o.used
  BY Outcome, GraphConstants
<1>3. CASE o.end = "threw"
  <2>1. t = [s EXCEPT !.node = "threw"]
    BY <1>3 DEF repair
  <2> QED
    BY <1>1, <2>1, ThrownMoves
<1>4. CASE o.end # "threw"
  <2>1. t = Routed(u, "runLocalChecks")
    BY <1>4 DEF repair
  <2>2. /\ DOMAIN u = Fields /\ \A f \in Course \cup {"human"} : u[f] = s[f]
        /\ u.stall \in BOOLEAN /\ u.full \in BOOLEAN
        /\ u.planned \in 0..HardCalls /\ u.got \in 0..HardCalls
        /\ s.got <= u.got /\ u.got <= u.planned
        /\ u.node \in {"unrouted", "illegal"} /\ u.status \in Statuses \ {"ready"}
    <3>1. CASE o.end = "full"
      <4>1. u = Overflown(s, o)
        BY <3>1
      <4> HIDE DEF u
      <4>2. /\ DOMAIN u = Fields /\ \A f \in Course \cup {"stall", "human"} : u[f] = s[f]
            /\ u.full = TRUE /\ u.planned \in 0..HardCalls /\ u.got \in 0..HardCalls
            /\ s.got <= u.got /\ u.got <= u.planned
            /\ \/ u.node = "unrouted" /\ u.status = "waiting_human"
               \/ u.node = "illegal" /\ u.status = s.status
        BY <1>1, <1>2, <4>1, Overflows
      <4>3. u.stall = s.stall
        BY <4>2
      <4>4. u.node \in {"unrouted", "illegal"} /\ u.status \in Statuses \ {"ready"}
        BY <1>1, <4>2, Standings
      <4> QED
        BY <1>1, <4>2, <4>3, <4>4
    <3>2. CASE o.end # "full"
      <4>1. /\ DOMAIN p = Fields /\ \A f \in Fields \ {"planned", "got"} : p[f] = s[f]
            /\ p.planned \in 0..HardCalls /\ p.got \in 0..HardCalls /\ s.got <= p.got /\ p.got <= p.planned
        BY <1>1, <1>2, SpentCounts
      <4> HIDE DEF p
      <4>2. Looped(s, o) = [p EXCEPT !.slow = (o.end = "slow"), !.stall = @ \/ o.end = "stall"]
        BY DEF Looped, p
      <4>3. /\ DOMAIN w = Fields
            /\ \A f \in Fields \ {"slow", "stall", "repairs", "stalled", "sigs", "err"} : w[f] = p[f]
            /\ w.stall \in BOOLEAN
        BY <4>1, <4>2 DEF Fields
      <4>4. u = Goto(w, "repairing", "unrouted")
        BY <3>2
      <4> HIDE DEF w, u
      <4>5. /\ Keeps(w, u, {"status", "node"})
            /\ \/ u.status = "repairing" /\ u.node = "unrouted"
               \/ u.status = w.status /\ u.node = "illegal"
        BY <4>3, <4>4, GotoKeeps
      <4>6. /\ DOMAIN u = Fields /\ \A f \in Course \cup {"human"} : u[f] = s[f]
            /\ u.stall = w.stall /\ u.full = s.full /\ u.planned = p.planned /\ u.got = p.got
            /\ w.status = s.status
        BY <4>1, <4>3, <4>5 DEF Keeps, Course, Fields
      <4> QED
        BY <1>1, <4>1, <4>3, <4>5, <4>6, Standings
    <3> QED
      BY <3>1, <3>2
  <2> HIDE DEF u, t
  <2>3. /\ Keeps(u, t, {"node"})
        /\ t.node = IF u.node = "unrouted" THEN "runLocalChecks" ELSE u.node
    BY <2>1, <2>2, RoutedKeeps
  <2>4. /\ DOMAIN t = Fields /\ \A f \in Course : t[f] = s[f]
        /\ t.stall = u.stall /\ t.full = u.full /\ t.human = u.human /\ t.status = u.status
        /\ t.planned = u.planned /\ t.got = u.got
    BY <2>2, <2>3 DEF Keeps, Course, Fields
  <2>5. t.human = FALSE
    BY <1>1, <2>2, <2>4
  <2>6. t.node \in {"runLocalChecks", "illegal"} /\ t.status \in Statuses \ {"ready"}
    BY <2>2, <2>3, <2>4
  <2>7. Placed(t)
    BY <2>5, <2>6 DEF Placed
  <2>8. {t.stall, t.full, t.human} \subseteq BOOLEAN
    BY <2>2, <2>4, <2>5
  <2>9. t.node \in Nodes \cup {"end", "threw", "illegal"} /\ t.node # "acceptBatch"
    BY <2>6 DEF Nodes
  <2>10. t.planned \in 0..HardCalls /\ t.got \in 0..HardCalls /\ s.got <= t.got /\ t.got <= t.planned
    BY <2>2, <2>4
  <2>11. Moves(s, t, max)
    BY <1>1, <2>4, <2>6, <2>7, <2>8, <2>9, <2>10, StandingMove
  <2> QED
    BY <2>11 DEF t
<1> QED
  BY <1>3, <1>4

\* Completing an item that is not ahead keeps the order, and so does completing none.
LEMMA CompletedIsOrderly ==
    ASSUME NEW s, Formed(s), Orderly(s), NEW t, t.here = s.here,
           \/ t.done = s.done
           \/ s.item # 0 /\ ~Ahead(s) /\ t.done = s.done \cup {s.item},
           t.item = First(Items \ t.done)
    PROVE  Orderly(t) /\ t.done \subseteq Items /\ t.item \in 0..N
<1>1. /\ s.item \in 0..N /\ s.done \subseteq Items /\ s.here \subseteq Items
      /\ s.done \ s.here \subseteq {1}
      /\ \A i \in s.here \cup s.done : \A j \in Items : j < i => j \in s.here \cup s.done
  BY DEF Formed, Orderly
<1>2. t.done \subseteq Items
  BY <1>1, GraphConstants DEF Items
<1>3. t.item \in 0..N /\ t.item \notin t.done /\ (t.item = 0 => Items \subseteq t.done)
  <2>1. 0 \notin Items
    BY DEF Items
  <2>2. t.item \in 0..N /\ (t.item = 0 <=> Items \ t.done = {}) /\ (t.item # 0 => t.item \in Items \ t.done)
    BY FirstItem
  <2> QED
    BY <1>2, <2>1, <2>2
<1>4. t.done \ t.here \subseteq {1}
  BY <1>1 DEF Ahead
<1>5. ASSUME NEW i \in t.here \cup t.done, NEW j \in Items, j < i
      PROVE  j \in t.here \cup t.done
  <2>1. CASE i \in s.here \cup s.done
    BY <1>1, <1>5, <2>1
  <2>2. CASE i \notin s.here \cup s.done
    <3>1. i = 1
      BY <1>1, <1>5, <2>2 DEF Ahead
    <3> QED
      BY <1>5, <3>1 DEF Items
  <2> QED
    BY <2>1, <2>2
<1> QED
  BY <1>2, <1>3, <1>4, <1>5 DEF Orderly

\* Who completes nothing does not get ahead by taking the next item in order.
LEMMA NotAheadStays ==
    ASSUME NEW s, Formed(s), Orderly(s), ~Ahead(s), NEW t, t.here = s.here, t.done = s.done,
           t.item = First(Items \ t.done)
    PROVE  ~Ahead(t)
<1>1. /\ s.item \in 0..N /\ s.done \subseteq Items /\ s.here \subseteq Items
      /\ s.item \notin s.done /\ (s.item = 0 => Items \subseteq s.done)
      /\ \A i \in s.here \cup s.done : \A j \in Items : j < i => j \in s.here \cup s.done
      /\ s.item \in s.here \cup {0, 1}
  BY DEF Formed, Orderly, Ahead
<1>2. CASE s.item = 0
  <2>1. Items \ t.done = {}
    BY <1>1, <1>2
  <2> QED
    BY <2>1, FirstItem DEF Ahead
<1>3. CASE s.item # 0
  <2>1. s.item \in Items \ t.done
    BY <1>1, <1>3, GraphConstants DEF Items
  <2>2. t.item \in Items \ t.done /\ t.item <= s.item
    BY <2>1, FirstItem
  <2>3. CASE s.item = 1
    <3>1. t.item = 1
      BY <2>2, <2>3 DEF Items
    <3> QED
      BY <3>1 DEF Ahead
  <2>4. CASE s.item \in s.here
    <3>1. t.item = s.item \/ t.item < s.item
      BY <2>1, <2>2, GraphConstants DEF Items
    <3>2. t.item \in s.here \cup s.done
      BY <1>1, <2>2, <2>4, <3>1
    <3> QED
      BY <2>2, <3>2 DEF Ahead
  <2> QED
    BY <1>1, <1>3, <2>3, <2>4
<1> QED
  BY <1>2, <1>3

\* Who is ahead finds no arrived item to go on with, and some batch is still to come.
LEMMA AheadFinds ==
    ASSUME NEW t, Orderly(t), t.done \subseteq Items, t.here \subseteq Items,
           t.item = First(Items \ t.done), Ahead(t)
    PROVE  nextArrivedWorkItem(t) = 0 /\ nextUnarrivedWorkItem(t) # 0
<1>1. t.item # 0 /\ t.item \notin t.here
  BY DEF Ahead
<1>2. t.item \in Items \ t.done /\ \A j \in Items \ t.done : t.item <= j
  BY <1>1, FirstItem
<1>3. nextUnarrivedWorkItem(t) # 0
  <2>1. t.item \in Items \ (t.done \cup t.here)
    BY <1>1, <1>2
  <2> QED
    BY <2>1, FirstItem DEF nextUnarrivedWorkItem
<1>4. nextArrivedWorkItem(t) = 0
  <2> SUFFICES ASSUME NEW j \in t.here \ t.done
               PROVE  FALSE
    BY FirstItem DEF nextArrivedWorkItem
  <2>1. t.item <= j /\ t.item # j
    BY <1>1, <1>2
  <2>2. t.item < j
    BY <1>2, <2>1, GraphConstants DEF Items
  <2>3. t.item \in t.here \cup t.done
    BY <1>2, <2>2 DEF Orderly
  <2> QED
    BY <1>1, <1>2, <2>3
<1> QED
  BY <1>3, <1>4

\* A turn at the current item.
LEMMA ImplementMoves ==
    ASSUME NEW s, NEW max \in 0..HardCalls, RunInv(s, max), s.node = "bootstrapOrImplement",
           NEW o \in runToolLoop(IF max > s.planned THEN max - s.planned ELSE 0)
    PROVE  Moves(s, bootstrapOrImplement(s, o, max), max)
<1> DEFINE left == IF max > s.planned THEN max - s.planned ELSE 0
<1> DEFINE p == Spent(s, o)
<1> DEFINE l == Looped(s, o)
<1> DEFINE completed == s.done \cup (IF o.end = "done" /\ s.item # 0 THEN {s.item} ELSE {})
<1> DEFINE w == [l EXCEPT !.done = completed, !.item = First(Items \ completed),
                 !.err  = IF o.end \in {"slow", "stall"} THEN "code" ELSE @]
<1> DEFINE u == IF o.end = "full" THEN Overflown(s, o) ELSE Goto(w, "implementing", "unrouted")
<1> DEFINE t == bootstrapOrImplement(s, o, max)
<1>1. /\ DOMAIN s = Fields /\ s.human = FALSE /\ s.status \in Statuses \ {"ready"}
      /\ s.stall = FALSE /\ s.full = FALSE /\ (Ahead(s) => s.got >= max)
      /\ Formed(s) /\ Orderly(s)
      /\ s.planned \in 0..HardCalls /\ s.got \in 0..HardCalls /\ s.got <= s.planned
  BY DEF RunInv, Formed, Placed, Braked, Resting
<1>2. max \in Nat /\ left \in Nat
  BY <1>1, GraphConstants
<1>3. /\ o.used \in Nat /\ o.got \in 0..o.used
      /\ o.end = "done" => ~Ahead(s)
  <2>1. o.used \in 0..left /\ o.got \in 0..o.used /\ (left = 0 => o.end # "done")
    BY <1>2, Outcome
  <2>2. Ahead(s) => left = 0
    BY <1>1, <1>2
  <2> QED
    BY <1>2, <2>1, <2>2
<1> HIDE DEF left
<1>4. CASE o.end = "threw"
  <2>1. t = [s EXCEPT !.node = "threw"]
    BY <1>4 DEF bootstrapOrImplement
  <2> QED
    BY <1>1, <2>1, ThrownMoves
<1>5. CASE o.end = "full"
  <2>1. t = Routed(u, routeAfterImplement(u, max)) /\ u = Overflown(s, o)
    BY <1>5 DEF bootstrapOrImplement
  <2> HIDE DEF u, t
  <2>2. /\ DOMAIN u = Fields /\ \A f \in Course \cup {"stall", "human"} : u[f] = s[f]
        /\ u.full = TRUE /\ u.planned \in 0..HardCalls /\ u.got \in 0..HardCalls
        /\ s.got <= u.got /\ u.got <= u.planned
        /\ \/ u.node = "unrouted" /\ u.status = "waiting_human"
           \/ u.node = "illegal" /\ u.status = s.status
    BY <1>1, <1>3, <2>1, Overflows
  <2>3. Keeps(u, t, {"node"}) /\ t.node = IF u.node = "unrouted" THEN "escalate" ELSE u.node
    <3>1. routeAfterImplement(u, max) = "escalate"
      BY <2>2 DEF routeAfterImplement
    <3> QED
      BY <2>1, <2>2, <3>1, RoutedKeeps
  <2>4. /\ DOMAIN t = Fields /\ \A f \in Course : t[f] = s[f]
        /\ t.stall = FALSE /\ t.full = TRUE /\ t.human = FALSE /\ t.status = u.status
        /\ t.planned = u.planned /\ t.got = u.got
    BY <1>1, <2>2, <2>3 DEF Keeps, Course, Fields
  <2>5. t.node \in {"escalate", "illegal"} /\ t.status \in Statuses \ {"ready"}
    BY <1>1, <2>2, <2>3, <2>4, Standings
  <2>6. Placed(t)
    BY <2>4, <2>5 DEF Placed
  <2>7. t.node \in Nodes \cup {"end", "threw", "illegal"} /\ t.node # "acceptBatch"
        /\ {t.stall, t.full, t.human} \subseteq BOOLEAN
    BY <2>4, <2>5 DEF Nodes
  <2>8. t.planned \in 0..HardCalls /\ t.got \in 0..HardCalls /\ s.got <= t.got /\ t.got <= t.planned
    BY <2>2, <2>4
  <2>9. Moves(s, t, max)
    BY <1>1, <2>4, <2>5, <2>6, <2>7, <2>8, StandingMove
  <2> QED
    BY <2>9 DEF t
<1>6. CASE o.end \notin {"threw", "full"}
  <2>1. t = Routed(u, routeAfterImplement(u, max)) /\ u = Goto(w, "implementing", "unrouted")
    BY <1>6 DEF bootstrapOrImplement
  <2>2. /\ DOMAIN p = Fields /\ \A f \in Fields \ {"planned", "got"} : p[f] = s[f]
        /\ p.planned \in 0..HardCalls /\ p.got \in 0..HardCalls /\ s.got <= p.got /\ p.got <= p.planned
    BY <1>1, <1>3, SpentCounts
  <2> HIDE DEF p
  <2>3. l = [p EXCEPT !.slow = (o.end = "slow"), !.stall = @ \/ o.end = "stall"]
    BY DEF Looped, p
  <2>4. /\ DOMAIN l = Fields /\ \A f \in Fields \ {"slow", "stall"} : l[f] = p[f]
        /\ l.slow = (o.end = "slow") /\ l.stall = (o.end = "stall")
    BY <1>1, <2>2, <2>3 DEF Fields
  <2> HIDE DEF l, completed
  <2>5. /\ DOMAIN w = Fields /\ w.done = completed /\ w.item = First(Items \ completed)
        /\ \A f \in Fields \ {"done", "item", "err"} : w[f] = l[f]
    BY <2>4 DEF Fields
  <2> HIDE DEF w, u, t
  <2>6. /\ Keeps(w, u, {"status", "node"})
        /\ \/ u.status = "implementing" /\ u.node = "unrouted"
           \/ u.status = w.status /\ u.node = "illegal"
    BY <2>1, <2>5, GotoKeeps
  <2>7. /\ DOMAIN u = Fields /\ u.done = completed /\ u.item = First(Items \ u.done)
        /\ u.here = s.here /\ u.checks = s.checks /\ u.mail = s.mail
        /\ u.planned = p.planned /\ u.got = p.got /\ u.human = FALSE /\ u.full = FALSE
        /\ u.slow = (o.end = "slow") /\ u.stall = (o.end = "stall") /\ w.status = s.status
    BY <1>1, <2>2, <2>4, <2>5, <2>6 DEF Keeps, Fields
  <2>8. /\ Keeps(u, t, {"node"})
        /\ t.node = IF u.node = "unrouted" THEN routeAfterImplement(u, max) ELSE u.node
    BY <2>1, <2>7, RoutedKeeps
  <2>9. /\ DOMAIN t = Fields /\ t.done = completed /\ t.item = First(Items \ t.done)
        /\ t.here = s.here /\ t.checks = s.checks /\ t.mail = s.mail
        /\ t.planned = p.planned /\ t.got = p.got /\ t.human = FALSE /\ t.full = FALSE
        /\ t.stall = (o.end = "stall") /\ t.status = u.status
    <3>1. /\ DOMAIN t = Fields /\ t.done = u.done /\ t.item = u.item /\ t.here = u.here
          /\ t.checks = u.checks /\ t.mail = u.mail /\ t.planned = u.planned /\ t.got = u.got
          /\ t.human = u.human /\ t.full = u.full /\ t.stall = u.stall /\ t.status = u.status
      BY <2>8 DEF Keeps, Fields
    <3> QED
      BY <2>7, <3>1
  <2>10. \/ t.done = s.done
         \/ s.item # 0 /\ ~Ahead(s) /\ o.end = "done" /\ t.done = s.done \cup {s.item}
    BY <1>3, <2>9 DEF completed
  <2>11. Orderly(t) /\ t.done \subseteq Items /\ t.item \in 0..N
    BY <1>1, <2>9, <2>10, CompletedIsOrderly
  <2>12. /\ routeAfterImplement(u, max) \in {"escalate", "runLocalChecks", "loadContext", "waitBatch"}
         /\ routeAfterImplement(u, max) \in {"loadContext", "waitBatch"} => u.stall = FALSE
         /\ o.end = "done" /\ nextArrivedWorkItem(u) = 0 /\ nextUnarrivedWorkItem(u) # 0
               => u.got >= max \/ routeAfterImplement(u, max) = "waitBatch"
    BY <2>7 DEF routeAfterImplement, isBudgetExceeded
  <2>13. /\ t.node \in {"escalate", "runLocalChecks", "loadContext", "waitBatch", "illegal"}
         /\ t.node \in {"loadContext", "waitBatch"} => t.stall = FALSE
         /\ t.status \in Statuses \ {"ready"}
    BY <1>1, <2>6, <2>7, <2>8, <2>9, <2>12, Standings
  <2>14. Formed(t)
    <3>1. /\ s.checks = {0} \cup s.here /\ s.here \subseteq Items /\ s.mail \in Messages \cup {NoMail}
      BY <1>1 DEF Formed
    <3>2. {t.stall, t.full, t.human} \subseteq BOOLEAN
      BY <2>9
    <3>3. t.node \in Nodes \cup {"end", "threw", "illegal"}
      BY <2>13 DEF Nodes
    <3> QED
      BY <2>2, <2>9, <2>11, <2>13, <3>1, <3>2, <3>3 DEF Formed
  <2>15. Braked(t, max)
    <3> SUFFICES ASSUME Ahead(t)
                 PROVE  t.got >= max \/ t.node = "waitBatch" \/ Resting(t)
      BY DEF Braked
    <3>1. CASE Ahead(s)
      <4>1. s.got >= max /\ s.got <= t.got /\ s.got \in Int /\ t.got \in Int /\ max \in Int
        BY <1>1, <1>2, <2>2, <2>9, <3>1
      <4> QED
        BY <4>1
    <3>2. CASE ~Ahead(s)
      <4>1. o.end = "done"
        BY <1>1, <2>9, <2>10, <3>2, NotAheadStays
      <4>2. nextArrivedWorkItem(t) = 0 /\ nextUnarrivedWorkItem(t) # 0
        <5>1. t.here \subseteq Items
          BY <1>1, <2>9 DEF Formed
        <5> QED
          BY <2>9, <2>11, <5>1, AheadFinds
      <4>3. nextArrivedWorkItem(u) = 0 /\ nextUnarrivedWorkItem(u) # 0
        BY <2>7, <2>9, <4>2 DEF nextArrivedWorkItem, nextUnarrivedWorkItem
      <4>4. u.got >= max \/ routeAfterImplement(u, max) = "waitBatch"
        BY <2>12, <4>1, <4>3
      <4> QED
        BY <2>6, <2>7, <2>8, <2>9, <4>4 DEF Resting
    <3> QED
      BY <3>1, <3>2
  <2>16. Placed(t)
    BY <2>9, <2>13 DEF Placed
  <2>17. Delivered(t)
    <3>1. s.done \subseteq t.done
      BY <2>10
    <3> QED
      BY <1>1, <2>9, <2>13, <3>1 DEF RunInv, Delivered, Whole
  <2>18. Moves(s, t, max)
    BY <2>9, <2>10, <2>11, <2>13, <2>14, <2>15, <2>16, <2>17 DEF Moves, RunInv
  <2> QED
    BY <2>18 DEF t
<1> QED
  BY <1>4, <1>5, <1>6

-----------------------------------------------------------------------------
(* Boxes *)

\* Taking the first message of a box.
LEMMA Taken ==
    ASSUME NEW S, NEW q \in Seq(S), q # <<>>
    PROVE  /\ Head(q) \in S /\ Tail(q) \in Seq(S)
           /\ \A k \in DOMAIN Tail(q) : IsIn(Tail(q)[k], q)
           /\ \A m : IsIn(m, q) => m = Head(q) \/ IsIn(m, Tail(q))
           /\ IsIn(Head(q), q)
<1>1. /\ Len(q) \in Nat /\ Len(q) >= 1 /\ Head(q) = q[1] /\ q[1] \in S
      /\ Tail(q) \in Seq(S) /\ Len(Tail(q)) = Len(q) - 1
      /\ \A i \in 1..(Len(q) - 1) : Tail(q)[i] = q[i + 1]
  OBVIOUS
<1>2. DOMAIN q = 1..Len(q) /\ DOMAIN Tail(q) = 1..(Len(q) - 1)
  BY <1>1
<1>3. \A k \in DOMAIN Tail(q) : IsIn(Tail(q)[k], q)
  BY <1>1, <1>2 DEF IsIn
<1>4. ASSUME NEW m, IsIn(m, q), m # Head(q)
      PROVE  IsIn(m, Tail(q))
  <2>1. PICK k \in 1..Len(q) : q[k] = m
    BY <1>2, <1>4 DEF IsIn
  <2>2. k # 1 /\ k - 1 \in 1..(Len(q) - 1)
    BY <1>1, <1>4, <2>1
  <2>3. Tail(q)[k - 1] = q[k]
    BY <1>1, <2>2
  <2> QED
    BY <1>2, <2>1, <2>2, <2>3 DEF IsIn
<1>5. IsIn(Head(q), q)
  BY <1>1, <1>2 DEF IsIn
<1> QED
  BY <1>1, <1>3, <1>4, <1>5

\* Putting one box behind another.
LEMMA Joined ==
    ASSUME NEW S, NEW q \in Seq(S), NEW r \in Seq(S)
    PROVE  /\ q \o r \in Seq(S)
           /\ \A k \in DOMAIN (q \o r) : IsIn((q \o r)[k], q) \/ IsIn((q \o r)[k], r)
           /\ \A m : IsIn(m, q) \/ IsIn(m, r) => IsIn(m, q \o r)
<1>1. /\ q \o r \in Seq(S) /\ Len(q) \in Nat /\ Len(r) \in Nat
      /\ Len(q \o r) = Len(q) + Len(r)
      /\ DOMAIN q = 1..Len(q) /\ DOMAIN r = 1..Len(r) /\ DOMAIN (q \o r) = 1..(Len(q) + Len(r))
      /\ \A k \in 1..(Len(q) + Len(r)) :
            (q \o r)[k] = IF k <= Len(q) THEN q[k] ELSE r[k - Len(q)]
  OBVIOUS
<1> DEFINE j == q \o r
<1>2. /\ DOMAIN j = 1..(Len(q) + Len(r))
      /\ \A k \in 1..(Len(q) + Len(r)) : j[k] = IF k <= Len(q) THEN q[k] ELSE r[k - Len(q)]
  BY <1>1
<1> HIDE DEF j
<1>3. \A k \in DOMAIN j : IsIn(j[k], q) \/ IsIn(j[k], r)
  BY <1>1, <1>2 DEF IsIn
<1>4. ASSUME NEW m, IsIn(m, q)
      PROVE  IsIn(m, j)
  BY <1>1, <1>2, <1>4 DEF IsIn
<1>5. ASSUME NEW m, IsIn(m, r)
      PROVE  IsIn(m, j)
  <2>1. PICK k \in 1..Len(r) : r[k] = m
    BY <1>1, <1>5 DEF IsIn
  <2>2. k + Len(q) \in 1..(Len(q) + Len(r)) /\ ~(k + Len(q) <= Len(q)) /\ (k + Len(q)) - Len(q) = k
    BY <1>1, <2>1
  <2> QED
    BY <1>2, <2>1, <2>2 DEF IsIn
<1> QED
  BY <1>1, <1>3, <1>4, <1>5 DEF j

\* A box of one message.
LEMMA One ==
    ASSUME NEW S, NEW m \in S
    PROVE  <<m>> \in Seq(S) /\ \A x : IsIn(x, <<m>>) <=> x = m
<1>1. <<m>> \in Seq(S) /\ DOMAIN <<m>> = {1} /\ <<m>>[1] = m
  OBVIOUS
<1> QED
  BY <1>1 DEF IsIn

\* Putting a message at the end of a box.
LEMMA Put ==
    ASSUME NEW S, NEW q \in Seq(S), NEW m \in S
    PROVE  /\ Append(q, m) \in Seq(S)
           /\ \A k \in DOMAIN Append(q, m) : IsIn(Append(q, m)[k], q) \/ Append(q, m)[k] = m
           /\ \A x : IsIn(x, q) \/ x = m => IsIn(x, Append(q, m))
<1>1. Append(q, m) = q \o <<m>>
  OBVIOUS
<1>2. <<m>> \in Seq(S) /\ \A x : IsIn(x, <<m>>) <=> x = m
  BY One
<1> HIDE DEF IsIn
<1>3. q \o <<m>> \in Seq(S)
  BY <1>2, Joined
<1> QED
  BY <1>1, <1>2, <1>3, Joined

\* The copies of a message that late receives set aside.
LEMMA CopiesAre ==
    ASSUME NEW S, NEW m \in S, consult.late \in Nat
    PROVE  /\ Copies(m) \in Seq(S) /\ \A x : IsIn(x, Copies(m)) => x = m
           /\ consult.late > 0 => IsIn(m, Copies(m))
<1>1. Copies(m) \in Seq(S) /\ DOMAIN Copies(m) = 1..consult.late
      /\ \A k \in 1..consult.late : Copies(m)[k] = m
  BY DEF Copies
<1> QED
  BY <1>1 DEF IsIn

\* Taking a message out of the middle of a box.
LEMMA Removed ==
    ASSUME NEW S, NEW q \in Seq(S), NEW i \in DOMAIN q
    PROVE  /\ RemoveAt(q, i) \in Seq(S)
           /\ \A k \in DOMAIN RemoveAt(q, i) : IsIn(RemoveAt(q, i)[k], q)
           /\ \A m : IsIn(m, q) => m = q[i] \/ IsIn(m, RemoveAt(q, i))
<1> DEFINE a == SubSeq(q, 1, i - 1)
<1> DEFINE b == SubSeq(q, i + 1, Len(q))
<1>1. Len(q) \in Nat /\ DOMAIN q = 1..Len(q) /\ i \in 1..Len(q) /\ RemoveAt(q, i) = a \o b
  BY DEF RemoveAt
<1>2. /\ a \in Seq(S) /\ Len(a) = i - 1 /\ \A k \in 1..(i - 1) : a[k] = q[k]
  BY <1>1
<1>3. /\ b \in Seq(S) /\ Len(b) = Len(q) - i /\ \A k \in 1..(Len(q) - i) : b[k] = q[i + k]
  <2>1. Len(b) = Len(q) - i
    BY <1>1
  <2>2. \A k \in 1..(Len(q) - i) : b[k] = q[i + k]
    <3> SUFFICES ASSUME NEW k \in 1..(Len(q) - i) PROVE b[k] = q[i + k]
      OBVIOUS
    <3> DEFINE l == Len(q)
    <3>1. l \in Nat /\ i \in 1..l /\ l = Len(q)
      BY <1>1
    <3> HIDE DEF l
    <3>2. i \in Int /\ k \in Int /\ (i + 1) + k - 1 = i + k
      BY <3>1
    <3>3. k \in 1..((l - (i + 1)) + 1)
      BY <3>1
    <3>4. b[k] = q[(i + 1) + k - 1]
      BY <1>1, <3>1, <3>3
    <3> QED
      BY <3>2, <3>4
  <2>3. b \in Seq(S)
    BY <1>1
  <2> QED
    BY <2>1, <2>2, <2>3
<1> HIDE DEF a, b
<1>4. DOMAIN a = 1..(i - 1) /\ DOMAIN b = 1..(Len(q) - i)
  BY <1>1, <1>2, <1>3
<1>5. ASSUME NEW m, IsIn(m, a) \/ IsIn(m, b)
      PROVE  IsIn(m, q)
  <2>1. CASE IsIn(m, a)
    <3>1. PICK k \in 1..(i - 1) : a[k] = m
      BY <1>4, <2>1 DEF IsIn
    <3>2. k \in 1..Len(q) /\ q[k] = m
      BY <1>1, <1>2, <3>1
    <3> QED
      BY <1>1, <3>2 DEF IsIn
  <2>2. CASE IsIn(m, b)
    <3>1. PICK k \in 1..(Len(q) - i) : b[k] = m
      BY <1>4, <2>2 DEF IsIn
    <3>2. i + k \in 1..Len(q) /\ q[i + k] = m
      BY <1>1, <1>3, <3>1
    <3> QED
      BY <1>1, <3>2 DEF IsIn
  <2> QED
    BY <1>5, <2>1, <2>2
<1>6. ASSUME NEW m, IsIn(m, q), m # q[i]
      PROVE  IsIn(m, a) \/ IsIn(m, b)
  <2>1. PICK k \in 1..Len(q) : q[k] = m
    BY <1>1, <1>6 DEF IsIn
  <2>2. k < i \/ k > i
    BY <1>1, <1>6, <2>1
  <2>3. CASE k < i
    <3>1. k \in 1..(i - 1)
      BY <1>1, <2>1, <2>3
    <3> QED
      BY <1>2, <1>4, <2>1, <3>1 DEF IsIn
  <2>4. CASE k > i
    <3>1. k - i \in 1..(Len(q) - i) /\ i + (k - i) = k
      BY <1>1, <2>1, <2>4
    <3>2. b[k - i] = q[k]
      BY <1>3, <3>1
    <3> QED
      BY <1>4, <2>1, <3>1, <3>2 DEF IsIn
  <2> QED
    BY <2>2, <2>3, <2>4
<1> HIDE DEF IsIn
<1>7. /\ a \o b \in Seq(S)
      /\ \A k \in DOMAIN (a \o b) : IsIn((a \o b)[k], a) \/ IsIn((a \o b)[k], b)
      /\ \A m : IsIn(m, a) \/ IsIn(m, b) => IsIn(m, a \o b)
  BY <1>2, <1>3, Joined
<1> DEFINE r == RemoveAt(q, i)
<1>8. r = a \o b
  BY <1>1
<1> HIDE DEF r
<1>9. r \in Seq(S) /\ \A k \in DOMAIN r : IsIn(r[k], a) \/ IsIn(r[k], b)
  BY <1>7, <1>8
<1>10. \A m : IsIn(m, q) => m = q[i] \/ IsIn(m, r)
  BY <1>6, <1>7, <1>8
<1> QED
  BY <1>5, <1>9, <1>10 DEF r

-----------------------------------------------------------------------------
(* What the steps keep *)

\* The inductive invariant.
Inv == CourseInv /\ KeptInv /\ (Several => VerdictInv)

\* What is true of a message stays true while batches are sent and lists grow.
LEMMA HonestStays ==
    ASSUME NEW m \in Messages, NEW top \in Nat, NEW s, Honest(m, top, s),
           NEW more \in Nat, NEW t, top <= more, Formed(t), s.checks \subseteq t.checks
    PROVE  Honest(m, more, t)
<1>1. t.checks \subseteq 0..N
  BY GraphConstants DEF Formed, Items
<1>2. m.kind = "architect_batch" => m.item \in Nat
  BY GraphConstants DEF Messages, Items, Cancel
<1>3. m.kind = "architect_batch" => m.item <= more
  BY <1>2 DEF Honest
<1>4. Whole(s) => Whole(t)
  BY <1>1 DEF Whole
<1> QED
  BY <1>3, <1>4 DEF Honest

\* What is true of the mail stays true when boxes only get honest mail.
LEMMA MailKept ==
    ASSUME CourseInv, Formed(dev'), sent' \in 0..N, sent <= sent', led.req <= led'.req, led'.req \in Nat,
           dev.checks \subseteq dev'.checks,
           \A i \in dev'.here : i \in dev.here \/ i \in 1..sent,
           dev'.mail \in {NoMail, dev.mail} \/ (dev'.mail \in Messages /\ Honest(dev'.mail, sent, dev)),
           \A k \in DOMAIN box' : IsIn(box'[k], box) \/ Honest(box'[k], sent', dev'),
           \A k \in DOMAIN parked' : IsIn(parked'[k], box) \/ IsIn(parked'[k], parked),
           \A k \in DOMAIN test' : IsIn(test'[k], test) \/ Asked(test'[k], dev', led'.req)
    PROVE  MailInv'
<1>1. sent \in Nat /\ sent' \in Nat /\ led.req \in Nat /\ led'.req \in Nat
  BY GraphConstants DEF CourseInv, TypeInv, Ledgers
<1>2. ASSUME NEW m, IsIn(m, box) \/ IsIn(m, parked)
      PROVE  Honest(m, sent', dev')
  <2>1. /\ box \in Seq(Messages) /\ parked \in Seq(Messages)
        /\ \A k \in DOMAIN box : Honest(box[k], sent, dev)
        /\ \A k \in DOMAIN parked : Honest(parked[k], sent, dev)
    BY DEF CourseInv, TypeInv, MailInv
  <2>2. m \in Messages /\ Honest(m, sent, dev)
    BY <1>2, <2>1 DEF IsIn
  <2> QED
    BY <1>1, <2>2, HonestStays
<1>3. dev'.here \subseteq 1..sent'
  <2>1. dev.here \subseteq 1..sent
    BY DEF CourseInv, MailInv
  <2> QED
    BY <1>1, <2>1
<1>4. dev'.mail # NoMail => Honest(dev'.mail, sent', dev')
  <2>1. ASSUME dev'.mail # NoMail
        PROVE  dev'.mail \in Messages /\ Honest(dev'.mail, sent, dev)
    BY <2>1 DEF CourseInv, MailInv, RunInv, Formed
  <2> QED
    BY <1>1, <2>1, HonestStays
<1>5. ASSUME NEW x, IsIn(x, test)
      PROVE  Asked(x, dev', led'.req)
  <2>1. test \in Seq(Requests) /\ \A k \in DOMAIN test : Asked(test[k], dev, led.req)
    BY DEF CourseInv, TypeInv, MailInv
  <2>2. Asked(x, dev, led.req)
    BY <1>5, <2>1 DEF IsIn
  <2>3. x.req \in 1..led'.req
    BY <1>1, <2>2 DEF Asked
  <2> QED
    BY <2>2, <2>3 DEF Asked
<1>6. \A k \in DOMAIN box' : Honest(box'[k], sent', dev')
  BY <1>2
<1>7. \A k \in DOMAIN parked' : Honest(parked'[k], sent', dev')
  BY <1>2
<1>8. \A k \in DOMAIN test' : Asked(test'[k], dev', led'.req)
  BY <1>5
<1> QED
  BY <1>3, <1>4, <1>6, <1>7, <1>8 DEF MailInv

\* A passed test stays passed while the run's list grows.
LEMMA ProvenStays ==
    ASSUME Proven, Formed(dev'), dev.checks \subseteq dev'.checks, verdict' = verdict
    PROVE  Proven'
<1>1. dev'.checks \subseteq 0..N
  BY GraphConstants DEF Formed, Items
<1> QED
  BY <1>1 DEF Proven

\* A node of the graph.
LEMMA NodeKeeps ==
    ASSUME Inv, job \in {"graph", "ask"}, job' = "graph", line # "over", Moves(dev, dev', limit),
           UNCHANGED <<line, outside, mail, ghosts>>,
           led' \in Ledgers, led'.status = led.status, led.req <= led'.req,
           test' \in Seq(Requests),
           \A k \in DOMAIN test' : IsIn(test'[k], test) \/ Asked(test'[k], dev', led'.req)
    PROVE  Inv'
<1>1. /\ RunInv(dev', limit) /\ Formed(dev') /\ dev'.mail = dev.mail
      /\ dev.done \subseteq dev'.done /\ dev.here \subseteq dev'.here
      /\ \A i \in dev'.here : i \in dev.here \/ (dev.mail.kind = "architect_batch" /\ i = dev.mail.item)
      /\ dev'.status = "ready" => dev.mail.kind = "test_passed"
  BY DEF Moves, RunInv
<1>2. CourseInv /\ KeptInv /\ (Several => VerdictInv)
  BY DEF Inv
<1>3. /\ line' = line /\ limit' = limit /\ wall' = wall /\ brakes' = brakes
      /\ sent' = sent /\ split' = split /\ box' = box /\ parked' = parked /\ consult' = consult
      /\ verdict' = verdict /\ refused' = refused
  BY DEF outside, mail, ghosts
<1>4. dev.checks = {0} \cup dev.here /\ dev'.checks = {0} \cup dev'.here
  BY <1>1, <1>2 DEF CourseInv, RunInv, Formed
<1>5. dev.checks \subseteq dev'.checks
  BY <1>1, <1>4
<1>6. TypeInv'
  <2>1. led'.req \in Nat /\ led.req \in Nat /\ verdict.req \in Nat
    BY <1>2 DEF CourseInv, TypeInv, Ledgers
  <2>2. verdict'.req \in Nat
    BY <1>3, <2>1
  <2> QED
    BY <1>2, <1>3, <2>2 DEF CourseInv, TypeInv
<1>7. Stand'
  BY <1>2, <1>3 DEF CourseInv, Stand
<1>8. MailInv'
  <2>1. sent' \in 0..N /\ sent <= sent' /\ led'.req \in Nat
    BY <1>2, <1>3, GraphConstants DEF CourseInv, TypeInv, Ledgers
  <2>2. \A i \in dev'.here : i \in dev.here \/ i \in 1..sent
    <3>1. ASSUME dev.mail.kind = "architect_batch"
          PROVE  dev.mail.item \in 1..sent
      <4>1. dev.mail \in Messages /\ Honest(dev.mail, sent, dev)
        BY <1>2, <3>1 DEF CourseInv, RunInv, Formed, MailInv, NoMail
      <4>2. dev.mail.item \in 1..N /\ dev.mail.item <= sent
        BY <3>1, <4>1 DEF Messages, Items, Cancel, Honest
      <4> QED
        BY <2>1, <1>3, <4>2
    <3> QED
      BY <1>1, <3>1
  <2>3. /\ \A k \in DOMAIN box' : IsIn(box'[k], box)
        /\ \A k \in DOMAIN parked' : IsIn(parked'[k], parked)
    BY <1>3 DEF IsIn
  <2> QED
    BY <1>1, <1>2, <1>5, <2>1, <2>2, <2>3, MailKept
<1>9. KeptInv'
  <2> SUFFICES ASSUME NEW i \in 1..sent'
               PROVE  Located(i)'
    BY DEF KeptInv
  <2>1. ~Finished
    BY <1>2 DEF Finished, CourseInv, Stand
  <2>2. Located(i)
    BY <1>2, <1>3, <2>1 DEF KeptInv
  <2> QED
    BY <1>1, <1>3, <2>2 DEF Located, IsIn
<1>10. Several => VerdictInv'
  <2> SUFFICES ASSUME Several PROVE VerdictInv'
    OBVIOUS
  <2>1. VerdictInv
    BY <1>2
  <2>2. Proven => Proven'
    BY <1>1, <1>3, <1>5, ProvenStays
  <2> QED
    BY <1>1, <1>3, <2>1, <2>2 DEF VerdictInv
<1> QED
  BY <1>1, <1>3, <1>6, <1>7, <1>8, <1>9, <1>10 DEF Inv, CourseInv

\* The nodes of the graph, each with what it writes to the ledger.
LEMMA GraphKeeps ==
    ASSUME Inv,
           ReceiveTask \/ InspectProject \/ LoadContext \/ Implement \/ LocalChecks
           \/ RequestTest \/ HandleTestResult \/ WaitBatch \/ AcceptBatch \/ Repair
           \/ Escalate \/ Ready \/ Blocked
    PROVE  Inv'
<1>1. RunInv(dev, limit) /\ limit \in 0..HardCalls /\ led \in Ledgers /\ test \in Seq(Requests)
  BY DEF Inv, CourseInv, TypeInv
<1>2. ASSUME NEW node \in Nodes, NEW nexts, At(node, nexts), \A t \in nexts : Moves(dev, t, limit),
             led' \in Ledgers, led'.status = led.status, led.req <= led'.req,
             test' \in Seq(Requests),
             \A k \in DOMAIN test' : IsIn(test'[k], test) \/ Asked(test'[k], dev', led'.req)
      PROVE  Inv'
  <2>1. job = "graph" /\ job' = "graph" /\ line # "over" /\ dev' \in nexts /\ UNCHANGED <<line, outside, mail, ghosts>>
    BY <1>2 DEF At
  <2>2. Moves(dev, dev', limit)
    BY <1>2, <2>1
  <2> QED
    BY <1>2, <2>1, <2>2, NodeKeeps
<1>3. ASSUME Quiet
      PROVE  /\ led' \in Ledgers /\ led'.status = led.status /\ led.req <= led'.req
             /\ test' \in Seq(Requests)
             /\ \A k \in DOMAIN test' : IsIn(test'[k], test) \/ Asked(test'[k], dev', led'.req)
  <2>1. led' = led /\ test' = test
    BY <1>3 DEF Quiet
  <2> QED
    BY <1>1, <2>1 DEF IsIn, Ledgers
<1>4. ASSUME NEW node \in Nodes, NEW nexts, At(node, nexts), Quiet, \A t \in nexts : Moves(dev, t, limit)
      PROVE  Inv'
  BY <1>2, <1>3, <1>4
<1>5. Nodes = {"receiveTask", "inspectProject", "loadContext", "bootstrapOrImplement",
          "runLocalChecks", "requestTest", "handleTestResult", "waitBatch",
          "acceptBatch", "repair", "escalate", "developerReady", "developerBlocked"}
  BY DEF Nodes
<1>6. ASSUME NEW node, NEW nexts, At(node, nexts) PROVE dev.node = node
  BY <1>6 DEF At
<1>11. CASE ReceiveTask
  <2>1. At("receiveTask", {receiveTask(dev)}) /\ Quiet
    BY <1>11 DEF ReceiveTask
  <2>2. \A t \in {receiveTask(dev)} : Moves(dev, t, limit)
    BY <1>1, <1>6, <2>1, ReceiveMoves
  <2> QED
    BY <1>4, <1>5, <2>1, <2>2
<1>12. CASE InspectProject
  <2>1. At("inspectProject", {inspectProject(dev)}) /\ Quiet
    BY <1>12 DEF InspectProject
  <2>2. \A t \in {inspectProject(dev)} : Moves(dev, t, limit)
    BY <1>1, <1>6, <2>1, InspectMoves
  <2> QED
    BY <1>4, <1>5, <2>1, <2>2
<1>13. CASE LoadContext
  <2>1. At("loadContext", {loadContext(dev)}) /\ Quiet
    BY <1>13 DEF LoadContext
  <2>2. \A t \in {loadContext(dev)} : Moves(dev, t, limit)
    BY <1>1, <1>6, <2>1, ContextMoves
  <2> QED
    BY <1>4, <1>5, <2>1, <2>2
<1>14. CASE Implement
  <2> DEFINE left == IF limit > dev.planned THEN limit - dev.planned ELSE 0
  <2> DEFINE nexts == {bootstrapOrImplement(dev, o, limit) : o \in runToolLoop(left)}
  <2>1. At("bootstrapOrImplement", nexts) /\ Quiet
    BY <1>14 DEF Implement
  <2>2. dev.node = "bootstrapOrImplement"
    BY <1>6, <2>1
  <2>3. \A o \in runToolLoop(left) : Moves(dev, bootstrapOrImplement(dev, o, limit), limit)
    BY <1>1, <2>2, ImplementMoves
  <2>4. \A t \in nexts : Moves(dev, t, limit)
    BY <2>3
  <2> HIDE DEF nexts
  <2> QED
    BY <1>4, <1>5, <2>1, <2>4
<1>15. CASE LocalChecks
  <2> DEFINE nexts == {runLocalChecks(dev, e, limit) : e \in {"none", "code", "env"}}
  <2>1. At("runLocalChecks", nexts) /\ Quiet
    BY <1>15 DEF LocalChecks
  <2>2. dev.node = "runLocalChecks"
    BY <1>6, <2>1
  <2>3. \A e \in {"none", "code", "env"} : Moves(dev, runLocalChecks(dev, e, limit), limit)
    BY <1>1, <2>2, ChecksMoves
  <2>4. \A t \in nexts : Moves(dev, t, limit)
    BY <2>3
  <2> HIDE DEF nexts
  <2> QED
    BY <1>4, <1>5, <2>1, <2>4
<1>17. CASE HandleTestResult
  <2>1. /\ At("handleTestResult", {handleTestResult(dev)})
        /\ led' = [led EXCEPT !.wait = None] /\ test' = test
    BY <1>17 DEF HandleTestResult, clearTestWait
  <2>2. \A t \in {handleTestResult(dev)} : Moves(dev, t, limit)
    BY <1>1, <1>6, <2>1, ResultMoves
  <2>3. led' \in Ledgers /\ led'.status = led.status /\ led.req <= led'.req
    BY <1>1, <2>1 DEF Ledgers
  <2>4. \A k \in DOMAIN test' : IsIn(test'[k], test)
    BY <2>1 DEF IsIn
  <2> QED
    BY <1>1, <1>2, <1>5, <2>1, <2>2, <2>3, <2>4
<1>16. CASE RequestTest
  <2> DEFINE x == [checks |-> dev.checks, req |-> led.req + 1]
  <2>1. /\ At("requestTest", {requestTest(dev)})
        /\ led' = [led EXCEPT !.wait = dev.checks, !.late = FALSE, !.req = @ + 1]
        /\ test' = Append(test, [checks |-> dev.checks, req |-> led'.req])
    BY <1>16 DEF RequestTest, openTestWait
  <2>2. \A t \in {requestTest(dev)} : Moves(dev, t, limit)
    BY <1>1, <1>6, <2>1, RequestMoves
  <2>3. dev.node = "requestTest" /\ dev' = requestTest(dev)
    BY <2>1 DEF At
  <2>4. dev.checks \in SUBSET (0..N) /\ (Several => N \in dev.checks)
    BY <1>1, <2>3, GraphConstants DEF RunInv, Formed, Placed, Supplied, Several, Items
  <2>5. led' \in Ledgers /\ led'.status = led.status /\ led'.req = led.req + 1 /\ led.req \in Nat
    <3>1. led.req \in Nat /\ led.req + 1 \in Nat
      BY <1>1 DEF Ledgers
    <3>2. led' = [status |-> led.status, got |-> led.got, wait |-> dev.checks, late |-> FALSE, req |-> led.req + 1]
      BY <1>1, <2>1 DEF Ledgers
    <3>3. led.status \in {"none"} \cup Statuses /\ led.got \in 0..HardCalls
      BY <1>1 DEF Ledgers
    <3>4. led' \in Ledgers
      BY <2>4, <3>1, <3>2, <3>3 DEF Ledgers
    <3> QED
      BY <3>1, <3>2, <3>4
  <2>6. x \in Requests /\ test' = Append(test, x)
    BY <2>1, <2>4, <2>5 DEF Requests
  <2>7. dev.checks \subseteq dev'.checks
    BY <1>1, <2>2, <2>3 DEF Moves, RunInv, Formed
  <2>8. Asked(x, dev', led'.req)
    BY <2>4, <2>5, <2>7 DEF Asked
  <2> HIDE DEF x
  <2>9. test' \in Seq(Requests) /\ \A k \in DOMAIN test' : IsIn(test'[k], test) \/ Asked(test'[k], dev', led'.req)
    BY <1>1, <2>6, <2>8, Put
  <2>10. /\ "requestTest" \in Nodes /\ At("requestTest", {requestTest(dev)})
         /\ led' \in Ledgers /\ led'.status = led.status /\ led.req <= led'.req
    BY <1>5, <2>1, <2>5
  <2> QED
    BY ONLY <1>2, <2>2, <2>9, <2>10
<1>18. CASE WaitBatch
  <2>1. At("waitBatch", {waitBatch(dev)}) /\ Quiet
    BY <1>18 DEF WaitBatch
  <2>2. \A t \in {waitBatch(dev)} : Moves(dev, t, limit)
    BY <1>1, <1>6, <2>1, WaitMoves
  <2> QED
    BY <1>4, <1>5, <2>1, <2>2
<1>19. CASE AcceptBatch
  <2>1. At("acceptBatch", {acceptBatch(dev)}) /\ Quiet
    BY <1>19 DEF AcceptBatch
  <2>2. \A t \in {acceptBatch(dev)} : Moves(dev, t, limit)
    BY <1>1, <1>6, <2>1, BatchMoves, NoBatchMoves
  <2> QED
    BY <1>4, <1>5, <2>1, <2>2
<1>20. CASE Repair
  <2> DEFINE nexts == {repair(dev, o) : o \in runToolLoop(RepairCalls)}
  <2>1. At("repair", nexts) /\ Quiet
    BY <1>20 DEF Repair
  <2>2. dev.node = "repair"
    BY <1>6, <2>1
  <2>3. \A o \in runToolLoop(RepairCalls) : Moves(dev, repair(dev, o), limit)
    BY <1>1, <2>2, RepairMoves
  <2>4. \A t \in nexts : Moves(dev, t, limit)
    BY <2>3
  <2> HIDE DEF nexts
  <2> QED
    BY <1>4, <1>5, <2>1, <2>4
<1>21. CASE Escalate
  <2>1. At("escalate", {escalate(dev, limit)}) /\ Quiet
    BY <1>21 DEF Escalate
  <2>2. \A t \in {escalate(dev, limit)} : Moves(dev, t, limit)
    BY <1>1, <1>6, <2>1, EscalateMoves
  <2> QED
    BY <1>4, <1>5, <2>1, <2>2
<1>22. CASE Ready
  <2>1. At("developerReady", {developerReady(dev)}) /\ Quiet
    BY <1>22 DEF Ready
  <2>2. \A t \in {developerReady(dev)} : Moves(dev, t, limit)
    BY <1>1, <1>6, <2>1, ReadyMoves
  <2> QED
    BY <1>4, <1>5, <2>1, <2>2
<1>23. CASE Blocked
  <2>1. At("developerBlocked", {developerBlocked(dev)}) /\ Quiet
    BY <1>23 DEF Blocked
  <2>2. \A t \in {developerBlocked(dev)} : Moves(dev, t, limit)
    BY <1>1, <1>6, <2>1, BlockedMoves
  <2> QED
    BY <1>4, <1>5, <2>1, <2>2
<1> QED
  BY <1>11, <1>12, <1>13, <1>14, <1>15, <1>16, <1>17, <1>18, <1>19, <1>20, <1>21, <1>22, <1>23

\* A step that leaves the run alone.
LEMMA OutsideKeeps ==
    ASSUME Inv, TypeInv', Stand', dev' = dev, verdict' = verdict,
           limit' = limit \/ Braked(dev, limit'),
           sent <= sent', led.req <= led'.req,
           \A k \in DOMAIN box' : IsIn(box'[k], box) \/ Honest(box'[k], sent', dev),
           \A k \in DOMAIN parked' : IsIn(parked'[k], box) \/ IsIn(parked'[k], parked),
           \A k \in DOMAIN test' : IsIn(test'[k], test),
           \A i \in 1..sent : IsIn(Batch(i), box) \/ IsIn(Batch(i), parked)
                                => IsIn(Batch(i), box') \/ IsIn(Batch(i), parked'),
           \A i \in 1..sent' : i \in 1..sent \/ IsIn(Batch(i), box'),
           Finished => Finished',
           led'.status = "ready" => led.status = "ready",
           led.status = "ready" /\ job = "idle" /\ line \in {"drive", "closing", "over"} =>
               led'.status # "ready" \/ (job' = "idle" /\ line' \in {"drive", "closing", "over"})
    PROVE  Inv'
<1>1. CourseInv /\ KeptInv /\ (Several => VerdictInv) /\ RunInv(dev, limit) /\ Formed(dev)
  BY DEF Inv, CourseInv, RunInv
<1>2. RunInv(dev', limit')
  BY <1>1 DEF RunInv
<1>3. MailInv'
  <2>1. sent' \in 0..N /\ led'.req \in Nat
    BY DEF TypeInv, Ledgers
  <2> QED
    BY <1>1, <2>1, MailKept
<1>4. KeptInv'
  <2> SUFFICES ASSUME NEW i \in 1..sent'
               PROVE  Located(i)' \/ Finished'
    BY DEF KeptInv
  <2>1. CASE i \in 1..sent
    BY <1>1, <2>1 DEF KeptInv, Located
  <2>2. CASE IsIn(Batch(i), box')
    BY <2>2 DEF Located
  <2> QED
    BY <2>1, <2>2
<1>5. Several => VerdictInv'
  BY <1>1 DEF VerdictInv, Proven
<1> QED
  BY <1>2, <1>3, <1>4, <1>5 DEF Inv, CourseInv

\* What boxes hold when nothing is done to them.
LEMMA Untouched == \A q : \A k \in DOMAIN q : IsIn(q[k], q)
BY DEF IsIn

\* A station is asked, or the question to a person is put.
LEMMA AskingKeeps ==
    ASSUME Inv, ConsultStation \/ AskHuman \/ ConsultTimesOut
    PROVE  Inv'
<1>1. TypeInv /\ Stand
  BY DEF Inv, CourseInv
<1>2. /\ dev' = dev /\ line' = line /\ led' = led /\ test' = test /\ box' = box /\ parked' = parked
      /\ limit' = limit /\ wall' = wall /\ brakes' = brakes /\ sent' = sent /\ split' = split
      /\ verdict' = verdict /\ refused' = refused
      /\ line # "over" /\ job \in {"graph", "consult"}
  BY DEF ConsultStation, AskHuman, ConsultTimesOut, outside, mail, ghosts
<1>3. job' \in {"graph", "consult", "ask"} /\ (job' = "ask" => dev.node = "end" /\ dev.human)
  BY DEF ConsultStation, AskHuman, ConsultTimesOut
<1>4. /\ consult' \in [made : 0..MaxConsults, open : SUBSET Nat, late : Nat]
      /\ consult'.open \subseteq 1..consult'.made /\ consult'.late <= consult'.made
      /\ job' = "consult" => consult'.late < consult'.made
  <2>1. /\ MaxConsults \in Nat /\ consult.made \in 0..MaxConsults /\ consult.late \in Nat
        /\ consult.open \subseteq 1..consult.made /\ consult.late <= consult.made
        /\ job = "consult" => consult.late < consult.made
        /\ DOMAIN consult = {"made", "open", "late"}
    BY <1>1, TaskConstants DEF TypeInv
  <2>2. CASE ConsultStation
    <3>1. consult' = [made |-> consult.made + 1, open |-> consult.open \cup {consult.made + 1}, late |-> consult.late]
      BY <1>1, <2>2 DEF ConsultStation, TypeInv
    <3>2. consult.made + 1 \in 0..MaxConsults /\ consult.open \cup {consult.made + 1} \subseteq 1..(consult.made + 1)
      BY <2>1, <2>2 DEF ConsultStation
    <3> QED
      BY <2>1, <3>1, <3>2
  <2>3. CASE AskHuman
    BY <1>1, <2>3 DEF AskHuman, mail, TypeInv
  <2>4. CASE ConsultTimesOut
    <3>1. consult' = [made |-> consult.made, open |-> consult.open, late |-> consult.late + 1] /\ job' = "graph"
      BY <1>1, <2>4 DEF ConsultTimesOut, TypeInv
    <3>2. consult.late + 1 <= consult.made
      BY <2>1, <2>4 DEF ConsultTimesOut
    <3> QED
      BY <2>1, <3>1, <3>2
  <2> QED
    BY <2>2, <2>3, <2>4
<1>5. TypeInv'
  BY <1>1, <1>2, <1>3, <1>4 DEF TypeInv
<1>6. Stand'
  BY <1>1, <1>2, <1>3 DEF Stand
<1>7. ~Finished
  BY <1>1, <1>2 DEF Finished, Stand
<1>8. /\ \A k \in DOMAIN box' : IsIn(box'[k], box)
      /\ \A k \in DOMAIN parked' : IsIn(parked'[k], parked)
      /\ \A k \in DOMAIN test' : IsIn(test'[k], test)
  BY <1>2, Untouched
<1>9. sent <= sent' /\ led.req <= led'.req
  BY <1>1, <1>2, GraphConstants DEF TypeInv, Ledgers
<1> QED
  BY <1>2, <1>5, <1>6, <1>7, <1>8, <1>9, OutsideKeeps

\* What a receive that is not the driver's does: the head of the inbox is set aside,
\* in copies and perhaps once more, and no longer held on to.
LEMMA SetAside ==
    ASSUME TypeInv, box # <<>>, NEW also,
           also = <<>> \/ also = <<Head(box)>>
    PROVE  /\ Head(box) \in Messages /\ IsIn(Head(box), box)
           /\ Tail(box) \in Seq(Messages) /\ \A k \in DOMAIN Tail(box) : IsIn(Tail(box)[k], box)
           /\ \A m : IsIn(m, box) => m = Head(box) \/ IsIn(m, Tail(box))
           /\ parked \o Copies(Head(box)) \o also \in Seq(Messages)
           /\ \A k \in DOMAIN (parked \o Copies(Head(box)) \o also) :
                 \/ IsIn((parked \o Copies(Head(box)) \o also)[k], box)
                 \/ IsIn((parked \o Copies(Head(box)) \o also)[k], parked)
           /\ \A m : IsIn(m, parked) => IsIn(m, parked \o Copies(Head(box)) \o also)
           /\ also # <<>> \/ consult.late > 0 =>
                 IsIn(Head(box), parked \o Copies(Head(box)) \o also)
<1> DEFINE h == Head(box)
<1> DEFINE c == Copies(h)
<1> DEFINE p == parked \o c
<1>1. /\ box \in Seq(Messages) /\ parked \in Seq(Messages) /\ consult.late \in Nat
  BY DEF TypeInv
<1>2. /\ h \in Messages /\ IsIn(h, box)
      /\ Tail(box) \in Seq(Messages) /\ \A k \in DOMAIN Tail(box) : IsIn(Tail(box)[k], box)
      /\ \A m : IsIn(m, box) => m = h \/ IsIn(m, Tail(box))
  BY <1>1, Taken
<1> HIDE DEF h
<1>3. /\ c \in Seq(Messages) /\ \A x : IsIn(x, c) => x = h
      /\ consult.late > 0 => IsIn(h, c)
  BY <1>1, <1>2, CopiesAre
<1>4. also \in Seq(Messages) /\ (\A x : IsIn(x, also) => x = h) /\ (also # <<>> => IsIn(h, also))
  <2>1. CASE also = <<>>
    <3>1. <<>> \in Seq(Messages) /\ DOMAIN <<>> = {}
      OBVIOUS
    <3> QED
      BY <2>1, <3>1 DEF IsIn
  <2>2. CASE also = <<h>>
    BY <1>2, <2>2, One
  <2> QED
    BY <2>1, <2>2 DEF h
<1> HIDE DEF c, IsIn
<1>5. /\ p \in Seq(Messages)
      /\ \A k \in DOMAIN p : IsIn(p[k], parked) \/ IsIn(p[k], c)
      /\ \A m : IsIn(m, parked) \/ IsIn(m, c) => IsIn(m, p)
  BY <1>1, <1>3, Joined
<1> HIDE DEF p
<1> DEFINE r == p \o also
<1>6. /\ r \in Seq(Messages)
      /\ \A k \in DOMAIN r : IsIn(r[k], p) \/ IsIn(r[k], also)
      /\ \A m : IsIn(m, p) \/ IsIn(m, also) => IsIn(m, r)
  BY <1>4, <1>5, Joined
<1> HIDE DEF r
<1>7. ASSUME NEW x, IsIn(x, p)
      PROVE  IsIn(x, box) \/ IsIn(x, parked)
  <2>1. PICK k \in DOMAIN p : p[k] = x
    BY <1>7 DEF IsIn
  <2> QED
    BY <1>2, <1>3, <1>5, <2>1
<1>8. \A k \in DOMAIN r : IsIn(r[k], box) \/ IsIn(r[k], parked)
  BY <1>2, <1>4, <1>6, <1>7
<1>9. \A m : IsIn(m, parked) => IsIn(m, r)
  BY <1>5, <1>6
<1>10. also # <<>> \/ consult.late > 0 => IsIn(h, r)
  BY <1>3, <1>4, <1>5, <1>6
<1> QED
  BY <1>2, <1>6, <1>8, <1>9, <1>10 DEF r, p, c, h

\* Adding nothing to a box.
LEMMA NothingMore ==
    ASSUME NEW S, NEW q \in Seq(S)
    PROVE  q \o <<>> = q
OBVIOUS

\* The receives under way have what they waited for.
LEMMA CaughtTyped ==
    ASSUME TypeInv, consult' = Caught, job' \in {"consult", "graph", "ask", "idle"},
           job' = "consult" => job = "consult"
    PROVE  /\ consult' \in [made : 0..MaxConsults, open : SUBSET Nat, late : Nat]
           /\ consult'.open \subseteq 1..consult'.made /\ consult'.late <= consult'.made
           /\ job' = "consult" => consult'.late < consult'.made
<1>1. /\ MaxConsults \in Nat /\ consult.made \in 0..MaxConsults /\ consult.late \in Nat
      /\ consult.open \subseteq 1..consult.made /\ consult.late <= consult.made
      /\ job = "consult" => consult.late < consult.made
  BY TaskConstants DEF TypeInv
<1>2. consult' = [made |-> consult.made, late |-> 0, open |-> IF job = "consult" THEN consult.open ELSE {}]
  BY DEF Caught, TypeInv
<1> QED
  BY <1>1, <1>2

\* A message is received by a consult, or by one that has timed out.
LEMMA ReceivingKeeps ==
    ASSUME Inv, ConsultReceives \/ LateReceive
    PROVE  Inv'
<1> DEFINE also == IF job = "consult" /\ Head(box) # Reply(consult.made) THEN <<Head(box)>> ELSE <<>>
<1>1. TypeInv /\ Stand /\ parked \in Seq(Messages)
  BY DEF Inv, CourseInv, TypeInv
<1>2. /\ dev' = dev /\ line' = line /\ led' = led /\ test' = test
      /\ limit' = limit /\ wall' = wall /\ brakes' = brakes /\ sent' = sent /\ split' = split
      /\ verdict' = verdict /\ refused' = refused
      /\ line # "over" /\ job \in {"graph", "consult", "ask"}
      /\ box # <<>> /\ box' = Tail(box) /\ consult' = Caught
  BY DEF ConsultReceives, LateReceive, outside, ghosts
<1>3. job' \in {"graph", "consult", "ask"} /\ (job' = "ask" => job = "ask") /\ (job' = "consult" => job = "consult")
  BY DEF ConsultReceives, LateReceive
<1>4. parked' = parked \o Copies(Head(box)) \o also
  <2>1. parked \o Copies(Head(box)) \in Seq(Messages)
    BY <1>1, <1>2, SetAside, Taken, CopiesAre, Joined DEF TypeInv
  <2>2. CASE LateReceive
    <3>1. also = <<>> /\ parked' = parked \o Copies(Head(box))
      BY <2>2 DEF LateReceive
    <3> QED
      BY <2>1, <3>1, NothingMore
  <2>3. CASE ConsultReceives /\ Head(box) = Reply(consult.made)
    <3>1. also = <<>> /\ parked' = parked \o Copies(Head(box))
      BY <2>3 DEF ConsultReceives
    <3> QED
      BY <2>1, <3>1, NothingMore
  <2>4. CASE ConsultReceives /\ Head(box) # Reply(consult.made)
    BY <2>4 DEF ConsultReceives
  <2> QED
    BY <2>2, <2>3, <2>4
<1>5. also = <<>> \/ also = <<Head(box)>>
  OBVIOUS
<1>6. also # <<>> \/ consult.late > 0 \/ Head(box) = Reply(consult.made)
  <2>1. <<Head(box)>> # <<>>
    OBVIOUS
  <2>2. LateReceive => consult.late > 0
    BY DEF LateReceive
  <2>3. ConsultReceives => job = "consult"
    BY DEF ConsultReceives
  <2> QED
    BY <2>1, <2>2, <2>3
<1> HIDE DEF also
<1>7. /\ Head(box) \in Messages
      /\ box' \in Seq(Messages) /\ \A k \in DOMAIN box' : IsIn(box'[k], box)
      /\ \A m : IsIn(m, box) => m = Head(box) \/ IsIn(m, box')
      /\ parked' \in Seq(Messages)
      /\ \A k \in DOMAIN parked' : IsIn(parked'[k], box) \/ IsIn(parked'[k], parked)
      /\ \A m : IsIn(m, parked) => IsIn(m, parked')
      /\ also # <<>> \/ consult.late > 0 => IsIn(Head(box), parked')
  BY <1>1, <1>2, <1>4, <1>5, SetAside
<1>8. \A i \in 1..sent : IsIn(Batch(i), box) \/ IsIn(Batch(i), parked)
                          => IsIn(Batch(i), box') \/ IsIn(Batch(i), parked')
  <2>1. \A i : Batch(i) # Reply(consult.made)
    BY DEF Batch, Reply
  <2> QED
    BY <1>6, <1>7, <2>1
<1>9. TypeInv'
  BY <1>1, <1>2, <1>3, <1>7, CaughtTyped DEF TypeInv
<1>10. Stand'
  BY <1>1, <1>2, <1>3 DEF Stand
<1>11. ~Finished
  BY <1>1, <1>2 DEF Finished, Stand
<1>12. sent <= sent' /\ led.req <= led'.req /\ \A k \in DOMAIN test' : IsIn(test'[k], test)
  BY <1>1, <1>2, Untouched, GraphConstants DEF TypeInv, Ledgers
<1> QED
  BY <1>2, <1>7, <1>8, <1>9, <1>10, <1>11, <1>12, OutsideKeeps

\* A person answers: the run goes back to the node that asked.
LEMMA AnsweredKeeps ==
    ASSUME Inv, Answered
    PROVE  Inv'
<1>1. TypeInv /\ Stand /\ RunInv(dev, limit) /\ limit \in 0..HardCalls
  BY DEF Inv, CourseInv, TypeInv
<1>2. PICK a \in {"continue", "narrow", "stop"} : dev' = [dev EXCEPT !.answer = a, !.node = dev.resume]
  BY DEF Answered
<1>3. /\ job = "ask" /\ job' = "graph" /\ line # "over" /\ led' = led /\ test' = test
      /\ UNCHANGED <<line, outside, mail, ghosts>>
  BY DEF Answered
<1>4. /\ dev.node = "end" /\ dev.human = TRUE /\ dev.resume = "escalate"
      /\ DOMAIN dev = Fields /\ dev.status \in Statuses /\ dev.status # "ready"
      /\ {dev.stall, dev.full, dev.human} \subseteq BOOLEAN /\ (Ahead(dev) => dev.got >= limit)
  BY <1>1, <1>3 DEF Stand, RunInv, Formed, Placed, Braked, Resting
<1>5. /\ DOMAIN dev' = Fields /\ dev'.node = "escalate"
      /\ \A f \in Fields \ {"answer", "node"} : dev'[f] = dev[f]
  BY <1>2, <1>4 DEF Fields
<1>6. /\ \A f \in Still : dev'[f] = dev[f]
      /\ dev'.status = dev.status /\ dev'.stall = dev.stall /\ dev'.full = dev.full
      /\ dev'.human = TRUE /\ dev'.resume = "escalate"
  BY <1>4, <1>5 DEF Still, Course, Fields
<1>7. Placed(dev')
  BY <1>4, <1>5, <1>6 DEF Placed
<1>8. dev'.node \in Nodes
  BY <1>5 DEF Nodes
<1>9. {dev'.stall, dev'.full, dev'.human} \subseteq BOOLEAN
  BY <1>4, <1>6
<1>10. Moves(dev, dev', limit)
  BY <1>1, <1>4, <1>5, <1>6, <1>7, <1>8, <1>9, StillMove
<1>11. led' \in Ledgers /\ led.req <= led'.req /\ test' \in Seq(Requests)
       /\ \A k \in DOMAIN test' : IsIn(test'[k], test)
  BY <1>1, <1>3, Untouched DEF TypeInv, Ledgers
<1> QED
  BY <1>3, <1>10, <1>11, NodeKeeps

\* The invocation is over.
LEMMA EndKeeps ==
    ASSUME Inv, InvocationEnds
    PROVE  Inv'
<1>1. /\ TypeInv /\ Stand /\ RunInv(dev, limit) /\ CourseInv /\ KeptInv /\ (Several => VerdictInv)
  BY DEF Inv, CourseInv
<1>2. /\ job = "graph" /\ line # "over" /\ Resting(dev) /\ dev' = [dev EXCEPT !.mail = NoMail]
      /\ job' = "idle" /\ line' = IF line \in {"first", "serve", "await"} THEN "drive" ELSE line
      /\ verdict' = (IF led'.status = "ready" THEN verdict ELSE NoVerdict)
      /\ test' = test /\ UNCHANGED <<outside, mail, refused>>
  BY DEF InvocationEnds, Resting
<1>3. /\ limit' = limit /\ wall' = wall /\ brakes' = brakes /\ sent' = sent /\ split' = split
      /\ box' = box /\ parked' = parked /\ consult' = consult /\ refused' = refused
  BY <1>2 DEF outside, mail
<1>4. /\ DOMAIN dev = Fields /\ dev.status \in Statuses /\ dev.got \in 0..HardCalls
  BY <1>1 DEF RunInv, Formed
<1>5. /\ DOMAIN dev' = Fields /\ dev'.mail = NoMail /\ \A f \in Fields \ {"mail"} : dev'[f] = dev[f]
  BY <1>2, <1>4 DEF Fields
<1>6. /\ dev'.status = dev.status /\ dev'.node = dev.node /\ dev'.item = dev.item /\ dev'.done = dev.done
      /\ dev'.here = dev.here /\ dev'.checks = dev.checks /\ dev'.planned = dev.planned
      /\ dev'.got = dev.got /\ dev'.stall = dev.stall /\ dev'.full = dev.full /\ dev'.human = dev.human
      /\ dev'.resume = dev.resume
  BY <1>5 DEF Fields
<1>7. NoMail.kind = "none" /\ dev.node \in {"end", "threw", "illegal"}
  BY <1>2 DEF NoMail, Resting
<1>8. Formed(dev') /\ Resting(dev')
  BY <1>1, <1>2, <1>5, <1>6 DEF RunInv, Formed, Resting
<1>9. RunInv(dev', limit')
  <2>1. Orderly(dev')
    BY <1>1, <1>6 DEF RunInv, Orderly
  <2>2. Braked(dev', limit')
    BY <1>8 DEF Braked
  <2>3. Placed(dev')
    BY <1>1, <1>6, <1>7 DEF RunInv, Placed
  <2>4. Delivered(dev')
    BY <1>5, <1>7 DEF Delivered, TestKinds
  <2> QED
    BY <1>8, <2>1, <2>2, <2>3, <2>4 DEF RunInv
<1>10. /\ led'.status = (IF dev.node = "end" THEN dev.status ELSE "failed")
       /\ led' \in Ledgers /\ led'.req = led.req
  <2> DEFINE status == IF dev.node = "end" THEN dev.status ELSE "failed"
  <2>1. led \in Ledgers /\ status \in Statuses
    BY <1>1, <1>4, Standings DEF TypeInv
  <2>2. led' = IF status = "waiting_test"
               THEN [led EXCEPT !.status = status, !.got = dev.got]
               ELSE [led EXCEPT !.status = status, !.got = dev.got, !.wait = None]
    BY DEF InvocationEnds
  <2> HIDE DEF status
  <2>3. led' = [status |-> status, got |-> dev.got, wait |-> IF status = "waiting_test" THEN led.wait ELSE None,
                late |-> led.late, req |-> led.req]
    BY <2>1, <2>2 DEF Ledgers
  <2>4. led'.status = status /\ led' \in Ledgers /\ led'.req = led.req
    BY <1>4, <2>1, <2>3 DEF Ledgers
  <2> QED
    BY <2>4 DEF status
<1>11. TypeInv'
  <2>1. line' \in {"first", "drive", "serve", "await", "brake", "closing", "paused", "over"}
    BY <1>1, <1>2 DEF TypeInv
  <2>2. DOMAIN verdict' = {"kind", "checks", "req"} /\ verdict'.req \in Nat
    BY <1>1, <1>2, <1>10 DEF TypeInv, NoVerdict, Ledgers
  <2> QED
    BY <1>1, <1>2, <1>3, <1>10, <2>1, <2>2 DEF TypeInv
<1>12. Stand'
  BY <1>1, <1>2, <1>5, <1>6, <1>8, <1>10 DEF Stand
<1>13. MailInv'
  <2>1. sent' \in 0..N /\ sent <= sent' /\ led'.req \in Nat /\ led.req <= led'.req
    BY <1>1, <1>3, <1>10, GraphConstants DEF TypeInv, Ledgers
  <2>2. /\ \A k \in DOMAIN box' : IsIn(box'[k], box)
        /\ \A k \in DOMAIN parked' : IsIn(parked'[k], parked)
        /\ \A k \in DOMAIN test' : IsIn(test'[k], test)
    BY <1>2, <1>3, Untouched
  <2> QED
    BY <1>1, <1>5, <1>6, <1>8, <2>1, <2>2, MailKept
<1>14. KeptInv'
  <2> SUFFICES ASSUME NEW i \in 1..sent'
               PROVE  Located(i)'
    BY DEF KeptInv
  <2>1. Located(i)
    BY <1>1, <1>2, <1>3 DEF KeptInv, Finished, Stand
  <2>2. dev.mail = Batch(i) => i \in dev.here \cup dev.done
    BY <1>1, <1>7 DEF RunInv, Delivered, Batch
  <2> QED
    BY <1>3, <1>6, <2>1, <2>2 DEF Located
<1>15. Several => VerdictInv'
  <2> SUFFICES ASSUME Several PROVE VerdictInv'
    OBVIOUS
  <2>1. dev.status = "ready" => Proven /\ dev.node = "end"
    BY <1>1 DEF VerdictInv, RunInv, Placed
  <2>2. led'.status = "ready" => dev.status = "ready"
    BY <1>10
  <2>3. dev.status = "ready" => Proven'
    BY <1>2, <1>6, <1>10, <2>1 DEF Proven
  <2>4. line' \in {"drive", "closing"}
    BY <1>1, <1>2 DEF TypeInv, Stand
  <2> QED
    BY <1>2, <1>5, <1>6, <1>7, <2>2, <2>3, <2>4 DEF VerdictInv
<1> QED
  BY <1>9, <1>11, <1>12, <1>13, <1>14, <1>15 DEF Inv, CourseInv

\* An invocation nobody waits for dies.
LEMMA OrphanKeeps ==
    ASSUME Inv, OrphanDies
    PROVE  Inv'
<1>1. TypeInv /\ Stand
  BY DEF Inv, CourseInv
<1>2. /\ dev' = dev /\ line = "over" /\ line' = line /\ led' = led /\ test' = test /\ box' = box
      /\ parked' = parked /\ consult' = consult /\ job' = "idle"
      /\ limit' = limit /\ wall' = wall /\ brakes' = brakes /\ sent' = sent /\ split' = split
      /\ verdict' = verdict /\ refused' = refused
  BY DEF OrphanDies, outside, mail, ghosts
<1>3. TypeInv'
  BY <1>1, <1>2 DEF TypeInv
<1>4. Stand'
  BY <1>2 DEF Stand
<1>5. Finished'
  BY <1>2 DEF Finished
<1>6. /\ \A k \in DOMAIN box' : IsIn(box'[k], box)
      /\ \A k \in DOMAIN parked' : IsIn(parked'[k], parked)
      /\ \A k \in DOMAIN test' : IsIn(test'[k], test)
  BY <1>2, Untouched
<1>7. sent <= sent' /\ led.req <= led'.req
  BY <1>1, <1>2, GraphConstants DEF TypeInv, Ledgers
<1> QED
  BY <1>2, <1>3, <1>4, <1>5, <1>6, <1>7, OutsideKeeps

\* A step of the driver that takes no message.
LEMMA DriverKeeps ==
    ASSUME Inv, Drive \/ BrakeContinue \/ BrakeStop \/ BrakePause \/ ClosingWrites \/ WatchdogFires
    PROVE  Inv'
<1>1. TypeInv /\ Stand /\ Braked(dev, limit) /\ led \in Ledgers
  BY DEF Inv, CourseInv, RunInv, TypeInv
<1>2. /\ dev' = dev /\ job' = job /\ test' = test /\ box' = box /\ parked' = parked /\ consult' = consult
      /\ sent' = sent /\ split' = split /\ verdict' = verdict /\ refused' = refused
  BY DEF Drive, BrakeContinue, BrakeStop, BrakePause, ClosingWrites, WatchdogFires, outside, mail, ghosts
<1>3. /\ \A k \in DOMAIN box' : IsIn(box'[k], box)
      /\ \A k \in DOMAIN parked' : IsIn(parked'[k], parked)
      /\ \A k \in DOMAIN test' : IsIn(test'[k], test)
  BY <1>2, Untouched
<1>4. ASSUME led' \in Ledgers, led'.req = led.req, limit' \in 0..HardCalls, wall' \in BOOLEAN, brakes' \in 0..MaxBrakes,
             line' \in {"drive", "serve", "await", "brake", "closing", "paused", "over"},
             limit' = limit \/ Braked(dev, limit'), Stand', Finished => Finished',
             led'.status = "ready" => led.status = "ready",
             led.status = "ready" /\ job = "idle" /\ line \in {"drive", "closing", "over"} =>
                 led'.status # "ready" \/ (job' = "idle" /\ line' \in {"drive", "closing", "over"})
      PROVE  Inv'
  <2>1. TypeInv'
    BY <1>1, <1>2, <1>4 DEF TypeInv
  <2>2. sent <= sent' /\ led.req <= led'.req
    BY <1>1, <1>2, <1>4, GraphConstants DEF TypeInv, Ledgers
  <2>3. \A i \in 1..sent' : i \in 1..sent
    BY <1>2
  <2>4. \A i \in 1..sent : IsIn(Batch(i), box) \/ IsIn(Batch(i), parked)
                          => IsIn(Batch(i), box') \/ IsIn(Batch(i), parked')
    BY <1>2
  <2> QED
    BY <1>2, <1>3, <1>4, <2>1, <2>2, <2>3, <2>4, OutsideKeeps
<1>5. limit \in 0..HardCalls /\ wall \in BOOLEAN /\ brakes \in 0..MaxBrakes
  BY <1>1 DEF TypeInv
<1>6. CASE Drive
  <2>1. led' = led /\ limit' = limit /\ wall' = wall /\ brakes' = brakes /\ line = "drive"
    BY <1>6 DEF Drive, outside
  <2>2. line' \in {"over", "brake", "await", "serve"} /\ (line' # "over" <=> led.status \notin Terminal)
    BY <1>6 DEF Drive
  <2>3. "blocked" \in Terminal /\ "ready" \in Terminal
    BY DEF Terminal
  <2>4. Stand'
    BY <1>1, <1>2, <2>1, <2>2, <2>3 DEF Stand
  <2>5. Finished => Finished'
    BY <1>2, <2>1, <2>2 DEF Finished
  <2> QED
    BY <1>1, <1>2, <1>4, <1>5, <2>1, <2>2, <2>3, <2>4, <2>5
<1>7. CASE BrakeContinue
  <2>1. /\ led' = led /\ limit' = Cap(limit + Extend) /\ wall' \in {wall, FALSE} /\ brakes' = brakes + 1
        /\ brakes < MaxBrakes /\ line = "brake" /\ line' = "drive"
    BY <1>7 DEF BrakeContinue
  <2>2. job = "idle" /\ Resting(dev)
    BY <1>1, <2>1 DEF Stand
  <2>3. limit' \in 0..HardCalls /\ brakes' \in 0..MaxBrakes /\ wall' \in BOOLEAN
    <3>1. Extend \in Nat /\ HardCalls \in Nat /\ MaxBrakes \in Nat
      BY GraphConstants, TaskConstants
    <3>2. limit' \in 0..HardCalls
      BY <1>5, <2>1, <3>1 DEF Cap
    <3>3. brakes' \in 0..MaxBrakes
      BY <1>5, <2>1, <3>1
    <3>4. wall' \in BOOLEAN
      BY <1>5, <2>1
    <3> QED
      BY <3>2, <3>3, <3>4
  <2>4. Braked(dev, limit')
    BY <2>2 DEF Braked
  <2>5. Stand'
    BY <1>1, <1>2, <2>1, <2>2 DEF Stand
  <2>6. Finished => Finished'
    BY <1>2, <2>1 DEF Finished
  <2> QED
    BY <1>1, <1>2, <1>4, <2>1, <2>3, <2>4, <2>5, <2>6
<1>8. CASE BrakeStop \/ WatchdogFires
  <2>1. /\ led' = led /\ limit' = limit /\ wall' = wall /\ brakes' = brakes
        /\ line \in {"brake", "await"} /\ line' = "closing"
    BY <1>8 DEF BrakeStop, WatchdogFires, outside
  <2>2. Stand'
    BY <1>1, <1>2, <2>1 DEF Stand
  <2>3. Finished => Finished'
    BY <1>2, <2>1 DEF Finished
  <2> QED
    BY <1>1, <1>2, <1>4, <1>5, <2>1, <2>2, <2>3
<1>9. CASE BrakePause
  <2>1. /\ led' = [led EXCEPT !.status = "waiting_human"] /\ limit' = limit /\ wall' = wall /\ brakes' = brakes
        /\ line = "brake" /\ line' = "paused"
    BY <1>9 DEF BrakePause, outside
  <2>2. led' \in Ledgers /\ led'.req = led.req /\ led'.status = "waiting_human"
    BY <1>1, <2>1, Standings DEF Ledgers
  <2>3. Stand'
    BY <1>1, <1>2, <2>1, <2>2 DEF Stand
  <2>4. Finished'
    BY <2>1 DEF Finished
  <2> QED
    BY <1>1, <1>2, <1>4, <1>5, <2>1, <2>2, <2>3, <2>4
<1>10. CASE ClosingWrites
  <2>1. /\ led' = [led EXCEPT !.status = "blocked", !.wait = None]
        /\ limit' = limit /\ wall' = wall /\ brakes' = brakes /\ line = "closing" /\ line' = "drive"
    BY <1>10 DEF ClosingWrites, outside
  <2>2. led' \in Ledgers /\ led'.req = led.req /\ led'.status = "blocked"
    BY <1>1, <2>1, Standings DEF Ledgers
  <2>3. Stand'
    BY <1>1, <1>2, <2>1, <2>2 DEF Stand
  <2>4. Finished => Finished'
    BY <1>2, <2>1, <2>2 DEF Finished, Terminal
  <2> QED
    BY <1>1, <1>2, <1>4, <1>5, <2>1, <2>2, <2>3, <2>4
<1> QED
  BY <1>6, <1>7, <1>8, <1>9, <1>10

\* A message is sent: the boxes keep what they hold.
LEMMA SendKeeps ==
    ASSUME Inv, TypeInv', NEW m \in Messages, dev' = dev, job' = job, line' = line, led'= led, limit' = limit,
           verdict' = verdict, parked' = parked, sent <= sent',
           box' = box \/ (box' = Append(box, m) /\ Honest(m, sent', dev)),
           \A k \in DOMAIN test' : IsIn(test'[k], test),
           \A i \in 1..sent' : i \in 1..sent \/ (box' = Append(box, m) /\ m = Batch(i))
    PROVE  Inv'
<1>1. TypeInv /\ Stand /\ box \in Seq(Messages)
  BY DEF Inv, CourseInv, TypeInv
<1>2. /\ \A k \in DOMAIN box' : IsIn(box'[k], box) \/ Honest(box'[k], sent', dev)
      /\ \A x : IsIn(x, box) => IsIn(x, box')
      /\ box' = Append(box, m) => IsIn(m, box')
  <2>1. CASE box' = box
    <3>1. box' = Append(box, m) => IsIn(m, box')
      BY <1>1, Put
    <3> QED
      BY <2>1, <3>1, Untouched
  <2>2. CASE box' = Append(box, m) /\ Honest(m, sent', dev)
    <3>1. /\ \A k \in DOMAIN box' : IsIn(box'[k], box) \/ box'[k] = m
          /\ \A x : IsIn(x, box) \/ x = m => IsIn(x, box')
      BY <1>1, <2>2, Put
    <3> QED
      BY <2>2, <3>1
  <2> QED
    BY <2>1, <2>2
<1>3. \A k \in DOMAIN parked' : IsIn(parked'[k], parked)
  BY Untouched
<1>4. Stand'
  BY <1>1 DEF Stand
<1>5. Finished => Finished'
  BY DEF Finished
<1>6. led.req <= led'.req
  BY <1>1 DEF TypeInv, Ledgers
<1>7. \A i \in 1..sent' : i \in 1..sent \/ IsIn(Batch(i), box')
  BY <1>2
<1> QED
  BY <1>2, <1>3, <1>4, <1>5, <1>6, <1>7, OutsideKeeps

\* The architect sends the next batch, or calls the task off.
LEMMA ArchitectKeeps ==
    ASSUME Inv, Architect
    PROVE  Inv'
<1>1. TypeInv /\ box \in Seq(Messages) /\ sent \in 0..N /\ N \in Nat
  BY GraphConstants DEF Inv, CourseInv, TypeInv
<1>2. /\ dev' = dev /\ job' = job /\ line' = line /\ led' = led /\ limit' = limit /\ wall' = wall
      /\ brakes' = brakes /\ parked' = parked /\ consult' = consult /\ test' = test
      /\ verdict' = verdict /\ refused' = refused
  BY DEF Architect, SendBatch, SplitFails, SplitBreaks, mail, ghosts
<1>3. \A k \in DOMAIN test' : IsIn(test'[k], test)
  BY <1>2, Untouched
<1>4. CASE SendBatch
  <2>1. sent' = sent + 1 /\ sent < N /\ box' = Append(box, Batch(sent')) /\ split' = split
    BY <1>4 DEF SendBatch
  <2>2. sent' \in 1..N /\ Batch(sent') \in Messages
    BY <1>1, <2>1 DEF Messages, Batch, Items
  <2>3. Honest(Batch(sent'), sent', dev)
    BY <1>1, <2>1 DEF Honest, Batch, TestKinds
  <2>4. box' \in Seq(Messages)
    BY <1>1, <2>1, <2>2, Put
  <2>5. TypeInv'
    BY <1>1, <1>2, <2>1, <2>2, <2>4 DEF TypeInv
  <2>6. \A i \in 1..sent' : i \in 1..sent \/ Batch(sent') = Batch(i)
    BY <1>1, <2>1
  <2>7. sent <= sent'
    BY <1>1, <2>1
  <2> DEFINE m == Batch(sent')
  <2> HIDE DEF m
  <2>8. m \in Messages /\ box' = Append(box, m) /\ Honest(m, sent', dev)
        /\ \A i \in 1..sent' : i \in 1..sent \/ m = Batch(i)
    BY <2>1, <2>2, <2>3, <2>6 DEF m
  <2> QED
    BY <1>2, <1>3, <2>5, <2>7, <2>8, SendKeeps
<1>5. CASE SplitFails
  <2>1. sent' = sent /\ box' = Append(box, Cancel) /\ split' = "cancelled"
    BY <1>5 DEF SplitFails
  <2>2. Cancel \in Messages /\ Honest(Cancel, sent, dev)
    BY DEF Messages, Honest, Cancel, TestKinds
  <2>3. box' \in Seq(Messages)
    BY <1>1, <2>1, <2>2, Put
  <2>4. TypeInv'
    BY <1>1, <1>2, <2>1, <2>3 DEF TypeInv
  <2>5. sent <= sent' /\ \A i \in 1..sent' : i \in 1..sent
    BY <1>1, <2>1
  <2>6. Honest(Cancel, sent', dev)
    BY <2>1, <2>2
  <2> QED
    BY <1>2, <1>3, <2>1, <2>2, <2>4, <2>5, <2>6, SendKeeps
<1>6. CASE SplitBreaks
  <2>1. sent' = sent /\ box' = box /\ split' = "broken"
    BY <1>6 DEF SplitBreaks, mail
  <2>2. Cancel \in Messages
    BY DEF Messages, Cancel
  <2>3. TypeInv'
    BY <1>1, <1>2, <2>1 DEF TypeInv
  <2>4. sent <= sent' /\ \A i \in 1..sent' : i \in 1..sent
    BY <1>1, <2>1
  <2> QED
    BY <1>2, <1>3, <2>1, <2>2, <2>3, <2>4, SendKeeps
<1> QED
  BY <1>4, <1>5, <1>6 DEF Architect

\* The tester takes the oldest request, and answers it or does not.
LEMMA TesterKeeps ==
    ASSUME Inv, handleTestRequest
    PROVE  Inv'
<1>1. /\ TypeInv /\ box \in Seq(Messages) /\ test \in Seq(Requests) /\ sent \in 0..N /\ led.req \in Nat
      /\ RunInv(dev, limit) /\ \A k \in DOMAIN test : Asked(test[k], dev, led.req)
  BY DEF Inv, CourseInv, TypeInv, MailInv, Ledgers
<1> DEFINE t == Head(test)
<1>2. /\ dev' = dev /\ job' = job /\ line' = line /\ led' = led /\ limit' = limit /\ wall' = wall
      /\ brakes' = brakes /\ sent' = sent /\ split' = split /\ parked' = parked /\ consult' = consult
      /\ verdict' = verdict /\ refused' = refused /\ test' = Tail(test) /\ test # <<>>
  BY DEF handleTestRequest, outside, ghosts
<1>3. /\ t \in Requests /\ test' \in Seq(Requests) /\ IsIn(t, test)
      /\ \A k \in DOMAIN test' : IsIn(test'[k], test)
  BY <1>1, <1>2, Taken
<1>4. Asked(t, dev, led.req)
  BY <1>1, <1>3 DEF IsIn
<1>5. \/ box' = box
      \/ /\ t.checks = 0..sent
         /\ \/ box' = Append(box, Passed(t))
            \/ \E f \in Failures : box' = Append(box, Failed(t, f))
  BY DEF handleTestRequest
<1> HIDE DEF t
<1>6. ASSUME t.checks = 0..sent, Several
      PROVE  t.checks = 0..N /\ Whole(dev)
  <2>1. N \in 0..sent /\ N \in Nat
    BY <1>4, <1>6, GraphConstants DEF Asked
  <2>2. sent = N
    BY <1>1, <2>1
  <2>3. dev.checks \subseteq 0..N
    BY <1>1, GraphConstants DEF RunInv, Formed, Items
  <2> QED
    BY <1>4, <1>6, <2>2, <2>3 DEF Asked, Whole
<1>7. ASSUME NEW m \in Messages, Honest(m, sent, dev), box' = box \/ box' = Append(box, m)
      PROVE  Inv'
  <2>1. box' \in Seq(Messages)
    BY <1>1, <1>7, Put
  <2>2. TypeInv'
    BY <1>1, <1>2, <1>3, <2>1 DEF TypeInv
  <2>3. sent <= sent' /\ \A i \in 1..sent' : i \in 1..sent
    BY <1>1, <1>2, GraphConstants
  <2>4. Honest(m, sent', dev)
    BY <1>2, <1>7
  <2> QED
    BY <1>2, <1>3, <1>7, <2>2, <2>3, <2>4, SendKeeps
<1>8. CASE box' = box
  <2>1. Cancel \in Messages /\ Honest(Cancel, sent, dev)
    BY DEF Messages, Honest, Cancel, TestKinds
  <2> QED
    BY <1>7, <1>8, <2>1
<1>9. CASE t.checks = 0..sent /\ box' = Append(box, Passed(t))
  <2>1. Passed(t) \in Messages
    BY <1>3 DEF Messages, Passed, Requests
  <2>2. Honest(Passed(t), sent, dev)
    BY <1>6, <1>9 DEF Honest, Passed
  <2> QED
    BY <1>7, <1>9, <2>1, <2>2
<1>10. ASSUME t.checks = 0..sent, NEW f \in Failures, box' = Append(box, Failed(t, f))
       PROVE  Inv'
  <2>1. Failed(t, f) \in Messages
    BY <1>3 DEF Messages, Failed, Requests
  <2>2. Honest(Failed(t, f), sent, dev)
    BY <1>6, <1>10 DEF Honest, Failed
  <2> QED
    BY <1>7, <1>10, <2>1, <2>2
<1> QED
  BY <1>5, <1>8, <1>9, <1>10

\* A station answers.
LEMMA StationKeeps ==
    ASSUME Inv, StationAnswers
    PROVE  Inv'
<1>1. TypeInv /\ box \in Seq(Messages) /\ sent \in 0..N
  BY DEF Inv, CourseInv, TypeInv
<1>2. PICK n \in consult.open : /\ consult' = [consult EXCEPT !.open = @ \ {n}]
                                /\ box' = Append(box, Reply(n))
  BY DEF StationAnswers
<1>3. /\ dev' = dev /\ job' = job /\ line' = line /\ led' = led /\ limit' = limit /\ wall' = wall
      /\ brakes' = brakes /\ sent' = sent /\ split' = split /\ parked' = parked /\ test' = test
      /\ verdict' = verdict /\ refused' = refused
  BY DEF StationAnswers, outside, ghosts
<1>4. n \in Nat
  BY <1>1 DEF TypeInv
<1>5. Reply(n) \in Messages /\ Honest(Reply(n), sent', dev)
  BY <1>4 DEF Messages, Reply, Honest, TestKinds
<1>6. box' \in Seq(Messages)
  BY <1>1, <1>2, <1>5, Put
<1>7. /\ consult' \in [made : 0..MaxConsults, open : SUBSET Nat, late : Nat]
      /\ consult'.open \subseteq 1..consult'.made /\ consult'.late <= consult'.made
      /\ job' = "consult" => consult'.late < consult'.made
  <2>1. consult' = [made |-> consult.made, open |-> consult.open \ {n}, late |-> consult.late]
    BY <1>1, <1>2 DEF TypeInv
  <2> QED
    BY <1>1, <1>3, <2>1 DEF TypeInv
<1>8. TypeInv'
  BY <1>1, <1>3, <1>6, <1>7 DEF TypeInv
<1>9. sent <= sent' /\ (\A i \in 1..sent' : i \in 1..sent) /\ \A k \in DOMAIN test' : IsIn(test'[k], test)
  BY <1>1, <1>3, Untouched, GraphConstants
<1> QED
  BY <1>2, <1>3, <1>5, <1>8, <1>9, SendKeeps

\* Time passes.
LEMMA TimeKeeps ==
    ASSUME Inv, DeadlinePasses \/ WallPasses
    PROVE  Inv'
<1>1. TypeInv /\ Stand /\ led \in Ledgers /\ sent \in 0..N
  BY DEF Inv, CourseInv, TypeInv
<1>2. /\ dev' = dev /\ job' = job /\ line' = line /\ limit' = limit /\ brakes' = brakes /\ test' = test
      /\ box' = box /\ parked' = parked /\ consult' = consult
      /\ sent' = sent /\ split' = split /\ verdict' = verdict /\ refused' = refused
      /\ wall' \in {wall, TRUE} /\ led' \in {led, [led EXCEPT !.late = TRUE]}
  BY DEF DeadlinePasses, WallPasses, outside, mail, ghosts
<1>3. led' \in Ledgers /\ led'.req = led.req /\ led'.status = led.status
  BY <1>1, <1>2 DEF Ledgers
<1>4. wall' \in BOOLEAN
  BY <1>1, <1>2 DEF TypeInv
<1>5. TypeInv'
  BY <1>1, <1>2, <1>3, <1>4 DEF TypeInv
<1>6. Stand' /\ (Finished => Finished')
  BY <1>1, <1>2, <1>3 DEF Stand, Finished
<1>7. /\ \A k \in DOMAIN box' : IsIn(box'[k], box)
      /\ \A k \in DOMAIN parked' : IsIn(parked'[k], parked)
      /\ \A k \in DOMAIN test' : IsIn(test'[k], test)
  BY <1>2, Untouched
<1>8. sent <= sent' /\ led.req <= led'.req
  BY <1>1, <1>2, <1>3, GraphConstants DEF Ledgers
<1> QED
  BY <1>2, <1>3, <1>5, <1>6, <1>7, <1>8, OutsideKeeps

\* The driver acts upon a message that fits the ledger's status: the message leaves
\* the boxes for the run, or is about a batch the run has, or closes the task.
LEMMA DispatchKeeps ==
    ASSUME Inv, Serving, NEW m \in Messages, Honest(m, sent, dev),
           fitsCurrentStatus(m), dispatchMessage(m),
           led' = led, test' = test, limit' = limit, wall' = wall, brakes' = brakes,
           sent' = sent, split' = split,
           consult' \in [made : 0..MaxConsults, open : SUBSET Nat, late : Nat],
           consult'.open \subseteq 1..consult'.made, consult'.late <= consult'.made,
           box' \in Seq(Messages), parked' \in Seq(Messages),
           \A k \in DOMAIN box' : IsIn(box'[k], box),
           \A k \in DOMAIN parked' : IsIn(parked'[k], box) \/ IsIn(parked'[k], parked),
           \A x : IsIn(x, box) \/ IsIn(x, parked)
                    => x = m \/ IsIn(x, box') \/ IsIn(x, parked')
    PROVE  Inv'
<1>1. /\ TypeInv /\ Stand /\ RunInv(dev, limit) /\ CourseInv /\ KeptInv /\ (Several => VerdictInv)
      /\ sent \in 0..N /\ N \in Nat
  BY GraphConstants DEF Inv, CourseInv, TypeInv
<1>2. /\ line \in {"serve", "await"} /\ job = "idle"
      /\ Resting(dev) /\ dev.mail = NoMail /\ (Several => led.status # "ready")
  BY <1>1 DEF Serving, Stand, VerdictInv
<1>3. /\ DOMAIN dev = Fields /\ dev.human = FALSE /\ dev.checks = {0} \cup dev.here
      /\ dev.here \subseteq Items
  <2>1. dev.human => dev.node \in {"end", "escalate"}
    BY <1>1 DEF RunInv, Placed
  <2> QED
    BY <1>1, <1>2, <2>1 DEF RunInv, Formed, Resting
<1>4. m.kind \in {"architect_batch", "test_passed", "test_failure", "cancel_task", "consult_reply"}
  BY DEF Messages, Cancel
<1>5. \A k \in DOMAIN test' : IsIn(test'[k], test)
  BY Untouched
<1>6. led \in Ledgers /\ led.req \in Nat /\ led'.req \in Nat
  BY <1>1 DEF TypeInv, Ledgers
<1>7. ASSUME dev' = dev, job' = job, verdict' = verdict, line' \in {"drive", "closing"},
             refused' \in {"no", "late", "stale", "order"},
             \/ line' = "closing" \/ m.kind # "architect_batch"
             \/ m.item \in dev.here \cup dev.done
      PROVE  Inv'
  <2>1. RunInv(dev', limit')
    BY <1>1, <1>7
  <2>2. TypeInv'
    BY <1>1, <1>2, <1>7 DEF TypeInv
  <2>3. Stand'
    BY <1>1, <1>2, <1>7 DEF Stand
  <2>4. MailInv'
    <3>1. Formed(dev') /\ dev'.mail = dev.mail
      BY <1>1, <1>7 DEF RunInv
    <3> QED
      BY <1>1, <1>5, <1>6, <1>7, <3>1, MailKept
  <2>5. KeptInv'
    <3> SUFFICES ASSUME NEW i \in 1..sent'
                 PROVE  Located(i)' \/ Finished'
      BY DEF KeptInv
    <3>1. Located(i) \/ Finished
      BY <1>1 DEF KeptInv
    <3>2. Finished => Finished'
      BY <1>2, <1>7 DEF Finished
    <3>3. ASSUME m = Batch(i)
          PROVE  Located(i)' \/ Finished'
      <4>1. m.kind = "architect_batch" /\ m.item = i
        BY <3>3 DEF Batch
      <4> QED
        BY <1>2, <1>7, <4>1 DEF Located, Finished
    <3>4. Located(i) => Located(i)' \/ m = Batch(i)
      BY <1>7 DEF Located
    <3> QED
      BY <3>1, <3>2, <3>3, <3>4
  <2>6. Several => VerdictInv'
    BY <1>1, <1>2, <1>7 DEF VerdictInv, Proven
  <2> QED
    BY <2>1, <2>2, <2>3, <2>4, <2>5, <2>6 DEF Inv, CourseInv
<1>8. ASSUME NEW status \in Statuses, NEW node \in Nodes, Resume(m, status, node), status # "ready",
             Placed(dev'), Braked(dev', limit), Delivered(dev'),
             DOMAIN verdict' = {"kind", "checks", "req"}, verdict'.req \in Nat,
             led.status \notin Terminal, Several /\ m.kind = "test_passed" => Proven'
      PROVE  Inv'
  <2>1. /\ dev' = [dev EXCEPT !.status = status, !.resume = node, !.node = node, !.mail = m]
        /\ job' = "graph" /\ line' = line /\ refused' = refused
    BY <1>8 DEF Resume
  <2>2. /\ DOMAIN dev' = Fields /\ dev'.mail = m /\ dev'.status = status /\ dev'.node = node
        /\ dev'.item = dev.item /\ dev'.done = dev.done /\ dev'.here = dev.here /\ dev'.checks = dev.checks
        /\ dev'.planned = dev.planned /\ dev'.got = dev.got /\ dev'.stall = dev.stall
        /\ dev'.full = dev.full /\ dev'.human = dev.human
    BY <1>3, <2>1 DEF Fields
  <2>3. Formed(dev')
    BY <1>1, <2>2 DEF RunInv, Formed
  <2>4. RunInv(dev', limit')
    <3>1. Orderly(dev')
      BY <1>1, <2>2 DEF RunInv, Orderly
    <3> QED
      BY <1>8, <2>3, <3>1 DEF RunInv
  <2>5. TypeInv'
    BY <1>1, <1>8, <2>1 DEF TypeInv
  <2>6. Stand'
    BY <1>2, <2>1 DEF Stand
  <2>7. MailInv'
    BY <1>1, <1>5, <1>6, <2>2, <2>3, MailKept
  <2>8. KeptInv'
    <3> SUFFICES ASSUME NEW i \in 1..sent'
                 PROVE  Located(i)'
      BY DEF KeptInv
    <3>1. Located(i)
      BY <1>1, <1>2, <1>8 DEF KeptInv, Finished
    <3>2. dev.mail # Batch(i)
      BY <1>2 DEF NoMail, Batch
    <3> QED
      BY <2>2, <3>1, <3>2 DEF Located
  <2>9. Several => VerdictInv'
    BY <1>2, <1>8, <2>2 DEF VerdictInv
  <2> QED
    BY <2>4, <2>5, <2>6, <2>7, <2>8, <2>9 DEF Inv, CourseInv
<1>9. CASE m.kind = "architect_batch"
  <2>1. resumeWithBatch(m) /\ led.status = "waiting_item"
    BY <1>9 DEF dispatchMessage, fitsCurrentStatus
  <2>2. dev.node = "end" /\ dev.status = "waiting_item" /\ ~dev.stall /\ ~dev.full
    BY <1>1, <1>2, <2>1 DEF Stand, RunInv, Placed
  <2>3. refused \in {"no", "late", "stale", "order"} /\ verdict' = verdict
    BY <1>1, <2>1 DEF TypeInv, resumeWithBatch
  <2>4. CASE m.item \in dev.here \cup dev.done
    <3>1. line' = "drive" /\ dev' = dev /\ job' = job /\ refused' = refused
      BY <2>1, <2>4 DEF resumeWithBatch
    <3> QED
      BY <1>7, <2>3, <2>4, <3>1
  <2>5. CASE m.item \notin dev.here \cup dev.done /\ m.item # nextUnarrivedWorkItem(dev)
    <3>1. line' = "closing" /\ dev' = dev /\ job' = job /\ refused' = "order"
      BY <2>1, <2>5 DEF resumeWithBatch, Refuse
    <3> QED
      BY <1>7, <2>3, <3>1
  <2>6. CASE m.item \notin dev.here \cup dev.done /\ m.item = nextUnarrivedWorkItem(dev)
    <3>1. Resume(m, "waiting_item", "acceptBatch")
      BY <2>1, <2>6 DEF resumeWithBatch
    <3>2. dev' = [dev EXCEPT !.status = "waiting_item", !.resume = "acceptBatch",
                             !.node = "acceptBatch", !.mail = m]
      BY <3>1 DEF Resume
    <3>3. /\ dev'.mail = m /\ dev'.status = "waiting_item" /\ dev'.node = "acceptBatch"
          /\ dev'.done = dev.done /\ dev'.here = dev.here /\ dev'.stall = dev.stall
          /\ dev'.full = dev.full /\ dev'.human = FALSE
      BY <1>3, <3>2 DEF Fields
    <3>4. Placed(dev')
      BY <2>2, <3>3 DEF Placed
    <3>5. Braked(dev', limit)
      BY <3>3 DEF Braked
    <3>6. nextUnarrivedWorkItem(dev') = nextUnarrivedWorkItem(dev)
      BY <3>3 DEF nextUnarrivedWorkItem
    <3>7. Delivered(dev')
      BY <1>9, <2>6, <3>3, <3>6 DEF Delivered, TestKinds
    <3>8. "waiting_item" \in Statuses /\ "acceptBatch" \in Nodes /\ "waiting_item" \notin Terminal
      BY Standings DEF Nodes, Terminal
    <3>9. DOMAIN verdict' = {"kind", "checks", "req"} /\ verdict'.req \in Nat
      BY <1>1, <2>3 DEF TypeInv
    <3> QED
      BY <1>8, <1>9, <2>1, <3>1, <3>4, <3>5, <3>7, <3>8, <3>9
  <2> QED
    BY <2>4, <2>5, <2>6
<1>10. CASE m.kind \in TestKinds
  <2>1. resumeFromTestMessage(m) /\ led.status = "waiting_test"
    BY <1>10 DEF dispatchMessage, fitsCurrentStatus, TestKinds
  <2>2. m.req \in Nat
    BY <1>10 DEF Messages, TestKinds, Cancel
  <2>3. CASE led.late \/ m.checks # Expected
    <3>1. \E why \in {"late", "stale"} : Refuse(why)
      BY <2>1, <2>3 DEF resumeFromTestMessage, Identified
    <3>2. /\ line' = "closing" /\ dev' = dev /\ job' = job /\ verdict' = verdict
          /\ refused' \in {"late", "stale"}
      BY <3>1 DEF Refuse
    <3> QED
      BY <1>7, <3>2
  <2>4. CASE ~led.late /\ m.checks = Expected
    <3>1. /\ Resume(m, "waiting_test", "handleTestResult")
          /\ verdict' = [kind |-> m.kind, checks |-> m.checks, req |-> m.req]
      BY <2>1, <2>4 DEF resumeFromTestMessage, Identified
    <3>2. dev' = [dev EXCEPT !.status = "waiting_test", !.resume = "handleTestResult",
                             !.node = "handleTestResult", !.mail = m]
      BY <3>1 DEF Resume
    <3>3. /\ dev'.mail = m /\ dev'.status = "waiting_test" /\ dev'.node = "handleTestResult"
          /\ dev'.here = dev.here /\ dev'.checks = dev.checks /\ dev'.human = FALSE /\ dev'.item = dev.item
      BY <1>3, <3>2 DEF Fields
    <3>4. Several => m.checks = 0..N /\ dev.checks = 0..N
      BY <1>10 DEF Honest, Whole
    <3>5. Supplied(dev')
      <4>1. CASE Several
        BY <1>1, <1>3, <3>3, <3>4, <4>1 DEF Supplied
      <4>2. CASE ~Several
        BY <1>1, <4>2 DEF Supplied, Several
      <4> QED
        BY <4>1, <4>2
    <3>6. Placed(dev')
      BY <3>3, <3>5 DEF Placed
    <3>7. Braked(dev', limit)
      <4>1. dev'.item \in 0..N
        BY <1>1, <3>3 DEF RunInv, Formed
      <4>2. dev'.item \notin {0, 1} => dev'.item \in 2..N
        BY <1>1, <4>1
      <4> QED
        BY <3>5, <4>2 DEF Braked, Ahead, Supplied
    <3>8. Delivered(dev')
      BY <1>10, <3>3, <3>4 DEF Delivered, TestKinds, Whole
    <3>9. /\ "waiting_test" \in Statuses /\ "handleTestResult" \in Nodes
          /\ "waiting_test" \notin Terminal
      BY Standings DEF Nodes, Terminal
    <3>10. DOMAIN verdict' = {"kind", "checks", "req"} /\ verdict'.req \in Nat
      BY <2>2, <3>1
    <3>11. Several /\ m.kind = "test_passed" => Proven'
      BY <3>1, <3>3, <3>4 DEF Proven
    <3> QED
      BY <1>8, <2>1, <3>1, <3>6, <3>7, <3>8, <3>9, <3>10, <3>11
  <2> QED
    BY <2>3, <2>4
<1>11. CASE m.kind \in {"cancel_task", "consult_reply"}
  <2>1. /\ line' \in {"drive", "closing"} /\ dev' = dev /\ job' = job
        /\ verdict' = verdict /\ refused' = refused
    BY <1>11 DEF dispatchMessage
  <2>2. refused' \in {"no", "late", "stale", "order"}
    BY <1>1, <2>1 DEF TypeInv
  <2> QED
    BY <1>7, <1>11, <2>1, <2>2
<1> QED
  BY <1>4, <1>9, <1>10, <1>11 DEF TestKinds

\* The driver takes the oldest parked message that fits.
LEMMA TakeKeeps ==
    ASSUME Inv, TakeParked
    PROVE  Inv'
<1> DEFINE i == First(Waiting)
<1> DEFINE m == parked[i]
<1>1. /\ TypeInv /\ MailInv /\ parked \in Seq(Messages) /\ box \in Seq(Messages)
  BY DEF Inv, CourseInv, TypeInv
<1>2. /\ Serving /\ Waiting # {} /\ parked' = RemoveAt(parked, i) /\ dispatchMessage(m)
      /\ led' = led /\ test' = test /\ box' = box /\ consult' = consult
      /\ limit' = limit /\ wall' = wall /\ brakes' = brakes /\ sent' = sent /\ split' = split
  BY DEF TakeParked, outside
<1>3. i \in DOMAIN parked /\ fitsCurrentStatus(m)
  <2>1. Waiting \subseteq DOMAIN parked /\ DOMAIN parked \subseteq Nat
    BY <1>1 DEF Waiting
  <2> DEFINE w == Waiting
  <2>2. w \subseteq Nat /\ w # {}
    BY <1>2, <2>1
  <2>3. First(w) \in w
    <3> HIDE DEF w
    <3> QED
      BY <2>2, FirstOf
  <2> QED
    BY <2>3 DEF Waiting
<1>4. m \in Messages /\ Honest(m, sent, dev)
  BY <1>1, <1>3 DEF MailInv
<1> HIDE DEF i
<1>5. /\ parked' \in Seq(Messages)
      /\ \A k \in DOMAIN parked' : IsIn(parked'[k], parked)
      /\ \A x : IsIn(x, parked) => x = m \/ IsIn(x, parked')
  BY <1>1, <1>2, <1>3, Removed
<1> HIDE DEF m
<1>6. \A k \in DOMAIN box' : IsIn(box'[k], box)
  BY <1>2, Untouched
<1>7. /\ consult' \in [made : 0..MaxConsults, open : SUBSET Nat, late : Nat]
      /\ consult'.open \subseteq 1..consult'.made /\ consult'.late <= consult'.made
      /\ box' \in Seq(Messages)
  BY <1>1, <1>2 DEF TypeInv
<1>8. \A x : IsIn(x, box) \/ IsIn(x, parked) => x = m \/ IsIn(x, box') \/ IsIn(x, parked')
  BY <1>2, <1>5
<1> QED
  BY <1>2, <1>3, <1>4, <1>5, <1>6, <1>7, <1>8, DispatchKeeps

\* The driver receives a message: it acts upon it or sets it aside.
LEMMA ReceiveKeeps ==
    ASSUME Inv, Receive
    PROVE  Inv'
<1> DEFINE m == Head(box)
<1>1. /\ TypeInv /\ MailInv /\ Stand /\ parked \in Seq(Messages) /\ box \in Seq(Messages)
      /\ consult.late \in Nat /\ sent \in 0..N
  BY DEF Inv, CourseInv, TypeInv
<1>2. /\ Serving /\ box # <<>> /\ box' = Tail(box) /\ consult' = Caught
      /\ led' = led /\ test' = test
      /\ limit' = limit /\ wall' = wall /\ brakes' = brakes /\ sent' = sent /\ split' = split
  BY DEF Receive, outside
<1>3. /\ m \in Messages /\ Honest(m, sent, dev) /\ m = Head(box)
  <2>1. IsIn(m, box) /\ m \in Messages
    BY <1>1, <1>2, SetAside
  <2>2. \E k \in DOMAIN box : box[k] = m
    BY <2>1 DEF IsIn
  <2> QED
    BY <1>1, <2>1, <2>2 DEF MailInv
<1>4. job = "idle" /\ line \in {"serve", "await"}
  BY <1>2 DEF Serving
<1>5. ASSUME job' \in {"idle", "graph"}
      PROVE  /\ consult' \in [made : 0..MaxConsults, open : SUBSET Nat, late : Nat]
             /\ consult'.open \subseteq 1..consult'.made /\ consult'.late <= consult'.made
             /\ job' = "consult" => consult'.late < consult'.made
  BY <1>1, <1>2, <1>5, CaughtTyped
<1>6. CASE fitsCurrentStatus(m)
  <2>1. dispatchMessage(m) /\ parked' = parked \o Copies(m)
    BY <1>6 DEF Receive
  <2>2. parked' = parked \o Copies(m) \o <<>>
    <3>1. parked \o Copies(m) \in Seq(Messages)
      BY <1>1, <1>3, CopiesAre, Joined
    <3> QED
      BY <2>1, <3>1, NothingMore
  <2>3. /\ box' \in Seq(Messages) /\ \A k \in DOMAIN box' : IsIn(box'[k], box)
        /\ \A x : IsIn(x, box) => x = m \/ IsIn(x, box')
        /\ parked' \in Seq(Messages)
        /\ \A k \in DOMAIN parked' : IsIn(parked'[k], box) \/ IsIn(parked'[k], parked)
        /\ \A x : IsIn(x, parked) => IsIn(x, parked')
    BY <1>1, <1>2, <2>2, SetAside
  <2> HIDE DEF m
  <2>4. job' \in {"idle", "graph"}
    <3>1. m.kind \in {"architect_batch", "test_passed", "test_failure", "cancel_task", "consult_reply"}
      BY <1>3 DEF Messages, Cancel
    <3>2. CASE m.kind = "architect_batch"
      BY <1>4, <2>1, <3>2 DEF dispatchMessage, resumeWithBatch, Refuse, Resume
    <3>3. CASE m.kind \in {"test_passed", "test_failure"}
      BY <1>4, <2>1, <3>3 DEF dispatchMessage, resumeFromTestMessage, Identified, Refuse, Resume
    <3>4. CASE m.kind \in {"cancel_task", "consult_reply"}
      BY <1>4, <2>1, <3>4 DEF dispatchMessage
    <3> QED
      BY <3>1, <3>2, <3>3, <3>4
  <2>5. /\ consult' \in [made : 0..MaxConsults, open : SUBSET Nat, late : Nat]
        /\ consult'.open \subseteq 1..consult'.made /\ consult'.late <= consult'.made
    BY <1>5, <2>4
  <2>6. \A x : IsIn(x, box) \/ IsIn(x, parked) => x = m \/ IsIn(x, box') \/ IsIn(x, parked')
    BY <2>3
  <2> QED
    BY <1>2, <1>3, <1>6, <2>1, <2>3, <2>5, <2>6, DispatchKeeps
<1>7. CASE ~fitsCurrentStatus(m)
  <2>1. /\ parked' = parked \o Copies(m) \o <<m>>
        /\ dev' = dev /\ job' = job /\ line' = line /\ verdict' = verdict /\ refused' = refused
    BY <1>7 DEF Receive, ghosts
  <2> DEFINE also == <<m>>
  <2>2. parked' = parked \o Copies(m) \o also /\ also = <<Head(box)>> /\ also # <<>>
    BY <2>1
  <2> HIDE DEF also
  <2>3. /\ box' \in Seq(Messages) /\ \A k \in DOMAIN box' : IsIn(box'[k], box)
        /\ \A x : IsIn(x, box) => x = m \/ IsIn(x, box')
        /\ parked' \in Seq(Messages)
        /\ \A k \in DOMAIN parked' : IsIn(parked'[k], box) \/ IsIn(parked'[k], parked)
        /\ \A x : IsIn(x, parked) => IsIn(x, parked')
        /\ IsIn(m, parked')
    BY <1>1, <1>2, <2>2, SetAside
  <2> HIDE DEF m
  <2>4. TypeInv'
    BY <1>1, <1>2, <1>4, <1>5, <2>1, <2>3 DEF TypeInv
  <2>5. Stand'
    BY <1>1, <1>2, <2>1 DEF Stand
  <2>6. Finished => Finished'
    BY <1>2, <2>1 DEF Finished
  <2>7. \A i \in 1..sent : IsIn(Batch(i), box) \/ IsIn(Batch(i), parked)
                            => IsIn(Batch(i), box') \/ IsIn(Batch(i), parked')
    BY <2>3
  <2>8. /\ sent <= sent' /\ led.req <= led'.req /\ \A i \in 1..sent' : i \in 1..sent
        /\ \A k \in DOMAIN test' : IsIn(test'[k], test)
    BY <1>1, <1>2, Untouched, GraphConstants DEF TypeInv, Ledgers
  <2> QED
    BY <1>2, <2>1, <2>3, <2>4, <2>5, <2>6, <2>7, <2>8, OutsideKeeps
<1> QED
  BY <1>6, <1>7

-----------------------------------------------------------------------------
(* Theorems *)

\* A run starts at the first item with nothing sent.
LEMMA InitHolds == Init => Inv
<1> SUFFICES ASSUME Init
             PROVE  Inv
  OBVIOUS
<1>1. /\ dev = initialDeveloperState /\ job = "graph" /\ line = "first"
      /\ led = [status |-> "none", got |-> 0, wait |-> None, late |-> FALSE, req |-> 0]
      /\ limit = Calls /\ wall = FALSE /\ brakes = 0 /\ box = <<>> /\ parked = <<>>
      /\ consult = [made |-> 0, open |-> {}, late |-> 0]
      /\ sent = 0 /\ split = "on" /\ test = <<>> /\ verdict = NoVerdict /\ refused = "no"
  BY DEF Init
<1>2. /\ DOMAIN dev = Fields /\ dev.status = "received" /\ dev.node = "receiveTask" /\ dev.resume = "none"
      /\ dev.item = 1 /\ dev.done = {} /\ dev.here = {} /\ dev.checks = {0} /\ dev.planned = 0 /\ dev.got = 0
      /\ dev.stall = FALSE /\ dev.full = FALSE /\ dev.human = FALSE /\ dev.mail = NoMail
  BY <1>1 DEF initialDeveloperState, Fields
<1>3. /\ N \in Nat \ {0} /\ Calls \in 0..HardCalls /\ HardCalls \in Nat
      /\ MaxBrakes \in Nat /\ MaxConsults \in Nat
  BY GraphConstants, TaskConstants
<1>4. Formed(dev)
  <2>1. "received" \in Statuses /\ "receiveTask" \in Nodes
    BY Standings DEF Nodes
  <2>2. dev.item \in 0..N /\ dev.checks = {0} \cup dev.here /\ dev.done \subseteq Items
        /\ dev.here \subseteq Items
    BY <1>2, <1>3
  <2>3. dev.planned \in 0..HardCalls /\ dev.got \in 0..HardCalls /\ dev.got <= dev.planned
    BY <1>2, <1>3
  <2> QED
    BY <1>2, <2>1, <2>2, <2>3 DEF Formed
<1>5. NoMail.kind = "none"
  BY DEF NoMail
<1>6. RunInv(dev, limit)
  <2>1. Orderly(dev)
    BY <1>2, <1>3 DEF Orderly, Items
  <2>2. Braked(dev, limit)
    BY <1>2 DEF Braked, Ahead
  <2>3. Placed(dev)
    BY <1>2 DEF Placed
  <2>4. Delivered(dev)
    BY <1>2, <1>5 DEF Delivered, TestKinds
  <2> QED
    BY <1>4, <2>1, <2>2, <2>3, <2>4 DEF RunInv
<1>7. TypeInv
  <2>1. led \in Ledgers
    BY <1>1, <1>3 DEF Ledgers
  <2>2. <<>> \in Seq(Messages) /\ <<>> \in Seq(Requests)
    OBVIOUS
  <2>3. DOMAIN verdict = {"kind", "checks", "req"} /\ verdict.req \in Nat
    BY <1>1 DEF NoVerdict
  <2>4. /\ limit \in 0..HardCalls /\ wall \in BOOLEAN /\ brakes \in 0..MaxBrakes
        /\ sent \in 0..N /\ split \in {"on", "cancelled", "broken"}
    <3>1. limit \in 0..HardCalls /\ brakes \in 0..MaxBrakes /\ sent \in 0..N
      BY <1>1, <1>3
    <3>2. wall \in BOOLEAN /\ split \in {"on", "cancelled", "broken"}
      BY <1>1
    <3> QED
      BY <3>1, <3>2
  <2>5. /\ consult \in [made : 0..MaxConsults, open : SUBSET Nat, late : Nat]
        /\ consult.open \subseteq 1..consult.made /\ consult.late <= consult.made
    BY <1>1, <1>3
  <2>6. box \in Seq(Messages) /\ parked \in Seq(Messages) /\ test \in Seq(Requests)
    BY <1>1, <2>2
  <2>7. /\ job = "graph" /\ line = "first" /\ refused = "no"
    BY <1>1
  <2> QED
    BY <2>1, <2>3, <2>4, <2>5, <2>6, <2>7 DEF TypeInv
<1>8. Stand
  BY <1>1 DEF Stand
<1>9. MailInv
  BY <1>1, <1>2 DEF MailInv
<1>10. KeptInv
  BY <1>1 DEF KeptInv
<1>11. Several => VerdictInv
  BY <1>1, <1>2, <1>5 DEF VerdictInv
<1> QED
  BY <1>6, <1>7, <1>8, <1>9, <1>10, <1>11 DEF Inv, CourseInv

\* Every step keeps the invariant.
LEMMA NextKeeps == Inv /\ [Next]_vars => Inv'
<1> SUFFICES ASSUME Inv, [Next]_vars
             PROVE  Inv'
  OBVIOUS
<1>1. CASE Invocation
  <2>1. CASE AskHuman \/ ConsultStation \/ ConsultTimesOut
    BY <2>1, AskingKeeps
  <2>2. CASE ConsultReceives \/ LateReceive
    BY <2>2, ReceivingKeeps
  <2>3. CASE InvocationEnds
    BY <2>3, EndKeeps
  <2>4. CASE OrphanDies
    BY <2>4, OrphanKeeps
  <2> QED
    BY <1>1, <2>1, <2>2, <2>3, <2>4, GraphKeeps DEF Invocation
<1>2. CASE Driver
  <2>1. CASE TakeParked
    BY <2>1, TakeKeeps
  <2>2. CASE Receive
    BY <2>2, ReceiveKeeps
  <2> QED
    BY <1>2, <2>1, <2>2, DriverKeeps DEF Driver
<1>3. CASE Person
  BY <1>3, AnsweredKeeps, DriverKeeps DEF Person
<1>4. CASE WatchdogFires
  BY <1>4, DriverKeeps
<1>5. CASE Architect
  BY <1>5, ArchitectKeeps
<1>6. CASE handleTestRequest
  BY <1>6, TesterKeeps
<1>7. CASE StationAnswers
  BY <1>7, StationKeeps
<1>8. CASE DeadlinePasses \/ WallPasses
  BY <1>8, TimeKeeps
<1>9. CASE Settled \/ UNCHANGED vars
  <2>1. UNCHANGED vars
    BY <1>9 DEF Settled
  <2>2. /\ dev' = dev /\ job' = job /\ line' = line /\ led' = led /\ limit' = limit /\ wall' = wall
        /\ brakes' = brakes /\ box' = box /\ parked' = parked /\ consult' = consult /\ sent' = sent
        /\ split' = split /\ test' = test /\ verdict' = verdict /\ refused' = refused
    BY <2>1 DEF vars
  <2>3. CourseInv /\ KeptInv /\ (Several => VerdictInv)
    BY DEF Inv
  <2>4. CourseInv'
    BY <2>2, <2>3 DEF CourseInv, TypeInv, Stand, MailInv
  <2>5. KeptInv'
    BY <2>2, <2>3 DEF KeptInv, Located, Finished
  <2>6. Several => VerdictInv'
    BY <2>2, <2>3 DEF VerdictInv, Proven
  <2> QED
    BY <2>4, <2>5, <2>6 DEF Inv
<1> QED
  BY <1>1, <1>2, <1>3, <1>4, <1>5, <1>6, <1>7, <1>8, <1>9 DEF Next

\* The course of a task, for any number of items: who is where, what is in the mail,
\* and what the run has of its batches and its checks.
THEOREM DeveloperCourse == Spec => []Inv
<1>1. Init => Inv
  BY InitHolds
<1>2. Inv /\ [Next]_vars => Inv'
  BY NextKeeps
<1> QED
  BY <1>1, <1>2, PTL DEF Spec

\* No batch that was sent is lost while the task is open, however consults, late
\* receives, parking and the driver pass the mail around.
THEOREM BatchesKept == Spec => []NoBatchIsLost
<1>1. Inv => NoBatchIsLost
  BY DEF Inv, KeptInv, Located, Finished, IsIn, NoBatchIsLost
<1> QED
  BY <1>1, DeveloperCourse, PTL

\* With two items or more, a task is ready only after a test of the whole check list.
THEOREM ReadyIsChecked == Several => (Spec => []ReadyMeansChecked)
<1> SUFFICES ASSUME Several
             PROVE  Spec => []ReadyMeansChecked
  OBVIOUS
<1>1. Inv => ReadyMeansChecked
  BY DEF Inv, VerdictInv, Proven, ReadyMeansChecked
<1> QED
  BY <1>1, DeveloperCourse, PTL

-----------------------------------------------------------------------------
(* Types *)

\* Answers carry the number of a request that was made.
Numbered(m, last) == m.kind \in TestKinds => m.req \in 0..last

NumberInv ==
    /\ verdict.req \in 0..led.req
    /\ \A k \in DOMAIN box : Numbered(box[k], led.req)
    /\ \A k \in DOMAIN parked : Numbered(parked[k], led.req)

\* Numbers are kept when boxes get only what was in them or is numbered.
LEMMA NumbersStay ==
    ASSUME Inv, NumberInv, led.req <= led'.req, led'.req \in Nat,
           \A k \in DOMAIN box' : IsIn(box'[k], box) \/ Numbered(box'[k], led'.req),
           \A k \in DOMAIN parked' : IsIn(parked'[k], box) \/ IsIn(parked'[k], parked),
           verdict'.req \in 0..led.req
    PROVE  NumberInv'
<1>1. led.req \in Nat
  BY DEF Inv, CourseInv, TypeInv, Ledgers
<1>2. ASSUME NEW m, IsIn(m, box) \/ IsIn(m, parked)
      PROVE  m.kind \in TestKinds => m.req \in 0..led'.req
  BY <1>1, <1>2 DEF NumberInv, Numbered, IsIn
<1>3. \A k \in DOMAIN box' : box'[k].kind \in TestKinds => box'[k].req \in 0..led'.req
  BY <1>2 DEF Numbered
<1>4. \A k \in DOMAIN parked' : parked'[k].kind \in TestKinds => parked'[k].req \in 0..led'.req
  BY <1>2
<1>5. verdict'.req \in 0..led'.req
  BY <1>1
<1> QED
  BY <1>3, <1>4, <1>5 DEF NumberInv, Numbered

\* What acting upon a message leaves of the last verdict.
LEMMA VerdictNumber ==
    ASSUME NumberInv, NEW m \in Messages, Numbered(m, led.req), dispatchMessage(m)
    PROVE  verdict'.req \in 0..led.req
<1>1. m.kind \in {"architect_batch", "test_passed", "test_failure", "cancel_task", "consult_reply"}
  BY DEF Messages, Cancel
<1>2. CASE m.kind = "architect_batch"
  BY <1>2 DEF dispatchMessage, resumeWithBatch, NumberInv
<1>3. CASE m.kind \in TestKinds
  <2>1. resumeFromTestMessage(m)
    BY <1>3 DEF dispatchMessage, TestKinds
  <2>2. verdict' = verdict \/ verdict' = [kind |-> m.kind, checks |-> m.checks, req |-> m.req]
    BY <2>1 DEF resumeFromTestMessage, Identified, Refuse
  <2>3. m.req \in 0..led.req
    BY <1>3 DEF Numbered
  <2> QED
    BY <2>2, <2>3 DEF NumberInv
<1>4. CASE m.kind \in {"cancel_task", "consult_reply"}
  BY <1>4 DEF dispatchMessage, NumberInv
<1> QED
  BY <1>1, <1>2, <1>3, <1>4 DEF TestKinds

\* Every step keeps the numbers.
LEMMA NumbersKept == Inv /\ NumberInv /\ [Next]_vars => NumberInv'
<1> SUFFICES ASSUME Inv, NumberInv, [Next]_vars
             PROVE  NumberInv'
  OBVIOUS
<1>1. /\ TypeInv /\ MailInv /\ box \in Seq(Messages) /\ parked \in Seq(Messages)
      /\ test \in Seq(Requests) /\ led \in Ledgers /\ led.req \in Nat /\ consult.late \in Nat
      /\ verdict.req \in 0..led.req
  BY DEF Inv, CourseInv, TypeInv, Ledgers, NumberInv
<1>2. ASSUME box' = box, parked' = parked, verdict' \in {verdict, NoVerdict},
             led'.req \in Nat, led.req <= led'.req
      PROVE  NumberInv'
  <2>1. verdict'.req \in 0..led.req
    BY <1>1, <1>2 DEF NoVerdict
  <2> QED
    BY <1>2, <2>1, Untouched, NumbersStay
<1>3. ASSUME NEW m \in Messages, box' \in {box, Append(box, m)}, parked' = parked, verdict' = verdict,
             led'.req = led.req, Numbered(m, led.req)
      PROVE  NumberInv'
  <2>1. \A k \in DOMAIN box' : IsIn(box'[k], box) \/ box'[k] = m
    <3>1. CASE box' = box
      BY <3>1, Untouched
    <3>2. CASE box' = Append(box, m)
      BY <1>1, <3>2, Put
    <3> QED
      BY <1>3, <3>1, <3>2
  <2>2. \A k \in DOMAIN box' : IsIn(box'[k], box) \/ Numbered(box'[k], led'.req)
    BY <1>3, <2>1 DEF Numbered
  <2>3. led.req <= led'.req
    BY <1>1, <1>3
  <2> QED
    BY <1>1, <1>3, <2>2, <2>3, Untouched, NumbersStay
<1>4. ASSUME NEW also, also = <<>> \/ also = <<Head(box)>>, box # <<>>, box' = Tail(box),
             parked' = parked \o Copies(Head(box)) \o also, led' = led, verdict'.req \in 0..led.req
      PROVE  NumberInv'
  <2>1. /\ \A k \in DOMAIN box' : IsIn(box'[k], box)
        /\ \A k \in DOMAIN parked' : IsIn(parked'[k], box) \/ IsIn(parked'[k], parked)
    BY <1>1, <1>4, SetAside
  <2>2. led.req <= led'.req /\ led'.req \in Nat
    BY <1>1, <1>4
  <2> QED
    BY <1>4, <2>1, <2>2, NumbersStay
<1>5. ASSUME box # <<>>, box' = Tail(box), led' = led, verdict'.req \in 0..led.req,
             \/ parked' = parked \o Copies(Head(box))
             \/ parked' = parked \o Copies(Head(box)) \o <<Head(box)>>
      PROVE  NumberInv'
  <2>1. CASE parked' = parked \o Copies(Head(box))
    <3>1. parked \o Copies(Head(box)) \in Seq(Messages)
      BY <1>1, <1>5, Taken, CopiesAre, Joined
    <3>2. parked' = parked \o Copies(Head(box)) \o <<>>
      BY <2>1, <3>1, NothingMore
    <3> QED
      BY <1>4, <1>5, <3>2
  <2>2. CASE parked' = parked \o Copies(Head(box)) \o <<Head(box)>>
    BY <1>4, <1>5, <2>2
  <2> QED
    BY <1>5, <2>1, <2>2
<1>6. CASE /\ Invocation \/ Drive \/ ClosingWrites \/ Person \/ WatchdogFires \/ DeadlinePasses
              \/ WallPasses \/ Settled \/ UNCHANGED vars
           /\ ~(ConsultReceives \/ LateReceive)
  <2>1. box' = box /\ parked' = parked
    BY <1>6 DEF Invocation, ReceiveTask, InspectProject, LoadContext, Implement, LocalChecks, RequestTest,
       HandleTestResult, WaitBatch, AcceptBatch, Repair, Escalate, Ready, Blocked, At, AskHuman,
       InvocationEnds, OrphanDies, ConsultStation, ConsultTimesOut, Drive, ClosingWrites, Person,
       Answered, BrakeContinue, BrakeStop, BrakePause, WatchdogFires, DeadlinePasses, WallPasses,
       Settled, vars, mail
  <2>2. verdict' \in {verdict, NoVerdict}
    BY <1>6 DEF Invocation, ReceiveTask, InspectProject, LoadContext, Implement, LocalChecks, RequestTest,
       HandleTestResult, WaitBatch, AcceptBatch, Repair, Escalate, Ready, Blocked, At, AskHuman,
       InvocationEnds, OrphanDies, ConsultStation, ConsultTimesOut, Drive, ClosingWrites, Person,
       Answered, BrakeContinue, BrakeStop, BrakePause, WatchdogFires, DeadlinePasses, WallPasses,
       Settled, vars, ghosts
  <2>3. led'.req \in {led.req, led.req + 1}
    <3>1. led = [status |-> led.status, got |-> led.got, wait |-> led.wait, late |-> led.late, req |-> led.req]
      BY <1>1 DEF Ledgers
    <3> DEFINE OnlyOthers == led'.req = led.req
    <3>2. CASE RequestTest
      BY <3>1, <3>2 DEF RequestTest, openTestWait
    <3>3. CASE HandleTestResult \/ InvocationEnds \/ BrakePause \/ ClosingWrites \/ DeadlinePasses
      BY <3>1, <3>3 DEF HandleTestResult, clearTestWait, InvocationEnds, BrakePause, ClosingWrites, DeadlinePasses
    <3>4. CASE led' = led
      BY <3>4
    <3> QED
      BY <1>6, <3>2, <3>3, <3>4 DEF Invocation, ReceiveTask, InspectProject, LoadContext, Implement,
         LocalChecks, WaitBatch, AcceptBatch, Repair, Escalate, Ready, Blocked, Quiet, AskHuman, OrphanDies,
         ConsultStation, ConsultTimesOut, Drive, Person, Answered, BrakeContinue, BrakeStop, WatchdogFires,
         WallPasses, Settled, vars
  <2>4. led'.req \in Nat /\ led.req <= led'.req
    BY <1>1, <2>3
  <2> QED
    BY <1>2, <2>1, <2>2, <2>4
<1>7. CASE ConsultReceives \/ LateReceive
  <2>1. /\ box # <<>> /\ box' = Tail(box) /\ led' = led /\ verdict' = verdict
        /\ \/ parked' = parked \o Copies(Head(box))
           \/ parked' = parked \o Copies(Head(box)) \o <<Head(box)>>
    BY <1>7 DEF ConsultReceives, LateReceive, ghosts
  <2> QED
    BY <1>1, <1>5, <2>1
<1>8. CASE TakeParked
  <2> DEFINE i == First(Waiting)
  <2>1. /\ Waiting # {} /\ parked' = RemoveAt(parked, i) /\ dispatchMessage(parked[i])
        /\ led' = led /\ box' = box
    BY <1>8 DEF TakeParked
  <2>2. i \in DOMAIN parked
    <3>1. Waiting \subseteq DOMAIN parked /\ DOMAIN parked \subseteq Nat
      BY <1>1 DEF Waiting
    <3> DEFINE w == Waiting
    <3>2. w \subseteq Nat /\ w # {}
      BY <2>1, <3>1
    <3>3. First(w) \in w
      <4> HIDE DEF w
      <4> QED
        BY <3>2, FirstOf
    <3> QED
      BY <3>1, <3>3
  <2> HIDE DEF i
  <2>3. \A k \in DOMAIN parked' : IsIn(parked'[k], parked)
    BY <1>1, <2>1, <2>2, Removed
  <2>4. parked[i] \in Messages /\ Numbered(parked[i], led.req)
    BY <1>1, <2>2 DEF NumberInv
  <2>5. verdict'.req \in 0..led.req
    BY <2>1, <2>4, VerdictNumber
  <2> QED
    BY <1>1, <2>1, <2>3, <2>5, Untouched, NumbersStay
<1>9. CASE Receive
  <2> DEFINE m == Head(box)
  <2>1. /\ box # <<>> /\ box' = Tail(box) /\ led' = led
        /\ \/ parked' = parked \o Copies(m)
           \/ parked' = parked \o Copies(m) \o <<m>>
        /\ dispatchMessage(m) \/ verdict' = verdict
    BY <1>9 DEF Receive, ghosts
  <2>2. m \in Messages /\ IsIn(m, box)
    BY <1>1, <2>1, Taken
  <2>3. Numbered(m, led.req)
    BY <2>2 DEF NumberInv, IsIn
  <2> HIDE DEF m
  <2>4. verdict'.req \in 0..led.req
    BY <1>1, <2>1, <2>2, <2>3, VerdictNumber
  <2> QED
    BY <1>5, <2>1, <2>4 DEF m
<1>10. CASE Architect
  <2>1. CASE SendBatch
    <3>1. Batch(sent') \in Messages
      <4>1. sent' \in Items
        BY <1>1, <2>1, GraphConstants DEF SendBatch, TypeInv, Items
      <4> QED
        BY <4>1 DEF Messages, Batch
    <3>2. Numbered(Batch(sent'), led.req)
      BY DEF Numbered, Batch, TestKinds
    <3>3. box' = Append(box, Batch(sent')) /\ parked' = parked /\ verdict' = verdict /\ led' = led
      BY <2>1 DEF SendBatch, ghosts
    <3> DEFINE m == Batch(sent')
    <3> HIDE DEF m
    <3>4. m \in Messages /\ Numbered(m, led.req) /\ box' \in {box, Append(box, m)}
      BY <3>1, <3>2, <3>3 DEF m
    <3> QED
      BY <1>3, <3>3, <3>4
  <2>2. CASE SplitFails
    <3>1. Cancel \in Messages /\ Numbered(Cancel, led.req)
      BY DEF Messages, Numbered, Cancel, TestKinds
    <3> QED
      BY <1>3, <2>2, <3>1 DEF SplitFails, ghosts
  <2>3. CASE SplitBreaks
    <3>1. Cancel \in Messages /\ Numbered(Cancel, led.req)
      BY DEF Messages, Numbered, Cancel, TestKinds
    <3> QED
      BY <1>3, <2>3, <3>1 DEF SplitBreaks, mail, ghosts
  <2> QED
    BY <1>10, <2>1, <2>2, <2>3 DEF Architect
<1>11. CASE handleTestRequest
  <2> DEFINE t == Head(test)
  <2>1. /\ test # <<>> /\ parked' = parked /\ led' = led /\ verdict' = verdict
        /\ \/ box' = box
           \/ box' = Append(box, Passed(t))
           \/ \E f \in Failures : box' = Append(box, Failed(t, f))
    BY <1>11 DEF handleTestRequest, ghosts
  <2>2. t \in Requests /\ IsIn(t, test)
    BY <1>1, <2>1, Taken
  <2>3. t.req \in 0..led.req
    <3>1. \A k \in DOMAIN test : test[k].req \in 1..led.req
      BY <1>1 DEF MailInv, Asked
    <3>2. t.req \in 1..led.req
      BY <2>2, <3>1 DEF IsIn
    <3> QED
      BY <1>1, <3>2
  <2> HIDE DEF t
  <2>4. Passed(t) \in Messages /\ Numbered(Passed(t), led.req)
    BY <2>2, <2>3 DEF Requests, Messages, Passed, Numbered
  <2>5. \A f \in Failures : Failed(t, f) \in Messages /\ Numbered(Failed(t, f), led.req)
    BY <2>2, <2>3 DEF Requests, Messages, Failed, Numbered
  <2>6. CASE \E f \in Failures : box' = Append(box, Failed(t, f))
    <3>1. PICK f \in Failures : box' = Append(box, Failed(t, f))
      BY <2>6
    <3> QED
      BY <1>3, <2>1, <2>5, <3>1
  <2> QED
    BY <1>3, <2>1, <2>4, <2>6
<1>12. CASE StationAnswers
  <2>1. PICK n \in consult.open : box' = Append(box, Reply(n))
    BY <1>12 DEF StationAnswers
  <2>2. Reply(n) \in Messages /\ Numbered(Reply(n), led.req)
    BY <1>1 DEF TypeInv, Messages, Reply, Numbered, TestKinds
  <2> QED
    BY <1>3, <1>12, <2>1, <2>2 DEF StationAnswers, ghosts
<1> QED
  BY <1>6, <1>7, <1>8, <1>9, <1>10, <1>11, <1>12 DEF Next, Driver

\* Every state of a task is well formed, and answers are to requests that were made.
THEOREM DeveloperTyped == Spec => []TypeOK
<1>1. Init => NumberInv
  BY DEF Init, NumberInv, NoVerdict
<1>2. Inv /\ NumberInv /\ [Next]_vars => NumberInv'
  BY NumbersKept
<1>3. Inv /\ NumberInv => TypeOK
  <2> SUFFICES ASSUME Inv, NumberInv
               PROVE  TypeOK
    OBVIOUS
  <2>1. TypeInv /\ Formed(dev) /\ MailInv /\ N \in Nat /\ MaxConsults \in Nat
    BY GraphConstants, TaskConstants DEF Inv, CourseInv, RunInv
  <2>2. dev.checks \subseteq 0..N
    BY <2>1 DEF Formed, Items
  <2>3. dev.planned <= HardCalls
    BY <2>1, GraphConstants DEF Formed
  <2>4. \A k \in DOMAIN test : test[k].req \in 1..led.req
    BY <2>1 DEF MailInv, Asked
  <2>5. consult.late \in 0..consult.made /\ consult.made \in 0..MaxConsults
    BY <2>1 DEF TypeInv
  <2> QED
    BY <2>1, <2>2, <2>3, <2>4, <2>5 DEF TypeOK, TypeInv, Formed, Ledgers, NumberInv
<1> QED
  BY <1>1, <1>2, <1>3, DeveloperCourse, PTL DEF Spec

=============================================================================
