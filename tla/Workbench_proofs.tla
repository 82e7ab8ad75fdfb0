---------------------------- MODULE Workbench_proofs ----------------------------
(***************************************************************************)
(* Proofs about the parts on the workbench, one section a part: each gives  *)
(* the inductive invariant of the part, shows that its steps keep it, and   *)
(* concludes that the property the run checks holds of Spec, whatever the   *)
(* constants.                                                               *)
(***************************************************************************)
EXTENDS MC_Workbench, Sequences, FiniteSetTheorems, SequenceTheorems, WellFoundedInduction, TLAPS

\* All that a step of the bench may change.
all == <<part, LoopVars, ProcVars, CtxVars, ArchVars, AccVars, BrkVars, ConVars, TagVars,
         BoxVars, AsstVars, MgrVars, EditVars, PageVars, EngVars, DelVars, PrbVars, RuleVars>>

\* The part that runs begins as its own module says.
LEMMA Beginnings ==
    ASSUME Init
    PROVE
    /\ part = "loop" => Loop!Init
    /\ part = "processes" => Proc!Init
    /\ part = "context" => Ctx!Init
    /\ part = "split" => Arch!Init
    /\ part = "acceptance" => Acc!Init
    /\ part = "brake" => Brk!Init
    /\ part = "consult" => Con!Init
    /\ part = "agent" => Tag!Init
    /\ part = "sandbox" => Box!Init
    /\ part = "assistants" => Asst!Init
    /\ part = "manager" => Mgr!Init
    /\ part = "editors" => Edit!Init
    /\ part = "pages" => Page!Init
    /\ part = "engineers" => Eng!Init
    /\ part = "delivery" => Del!Init
    /\ part = "probe" => Prb!Init
    /\ part = "rules" => Rule!Init
BY DEF Init

\* A step is one of the part that runs, and never of another part.
LEMMA Steps ==
    ASSUME [Next]_all
    PROVE
    /\ part' = part
    /\ part = "loop" => [Loop!Next]_LoopVars
    /\ part = "processes" => [Proc!Next]_ProcVars
    /\ part = "context" => [Ctx!Next]_CtxVars
    /\ part = "split" => [Arch!Next]_ArchVars
    /\ part = "acceptance" => [Acc!Next]_AccVars
    /\ part = "brake" => [Brk!Next]_BrkVars
    /\ part = "consult" => [Con!Next]_ConVars
    /\ part = "agent" => [Tag!Next]_TagVars
    /\ part = "sandbox" => [Box!Next]_BoxVars
    /\ part = "assistants" => [Asst!Next]_AsstVars
    /\ part = "manager" => [Mgr!Next]_MgrVars
    /\ part = "editors" => [Edit!Next]_EditVars
    /\ part = "pages" => [Page!Next]_PageVars
    /\ part = "engineers" => [Eng!Next]_EngVars
    /\ part = "delivery" => [Del!Next]_DelVars
    /\ part = "probe" => [Prb!Next]_PrbVars
    /\ part = "rules" => [Rule!Next]_RuleVars
BY DEF Next, all

-----------------------------------------------------------------------------
\* Rules and guardrails

\* What is known of a request under way: an allowance in force has passed its check.
Passed(q) == q.rule.behavior = "allow" /\ q.rule.enabled => Rule!findShadowedDeny(q.rule, q.denies) = {}

RuleInv == Rule!TypeOK /\ \A q \in pending : Passed(q)

\* A request for a rule that is checked is a request, and has passed.
LEMMA CheckKeeps ==
    ASSUME RuleInv, Writings \in Nat, NEW rule \in Rule!Rule, Rule!Check(rule)
    PROVE  RuleInv'
<1> DEFINE checked == rule.behavior = "allow" /\ rule.enabled
           denies  == IF checked THEN Rule!deniesFor(rule) ELSE {}
           q == [nr |-> writings + 1, rule |-> rule, denies |-> denies, row |-> "not looked"]
<1>1. /\ pending' = pending \cup {q} /\ writings' = writings + 1 /\ writings < Writings
      /\ standing' = standing /\ confirmMode' = confirmMode
      /\ checked => Rule!findShadowedDeny(rule, denies) = {}
  BY DEF Rule!Check
<1>2. denies \in SUBSET Rule!Rule
  BY DEF RuleInv, Rule!TypeOK, Rule!deniesFor
<1>3. writings + 1 \in 0..Writings
  <2>1. writings \in 0..Writings
    BY DEF RuleInv, Rule!TypeOK
  <2>2. writings < Writings
    BY <1>1
  <2> QED
    BY <2>1, <2>2
<1> HIDE DEF denies
<1>4. q \in Rule!Request /\ Passed(q)
  BY <1>1, <1>2, <1>3 DEF Rule!Request, Passed
<1> HIDE DEF q
<1>5. Rule!TypeOK'
  BY <1>1, <1>3, <1>4 DEF RuleInv, Rule!TypeOK
<1> QED
  BY <1>1, <1>4, <1>5 DEF RuleInv, Passed

\* Every step writes rules only, one of a key.
LEMMA RuleKeeps ==
    ASSUME Writings \in Nat, "project" \in Sources, RuleInv, [Rule!Next]_RuleVars
    PROVE  RuleInv'
<1>1. CASE Rule!upsert
  BY <1>1, CheckKeeps DEF Rule!upsert
<1>2. CASE Rule!rememberAllow
  <2>1. PICK p \in Patterns, project \in {Rule!Global, Rule!Project} :
            Rule!Check([project |-> project, content |-> p, source |-> "project",
                   behavior |-> "allow", enabled |-> TRUE])
    BY <1>2 DEF Rule!rememberAllow
  <2>2. [project |-> project, content |-> p, source |-> "project",
         behavior |-> "allow", enabled |-> TRUE] \in Rule!Rule
    BY DEF Rule!Rule
  <2> QED
    BY <2>1, <2>2, CheckKeeps
<1>3. CASE Rule!disable
  <2>1. PICK r \in standing :
            pending' = pending \cup {[nr |-> 0, rule |-> [r EXCEPT !.enabled = FALSE],
                                    denies |-> {}, row |-> "there"]}
    BY <1>3 DEF Rule!disable
  <2> DEFINE q == [nr |-> 0, rule |-> [r EXCEPT !.enabled = FALSE], denies |-> {}, row |-> "there"]
  <2>2. [r EXCEPT !.enabled = FALSE] \in Rule!Rule /\ ~[r EXCEPT !.enabled = FALSE].enabled
    BY DEF RuleInv, Rule!TypeOK, Rule!Rule
  <2>3. q \in Rule!Request /\ Passed(q)
    <3>1. 0 \in 0..Writings
      OBVIOUS
    <3> QED
      BY <2>2, <3>1 DEF Rule!Request, Passed
  <2>4. pending' = pending \cup {q}
    BY <2>1
  <2> HIDE DEF q
  <2> QED
    BY <1>3, <2>3, <2>4 DEF RuleInv, Rule!TypeOK, Rule!disable, Passed
<1>4. CASE Rule!Look
  <2>1. PICK q \in pending, found \in {"there", "absent"} :
            pending' = (pending \ {q}) \cup {[q EXCEPT !.row = found]}
    BY <1>4 DEF Rule!Look
  <2>2. [q EXCEPT !.row = found] \in Rule!Request /\ Passed([q EXCEPT !.row = found])
    BY DEF RuleInv, Rule!TypeOK, Rule!Request, Passed
  <2> QED
    BY <1>4, <2>1, <2>2 DEF RuleInv, Rule!TypeOK, Rule!Look, Passed
<1>5. CASE Rule!Write
  <2>1. PICK q \in pending : pending' = pending \ {q} /\ (Rule!Put(q.rule) \/ UNCHANGED standing)
    BY <1>5 DEF Rule!Write
  <2>2. q.rule \in Rule!Rule
    BY DEF RuleInv, Rule!TypeOK, Rule!Request
  <2>3. standing' \subseteq Rule!Rule /\ \A r, s \in standing' : Rule!Key(r) = Rule!Key(s) => r = s
    BY <2>1, <2>2 DEF RuleInv, Rule!TypeOK, Rule!Put
  <2> QED
    BY <1>5, <2>1, <2>3 DEF RuleInv, Rule!TypeOK, Rule!Write, Passed
<1>6. CASE Rule!SetMode
  BY <1>6 DEF Rule!SetMode, RuleInv, Rule!TypeOK, Passed
<1>7. CASE UNCHANGED RuleVars
  BY <1>7 DEF RuleVars, RuleInv, Rule!TypeOK, Passed
<1> QED
  BY <1>1, <1>2, <1>3, <1>4, <1>5, <1>6, <1>7 DEF Rule!Next, Rule!vars, RuleVars

\* An allowance that has passed the check leaves a denial it read without effect in no case:
\* either it does not fit a command that is denied, or the denial comes first.
LEMMA UpsertSpares ==
    ASSUME standing \subseteq Rule!Rule, Sources \subseteq DOMAIN Rule!Rank,
           NEW q \in pending, q.rule \in Rule!Rule, Passed(q), Rule!Put(q.rule),
           NEW d \in q.denies, d \in standing, d \in standing'
    PROVE  Rule!Spared(q.rule, d)
<1> DEFINE fit(rules, c) == {r \in rules : r.enabled /\ c \in Fits[r.content]}
           a == q.rule
<1> SUFFICES ASSUME a.behavior = "allow", a.enabled, a.content # d.content,
                    d.behavior = "deny", d.enabled, Fits[d.content] # {},
                    \A c \in Fits[d.content] : Rule!Denied(standing, c)
             PROVE  \E c \in Fits[d.content] : Rule!Denied(standing', c)
  BY DEF Rule!Spared
<1>1. standing' = {r \in standing : Rule!Key(r) # Rule!Key(a)} \cup {a} /\ a \in Rule!Rule
  BY DEF Rule!Put
<1>2. ~(Rule!Rank[a.source] <= Rule!Rank[d.source]) \/ ~Rule!Covers(a.content, d.content)
  BY DEF Passed, Rule!findShadowedDeny
<1> HIDE DEF a
<1>3. \A r \in Rule!Rule : Rule!Rank[r.source] \in Nat
  BY DEF Rule!Rule, Rule!Rank
<1>4. CASE ~Rule!Covers(a.content, d.content)
  <2>1. PICK c \in Fits[d.content] : c \notin Fits[a.content]
    BY <1>4 DEF Rule!Covers
  <2>2. fit(standing', c) = fit(standing, c)
    BY <1>1, <2>1 DEF Rule!Key
  <2>3. Rule!First(standing', c) = Rule!First(standing, c)
    BY <2>2 DEF Rule!First
  <2> QED
    BY <2>1, <2>3 DEF Rule!Denied, Rule!Verdicts
<1>5. CASE ~(Rule!Rank[a.source] <= Rule!Rank[d.source])
  <2>1. PICK c : c \in Fits[d.content]
    OBVIOUS
  <2>2. d \in fit(standing, c) /\ d \in fit(standing', c)
    BY <2>1
  <2>3. Rule!First(standing', c) = Rule!First(standing, c)
    <3>1. \A r \in fit(standing', c) : r = a \/ r \in fit(standing, c)
      BY <1>1
    <3>2. \A r \in fit(standing, c) : r \in fit(standing', c) \/ Rule!Rank[r.source] = Rule!Rank[a.source]
      BY <1>1 DEF Rule!Key
    <3>3. \A r \in Rule!First(standing, c) : Rule!Rank[r.source] <= Rule!Rank[d.source] /\ r \in fit(standing, c)
      BY <2>2 DEF Rule!First
    <3>4. \A r \in Rule!First(standing', c) : Rule!Rank[r.source] <= Rule!Rank[d.source] /\ r \in fit(standing', c)
      BY <2>2 DEF Rule!First
    <3>5. fit(standing, c) \subseteq Rule!Rule /\ fit(standing', c) \subseteq Rule!Rule
      BY <1>1
    <3> HIDE DEF fit
    <3>6. \A r \in Rule!First(standing, c) : r \in Rule!First(standing', c)
      <4> SUFFICES ASSUME NEW r \in Rule!First(standing, c) PROVE r \in Rule!First(standing', c)
        OBVIOUS
      <4>1. r \in fit(standing', c)
        BY <1>3, <1>5, <3>2, <3>3, <3>5
      <4>2. \A s \in fit(standing', c) : Rule!Rank[r.source] <= Rule!Rank[s.source]
        <5>1. \A s \in fit(standing, c) : Rule!Rank[r.source] <= Rule!Rank[s.source]
          BY DEF Rule!First, fit
        <5> QED
          BY <1>3, <1>5, <3>1, <3>3, <3>5, <5>1
      <4> QED
        BY <4>1, <4>2 DEF Rule!First, fit
    <3>7. \A r \in Rule!First(standing', c) : r \in Rule!First(standing, c)
      <4> SUFFICES ASSUME NEW r \in Rule!First(standing', c) PROVE r \in Rule!First(standing, c)
        OBVIOUS
      <4>1. r \in fit(standing, c)
        BY <1>3, <1>5, <3>1, <3>4, <3>5
      <4>2. \A s \in fit(standing, c) : Rule!Rank[r.source] <= Rule!Rank[s.source]
        <5>1. \A s \in fit(standing', c) : Rule!Rank[r.source] <= Rule!Rank[s.source]
          BY DEF Rule!First, fit
        <5> QED
          BY <1>3, <1>5, <3>2, <3>4, <3>5, <5>1
      <4> QED
        BY <4>1, <4>2 DEF Rule!First, fit
    <3> QED
      BY <3>6, <3>7
  <2> QED
    BY <2>1, <2>3 DEF Rule!Denied, Rule!Verdicts
<1> QED
  BY <1>2, <1>4, <1>5

\* No step takes the effect of a denial away that was read before.
LEMMA RuleSpares ==
    ASSUME Sources \subseteq DOMAIN Rule!Rank, RuleInv, Rule!Next
    PROVE  Rule!SparesDenies
<1> SUFFICES ASSUME NEW q \in pending \ pending', NEW d \in q.denies, d \in standing, d \in standing',
                    q.rule \in standing' \ standing
             PROVE  Rule!Spared(q.rule, d)
  BY DEF Rule!SparesDenies
<1>1. CASE Rule!Write
  <2>1. PICK p \in pending : pending' = pending \ {p} /\ (Rule!Put(p.rule) \/ UNCHANGED standing)
    BY <1>1 DEF Rule!Write
  <2>2. p = q /\ Rule!Put(q.rule)
    BY <2>1
  <2>3. q.rule \in Rule!Rule /\ Passed(q) /\ standing \subseteq Rule!Rule
    BY DEF RuleInv, Rule!TypeOK, Rule!Request
  <2> QED
    BY <2>2, <2>3, UpsertSpares
<1>2. CASE standing' = standing
  BY <1>2
<1> QED
  BY <1>1, <1>2
     DEF Rule!Next, Rule!upsert, Rule!rememberAllow, Rule!Check, Rule!Look, Rule!disable, Rule!SetMode

\* The table holds rules, one of a project, a content and a source (the unique key upsert looks
\* up), however the queries of several requests fall between each other.
THEOREM RulesTyped ==
    ASSUME Writings \in Nat, "project" \in Sources
    PROVE  Spec => [](part = "rules" => RuleInv)
<1> DEFINE Inv == part = "rules" => RuleInv
<1>1. Init => Inv
  BY Beginnings DEF Rule!Init, RuleInv, Rule!TypeOK
<1>2. Inv /\ [Next]_all => Inv'
  BY Steps, RuleKeeps
<1> QED
  BY <1>1, <1>2, PTL DEF Spec, all

\* No allowance takes the effect of a denial away that it was checked against, for any number of
\* writings under way at once and any sources (PermissionRuleServiceImpl.findShadowedDeny against
\* decide).  Which pattern fits which command is the table Fits of the bench.  A denial written
\* between the check and the write is not spared (NoneIsShadowed, see the README).
THEOREM DenialsAreSpared ==
    ASSUME Writings \in Nat, "project" \in Sources, Sources \subseteq DOMAIN Rule!Rank
    PROVE  Spec => AllowSparesDenies
<1> DEFINE Inv == part = "rules" => RuleInv
<1>1. Inv /\ [Next]_all => [part = "rules" => Rule!SparesDenies]_<<part, RuleVars>>
  BY Steps, RuleSpares
<1> QED
  BY <1>1, RulesTyped, PTL DEF Spec, all, AllowSparesDenies

-----------------------------------------------------------------------------
\* Child processes

\* The instances count as this module does.
LEMMA SameCount == \A S : Proc!Cardinality(S) = Cardinality(S)
BY Zenon DEF Proc!Cardinality, Cardinality

ProcEntries == [status : {"none", "running", "exited", "killed"}, seen : BOOLEAN,
                method : {"tree", "none"}]

\* A stop that has reached all of its process has taken effect: without this a record "killed"
\* might be written over a process that runs.
ProcInv ==
    /\ os \in [Procs -> {"absent", "up", "gone"}]
    /\ entry \in [Procs -> ProcEntries]
    /\ stops \subseteq [p : Procs, method : {"tree", "none"}]
    /\ \A p \in Procs : os[p] = "up" => entry[p].status = "running" \/ p \in Proc!Unreached
    /\ \A k \in stops : k.method = "tree" => os[k.p] = "gone"
    /\ Cardinality(Proc!Active) <= Limit

\* The limit counts what is believed to run, and never grows unseen.
LEMMA NeverMore ==
    ASSUME IsFiniteSet(Procs), Limit \in Nat, ProcInv, Proc!Active' \subseteq Proc!Active
    PROVE  Cardinality(Proc!Active') <= Limit
<1>1. IsFiniteSet(Proc!Active)
  BY FS_Subset DEF Proc!Active
<1>2. IsFiniteSet(Proc!Active') /\ Cardinality(Proc!Active') <= Cardinality(Proc!Active)
  BY <1>1, FS_Subset
<1>3. Cardinality(Proc!Active) \in Nat /\ Cardinality(Proc!Active') \in Nat
  BY <1>1, <1>2, FS_CardinalityType
<1> QED
  BY <1>2, <1>3 DEF ProcInv

\* A process that is begun is within the limit.
LEMMA SpawnKeeps ==
    ASSUME IsFiniteSet(Procs), Limit \in Nat, ProcInv, NEW p \in Procs, Proc!spawn(p), stops' = stops
    PROVE  ProcInv'
<1>1. /\ os' \in [Procs -> {"absent", "up", "gone"}] /\ entry' \in [Procs -> ProcEntries]
      /\ \A q \in Procs : os'[q] = "up" => entry'[q].status = "running" \/ q \in Proc!Unreached'
      /\ \A k \in stops' : k.method = "tree" => os'[k.p] = "gone"
  BY DEF ProcInv, Proc!spawn, ProcEntries, Proc!Unreached
<1>2. Cardinality(Proc!Active') <= Limit
  <2>1. Proc!Active' \subseteq Proc!Active \cup {p}
    BY DEF Proc!Active, Proc!spawn, ProcInv, ProcEntries
  <2>2. IsFiniteSet(Proc!Active)
    BY FS_Subset DEF Proc!Active
  <2>3. /\ IsFiniteSet(Proc!Active \cup {p})
        /\ Cardinality(Proc!Active \cup {p}) <= Cardinality(Proc!Active) + 1
    <3>1. /\ IsFiniteSet(Proc!Active \cup {p})
          /\ Cardinality(Proc!Active \cup {p})
                = IF p \in Proc!Active THEN Cardinality(Proc!Active) ELSE Cardinality(Proc!Active) + 1
      BY <2>2, FS_AddElement, Zenon
    <3>2. Cardinality(Proc!Active) \in Nat
      BY <2>2, FS_CardinalityType
    <3> QED
      BY <3>1, <3>2
  <2>4. IsFiniteSet(Proc!Active') /\ Cardinality(Proc!Active') <= Cardinality(Proc!Active \cup {p})
    BY <2>1, <2>3, FS_Subset
  <2>5. /\ Cardinality(Proc!Active) \in Nat /\ Cardinality(Proc!Active') \in Nat
        /\ Cardinality(Proc!Active \cup {p}) \in Nat
    BY <2>2, <2>3, <2>4, FS_CardinalityType
  <2> QED
    BY <2>3, <2>4, <2>5, SameCount DEF Proc!spawn
<1> QED
  BY <1>1, <1>2 DEF ProcInv

\* A kill that reaches all of a process leaves it gone before its record is written.
LEMMA KillKeeps ==
    ASSUME IsFiniteSet(Procs), Limit \in Nat, ProcInv, NEW p, Proc!Kill(p),
           p \in Procs \/ entry[p].status # "running"
    PROVE  ProcInv'
<1>1. CASE entry[p].status = "running"
  <2>1. PICK method \in {"tree", "none"} :
            /\ p \in Procs /\ entry' = entry
            /\ os' = IF method = "tree" THEN [os EXCEPT ![p] = "gone"] ELSE os
            /\ stops' = stops \cup {[p |-> p, method |-> method]}
    BY <1>1 DEF Proc!Kill, Proc!killTree
  <2>2. Proc!Active' = Proc!Active /\ Proc!Unreached' = Proc!Unreached
    BY <2>1 DEF Proc!Active, Proc!Unreached
  <2> QED
    BY <2>1, <2>2 DEF ProcInv
<1>2. CASE entry[p].status # "running"
  BY <1>2 DEF Proc!Kill, ProcInv, Proc!Active, Proc!Unreached
<1> QED
  BY <1>1, <1>2

\* With what the tool at work and the clean-up hold.
ProcHolds ==
    /\ ProcInv
    /\ tool.op = "run" => tool.p \in Procs
    /\ cleanup.left \subseteq Procs

\* Nothing runs at the start.
LEMMA ProcBegins ==
    ASSUME Limit \in Nat, Proc!Init
    PROVE  ProcHolds
<1>1. Proc!Active = {}
  BY DEF Proc!Init, Proc!Active, Proc!Blank
<1>2. Cardinality(Proc!Active) = 0
  BY <1>1, FS_EmptySet
<1> QED
  BY <1>2 DEF Proc!Init, ProcHolds, ProcInv, Proc!Blank, ProcEntries, Proc!NoTool, Proc!NoCleanup

\* No step of a tool, a timer or a clean-up lets a process out of sight.
LEMMA ProcKeeps ==
    ASSUME IsFiniteSet(Procs), Limit \in Nat, ProcHolds, [Proc!Next]_ProcVars
    PROVE  ProcHolds'
<1> DEFINE ToolInv == tool.op = "run" => tool.p \in Procs
           CleanInv == cleanup.left \subseteq Procs
           Inv == ProcInv /\ ToolInv /\ CleanInv
<1> SUFFICES ASSUME ProcInv, ToolInv, CleanInv PROVE Inv'
  BY DEF ProcHolds
<1>1. ASSUME NEW p \in Procs, Proc!run(p) \/ Proc!start(p) PROVE Inv'
  <2>1. ProcInv'
    BY <1>1, SpawnKeeps DEF Proc!run, Proc!start
  <2> QED
    BY <1>1, <2>1 DEF Proc!run, Proc!start
<1>2. ASSUME NEW p \in Procs, Proc!OwnExit(p) PROVE Inv'
  <2>1. Proc!Active' = Proc!Active /\ Proc!Unreached' = Proc!Unreached
    BY <1>2 DEF Proc!OwnExit, Proc!Active, Proc!Unreached
  <2> QED
    BY <1>2, <2>1 DEF Proc!OwnExit, ProcInv
<1>3. ASSUME NEW p \in Procs, Proc!exited(p) PROVE Inv'
  <2>1. Proc!Active' \subseteq Proc!Active
    BY <1>3 DEF Proc!exited, Proc!Active, ProcInv, ProcEntries
  <2>2. Cardinality(Proc!Active') <= Limit
    BY <2>1, NeverMore
  <2>3. entry' \in [Procs -> ProcEntries] /\ \A q \in Procs : q # p => entry'[q] = entry[q]
    BY <1>3 DEF Proc!exited, ProcInv, ProcEntries
  <2>4. \A q \in Procs : os'[q] = "up" => entry'[q].status = "running" \/ q \in Proc!Unreached'
    BY <1>3, <2>3 DEF Proc!exited, ProcInv, Proc!Unreached
  <2> QED
    BY <1>3, <2>2, <2>3, <2>4 DEF Proc!exited, ProcInv
<1>4. ASSUME NEW k \in stops, Proc!stopped(k) PROVE Inv'
  <2>0. k.p \in Procs /\ k.method \in {"tree", "none"} /\ (k.method = "tree" => os[k.p] = "gone")
    BY DEF ProcInv
  <2>1. Proc!Active' \subseteq Proc!Active
    BY <1>4, <2>0 DEF Proc!stopped, Proc!Active, ProcInv, ProcEntries
  <2>2. Cardinality(Proc!Active') <= Limit
    BY <2>1, NeverMore
  <2>3. /\ entry' \in [Procs -> ProcEntries] /\ \A q \in Procs : q # k.p => entry'[q] = entry[q]
        /\ entry'[k.p].status = "killed" /\ entry'[k.p].method = k.method
    BY <1>4, <2>0 DEF Proc!stopped, ProcInv, ProcEntries
  <2>4. \A q \in Procs : os'[q] = "up" => entry'[q].status = "running" \/ q \in Proc!Unreached'
    <3> SUFFICES ASSUME NEW q \in Procs, os[q] = "up"
                 PROVE  entry'[q].status = "running" \/ q \in Proc!Unreached'
      BY <1>4 DEF Proc!stopped
    <3>1. CASE q = k.p
      BY <2>0, <2>3, <3>1 DEF Proc!Unreached
    <3>2. CASE q # k.p
      BY <2>3, <3>2 DEF Proc!Unreached, ProcInv
    <3> QED
      BY <3>1, <3>2
  <2> QED
    BY <1>4, <2>2, <2>3, <2>4 DEF Proc!stopped, ProcInv
<1>5. ASSUME NEW p \in Procs, Proc!stopTool(p) PROVE Inv'
  <2>1. ProcInv'
    BY <1>5, KillKeeps DEF Proc!stopTool
  <2> QED
    BY <1>5, <2>1 DEF Proc!stopTool
<1>6. ASSUME NEW reason, Proc!Alarm(reason) PROVE Inv'
  <2>1. ProcInv' /\ tool.p \in Procs
    BY <1>6, KillKeeps DEF Proc!Alarm
  <2>2. tool'.op = "run" => tool'.p \in Procs
    BY <1>6, <2>1 DEF Proc!Alarm
  <2> QED
    BY <1>6, <2>1, <2>2 DEF Proc!Alarm
<1>7. CASE Proc!RunEnds \/ Proc!StartLooks \/ Proc!StopEnds
  <2>1. Proc!Active' = Proc!Active /\ Proc!Unreached' = Proc!Unreached
    BY <1>7 DEF Proc!RunEnds, Proc!StartLooks, Proc!StopEnds, Proc!Active, Proc!Unreached
  <2> QED
    BY <1>7, <2>1 DEF Proc!RunEnds, Proc!StartLooks, Proc!StopEnds, Proc!NoTool, ProcInv
<1>8. CASE Proc!cleanupTaskProcesses \/ Proc!Cleaned
  <2>1. Proc!Active' = Proc!Active /\ Proc!Unreached' = Proc!Unreached /\ Proc!Active \subseteq Procs
    BY <1>8 DEF Proc!cleanupTaskProcesses, Proc!Cleaned, Proc!Active, Proc!Unreached
  <2> QED
    BY <1>8, <2>1 DEF Proc!cleanupTaskProcesses, Proc!Cleaned, Proc!NoCleanup, ProcInv
<1>9. CASE Proc!CleanNext
  <2>1. PICK p \in cleanup.left : Proc!Kill(p) /\ cleanup' = [cleanup EXCEPT !.left = @ \ {p}]
    BY <1>9 DEF Proc!CleanNext
  <2>2. ProcInv'
    BY <2>1, KillKeeps
  <2>3. CleanInv'
    BY <2>1
  <2> QED
    BY <1>9, <2>2, <2>3 DEF Proc!CleanNext
<1>10. CASE Proc!Over \/ UNCHANGED ProcVars
  BY <1>10 DEF Proc!Over, Proc!pvars, ProcVars, ProcInv, Proc!Active, Proc!Unreached
<1> QED
  BY <1>1, <1>2, <1>3, <1>4, <1>5, <1>6, <1>7, <1>8, <1>9, <1>10 DEF Proc!Next

\* The processes that are up are among those believed to run, but for those a kill did not reach.
LEMMA ProcSeen ==
    ASSUME IsFiniteSet(Procs), Limit \in Nat, ProcInv
    PROVE  Proc!NothingRunsUnseen
<1> DEFINE Up == {p \in Procs \ Proc!Unreached : os[p] = "up"}
<1>1. Up \subseteq Proc!Active
  BY DEF ProcInv, Proc!Active
<1>2. IsFiniteSet(Proc!Active)
  BY FS_Subset DEF Proc!Active
<1>3. IsFiniteSet(Up) /\ Cardinality(Up) <= Cardinality(Proc!Active)
  BY <1>1, <1>2, FS_Subset
<1>4. Cardinality(Up) \in Nat /\ Cardinality(Proc!Active) \in Nat
  BY <1>2, <1>3, FS_CardinalityType
<1> QED
  BY <1>3, <1>4, SameCount DEF ProcInv, Proc!NothingRunsUnseen

\* However its own end, a timer, the watch of the protected paths, a stop and a clean-up fall
\* together, whatever kills reach: what runs is known to run and counted by the limit, or its
\* record says that the last kill did not reach all of it (processManager.ts).
THEOREM SeenRunning ==
    ASSUME IsFiniteSet(Procs), Limit \in Nat
    PROVE  Spec => []NothingRunsUnseen
<1> DEFINE Inv == part = "processes" => ProcHolds
<1>1. Init => Inv
  BY Beginnings, ProcBegins
<1>2. Inv /\ [Next]_all => Inv'
  BY Steps, ProcKeeps
<1>3. Inv => NothingRunsUnseen
  BY ProcSeen DEF NothingRunsUnseen, ProcHolds
<1> QED
  BY <1>1, <1>2, <1>3, PTL DEF Spec, all

-----------------------------------------------------------------------------
\* Delivery gate

\* What the check knows of and is going to remove, for each place of its code.
DatabaseKnown == CASE gate.db = "docker" -> {Del!Mine("container")}
                   [] gate.db = "host"   -> {Del!Mine("database")}
                   [] gate.db = "none"   -> {}
AppKnown == IF gate.app THEN {Del!Mine("app")} ELSE {}

Ours ==
    CASE gate.at \in {"ready", "app", "health", "contract", "kill"} ->
             DatabaseKnown \cup AppKnown
      [] gate.at = "drop" -> DatabaseKnown
      [] OTHER            -> {}

\* TypeOK in parts.
Gates  == [at : {"off", "work", "gate", "kill", "drop", "report", "settle"} \cup Del!Checking,
           nr : 0..Begins, rows : {"none", "good", "failed"},
           db : {"none", "docker", "host"}, app : BOOLEAN,
           outcome : Del!Outcomes \cup {"none", "unfinished"}]
Paper  == [nr : 0..Begins, says : Del!Outcomes \cup {"none"}]
Final  == [nr : 0..Begins, says : {"none", "done", "failed", "blocked"}]
Papers == [report : Paper, completion : Final, cases : BOOLEAN]
Rows   == {"planning", "executing", "done", "failed", "blocked"}
Clean  == upkeep \subseteq Del!Things /\ lost \subseteq upkeep

\* NothingIsForgotten is inductive only with what is known while the check goes on; that
\* the application of this start is not lost meanwhile rests on the numbers of the starts.
AllKnown == upkeep \ lost \subseteq Ours
Counted  == /\ gate.at # "off" => gate.nr \in 1..Begins
            /\ gate.at \in {"kill", "drop", "report"} => gate.outcome \in Del!Outcomes
Elder    == /\ \A t \in upkeep : t.nr <= gate.nr
            /\ gate.at \in {"work", "gate"} \cup Del!Checking => Del!Mine("app") \notin lost
DelInv == /\ gate \in Gates /\ papers \in Papers /\ verdict \in Rows
        /\ Clean /\ Counted /\ Elder /\ AllKnown

\* TypeOK in parts.
LEMMA DelParts == Del!TypeOK <=> gate \in Gates /\ papers \in Papers /\ verdict \in Rows /\ Clean
BY DEF Del!TypeOK, Gates, Papers, Paper, Final, Rows, Clean

\* A step that ends the check early forgets nothing.
LEMMA EarlyKnows ==
    ASSUME gate \in Gates, gate.at \in Del!Checking, Counted,
           NEW why \in Del!Outcomes, Del!Early(why)
    PROVE  /\ gate' \in Gates /\ gate'.at = "kill" /\ gate'.nr = gate.nr /\ Counted'
           /\ Ours \subseteq Ours'
<1>1. gate' \in Gates
  BY DEF Del!Early, Gates
<1>2. gate'.db = gate.db /\ gate'.app = gate.app /\ gate'.nr = gate.nr /\ gate'.at = "kill"
  BY DEF Del!Early, Gates
<1>3. Ours' = DatabaseKnown \cup AppKnown
  BY <1>2 DEF Ours, DatabaseKnown, AppKnown, Del!Mine
<1>4. Ours \subseteq DatabaseKnown \cup AppKnown
  BY DEF Ours, Del!Checking
<1>5. Counted'
  BY <1>2 DEF Counted, Del!Checking, Del!Early, Gates
<1> QED
  BY <1>1, <1>2, <1>3, <1>4, <1>5

\* What is asked to be removed is gone, or lost for good.
LEMMA RemovedIsKnown ==
    ASSUME NEW thing, Del!Removed(thing), Clean
    PROVE  Clean' /\ upkeep' \ lost' = (upkeep \ lost) \ {thing} /\ upkeep' \subseteq upkeep
BY DEF Del!Removed, Clean

\* Nothing is known and nothing runs at the start.
LEMMA DelBegins ==
    ASSUME Begins \in Nat, Del!Init
    PROVE  DelInv
BY DEF Del!Init, DelInv, Gates, Papers, Paper, Final, Rows, Clean, Del!Outcomes, Del!NoPaper,
   Counted,
       Elder, AllKnown, Del!Checking

\* Every step keeps what DelInv says.
LEMMA DelKeeps ==
    ASSUME Begins \in Nat, DelInv, [Del!Next]_DelVars
    PROVE  DelInv'
<1>0. /\ gate \in Gates /\ papers \in Papers /\ verdict \in Rows
      /\ Clean /\ Counted /\ Elder /\ AllKnown
  BY DEF DelInv
<1>1. CASE Del!Begin
  <2>0. gate.nr + 1 \in 1..Begins /\ gate.nr + 1 \in 0..Begins
    BY <1>0, <1>1 DEF Del!Begin, Gates
  <2>1. gate' \in Gates /\ Counted'
    BY <1>0, <1>1, <2>0 DEF Del!Begin, Gates, Counted
  <2>2. papers' \in Papers /\ verdict' \in Rows
    BY <1>0, <1>1 DEF Del!Begin, Del!NoPaper, Papers, Paper, Final, Del!Outcomes, Rows
  <2>3. Clean' /\ Elder'
    BY <1>0, <1>1 DEF Del!Begin, Del!Mine, Del!Things, Clean, Elder, Gates
  <2>4. AllKnown'
    BY <1>0, <1>1 DEF Del!Begin, AllKnown, Ours, Gates
  <2> QED
    BY <2>1, <2>2, <2>3, <2>4 DEF DelInv
<1>2. CASE Del!Work
  <2>1. gate' \in Gates /\ Counted'
    BY <1>0, <1>2, ZenonT(60) DEF Del!Work, Del!Goes, Gates, Counted, Del!Checking, Del!Outcomes
  <2>2. papers' \in Papers /\ verdict' \in Rows
    BY <1>0, <1>2 DEF Del!Work, Papers, Rows
  <2>3. Clean' /\ Elder'
    BY <1>0, <1>2, SMTT(30) DEF Del!Work, Del!Goes, Del!Mine, Del!Things, Clean, Elder, Gates, Counted, Del!Checking
  <2>4. AllKnown'
    BY <1>0, <1>2 DEF Del!Work, Del!Goes, Del!Mine, AllKnown, Ours, DatabaseKnown, AppKnown,
       Gates, Del!Checking
  <2> QED
    BY <2>1, <2>2, <2>3, <2>4 DEF DelInv
<1>3. CASE Del!Skips \/ Del!Throws \/ Del!Verifies
  <2>1. gate' \in Gates /\ Counted'
    BY <1>0, <1>3 DEF Del!Skips, Del!Throws, Del!Verifies, Del!Goes, Gates, Counted, Del!Checking,
       Del!Outcomes
  <2>2. papers' \in Papers /\ verdict' \in Rows
    BY <1>0, <1>3 DEF Del!Skips, Del!Throws, Del!Verifies, Rows
  <2>3. Clean' /\ Elder'
    BY <1>0, <1>3 DEF Del!Skips, Del!Throws, Del!Verifies, Del!Goes, Del!Mine, Del!Things, Clean, Elder,
       Gates, Counted, Del!Checking
  <2>4. AllKnown'
    BY <1>0, <1>3 DEF Del!Skips, Del!Throws, Del!Verifies, Del!Goes, Del!Mine, AllKnown, Ours,
       DatabaseKnown, AppKnown, Gates, Del!Checking
  <2> QED
    BY <2>1, <2>2, <2>3, <2>4 DEF DelInv
<1>4. CASE Del!Container
  <2>1. gate' \in Gates /\ Counted'
    BY <1>0, <1>4 DEF Del!Container, Del!Goes, Gates, Counted, Del!Checking, Del!Outcomes
  <2>2. papers' \in Papers /\ verdict' \in Rows
    BY <1>0, <1>4 DEF Del!Container, Rows
  <2>3. Clean' /\ Elder'
    BY <1>0, <1>4 DEF Del!Container, Del!Goes, Del!Mine, Del!Things, Clean, Elder, Gates,
       Counted, Del!Checking
  <2>4. AllKnown'
    BY <1>0, <1>4 DEF Del!Container, Del!Goes, Del!Mine, AllKnown, Ours, DatabaseKnown,
       AppKnown, Gates, Del!Checking
  <2> QED
    BY <2>1, <2>2, <2>3, <2>4 DEF DelInv
<1>5. CASE Del!Database
  <2>1. gate' \in Gates /\ Counted'
    BY <1>0, <1>5 DEF Del!Database, Del!Goes, Gates, Counted, Del!Checking, Del!Outcomes
  <2>2. papers' \in Papers /\ verdict' \in Rows
    BY <1>0, <1>5 DEF Del!Database, Rows
  <2>3. Clean' /\ Elder'
    BY <1>0, <1>5 DEF Del!Database, Del!Goes, Del!Mine, Del!Things, Clean, Elder, Gates,
       Counted, Del!Checking
  <2>4. AllKnown'
    BY <1>0, <1>5 DEF Del!Database, Del!Goes, Del!Mine, AllKnown, Ours, DatabaseKnown,
       AppKnown, Gates, Del!Checking
  <2> QED
    BY <2>1, <2>2, <2>3, <2>4 DEF DelInv
<1>6. CASE Del!NoDatabase \/ Del!NotReady \/ Del!NotStarted \/ Del!Contract \/ Del!Exception
  <2>1. PICK why \in Del!Outcomes : Del!Early(why)
    BY <1>6 DEF Del!NoDatabase, Del!NotReady, Del!NotStarted, Del!Contract, Del!Exception, Del!Judged,
       Del!Outcomes
  <2>2. gate.at \in Del!Checking /\ UNCHANGED <<upkeep, lost, papers, verdict>>
    BY <1>6 DEF Del!NoDatabase, Del!NotReady, Del!NotStarted, Del!Contract, Del!Exception, Del!Checking
  <2>3. gate' \in Gates /\ Counted' /\ gate'.at = "kill" /\ gate'.nr = gate.nr
        /\ Ours \subseteq Ours'
    BY <1>0, <2>1, <2>2, EarlyKnows
  <2> QED
    BY <1>0, <2>2, <2>3 DEF DelInv, Clean, Elder, AllKnown, Del!Checking
<1>7. CASE Del!DatabaseFails
  <2>1. Del!Early("env_error") /\ gate.at \in Del!Checking /\ "env_error" \in Del!Outcomes
    BY <1>7 DEF Del!DatabaseFails, Del!Checking, Del!Outcomes
  <2>2. PICK fresh \in {{}, {Del!Mine("database")}, {Del!Mine("container")}} :
            upkeep' = upkeep \cup fresh /\ lost' = lost \cup fresh
    BY <1>7 DEF Del!DatabaseFails
  <2>3. fresh \subseteq Del!Things /\ \A t \in fresh : t.nr = gate.nr
    BY <1>0, <2>1 DEF Del!Mine, Del!Things, Counted, Del!Checking
  <2>4. gate' \in Gates /\ Counted' /\ gate'.at = "kill" /\ gate'.nr = gate.nr
        /\ Ours \subseteq Ours'
    BY <1>0, <2>1, EarlyKnows
  <2>5. UNCHANGED <<papers, verdict>>
    BY <1>7 DEF Del!DatabaseFails
  <2>6. Clean' /\ Elder' /\ AllKnown'
    BY <1>0, <2>2, <2>3, <2>4 DEF Clean, Elder, AllKnown, Gates, Del!Checking
  <2> QED
    BY <1>0, <2>4, <2>5, <2>6 DEF DelInv
<1>8. CASE Del!Ready \/ Del!Healthy
  <2>1. gate' \in Gates /\ Counted'
    BY <1>0, <1>8 DEF Del!Ready, Del!Healthy, Del!Goes, Gates, Counted, Del!Checking, Del!Outcomes
  <2>2. papers' \in Papers /\ verdict' \in Rows
    BY <1>0, <1>8 DEF Del!Ready, Del!Healthy, Rows
  <2>3. Clean' /\ Elder'
    BY <1>0, <1>8 DEF Del!Ready, Del!Healthy, Del!Goes, Del!Mine, Del!Things, Clean, Elder, Gates,
       Counted, Del!Checking
  <2>4. AllKnown'
    BY <1>0, <1>8 DEF Del!Ready, Del!Healthy, Del!Goes, Del!Mine, AllKnown, Ours, DatabaseKnown,
       AppKnown, Gates, Del!Checking
  <2> QED
    BY <2>1, <2>2, <2>3, <2>4 DEF DelInv
<1>9. CASE Del!StartApp
  <2>1. gate' \in Gates /\ Counted'
    BY <1>0, <1>9 DEF Del!StartApp, Del!Goes, Gates, Counted, Del!Checking, Del!Outcomes
  <2>2. papers' \in Papers /\ verdict' \in Rows
    BY <1>0, <1>9 DEF Del!StartApp, Rows
  <2>3. Clean' /\ Elder'
    BY <1>0, <1>9 DEF Del!StartApp, Del!Goes, Del!Mine, Del!Things, Clean, Elder, Gates,
       Counted, Del!Checking
  <2>4. AllKnown'
    BY <1>0, <1>9 DEF Del!StartApp, Del!Goes, Del!Mine, AllKnown, Ours, DatabaseKnown,
       AppKnown, Gates, Del!Checking
  <2> QED
    BY <2>1, <2>2, <2>3, <2>4 DEF DelInv
<1>10. CASE Del!Unhealthy
  <2>1. Del!Early("boot_failed") /\ gate.at \in Del!Checking /\ "boot_failed" \in Del!Outcomes
    BY <1>10 DEF Del!Unhealthy, Del!Checking, Del!Outcomes
  <2>2. UNCHANGED <<lost, papers, verdict>> /\ upkeep' \in {upkeep, upkeep \ {Del!Mine("app")}}
    BY <1>10 DEF Del!Unhealthy
  <2>3. gate' \in Gates /\ Counted' /\ gate'.at = "kill" /\ gate'.nr = gate.nr
        /\ Ours \subseteq Ours'
    BY <1>0, <2>1, EarlyKnows
  <2>4. Clean' /\ Elder' /\ AllKnown'
    BY <1>0, <2>1, <2>2, <2>3 DEF Clean, Elder, AllKnown, Del!Checking
  <2> QED
    BY <1>0, <2>2, <2>3, <2>4 DEF DelInv
<1>11. CASE Del!KillApp
  <2>1. gate' \in Gates /\ Counted'
    BY <1>0, <1>11 DEF Del!KillApp, Del!Goes, Gates, Counted
  <2>2. UNCHANGED <<papers, verdict>> /\ gate.at = "kill" /\ gate' = [gate EXCEPT !.at = "drop"]
    BY <1>11 DEF Del!KillApp, Del!Goes
  <2>3. Clean' /\ upkeep' \subseteq upkeep /\ upkeep' \ lost' = (upkeep \ lost) \ AppKnown
    <3>1. CASE gate.app
      <4>1. Del!Removed(Del!Mine("app")) /\ AppKnown = {Del!Mine("app")}
        BY <1>11, <3>1 DEF Del!KillApp, AppKnown
      <4> QED
        BY <1>0, <4>1, RemovedIsKnown
    <3>2. CASE ~gate.app
      BY <1>0, <1>11, <3>2 DEF Del!KillApp, AppKnown, Clean
    <3> QED
      BY <3>1, <3>2
  <2>4. Elder'
    BY <1>0, <2>2, <2>3 DEF Elder, Gates, Del!Checking
  <2>5. AllKnown'
    <3>1. Ours = DatabaseKnown \cup AppKnown
      BY <2>2 DEF Ours
    <3>2. Ours' = DatabaseKnown
      BY <1>0, <2>2 DEF Ours, DatabaseKnown, Del!Mine, Gates
    <3> QED
      BY <1>0, <2>3, <3>1, <3>2 DEF AllKnown
  <2> QED
    BY <1>0, <2>1, <2>2, <2>3, <2>4, <2>5 DEF DelInv
<1>12. CASE Del!DropDatabase
  <2>1. gate' \in Gates /\ Counted'
    BY <1>0, <1>12 DEF Del!DropDatabase, Del!Goes, Gates, Counted
  <2>2. UNCHANGED <<papers, verdict>> /\ gate.at = "drop" /\ gate' = [gate EXCEPT !.at = "report"]
    BY <1>12 DEF Del!DropDatabase, Del!Goes
  <2>3. Clean' /\ upkeep' \subseteq upkeep /\ upkeep' \ lost' = (upkeep \ lost) \ DatabaseKnown
    <3>1. CASE gate.db = "docker"
      <4>1. Del!Removed(Del!Mine("container")) /\ DatabaseKnown = {Del!Mine("container")}
        BY <1>12, <3>1 DEF Del!DropDatabase, DatabaseKnown
      <4> QED
        BY <1>0, <4>1, RemovedIsKnown
    <3>2. CASE gate.db = "host"
      <4>1. Del!Removed(Del!Mine("database")) /\ DatabaseKnown = {Del!Mine("database")}
        BY <1>12, <3>2 DEF Del!DropDatabase, DatabaseKnown
      <4> QED
        BY <1>0, <4>1, RemovedIsKnown
    <3>3. CASE gate.db = "none"
      BY <1>0, <1>12, <3>3 DEF Del!DropDatabase, DatabaseKnown, Clean
    <3> QED
      BY <1>0, <3>1, <3>2, <3>3 DEF Gates
  <2>4. Elder'
    BY <1>0, <2>2, <2>3 DEF Elder, Gates, Del!Checking
  <2>5. AllKnown'
    <3>1. Ours = DatabaseKnown
      BY <2>2 DEF Ours
    <3> QED
      BY <1>0, <2>3, <3>1 DEF AllKnown
  <2> QED
    BY <1>0, <2>1, <2>2, <2>3, <2>4, <2>5 DEF DelInv
<1>13. CASE Del!Report
  <2>1. gate' \in Gates /\ Counted'
    BY <1>0, <1>13 DEF Del!Report, Del!Goes, Gates, Counted, Del!Checking, Del!Outcomes
  <2>2. papers' \in Papers /\ verdict' \in Rows
    BY <1>0, <1>13 DEF Del!Report, Papers, Paper, Gates, Counted, Rows
  <2>3. Clean' /\ Elder'
    BY <1>0, <1>13 DEF Del!Report, Del!Goes, Del!Mine, Del!Things, Clean, Elder, Gates, Counted,
       Del!Checking
  <2>4. AllKnown'
    BY <1>0, <1>13 DEF Del!Report, Del!Goes, Del!Mine, AllKnown, Ours, DatabaseKnown,
       AppKnown, Gates, Del!Checking
  <2> QED
    BY <2>1, <2>2, <2>3, <2>4 DEF DelInv
<1>14. CASE Del!Settle
  <2>1. gate' \in Gates /\ Counted'
    BY <1>0, <1>14 DEF Del!Settle, Del!Goes, Gates, Counted, Del!Checking, Del!Outcomes
  <2>2. papers' \in Papers /\ verdict' \in Rows
    BY <1>0, <1>14 DEF Del!Settle, Del!Status, Papers, Final, Gates, Rows
  <2>3. Clean' /\ Elder'
    BY <1>0, <1>14 DEF Del!Settle, Del!Goes, Del!Mine, Del!Things, Clean, Elder, Gates, Counted,
       Del!Checking
  <2>4. AllKnown'
    BY <1>0, <1>14 DEF Del!Settle, Del!Goes, Del!Mine, AllKnown, Ours, DatabaseKnown,
       AppKnown, Gates, Del!Checking
  <2> QED
    BY <2>1, <2>2, <2>3, <2>4 DEF DelInv
<1>15. CASE Del!Dies
  <2>1. gate' \in Gates /\ Counted'
    BY <1>0, <1>15 DEF Del!Dies, Del!Goes, Gates, Counted
  <2> QED
    BY <1>0, <1>15, <2>1 DEF Del!Dies, Del!Goes, DelInv, Clean, Elder, AllKnown, Gates, Del!Checking
<1>16. CASE Del!EndsByItself
  <2>1. PICK t \in lost : upkeep' = upkeep \ {t} /\ lost' = lost \ {t}
    BY <1>16 DEF Del!EndsByItself
  <2>2. UNCHANGED <<gate, papers, verdict>>
    BY <1>16 DEF Del!EndsByItself
  <2>3. Ours' = Ours /\ Del!Mine("app")' = Del!Mine("app")
    BY <2>2 DEF Ours, DatabaseKnown, AppKnown, Del!Mine
  <2> QED
    BY <1>0, <2>1, <2>2, <2>3 DEF DelInv, Clean, Counted, Elder, AllKnown
<1>17. CASE UNCHANGED DelVars
  <2>1. Ours' = Ours /\ Del!Mine("app")' = Del!Mine("app")
    BY <1>17 DEF Del!vars, DelVars, Ours, DatabaseKnown, AppKnown, Del!Mine
  <2> QED
    BY <1>0, <1>17, <2>1 DEF Del!vars, DelVars, DelInv, Clean, Counted, Elder, AllKnown
<1> QED
  BY <1>1, <1>2, <1>3, <1>4, <1>5, <1>6, <1>7, <1>8, <1>9, <1>10, <1>11, <1>12, <1>13,
     <1>14, <1>15, <1>16, <1>17 DEF Del!Next, Del!Stay, Del!vars, DelVars

\* The gate's part of the invariant, whichever part runs.
LEMMA DelInvariant ==
    ASSUME Begins \in Nat
    PROVE  Spec => [](part = "delivery" => DelInv)
<1> DEFINE Inv == part = "delivery" => DelInv
<1>1. Init => Inv
  BY Beginnings, DelBegins
<1>2. Inv /\ [Next]_all => Inv'
  BY Steps, DelKeeps
<1> QED
  BY <1>1, <1>2, PTL DEF Spec, all

\* The state of the gate is what its TypeOK says.
THEOREM DeliveryTyped ==
    ASSUME Begins \in Nat
    PROVE  Spec => [](part = "delivery" => Del!TypeOK)
<1>1. DelInv => Del!TypeOK
  BY DelParts DEF DelInv
<1> QED
  BY <1>1, DelInvariant, PTL

\* Whichever way a check ends, for any number of starts: once its result is heard, there is
\* only what could not be removed (verifyRun, its finally).
THEOREM NothingForgotten ==
    ASSUME Begins \in Nat
    PROVE  Spec => []NothingIsForgotten
<1>1. (part = "delivery" => DelInv) => NothingIsForgotten
  BY DEF DelInv, NothingIsForgotten, Del!NothingIsForgotten, AllKnown, Ours, Clean
<1> QED
  BY <1>1, DelInvariant, PTL

-----------------------------------------------------------------------------
\* Older engineers

Stages == {"away"} \cup Eng!InWork

\* What is counted about one task: it was got as often as told, and once more while in work.
Balanced(r) == r.told + (IF r.stage \in Eng!InWork THEN 1 ELSE 0) = r.got

\* The entry of a task, as far as the counting goes.
Entry(r) == /\ {"stage", "got", "told"} \subseteq DOMAIN r
            /\ r.got \in Nat /\ r.told \in Nat /\ r.stage \in Stages

\* EveryTaskIsReportedOnce with the shape of what it speaks of.
EngInv == /\ bench = [j \in Eng!Jobs |-> bench[j]]
        /\ \A j \in Eng!Jobs : Entry(bench[j]) /\ Balanced(bench[j])

\* A step of one task that keeps its own entry balanced keeps all of them.
LEMMA OneTask ==
    ASSUME EngInv, NEW j \in Eng!Jobs, NEW r, Eng!Change(j, r), Entry(r), Balanced(r)
    PROVE  EngInv'
BY DEF EngInv, Eng!Change

\* A task that stays in work, or goes on at a stage in work, owes its answer as before.
LEMMA StaysInWork ==
    ASSUME NEW r, NEW s, Entry(r), Balanced(r), r.stage \in Eng!InWork,
           DOMAIN s = DOMAIN r, s.got = r.got, s.told = r.told, s.stage \in Eng!InWork
    PROVE  Entry(s) /\ Balanced(s)
BY DEF Entry, Balanced, Stages

\* An answer settles what was owed.
LEMMA AnswerSettles ==
    ASSUME NEW r, NEW s, NEW end, Entry(r), Balanced(r), r.stage \in Eng!InWork,
           DOMAIN s = DOMAIN r, s.got = r.got, s.told = r.told
    PROVE  Entry(Eng!Told(s, end)) /\ Balanced(Eng!Told(s, end))
BY DEF Entry, Balanced, Stages, Eng!Told, Eng!InWork, Eng!Coding

\* The next file, or writing out: the task is still in work.
LEMMA MadeStays ==
    ASSUME NEW j \in Eng!Jobs, Entry(bench[j])
    PROVE  /\ DOMAIN Eng!Made(j) = DOMAIN bench[j] /\ Eng!Made(j).stage \in Eng!InWork
           /\ Eng!Made(j).got = bench[j].got /\ Eng!Made(j).told = bench[j].told
BY DEF Eng!Made, Eng!Begun, Entry, Eng!InWork, Eng!Coding

\* The next round of a task in work is in work, and got and told nothing new.
LEMMA RoundStays ==
    ASSUME NEW r, Entry(r), r.stage \in Eng!InWork
    PROVE  /\ DOMAIN Eng!NextRound(r) = DOMAIN r /\ Eng!NextRound(r).stage \in Eng!InWork
           /\ Eng!NextRound(r).got = r.got /\ Eng!NextRound(r).told = r.told
BY DEF Eng!NextRound, Entry, Eng!InWork, Eng!Coding

\* The loop with the tools and the shots keep what IInv says.
LEMMA FileSteps ==
    ASSUME EngInv, NEW j \in Eng!Jobs,
           \/ Eng!Look(j) \/ Eng!Silent(j) \/ Eng!Write(j) \/ Eng!EditBegins(j) \/ Eng!EditLands(j)
           \/ Eng!EditRefused(j) \/ Eng!RoundOver(j) \/ Eng!Breaks(j) \/ Eng!ShotPasses(j) \/ Eng!ShotFails(j)
    PROVE  EngInv'
<1> DEFINE r == bench[j]
<1>0. Entry(r) /\ Balanced(r)
  BY DEF EngInv
<1>9. ASSUME NEW s, r.stage \in Eng!InWork, DOMAIN s = DOMAIN r, s.got = r.got, s.told = r.told,
             s.stage \in Eng!InWork, Eng!Change(j, s)
      PROVE  EngInv'
  BY <1>0, <1>9, OneTask, StaysInWork
<1>1. CASE Eng!Look(j)
  <2>1. r.stage \in Eng!InWork /\ Eng!Change(j, Eng!NextRound(r))
    BY <1>1 DEF Eng!Look, Eng!InWork, Eng!Coding
  <2> QED
    BY <1>0, <2>1, <1>9, RoundStays
<1>2. CASE Eng!Silent(j)
  <2>1. r.stage \in Eng!InWork
    BY <1>2 DEF Eng!Silent, Eng!InWork, Eng!Coding
  <2>2. CASE r.quiet
    <3>1. Eng!Change(j, [r EXCEPT !.stage = "shots", !.round = 1, !.quiet = FALSE])
      BY <1>2, <2>2 DEF Eng!Silent
    <3> QED
      BY <1>0, <2>1, <3>1, <1>9 DEF Entry, Eng!InWork, Eng!Coding
  <2>3. CASE ~r.quiet
    <3> DEFINE q == [r EXCEPT !.quiet = TRUE]
    <3>1. Eng!Change(j, Eng!NextRound(q))
      BY <1>2, <2>3 DEF Eng!Silent
    <3>2. DOMAIN q = DOMAIN r /\ q.got = r.got /\ q.told = r.told /\ q.stage = r.stage
      BY <1>0 DEF Entry
    <3>3. Entry(q)
      BY <1>0, <3>2 DEF Entry
    <3> HIDE DEF q
    <3> QED
      BY <1>0, <2>1, <3>1, <3>2, <3>3, <1>9, RoundStays
  <2> QED
    BY <2>2, <2>3
<1>3. CASE Eng!Write(j) \/ Eng!EditLands(j)
  <2>1. r.stage \in Eng!InWork /\ Eng!Land(j)
    BY <1>3 DEF Eng!Write, Eng!EditLands, Eng!Patching, Eng!InWork, Eng!Coding
  <2>2. Eng!Change(j, [r EXCEPT !.stage = "landed", !.base = "old", !.put = @ \cup {Eng!Target(j)}])
    BY <2>1 DEF Eng!Land
  <2> QED
    BY <1>0, <2>1, <2>2, <1>9 DEF Entry, Eng!InWork, Eng!Coding
<1>4. CASE Eng!EditBegins(j)
  <2>1. r.stage \in Eng!InWork
    BY <1>4 DEF Eng!EditBegins, Eng!InWork, Eng!Coding
  <2>2. \/ Eng!Change(j, [r EXCEPT !.stage = "patching", !.base = j])
        \/ Eng!Change(j, [r EXCEPT !.stage = "editing", !.base = shelf[Eng!Target(j)]])
    BY <1>4 DEF Eng!EditBegins
  <2> QED
    BY <1>0, <2>1, <2>2, <1>9 DEF Entry, Eng!InWork, Eng!Coding
<1>5. CASE Eng!EditRefused(j)
  <2>1. r.stage \in Eng!InWork
    BY <1>5 DEF Eng!EditRefused, Eng!Patching, Eng!InWork, Eng!Coding
  <2> DEFINE b == [r EXCEPT !.base = "old"]
             t == [b EXCEPT !.stage = "tools"]
  <2>2. Eng!Change(j, [b EXCEPT !.stage = "landed"]) \/ Eng!Change(j, Eng!NextRound(t))
    BY <1>5 DEF Eng!EditRefused
  <2>3. /\ DOMAIN b = DOMAIN r /\ b.got = r.got /\ b.told = r.told
        /\ DOMAIN t = DOMAIN r /\ t.got = r.got /\ t.told = r.told /\ t.stage = "tools"
    BY <1>0 DEF Entry
  <2>4. Entry(t) /\ t.stage \in Eng!InWork
    BY <1>0, <2>3 DEF Entry, Stages, Eng!InWork, Eng!Coding
  <2>5. CASE Eng!Change(j, [b EXCEPT !.stage = "landed"])
    BY <1>0, <2>1, <2>3, <2>5, <1>9 DEF Entry, Eng!InWork, Eng!Coding
  <2> HIDE DEF t
  <2>6. CASE Eng!Change(j, Eng!NextRound(t))
    BY <1>0, <2>1, <2>3, <2>4, <2>6, <1>9, RoundStays
  <2> QED
    BY <2>2, <2>5, <2>6
<1>6. CASE Eng!RoundOver(j) \/ Eng!ShotPasses(j)
  <2>1. r.stage \in Eng!InWork /\ Eng!Change(j, Eng!Made(j))
    BY <1>6 DEF Eng!RoundOver, Eng!ShotPasses, Eng!InWork, Eng!Coding
  <2> QED
    BY <1>0, <2>1, <1>9, MadeStays
<1>7. CASE Eng!Breaks(j)
  <2>1. r.stage \in Eng!InWork /\ Eng!Change(j, [r EXCEPT !.stage = "shots", !.round = 1, !.quiet = FALSE])
    BY <1>7 DEF Eng!Breaks, Eng!InWork, Eng!Coding
  <2> QED
    BY <1>0, <2>1, <1>9 DEF Entry, Eng!InWork, Eng!Coding
<1>8. CASE Eng!ShotFails(j)
  <2>1. r.stage \in Eng!InWork
    BY <1>8 DEF Eng!ShotFails, Eng!InWork, Eng!Coding
  <2>2. Eng!Change(j, [r EXCEPT !.tries = r.tries + 1]) \/ Eng!Change(j, Eng!Told(r, "unmade"))
    BY <1>8 DEF Eng!ShotFails
  <2>3. CASE Eng!Change(j, [r EXCEPT !.tries = r.tries + 1])
    BY <1>0, <2>1, <2>3, <1>9 DEF Entry
  <2>4. CASE Eng!Change(j, Eng!Told(r, "unmade"))
    BY <1>0, <2>1, <2>4, OneTask, AnswerSettles
  <2> QED
    BY <2>2, <2>3, <2>4
<1> QED
  BY <1>1, <1>2, <1>3, <1>4, <1>5, <1>6, <1>7, <1>8

\* Receiving a task, the two queues, writing out and the compiler keep what IInv says.
LEMMA TaskSteps ==
    ASSUME EngInv, NEW j \in Eng!Jobs,
           Eng!Take(j) \/ Eng!Sketch(j) \/ Eng!Open(j) \/ Eng!WriteOut(j) \/ Eng!Passes(j) \/ Eng!Fails(j)
    PROVE  EngInv'
<1> DEFINE r == bench[j]
<1>0. Entry(r) /\ Balanced(r)
  BY DEF EngInv
<1>9. ASSUME NEW s, r.stage \in Eng!InWork, DOMAIN s = DOMAIN r, s.got = r.got, s.told = r.told,
             s.stage \in Eng!InWork, Eng!Change(j, s)
      PROVE  EngInv'
  BY <1>0, <1>9, OneTask, StaysInWork
<1>1. CASE Eng!Take(j)
  <2> DEFINE s == [r EXCEPT !.stage = "asked", !.got = r.got + 1, !.put = {}, !.end = "none"]
  <2>1. r.stage = "away" /\ Eng!Change(j, s)
    BY <1>1 DEF Eng!Take
  <2>2. DOMAIN s = DOMAIN r /\ s.got = r.got + 1 /\ s.told = r.told /\ s.stage = "asked"
    BY <1>0 DEF Entry
  <2> HIDE DEF s
  <2>3. Entry(s) /\ Balanced(s)
    BY <1>0, <2>1, <2>2 DEF Entry, Balanced, Stages, Eng!InWork, Eng!Coding
  <2> QED
    BY <2>1, <2>3, OneTask
<1>2. CASE Eng!Sketch(j)
  <2>1. r.stage \in Eng!InWork /\ Eng!Change(j, [r EXCEPT !.stage = "sketched"])
    BY <1>2 DEF Eng!Sketch, Eng!InWork
  <2> QED
    BY <1>0, <2>1, <1>9 DEF Entry, Eng!InWork
<1>3. CASE Eng!Open(j)
  <2>1. r.stage \in Eng!InWork /\ (Eng!Change(j, Eng!Told(r, "good")) \/ Eng!Change(j, Eng!Begun(r)))
    BY <1>3 DEF Eng!Open, Eng!InWork
  <2>2. CASE Eng!Change(j, Eng!Told(r, "good"))
    BY <1>0, <2>1, <2>2, OneTask, AnswerSettles
  <2>3. CASE Eng!Change(j, Eng!Begun(r))
    BY <1>0, <2>1, <2>3, <1>9 DEF Eng!Begun, Entry, Eng!InWork, Eng!Coding
  <2> QED
    BY <2>1, <2>2, <2>3
<1>4. CASE Eng!WriteOut(j)
  <2>1. r.stage \in Eng!InWork
    BY <1>4 DEF Eng!WriteOut, Eng!InWork, Eng!Coding
  <2>2. PICK bits :
            LET s == [r EXCEPT !.put = @ \cup bits]
            IN  Eng!Change(j, [s EXCEPT !.stage = "trying"]) \/ Eng!Change(j, Eng!Told(s, "refused"))
    BY <1>4 DEF Eng!WriteOut
  <2> DEFINE s == [r EXCEPT !.put = @ \cup bits]
  <2>3. DOMAIN s = DOMAIN r /\ s.got = r.got /\ s.told = r.told
    BY <1>0 DEF Entry
  <2>4. CASE Eng!Change(j, [s EXCEPT !.stage = "trying"])
    BY <1>0, <2>1, <2>3, <2>4, <1>9 DEF Entry, Eng!InWork, Eng!Coding
  <2> HIDE DEF s
  <2>5. CASE Eng!Change(j, Eng!Told(s, "refused"))
    BY <1>0, <2>1, <2>3, <2>5, OneTask, AnswerSettles
  <2> QED
    BY <2>2, <2>4, <2>5 DEF s
<1>5. CASE Eng!Passes(j)
  <2>1. r.stage \in Eng!InWork /\ Eng!Change(j, Eng!Told(r, "good"))
    BY <1>5 DEF Eng!Passes, Eng!Trying, Eng!InWork, Eng!Coding
  <2> QED
    BY <1>0, <2>1, OneTask, AnswerSettles
<1>6. CASE Eng!Fails(j)
  <2>1. r.stage \in Eng!InWork
    BY <1>6 DEF Eng!Fails, Eng!Trying, Eng!InWork, Eng!Coding
  <2>2. \/ Eng!Change(j, Eng!Told(r, "broken"))
        \/ Eng!Change(j, [r EXCEPT !.stage = "asked", !.repaired = @ + 1, !.pos = 1])
    BY <1>6 DEF Eng!Fails
  <2>3. CASE Eng!Change(j, Eng!Told(r, "broken"))
    BY <1>0, <2>1, <2>3, OneTask, AnswerSettles
  <2>4. CASE Eng!Change(j, [r EXCEPT !.stage = "asked", !.repaired = @ + 1, !.pos = 1])
    BY <1>0, <2>1, <2>4, <1>9 DEF Entry, Eng!InWork
  <2> QED
    BY <2>2, <2>3, <2>4
<1> QED
  BY <1>1, <1>2, <1>3, <1>4, <1>5, <1>6

\* At the start no task has been sent.
LEMMA EngBegins ==
    ASSUME Eng!Init
    PROVE  EngInv
BY DEF Eng!Init, Eng!Fresh, EngInv, Entry, Balanced, Stages, Eng!InWork, Eng!Coding

\* No step of a task, a file or a compiler answers twice or not at all.
LEMMA EngKeeps ==
    ASSUME EngInv, [Eng!Next]_EngVars
    PROVE  EngInv'
<1>1. CASE Eng!Stay \/ UNCHANGED EngVars
  BY <1>1 DEF Eng!Stay, Eng!vars, EngVars, EngInv
<1>2. ASSUME NEW j \in Eng!Jobs,
             \/ Eng!Take(j) \/ Eng!Sketch(j) \/ Eng!Open(j)
             \/ Eng!Look(j) \/ Eng!Silent(j) \/ Eng!Write(j) \/ Eng!EditBegins(j) \/ Eng!EditLands(j)
             \/ Eng!EditRefused(j) \/ Eng!RoundOver(j) \/ Eng!Breaks(j)
             \/ Eng!ShotPasses(j) \/ Eng!ShotFails(j)
             \/ Eng!WriteOut(j) \/ Eng!Passes(j) \/ Eng!Fails(j)
      PROVE  EngInv'
  BY <1>2, FileSteps, TaskSteps
<1> QED
  BY <1>1, <1>2 DEF Eng!Next

\* Every sending of a task is reported exactly once, for any tasks, files, seats, rounds and
\* repairs, and however the compiler sends it back (codeWorker, verifyAfterWrite).
THEOREM ReportedOnce == Spec => []EveryTaskIsReportedOnce
<1> DEFINE Inv == part = "engineers" => EngInv
<1>1. Init => Inv
  BY Beginnings, EngBegins
<1>2. Inv /\ [Next]_all => Inv'
  BY Steps, EngKeeps
<1>3. Inv => EveryTaskIsReportedOnce
  BY DEF EveryTaskIsReportedOnce, EngInv, Eng!EveryTaskIsReportedOnce, Balanced
<1> QED
  BY <1>1, <1>2, <1>3, PTL DEF Spec, all

-----------------------------------------------------------------------------
\* Consultation

\* A reply of a station.
Replies == [id : Nat, to : Con!Matters,
            amendment : [kind : Con!parseStationOutput, nr : Nat]]

\* Revisions of the plan and clarified requirements, by number.
Plans == [memory : Seq(Nat), file : Seq(Nat), made : Nat]
Wishes == [file : Seq(Nat), made : Nat]

\* Before the first restart no id is given twice, so that what is on its way under the id
\* waited for is to the question waited for.
OwnIds ==
    /\ \A m \in out : m.id \in 1..ids
    /\ \A r \in back : r.id \in 1..ids
    /\ \A i \in DOMAIN noted.replied : noted.replied[i].id \in 1..ids
    /\ wait # Con!Nobody =>
          /\ wait.id \in 1..ids
          /\ \A m \in out : m.id = wait.id => m.q = wait.q
          /\ \A r \in back : r.id = wait.id => r.to = wait.q

ConInv ==
    /\ ids \in Nat /\ boots \in Nat
    /\ noted \in [requested : Nat, replied : Seq(Replies)]
    /\ wait \in [id : Nat, q : Con!Matters] \cup {Con!Nobody}
    /\ out \subseteq [id : Nat, q : Con!Matters]
    /\ back \subseteq Replies
    /\ plan \in Plans /\ wishes \in Wishes
    /\ boots = 0 => OwnIds
    /\ Con!RepliesFit

\* A question meets no reply under its id that is not its own, and one to itself only.
LEMMA ConsultKeeps ==
    ASSUME ConInv, NEW q \in Con!Matters, Con!consultPort(q)
    PROVE  ConInv'
<1> DEFINE id == ids + 1
           prior == Con!priorConsultReply(id, q)
<1>0. /\ ids \in Nat /\ boots \in Nat /\ out \subseteq [id : Nat, q : Con!Matters]
      /\ back \subseteq Replies /\ noted \in [requested : Nat, replied : Seq(Replies)]
      /\ noted.replied \in Seq(Replies) /\ boots = 0 => OwnIds
  BY DEF ConInv
<1>1. /\ ids' = ids + 1 /\ wait = Con!Nobody
      /\ UNCHANGED <<back, plan, wishes, boots>>
  BY DEF Con!consultPort, Con!newConsultId
<1>2. CASE prior # {}
  <2>1. PICK last \in prior :
            heard' = heard \cup {[q |-> q, reply |-> noted.replied[last], boot |-> boots]}
    BY <1>2 DEF Con!consultPort, Con!newConsultId
  <2>2. UNCHANGED <<noted, wait, out>>
    BY <1>2 DEF Con!consultPort, Con!newConsultId
  <2>3. boots = 0 => noted.replied[last].to = q
    BY <1>0, <2>1 DEF OwnIds, Con!priorConsultReply
  <2>4. Con!RepliesFit'
    BY <1>1, <2>1, <2>3 DEF ConInv, Con!RepliesFit, Con!ToTheQuestion
  <2>5. boots' = 0 => OwnIds'
    BY <1>0, <1>1, <2>2 DEF OwnIds, Replies
  <2> QED
    BY <1>1, <2>2, <2>4, <2>5 DEF ConInv
<1>3. CASE prior = {}
  <2>1. /\ noted' = [noted EXCEPT !.requested = @ + 1]
        /\ wait' = [id |-> id, q |-> q]
        /\ out' = out \cup {[id |-> id, q |-> q]}
        /\ UNCHANGED heard
    BY <1>3 DEF Con!consultPort, Con!newConsultId
  <2>2. noted' \in [requested : Nat, replied : Seq(Replies)] /\ noted'.replied = noted.replied
    BY <1>0, <2>1
  <2>3. boots' = 0 => OwnIds'
    <3>1. \A r \in back : r.id \in Nat
      BY <1>0 DEF Replies
    <3>2. \A i \in DOMAIN noted.replied : noted.replied[i] \in Replies
      BY <1>0
    <3> QED
      BY <1>0, <1>1, <2>1, <2>2, <3>1, <3>2 DEF OwnIds, Replies
  <2> QED
    BY <1>0, <1>1, <2>1, <2>2, <2>3 DEF ConInv, Con!RepliesFit
<1> QED
  BY <1>2, <1>3

\* The reply that is taken is to the question waited for.
LEMMA ReceiveKeeps ==
    ASSUME ConInv, Con!consultReceives
    PROVE  ConInv'
<1>1. PICK r \in back :
          /\ r.id = wait.id
          /\ noted' = [noted EXCEPT !.replied = Append(@, r)]
          /\ heard' = heard \cup {[q |-> wait.q, reply |-> r, boot |-> boots]}
          /\ back' = back \ {r}
  BY DEF Con!consultReceives
<1>2. wait # Con!Nobody /\ wait' = Con!Nobody /\ UNCHANGED <<ids, out, plan, wishes, boots>>
  BY DEF Con!consultReceives
<1>3. r \in Replies /\ noted.replied \in Seq(Replies)
  BY <1>1 DEF ConInv
<1>4. /\ noted' \in [requested : Nat, replied : Seq(Replies)]
      /\ noted'.replied = Append(noted.replied, r)
  <2>1. Append(noted.replied, r) \in Seq(Replies)
    BY <1>3
  <2>2. noted \in [requested : Nat, replied : Seq(Replies)]
    BY DEF ConInv
  <2> QED
    BY <1>1, <2>1, <2>2
<1>5. boots = 0 => r.to = wait.q
  BY <1>1, <1>2 DEF ConInv, OwnIds
<1>6. Con!RepliesFit'
  BY <1>1, <1>5 DEF ConInv, Con!RepliesFit, Con!ToTheQuestion
<1>7. boots' = 0 => OwnIds'
  <2> SUFFICES ASSUME boots = 0, OwnIds PROVE OwnIds'
    BY <1>2 DEF ConInv
  <2>1. \A i \in DOMAIN noted'.replied : noted'.replied[i].id \in 1..ids
    BY <1>1, <1>3, <1>4 DEF OwnIds
  <2> QED
    BY <1>1, <1>2, <2>1 DEF OwnIds
<1> QED
  BY <1>1, <1>2, <1>4, <1>6, <1>7 DEF ConInv

\* A reply bears an amendment the model proposed, by its number, or none.
LEMMA ReplySent ==
    ASSUME ConInv, NEW m \in out, NEW kind \in Con!parseStationOutput, NEW nr \in Nat, NEW done,
           Con!handleConsultRequest(m, kind, nr, done)
    PROVE  /\ \E r \in Replies : r.id = m.id /\ r.to = m.q /\ back' = back \cup {r}
           /\ out' = out \ {m}
           /\ UNCHANGED <<noted, ids, wait, heard, boots>>
<1>1. m \in [id : Nat, q : Con!Matters]
  BY DEF ConInv
<1>2. PICK a \in [kind : Con!parseStationOutput, nr : Nat] :
          back' = back \cup {Con!ConsultReplySchema(m, a)}
  <2>1. /\ Con!ConsultAmendmentSchema(kind, nr) \in [kind : Con!parseStationOutput, nr : Nat]
        /\ Con!NoAmendment \in [kind : Con!parseStationOutput, nr : Nat]
    BY DEF Con!ConsultAmendmentSchema, Con!NoAmendment, Con!parseStationOutput
  <2> QED
    BY <2>1 DEF Con!handleConsultRequest
<1>3. Con!ConsultReplySchema(m, a) = [id |-> m.id, to |-> m.q, amendment |-> a]
  BY DEF Con!ConsultReplySchema
<1>4. Con!ConsultReplySchema(m, a) \in Replies
  BY <1>1, <1>2, <1>3 DEF Replies
<1> QED
  BY <1>2, <1>3, <1>4 DEF Con!handleConsultRequest

\* The revisions stay a plan, whether or not they could be stored.
LEMMA RevisionKept ==
    ASSUME ConInv, NEW stored
    PROVE  Con!applyArchitectAmendment(stored) \in Plans
<1> DEFINE nr == plan.made + 1
           revisions == Append(plan.memory, nr)
<1>1. nr \in Nat /\ revisions \in Seq(Nat) /\ plan.file \in Seq(Nat)
  BY DEF ConInv, Plans
<1>2. \E f \in Seq(Nat) :
          Con!applyArchitectAmendment(stored) = [memory |-> revisions, file |-> f, made |-> nr]
  BY <1>1 DEF Con!applyArchitectAmendment
<1> QED
  BY <1>1, <1>2 DEF Plans

\* A clarification is put after those that could be read.
LEMMA ClarificationKept ==
    ASSUME ConInv, NEW read
    PROVE  [file |-> Append(Con!readRequirementClarifications(read), wishes.made + 1),
            made |-> wishes.made + 1] \in Wishes
<1>1. wishes.made \in Nat /\ wishes.file \in Seq(Nat) /\ <<>> \in Seq(Nat)
  BY DEF ConInv, Wishes
<1>2. Con!readRequirementClarifications(read) \in Seq(Nat)
  BY <1>1 DEF Con!readRequirementClarifications
<1> QED
  BY <1>1, <1>2 DEF Wishes

\* An answer goes out under the id and to the question it was asked.
LEMMA AnswerKeeps ==
    ASSUME ConInv, Con!answerConsult
    PROVE  ConInv'
<1>1. PICK m \in out :
          Con!answerArchitect(m) \/ Con!answerPmConsult(m) \/ Con!answerWithoutModel(m)
  BY DEF Con!answerConsult
<1>2. plan.made + 1 \in Nat /\ wishes.made + 1 \in Nat
  BY DEF ConInv, Plans, Wishes
<1>3. /\ \E kind \in Con!parseStationOutput : \E nr \in Nat : \E done :
             Con!handleConsultRequest(m, kind, nr, done)
      /\ plan' \in Plans /\ wishes' \in Wishes
  <2>1. CASE Con!answerArchitect(m)
    <3>1. PICK kind \in Con!parseStationOutput, done \in BOOLEAN :
              LET revised == kind = "plan_revision" IN
              /\ plan' = IF revised THEN Con!applyArchitectAmendment(done) ELSE plan
              /\ Con!handleConsultRequest(m, kind, IF revised THEN plan.made + 1 ELSE 0, done)
              /\ UNCHANGED wishes
      BY <2>1 DEF Con!answerArchitect
    <3>2. (IF kind = "plan_revision" THEN plan.made + 1 ELSE 0) \in Nat
      BY <1>2
    <3>3. plan' \in Plans /\ wishes' \in Wishes
      BY <3>1, RevisionKept DEF ConInv
    <3> QED
      BY <3>1, <3>2, <3>3
  <2>2. CASE Con!answerPmConsult(m)
    <3>1. PICK kind \in Con!parseStationOutput, read \in BOOLEAN, stored \in BOOLEAN :
              LET nr == wishes.made + 1
                  done == Con!Signed("pm", kind) /\ stored IN
              /\ wishes' = IF done
                           THEN [file |-> Append(Con!readRequirementClarifications(read), nr),
                                 made |-> nr]
                           ELSE wishes
              /\ Con!handleConsultRequest(m, kind, nr, done)
              /\ UNCHANGED plan
      BY <2>2 DEF Con!answerPmConsult
    <3>2. plan' \in Plans /\ wishes' \in Wishes
      BY <3>1, ClarificationKept DEF ConInv
    <3> QED
      BY <1>2, <3>1, <3>2
  <2>3. CASE Con!answerWithoutModel(m)
    BY <2>3 DEF Con!answerWithoutModel, Con!parseStationOutput, ConInv
  <2> QED
    BY <1>1, <2>1, <2>2, <2>3
<1>4. /\ \E r \in Replies : r.id = m.id /\ r.to = m.q /\ back' = back \cup {r}
      /\ out' = out \ {m}
      /\ UNCHANGED <<noted, ids, wait, heard, boots>>
  BY <1>3, ReplySent
<1>5. boots' = 0 => OwnIds'
  BY <1>4 DEF ConInv, OwnIds
<1>6. Con!RepliesFit'
  BY <1>4 DEF ConInv, Con!RepliesFit
<1> QED
  BY <1>3, <1>4, <1>5, <1>6 DEF ConInv

\* No step of the developer, of a station or of the process gives a question a reply that is
\* not to it.
LEMMA ConKeeps ==
    ASSUME ConInv, [Con!Next]_ConVars
    PROVE  ConInv'
<1>1. ASSUME NEW q \in Con!Matters, Con!consultStation(q) PROVE ConInv'
  BY <1>1, ConsultKeeps DEF Con!consultStation
<1>2. CASE Con!consultTimesOut
  BY <1>2 DEF Con!consultTimesOut, ConInv, OwnIds, Con!RepliesFit
<1>3. CASE Con!Restart
  <2>1. noted.requested \in Nat /\ boots' \in Nat /\ boots' # 0
    BY <1>3 DEF Con!Restart, ConInv
  <2>2. plan' \in Plans
    <3>1. plan' = [plan EXCEPT !.memory = <<>>] /\ plan \in Plans
      BY <1>3 DEF Con!Restart, ConInv
    <3>2. <<>> \in Seq(Nat)
      OBVIOUS
    <3> QED
      BY <3>1, <3>2 DEF Plans
  <2> QED
    BY <1>3, <2>1, <2>2 DEF Con!Restart, ConInv, Con!RepliesFit
<1>4. CASE Con!Rest \/ UNCHANGED ConVars
  BY <1>4 DEF Con!Rest, Con!vars, ConVars, ConInv, OwnIds, Con!RepliesFit
<1> QED
  BY <1>1, <1>2, <1>3, <1>4, ReceiveKeeps, AnswerKeeps DEF Con!Next

\* For any questions, stations and restarts: as long as the process is not restarted, the reply
\* the model is given is the one to its question (consultPort, consultReceives).
THEOREM RepliesToTheQuestion == Spec => []RepliesFit
<1> DEFINE Inv == part = "consult" => ConInv
<1>1. Init => Inv
  <2>1. <<>> \in Seq(Replies) /\ <<>> \in Seq(Nat)
    OBVIOUS
  <2>2. Con!Init => noted \in [requested : Nat, replied : Seq(Replies)] /\ plan \in Plans
                    /\ wishes \in Wishes
    BY <2>1 DEF Con!Init, Plans, Wishes
  <2> QED
    BY Beginnings, <2>2 DEF Con!Init, ConInv, OwnIds, Con!RepliesFit
<1>2. Inv /\ [Next]_all => Inv'
  BY Steps, ConKeeps
<1>3. Inv => RepliesFit
  BY DEF ConInv, RepliesFit
<1> QED
  BY <1>1, <1>2, <1>3, PTL DEF Spec, all

-----------------------------------------------------------------------------
\* Developer brake

\* The question that a pause leaves open is the one after the answers used till then; the
\* question a process asks, or is going to leave open, is the next one.
Granted == Len(book.extended)

BrkInv ==
    /\ book.extended \in Seq(Nat) /\ \A i \in 1..Granted : book.extended[i] = i
    /\ {"status", "calls", "extended", "pause", "words", "heard", "by"} \subseteq DOMAIN book
    /\ DOMAIN asks = 1..Questions
    /\ \A q \in DOMAIN asks : asks[q] # "none" => q <= Granted + 1
    /\ \/ book.pause = Brk!NoPause
       \/ /\ book.pause.ext \in 0..Granted
          /\ book.pause.round = book.pause.ext + 1
    /\ run.at # "down" =>
          /\ {"at", "round", "ext"} \subseteq DOMAIN run
          /\ run.round \in 1..(Granted + 1) /\ run.ext \in 0..Granted
          /\ run.at \in {"ask", "pausing"} => run.round = Granted + 1

\* A step that uses no answer and asks no question, and leaves the round as it is, keeps it all.
LEMMA NoQuestion ==
    ASSUME BrkInv, asks' = asks,
           book'.extended = book.extended, book'.pause = book.pause, DOMAIN book' = DOMAIN book,
           run'.at # "down" =>
               /\ run.at # "down" /\ DOMAIN run' = DOMAIN run
               /\ run'.round = run.round /\ run'.ext = run.ext
               /\ run'.at \in {"ask", "pausing"} => run.at \in {"ask", "pausing"}
    PROVE  BrkInv'
BY DEF BrkInv, Granted

\* The driving loop asks nothing.
LEMMA DriveKeeps ==
    ASSUME BrkInv,
           \/ Brk!driveToTerminal \/ Brk!serveOnce \/ Brk!Tick \/ Brk!watchdog
           \/ Brk!Finish \/ Brk!brakeFinalized \/ Brk!askBrakeQuietly \/ Brk!Exit
    PROVE  BrkInv'
<1>0. run.at # "down" => {"at", "round", "ext"} \subseteq DOMAIN run
  BY DEF BrkInv
<1>21. {"status", "calls", "extended", "pause", "words", "heard", "by"} \subseteq DOMAIN book
  BY DEF BrkInv
<1>1. CASE Brk!driveToTerminal
  <2>1. PICK at_next \in {"idle", "stopping", "checkpoint", "ceiling", "await", "serve"} :
            run' = [run EXCEPT !.at = at_next]
    BY <1>1 DEF Brk!driveToTerminal, Brk!Go, Brk!Follow
  <2>2. run.at = "gate" /\ UNCHANGED <<book, asks>>
    BY <1>1 DEF Brk!driveToTerminal
  <2> QED
    BY <1>0, <2>1, <2>2, NoQuestion
<1>2. CASE Brk!serveOnce
  <2>1. PICK more \in 0..1, status \in {"executing", "waiting_test", "ready", "blocked"} :
            /\ book' = [book EXCEPT !.calls = @ + more, !.status = status,
                                    !.by = IF status = "blocked" THEN "graph" ELSE @]
            /\ run' = [run EXCEPT !.at = "gate", !.bought = @ /\ more = 0]
    BY <1>2 DEF Brk!serveOnce
  <2>2. run.at \in {"serve", "await"} /\ UNCHANGED asks
    BY <1>2 DEF Brk!serveOnce
  <2> QED
    BY <1>0, <1>21, <2>1, <2>2, NoQuestion
<1>3. CASE Brk!Tick
  <2>1. PICK e, w, b : run' = [run EXCEPT !.elapsed = e, !.waited = w, !.bought = b]
    BY <1>3 DEF Brk!Tick, Brk!Follow
  <2>2. run.at \in {"serve", "await", "ask"} /\ UNCHANGED <<book, asks>>
    BY <1>3 DEF Brk!Tick
  <2> QED
    BY <1>0, <2>1, <2>2, NoQuestion
<1>4. CASE Brk!watchdog \/ Brk!Finish \/ Brk!brakeFinalized
  <2>1. PICK b : book' = [book EXCEPT !.status = "blocked", !.by = b]
    BY <1>4 DEF Brk!watchdog, Brk!Finish, Brk!brakeFinalized
  <2>2. PICK at_next \in {"gate", "idle", "stopping"} : run' = [run EXCEPT !.at = at_next]
    BY <1>4 DEF Brk!watchdog, Brk!Finish, Brk!brakeFinalized, Brk!Go, Brk!Follow
  <2>3. run.at \in {"await", "ask", "ceiling"} /\ UNCHANGED asks
    BY <1>4 DEF Brk!watchdog, Brk!Finish, Brk!brakeFinalized
  <2> QED
    BY <1>0, <1>21, <2>1, <2>2, <2>3, NoQuestion
<1>5. CASE Brk!askBrakeQuietly
  <2>1. /\ run.at = "ask" /\ run' = [run EXCEPT !.at = "pausing"]
        /\ UNCHANGED <<book, asks>>
    BY <1>5 DEF Brk!askBrakeQuietly, Brk!Go, Brk!Follow
  <2> QED
    BY <1>0, <2>1, NoQuestion
<1>6. CASE Brk!Exit
  BY <1>6, NoQuestion DEF Brk!Exit, Brk!Follow, Brk!Down
<1> QED
  BY <1>1, <1>2, <1>3, <1>4, <1>5, <1>6

\* A new process goes on with the question that was left open, if its answer is not used up.
LEMMA LaunchKeeps ==
    ASSUME BrkInv, Brk!runOneTask
    PROVE  BrkInv'
<1>1. PICK a : run' = [Brk!resolveBrakePolicy EXCEPT !.at = a] /\ a \in {"idle", "gate"}
  BY DEF Brk!runOneTask
<1>2. /\ run'.at \in {"idle", "gate"} /\ run'.round = Brk!Most(book.pause.round, 1)
      /\ run'.ext = 0 /\ {"at", "round", "ext"} \subseteq DOMAIN run'
  BY <1>1 DEF Brk!resolveBrakePolicy
<1>3. /\ book'.extended = book.extended /\ book'.pause = book.pause
      /\ DOMAIN book' = DOMAIN book /\ UNCHANGED asks
  BY DEF Brk!runOneTask, Brk!taskWithBrief, BrkInv
<1>4. Granted \in Nat
  BY DEF BrkInv, Granted
<1>5. Brk!Most(book.pause.round, 1) \in 1..(Granted + 1)
  BY <1>4 DEF BrkInv, Brk!Most, Brk!NoPause
<1> QED
  BY <1>2, <1>3, <1>4, <1>5 DEF BrkInv, Granted

\* The question that is asked is the one after the answers that were used.
LEMMA CheckpointKeeps ==
    ASSUME BrkInv, Brk!brakeCheckpoint
    PROVE  BrkInv'
<1> DEFINE q == Brk!pickQuestionId(run.round)
<1>1. run.at = "checkpoint" /\ UNCHANGED book
  BY DEF Brk!brakeCheckpoint
<1>2. Granted \in Nat /\ Granted = Brk!countExtensions
  BY DEF BrkInv, Granted, Brk!countExtensions
<1>3. q = Granted + 1
  BY <1>1, <1>2 DEF BrkInv, Brk!pickQuestionId, Brk!Most, Brk!NoPause
<1>4. asks' = asks \/ asks' = [asks EXCEPT ![q] = "open"]
  BY DEF Brk!brakeCheckpoint
<1>5. PICK a \in {"ask", "pausing"} :
          run' = [run EXCEPT !.at = a, !.round = q, !.waited = 0, !.bought = FALSE]
  BY DEF Brk!brakeCheckpoint, Brk!Follow
<1> HIDE DEF q
<1>6. /\ run'.at \in {"ask", "pausing"} /\ run'.round = q /\ run'.ext = run.ext
      /\ {"at", "round", "ext"} \subseteq DOMAIN run'
  BY <1>1, <1>5 DEF BrkInv
<1>7. DOMAIN asks' = 1..Questions /\ \A p \in DOMAIN asks' : asks'[p] # "none" => p <= Granted + 1
  <2>1. DOMAIN asks' = 1..Questions /\ \A p \in 1..Questions : p = q \/ asks'[p] = asks[p]
    BY <1>4 DEF BrkInv
  <2> QED
    BY <1>2, <1>3, <2>1 DEF BrkInv
<1> QED
  BY <1>1, <1>2, <1>3, <1>6, <1>7 DEF BrkInv, Granted

\* An answer is used under the number of its question, which is the next one.
LEMMA ExtendKeeps ==
    ASSUME BrkInv, Brk!Extend
    PROVE  BrkInv'
<1>1. /\ run.at = "ask" /\ UNCHANGED asks
      /\ \E w : book' = [book EXCEPT !.extended = Append(@, run.round), !.words = w]
  BY DEF Brk!Extend
<1>2. run' = Brk!grantBrakeExtension
  BY DEF Brk!Extend, Brk!Follow
<1>3. Granted \in Nat /\ run.round = Granted + 1 /\ run.ext \in 0..Granted
  BY <1>1 DEF BrkInv, Granted
<1>4. /\ run'.at = "gate" /\ run'.round = run.round + 1 /\ run'.ext = run.ext + 1
      /\ {"at", "round", "ext"} \subseteq DOMAIN run'
  BY <1>1, <1>2 DEF Brk!grantBrakeExtension, BrkInv
<1>5. /\ book'.extended = Append(book.extended, run.round) /\ book'.pause = book.pause
      /\ DOMAIN book' = DOMAIN book
  BY <1>1 DEF BrkInv
<1>6. Granted' = Granted + 1 /\ book'.extended \in Seq(Nat)
  BY <1>3, <1>5 DEF BrkInv, Granted
<1>7. \A i \in 1..Granted' : book'.extended[i] = i
  BY <1>3, <1>5, <1>6 DEF BrkInv, Granted
<1> HIDE DEF Granted
<1> QED
  BY <1>1, <1>3, <1>4, <1>5, <1>6, <1>7 DEF BrkInv

\* A pause keeps the question that is open.
LEMMA PauseKeeps ==
    ASSUME BrkInv, Brk!pauseBrake
    PROVE  BrkInv'
<1>0. Granted \in Nat /\ Granted = Brk!countExtensions
  BY DEF BrkInv, Granted, Brk!countExtensions
<1>1. CASE run.at = "pausing"
  <2>1. /\ book' = [book EXCEPT !.pause =
                        [round |-> run.round, ext |-> Brk!Most(run.ext, Granted)]]
        /\ run' = [run EXCEPT !.at = "paused"] /\ UNCHANGED asks
    BY <1>0, <1>1 DEF Brk!pauseBrake, Brk!summaryOf, Brk!Go, Brk!Follow
  <2>2. run.round = Granted + 1 /\ run.ext \in 0..Granted /\ Brk!Most(run.ext, Granted) = Granted
    BY <1>0, <1>1 DEF BrkInv, Brk!Most
  <2>3. /\ book'.extended = book.extended /\ DOMAIN book' = DOMAIN book
        /\ book'.pause = [round |-> Granted + 1, ext |-> Granted]
    BY <2>1, <2>2 DEF BrkInv
  <2>4. /\ run'.at = "paused" /\ DOMAIN run' = DOMAIN run
        /\ run'.round = run.round /\ run'.ext = run.ext
    BY <1>1, <2>1 DEF BrkInv
  <2>5. Granted' = Granted
    BY <2>3 DEF Granted
  <2> QED
    BY <1>0, <1>1, <2>1, <2>3, <2>4, <2>5 DEF BrkInv
<1>2. CASE run.at = "paused"
  <2>1. /\ book' = [book EXCEPT !.status = "waiting_human"] /\ UNCHANGED asks
        /\ run' = [run EXCEPT !.at = "stopping"]
    BY <1>2 DEF Brk!pauseBrake, Brk!Go, Brk!Follow
  <2> QED
    BY <1>2, <2>1, NoQuestion DEF BrkInv
<1> QED
  BY <1>1, <1>2 DEF Brk!pauseBrake

\* No step of a process, of a person or of the server asks out of turn.
LEMMA BrkKeeps ==
    ASSUME BrkInv, [Brk!Next]_BrkVars
    PROVE  BrkInv'
<1>1. CASE Brk!Answer
  <2>1. PICK q \in DOMAIN asks : asks[q] = "open" /\ \E a : asks' = [asks EXCEPT ![q] = a]
    BY <1>1 DEF Brk!Answer
  <2>2. UNCHANGED <<book, run>>
    BY <1>1 DEF Brk!Answer
  <2> QED
    BY <2>1, <2>2 DEF BrkInv, Granted
<1>2. CASE Brk!Stay \/ UNCHANGED BrkVars
  BY <1>2 DEF Brk!Stay, Brk!vars, BrkVars, BrkInv, Granted
<1> QED
  BY <1>1, <1>2, DriveKeeps, LaunchKeeps, CheckpointKeeps, ExtendKeeps, PauseKeeps DEF Brk!Next

\* For any number of processes, questions and any limits: every question is asked until it is
\* answered, and no answer is used twice, over pauses and kills anywhere (pickQuestionId).
THEOREM AnswersAreUsedOnce == Spec => []QuestionsInTurn
<1> DEFINE Inv == part = "brake" => BrkInv
<1>1. Init => Inv
  <2>1. <<>> \in Seq(Nat) /\ Len(<<>>) = 0
    OBVIOUS
  <2>2. Brk!Init => BrkInv
    BY <2>1 DEF Brk!Init, BrkInv, Granted, Brk!Down
  <2> QED
    BY <2>2, Beginnings
<1>2. Inv /\ [Next]_all => Inv'
  BY Steps, BrkKeeps
<1>3. Inv => QuestionsInTurn
  BY DEF BrkInv, QuestionsInTurn, Brk!QuestionsInTurn, Brk!countExtensions, Granted
<1> QED
  BY <1>1, <1>2, <1>3, PTL DEF Spec, all

-----------------------------------------------------------------------------
\* Acceptance

\* What a pass stands for.
Earned(hash, missed, ran, review) ==
    /\ \A i \in 1..hash \ missed : i \in DOMAIN ran /\ ran[i] = "green"
    /\ review = [verdict |-> "pass", findings |-> {}]

\* Who asks holds pieces that are on disk.
MailInv == \E S : mail \in Seq(S) /\ \A r \in S : r.hash \in Nat /\ r.hash <= written

\* The checks of a round are, with what could not be read, never fewer than those of its request:
\* what was on disk when it asked is there at the second reading.
RoundIsWhole ==
    CASE job.at = "hash"    -> {"at", "req"} \subseteq DOMAIN job
                               /\ job.req.hash \in Nat /\ job.req.hash <= written
      [] job.at = "resolve" -> job.req.hash \in Nat /\ job.req.hash <= written
      [] job.at = "run"     -> /\ {"at", "req", "checks", "missed", "ran"} \subseteq DOMAIN job
                               /\ 1..job.req.hash \subseteq job.checks \cup job.missed
      [] job.at = "said"    -> /\ {"at", "req", "checks", "missed", "ran", "signals", "review"}
                                      \subseteq DOMAIN job
                               /\ 1..job.req.hash \subseteq job.checks \cup job.missed
                               /\ job.review \in Acc!runLlmReview
      [] job.at = "judged"  -> job.kind = "passed" => Earned(job.req.hash, job.missed, job.ran, job.review)
      [] OTHER              -> TRUE

AccInv ==
    /\ written \in Nat
    /\ MailInv
    /\ RoundIsWhole
    /\ \A m \in sent : m.kind = "passed" => Earned(m.hash, m.missed, m.ran, m.review)

\* The evidence bears out a pass that is judged.
LEMMA JudgedIsEarned ==
    ASSUME AccInv, Acc!runTestAgentVerify
    PROVE  AccInv'
<1> USE DEF AccInv, RoundIsWhole
<1>1. job.at = "said" /\ UNCHANGED <<written, mail, sent>> /\ job'.at = "judged"
  BY DEF Acc!runTestAgentVerify
<1>2. ASSUME job'.kind = "passed"
      PROVE  Earned(job'.req.hash, job'.missed, job'.ran, job'.review)
  <2>1. /\ Acc!EvidenceBearsOut /\ ~Acc!collectBlockingFindings /\ ~Acc!semanticGateReasons
        /\ job'.req = job.req /\ job'.missed = job.missed /\ job'.ran = job.ran /\ job'.review = job.review
    BY <1>1, <1>2 DEF Acc!runTestAgentVerify
  <2>2. \A i \in 1..job.req.hash \ job.missed : i \in DOMAIN job.ran /\ job.ran[i] = "green"
    <3>1. Acc!Ran(job.ran, {"green"}) = job.checks
      BY <2>1 DEF Acc!EvidenceBearsOut
    <3>2. \A i \in job.checks : i \in DOMAIN job.ran /\ job.ran[i] = "green"
      BY <3>1 DEF Acc!Ran
    <3> QED
      BY <1>1, <3>2
  <2>3. job.review = [verdict |-> "pass", findings |-> {}]
    <3>1. job.review.verdict = "pass" /\ "major" \notin job.review.findings
      BY <2>1 DEF Acc!semanticGateReasons, Acc!collectBlockingFindings
    <3>20. job.review # Acc!NoReview
      BY <3>1 DEF Acc!NoReview
    <3>2. job.review \in
              [verdict : {"pass", "pass with low confidence", "fail", "uncertain"},
               findings : Acc!Findings]
      BY <1>1, <3>20 DEF Acc!runLlmReview
    <3>3. job.review.findings = {}
      BY <3>1, <3>2 DEF Acc!Findings
    <3> QED
      BY <3>1, <3>2, <3>3
  <2> QED
    BY <2>1, <2>2, <2>3 DEF Earned
<1> QED
  BY <1>1, <1>2 DEF MailInv

\* No step of the process, of the engineer or of the mail passes what is not earned.
LEMMA AccKeeps ==
    ASSUME CheckCount \in Nat, AccInv, [Acc!Next]_AccVars
    PROVE  AccInv'
<1> USE DEF AccInv
<1>1. CASE Acc!Write
  <2>1. written' = written + 1 /\ UNCHANGED <<mail, job, sent>>
    BY <1>1 DEF Acc!Write
  <2>2. \A n \in Nat : n <= written => n <= written'
    BY <2>1
  <2>3. MailInv'
    BY <2>1, <2>2 DEF MailInv
  <2>4. RoundIsWhole'
    BY <2>1, <2>2 DEF RoundIsWhole
  <2> QED
    BY <2>1, <2>3, <2>4
<1>2. CASE Acc!requestTest \/ Acc!Redeliver
  <2>0. UNCHANGED <<written, job, sent>>
    BY <1>2 DEF Acc!requestTest, Acc!Redeliver
  <2>1. PICK S : mail \in Seq(S) /\ \A r \in S : r.hash \in Nat /\ r.hash <= written
    BY DEF MailInv
  <2>2. PICK r : mail' = Append(mail, r) /\ r.hash \in Nat /\ r.hash <= written
    <3>1. CASE Acc!requestTest
      <4>1. PICK held, n : held \in 1..written /\ mail' = Append(mail, [ticket |-> n, hash |-> held])
        BY <3>1 DEF Acc!requestTest
      <4>2. held \in Nat /\ held <= written
        BY <4>1
      <4> QED
        BY <4>1, <4>2
    <3>2. CASE Acc!Redeliver
      <4>1. mail # <<>> /\ mail' = Append(mail, Head(mail))
        BY <3>2 DEF Acc!Redeliver
      <4>2. Head(mail) \in S
        BY <2>1, <4>1, HeadTailProperties
      <4> QED
        BY <2>1, <4>1, <4>2
    <3> QED
      BY <1>2, <3>1, <3>2
  <2>3. mail' \in Seq(S \cup {r})
    <3>1. mail \in Seq(S \cup {r})
      BY <2>1, SeqMonotonic
    <3> QED
      BY <2>2, <3>1, AppendProperties
  <2>4. MailInv'
    BY <2>0, <2>1, <2>2, <2>3 DEF MailInv
  <2> QED
    BY <2>0, <2>4 DEF RoundIsWhole
<1>11. CASE Acc!Expire \/ Acc!Quiet \/ UNCHANGED AccVars
  BY <1>11 DEF Acc!Expire, Acc!Quiet, Acc!vars, AccVars, MailInv, RoundIsWhole
<1>3. CASE Acc!handleTestRequest
  <2>1. PICK S : mail \in Seq(S) /\ \A r \in S : r.hash \in Nat /\ r.hash <= written
    BY DEF MailInv
  <2>2. /\ mail # <<>> /\ mail' = Tail(mail) /\ UNCHANGED <<written, sent>>
        /\ job' = job \/ job' = [at |-> "hash", req |-> Head(mail)]
    BY <1>3 DEF Acc!handleTestRequest
  <2>3. Head(mail) \in S /\ Tail(mail) \in Seq(S)
    BY <2>1, <2>2, HeadTailProperties
  <2>4. MailInv'
    BY <2>1, <2>2, <2>3 DEF MailInv
  <2>5. RoundIsWhole'
    BY <2>1, <2>2, <2>3 DEF RoundIsWhole
  <2> QED
    BY <2>2, <2>4, <2>5
<1>4. CASE Acc!compareHash
  <2>1. job.at = "hash" /\ UNCHANGED <<written, mail, sent>>
    BY <1>4 DEF Acc!compareHash
  <2>2. CASE job' = Acc!Idle
    BY <2>1, <2>2 DEF RoundIsWhole, MailInv, Acc!Idle
  <2>3. CASE job' = [job EXCEPT !.at = "resolve"]
    BY <2>1, <2>3 DEF RoundIsWhole, MailInv
  <2> QED
    BY <1>4, <2>2, <2>3 DEF Acc!compareHash
<1>5. CASE Acc!translateChecks
  <2>1. job.at = "resolve" /\ UNCHANGED <<written, mail, sent>>
    BY <1>5 DEF Acc!translateChecks
  <2>2. PICK readable \in SUBSET (1..written) :
            \/ job' = Acc!Idle
            \/ /\ Acc!loadTaskChecks(readable) # {}
               /\ job' = [at |-> "run", req |-> job.req, checks |-> Acc!loadTaskChecks(readable),
                          missed |-> (1..written) \ readable, ran |-> <<>>]
    BY <1>5, Zenon DEF Acc!translateChecks
  <2>3. CASE job' = Acc!Idle
    BY <2>1, <2>3 DEF RoundIsWhole, MailInv, Acc!Idle
  <2>4. CASE job' # Acc!Idle
    <3>1. /\ job'.at = "run" /\ job'.req = job.req /\ job'.checks = readable
          /\ job'.missed = (1..written) \ readable
          /\ {"at", "req", "checks", "missed", "ran"} \subseteq DOMAIN job'
      BY <2>2, <2>4 DEF Acc!loadTaskChecks
    <3>2. job.req.hash \in Nat /\ job.req.hash <= written
      BY <2>1 DEF RoundIsWhole
    <3>3. 1..job.req.hash \subseteq 1..written
      BY <3>2
    <3>4. RoundIsWhole'
      BY <3>1, <3>3 DEF RoundIsWhole
    <3> QED
      BY <2>1, <3>4 DEF MailInv
  <2> QED
    BY <2>3, <2>4
<1>6. CASE Acc!runOne
  <2>1. job.at = "run" /\ UNCHANGED <<written, mail, sent>>
    BY <1>6 DEF Acc!runOne
  <2>2. PICK ran : job' = [job EXCEPT !.ran = ran]
    BY <1>6 DEF Acc!runOne
  <2> QED
    BY <2>1, <2>2 DEF RoundIsWhole, MailInv
<1>7. CASE Acc!reviewPhase
  <2>0. Acc!NoReview \in Acc!runLlmReview
    BY DEF Acc!runLlmReview
  <2>1. PICK signals, review :
            review \in Acc!runLlmReview \cup {Acc!NoReview} /\ job' = [at |-> "said", req |-> job.req, checks |-> job.checks, missed |-> job.missed, ran |-> job.ran,
                    verdict |-> Acc!verdictOf(job.ran), signals |-> signals, review |-> review,
                    outcome |-> Acc!decideReview(Acc!verdictOf(job.ran), signals, review)]
    <3> DEFINE v == Acc!verdictOf(job.ran)
               say(signals, review) ==
                   [at |-> "said", req |-> job.req, checks |-> job.checks, missed |-> job.missed, ran |-> job.ran,
                    verdict |-> v, signals |-> signals, review |-> review,
                    outcome |-> Acc!decideReview(v, signals, review)]
    <3>1. \E signals \in IF v = "blocked_unverified" THEN {{}} ELSE Acc!prescanReviewSignals,
             review \in IF v = "blocked_unverified" THEN {Acc!NoReview} ELSE Acc!runLlmReview :
                job' = say(signals, review)
      BY <1>7 DEF Acc!reviewPhase
    <3> HIDE DEF v, say
    <3>2. PICK signals, review :
              review \in Acc!runLlmReview \cup {Acc!NoReview} /\ job' = say(signals, review)
      BY <3>1
    <3> QED
      BY <3>2 DEF v, say
  <2>2. job.at = "run" /\ UNCHANGED <<written, mail, sent>>
    BY <1>7 DEF Acc!reviewPhase
  <2> QED
    BY <2>0, <2>1, <2>2 DEF RoundIsWhole, MailInv
<1>8. CASE Acc!envFailure
  BY <1>8 DEF Acc!envFailure, RoundIsWhole, MailInv
<1>9. CASE Acc!Claim
  BY <1>9 DEF Acc!Claim, RoundIsWhole, MailInv
<1>10. CASE Acc!deliver
  <2>1. /\ job.at = "judged" /\ job' = Acc!Idle /\ UNCHANGED <<written, mail>>
        /\ \/ sent' = sent
           \/ \E n : sent' = sent \cup
                {[nr |-> n, kind |-> job.kind, ticket |-> job.req.ticket, hash |-> job.req.hash,
                  missed |-> job.missed, ran |-> IF job.kind = "passed" THEN job.ran ELSE <<>>,
                  review |-> IF job.kind = "passed" THEN job.review ELSE Acc!NoReview]}
    BY <1>10 DEF Acc!deliver
  <2>2. job.kind = "passed" => Earned(job.req.hash, job.missed, job.ran, job.review)
    BY <2>1 DEF RoundIsWhole
  <2>3. \A m \in sent' : m.kind = "passed" => Earned(m.hash, m.missed, m.ran, m.review)
    BY <2>1, <2>2
  <2> QED
    BY <2>1, <2>3 DEF RoundIsWhole, MailInv, Acc!Idle
<1> QED
  BY <1>1, <1>2, <1>3, <1>4, <1>5, <1>6, <1>7, <1>8, <1>9, <1>10, <1>11, JudgedIsEarned DEF Acc!Next

\* For any number of checks, requests and copies of them: a pass stands for every check the
\* developer holds and the test engineer could read, whatever the test process claims
\* (runTestAgentVerify).
THEOREM PassesAreEarned ==
    ASSUME CheckCount \in Nat
    PROVE  Spec => []PassIsEarned
<1> DEFINE Inv == part = "acceptance" => AccInv
<1>1. Init => Inv
  <2>1. Acc!Init => AccInv
    <3>1. Acc!Init => <<>> \in Seq({}) /\ mail = <<>>
      BY EmptySeq DEF Acc!Init
    <3>2. Acc!Init => MailInv
      BY <3>1 DEF MailInv
    <3>3. Acc!Init => written \in Nat /\ job = Acc!Idle /\ sent = {}
      BY DEF Acc!Init
    <3> QED
      BY <3>2, <3>3 DEF AccInv, RoundIsWhole, Acc!Idle
  <2> QED
    BY <2>1, Beginnings
<1>2. Inv /\ [Next]_all => Inv'
  BY Steps, AccKeeps
<1>3. Inv => PassIsEarned
  BY DEF AccInv, PassIsEarned, Acc!PassIsEarned, Earned
<1> QED
  BY <1>1, <1>2, <1>3, PTL DEF Spec, all

\* The request at work is marked, and nothing marked but it is without its answer; so it has none
\* yet.
OnceInv ==
    /\ \A m \in sent : m.ticket \in seen
    /\ job # Acc!Idle =>
           job.req.ticket \in seen /\ \A m \in sent : m.ticket # job.req.ticket
    /\ Acc!OneAnswerPerRequest

LEMMA OnceKeeps ==
    ASSUME OnceInv, [Acc!Next]_AccVars
    PROVE  OnceInv'
<1>1. ASSUME sent' = sent, seen' = seen, job' = Acc!Idle \/ (job'.req = job.req /\ job # Acc!Idle)
      PROVE  OnceInv'
  BY <1>1 DEF OnceInv, Acc!OneAnswerPerRequest
<1>2. ASSUME UNCHANGED <<sent, seen, job>> PROVE OnceInv'
  BY <1>2 DEF OnceInv, Acc!OneAnswerPerRequest
<1>3. CASE Acc!handleTestRequest
  <2> DEFINE req == Head(mail)
  <2>1. /\ job = Acc!Idle /\ seen' = seen \cup {req.ticket} /\ sent' = sent
        /\ \/ job' = job
           \/ job' = [at |-> "hash", req |-> req] /\ req.ticket \notin seen
    BY <1>3 DEF Acc!handleTestRequest, Acc!Repeated
  <2> HIDE DEF req
  <2> QED
    BY <2>1 DEF OnceInv, Acc!OneAnswerPerRequest, Acc!Idle
<1>4. CASE Acc!deliver
  <2>1. job # Acc!Idle /\ job' = Acc!Idle /\ seen' = seen
    BY <1>4 DEF Acc!deliver, Acc!Idle
  <2>2. \/ sent' = sent
        \/ \E m : m.ticket = job.req.ticket /\ sent' = sent \cup {m}
    BY <1>4 DEF Acc!deliver
  <2> QED
    BY <2>1, <2>2 DEF OnceInv, Acc!OneAnswerPerRequest
<1>5. CASE \/ Acc!compareHash \/ Acc!translateChecks \/ Acc!runOne \/ Acc!reviewPhase
           \/ Acc!envFailure \/ Acc!Claim \/ Acc!runTestAgentVerify
  <2>1. sent' = sent /\ seen' = seen /\ job # Acc!Idle
    BY <1>5 DEF Acc!Idle, Acc!compareHash, Acc!translateChecks, Acc!runOne, Acc!reviewPhase,
       Acc!envFailure, Acc!Claim, Acc!runTestAgentVerify
  <2>2. CASE job' = Acc!Idle
    BY <1>1, <2>1, <2>2
  <2>3. CASE Acc!compareHash
    BY <1>1, <2>1, <2>3 DEF Acc!compareHash
  <2>4. CASE Acc!translateChecks
    <3>1. job' = Acc!Idle \/ job'.req = job.req
      BY <2>4 DEF Acc!translateChecks
    <3> QED
      BY <1>1, <2>1, <3>1
  <2>5. CASE Acc!runOne
    BY <1>1, <2>1, <2>5 DEF Acc!runOne
  <2>6. CASE Acc!reviewPhase
    <3>1. job'.req = job.req
      BY <2>6 DEF Acc!reviewPhase
    <3> QED
      BY <1>1, <2>1, <3>1
  <2>7. CASE Acc!envFailure
    BY <1>1, <2>1, <2>7 DEF Acc!envFailure
  <2>8. CASE Acc!Claim
    BY <1>1, <2>1, <2>8 DEF Acc!Claim
  <2>9. CASE Acc!runTestAgentVerify
    <3>1. job'.req = job.req
      BY <2>9 DEF Acc!runTestAgentVerify
    <3> QED
      BY <1>1, <2>1, <3>1
  <2> QED
    BY <1>5, <2>3, <2>4, <2>5, <2>6, <2>7, <2>8, <2>9
<1>6. CASE Acc!Write \/ Acc!requestTest \/ Acc!Redeliver \/ Acc!Expire
  BY <1>2, <1>6 DEF Acc!Write, Acc!requestTest, Acc!Redeliver, Acc!Expire
<1>7. CASE Acc!Quiet \/ UNCHANGED AccVars
  BY <1>2, <1>7 DEF Acc!Quiet, Acc!vars, AccVars
<1> QED
  BY <1>3, <1>4, <1>5, <1>6, <1>7 DEF Acc!Next

\* For any number of requests and of copies of them: the developer is sent one answer to a request
\* at most, in whatever order copies and deadlines come (handleTestRequest in testEngineer.ts).
THEOREM OneAnswerEach == Spec => []OneAnswerPerRequest
<1> DEFINE Inv == part = "acceptance" => OnceInv
<1>1. Init => Inv
  BY Beginnings DEF Acc!Init, OnceInv, Acc!OneAnswerPerRequest
<1>2. Inv /\ [Next]_all => Inv'
  BY Steps, OnceKeeps
<1>3. Inv => OneAnswerPerRequest
  BY DEF OnceInv, OneAnswerPerRequest
<1> QED
  BY <1>1, <1>2, <1>3, PTL DEF Spec, all

-----------------------------------------------------------------------------
\* Architect and task splitting

\* What was declared to have work is on its way to the developer or has been handed over, and a
\* process that begins has declared nothing.
ArchInv ==
    /\ {"question", "answer", "human", "yes", "history", "turns", "item", "sent", "leave", "boot"}
          \subseteq DOMAIN thread
    /\ {"declared", "cancelled", "empty"} \subseteq DOMAIN bus
    /\ bus.empty => at = "settled" /\ ~bus.declared
    /\ bus.declared => at # "split" /\ (at \in {"dispatch", "settled", "thrown"} \/ thread.sent)

\* A node of the graph declares nothing and takes back nothing that was handed over.
LEMMA NodeKeeps ==
    ASSUME ArchInv, bus' = bus, at \notin {"split", "dispatch", "settled", "thrown"},
           at' # "split", DOMAIN thread' = DOMAIN thread, thread'.sent = thread.sent
    PROVE  ArchInv'
BY DEF ArchInv

\* No node, answer, close or death declares both.
LEMMA ArchKeeps ==
    ASSUME ArchInv, [Arch!Next]_ArchVars
    PROVE  ArchInv'
<1>0. {"question", "answer", "human", "yes", "history", "turns", "item", "sent", "leave", "boot"}
          \subseteq DOMAIN thread
  BY DEF ArchInv
<1>1. CASE Arch!runPhaseSplit
  <2>1. /\ at = "split" /\ at' = "consult" /\ thread' = Arch!Fresh(disk.boot) /\ bus' = bus
    BY <1>1 DEF Arch!runPhaseSplit
  <2> QED
    BY <2>1 DEF ArchInv, Arch!Fresh
<1>2. CASE Arch!Fails \/ Arch!Thinks
  <2>1. /\ at \in {"consult", "plan", "stack", "base"} /\ UNCHANGED <<thread, bus>>
        /\ at' \in {"thrown", "dispatch", "stack", "confirm", "bootstrap"}
    BY <1>2 DEF Arch!Fails, Arch!Thinks
  <2> QED
    BY <2>1, NodeKeeps
<1>3. CASE Arch!architectConsult
  <2>1. \E h, q : thread' = [thread EXCEPT !.history = h, !.question = q, !.human = Arch!None,
                                           !.answer = Arch!None]
    BY <1>3 DEF Arch!architectConsult
  <2>2. DOMAIN thread' = DOMAIN thread /\ thread'.sent = thread.sent
    BY <1>0, <2>1
  <2>3. at = "consult" /\ at' = "gate" /\ bus' = bus
    BY <1>3 DEF Arch!architectConsult
  <2> QED
    BY <2>2, <2>3, NodeKeeps
<1>4. CASE Arch!consultGate
  <2>1. thread' = thread \/ \E h : thread' = [thread EXCEPT !.human = h]
    BY <1>4 DEF Arch!consultGate
  <2>2. DOMAIN thread' = DOMAIN thread /\ thread'.sent = thread.sent
    BY <1>0, <2>1
  <2>3. at = "gate" /\ at' \in {"plan", "ended"} /\ bus' = bus
    BY <1>4 DEF Arch!consultGate
  <2> QED
    BY <2>2, <2>3, NodeKeeps
<1>5. CASE Arch!confirmGate
  <2>1. \/ \E y : thread' = [thread EXCEPT !.yes = y, !.human = Arch!None, !.answer = Arch!None]
        \/ \E h : thread' = [thread EXCEPT !.human = h]
    BY <1>5 DEF Arch!confirmGate
  <2>2. DOMAIN thread' = DOMAIN thread /\ thread'.sent = thread.sent
    BY <1>0, <2>1
  <2>3. at = "confirm" /\ at' \in {"base", "ended"} /\ bus' = bus
    BY <1>5 DEF Arch!confirmGate
  <2> QED
    BY <2>2, <2>3, NodeKeeps
<1>6. CASE Arch!bootstrap
  <2>1. thread' = thread \/ thread' = [thread EXCEPT !.boot = TRUE]
    BY <1>6 DEF Arch!bootstrap
  <2>2. DOMAIN thread' = DOMAIN thread /\ thread'.sent = thread.sent
    BY <1>0, <2>1
  <2>3. at = "bootstrap" /\ at' = "dispatch" /\ bus' = bus
    BY <1>6 DEF Arch!bootstrap
  <2> QED
    BY <2>2, <2>3, NodeKeeps
<1>7. CASE Arch!declare
  <2>1. at = "dispatch" /\ bus' = [bus EXCEPT !.declared = TRUE] /\ UNCHANGED <<at, thread>>
    BY <1>7 DEF Arch!declare
  <2> QED
    BY <2>1 DEF ArchInv
<1>8. CASE Arch!decompose
  <2>1. at = "dispatch" /\ UNCHANGED <<at, thread, bus>>
    BY <1>8 DEF Arch!decompose, Arch!Missing
  <2> QED
    BY <2>1 DEF ArchInv
<1>9. CASE Arch!sendOnce
  <2>1. /\ at = "dispatch" /\ UNCHANGED <<at, bus>>
        /\ thread' = [thread EXCEPT !.item = @ + 1]
    BY <1>9 DEF Arch!sendOnce
  <2>2. DOMAIN thread' = DOMAIN thread
    BY <2>1
  <2> QED
    BY <2>1, <2>2 DEF ArchInv
<1>10. CASE Arch!abortBatch
  <2>1. /\ at = "dispatch" /\ at' = "thrown" /\ thread' = thread
        /\ \E c : bus' = [bus EXCEPT !.cancelled = c]
    BY <1>10 DEF Arch!abortBatch, Arch!Missing
  <2>2. DOMAIN bus' = DOMAIN bus /\ bus'.declared = bus.declared /\ bus'.empty = bus.empty
    BY <2>1 DEF ArchInv
  <2> QED
    BY <2>1, <2>2 DEF ArchInv
<1>11. CASE Arch!dispatched
  <2>1. /\ at = "dispatch" /\ at' = "ended" /\ bus' = bus
        /\ thread' = [thread EXCEPT !.sent = TRUE]
    BY <1>11 DEF Arch!dispatched
  <2>2. DOMAIN thread' = DOMAIN thread /\ thread'.sent
    BY <1>0, <2>1
  <2> QED
    BY <2>1, <2>2 DEF ArchInv
<1>12. CASE Arch!Ask
  <2>1. \/ \E a, l : thread' = [thread EXCEPT !.answer = a, !.turns = @ + 1, !.leave = l]
        \/ \E a : thread' = [thread EXCEPT !.answer = a, !.turns = @ + 1]
    BY <1>12, Zenon DEF Arch!Ask
  <2>2. DOMAIN thread' = DOMAIN thread /\ thread'.sent = thread.sent
    BY <1>0, <2>1
  <2>3. at = "ended" /\ at' = "consult" /\ bus' = bus
    BY <1>12 DEF Arch!Ask
  <2> QED
    BY <2>2, <2>3, NodeKeeps
<1>13. CASE Arch!Close
  <2>1. /\ at = "ended" /\ at' = "settled" /\ thread' = thread
        /\ bus' = [bus EXCEPT !.empty = ~thread.sent]
    BY <1>13 DEF Arch!Close, Arch!Empty
  <2>2. DOMAIN bus' = DOMAIN bus /\ bus'.declared = bus.declared /\ bus'.empty = ~thread.sent
    BY <2>1 DEF ArchInv
  <2> QED
    BY <2>1, <2>2 DEF ArchInv
<1>14. CASE Arch!NextPhase \/ Arch!Kill
  <2>1. at' = "split" /\ bus' = Arch!Silent /\ thread' = thread
    BY <1>14 DEF Arch!NextPhase, Arch!Kill
  <2> QED
    BY <2>1 DEF Arch!Silent, ArchInv
<1>15. CASE Arch!Over \/ UNCHANGED ArchVars
  BY <1>15 DEF Arch!Over, Arch!vars, ArchVars, ArchInv
<1> QED
  BY <1>1, <1>2, <1>3, <1>4, <1>5, <1>6, <1>7, <1>8, <1>9, <1>10, <1>11, <1>12, <1>13,
     <1>14, <1>15 DEF Arch!Next

\* For any phases, questions, answers and kills: the maintainer is never told both to wait for a
\* task and that there is none (declareTask, declareEmpty).
THEOREM DeclaredOnce == Spec => []OneDeclaration
<1> DEFINE Inv == part = "split" => ArchInv
<1>1. Init => Inv
  <2>1. Arch!Init => ArchInv
    BY DEF Arch!Init, ArchInv, Arch!Fresh, Arch!Silent
  <2> QED
    BY <2>1, Beginnings
<1>2. Inv /\ [Next]_all => Inv'
  BY Steps, ArchKeeps
<1>3. Inv => OneDeclaration
  BY DEF ArchInv, OneDeclaration, Arch!OneDeclaration
<1> QED
  BY <1>1, <1>2, <1>3, PTL DEF Spec, all

\* The pieces on disk have ids of their own, and those the split has been through are on disk.
PiecesInv ==
    /\ disk.files \in Seq(Arch!Checks)
    /\ {"files", "boot", "half", "keys"} \subseteq DOMAIN disk
    /\ "item" \in DOMAIN thread
    /\ at # "split" => thread.item \in 0..Len(disk.files)
    /\ Arch!PiecesDoNotCollide

\* A step that leaves the pieces as they are.
LEMMA PiecesStay ==
    ASSUME PiecesInv, disk'.files = disk.files,
           {"files", "boot", "half", "keys"} \subseteq DOMAIN disk', "item" \in DOMAIN thread',
           at' # "split" => thread'.item \in 0..Len(disk.files)
    PROVE  PiecesInv'
BY DEF PiecesInv, Arch!PiecesDoNotCollide

LEMMA PiecesKeep ==
    ASSUME PiecesInv, [Arch!Next]_ArchVars
    PROVE  PiecesInv'
<1>0. /\ Len(disk.files) \in Nat /\ DOMAIN disk.files = 1..Len(disk.files)
      /\ {"files", "boot", "half", "keys"} \subseteq DOMAIN disk /\ "item" \in DOMAIN thread
      /\ at # "split" => thread.item \in 0..Len(disk.files)
  BY LenProperties DEF PiecesInv
<1>1. ASSUME disk' = disk, thread' = thread, at # "split" PROVE PiecesInv'
  BY <1>0, <1>1, PiecesStay
<1>2. CASE Arch!decompose
  <2>1. PICK c \in Arch!Checks :
           Arch!Accepted(c) /\ disk' = [disk EXCEPT !.files = Append(@, c)]
    BY <1>2 DEF Arch!decompose
  <2>2. at = "dispatch" /\ at' = at /\ thread' = thread /\ thread.item = Len(disk.files)
    BY <1>2 DEF Arch!decompose, Arch!Missing
  <2> DEFINE n == Len(disk.files)
  <2>3. /\ disk'.files = Append(disk.files, c)
        /\ {"files", "boot", "half", "keys"} \subseteq DOMAIN disk'
    BY <1>0, <2>1
  <2>4. /\ disk'.files \in Seq(Arch!Checks) /\ DOMAIN disk'.files = 1..(n + 1)
        /\ Len(disk'.files) = n + 1
        /\ \A i \in 1..n : disk'.files[i] = disk.files[i]
        /\ disk'.files[n + 1] = c
    BY <1>0, <2>1, <2>3, AppendProperties, LenProperties DEF PiecesInv
  <2>5. \A i \in 1..n : Arch!Range(disk.files[i]) \cap Arch!Range(c) = {}
    <3>1. Arch!Range(c) \cap UNION {Arch!Range(disk.files[k]) : k \in 1..n} = {}
      BY <2>1, <2>2 DEF Arch!Accepted, Arch!Delivered
    <3> QED
      BY <3>1
  <2>6. Arch!PiecesDoNotCollide'
    <3> SUFFICES ASSUME NEW j \in 1..(n + 1), NEW k \in 1..(n + 1), j # k
                 PROVE  Arch!Range(disk'.files[j]) \cap Arch!Range(disk'.files[k]) = {}
      BY <2>4 DEF Arch!PiecesDoNotCollide
    <3>1. CASE j \in 1..n /\ k \in 1..n
      BY <1>0, <2>4, <3>1 DEF PiecesInv, Arch!PiecesDoNotCollide
    <3>2. CASE j = n + 1 /\ k \in 1..n
      BY <2>4, <2>5, <3>2
    <3>3. CASE j \in 1..n /\ k = n + 1
      BY <2>4, <2>5, <3>3
    <3> QED
      BY <1>0, <3>1, <3>2, <3>3
  <2>7. thread'.item \in 0..Len(disk'.files)
    BY <1>0, <2>2, <2>4
  <2> QED
    BY <1>0, <2>2, <2>3, <2>4, <2>6, <2>7 DEF PiecesInv
<1>3. CASE Arch!sendOnce
  <2>1. /\ thread.item < Len(disk.files) /\ at = "dispatch" /\ at' = at
        /\ thread' = [thread EXCEPT !.item = @ + 1]
        /\ disk' = disk \/ disk' = [disk EXCEPT !.keys = thread.item + 1]
    BY <1>3 DEF Arch!sendOnce, Arch!markDispatched
  <2>2. /\ disk'.files = disk.files /\ {"files", "boot", "half", "keys"} \subseteq DOMAIN disk'
        /\ thread'.item = thread.item + 1 /\ "item" \in DOMAIN thread'
    BY <1>0, <2>1
  <2> QED
    BY <1>0, <2>1, <2>2, PiecesStay
<1>4. CASE Arch!runPhaseSplit
  <2>1. disk' = disk /\ thread'.item = 0 /\ "item" \in DOMAIN thread'
    BY <1>4 DEF Arch!runPhaseSplit, Arch!Fresh
  <2> QED
    BY <1>0, <2>1, PiecesStay
<1>5. CASE Arch!NextPhase
  <2>1. /\ disk'.files = <<>> /\ {"files", "boot", "half", "keys"} \subseteq DOMAIN disk'
        /\ at' = "split" /\ thread' = thread
    BY <1>5 DEF Arch!NextPhase, Arch!Bare
  <2>2. <<>> \in Seq(Arch!Checks) /\ DOMAIN <<>> = {}
    OBVIOUS
  <2> QED
    BY <1>0, <2>1, <2>2 DEF PiecesInv, Arch!PiecesDoNotCollide
<1>6. CASE Arch!Kill
  <2>1. PICK torn \in BOOLEAN : disk' = [disk EXCEPT !.half = @ \/ torn]
    BY <1>6 DEF Arch!Kill
  <2>2. /\ disk'.files = disk.files /\ {"files", "boot", "half", "keys"} \subseteq DOMAIN disk'
        /\ thread' = thread /\ at' = "split"
    BY <1>0, <1>6, <2>1 DEF Arch!Kill
  <2> QED
    BY <1>0, <2>2, PiecesStay
<1>7. CASE Arch!bootstrap
  <2>1. at = "bootstrap"
    BY <1>7 DEF Arch!bootstrap
  <2>2. CASE UNCHANGED <<thread, disk>>
    BY <1>1, <2>1, <2>2
  <2>3. ASSUME NEW marked \in BOOLEAN, thread' = [thread EXCEPT !.boot = TRUE],
               disk' = [disk EXCEPT !.boot = @ \/ marked]
        PROVE  PiecesInv'
    <3>1. /\ disk'.files = disk.files /\ {"files", "boot", "half", "keys"} \subseteq DOMAIN disk'
          /\ thread'.item = thread.item /\ "item" \in DOMAIN thread'
      BY <1>0, <2>3
    <3> QED
      BY <1>0, <2>1, <3>1, PiecesStay
  <2> QED
    BY <1>7, <2>2, <2>3 DEF Arch!bootstrap
<1>8. ASSUME disk' = disk, at # "split", thread'.item = thread.item, "item" \in DOMAIN thread'
      PROVE  PiecesInv'
  BY <1>0, <1>8, PiecesStay
<1>9. CASE Arch!architectConsult
  <2>1. disk' = disk /\ at # "split" /\ thread'.item = thread.item /\ "item" \in DOMAIN thread'
    BY <1>0, <1>9 DEF Arch!architectConsult
  <2> QED
    BY <1>8, <2>1
<1>10. CASE Arch!consultGate
  <2>1. disk' = disk /\ at # "split" /\ thread'.item = thread.item /\ "item" \in DOMAIN thread'
    BY <1>0, <1>10 DEF Arch!consultGate
  <2> QED
    BY <1>8, <2>1
<1>11. CASE Arch!confirmGate
  <2>1. disk' = disk /\ at # "split" /\ thread'.item = thread.item /\ "item" \in DOMAIN thread'
    BY <1>0, <1>11 DEF Arch!confirmGate
  <2> QED
    BY <1>8, <2>1
<1>12. CASE Arch!dispatched
  <2>1. disk' = disk /\ at # "split" /\ thread'.item = thread.item /\ "item" \in DOMAIN thread'
    BY <1>0, <1>12 DEF Arch!dispatched
  <2> QED
    BY <1>8, <2>1
<1>13. CASE Arch!Ask
  <2>1. disk' = disk /\ at # "split" /\ thread'.item = thread.item /\ "item" \in DOMAIN thread'
    BY <1>0, <1>13 DEF Arch!Ask
  <2> QED
    BY <1>8, <2>1
<1>14. CASE Arch!Fails \/ Arch!Thinks \/ Arch!declare \/ Arch!abortBatch \/ Arch!Close
  BY <1>1, <1>14 DEF Arch!Fails, Arch!Thinks, Arch!declare, Arch!abortBatch, Arch!Missing,
     Arch!Close
<1>15. CASE Arch!Over \/ UNCHANGED ArchVars
  BY <1>0, <1>15, PiecesStay DEF Arch!Over, Arch!vars, ArchVars
<1> QED
  BY <1>2, <1>3, <1>4, <1>5, <1>6, <1>7, <1>9, <1>10, <1>11, <1>12, <1>13, <1>14, <1>15
     DEF Arch!Next

\* For any blueprint, modes and answers, and however often the process dies over a piece: no two
\* pieces of a phase bear one check id (the gate on ids of architectAgent.ts).
THEOREM PiecesKeepApart == Spec => []PiecesDoNotCollide
<1> DEFINE Inv == part = "split" => PiecesInv
<1>1. Init => Inv
  <2>1. <<>> \in Seq(Arch!Checks) /\ DOMAIN <<>> = {}
    OBVIOUS
  <2>2. Arch!Init => PiecesInv
    <3> SUFFICES ASSUME Arch!Init PROVE PiecesInv
      OBVIOUS
    <3>1. /\ disk.files = <<>> /\ {"files", "boot", "half", "keys"} \subseteq DOMAIN disk
          /\ at = "split" /\ "item" \in DOMAIN thread
      BY DEF Arch!Init, Arch!Bare, Arch!Fresh
    <3> QED
      BY <2>1, <3>1 DEF PiecesInv, Arch!PiecesDoNotCollide
  <2> QED
    BY <2>2, Beginnings
<1>2. Inv /\ [Next]_all => Inv'
  BY Steps, PiecesKeep
<1>3. Inv => PiecesDoNotCollide
  BY DEF PiecesInv, PiecesDoNotCollide
<1> QED
  BY <1>1, <1>2, <1>3, PTL DEF Spec, all

-----------------------------------------------------------------------------
\* Final gate and command runner

\* What a command has written and left is newer than what there was when it began, whoever
\* else writes.
BoxInv ==
    /\ kept \in [mark : Nat, last : Nat] /\ kept.mark <= kept.last
    /\ command # Box!None =>
          /\ {"at", "before", "watched", "writes", "cause", "late", "wrote", "hid", "removed"}
                \subseteq DOMAIN command
          /\ command.before \in Nat /\ command.before <= kept.last
          /\ command.cause \in {"none", "violation", "timeout"}
          /\ command.cause = "timeout" => command.late
          /\ command.wrote => kept.mark > command.before
    /\ Box!GreenIsClean

\* No step of a command, of a watch, of a timer or of anybody else makes a green one unclean.
LEMMA BoxKeeps ==
    ASSUME BoxInv, [Box!Next]_BoxVars
    PROVE  BoxInv'
<1>1. CASE Box!refuse
  BY <1>1 DEF Box!refuse, Box!Refused, BoxInv, Box!GreenIsClean
<1>2. CASE Box!run
  BY <1>2 DEF Box!run, Box!protectedSnapshot, BoxInv, Box!GreenIsClean
<1>3. CASE \/ Box!start \/ Box!stop \/ Box!rows \/ (\E place \in Box!Places : Box!writeAtomic(place))
           \/ UNCHANGED BoxVars
  <2>1. UNCHANGED <<kept, command, ended>>
    BY <1>3 DEF Box!start, Box!stop, Box!rows, Box!writeAtomic, BoxVars
  <2> QED
    BY <2>1 DEF BoxInv, Box!GreenIsClean
<1>4. CASE Box!watch
  BY <1>4 DEF Box!watch, BoxInv, Box!GreenIsClean, Box!None
<1>5. CASE Box!timeout
  BY <1>5 DEF Box!timeout, BoxInv, Box!GreenIsClean, Box!None
<1>6. CASE Box!awaitExit
  <2>1. /\ command # Box!None /\ command' = Box!None /\ kept' = kept
        /\ \E exit \in {0, 1} : ended' = Box!Verdict(command, exit)
    BY <1>6 DEF Box!awaitExit, Box!None
  <2>2. ASSUME ended'.ok PROVE ~command.wrote /\ command.cause = "none"
    <3>0. PICK exit \in {0, 1} : ended' = Box!Verdict(command, exit)
      BY <2>1
    <3> DEFINE good == /\ ~command.late /\ command.cause # "violation"
                       /\ exit = 0 /\ ~Box!Violations(command)
    <3>20. ended'.ok = good
      BY <3>0 DEF Box!Verdict
    <3>1. ~command.late /\ command.cause # "violation" /\ ~Box!Violations(command)
      BY <2>2, <3>20, Zenon
    <3>2. ~(kept.mark # 0 /\ kept.mark # command.before)
      BY <3>1 DEF Box!Violations, Box!diffSnapshots, Box!protectedSnapshot
    <3> QED
      BY <2>1, <3>1, <3>2 DEF BoxInv
  <2>3. ended'.wrote = command.wrote /\ ended'.killed = command.cause
    BY <2>1 DEF Box!Verdict
  <2> QED
    BY <2>1, <2>2, <2>3 DEF BoxInv, Box!GreenIsClean
<1>7. ASSUME NEW byCommand \in BOOLEAN, Box!touch(byCommand) PROVE BoxInv'
  <2>0. UNCHANGED ended /\ (byCommand => command # Box!None)
    BY <1>7 DEF Box!touch, Box!None
  <2>1. CASE kept' = [mark |-> kept.last + 1, last |-> kept.last + 1]
    <3>1. command' = IF byCommand THEN [command EXCEPT !.wrote = TRUE] ELSE command
      BY <1>7, <2>1 DEF Box!touch, BoxInv
    <3> QED
      BY <2>0, <2>1, <3>1 DEF BoxInv, Box!GreenIsClean
  <2>2. CASE /\ kept' = [kept EXCEPT !.mark = 0]
             /\ command' = IF command = Box!None THEN Box!None
                           ELSE [command EXCEPT !.removed = @ \/ byCommand, !.wrote = FALSE]
    BY <2>0, <2>2 DEF BoxInv, Box!GreenIsClean
  <2> QED
    BY <1>7, <2>1, <2>2 DEF Box!touch
<1>8. CASE Box!conceal
  <2>0. UNCHANGED ended /\ command # Box!None
    BY <1>8 DEF Box!conceal, Box!None
  <2>1. CASE UNCHANGED kept /\ command' = [command EXCEPT !.hid = TRUE]
    BY <2>0, <2>1 DEF BoxInv, Box!GreenIsClean
  <2>2. CASE /\ kept' = [kept EXCEPT !.mark = command.before]
             /\ command' = [command EXCEPT !.hid = TRUE, !.wrote = FALSE]
    BY <2>0, <2>2 DEF BoxInv, Box!GreenIsClean
  <2> QED
    BY <1>8, <2>1, <2>2 DEF Box!conceal
<1> QED
  BY <1>1, <1>2, <1>3, <1>4, <1>5, <1>6, <1>7, <1>8 DEF Box!Next, Box!vars, BoxVars

\* For any number of commands, writes and processes beside them: a command that is called green
\* has not left a write of what is guarded where the walk comes and a new time with it, and was
\* not killed (run, its last look).
THEOREM GreenCommands == Spec => []GreenIsClean
<1> DEFINE Inv == part = "sandbox" => BoxInv
<1>1. Init => Inv
  <2>1. Box!Init => BoxInv
    BY DEF Box!Init, BoxInv, Box!NotYet, Box!GreenIsClean
  <2> QED
    BY <2>1, Beginnings
<1>2. Inv /\ [Next]_all => Inv'
  BY Steps, BoxKeeps
<1>3. Inv => GreenIsClean
  BY DEF BoxInv, GreenIsClean
<1> QED
  BY <1>1, <1>2, <1>3, PTL DEF Spec, all

-----------------------------------------------------------------------------
\* Assistants: missions that repeat themselves

\* What any assistant may find missing.
Lacking ==
    {"project file", "router", "contract", "routes", "ddl applied", "endpoints", "conflicts",
     "entry", "named line", "filled page", "mount"}

\* What an assistant has looked at is there as it was when the sources were hashed, as long as
\* the hash is the same and has stood for nothing else.
Missions == [status : {"none"}]
        \cup [status : {"running", "done", "failed", "timeout"}, role : Asst!Roles,
              snap : Nat, gaps : SUBSET Lacking]

Now(snap) == snap = tree.hash /\ tree.hash \notin tree.blurred

TreeInv ==
    /\ tree \in [has : SUBSET Facts, hash : Nat, last : Nat, blurred : SUBSET Nat]
    /\ tree.hash <= tree.last

AsstInv ==
    /\ TreeInv
    /\ row \in [Failures -> Missions]
    /\ \A f \in Failures : row[f].status # "none" => row[f].snap <= tree.last
    /\ \A w \in at_work :
          /\ w \in [f : Failures, role : Asst!Roles, left : SUBSET Facts, has : SUBSET Facts]
          /\ row[w.f].status # "none" /\ row[w.f].role = w.role
          /\ Now(row[w.f].snap) => w.has = tree.has \ w.left
    /\ \A f \in Failures : row[f].status = "done" /\ Now(row[f].snap) =>
          row[f].gaps = Asst!buildContextBrief(row[f].role, tree.has)
    /\ Asst!RepeatedIsCurrent

\* The result of an assistant is a set of words.
LEMMA FoundTyped ==
    ASSUME NEW role \in Asst!Roles, NEW has
    PROVE  Asst!buildContextBrief(role, has) \subseteq Lacking
<1>1. role \in {"explorer", "debugger", "ui-reviewer", "architect-advisor", "acceptance-advisor"}
  BY DEF Asst!Roles, Asst!READONLY_SUBAGENT_ROLES
<1> QED
  BY <1>1 DEF Asst!buildContextBrief, Asst!briefExplorer, Asst!briefDebugger, Lacking,
     Asst!briefUiReviewer, Asst!briefArchitectAdvisor, Asst!briefAcceptanceAdvisor

\* A question is claimed for the sources as they are, or answered by what was said of them.
LEMMA InvokeKeeps ==
    ASSUME AsstInv, NEW f \in Failures, NEW role \in Asst!Roles, Asst!invoke(f, role)
    PROVE  AsstInv'
<1> DEFINE r == row[f]
<1>0. UNCHANGED tree /\ r \in Missions
  BY DEF Asst!invoke, AsstInv
<1>1. CASE r.status = "none"
  <2> DEFINE w == [f |-> f, role |-> role, left |-> Facts, has |-> {}]
             new == [status |-> "running", role |-> role, snap |-> tree.hash, gaps |-> {}]
  <2>1. row' = [row EXCEPT ![f] = new] /\ at_work' = at_work \cup {w} /\ UNCHANGED said
    BY <1>1 DEF Asst!invoke, Asst!mayClaim, Asst!claimSubagentCall, Asst!sourceSnapshot
  <2>2. new \in Missions
    BY DEF AsstInv, TreeInv, Missions
  <2>3. row' \in [Failures -> Missions] /\ row'[f] = new /\ \A g \in Failures : g # f => row'[g] = row[g]
    BY <2>1, <2>2 DEF AsstInv
  <2>4. \A v \in at_work : v.f # f
    BY <1>1 DEF AsstInv
  <2>5. w.has = tree.has \ w.left
    BY DEF AsstInv, TreeInv
  <2>6. \A v \in at_work' :
          /\ v \in [f : Failures, role : Asst!Roles, left : SUBSET Facts, has : SUBSET Facts]
          /\ row'[v.f].status # "none" /\ row'[v.f].role = v.role
          /\ Now(row'[v.f].snap) => v.has = tree.has \ v.left
    <3>1. w \in [f : Failures, role : Asst!Roles, left : SUBSET Facts, has : SUBSET Facts]
      OBVIOUS
    <3>2. row'[w.f].status # "none" /\ row'[w.f].role = w.role
      BY <2>3
    <3> HIDE DEF w, new
    <3>3. \A v \in at_work : row'[v.f] = row[v.f]
      BY <2>3, <2>4 DEF AsstInv
    <3> QED
      BY <2>1, <2>5, <3>1, <3>2, <3>3 DEF AsstInv
  <2>7. \A g \in Failures : row'[g].status # "none" => row'[g].snap <= tree.last
    <3>1. tree.hash <= tree.last /\ new.snap = tree.hash
      BY DEF AsstInv, TreeInv
    <3> QED
      BY <2>3, <3>1 DEF AsstInv
  <2>8. \A g \in Failures : row'[g].status = "done" /\ Now(row'[g].snap) =>
          row'[g].gaps = Asst!buildContextBrief(row'[g].role, tree.has)
    BY <2>3 DEF AsstInv
  <2> QED
    BY <1>0, <2>1, <2>3, <2>6, <2>7, <2>8 DEF AsstInv, TreeInv, Now, Asst!RepeatedIsCurrent
<1>2. CASE r.status # "none"
  <2>1. /\ r.status = "done" /\ r.snap = tree.hash /\ UNCHANGED <<row, at_work>>
        /\ said' = {[role |-> role, of |-> r.role, gaps |-> r.gaps, again |-> TRUE,
                     blurred |-> tree.hash \in tree.blurred, has |-> tree.has]}
    BY <1>2 DEF Asst!invoke, Asst!mayClaim, Asst!Say, Asst!sourceSnapshot
  <2>2. tree.hash \in tree.blurred \/ r.gaps = Asst!buildContextBrief(r.role, tree.has)
    BY <2>1 DEF AsstInv, Now
  <2>3. \A s \in said' : /\ s.blurred = (tree.hash \in tree.blurred)
                         /\ s.gaps = r.gaps /\ s.of = r.role /\ s.has = tree.has
    BY <2>1
  <2>4. Asst!RepeatedIsCurrent'
    BY <2>2, <2>3, Zenon DEF Asst!RepeatedIsCurrent, Asst!buildContextBrief, Asst!briefExplorer,
       Asst!briefDebugger, Asst!briefUiReviewer, Asst!briefArchitectAdvisor, Asst!briefAcceptanceAdvisor
  <2> QED
    BY <1>0, <2>1, <2>4 DEF AsstInv, TreeInv, Now
<1> QED
  BY <1>1, <1>2

\* One look more.
LEMMA LookKeeps ==
    ASSUME AsstInv, NEW w \in at_work, Asst!looks(w)
    PROVE  AsstInv'
<1>1. PICK x \in w.left :
          at_work' = (at_work \ {w}) \cup
                        {[w EXCEPT !.left = @ \ {x}, !.has = @ \cup ({x} \cap tree.has)]}
  BY DEF Asst!looks
<1>2. UNCHANGED <<tree, row, said>>
  BY DEF Asst!looks
<1> DEFINE v == [w EXCEPT !.left = @ \ {x}, !.has = @ \cup ({x} \cap tree.has)]
<1>3. w \in [f : Failures, role : Asst!Roles, left : SUBSET Facts, has : SUBSET Facts]
  BY DEF AsstInv
<1>4. /\ v.f = w.f /\ v.role = w.role /\ v.left = w.left \ {x}
      /\ v.has = w.has \cup ({x} \cap tree.has)
      /\ v \in [f : Failures, role : Asst!Roles, left : SUBSET Facts, has : SUBSET Facts]
  BY <1>1, <1>3 DEF AsstInv
<1> HIDE DEF v
<1>5. Now(row[w.f].snap) => v.has = tree.has \ v.left
  <2>1. Now(row[w.f].snap) => w.has = tree.has \ w.left
    BY DEF AsstInv
  <2> QED
    BY <1>1, <1>4, <2>1
<1>6. at_work' = (at_work \ {w}) \cup {v}
  BY <1>1 DEF v
<1> QED
  BY <1>2, <1>4, <1>5, <1>6 DEF AsstInv, TreeInv, Now, Asst!RepeatedIsCurrent

\* What is said in the end is entered with the hash of the beginning.
LEMMA AnswersKeep ==
    ASSUME AsstInv, NEW w \in at_work, Asst!answers(w) \/ Asst!runWithTimeout(w)
    PROVE  AsstInv'
<1> DEFINE f == w.f
           gaps == Asst!buildContextBrief(w.role, w.has)
<1>0. w.f \in Failures /\ w.role \in Asst!Roles /\ row \in [Failures -> Missions] /\ row[w.f] \in Missions
  BY DEF AsstInv
<1>1. UNCHANGED tree /\ at_work' = at_work \ {w}
  BY DEF Asst!answers, Asst!runWithTimeout
<1>2. PICK status, g :
          /\ row' = [row EXCEPT ![f].status = status, ![f].gaps = g]
          /\ \/ status \in {"failed", "timeout"} /\ g = {}
             \/ status = "done" /\ g = gaps /\ w.left = {}
  <2>1. CASE Asst!answers(w)
    <3>1. PICK r \in {[fits |-> TRUE, gaps |-> gaps], [fits |-> FALSE, gaps |-> {}]} :
              IF r.fits THEN Asst!settleSubagentCall(f, "done", r.gaps)
                        ELSE Asst!settleSubagentCall(f, "failed", {})
      BY <2>1 DEF Asst!answers, Asst!finalizeReadonlySubAgentResult
    <3>2. w.left = {} /\ (Asst!settleSubagentCall(f, "done", gaps) \/ Asst!settleSubagentCall(f, "failed", {}))
      BY <2>1, <3>1 DEF Asst!answers
    <3> QED
      BY <3>2 DEF Asst!settleSubagentCall
  <2>2. CASE Asst!runWithTimeout(w)
    BY <2>2 DEF Asst!runWithTimeout, Asst!settleSubagentCall
  <2> QED
    BY <2>1, <2>2
<1>3. Asst!RepeatedIsCurrent'
  <2>1. said' = said \/ \A s \in said' : ~s.again
    BY DEF Asst!answers, Asst!runWithTimeout, Asst!Say
  <2> QED
    BY <2>1 DEF AsstInv, Asst!RepeatedIsCurrent
<1>4. gaps \subseteq Lacking
  BY <1>0, FoundTyped
<1>5. row[f].status # "none" /\ row[f].role = w.role
  BY DEF AsstInv
<1> DEFINE new == [row[f] EXCEPT !.status = status, !.gaps = g]
<1>6. row' = [row EXCEPT ![f] = new]
  BY <1>0, <1>2
<1>7. /\ new \in Missions /\ new.status = status /\ new.gaps = g
      /\ new.role = row[f].role /\ new.snap = row[f].snap
  BY <1>0, <1>2, <1>4, <1>5 DEF Missions
<1> HIDE DEF new
<1>8. /\ row' \in [Failures -> Missions] /\ row'[f] = new
      /\ \A h \in Failures : h # f => row'[h] = row[h]
  BY <1>0, <1>6, <1>7
<1>9. status = "done" /\ Now(row[f].snap) => gaps = Asst!buildContextBrief(w.role, tree.has)
  <2> SUFFICES ASSUME status = "done", Now(row[f].snap)
               PROVE  gaps = Asst!buildContextBrief(w.role, tree.has)
    OBVIOUS
  <2>1. w.left = {}
    BY <1>2
  <2>2. w.has = tree.has
    BY <2>1 DEF AsstInv, TreeInv
  <2> QED
    BY <2>2
<1>10. \A h \in Failures : row'[h].status = "done" /\ Now(row'[h].snap) =>
          row'[h].gaps = Asst!buildContextBrief(row'[h].role, tree.has)
  <2> SUFFICES ASSUME NEW h \in Failures, row'[h].status = "done", Now(row'[h].snap)
               PROVE  row'[h].gaps = Asst!buildContextBrief(row'[h].role, tree.has)
    OBVIOUS
  <2>1. CASE h = f
    BY <1>2, <1>5, <1>7, <1>8, <1>9, <2>1
  <2>2. CASE h # f
    BY <1>8, <2>2 DEF AsstInv
  <2> QED
    BY <2>1, <2>2
<1>11. \A h \in Failures : /\ row'[h].status # "none" => row'[h].snap <= tree.last
                           /\ row[h].status # "none" => row'[h].status # "none"
                           /\ row[h].status # "none" => row'[h].role = row[h].role /\ row'[h].snap = row[h].snap
  BY <1>2, <1>5, <1>7, <1>8 DEF AsstInv
<1>12. \A v \in at_work' :
          /\ v \in [f : Failures, role : Asst!Roles, left : SUBSET Facts, has : SUBSET Facts]
          /\ row'[v.f].status # "none" /\ row'[v.f].role = v.role
          /\ Now(row'[v.f].snap) => v.has = tree.has \ v.left
  BY <1>1, <1>11 DEF AsstInv
<1> HIDE DEF f, gaps
<1> QED
  BY <1>1, <1>3, <1>8, <1>10, <1>11, <1>12 DEF AsstInv, TreeInv, Now

\* The sources have a hash that no row has, or one that from now on tells nothing.
LEMMA WritesKeep ==
    ASSUME AsstInv, Asst!edits \/ Asst!editsUnseen
    PROVE  AsstInv'
<1>0. UNCHANGED <<row, at_work, said>>
  BY DEF Asst!edits, Asst!editsUnseen
<1>1. TreeInv' /\ tree'.last >= tree.last
  <2>1. CASE Asst!edits
    <3>1. PICK x \in Facts, gone \in BOOLEAN :
              tree' = [tree EXCEPT !.has = Asst!Changed(x, gone), !.hash = tree.last + 1, !.last = @ + 1]
      BY <2>1 DEF Asst!edits
    <3>2. Asst!Changed(x, gone) \subseteq Facts
      BY DEF Asst!Changed, AsstInv, TreeInv
    <3>3. /\ tree' \in [has : SUBSET Facts, hash : Nat, last : Nat, blurred : SUBSET Nat]
          /\ tree'.hash = tree.last + 1 /\ tree'.last = tree.last + 1
      <4>1. tree.last \in Nat /\ tree.last + 1 \in Nat
        BY DEF AsstInv, TreeInv
      <4> QED
        BY <3>1, <3>2, <4>1 DEF AsstInv, TreeInv
    <3>4. tree.last \in Nat /\ tree.last + 1 >= tree.last /\ tree.last + 1 <= tree.last + 1
      BY DEF AsstInv, TreeInv
    <3> QED
      BY <3>3, <3>4 DEF TreeInv
  <2>2. CASE Asst!editsUnseen
    <3>1. PICK x \in Facts, gone \in BOOLEAN, hash \in 0..tree.last :
              tree' = [tree EXCEPT !.has = Asst!Changed(x, gone), !.hash = hash,
                                   !.blurred = @ \cup {hash}]
      BY <2>2 DEF Asst!editsUnseen
    <3>2. Asst!Changed(x, gone) \subseteq Facts
      BY DEF Asst!Changed, AsstInv, TreeInv
    <3>3. /\ tree' \in [has : SUBSET Facts, hash : Nat, last : Nat, blurred : SUBSET Nat]
          /\ tree'.hash = hash /\ tree'.last = tree.last
      <4>1. hash \in Nat
        BY DEF AsstInv, TreeInv
      <4> QED
        BY <3>1, <3>2, <4>1 DEF AsstInv, TreeInv
    <3>4. tree.last \in Nat /\ hash <= tree.last /\ tree.last <= tree.last
      BY DEF AsstInv, TreeInv
    <3> QED
      BY <3>3, <3>4 DEF TreeInv
  <2> QED
    BY <2>1, <2>2
<1>2. \A f \in Failures : row[f].status # "none" => ~Now(row[f].snap)'
  <2>1. CASE Asst!edits
    <3>1. tree'.hash = tree.last + 1
      BY <2>1 DEF Asst!edits, AsstInv, TreeInv
    <3>2. \A f \in Failures : row[f].status # "none" => row[f].snap \in Nat /\ row[f].snap <= tree.last
      BY DEF AsstInv, Missions
    <3>3. tree.last \in Nat
      BY DEF AsstInv, TreeInv
    <3> QED
      BY <1>0, <3>1, <3>2, <3>3 DEF Now
  <2>2. CASE Asst!editsUnseen
    <3>1. tree'.hash \in tree'.blurred
      BY <2>2 DEF Asst!editsUnseen, AsstInv, TreeInv
    <3> QED
      BY <3>1 DEF Now
  <2> QED
    BY <2>1, <2>2
<1>3. \A f \in Failures : row[f].status # "none" => row[f].snap <= tree'.last
  <2>1. \A f \in Failures : row[f].status # "none" => row[f].snap \in Nat /\ row[f].snap <= tree.last
    BY DEF AsstInv, Missions
  <2>2. tree.last \in Nat /\ tree'.last \in Nat
    BY <1>1 DEF AsstInv, TreeInv
  <2> QED
    BY <1>1, <2>1, <2>2
<1>4. Asst!RepeatedIsCurrent'
  BY <1>0 DEF AsstInv, Asst!RepeatedIsCurrent
<1> QED
  BY <1>0, <1>1, <1>2, <1>3, <1>4 DEF AsstInv, Now

\* For any failures, helpers, calls, edits and restarts: what is said again is what the same
\* assistant would find now, unless the hash has stood for more than one state of the project
\* (invoke in readonlySubAgent.ts).
THEOREM RepeatedAnswers == Spec => []RepeatedIsCurrent
<1> DEFINE Inv == part = "assistants" => AsstInv
<1>1. Init => Inv
  <2>1. Asst!Init => AsstInv
    BY DEF Asst!Init, AsstInv, TreeInv, Missions, Asst!Unclaimed, Asst!RepeatedIsCurrent
  <2> QED
    BY <2>1, Beginnings
<1>2. Inv /\ [Next]_all => Inv'
  <2>1. ASSUME AsstInv, Asst!crash PROVE AsstInv'
    BY <2>1 DEF Asst!crash, AsstInv, TreeInv, Now, Asst!RepeatedIsCurrent
  <2>2. ASSUME AsstInv, UNCHANGED AsstVars PROVE AsstInv'
    BY <2>2 DEF AsstVars, AsstInv, TreeInv, Now, Asst!RepeatedIsCurrent
  <2>3. ASSUME AsstInv, [Asst!Next]_AsstVars PROVE AsstInv'
    BY <2>1, <2>2, <2>3, InvokeKeeps, LookKeeps, AnswersKeep, WritesKeep
       DEF Asst!Next, Asst!vars, AsstVars
  <2> QED
    BY <2>3, Steps
<1>3. Inv => RepeatedIsCurrent
  BY DEF AsstInv, RepeatedIsCurrent
<1> QED
  BY <1>1, <1>2, <1>3, PTL DEF Spec, all

\* An analysis was begun for a failure if and only if there is a row for it, and of rows there are
\* no more than calls.
ClaimInv ==
    /\ DOMAIN row = Failures /\ begun \in [Failures -> Nat]
    /\ \A f \in Failures : /\ "status" \in DOMAIN row[f]
                           /\ begun[f] = IF row[f].status = "none" THEN 0 ELSE 1
    /\ \A w \in at_work : row[w.f].status # "none" /\ w.f \in Failures
    /\ IsFiniteSet({f \in Failures : row[f].status # "none"})
    /\ Cardinality({f \in Failures : row[f].status # "none"}) <= MaxCalls

\* Both modules count alike.
LEMMA SameNumber == \A S : Asst!Cardinality(S) = Cardinality(S)
BY Zenon DEF Asst!Cardinality, Cardinality

\* A step that makes no row and takes none away.
LEMMA RowsStay ==
    ASSUME ClaimInv, begun' = begun, DOMAIN row' = Failures,
           \A f \in Failures : /\ "status" \in DOMAIN row'[f]
                               /\ row'[f].status # "none" <=> row[f].status # "none",
           \A v \in at_work' : \E w \in at_work : v.f = w.f
    PROVE  ClaimInv'
<1>1. {f \in Failures : row'[f].status # "none"} = {f \in Failures : row[f].status # "none"}
  OBVIOUS
<1>2. \A v \in at_work' : row'[v.f].status # "none" /\ v.f \in Failures
  BY DEF ClaimInv
<1>3. \A f \in Failures : begun[f] = IF row'[f].status = "none" THEN 0 ELSE 1
  BY DEF ClaimInv
<1> QED
  BY <1>1, <1>2, <1>3 DEF ClaimInv

LEMMA ClaimKeeps ==
    ASSUME MaxCalls \in Nat, ClaimInv, [Asst!Next]_AsstVars
    PROVE  ClaimInv'
<1>1. ASSUME NEW f \in Failures, NEW role, Asst!invoke(f, role) PROVE ClaimInv'
  <2> DEFINE claimed == {g \in Failures : row[g].status # "none"}
             after == {g \in Failures : row'[g].status # "none"}
  <2>1. CASE row[f].status = "none"
    <3> DEFINE r == [status |-> "running", role |-> role, snap |-> tree.hash, gaps |-> {}]
               w == [f |-> f, role |-> role, left |-> Facts, has |-> {}]
    <3>1. /\ row' = [row EXCEPT ![f] = r] /\ at_work' = at_work \cup {w}
          /\ begun' = [begun EXCEPT ![f] = @ + 1]
      BY <1>1, <2>1 DEF Asst!invoke, Asst!mayClaim, Asst!claimSubagentCall, Asst!sourceSnapshot
    <3>2. Cardinality(claimed) < MaxCalls
      BY <1>1, SameNumber DEF Asst!invoke, Asst!subagentCallCount
    <3>3. r.status = "running" /\ "status" \in DOMAIN r /\ w.f = f
      OBVIOUS
    <3> HIDE DEF r, w
    <3>4. /\ DOMAIN row' = Failures /\ row'[f] = r
          /\ \A g \in Failures \ {f} : row'[g] = row[g]
      BY <3>1 DEF ClaimInv
    <3>5. \A g \in Failures : g \in after <=> g \in claimed \/ g = f
      BY <3>3, <3>4
    <3>6. after = claimed \cup {f} /\ f \notin claimed
      BY <2>1, <3>5
    <3>7. IsFiniteSet(claimed) /\ Cardinality(claimed) \in Nat
      BY FS_CardinalityType DEF ClaimInv
    <3> HIDE DEF claimed
    <3>8. IsFiniteSet(after) /\ Cardinality(after) = Cardinality(claimed) + 1
      <4> HIDE DEF after
      <4> QED
        BY <3>6, <3>7, FS_AddElement
    <3>9. /\ begun' \in [Failures -> Nat]
          /\ \A g \in Failures : begun'[g] = IF row'[g].status = "none" THEN 0 ELSE 1
      BY <2>1, <3>1, <3>3, <3>4 DEF ClaimInv
    <3>10. \A v \in at_work' : row'[v.f].status # "none" /\ v.f \in Failures
      BY <3>1, <3>3, <3>4 DEF ClaimInv
    <3>11. \A g \in Failures : "status" \in DOMAIN row'[g]
      BY <3>3, <3>4 DEF ClaimInv
    <3>12. Cardinality(after) <= MaxCalls
      BY <3>2, <3>7, <3>8
    <3> QED
      BY <3>4, <3>8, <3>9, <3>10, <3>11, <3>12 DEF ClaimInv
  <2>2. CASE row[f].status # "none"
    <3>1. UNCHANGED <<row, at_work, begun>>
      BY <1>1, <2>2 DEF Asst!invoke, Asst!mayClaim
    <3> QED
      BY <3>1 DEF ClaimInv
  <2> QED
    BY <2>1, <2>2
<1>2. ASSUME NEW w \in at_work, Asst!looks(w) PROVE ClaimInv'
  <2>1. PICK x \in w.left :
           at_work' = (at_work \ {w}) \cup
                         {[w EXCEPT !.left = @ \ {x}, !.has = @ \cup ({x} \cap tree.has)]}
    BY <1>2 DEF Asst!looks
  <2> DEFINE v == [w EXCEPT !.left = @ \ {x}, !.has = @ \cup ({x} \cap tree.has)]
  <2>2. v.f = w.f
    OBVIOUS
  <2>3. at_work' = (at_work \ {w}) \cup {v}
    BY <2>1
  <2> HIDE DEF v
  <2>4. UNCHANGED <<row, begun>>
    BY <1>2 DEF Asst!looks
  <2> QED
    BY <2>2, <2>3, <2>4, RowsStay DEF ClaimInv
<1>3. ASSUME NEW w \in at_work, NEW status \in {"done", "failed", "timeout"}, NEW gaps,
             Asst!settleSubagentCall(w.f, status, gaps), at_work' = at_work \ {w}, begun' = begun
      PROVE  ClaimInv'
  <2>1. row' = [row EXCEPT ![w.f].status = status, ![w.f].gaps = gaps] /\ w.f \in Failures
        /\ row[w.f].status # "none"
    BY <1>3 DEF Asst!settleSubagentCall, ClaimInv
  <2>2. /\ DOMAIN row' = Failures /\ row'[w.f].status = status
        /\ "status" \in DOMAIN row'[w.f]
        /\ \A g \in Failures \ {w.f} : row'[g] = row[g]
    BY <2>1 DEF ClaimInv
  <2>3. \A g \in Failures : /\ "status" \in DOMAIN row'[g]
                            /\ row'[g].status # "none" <=> row[g].status # "none"
    BY <2>1, <2>2 DEF ClaimInv
  <2> QED
    BY <1>3, <2>2, <2>3, RowsStay
<1>4. ASSUME NEW w \in at_work, Asst!answers(w) PROVE ClaimInv'
  <2>1. PICK r \in Asst!finalizeReadonlySubAgentResult(w.role, Asst!buildContextBrief(w.role, w.has)) :
           IF r.fits
           THEN Asst!settleSubagentCall(w.f, "done", r.gaps) /\ Asst!Say(w.role, w.f, r.gaps, FALSE)
           ELSE Asst!settleSubagentCall(w.f, "failed", {}) /\ UNCHANGED said
    BY <1>4 DEF Asst!answers
  <2>2. at_work' = at_work \ {w} /\ begun' = begun
    BY <1>4 DEF Asst!answers
  <2> QED
    BY <1>3, <2>1, <2>2
<1>5. ASSUME NEW w \in at_work, Asst!runWithTimeout(w) PROVE ClaimInv'
  BY <1>3, <1>5 DEF Asst!runWithTimeout
<1>6. CASE Asst!edits \/ Asst!editsUnseen \/ Asst!crash
  BY <1>6 DEF Asst!edits, Asst!editsUnseen, Asst!crash, ClaimInv
<1>7. CASE UNCHANGED AsstVars
  BY <1>7 DEF AsstVars, ClaimInv
<1> QED
  BY <1>1, <1>2, <1>4, <1>5, <1>6, <1>7 DEF Asst!Next, Asst!vars, AsstVars

\* For any failures, helpers and restarts: a failure is looked into once, whatever came of it, and
\* all of them together no more often than a task may ask (claimSubagentCall of ledger.ts).
THEOREM FailuresAreSeenOnce ==
    ASSUME MaxCalls \in Nat
    PROVE  Spec => []OncePerFailure
<1> DEFINE Inv == part = "assistants" => ClaimInv
<1>1. Init => Inv
  <2>1. ASSUME Asst!Init PROVE ClaimInv
    <3>1. {f \in Failures : row[f].status # "none"} = {}
      BY <2>1 DEF Asst!Init, Asst!Unclaimed
    <3>2. IsFiniteSet({}) /\ Cardinality({}) <= MaxCalls
      BY FS_EmptySet
    <3> QED
      BY <2>1, <3>1, <3>2 DEF Asst!Init, Asst!Unclaimed, ClaimInv
  <2> QED
    BY <2>1, Beginnings
<1>2. Inv /\ [Next]_all => Inv'
  BY Steps, ClaimKeeps
<1>3. Inv => OncePerFailure
  <2>1. ASSUME ClaimInv PROVE Asst!OncePerFailure
    <3>1. \A f \in Failures : begun[f] <= 1 /\ (begun[f] > 0 <=> row[f].status # "none")
      BY <2>1 DEF ClaimInv
    <3>2. {f \in Failures : begun[f] > 0} = {f \in Failures : row[f].status # "none"}
      BY <3>1
    <3> QED
      BY <2>1, <3>1, <3>2, SameNumber DEF ClaimInv, Asst!OncePerFailure
  <2> QED
    BY <2>1 DEF OncePerFailure
<1> QED
  BY <1>1, <1>2, <1>3, PTL DEF Spec, all

-----------------------------------------------------------------------------
\* Managers' plan

\* The dialogue as far as the plan is concerned.
Graphs == [functions : SUBSET Features, tasks : SUBSET Features, plan : Mgr!Plans,
           ui : {"none", "given", "default"}, flag : BOOLEAN]
Dialogues ==
    [at : {"off", "chat", "features", "ui", "dispose", "planner", "asked", "waiting", "writing",
           "building", "failed"},
     face : {"graph", "content"}, graph : Graphs, fresh : SUBSET Features, turns : Nat,
     who : Nat, tries : Nat]

\* A turn that ends the dialogue has functions to refine, so that the plan is made anew before
\* it is looked at; and the manager that ends it has decided how the pages are to be.
PlanIsFresh ==
    /\ pm.at = "ui" => pm.graph.functions # {} \/ pm.fresh # {} \/ pm.face = "content"
    /\ pm.graph.flag => pm.graph.ui # "none"
    /\ pm.graph.plan.final => pm.graph.plan.ui # "none"
    /\ pm.face = "graph" /\ pm.at \notin {"off", "failed", "building"} =>
           pm.graph.tasks = agreed.refined
    /\ pm.face = "graph" /\ pm.at \in {"asked", "waiting"} /\ pm.graph.flag =>
           pm.graph.plan.of = agreed.refined /\ pm.graph.plan.ui # "none"

MgrInv ==
    /\ planned \in Mgr!Plans /\ pm \in Dialogues
    /\ agreed \in [confirmed : SUBSET Features, refined : SUBSET Features, fits : BOOLEAN]
    /\ PlanIsFresh
    /\ Mgr!FinalPlanIsWhole

\* The end of a dialogue, by death or by an error, forgets it.
LEMMA ForgetKeeps ==
    ASSUME MgrInv, pm' \in Dialogues, pm'.at \in {"off", "failed"}, pm'.graph = Mgr!Empty,
           agreed' = Mgr!Forgotten, planned' = planned
    PROVE  MgrInv'
BY DEF MgrInv, PlanIsFresh, Mgr!FinalPlanIsWhole, Mgr!Empty, Mgr!NoPlan, Mgr!Forgotten

\* What is written into the column is a plan like the one there was, or the one at hand.
LEMMA ThrowsKeeps ==
    ASSUME MgrInv, Mgr!Throws
    PROVE  MgrInv'
<1>1. pm' \in Dialogues /\ pm'.at = "failed" /\ pm'.graph = Mgr!Empty
  BY DEF Mgr!Throws, MgrInv, Dialogues, Graphs, Mgr!Empty, Mgr!NoPlan, Mgr!Plans
<1> QED
  BY <1>1, ForgetKeeps DEF Mgr!Throws

\* A turn that is over, with what it has confirmed: a last one has something to refine.
LEMMA ConfirmKeeps ==
    ASSUME MgrInv, NEW new \in SUBSET Features, NEW done \in BOOLEAN,
           NEW ui \in {"none", "given", "default"}, done => ui # "none",
           done /\ pm.face = "graph" => pm.graph.functions \cup new # {},
           pm.at \in {"chat", "features", "ui"}, Mgr!Confirm(new, done, ui)
    PROVE  MgrInv'
<1> DEFINE functions == pm.graph.functions \cup new
<1>0. pm \in Dialogues /\ functions \in SUBSET Features
  BY DEF MgrInv, Dialogues, Graphs
<1>1. PICK a \in {"dispose", "asked"} :
          /\ pm' = [pm EXCEPT !.graph.functions = functions, !.graph.flag = done,
                              !.graph.ui = ui, !.fresh = {}, !.at = a]
          /\ a = "asked" /\ pm.face = "graph" => functions = {}
  BY DEF Mgr!Confirm, Mgr!OfGraph, Mgr!afterPm, Mgr!DEFAULT_EDGES
<1>2. agreed' = [agreed EXCEPT !.confirmed = @ \cup new] /\ UNCHANGED planned
  BY DEF Mgr!Confirm
<1> HIDE DEF functions
<1>3. /\ pm' \in Dialogues /\ pm'.at = a /\ pm'.face = pm.face
      /\ pm'.graph.flag = done /\ pm'.graph.ui = ui
      /\ pm'.graph.tasks = pm.graph.tasks /\ pm'.graph.plan = pm.graph.plan
  BY <1>0, <1>1 DEF Dialogues, Graphs
<1>4. /\ agreed' \in [confirmed : SUBSET Features, refined : SUBSET Features, fits : BOOLEAN]
      /\ agreed'.refined = agreed.refined
  BY <1>2 DEF MgrInv
<1>5. a = "asked" /\ pm.face = "graph" => ~done
  BY <1>1 DEF functions
<1> QED
  BY <1>1, <1>2, <1>3, <1>4, <1>5 DEF MgrInv, PlanIsFresh, Mgr!FinalPlanIsWhole

\* An answer that is read is complete, or asked for what it lacks.
LEMMA ReadKeeps ==
    ASSUME MgrInv, NEW new \in SUBSET Features, NEW done \in BOOLEAN, NEW given \in BOOLEAN,
           done => pm.graph.functions \cup new # {},
           pm.at \in {"chat", "features"}, Mgr!Read(new, done, given)
    PROVE  MgrInv'
<1> DEFINE ui == IF given THEN "given" ELSE pm.graph.ui
<1>0. pm \in Dialogues /\ ui \in {"none", "given", "default"}
  BY DEF MgrInv, Dialogues, Graphs
<1>1. CASE done /\ ui = "none"
  <2>1. /\ pm' = [pm EXCEPT !.at = "ui", !.fresh = new] /\ UNCHANGED <<planned, agreed>>
    BY <1>1 DEF Mgr!Read
  <2>2. /\ pm' \in Dialogues /\ pm'.at = "ui" /\ pm'.face = pm.face /\ pm'.graph = pm.graph
        /\ pm'.fresh = new
    BY <1>0, <2>1 DEF Dialogues
  <2> QED
    BY <1>1, <2>1, <2>2 DEF MgrInv, PlanIsFresh, Mgr!FinalPlanIsWhole
<1>2. CASE ~(done /\ ui = "none")
  <2>1. Mgr!Confirm(new, done, ui)
    BY <1>2 DEF Mgr!Read
  <2> HIDE DEF ui
  <2> QED
    BY <1>0, <1>2, <2>1, ConfirmKeeps
<1> QED
  BY <1>1, <1>2

\* The turns of the manager and their repairs.
LEMMA TurnKeeps ==
    ASSUME MgrInv, Mgr!Chat \/ Mgr!FeaturesRepaired \/ Mgr!UiRepaired
    PROVE  MgrInv'
<1>1. CASE Mgr!Chat
  <2>1. PICK new \in SUBSET Features, done \in BOOLEAN, given \in BOOLEAN :
           IF Mgr!requiresFeatureRepair(done, new)
           THEN pm' = [pm EXCEPT !.at = "features"] /\ UNCHANGED <<clarified, planned, slips, agreed>>
           ELSE Mgr!Read(new, done, given)
    BY <1>1 DEF Mgr!Chat
  <2>2. CASE Mgr!requiresFeatureRepair(done, new)
    <3>1. pm' = [pm EXCEPT !.at = "features"] /\ UNCHANGED <<planned, agreed>> /\ pm.at = "chat"
      BY <1>1, <2>1, <2>2 DEF Mgr!Chat
    <3> QED
      BY <3>1 DEF MgrInv, Dialogues, PlanIsFresh, Mgr!FinalPlanIsWhole
  <2>3. CASE ~Mgr!requiresFeatureRepair(done, new)
    BY <1>1, <2>1, <2>3, ReadKeeps DEF Mgr!Chat, Mgr!requiresFeatureRepair
  <2> QED
    BY <2>2, <2>3
<1>2. CASE Mgr!FeaturesRepaired
  <2>1. PICK new \in SUBSET Features, given \in BOOLEAN :
           IF new = {} THEN Mgr!Throws ELSE Mgr!Read(new, TRUE, given)
    BY <1>2 DEF Mgr!FeaturesRepaired
  <2> QED
    BY <1>2, <2>1, ThrowsKeeps, ReadKeeps DEF Mgr!FeaturesRepaired
<1>3. CASE Mgr!UiRepaired
  <2>1. PICK more \in SUBSET Features, given \in BOOLEAN :
           Mgr!Confirm(pm.fresh \cup more, TRUE, IF given THEN "given" ELSE "default")
    BY <1>3 DEF Mgr!UiRepaired
  <2> DEFINE ui == IF given THEN "given" ELSE "default"
             new == pm.fresh \cup more
  <2>2. /\ ui \in {"none", "given", "default"} /\ ui # "none" /\ new \in SUBSET Features
        /\ pm.face = "graph" => pm.graph.functions \cup new # {}
        /\ pm.at = "ui"
    BY <1>3 DEF Mgr!UiRepaired, MgrInv, PlanIsFresh, Dialogues
  <2>3. Mgr!Confirm(new, TRUE, ui)
    BY <2>1
  <2> HIDE DEF ui, new
  <2> QED
    BY <2>2, <2>3, ConfirmKeeps
<1> QED
  BY <1>1, <1>2, <1>3

\* Refinement and plan.
LEMMA RefineKeeps ==
    ASSUME MgrInv, Mgr!Dispose \/ Mgr!Refine
    PROVE  MgrInv'
<1>0. pm \in Dialogues /\ agreed \in [confirmed : SUBSET Features, refined : SUBSET Features, fits : BOOLEAN]
  BY DEF MgrInv
<1>1. CASE Mgr!Dispose
  <2>1. PICK tasks \in SUBSET pm.graph.functions :
           /\ pm' = [pm EXCEPT !.at = "planner", !.graph.functions = {}, !.graph.tasks = @ \cup tasks]
           /\ agreed' = [agreed EXCEPT !.refined = @ \cup tasks]
    BY <1>1 DEF Mgr!Dispose, Mgr!DEFAULT_EDGES
  <2>2. pm.at = "dispose" /\ UNCHANGED planned
    BY <1>1 DEF Mgr!Dispose
  <2>3. /\ pm' \in Dialogues /\ pm'.at = "planner" /\ pm'.face = pm.face
        /\ pm'.graph.flag = pm.graph.flag /\ pm'.graph.ui = pm.graph.ui
        /\ pm'.graph.tasks = pm.graph.tasks \cup tasks /\ pm'.graph.plan = pm.graph.plan
    BY <1>0, <2>1 DEF Dialogues, Graphs
  <2>4. /\ agreed' \in [confirmed : SUBSET Features, refined : SUBSET Features, fits : BOOLEAN]
        /\ agreed'.refined = agreed.refined \cup tasks
    BY <1>0, <2>1 DEF Dialogues, Graphs
  <2> QED
    BY <2>2, <2>3, <2>4 DEF MgrInv, PlanIsFresh, Mgr!FinalPlanIsWhole
<1>2. CASE Mgr!Refine
  <2>1. PICK tasks \in SUBSET pm.graph.functions :
           \/ Mgr!Throws
           \/ /\ pm' = [pm EXCEPT !.at = "planner", !.graph.tasks = tasks]
              /\ agreed' = [agreed EXCEPT !.refined = tasks]
              /\ UNCHANGED <<clarified, planned, slips>>
    BY <1>2 DEF Mgr!Refine
  <2>2. pm.face # "graph"
    BY <1>2 DEF Mgr!Refine, Mgr!OfGraph
  <2>3. CASE /\ pm' = [pm EXCEPT !.at = "planner", !.graph.tasks = tasks]
             /\ agreed' = [agreed EXCEPT !.refined = tasks]
             /\ UNCHANGED <<clarified, planned, slips>>
    <3>1. /\ pm' \in Dialogues /\ pm'.at = "planner" /\ pm'.face = pm.face
          /\ pm'.graph.flag = pm.graph.flag /\ pm'.graph.ui = pm.graph.ui
          /\ pm'.graph.plan = pm.graph.plan
      BY <1>0, <2>3 DEF Dialogues, Graphs
    <3>2. agreed' \in [confirmed : SUBSET Features, refined : SUBSET Features, fits : BOOLEAN]
      BY <1>0, <2>3 DEF Dialogues, Graphs
    <3> QED
      BY <2>2, <2>3, <3>1, <3>2 DEF MgrInv, PlanIsFresh, Mgr!FinalPlanIsWhole
  <2> QED
    BY <2>1, <2>3, ThrowsKeeps
<1> QED
  BY <1>1, <1>2

\* The planner's steps keep it: what it assembles is a plan of this dialogue.
LEMMA PlanKeeps ==
    ASSUME MgrInv, Mgr!Planner \/ Mgr!PlanContent
    PROVE  MgrInv'
<1>0. pm \in Dialogues /\ pm.at = "planner"
  BY DEF MgrInv, Mgr!Planner, Mgr!PlanContent
<1>1. ASSUME NEW usable \in BOOLEAN PROVE Mgr!assemblePmPlan(usable) \in Mgr!Plans
  BY <1>0 DEF Mgr!assemblePmPlan, Mgr!Plans, Dialogues, Graphs
<1>2. CASE Mgr!Planner
  <2>1. PICK usable \in BOOLEAN :
           /\ pm' = [pm EXCEPT !.at = "asked", !.graph.plan = Mgr!assemblePmPlan(usable)]
           /\ planned' \in Mgr!Saved(planned, Mgr!assemblePmPlan(usable))
    BY <1>2 DEF Mgr!Planner, Mgr!DEFAULT_EDGES
  <2>2. UNCHANGED agreed /\ pm.face = "graph"
    BY <1>2 DEF Mgr!Planner, Mgr!OfGraph
  <2> DEFINE new == Mgr!assemblePmPlan(usable)
  <2>3. new.of = pm.graph.tasks /\ new.ui = pm.graph.ui /\ new.final = pm.graph.flag
    BY DEF Mgr!assemblePmPlan
  <2>4. new \in Mgr!Plans
    BY <1>1
  <2>5. planned' \in {planned, new}
    BY <2>1 DEF Mgr!Saved
  <2> HIDE DEF new
  <2>6. pm' = [pm EXCEPT !.at = "asked", !.graph.plan = new]
    BY <2>1 DEF new
  <2>7. /\ pm' \in Dialogues /\ pm'.at = "asked" /\ pm'.face = pm.face
        /\ pm'.graph.flag = pm.graph.flag /\ pm'.graph.ui = pm.graph.ui
        /\ pm'.graph.tasks = pm.graph.tasks /\ pm'.graph.plan = new
    BY <1>0, <2>4, <2>6 DEF Dialogues, Graphs
  <2> QED
    BY <1>0, <2>2, <2>3, <2>4, <2>5, <2>7 DEF MgrInv, PlanIsFresh, Mgr!FinalPlanIsWhole
<1>3. CASE Mgr!PlanContent
  <2>1. PICK usable \in BOOLEAN :
           \/ Mgr!Throws
           \/ /\ pm' = [pm EXCEPT !.at = "writing", !.graph.plan = Mgr!assemblePmPlan(usable)]
              /\ UNCHANGED <<clarified, planned, slips, agreed>>
    BY <1>3 DEF Mgr!PlanContent
  <2>2. pm.face # "graph"
    BY <1>3 DEF Mgr!PlanContent, Mgr!OfGraph
  <2> DEFINE new == Mgr!assemblePmPlan(usable)
  <2>3. new.ui = pm.graph.ui /\ new.final = pm.graph.flag
    BY DEF Mgr!assemblePmPlan
  <2>4. new \in Mgr!Plans
    BY <1>1
  <2> HIDE DEF new
  <2>5. CASE /\ pm' = [pm EXCEPT !.at = "writing", !.graph.plan = new]
             /\ UNCHANGED <<planned, agreed>>
    <3>1. /\ pm' \in Dialogues /\ pm'.at = "writing" /\ pm'.face = pm.face
          /\ pm'.graph.flag = pm.graph.flag /\ pm'.graph.ui = pm.graph.ui
          /\ pm'.graph.plan = new
      BY <1>0, <2>4, <2>5 DEF Dialogues, Graphs
    <3> QED
      BY <2>2, <2>3, <2>4, <2>5, <3>1 DEF MgrInv, PlanIsFresh, Mgr!FinalPlanIsWhole
  <2> QED
    BY <2>1, <2>5, ThrowsKeeps DEF new
<1> QED
  BY <1>2, <1>3

\* A process that starts, what the terminal writes back, and the end of a dialogue.
LEMMA LifeKeeps ==
    ASSUME Managers \in Nat, MgrInv,
           Mgr!Start \/ Mgr!ByTerminal \/ Mgr!Die \/ Mgr!WriteBack \/ Mgr!Conclude
    PROVE  MgrInv'
<1>0. /\ pm \in Dialogues /\ planned \in Mgr!Plans
      /\ agreed \in [confirmed : SUBSET Features, refined : SUBSET Features, fits : BOOLEAN]
  BY DEF MgrInv
<1>1. Mgr!Empty \in Graphs /\ Mgr!Empty.flag = FALSE /\ Mgr!Empty.tasks = {}
      /\ Mgr!Empty.plan.final = FALSE
  BY DEF Mgr!Empty, Mgr!NoPlan, Graphs, Mgr!Plans
<1>2. /\ Mgr!Forgotten \in [confirmed : SUBSET Features, refined : SUBSET Features, fits : BOOLEAN]
      /\ Mgr!Forgotten.refined = {}
  BY <1>0 DEF Mgr!Forgotten
<1>3. CASE Mgr!Start
  <2> DEFINE g == IF planned.usable THEN [Mgr!Empty EXCEPT !.plan = planned] ELSE Mgr!Empty
  <2>1. /\ pm' = [at |-> IF planned.usable THEN "building" ELSE "chat", face |-> "graph",
                  graph |-> g, fresh |-> {}, turns |-> 0, who |-> 1, tries |-> pm.tries + 1]
        /\ agreed' = Mgr!Forgotten /\ UNCHANGED planned
    BY <1>3 DEF Mgr!Start
  <2>2. /\ g \in Graphs /\ g.flag = FALSE /\ g.tasks = {}
        /\ g.plan.final => g.plan.ui # "none"
    BY <1>0, <1>1 DEF Graphs, MgrInv, Mgr!FinalPlanIsWhole, Mgr!Empty
  <2> DEFINE n == pm.tries + 1
             a == IF planned.usable THEN "building" ELSE "chat"
  <2>33. n \in Nat /\ a \in {"building", "chat"}
    BY <1>0 DEF Dialogues
  <2>35. pm' = [at |-> a, face |-> "graph", graph |-> g, fresh |-> {}, turns |-> 0, who |-> 1,
               tries |-> n]
    BY <2>1
  <2> HIDE DEF g, n, a
  <2>3. /\ pm'.graph = g /\ pm'.at \in {"building", "chat"} /\ pm'.face = "graph"
    BY <2>33, <2>35
  <2>4. pm' \in Dialogues
    <3>0. g \in Graphs
      BY <2>2
    <3>1. a \in {"off", "chat", "features", "ui", "dispose", "planner", "asked", "waiting",
                 "writing", "building", "failed"}
      BY <2>33
    <3> QED
      BY <2>33, <2>35, <3>0, <3>1 DEF Dialogues
  <2>5. agreed' = Mgr!Forgotten /\ UNCHANGED planned
    BY <2>1
  <2>6. PlanIsFresh'
    BY <1>2, <2>2, <2>3, <2>5 DEF PlanIsFresh
  <2>7. Mgr!FinalPlanIsWhole'
    BY <2>2, <2>3, <2>5 DEF MgrInv, Mgr!FinalPlanIsWhole
  <2> QED
    BY <1>0, <1>2, <2>4, <2>5, <2>6, <2>7 DEF MgrInv
<1>4. CASE Mgr!ByTerminal
  <2>1. /\ pm' = [at |-> "chat", face |-> "content", graph |-> Mgr!Empty, fresh |-> {},
                  turns |-> 0, who |-> 1, tries |-> pm.tries + 1]
        /\ agreed' = Mgr!Forgotten /\ UNCHANGED planned
    BY <1>4 DEF Mgr!ByTerminal
  <2> DEFINE n == pm.tries + 1
  <2>33. n \in Nat
    BY <1>0 DEF Dialogues
  <2>35. pm' = [at |-> "chat", face |-> "content", graph |-> Mgr!Empty, fresh |-> {},
               turns |-> 0, who |-> 1, tries |-> n]
    BY <2>1
  <2> HIDE DEF n
  <2>2. pm' \in Dialogues
    BY <1>1, <2>33, <2>35 DEF Dialogues
  <2> QED
    BY <1>1, <1>2, <2>1, <2>2 DEF MgrInv, PlanIsFresh, Mgr!FinalPlanIsWhole
<1>5. CASE Mgr!Die
  <2>1. pm' \in Dialogues /\ pm'.at = "off" /\ pm'.graph = Mgr!Empty
    BY <1>0, <1>1, <1>5 DEF Mgr!Die, Dialogues
  <2> QED
    BY <1>5, <2>1, ForgetKeeps DEF Mgr!Die
<1>6. CASE Mgr!WriteBack
  <2>1. pm' \in Dialogues /\ pm'.at = "off" /\ pm'.graph = Mgr!Empty
    BY <1>0, <1>1, <1>6 DEF Mgr!WriteBack, Dialogues
  <2>2. planned' \in {planned, pm.graph.plan} /\ agreed' = Mgr!Forgotten
    BY <1>6 DEF Mgr!WriteBack, Mgr!Saved
  <2>3. planned' \in Mgr!Plans /\ (planned'.final => planned'.ui # "none")
    BY <1>0, <2>2 DEF Dialogues, Graphs, MgrInv, PlanIsFresh, Mgr!FinalPlanIsWhole
  <2> QED
    BY <1>1, <1>2, <2>1, <2>2, <2>3 DEF MgrInv, PlanIsFresh, Mgr!FinalPlanIsWhole
<1>7. CASE Mgr!Conclude
  <2>0. pm.at = "asked" /\ pm.face = "graph" /\ UNCHANGED planned
    BY <1>7 DEF Mgr!Conclude, Mgr!OfGraph
  <2>1. CASE pm' = [pm EXCEPT !.at = "building"] /\ UNCHANGED agreed
    BY <1>0, <2>0, <2>1 DEF Dialogues, Graphs, MgrInv, PlanIsFresh, Mgr!FinalPlanIsWhole
  <2>2. CASE /\ pm' = [pm EXCEPT !.at = "chat", !.who = @ + 1, !.turns = 0, !.graph = Mgr!Empty]
             /\ agreed' = Mgr!Forgotten
    <3> DEFINE n == pm.who + 1
    <3>33. n \in Nat /\ Mgr!Empty \in Graphs
      BY <1>0, <1>1 DEF Dialogues
    <3>35. pm' = [pm EXCEPT !.at = "chat", !.who = n, !.turns = 0, !.graph = Mgr!Empty]
      BY <2>2
    <3> HIDE DEF n
    <3>1. pm' \in Dialogues /\ pm'.at = "chat" /\ pm'.graph = Mgr!Empty
      BY <1>0, <3>33, <3>35 DEF Dialogues
    <3> QED
      BY <1>1, <1>2, <2>0, <2>2, <3>1 DEF MgrInv, PlanIsFresh, Mgr!FinalPlanIsWhole
  <2>3. CASE pm' = [pm EXCEPT !.at = "failed", !.graph = Mgr!Empty] /\ agreed' = Mgr!Forgotten
    <3>1. pm' \in Dialogues /\ pm'.at = "failed" /\ pm'.graph = Mgr!Empty
      BY <1>0, <1>1, <2>3 DEF Dialogues
    <3> QED
      BY <2>0, <2>3, <3>1, ForgetKeeps
  <2> QED
    BY <1>7, <2>1, <2>2, <2>3 DEF Mgr!Conclude
<1> QED
  BY <1>3, <1>4, <1>5, <1>6, <1>7

\* Questions, answers and what the people do.
LEMMA TalkKeeps ==
    ASSUME MgrInv, Mgr!Ask \/ Mgr!Answered \/ Mgr!AutoConfirm \/ Mgr!TerminalAnswers
    PROVE  MgrInv'
<1>0. /\ pm \in Dialogues
      /\ agreed \in [confirmed : SUBSET Features, refined : SUBSET Features, fits : BOOLEAN]
  BY DEF MgrInv
<1>1. CASE Mgr!Ask
  <2>1. /\ pm.at = "asked" /\ pm' = [pm EXCEPT !.at = "waiting"] /\ UNCHANGED <<planned, agreed>>
    BY <1>1 DEF Mgr!Ask
  <2> QED
    BY <1>0, <2>1 DEF Dialogues, MgrInv, PlanIsFresh, Mgr!FinalPlanIsWhole
<1>2. CASE Mgr!Throws
  BY <1>2, ThrowsKeeps
<1>3. CASE ~Mgr!Throws /\ (Mgr!Answered \/ Mgr!AutoConfirm \/ Mgr!TerminalAnswers)
  <2>1. /\ pm.at \in {"asked", "waiting"} /\ pm' = [pm EXCEPT !.at = "chat", !.turns = @ + 1]
        /\ UNCHANGED planned /\ \E b \in BOOLEAN : agreed' \in {agreed, [agreed EXCEPT !.fits = b]}
    BY <1>0, <1>3 DEF Mgr!Answered, Mgr!AutoConfirm, Mgr!TerminalAnswers
  <2> DEFINE n == pm.turns + 1
  <2>33. n \in Nat
    BY <1>0 DEF Dialogues
  <2>35. pm' = [pm EXCEPT !.at = "chat", !.turns = n]
    BY <2>1
  <2> HIDE DEF n
  <2>2. /\ pm' \in Dialogues /\ pm'.at = "chat" /\ pm'.face = pm.face /\ pm'.graph = pm.graph
    BY <1>0, <2>33, <2>35 DEF Dialogues
  <2>3. /\ agreed' \in [confirmed : SUBSET Features, refined : SUBSET Features, fits : BOOLEAN]
        /\ agreed'.refined = agreed.refined
    BY <1>0, <2>1
  <2> QED
    BY <2>1, <2>2, <2>3 DEF MgrInv, PlanIsFresh, Mgr!FinalPlanIsWhole
<1> QED
  BY <1>1, <1>2, <1>3

\* Every step of the dialogue keeps it.
LEMMA MgrKeeps ==
    ASSUME Managers \in Nat, MgrInv, [Mgr!Next]_MgrVars
    PROVE  MgrInv'
<1>1. CASE (\E t \in 0..(MaxTalk - 1) : Mgr!Settle(t)) \/ Mgr!Stay \/ UNCHANGED MgrVars
  <2>1. UNCHANGED <<planned, pm, agreed>>
    BY <1>1 DEF Mgr!Settle, Mgr!Stay, Mgr!vars, MgrVars
  <2> QED
    BY <2>1 DEF MgrInv, PlanIsFresh, Mgr!FinalPlanIsWhole
<1> QED
  BY <1>1, ThrowsKeeps, TurnKeeps, RefineKeeps, PlanKeeps, LifeKeeps, TalkKeeps
     DEF Mgr!Next, Mgr!CallFails

\* For any functions, turns, managers and processes: a plan that comes out of a finished
\* dialogue holds every task refined in it and says how the pages are to be (manager.ts).
THEOREM PlansAreWhole ==
    ASSUME Managers \in Nat
    PROVE  Spec => []FinalPlanIsWhole
<1> DEFINE Inv == part = "manager" => MgrInv
<1>1. Init => Inv
  <2>1. Mgr!Init => MgrInv
    <3>1. Mgr!NoPlan \in Mgr!Plans /\ Mgr!Empty \in Graphs
      BY DEF Mgr!NoPlan, Mgr!Plans, Mgr!Empty, Graphs
    <3> QED
      BY <3>1 DEF Mgr!Init, MgrInv, Dialogues, PlanIsFresh, Mgr!FinalPlanIsWhole, Mgr!Empty,
         Mgr!NoPlan
  <2> QED
    BY <2>1, Beginnings
<1>2. Inv /\ [Next]_all => Inv'
  BY Steps, MgrKeeps
<1>3. Inv => FinalPlanIsWhole
  BY DEF MgrInv, FinalPlanIsWhole
<1> QED
  BY <1>1, <1>2, <1>3, PTL DEF Spec, all

-----------------------------------------------------------------------------
\* Editors of the plan

\* A plan of which all phases have a number, or none.
PhaseLike  == [nr : Nat, name : Nat, goal : Nat]
Uniform(p) ==
    /\ p \in Seq(PhaseLike)
    /\ (\A i \in DOMAIN p : p[i].nr # 0) \/ (\A i \in DOMAIN p : p[i].nr = 0)

EditInv ==
    /\ {"req", "plan", "modules", "stack", "status"} \subseteq DOMAIN column
    /\ {"orig", "names", "moves"} \subseteq DOMAIN sheet
    /\ Uniform(column.plan)
    /\ Uniform(sheet.orig)
    /\ sheet.names \in Seq(Nat)

\* What a person makes of a plan has numbers everywhere or nowhere, and is one the engine
\* builds from when the plan was (buildDevPlanJson).
LEMMA BuiltIsUsable ==
    ASSUME NEW orig, NEW names \in Seq(Nat), Uniform(orig)
    PROVE  LET new == Edit!buildDevPlanJson(orig, names, Edit!EngineShape(orig))
           IN  /\ Uniform(new)
               /\ Edit!usable(orig) /\ names # <<>> => Edit!usable(new)
<1> DEFINE shape == Edit!EngineShape(orig)
           New(i) == IF i \in DOMAIN orig THEN [orig[i] EXCEPT !.name = names[i]]
                     ELSE [nr |-> IF shape THEN i ELSE 0, name |-> names[i], goal |-> 0]
           new == [i \in DOMAIN names |-> New(i)]
<1>1. Edit!buildDevPlanJson(orig, names, shape) = new
  BY DEF Edit!buildDevPlanJson, Edit!Unstated
<1>2. /\ Len(names) \in Nat /\ DOMAIN names = 1..Len(names)
      /\ \A i \in 1..Len(names) : names[i] \in Nat
  OBVIOUS
<1>3. \A i \in DOMAIN orig : orig[i] \in PhaseLike
  BY DEF Uniform
<1>4. \A i \in DOMAIN names : New(i) \in PhaseLike
  <2>1. SUFFICES ASSUME NEW i \in DOMAIN names PROVE New(i) \in PhaseLike
    OBVIOUS
  <2>2. CASE i \in DOMAIN orig
    BY <1>2, <1>3, <2>2 DEF PhaseLike
  <2>3. CASE i \notin DOMAIN orig
    BY <1>2, <2>3 DEF PhaseLike
  <2> QED
    BY <2>2, <2>3
<1>5. \A i \in DOMAIN names : IF i \in DOMAIN orig THEN New(i).nr = orig[i].nr
                              ELSE New(i).nr = IF shape THEN i ELSE 0
  BY <1>3 DEF PhaseLike
<1>6. shape => \A i \in DOMAIN orig : orig[i].nr # 0
  BY DEF Uniform, Edit!EngineShape, Edit!Unstated
<1>7. ~shape => \A i \in DOMAIN orig : orig[i].nr = 0
  BY DEF Edit!EngineShape, Edit!Unstated
<1> HIDE DEF New, shape
<1>8. new \in Seq(PhaseLike) /\ DOMAIN new = DOMAIN names
  BY <1>2, <1>4
<1>9. \A i \in DOMAIN names : new[i] = New(i)
  OBVIOUS
<1>10. Uniform(new)
  BY <1>2, <1>5, <1>6, <1>7, <1>8, <1>9, SMTT(30) DEF Uniform
<1>11. Edit!usable(orig) /\ names # <<>> => Edit!usable(new)
  <2>1. SUFFICES ASSUME Edit!usable(orig), names # <<>> PROVE Edit!usable(new)
    OBVIOUS
  <2>2. 1 \in DOMAIN names
    BY <1>2, <2>1
  <2>3. orig \in Seq(PhaseLike) /\ orig # <<>> /\ \A i \in DOMAIN orig : orig[i].nr # 0
    BY <2>1 DEF Uniform, Edit!usable, Edit!Unstated
  <2>4. shape
    BY <2>3 DEF shape, Edit!EngineShape, Edit!Unstated
  <2>5. new # <<>> /\ \A i \in DOMAIN new : new[i].nr # 0
    BY <1>2, <1>5, <1>8, <1>9, <2>2, <2>3, <2>4
  <2> QED
    BY <2>5 DEF Edit!usable, Edit!Unstated
<1> QED
  BY <1>1, <1>10, <1>11 DEF shape

\* The numbers of the phases of a plan that the engine writes, as Edit!saveDevPlan takes them.
Numberings == {<<1>>, <<1, 2>>, <<1, 3>>}

\* What the engine writes into the column of the plan has a number for each phase.
LEMMA NumbersAreGiven ==
    ASSUME EditInv, \E numbers \in Numberings : Edit!saveDevPlan(numbers)
    PROVE  EditInv'
<1>1. PICK numbers \in Numberings : Edit!saveDevPlan(numbers)
  OBVIOUS
<1> DEFINE New(i) == [nr |-> numbers[i], name |-> i, goal |-> i]
           new == [i \in 1..Len(numbers) |-> New(i)]
<1>2. column' = [column EXCEPT !.plan = new] /\ UNCHANGED sheet
  BY <1>1 DEF Edit!saveDevPlan
<1>3. /\ Len(numbers) \in Nat
      /\ \A i \in 1..Len(numbers) : numbers[i] \in Nat /\ numbers[i] # 0
  BY DEF Numberings
<1>4. \A i \in 1..Len(numbers) : New(i) \in PhaseLike /\ New(i).nr # 0
  BY <1>3 DEF PhaseLike
<1> HIDE DEF New
<1>5. new \in Seq(PhaseLike) /\ DOMAIN new = 1..Len(numbers)
      /\ \A i \in DOMAIN new : new[i] = New(i)
  BY <1>3, <1>4
<1>6. Uniform(new)
  BY <1>4, <1>5 DEF Uniform
<1> HIDE DEF new
<1> QED
  BY <1>2, <1>6 DEF EditInv

\* Every step of the pages and of the engine.
LEMMA EditKeeps ==
    ASSUME MaxPhases \in Nat, EditInv, [Edit!Next]_EditVars
    PROVE  EditInv'
<1>1. CASE UNCHANGED <<column, sheet>>
  BY <1>1 DEF EditInv
<1>2. CASE \/ Edit!EngineStarts \/ Edit!saveFeatures
           \/ \E n \in Wanted : Edit!saveClarifiedReq(n)
           \/ \E modules \in SUBSET Wanted : Edit!saveArchitectOutput(modules)
  <2>1. /\ column'.plan = column.plan /\ DOMAIN column' = DOMAIN column /\ UNCHANGED sheet
    BY <1>2 DEF EditInv, Edit!EngineStarts, Edit!saveFeatures, Edit!saveClarifiedReq,
       Edit!saveArchitectOutput
  <2> QED
    BY <2>1 DEF EditInv
<1>3. CASE \E numbers \in Numberings : Edit!saveDevPlan(numbers)
  BY <1>3, NumbersAreGiven
<1>4. CASE Edit!OpenSheet
  <2> DEFINE New(i) == column.plan[i].name
             new == [i \in DOMAIN column.plan |-> New(i)]
  <2>1. /\ sheet' = [open |-> TRUE, orig |-> column.plan, names |-> new, stack |-> column.stack,
                     moves |-> sheet.moves + 1]
        /\ UNCHANGED column
    BY <1>4 DEF Edit!OpenSheet
  <2>2. column.plan \in Seq(PhaseLike)
    BY DEF EditInv, Uniform
  <2>3. /\ Len(column.plan) \in Nat /\ DOMAIN column.plan = 1..Len(column.plan)
        /\ \A i \in 1..Len(column.plan) : New(i) \in Nat
    <3>1. /\ Len(column.plan) \in Nat /\ DOMAIN column.plan = 1..Len(column.plan)
          /\ \A i \in 1..Len(column.plan) : column.plan[i] \in PhaseLike
      BY <2>2
    <3> QED
      BY <3>1 DEF PhaseLike
  <2> HIDE DEF New
  <2>4. new \in Seq(Nat)
    BY <2>3
  <2> HIDE DEF new
  <2> QED
    BY <2>1, <2>4 DEF EditInv
<1>5. ASSUME NEW names \in Seq(Nat), Edit!Edit(names) PROVE EditInv'
  BY <1>5 DEF Edit!Edit, EditInv
<1>6. CASE \/ Edit!addPhase
           \/ \E i \in 1..(MaxPhases + 1) : Edit!removePhase(i) \/ Edit!savePhaseName(i)
  <2>1. sheet.names \in Seq(Nat)
    BY DEF EditInv
  <2>2. CASE Edit!addPhase
    <3>1. Append(sheet.names, 0) \in Seq(Nat)
      BY <2>1
    <3> QED
      BY <1>5, <2>2, <3>1 DEF Edit!addPhase, Edit!Added
  <2>3. ASSUME NEW i \in 1..(MaxPhases + 1), Edit!removePhase(i) PROVE EditInv'
    <3>1. Edit!Without(sheet.names, i) \in Seq(Nat)
      <4>1. i \in 1..Len(sheet.names)
        BY <2>1, <2>3 DEF Edit!removePhase
      <4>2. SubSeq(sheet.names, 1, i - 1) \in Seq(Nat) /\ SubSeq(sheet.names, i + 1, Len(sheet.names)) \in Seq(Nat)
        BY <2>1, <4>1
      <4> QED
        BY <4>2 DEF Edit!Without
    <3> QED
      BY <1>5, <2>3, <3>1 DEF Edit!removePhase
  <2>4. ASSUME NEW i \in 1..(MaxPhases + 1), Edit!savePhaseName(i) PROVE EditInv'
    <3>1. [sheet.names EXCEPT ![i] = MaxPhases + 1] \in Seq(Nat)
      BY <2>1, <2>4 DEF Edit!savePhaseName
    <3> QED
      BY <1>5, <2>4, <3>1 DEF Edit!savePhaseName, Edit!Renamed
  <2> QED
    BY <1>6, <2>2, <2>3, <2>4
<1>7. CASE Edit!savePlan \/ Edit!LeaveSheet
  <2>0. /\ <<>> \in Seq(PhaseLike) /\ <<>> \in Seq(Nat) /\ DOMAIN <<>> = {}
    OBVIOUS
  <2>1. Uniform(sheet'.orig) /\ sheet'.names \in Seq(Nat) /\ {"orig", "names", "moves"} \subseteq DOMAIN sheet'
    BY <1>7, <2>0 DEF Edit!savePlan, Edit!LeaveSheet, Edit!Folded, Uniform
  <2> DEFINE new == Edit!buildDevPlanJson(sheet.orig, sheet.names, Edit!EngineShape(sheet.orig))
  <2>2. Uniform(new)
    BY BuiltIsUsable DEF EditInv
  <2>3. column'.plan \in {column.plan, new} /\ DOMAIN column' = DOMAIN column
    BY <1>7 DEF Edit!savePlan, Edit!LeaveSheet, EditInv
  <2> HIDE DEF new
  <2> QED
    BY <2>1, <2>2, <2>3 DEF EditInv
<1> QED
  BY <1>1, <1>2, <1>3, <1>4, <1>6, <1>7 DEF Numberings, Edit!Next, Edit!Engine, EditVars, Edit!EngineDies,
     Edit!Recovered, Edit!OpenList, Edit!AskFeatures, Edit!reloadFeatures, Edit!addFeature,
     Edit!removeFeature

\* For any functions and any number of phases and moves: what a person makes of a plan the
\* engine builds from is one it builds from, whatever the two write in whatever order
\* (ArchitectView.vue, utils/json.ts, projectRunner.ts).
THEOREM PlansRemainUsable ==
    ASSUME MaxPhases \in Nat
    PROVE  Spec => []PlanStaysUsable
<1> DEFINE Inv == part = "editors" => EditInv
<1>1. Init => Inv
  <2>1. Edit!Init => EditInv
    <3>1. /\ <<>> \in Seq(PhaseLike) /\ <<>> \in Seq(Nat) /\ DOMAIN <<>> = {}
      OBVIOUS
    <3> QED
      BY <3>1 DEF Edit!Init, Edit!Folded, EditInv, Uniform
  <2> QED
    BY <2>1, Beginnings
<1>2. Inv /\ [Next]_all => Inv'
  BY Steps, EditKeeps
<1>3. Inv => PlanStaysUsable
  <2>1. SUFFICES ASSUME EditInv PROVE Edit!PlanStaysUsable
    BY DEF PlanStaysUsable
  <2>2. column.plan # <<>> /\ Edit!EngineShape(column.plan) => Edit!usable(column.plan)
    BY <2>1 DEF EditInv, Uniform, Edit!EngineShape, Edit!usable, Edit!Unstated
  <2> QED
    BY <2>1, <2>2, BuiltIsUsable DEF EditInv, Edit!PlanStaysUsable
<1> QED
  BY <1>1, <1>2, <1>3, PTL DEF Spec, all

-----------------------------------------------------------------------------
\* Pages of the web client

\* A page that heeds it has its timer cleared with the first word that the project is gone,
\* and sets none any more.
PageInv ==
    /\ {"view", "step", "up", "told", "timer", "vain", "haunts"} \subseteq DOMAIN page
    /\ page.step \in {"first", "second", "third", "set"}
    /\ page.told \in BOOLEAN /\ page.timer \in BOOLEAN /\ page.vain \in BOOLEAN
    /\ site.gone \in BOOLEAN /\ {"gone", "card", "asked", "done"} \subseteq DOMAIN site
    /\ \A r \in flying : r.gone \in BOOLEAN
    /\ page.view \in {"list", "plan"} => ~(page.told /\ page.timer)
    /\ page.view \in Page!Heeding => ~page.vain

\* Word of the project on a page leaves a timer only when it says that the project is there.
LEMMA TellKeeps ==
    ASSUME PageInv, NEW gone \in BOOLEAN
    PROVE  LET p == Page!Told(page, gone)
           IN  /\ DOMAIN p = DOMAIN page /\ p.step = page.step /\ p.view = page.view /\ p.vain = page.vain
               /\ p.told \in BOOLEAN /\ p.timer \in BOOLEAN
               /\ page.view \in {"list", "plan"} => ~(p.told /\ p.timer)
BY DEF PageInv, Page!Told, Page!Heeding, Page!Dialogues

\* The invariant where the page has the fields it should and has not asked in vain.
LEMMA PageStays ==
    ASSUME PageInv, DOMAIN page' = DOMAIN page, page'.view = page.view, page'.vain = page.vain,
           page'.step \in {"first", "second", "third", "set"}, page'.told \in BOOLEAN, page'.timer \in BOOLEAN,
           page.view \in {"list", "plan"} => ~(page'.told /\ page'.timer),
           site' = site, \A r \in flying' : r.gone \in BOOLEAN
    PROVE  PageInv'
BY DEF PageInv

\* A page being set up.
LEMMA MountingKeeps ==
    ASSUME PageInv, Page!Mounting
    PROVE  PageInv'
<1> DEFINE p == Page!Told(page, site.gone)
<1>1. /\ DOMAIN p = DOMAIN page /\ p.view = page.view /\ p.vain = page.vain
      /\ p.told \in BOOLEAN /\ p.timer \in BOOLEAN
      /\ page.view \in {"list", "plan"} => ~(p.told /\ p.timer)
  BY TellKeeps DEF PageInv
<1>2. /\ {"view", "step", "up", "told", "timer", "vain", "haunts"} \subseteq DOMAIN page
      /\ UNCHANGED <<site, flying>> /\ \A r \in flying : r.gone \in BOOLEAN
  BY DEF PageInv, Page!Mounting
<1>3. page' \in {[p EXCEPT !.step = "set"], [p EXCEPT !.step = "second"],
                 [p EXCEPT !.step = "third"], Page!Set(p)}
  <2>1. page.step \in {"first", "second", "third"}
    BY DEF PageInv, Page!Mounting
  <2>2. CASE page.step = "first" /\ page.view \in Page!Dialogues
    <3>1. page' = IF site.gone THEN [p EXCEPT !.step = "set"] ELSE [p EXCEPT !.step = "second"]
      BY <2>2 DEF Page!Mounting
    <3> QED
      BY <3>1
  <2>3. CASE page.step = "second" /\ page.view \in Page!Dialogues
    BY <2>3 DEF Page!Mounting
  <2>4. CASE page.step = "third"
    BY <2>4 DEF Page!Mounting
  <2>5. CASE page.step = "first" /\ page.view \notin Page!Dialogues
    BY <2>5 DEF Page!Mounting
  <2>6. CASE page.step = "second" /\ page.view \notin Page!Dialogues
    BY <2>6 DEF Page!Mounting
  <2> QED
    BY <2>1, <2>2, <2>3, <2>4, <2>5, <2>6
<1> DEFINE t == p.view \notin Page!Dialogues \/ ~p.told
<1>31. t \in BOOLEAN
  OBVIOUS
<1>32. PICK b \in BOOLEAN : b = t
  BY <1>31
<1>33. page.view \in {"list", "plan"} => ~(p.told /\ b)
  BY <1>1, <1>32 DEF Page!Dialogues
<1>4. page' \in {[p EXCEPT !.step = "set"], [p EXCEPT !.step = "second"],
                 [p EXCEPT !.step = "third"], [p EXCEPT !.step = "set", !.timer = b]}
  BY <1>3, <1>32 DEF Page!Set
<1> HIDE DEF p, t
<1>5. ASSUME NEW s \in {"set", "second", "third"}, page' = [p EXCEPT !.step = s]
      PROVE  PageInv'
  <2>1. /\ DOMAIN page' = DOMAIN page /\ page'.view = page.view /\ page'.vain = page.vain
        /\ page'.told = p.told /\ page'.timer = p.timer /\ page'.step = s
    BY <1>1, <1>2, <1>5
  <2>2. page'.told \in BOOLEAN /\ page'.timer \in BOOLEAN /\ page'.step \in {"first", "second", "third", "set"}
    BY <1>1, <2>1
  <2>3. page.view \in {"list", "plan"} => ~(page'.told /\ page'.timer)
    BY <1>1, <2>1
  <2>4. site' = site /\ \A r \in flying' : r.gone \in BOOLEAN
    BY <1>2
  <2> QED
    BY <2>1, <2>2, <2>3, <2>4, PageStays
<1>6. ASSUME page' = [p EXCEPT !.step = "set", !.timer = b]
      PROVE  PageInv'
  <2>1. /\ DOMAIN page' = DOMAIN page /\ page'.view = page.view /\ page'.vain = page.vain
        /\ page'.told = p.told /\ page'.timer = b /\ page'.step = "set"
    BY <1>1, <1>2, <1>6
  <2>2. page'.told \in BOOLEAN /\ page'.timer \in BOOLEAN /\ page'.step \in {"first", "second", "third", "set"}
    <3>1. page'.told \in BOOLEAN
      BY <1>1, <2>1
    <3>2. page'.timer \in BOOLEAN
      BY <1>32, <2>1
    <3>3. page'.step \in {"first", "second", "third", "set"}
      BY <2>1
    <3> QED
      BY <3>1, <3>2, <3>3
  <2>3. page.view \in {"list", "plan"} => ~(page'.told /\ page'.timer)
    BY <1>1, <1>33, <2>1
  <2>4. site' = site /\ \A r \in flying' : r.gone \in BOOLEAN
    BY <1>2
  <2> QED
    BY <2>1, <2>2, <2>3, <2>4, PageStays
<1> QED
  BY <1>4, <1>5, <1>6

\* A poll goes out only from a page that has a timer and, on the panel, has not been told.
LEMMA TickKeeps ==
    ASSUME PageInv, Page!Tick
    PROVE  PageInv'
<1>1. PICK kind \in Page!Wanting :
          /\ page.view \in Page!Panel => ~page.told
          /\ flying' = flying \cup {Page!Poll(kind)}
  BY DEF Page!Tick
<1>2. /\ page.timer /\ UNCHANGED site
      /\ page' = [page EXCEPT !.vain = @ \/ page.told, !.haunts = @ \/ ~page.up]
  BY DEF Page!Tick
<1>3. page.view \in Page!Heeding => ~page.told
  BY <1>1, <1>2 DEF PageInv, Page!Heeding, Page!Dialogues, Page!Panel
<1>4. \A r \in flying' : r.gone \in BOOLEAN
  BY <1>1 DEF PageInv, Page!Poll
<1>5. /\ DOMAIN page' = DOMAIN page /\ page'.view = page.view
      /\ page'.told = page.told /\ page'.timer = page.timer /\ page'.step = page.step
      /\ page'.vain = (page.vain \/ page.told)
  BY <1>2 DEF PageInv
<1> QED
  BY <1>2, <1>3, <1>4, <1>5 DEF PageInv

\* Every step of a page, of the project and of the person.
LEMMA PageKeeps ==
    ASSUME PageInv, [Page!Next]_PageVars
    PROVE  PageInv'
<1>0. /\ page.told \in BOOLEAN /\ page.timer \in BOOLEAN
      /\ page.view \in {"list", "plan"} => ~(page.told /\ page.timer)
      /\ \A r \in flying : r.gone \in BOOLEAN
      /\ site.gone \in BOOLEAN /\ page.step \in {"first", "second", "third", "set"}
      /\ {"view", "step", "up", "told", "timer", "vain", "haunts"} \subseteq DOMAIN page
  BY DEF PageInv
<1>1. CASE UNCHANGED <<site, page>> /\ \A r \in flying' : r.gone \in BOOLEAN
  BY <1>0, <1>1, PageStays
<1>2. CASE Page!Asked \/ Page!Settled \/ Page!TaskDone \/ Page!Deleted \/ Page!Submit
  <2>1. /\ UNCHANGED <<page, flying>> /\ site'.gone \in BOOLEAN
        /\ {"gone", "card", "asked", "done"} \subseteq DOMAIN site'
    BY <1>2 DEF PageInv, Page!Asked, Page!Settled, Page!TaskDone, Page!Deleted, Page!Submit
  <2> QED
    BY <2>1 DEF PageInv
<1>3. CASE Page!Leave
  <2>1. /\ UNCHANGED <<site, flying>>
        /\ DOMAIN page' = DOMAIN page /\ page'.view = page.view /\ page'.vain = page.vain
        /\ page'.told = page.told /\ page'.timer = FALSE /\ page'.step = page.step
    BY <1>0, <1>3 DEF Page!Leave
  <2> QED
    BY <1>0, <2>1, PageStays
<1>4. ASSUME NEW gone \in BOOLEAN, page' = Page!Told(page, gone), site' = site,
             flying' \subseteq flying
      PROVE  PageInv'
  <2>1. /\ DOMAIN page' = DOMAIN page /\ page'.view = page.view /\ page'.vain = page.vain
        /\ page'.step = page.step /\ page'.told \in BOOLEAN /\ page'.timer \in BOOLEAN
        /\ page.view \in {"list", "plan"} => ~(page'.told /\ page'.timer)
    BY <1>4, TellKeeps
  <2> QED
    BY <1>0, <1>4, <2>1, PageStays
<1>5. CASE Page!Arrives
  BY <1>0, <1>4, <1>5 DEF Page!Arrives
<1>6. CASE Page!Submitted
  BY <1>0, <1>4, <1>6 DEF Page!Submitted
<1>7. CASE \E f \in 1..Files : Page!openFile(f)
  <2>1. PICK f \in 1..Files : Page!openFile(f)
    BY <1>7
  <2>2. flying' \in {flying, flying \cup {[kind |-> "open", gone |-> site.gone, of |-> f]}}
        /\ UNCHANGED <<site, page>>
    BY <2>1 DEF Page!openFile
  <2> QED
    BY <1>0, <1>1, <2>2
<1>8. CASE \/ Page!Fails \/ Page!Write \/ Page!onUserEdit \/ Page!closeTab \/ Page!Stay
           \/ UNCHANGED PageVars
  <2>1. UNCHANGED <<site, page>> /\ flying' \subseteq flying
    BY <1>8 DEF Page!Fails, Page!Write, Page!onUserEdit, Page!closeTab, Page!Stay, Page!vars,
       PageVars
  <2> QED
    BY <1>0, <1>1, <2>1
<1> QED
  BY <1>2, <1>3, <1>5, <1>6, <1>7, <1>8, MountingKeeps, TickKeeps DEF Page!Next

\* For any cards, files and polls on their way: a dialogue or the panel, once it has been
\* told that the project is gone, asks no more by its timer (CreateProjectView.vue,
\* ArchitectView.vue, ExecutionView.vue, utils/usePolling.ts).
THEOREM ToldPagesAreQuiet ==
    Spec => []GoneIsLeftAlone
<1> DEFINE Inv == part = "pages" => PageInv
<1>1. Init => Inv
  <2>1. Page!Init => PageInv
    <3>1. SUFFICES ASSUME Page!Init PROVE PageInv
      OBVIOUS
    <3>2. PICK v \in Views :
              page = [view |-> v, step |-> IF v = "detail" THEN "set" ELSE "first", up |-> TRUE,
                      told |-> FALSE, timer |-> v = "detail", vain |-> FALSE, haunts |-> FALSE]
      BY <3>1 DEF Page!Init
    <3>3. /\ page.step \in {"first", "second", "third", "set"} /\ page.told = FALSE /\ page.vain = FALSE /\ page.timer \in BOOLEAN
          /\ {"view", "step", "up", "told", "timer", "vain", "haunts"} \subseteq DOMAIN page
      BY <3>2
    <3>4. /\ site = [gone |-> FALSE, card |-> 0, asked |-> 0, done |-> 0] /\ flying = {}
      BY <3>1 DEF Page!Init
    <3> QED
      BY <3>3, <3>4 DEF PageInv
  <2> QED
    BY <2>1, Beginnings
<1>2. Inv /\ [Next]_all => Inv'
  BY Steps, PageKeeps
<1>3. Inv => GoneIsLeftAlone
  BY DEF PageInv, GoneIsLeftAlone, Page!GoneIsLeftAlone
<1> QED
  BY <1>1, <1>2, <1>3, PTL DEF Spec, all

-----------------------------------------------------------------------------
\* Test agent

\* A call that has been let through: the leave it has is good for it.
Cleared(m, always) ==
    /\ m.call \notin {"edit outside", "ruin"}
    /\ m.call = "unlisted" =>
          \/ m.leave \in {"once", "always"} \/ duty.yes
          \/ m.leave = "kept" /\ always
    /\ m.call = "edit" /\ duty.skill # "none" => m.read

Sound(m, always) ==
    /\ "at" \in DOMAIN m
    /\ m.at # "off" => {"at", "i", "max", "extended", "reminders", "read", "call", "leave", "capped"}
                           \subseteq DOMAIN m
    /\ m.at = "acts" => Cleared(m, always)
    /\ m.at = "asks" => m.call = "unlisted"

TagInv ==
    /\ DOMAIN minds = 1..Lines /\ alive \in 0..Lines
    /\ \A a \in DOMAIN minds : Sound(minds[a], did.always)
    /\ {"call", "read", "leave", "always", "ran", "changed"} \subseteq DOMAIN did
    /\ trusted # {} => did.always
    /\ Tag!NothingWithoutLeave

\* A mind that is put in its place, with nothing else that matters changed.
LEMMA PutKeeps ==
    ASSUME TagInv, NEW a, NEW m, Tag!Put(a, m), Sound(m, did.always),
           UNCHANGED <<duty, trusted, did>>, alive' \in 0..Lines
    PROVE  TagInv'
<1>1. \A b \in DOMAIN minds' : Sound(minds'[b], did.always)
  BY DEF TagInv, Tag!Put
<1>2. \A b \in DOMAIN minds' : (Sound(minds[b], did.always))'
  BY <1>1 DEF Sound, Cleared
<1>3. DOMAIN minds' = 1..Lines
  BY DEF TagInv, Tag!Put
<1>4. Tag!NothingWithoutLeave'
  BY DEF TagInv, Tag!NothingWithoutLeave
<1> QED
  BY <1>2, <1>3, <1>4 DEF TagInv

\* The places of a loop in which nothing has been let through.
LEMMA PlacesAreSound ==
    ASSUME NEW m, Sound(m, did.always), m.at # "off", NEW n, DOMAIN n = DOMAIN m,
           n.at \notin {"off", "acts", "asks"}
    PROVE  Sound(n, did.always)
BY DEF Sound

\* The next thing the model does with its loop.
LEMMA DealtIsSound ==
    ASSUME NEW a, NEW m, Tag!Dealt(a, m), Sound(m, did.always), m.at # "off"
    PROVE  \E n : Tag!Put(a, n) /\ Sound(n, did.always)
<1>1. {"at", "i", "max", "extended", "reminders", "read", "call", "leave", "capped"} \subseteq DOMAIN m
  BY DEF Sound
<1>2. CASE Tag!Put(a, [m EXCEPT !.at = "top", !.i = IF duty.kind = "session" THEN 0 ELSE @ + 1,
                                !.call = "no tool", !.leave = "none"])
  <2> DEFINE i == IF duty.kind = "session" THEN 0 ELSE m.i + 1
             n == [m EXCEPT !.at = "top", !.i = i, !.call = "no tool", !.leave = "none"]
  <2>1. Tag!Put(a, n)
    BY <1>2
  <2> HIDE DEF i
  <2>2. DOMAIN n = DOMAIN m /\ n.at = "top"
    BY <1>1
  <2> QED
    BY <2>1, <2>2, PlacesAreSound
<1>3. ASSUME NEW c \in Tag!Calls, Tag!Put(a, [m EXCEPT !.at = "called", !.call = c])
      PROVE  \E n : Tag!Put(a, n) /\ Sound(n, did.always)
  <2> DEFINE n == [m EXCEPT !.at = "called", !.call = c]
  <2>1. DOMAIN n = DOMAIN m /\ n.at = "called"
    BY <1>1
  <2> QED
    BY <1>3, <2>1, PlacesAreSound
<1> QED
  BY <1>2, <1>3 DEF Tag!Dealt

\* The model is asked: it answers, or wants a tool.
LEMMA ThinkKeeps ==
    ASSUME TagInv, NEW a \in DOMAIN minds, Tag!runAgent(a)
    PROVE  TagInv'
<1> DEFINE m == Tag!Reminded(Tag!AtTop(minds[a]))
<1>1. /\ Sound(minds[a], did.always) /\ minds[a].at = "top"
      /\ {"at", "i", "max", "extended", "reminders", "read", "call", "leave", "capped"}
             \subseteq DOMAIN minds[a]
  BY DEF TagInv, Sound, Tag!runAgent
<1>2. DOMAIN m = DOMAIN minds[a]
  BY <1>1 DEF Tag!Reminded, Tag!AtTop
<1>3. \/ Tag!Put(a, [m EXCEPT !.at = "said", !.capped = TRUE])
      \/ Tag!Put(a, [m EXCEPT !.at = "said"])
      \/ \E c \in Tag!Calls : Tag!Put(a, [m EXCEPT !.at = "called", !.call = c])
  BY DEF Tag!runAgent
<1> HIDE DEF m
<1>4. UNCHANGED <<duty, trusted, did>>
  BY DEF Tag!runAgent
<1>20. alive' \in 0..Lines
  BY DEF Tag!runAgent, TagInv
<1>5. ASSUME NEW n, Tag!Put(a, n), DOMAIN n = DOMAIN minds[a], n.at \in {"said", "called"}
      PROVE  TagInv'
  BY <1>1, <1>4, <1>5, <1>20, PlacesAreSound, PutKeeps
<1>6. CASE Tag!Put(a, [m EXCEPT !.at = "said", !.capped = TRUE])
  <2>1. LET n == [m EXCEPT !.at = "said", !.capped = TRUE]
        IN  DOMAIN n = DOMAIN minds[a] /\ n.at = "said"
    BY <1>1, <1>2
  <2> QED
    BY <1>5, <1>6, <2>1
<1>7. CASE Tag!Put(a, [m EXCEPT !.at = "said"])
  <2>1. LET n == [m EXCEPT !.at = "said"]
        IN  DOMAIN n = DOMAIN minds[a] /\ n.at = "said"
    BY <1>1, <1>2
  <2> QED
    BY <1>5, <1>7, <2>1
<1>8. ASSUME NEW c \in Tag!Calls, Tag!Put(a, [m EXCEPT !.at = "called", !.call = c]) PROVE TagInv'
  <2>1. LET n == [m EXCEPT !.at = "called", !.call = c]
        IN  DOMAIN n = DOMAIN minds[a] /\ n.at = "called"
    BY <1>1, <1>2
  <2> QED
    BY <1>5, <1>8, <2>1
<1> QED
  BY <1>3, <1>6, <1>7, <1>8

\* What is let through by the gate of itself, and what it asks for.
LEMMA GateKeeps ==
    ASSUME TagInv, NEW a \in DOMAIN minds, Tag!gate(a)
    PROVE  TagInv'
<1> DEFINE m == minds[a]
<1>1. /\ Sound(m, did.always) /\ m.at = "called"
      /\ {"at", "i", "max", "extended", "reminders", "read", "call", "leave", "capped"} \subseteq DOMAIN m
      /\ UNCHANGED <<duty, trusted, did>> /\ alive' \in 0..Lines
  BY DEF TagInv, Sound, Tag!gate
<1>2. CASE Tag!Refuse(a, m)
  BY <1>1, <1>2, DealtIsSound, PutKeeps DEF Tag!Refuse
<1>3. ASSUME ~Tag!requireSkillReads(m), Tag!checkPermission(m.call) = "allow", NEW leave,
             leave = IF Tag!Decision(m.call) = "allow" THEN "rule"
                     ELSE IF duty.yes THEN "start" ELSE "kept",
             Tag!Admit(a, m, leave)
      PROVE  TagInv'
  <2> DEFINE n == [m EXCEPT !.at = "acts", !.leave = leave]
  <2>1. Tag!Put(a, n)
    BY <1>3 DEF Tag!Admit
  <2>2. /\ DOMAIN n = DOMAIN m /\ n.at = "acts" /\ n.call = m.call /\ n.leave = leave /\ n.read = m.read
    BY <1>1
  <2>3. m.call \notin {"edit outside", "ruin"}
    BY <1>3 DEF Tag!checkPermission, Tag!Decision, Tag!decidePath, Tag!decideBash
  <2>4. m.call = "unlisted" => (duty.yes \/ (leave = "kept" /\ did.always))
    <3>1. SUFFICES ASSUME m.call = "unlisted", ~duty.yes PROVE leave = "kept" /\ did.always
      OBVIOUS
    <3>2. Tag!Decision(m.call) = "ask"
      BY <3>1 DEF Tag!Decision, Tag!decideBash
    <3>3. m.call \in trusted
      BY <1>3, <3>1, <3>2 DEF Tag!checkPermission
    <3> QED
      BY <1>3, <3>1, <3>2, <3>3 DEF TagInv
  <2>5. m.call = "edit" /\ duty.skill # "none" => m.read
    BY <1>3 DEF Tag!requireSkillReads
  <2> HIDE DEF n
  <2>6. Sound(n, did.always)
    BY <1>1, <2>2, <2>3, <2>4, <2>5 DEF Sound, Cleared
  <2> QED
    BY <1>1, <2>1, <2>6, PutKeeps
<1>4. CASE Tag!checkPermission(m.call) = "ask" /\ Tag!Put(a, [m EXCEPT !.at = "asks"])
  <2> DEFINE n == [m EXCEPT !.at = "asks"]
  <2>1. DOMAIN n = DOMAIN m /\ n.at = "asks" /\ n.call = m.call
    BY <1>1
  <2>2. m.call = "unlisted"
    BY <1>4 DEF Tag!checkPermission, Tag!Decision, Tag!decidePath, Tag!decideBash
  <2> HIDE DEF n
  <2>3. Sound(n, did.always)
    BY <1>1, <2>1, <2>2 DEF Sound
  <2> QED
    BY <1>1, <1>4, <2>3, PutKeeps DEF n
<1>5. CASE Tag!Put(a, [m EXCEPT !.at = "lost"])
  <2> DEFINE n == [m EXCEPT !.at = "lost"]
  <2>1. DOMAIN n = DOMAIN m /\ n.at = "lost"
    BY <1>1
  <2> HIDE DEF n
  <2> QED
    BY <1>1, <1>5, <2>1, PlacesAreSound, PutKeeps DEF n
<1> QED
  BY <1>2, <1>3, <1>4, <1>5 DEF Tag!gate

\* The word of a person is good for the call it was asked for.
LEMMA AskedKeeps ==
    ASSUME TagInv, NEW a \in DOMAIN minds, Tag!confirmer(a)
    PROVE  TagInv'
<1> DEFINE m == minds[a]
<1>1. /\ Sound(m, did.always) /\ m.at = "asks" /\ m.call = "unlisted" /\ UNCHANGED duty
      /\ {"at", "i", "max", "extended", "reminders", "read", "call", "leave", "capped"} \subseteq DOMAIN m
  BY DEF TagInv, Sound, Tag!confirmer
<1>2. PICK given \in {"once", "always", "no"} :
          /\ IF given = "no" THEN Tag!Refuse(a, m) ELSE Tag!Admit(a, m, given)
          /\ trusted' = IF Tag!Remembered(given) THEN trusted \union {m.call} ELSE trusted
          /\ did' = [did EXCEPT !.always = @ \/ given = "always"]
  BY DEF Tag!confirmer
<1>3. /\ DOMAIN did' = DOMAIN did /\ did'.call = did.call /\ did'.leave = did.leave
      /\ did'.read = did.read /\ did'.always = (did.always \/ given = "always")
  BY <1>2 DEF TagInv
<1>20. did.always => did'.always
  BY <1>3
<1>4. \A b \in DOMAIN minds : Sound(minds[b], did'.always)
  <2>1. \A b \in DOMAIN minds : Sound(minds[b], did.always)
    BY DEF TagInv
  <2> QED
    BY <1>20, <2>1 DEF Sound, Cleared
<1>5. Tag!NothingWithoutLeave'
  BY <1>1, <1>3, <1>20 DEF TagInv, Tag!NothingWithoutLeave
<1>6. trusted' # {} => did'.always
  <2>1. CASE given = "always"
    BY <1>3, <2>1
  <2>2. CASE given # "always"
    BY <1>2, <1>20, <2>2 DEF TagInv, Tag!Remembered
  <2> QED
    BY <2>1, <2>2
<1>7. \E n : Tag!Put(a, n) /\ Sound(n, did'.always)
  <2>1. CASE given = "no"
    <3>1. \E n : Tag!Put(a, n) /\ Sound(n, did.always)
      BY <1>1, <1>2, <2>1, DealtIsSound DEF Tag!Refuse
    <3> QED
      BY <1>20, <3>1 DEF Sound, Cleared
  <2>2. CASE given # "no"
    <3> DEFINE n == [m EXCEPT !.at = "acts", !.leave = given]
    <3>1. Tag!Put(a, n)
      BY <1>2, <2>2 DEF Tag!Admit
    <3>2. DOMAIN n = DOMAIN m /\ n.at = "acts" /\ n.call = m.call /\ n.leave = given
      BY <1>1
    <3> HIDE DEF n
    <3>3. Sound(n, did'.always)
      BY <1>1, <2>2, <3>2 DEF Sound, Cleared
    <3> QED
      BY <3>1, <3>3
  <2> QED
    BY <2>1, <2>2
<1>8. \A b \in DOMAIN minds' : Sound(minds'[b], did'.always)
  BY <1>4, <1>7 DEF Tag!Put
<1>9. DOMAIN minds' = 1..Lines /\ alive' \in 0..Lines
  BY <1>7 DEF TagInv, Tag!Put, Tag!confirmer
<1>10. \A b \in DOMAIN minds' : Sound(minds[b], did.always)'
  BY <1>1, <1>8 DEF Sound, Cleared
<1> QED
  BY <1>3, <1>5, <1>6, <1>9, <1>10 DEF TagInv

\* What is carried out is what was let through.
LEMMA ActKeeps ==
    ASSUME TagInv, NEW a \in DOMAIN minds, Tag!act(a)
    PROVE  TagInv'
<1> DEFINE m == minds[a]
           k == IF m.call = "read skill" THEN [m EXCEPT !.read = TRUE] ELSE m
<1>1. /\ Sound(m, did.always) /\ m.at = "acts" /\ UNCHANGED <<duty, trusted>>
      /\ {"at", "i", "max", "extended", "reminders", "read", "call", "leave", "capped"} \subseteq DOMAIN m
  BY DEF TagInv, Sound, Tag!act
<1>2. PICK writes \in Tag!Effects(m.call) :
          did' = [did EXCEPT !.call = m.call, !.read = m.read, !.leave = m.leave,
                             !.ran = @ \/ m.call \in {"daily", "unlisted"},
                             !.changed = @ \/ writes]
  BY DEF Tag!act
<1>3. /\ DOMAIN did' = DOMAIN did /\ did'.call = m.call /\ did'.leave = m.leave
      /\ did'.read = m.read /\ did'.always = did.always
  BY <1>2 DEF TagInv
<1>4. Tag!NothingWithoutLeave'
  BY <1>1, <1>3 DEF Tag!NothingWithoutLeave, Sound, Cleared
<1>5. Tag!Dealt(a, k)
  BY DEF Tag!act
<1>6. k.at = "acts" /\ DOMAIN k = DOMAIN m /\ k.call = m.call /\ k.leave = m.leave
      /\ (m.call = "edit" => k.read = m.read)
  BY <1>1
<1> HIDE DEF k
<1>7. Sound(k, did.always)
  BY <1>1, <1>6 DEF Sound, Cleared
<1>8. PICK n : Tag!Put(a, n) /\ Sound(n, did.always)
  BY <1>5, <1>6, <1>7, DealtIsSound
<1>9. \A b \in DOMAIN minds' : Sound(minds'[b], did'.always)
  BY <1>3, <1>8 DEF TagInv, Tag!Put
<1>10. DOMAIN minds' = 1..Lines /\ alive' \in 0..Lines
  BY <1>8 DEF TagInv, Tag!Put, Tag!act
<1>11. \A b \in DOMAIN minds' : Sound(minds[b], did.always)'
  BY <1>1, <1>9 DEF Sound, Cleared
<1> QED
  BY <1>1, <1>3, <1>4, <1>10, <1>11 DEF TagInv

\* A loop that is begun, and one that ends with the program.
LEMMA BegunIsSound ==
    Sound(Tag!Fresh, did.always) /\ Sound(Tag!Asleep, did.always)
BY DEF Sound, Tag!Fresh, Tag!Asleep

\* Every step of the test agent.
LEMMA TagKeeps ==
    ASSUME Lines \in Nat \ {0}, TagInv, [Tag!Next]_TagVars
    PROVE  TagInv'
<1>0. /\ 1..alive \subseteq DOMAIN minds /\ alive \in 0..Lines /\ 1 \in 0..Lines
      /\ alive < Lines => alive + 1 \in 0..Lines
  BY DEF TagInv
<1>1. ASSUME UNCHANGED <<duty, trusted, did, minds, alive>> PROVE TagInv'
  BY <1>1 DEF TagInv, Tag!NothingWithoutLeave, Sound, Cleared
<1>2. ASSUME NEW a, NEW m \in {Tag!Fresh, Tag!Asleep}, Tag!Put(a, m), alive' \in 0..Lines,
             UNCHANGED <<duty, trusted, did>>
      PROVE  TagInv'
  BY <1>2, BegunIsSound, PutKeeps
<1>3. CASE Tag!runRepair \/ Tag!runAgain \/ Tag!runAuto \/ Tag!line \/ Tag!autoEnds
  <2>1. /\ UNCHANGED <<duty, trusted, did>>
        /\ UNCHANGED <<minds, alive>>
           \/ \E a \in {1, alive + 1} : Tag!Put(a, Tag!Fresh) /\ alive' = a /\ alive' \in 0..Lines
    BY <1>0, <1>3 DEF Tag!runRepair, Tag!runAgain, Tag!runAuto, Tag!line, Tag!autoEnds, Tag!StartLoop
  <2> QED
    BY <1>1, <1>2, <2>1
<1>4. ASSUME NEW a, Tag!fails(a) PROVE TagInv'
  BY <1>0, <1>2, <1>4 DEF Tag!fails
<1>5. CASE Tag!Still \/ UNCHANGED TagVars
  BY <1>1, <1>5 DEF Tag!Still, Tag!vars, TagVars
<1>6. CASE \E a \in 1..alive :
               Tag!runAgent(a) \/ Tag!gate(a) \/ Tag!confirmer(a) \/ Tag!act(a) \/ Tag!fails(a)
  BY <1>0, <1>4, <1>6, ThinkKeeps, GateKeeps, AskedKeeps, ActKeeps
<1> QED
  BY <1>3, <1>5, <1>6 DEF Tag!Next

\* For any iterations, rounds and tasks: the test agent carries out no call without leave that
\* is good for it, whatever its loops and the person do in whatever order (permission.ts,
\* main.ts, tool.ts of testAgent).
THEOREM LeaveIsGiven ==
    ASSUME Lines \in Nat \ {0}
    PROVE  Spec => []NothingWithoutLeave
<1> DEFINE Inv == part = "agent" => TagInv
<1>1. Init => Inv
  <2>1. Tag!Init => TagInv
    <3>1. SUFFICES ASSUME Tag!Init PROVE TagInv
      OBVIOUS
    <3>2. /\ minds = [a \in 1..Lines |-> Tag!Asleep] /\ alive = 0 /\ trusted = {}
          /\ did = [call |-> "no tool", read |-> FALSE, leave |-> "none",
                    always |-> FALSE, ran |-> FALSE, changed |-> FALSE]
      BY <3>1 DEF Tag!Init
    <3>3. \A a \in DOMAIN minds : Sound(minds[a], did.always)
      BY <3>2, BegunIsSound
    <3> QED
      <4>1. DOMAIN minds = 1..Lines /\ alive \in 0..Lines /\ Tag!NothingWithoutLeave
        <5>1. 0 \in 0..Lines
          OBVIOUS
        <5> QED
          BY <3>2, <5>1 DEF Tag!NothingWithoutLeave
      <4>2. {"call", "read", "leave", "always", "ran", "changed"} \subseteq DOMAIN did
        BY <3>2
      <4> QED
        BY <3>2, <3>3, <4>1, <4>2 DEF TagInv
  <2> QED
    BY <2>1, Beginnings
<1>2. Inv /\ [Next]_all => Inv'
  BY Steps, TagKeeps
<1>3. Inv => NothingWithoutLeave
  BY DEF TagInv, NothingWithoutLeave
<1> QED
  BY <1>1, <1>2, <1>3, PTL DEF Spec, all

\* Before the end there is no result, and the measurement a result rests on is the last there is.
MeasureInv ==
    /\ stage # "end" => result = "none"
    /\ Tag!MeasuredNotClaimed

LEMMA MeasureKeeps ==
    ASSUME MeasureInv, [Tag!Next]_TagVars
    PROVE  MeasureInv'
<1> USE DEF MeasureInv, Tag!MeasuredNotClaimed
<1>1. ASSUME result' = result, measured' = measured,
             stage' = stage \/ (stage # "end" /\ stage' # "end")
      PROVE  MeasureInv'
  BY <1>1
<1>2. ASSUME NEW a, stage = "loop",
             Tag!runAgent(a) \/ Tag!gate(a) \/ Tag!confirmer(a) \/ Tag!act(a) \/ Tag!fails(a)
      PROVE  MeasureInv'
  <2>1. CASE Tag!runAgent(a) \/ Tag!gate(a) \/ Tag!confirmer(a)
    BY <1>1, <2>1 DEF Tag!runAgent, Tag!gate, Tag!confirmer
  <2>2. CASE Tag!act(a)
    BY <1>2, <2>2 DEF Tag!act
  <2>3. CASE Tag!fails(a)
    BY <2>3 DEF Tag!fails
  <2> QED
    BY <1>2, <2>1, <2>2, <2>3
<1>3. CASE Tag!runRepair
  BY <1>3 DEF Tag!runRepair, Tag!execOnce, Tag!Exits
<1>4. CASE Tag!runAgain
  BY <1>4 DEF Tag!runAgain, Tag!execOnce, Tag!Exits, Tag!Repaired
<1>5. CASE Tag!runAuto
  BY <1>5 DEF Tag!runAuto
<1>6. CASE Tag!autoEnds
  BY <1>6 DEF Tag!autoEnds, Tag!parseVerdict
<1>7. CASE Tag!line
  BY <1>1, <1>7 DEF Tag!line
<1>8. CASE Tag!Still \/ UNCHANGED TagVars
  BY <1>1, <1>8 DEF Tag!Still, Tag!vars, TagVars
<1> QED
  BY <1>2, <1>3, <1>4, <1>5, <1>6, <1>7, <1>8 DEF Tag!Next

\* For any iterations and rounds: a repair is called done only upon a green run of the command that
\* had failed, after which no tool was used (runRepair of testAgent/src/main.ts).
THEOREM RepairsAreMeasured == Spec => []MeasuredNotClaimed
<1> DEFINE Inv == part = "agent" => MeasureInv
<1>1. Init => Inv
  BY Beginnings DEF Tag!Init, MeasureInv, Tag!MeasuredNotClaimed
<1>2. Inv /\ [Next]_all => Inv'
  BY Steps, MeasureKeeps
<1>3. Inv => MeasuredNotClaimed
  BY DEF MeasureInv, MeasuredNotClaimed
<1> QED
  BY <1>1, <1>2, <1>3, PTL DEF Spec, all

\* A loop has its budget, or the raised one once it was reprieved.
Budgeted(m) ==
    /\ "at" \in DOMAIN m
    /\ m.at # "off" =>
          /\ {"i", "max", "extended", "reminders", "read", "call", "leave", "capped"} \subseteq DOMAIN m
          /\ \/ m.extended = FALSE /\ m.max = Iterations
             \/ m.extended = TRUE /\ m.max = Tag!BUDGET_EXTEND_FACTOR(Iterations)

BudgetInv == DOMAIN minds = 1..Lines /\ alive \in 0..Lines /\ \A a \in 1..Lines : Budgeted(minds[a])

\* What is neither the budget nor the reprieve leaves a loop in its budget.
LEMMA BudgetStays ==
    ASSUME NEW m, Budgeted(m), m.at # "off", NEW n, DOMAIN n = DOMAIN m,
           n.max = m.max, n.extended = m.extended
    PROVE  Budgeted(n)
BY DEF Budgeted

LEMMA BudgetPut ==
    ASSUME BudgetInv, NEW a, NEW n, Tag!Put(a, n), Budgeted(n), alive' \in 0..Lines
    PROVE  BudgetInv'
BY DEF BudgetInv, Tag!Put

LEMMA BudgetDealt ==
    ASSUME BudgetInv, NEW a, NEW m, Budgeted(m), m.at # "off", Tag!Dealt(a, m), alive' = alive
    PROVE  BudgetInv'
<1> DEFINE i == IF duty.kind = "session" THEN 0 ELSE m.i + 1
           top == [m EXCEPT !.at = "top", !.i = i, !.call = "no tool", !.leave = "none"]
           next(c) == [m EXCEPT !.at = "called", !.call = c]
<1>1. Tag!Put(a, top) \/ \E c \in Tag!Calls : Tag!Put(a, next(c))
  BY DEF Tag!Dealt
<1>2. Budgeted(top)
  <2> HIDE DEF i
  <2>1. DOMAIN top = DOMAIN m /\ top.max = m.max /\ top.extended = m.extended
    BY DEF Budgeted
  <2> HIDE DEF top
  <2> QED
    BY <2>1, BudgetStays
<1>3. ASSUME NEW c PROVE Budgeted(next(c))
  <2>1. DOMAIN next(c) = DOMAIN m /\ next(c).max = m.max /\ next(c).extended = m.extended
    BY DEF Budgeted
  <2> HIDE DEF next
  <2> QED
    BY <2>1, BudgetStays
<1>4. alive' \in 0..Lines
  BY DEF BudgetInv
<1> HIDE DEF top, next
<1> QED
  BY <1>1, <1>2, <1>3, <1>4, BudgetPut

LEMMA BudgetKeeps ==
    ASSUME Lines \in Nat \ {0}, BudgetInv, [Tag!Next]_TagVars
    PROVE  BudgetInv'
<1>0. /\ \A a \in 1..alive : a \in 1..Lines /\ Budgeted(minds[a])
      /\ alive \in 0..Lines /\ 1 \in 0..Lines /\ (alive < Lines => alive + 1 \in 0..Lines)
  BY DEF BudgetInv
<1>1. Budgeted(Tag!Fresh) /\ Budgeted(Tag!Asleep)
  BY DEF Budgeted, Tag!Fresh, Tag!Asleep
<1>2. ASSUME UNCHANGED <<minds, alive>> PROVE BudgetInv'
  BY <1>2 DEF BudgetInv
<1>3. ASSUME NEW a \in 1..alive, Tag!runAgent(a) PROVE BudgetInv'
  <2> DEFINE m0 == minds[a]
             m1 == Tag!AtTop(m0)
             m == Tag!Reminded(m1)
  <2>1. Budgeted(m0) /\ m0.at = "top"
    BY <1>0, <1>3 DEF Tag!runAgent
  <2>2. /\ DOMAIN m1 = DOMAIN m0 /\ m1.at = "top"
        /\ \/ m1 = m0
           \/ /\ m0.extended # TRUE /\ m1.extended = TRUE
              /\ m1.max = Tag!BUDGET_EXTEND_FACTOR(m0.max)
    <3> HIDE DEF m0
    <3> QED
      BY <2>1 DEF Tag!AtTop, Tag!Reprieved, Budgeted
  <2>3. Budgeted(m1)
    <3> HIDE DEF m0, m1
    <3> QED
      BY <2>1, <2>2 DEF Budgeted
  <2>4. DOMAIN m = DOMAIN m1 /\ m.at = "top" /\ m.max = m1.max /\ m.extended = m1.extended
    <3> HIDE DEF m0, m1
    <3> QED
      BY <2>2, <2>3 DEF Tag!Reminded, Budgeted
  <2>5. Budgeted(m) /\ m.at # "off"
    <3> HIDE DEF m0, m1, m
    <3> QED
      BY <2>2, <2>3, <2>4, BudgetStays
  <2> DEFINE capped == [m EXCEPT !.at = "said", !.capped = TRUE]
             silent == [m EXCEPT !.at = "said"]
             called(c) == [m EXCEPT !.at = "called", !.call = c]
  <2>6. Tag!Put(a, capped) \/ Tag!Put(a, silent) \/ \E c \in Tag!Calls : Tag!Put(a, called(c))
    BY <1>3 DEF Tag!runAgent
  <2>7. alive' \in 0..Lines
    BY <1>0, <1>3 DEF Tag!runAgent
  <2> HIDE DEF m
  <2>8. Budgeted(capped) /\ Budgeted(silent) /\ \A c : Budgeted(called(c))
    BY <2>5 DEF Budgeted
  <2> HIDE DEF capped, silent, called
  <2> QED
    BY <2>6, <2>7, <2>8, BudgetPut
<1>4. ASSUME NEW a \in 1..alive, NEW place \in {"asks", "lost", "acts"}, NEW leave,
             \/ Tag!Put(a, [minds[a] EXCEPT !.at = place])
             \/ Tag!Put(a, [minds[a] EXCEPT !.at = place, !.leave = leave]),
             minds[a].at # "off", alive' = alive
      PROVE  BudgetInv'
  <2> DEFINE m == minds[a]
  <2>1. Budgeted(m) /\ m.at # "off"
    BY <1>0, <1>4
  <2> DEFINE there == [m EXCEPT !.at = place]
             granted == [m EXCEPT !.at = place, !.leave = leave]
  <2>2. Tag!Put(a, there) \/ Tag!Put(a, granted)
    BY <1>4
  <2> HIDE DEF m
  <2>3. Budgeted(there) /\ Budgeted(granted)
    BY <2>1 DEF Budgeted
  <2>4. alive' \in 0..Lines
    <3>1. alive \in 0..Lines
      BY Zenon DEF BudgetInv
    <3> QED
      BY <1>4, <3>1
  <2> HIDE DEF there, granted
  <2> QED
    BY <2>2, <2>3, <2>4, BudgetPut
<1>5. ASSUME NEW a \in 1..alive, Tag!gate(a) PROVE BudgetInv'
  <2>1. minds[a].at = "called" /\ alive' = alive
    BY <1>5 DEF Tag!gate
  <2>2. \/ Tag!Refuse(a, minds[a])
        \/ \E leave : Tag!Admit(a, minds[a], leave)
        \/ Tag!Put(a, [minds[a] EXCEPT !.at = "asks"])
        \/ Tag!Put(a, [minds[a] EXCEPT !.at = "lost"])
    BY <1>5 DEF Tag!gate
  <2>3. CASE Tag!Refuse(a, minds[a])
    <3>1. Tag!Dealt(a, minds[a]) /\ minds[a].at # "off"
      BY <2>1, <2>3 DEF Tag!Refuse
    <3>2. Budgeted(minds[a])
      BY <1>0, Zenon
    <3> QED
      BY <2>1, <3>1, <3>2, BudgetDealt
  <2> QED
    BY <1>4, <2>1, <2>2, <2>3 DEF Tag!Admit
<1>6. ASSUME NEW a \in 1..alive, Tag!confirmer(a) PROVE BudgetInv'
  <2>1. minds[a].at = "asks" /\ alive' = alive
    BY <1>6 DEF Tag!confirmer
  <2>2. \/ Tag!Refuse(a, minds[a])
        \/ \E leave : Tag!Admit(a, minds[a], leave)
    BY <1>6 DEF Tag!confirmer
  <2>3. CASE Tag!Refuse(a, minds[a])
    <3>1. Tag!Dealt(a, minds[a]) /\ minds[a].at # "off"
      BY <2>1, <2>3 DEF Tag!Refuse
    <3>2. Budgeted(minds[a])
      BY <1>0, Zenon
    <3> QED
      BY <2>1, <3>1, <3>2, BudgetDealt
  <2> QED
    BY <1>4, <2>1, <2>2, <2>3 DEF Tag!Admit
<1>7. ASSUME NEW a \in 1..alive, Tag!act(a) PROVE BudgetInv'
  <2> DEFINE m == minds[a]
             n == IF m.call = "read skill" THEN [m EXCEPT !.read = TRUE] ELSE m
  <2>1. Tag!Dealt(a, n) /\ alive' = alive /\ Budgeted(m) /\ m.at = "acts"
    BY <1>0, <1>7 DEF Tag!act
  <2>2. Budgeted(n) /\ n.at # "off"
    <3> HIDE DEF m
    <3> QED
      BY <2>1 DEF Budgeted
  <2> HIDE DEF n
  <2> QED
    BY <2>1, <2>2, BudgetDealt
<1>8. ASSUME NEW a, Tag!fails(a) PROVE BudgetInv'
  <2>1. Tag!Put(a, Tag!Asleep) /\ alive' \in 0..Lines
    BY <1>0, <1>8 DEF Tag!fails
  <2> QED
    BY <1>1, <2>1, BudgetPut
<1>9. CASE Tag!runRepair \/ Tag!runAgain \/ Tag!runAuto \/ Tag!line \/ Tag!autoEnds
  <2>1. ASSUME NEW a \in 0..Lines, Tag!StartLoop(a) PROVE BudgetInv'
    <3>1. Tag!Put(a, Tag!Fresh) /\ alive' \in 0..Lines
      BY <2>1 DEF Tag!StartLoop
    <3> QED
      BY <1>1, <3>1, BudgetPut
  <2>2. UNCHANGED <<minds, alive>> \/ Tag!StartLoop(1) \/ (alive < Lines /\ Tag!StartLoop(alive + 1))
    <3>1. CASE Tag!runRepair
      BY <3>1 DEF Tag!runRepair
    <3>2. CASE Tag!runAgain
      BY <3>2 DEF Tag!runAgain
    <3>3. CASE Tag!runAuto \/ Tag!autoEnds
      BY <3>3 DEF Tag!runAuto, Tag!autoEnds
    <3>4. CASE Tag!line
      BY <3>4 DEF Tag!line
    <3> QED
      BY <1>9, <3>1, <3>2, <3>3, <3>4
  <2> QED
    BY <1>0, <1>2, <2>1, <2>2
<1>10. CASE Tag!Still \/ UNCHANGED TagVars
  BY <1>2, <1>10 DEF Tag!Still, Tag!vars, TagVars
<1> QED
  BY <1>3, <1>5, <1>6, <1>7, <1>8, <1>9, <1>10 DEF Tag!Next

\* For any budget: however often a loop comes to its last iteration, its budget is raised once, by
\* half (BUDGET_EXTEND_FACTOR of testAgent/src).
THEOREM ReprievedOnce ==
    ASSUME Lines \in Nat \ {0}, Iterations \in Nat
    PROVE  Spec => []OneReprieve
<1> DEFINE Inv == part = "agent" => BudgetInv
<1>1. Init => Inv
  <2>1. Tag!Init => BudgetInv
    <3> SUFFICES ASSUME Tag!Init PROVE BudgetInv
      OBVIOUS
    <3>1. Budgeted(Tag!Asleep)
      BY DEF Budgeted, Tag!Asleep
    <3>2. DOMAIN minds = 1..Lines /\ \A a \in 1..Lines : minds[a] = Tag!Asleep
      BY DEF Tag!Init
    <3>3. alive = 0
      BY DEF Tag!Init
    <3>4. 0 \in 0..Lines
      OBVIOUS
    <3> QED
      BY <3>1, <3>2, <3>3, <3>4 DEF BudgetInv
  <2> QED
    BY <2>1, Beginnings
<1>2. Inv /\ [Next]_all => Inv'
  BY Steps, BudgetKeeps
<1>3. Inv => OneReprieve
  <2>1. Iterations <= Tag!BUDGET_EXTEND_FACTOR(Iterations)
    BY DEF Tag!BUDGET_EXTEND_FACTOR
  <2>2. ASSUME BudgetInv, NEW a \in 1..alive, minds[a].at # "off"
        PROVE  minds[a].max <= Tag!BUDGET_EXTEND_FACTOR(Iterations)
    <3>1. a \in 1..Lines
      BY <2>2 DEF BudgetInv
    <3>2. Tag!BUDGET_EXTEND_FACTOR(Iterations) \in Nat
      BY DEF Tag!BUDGET_EXTEND_FACTOR
    <3> QED
      BY <2>1, <2>2, <3>1, <3>2 DEF BudgetInv, Budgeted
  <2> QED
    BY <2>2 DEF OneReprieve, Tag!OneReprieve
<1> QED
  BY <1>1, <1>2, <1>3, PTL DEF Spec, all

-----------------------------------------------------------------------------
\* Rehearsal and contract probe

\* What the contracts of the task prepare are sequences of steps.
IntentsAreWhole ==
    \A i \in DOMAIN Order :
        Intent[Order[i]].kind = "contract" =>
            /\ Len(Intent[Order[i]].setup) \in Nat
            /\ DOMAIN Intent[Order[i]].setup = 1..Len(Intent[Order[i]].setup)

\* A probe has what the steps it has taken give, and a verdict only when it is over.
Prepared(p, intent) ==
    /\ {"at", "try", "clash", "dirty", "by", "names", "accepted", "step", "result"} \subseteq DOMAIN p
    /\ p.at \in {"reset", "spawn", "boot", "auth", "setup", "kill"}
    /\ p.at # "kill" => p.result = "none"
    /\ p.at \in {"reset", "spawn", "boot", "auth"} => p.accepted = {} /\ p.names = {}
    /\ p.at = "setup" => /\ p.step \in 1..(Len(intent.setup) + 1)
                         /\ p.accepted = 1..(p.step - 1)
                         /\ p.names = {intent.setup[j].gives : j \in 1..(p.step - 1)}
    /\ p.result = "pass" => /\ p.accepted = DOMAIN intent.setup
                            /\ intent.uses \subseteq p.names
                            /\ \A i \in DOMAIN intent.asserts : Prb!Evaluable(intent.asserts[i])

PrbInv ==
    /\ {"at", "nr", "todo", "asked", "resets", "serve", "found", "listed"} \subseteq DOMAIN rehearsal
    /\ rehearsal.todo \subseteq DOMAIN Order
    /\ rehearsal.at # "probe" => probe = Prb!NoProbe
    /\ rehearsal.at = "probe" =>
           /\ rehearsal.todo # {} /\ Intent[Prb!Item].kind = "contract"
           /\ ~Prb!Unresolved(Intent[Prb!Item])
           /\ Prepared(probe, Intent[Prb!Item])

\* The check that is next is one of the task.
LEMMA ItemIsOfTheTask ==
    ASSUME rehearsal.todo \subseteq DOMAIN Order, rehearsal.todo # {}
    PROVE  Prb!First \in rehearsal.todo
<1>1. DOMAIN Order = 1..3
  BY DEF Order
<1>2. \E i \in rehearsal.todo : \A j \in rehearsal.todo : i <= j
  <2>1. CASE 1 \in rehearsal.todo
    BY <1>1, <2>1
  <2>2. CASE 1 \notin rehearsal.todo /\ 2 \in rehearsal.todo
    BY <1>1, <2>2
  <2>3. CASE 1 \notin rehearsal.todo /\ 2 \notin rehearsal.todo
    BY <1>1, <2>3
  <2> QED
    BY <2>1, <2>2, <2>3
<1> QED
  BY <1>2 DEF Prb!First

\* A contract that is probed has a sequence of preparations, and gives every name it uses.
LEMMA ItemIsWhole ==
    ASSUME IntentsAreWhole, PrbInv, rehearsal.at = "probe"
    PROVE  LET intent == Intent[Prb!Item]
           IN  /\ Len(intent.setup) \in Nat /\ DOMAIN intent.setup = 1..Len(intent.setup)
               /\ intent.uses \subseteq {intent.setup[j].gives : j \in 1..Len(intent.setup)}
<1>1. Prb!First \in DOMAIN Order
  BY ItemIsOfTheTask DEF PrbInv
<1>2. /\ Len(Intent[Prb!Item].setup) \in Nat
      /\ DOMAIN Intent[Prb!Item].setup = 1..Len(Intent[Prb!Item].setup)
  BY <1>1 DEF IntentsAreWhole, PrbInv, Prb!Item
<1> DEFINE intent == Intent[Prb!Item]
<1>3. intent.uses \subseteq {intent.setup[j].gives : j \in 1..(Len(intent.setup) + 1) - 1}
  BY DEF PrbInv, Prb!Unresolved
<1>4. (Len(intent.setup) + 1) - 1 = Len(intent.setup)
  BY <1>2
<1> QED
  BY <1>2, <1>3, <1>4

\* A step of the probe: the rehearsal waits.
LEMMA ProbeStays ==
    ASSUME PrbInv, rehearsal.at = "probe", UNCHANGED rehearsal, Prepared(probe', Intent[Prb!Item])
    PROVE  PrbInv'
<1>1. Prb!Item' = Prb!Item
  BY DEF Prb!Item, Prb!First
<1> QED
  BY <1>1 DEF PrbInv, Prepared, Prb!Unresolved

\* A probe that ends with anything but a pass.
LEMMA EndIsSound ==
    ASSUME NEW p, NEW intent, Prepared(p, intent), NEW end, end # "pass", NEW q,
           q = [p EXCEPT !.at = "kill", !.result = end]
    PROVE  Prepared(q, intent)
<1>1. DOMAIN q = DOMAIN p /\ q.at = "kill" /\ q.result = end
  BY DEF Prepared
<1> QED
  BY <1>1 DEF Prepared

\* The steps of the probe, one by one.
LEMMA ProbeKeeps ==
    ASSUME IntentsAreWhole, PrbInv,
           \/ Prb!Reset \/ Prb!Spawn \/ Prb!Answers \/ Prb!BootFails \/ Prb!Authorizes
           \/ Prb!SetupStep \/ Prb!AsksServer \/ Prb!Fails
    PROVE  PrbInv'
<1> DEFINE intent == Intent[Prb!Item]
<1>0. /\ rehearsal.at = "probe" /\ UNCHANGED rehearsal /\ Prepared(probe, intent)
      /\ {"at", "try", "clash", "dirty", "by", "names", "accepted", "step", "result"} \subseteq DOMAIN probe
  BY DEF PrbInv, Prepared, Prb!Probing, Prb!Reset, Prb!Spawn, Prb!Answers, Prb!BootFails,
     Prb!Authorizes, Prb!SetupStep, Prb!AsksServer, Prb!Fails
<1>1. /\ Len(intent.setup) \in Nat /\ DOMAIN intent.setup = 1..Len(intent.setup)
      /\ intent.uses \subseteq {intent.setup[j].gives : j \in 1..Len(intent.setup)}
  BY <1>0, ItemIsWhole
<1>28. Prb!Setup = intent.setup
  BY DEF Prb!Setup
<1> HIDE DEF intent
<1>2. SUFFICES Prepared(probe', intent)
  BY <1>0, ProbeStays DEF intent
<1>3. ASSUME NEW end, end # "pass", Prb!Ends(end) PROVE Prepared(probe', intent)
  BY <1>0, <1>3, EndIsSound DEF Prb!Ends
<1>4. ASSUME probe.at \in {"reset", "spawn", "boot"}, DOMAIN probe' = DOMAIN probe,
             probe'.at \in {"spawn", "boot", "auth"}, probe'.accepted = probe.accepted,
             probe'.names = probe.names, probe'.result = probe.result
      PROVE  Prepared(probe', intent)
  BY <1>0, <1>4 DEF Prepared
<1>5. CASE Prb!Reset
  <2>1. /\ probe.at = "reset"
        /\ \/ Prb!Ends("fail")
           \/ probe' \in {[probe EXCEPT !.at = "spawn"], [probe EXCEPT !.at = "spawn", !.dirty = store]}
    BY <1>5 DEF Prb!Reset, Prb!Probing
  <2>2. CASE probe' = [probe EXCEPT !.at = "spawn"]
    BY <1>0, <1>4, <2>1, <2>2
  <2>3. CASE probe' = [probe EXCEPT !.at = "spawn", !.dirty = store]
    BY <1>0, <1>4, <2>1, <2>3
  <2> QED
    BY <1>3, <2>1, <2>2, <2>3
<1>6. CASE Prb!Spawn
  <2>1. probe.at = "spawn" /\ (probe' = [probe EXCEPT !.at = "boot"] \/ Prb!Ends("fail"))
    BY <1>6 DEF Prb!Spawn, Prb!Probing
  <2>2. CASE probe' = [probe EXCEPT !.at = "boot"]
    BY <1>0, <1>4, <2>1, <2>2
  <2> QED
    BY <1>3, <2>1, <2>2
<1>7. CASE Prb!Answers
  <2>1. probe.at = "boot" /\ \E by \in running : probe' = [probe EXCEPT !.at = "auth", !.by = by]
    BY <1>7 DEF Prb!Answers, Prb!Probing
  <2> QED
    BY <1>0, <1>4, <2>1
<1>8. CASE Prb!BootFails
  <2>1. /\ probe.at = "boot"
        /\ \/ probe' = [probe EXCEPT !.at = "spawn", !.try = probe.try + 1, !.clash = TRUE]
           \/ Prb!Ends("fail")
    BY <1>8 DEF Prb!BootFails, Prb!Probing, Prb!Ends
  <2>2. CASE probe' = [probe EXCEPT !.at = "spawn", !.try = probe.try + 1, !.clash = TRUE]
    BY <1>0, <1>4, <2>1, <2>2
  <2> QED
    BY <1>3, <2>1, <2>2
<1>9. CASE Prb!Authorizes
  <2>1. /\ probe.at = "auth"
        /\ \/ probe' = [probe EXCEPT !.at = "setup", !.step = 1]
           \/ Prb!Ends("fail")
    BY <1>9 DEF Prb!Authorizes, Prb!Probing
  <2>2. CASE probe' = [probe EXCEPT !.at = "setup", !.step = 1]
    <3>1. /\ DOMAIN probe' = DOMAIN probe /\ probe'.at = "setup" /\ probe'.step = 1
          /\ probe'.accepted = {} /\ probe'.names = {} /\ probe'.result = "none"
      BY <1>0, <2>1, <2>2 DEF Prepared
    <3>2. 1 \in 1..(Len(intent.setup) + 1) /\ 1..(1 - 1) = {}
      BY <1>1
    <3> QED
      BY <1>0, <3>1, <3>2 DEF Prepared
  <2> QED
    BY <1>3, <2>1, <2>2
<1>10. CASE Prb!SetupStep
  <2>1. /\ probe.at = "setup" /\ probe.step <= Len(intent.setup)
        /\ \/ probe' = [probe EXCEPT !.step = probe.step + 1,
                            !.names = @ \cup {intent.setup[probe.step].gives},
                            !.accepted = @ \cup {probe.step}]
           \/ Prb!Ends("fail")
    BY <1>10, <1>28 DEF Prb!SetupStep, Prb!Probing
  <2> DEFINE n == probe.step
  <2>2. CASE probe' = [probe EXCEPT !.step = n + 1,
                            !.names = @ \cup {intent.setup[n].gives}, !.accepted = @ \cup {n}]
    <3>1. /\ n \in Nat /\ n >= 1 /\ n <= Len(intent.setup)
          /\ probe.accepted = 1..(n - 1) /\ probe.result = "none"
          /\ probe.names = {intent.setup[j].gives : j \in 1..(n - 1)}
      BY <1>0, <1>1, <2>1 DEF Prepared
    <3>2. /\ n + 1 \in 1..(Len(intent.setup) + 1)
          /\ 1..(n - 1) \cup {n} = 1..((n + 1) - 1)
      BY <1>1, <3>1
    <3>3. {intent.setup[j].gives : j \in 1..(n - 1)} \cup {intent.setup[n].gives}
              = {intent.setup[j].gives : j \in 1..((n + 1) - 1)}
      BY <3>2
    <3>4. /\ DOMAIN probe' = DOMAIN probe /\ probe'.at = "setup" /\ probe'.step = n + 1
          /\ probe'.names = probe.names \cup {intent.setup[n].gives}
          /\ probe'.accepted = probe.accepted \cup {n} /\ probe'.result = probe.result
      BY <1>0, <2>1, <2>2
    <3> HIDE DEF n
    <3> QED
      BY <1>0, <3>1, <3>2, <3>3, <3>4 DEF Prepared
  <2> QED
    BY <1>3, <2>1, <2>2
<1>11. CASE Prb!AsksServer
  <2>1. PICK hold \in BOOLEAN, status \in BOOLEAN :
            Prb!Ends(IF status THEN Prb!Assertions(Intent[Prb!Item], hold) ELSE "fail")
    BY <1>11 DEF Prb!AsksServer
  <2> DEFINE found == IF status THEN Prb!Assertions(Intent[Prb!Item], hold) ELSE "fail"
  <2>2. found = "pass" => \A i \in DOMAIN intent.asserts : Prb!Evaluable(intent.asserts[i])
    BY DEF Prb!Assertions, intent
  <2>3. Prb!Ends(found)
    BY <2>1
  <2> HIDE DEF found
  <2>4. probe.at = "setup" /\ probe.step > Len(intent.setup)
    BY <1>11, <1>28 DEF Prb!AsksServer, Prb!Probing
  <2>5. /\ probe.accepted = 1..Len(intent.setup)
        /\ probe.names = {intent.setup[j].gives : j \in 1..Len(intent.setup)}
    <3>1. probe.step = Len(intent.setup) + 1
      BY <1>0, <1>1, <2>4 DEF Prepared
    <3>2. probe.step - 1 = Len(intent.setup)
      BY <1>1, <3>1
    <3> QED
      BY <1>0, <2>4, <3>2 DEF Prepared
  <2>6. /\ DOMAIN probe' = DOMAIN probe /\ probe'.at = "kill" /\ probe'.result = found
        /\ probe'.accepted = probe.accepted /\ probe'.names = probe.names
    BY <1>0, <2>3 DEF Prb!Ends
  <2> QED
    BY <1>0, <1>1, <2>2, <2>5, <2>6 DEF Prepared
<1>12. CASE Prb!Fails
  BY <1>3, <1>12 DEF Prb!Fails
<1> QED
  BY <1>5, <1>6, <1>7, <1>8, <1>9, <1>10, <1>11, <1>12

\* Between the probes: a result is noted and the check is done with.
LEMMA NotesKeeps ==
    ASSUME PrbInv, NEW end, NEW listed, Prb!Notes(end, listed), probe' = Prb!NoProbe
    PROVE  PrbInv'
<1> DEFINE l == IF listed /\ end = "fail" THEN rehearsal.listed \cup {Prb!Item} ELSE rehearsal.listed
           t == rehearsal.todo \ {Prb!First}
           f == [rehearsal.found EXCEPT ![Prb!Item] = end]
<1>1. rehearsal' = [rehearsal EXCEPT !.at = "item", !.todo = t, !.found = f, !.listed = l]
  BY DEF Prb!Notes
<1>2. t \subseteq DOMAIN Order
  BY DEF PrbInv
<1> HIDE DEF l, t, f
<1>3. DOMAIN rehearsal' = DOMAIN rehearsal /\ rehearsal'.at = "item" /\ rehearsal'.todo = t
  BY <1>1 DEF PrbInv
<1> QED
  BY <1>2, <1>3 DEF PrbInv

\* Every step of the rehearsal.
LEMMA PrbKeeps ==
    ASSUME IntentsAreWhole, PrbInv, [Prb!Next]_PrbVars
    PROVE  PrbInv'
<1>1. CASE UNCHANGED <<rehearsal, probe>>
  <2>1. CASE rehearsal.at = "probe"
    <3>1. Prepared(probe', Intent[Prb!Item])
      BY <1>1, <2>1 DEF PrbInv
    <3> QED
      BY <1>1, <2>1, <3>1, ProbeStays
  <2>2. CASE rehearsal.at # "probe"
    BY <1>1, <2>2 DEF PrbInv
  <2> QED
    BY <2>1, <2>2
<1>2. ASSUME rehearsal'.at \in {"off", "item"}, rehearsal'.todo \subseteq DOMAIN Order,
             {"at", "nr", "todo", "asked", "resets", "serve", "found", "listed"} \subseteq DOMAIN rehearsal',
             probe' = Prb!NoProbe
      PROVE  PrbInv'
  BY <1>2 DEF PrbInv
<1>3. CASE Prb!runAcceptance
  <2>1. PICK only \in SUBSET Prb!Checks \ {{}}, resets \in BOOLEAN, serve \in BOOLEAN :
            rehearsal' = [Prb!NoCall EXCEPT !.at = "item", !.nr = rehearsal.nr + 1, !.asked = only,
                             !.resets = resets, !.serve = serve,
                             !.todo = {i \in DOMAIN Order : Order[i] \in only /\ Prb!Runnable(Order[i])}]
    BY <1>3 DEF Prb!runAcceptance
  <2> DEFINE t == {i \in DOMAIN Order : Order[i] \in only /\ Prb!Runnable(Order[i])}
  <2>2. t \subseteq DOMAIN Order
    OBVIOUS
  <2>3. rehearsal' = [Prb!NoCall EXCEPT !.at = "item", !.nr = rehearsal.nr + 1, !.asked = only,
                             !.resets = resets, !.serve = serve, !.todo = t]
    BY <2>1
  <2> HIDE DEF t
  <2>4. /\ rehearsal'.at = "item" /\ rehearsal'.todo = t
        /\ {"at", "nr", "todo", "asked", "resets", "serve", "found", "listed"} \subseteq DOMAIN rehearsal'
    BY <2>3 DEF Prb!NoCall
  <2>5. probe' = Prb!NoProbe
    BY <1>3 DEF Prb!runAcceptance, PrbInv
  <2> QED
    BY <1>2, <2>2, <2>4, <2>5
<1>4. CASE Prb!RunsCommand \/ Prb!ServeUnknown \/ Prb!Precheck
  <2>1. probe' = Prb!NoProbe /\ \E end, listed : Prb!Notes(end, listed)
    BY <1>4 DEF Prb!RunsCommand, Prb!ServeUnknown, Prb!Precheck, Prb!Contract, Prb!AtItem, PrbInv
  <2> QED
    BY <2>1, NotesKeeps
<1>5. CASE Prb!Kill
  BY <1>5, NotesKeeps DEF Prb!Kill
<1>6. CASE Prb!Probes
  <2>1. /\ rehearsal' = [rehearsal EXCEPT !.at = "probe"] /\ rehearsal.todo # {}
        /\ probe' = [Prb!NoProbe EXCEPT !.at = "reset", !.try = 1]
        /\ Intent[Prb!Item].kind = "contract" /\ ~Prb!Unresolved(Intent[Prb!Item])
    BY <1>6 DEF Prb!Probes, Prb!Contract, Prb!AtItem
  <2>2. /\ DOMAIN rehearsal' = DOMAIN rehearsal /\ rehearsal'.at = "probe"
        /\ rehearsal'.todo = rehearsal.todo
    BY <2>1 DEF PrbInv
  <2>3. Prb!Item' = Prb!Item
    BY <2>2 DEF Prb!Item, Prb!First
  <2>4. Prepared(probe', Intent[Prb!Item])
    BY <2>1 DEF Prepared, Prb!NoProbe
  <2> QED
    BY <2>1, <2>2, <2>3, <2>4 DEF PrbInv, Prepared, Prb!Unresolved
<1>7. CASE Prb!Report
  <2>1. rehearsal' = [Prb!NoCall EXCEPT !.nr = rehearsal.nr] /\ probe' = Prb!NoProbe
    BY <1>7 DEF Prb!Report, PrbInv
  <2> QED
    BY <1>2, <2>1 DEF Prb!NoCall
<1>8. CASE Prb!Dies
  <2>1. rehearsal' = [Prb!NoCall EXCEPT !.nr = rehearsal.nr] /\ probe' = Prb!NoProbe
    BY <1>8 DEF Prb!Dies
  <2> QED
    BY <1>2, <2>1 DEF Prb!NoCall
<1> QED
  BY <1>1, <1>3, <1>4, <1>5, <1>6, <1>7, <1>8, ProbeKeeps DEF Prb!Next, Prb!Rework, Prb!Stay,
     Prb!vars, PrbVars

\* For any tries, rehearsals and changes of the code: a contract passes only when all it
\* prepares was accepted, every name in its request was given a value and every assertion
\* could be judged (runContractProbe).  Of the checks of the task the proof uses that the
\* preparations are sequences, and that there are three.
THEOREM PassesArePrepared ==
    Spec => []NoPassUnprepared
<1>0. IntentsAreWhole
  BY DEF IntentsAreWhole, Order, Intent
<1> DEFINE Inv == part = "probe" => PrbInv
<1>1. Init => Inv
  <2>1. Prb!Init => PrbInv
    BY DEF Prb!Init, Prb!NoCall, PrbInv
  <2> QED
    BY <2>1, Beginnings
<1>2. Inv /\ [Next]_all => Inv'
  BY <1>0, Steps, PrbKeeps
<1>3. Inv => NoPassUnprepared
  BY DEF PrbInv, Prepared, NoPassUnprepared, Prb!NoPassUnprepared, Prb!NoProbe, Prb!Setup
<1> QED
  BY <1>1, <1>2, <1>3, PTL DEF Spec, all

-----------------------------------------------------------------------------
\* Reading and writing tools

\* What the tools remember of the file is behind the disk: a mark that is the disk's own stands
\* for the text that was sent, unless a command has changed it under that mark.
MemoryInv ==
    /\ DOMAIN file = {"text", "stamp"} /\ file.stamp \in Nat
    /\ {"read", "observed", "shown", "sly"} \subseteq DOMAIN memo /\ memo.read \subseteq 0..file.stamp
    /\ file.stamp \in memo.read => memo.shown = file.text \/ memo.sly
    /\ \A c \in cache : {"call", "ok", "how"} \subseteq DOMAIN c.answer
    /\ Loop!StubsAreTrue

\* A result out of the table, or the tool's own, is no stub, and what is kept of it has all the
\* fields of an answer.
LEMMA KeptIsNoStub ==
    ASSUME MemoryInv, NEW print, NEW a, {"call", "ok", "how"} \subseteq DOMAIN a, a.how # "stub",
           Loop!Cached(print) \/ Loop!Ran(print, a)
    PROVE  /\ answer'.how # "stub"
           /\ \A c \in cache' : {"call", "ok", "how"} \subseteq DOMAIN c.answer
           /\ Loop!Cached(print) => UNCHANGED <<file, memo>>
<1>1. CASE Loop!Cached(print)
  <2>1. PICK c \in cache : answer' = [c.answer EXCEPT !.how = "cached"]
    BY <1>1 DEF Loop!Cached, Loop!Kept, Loop!Answers
  <2>2. answer'.how = "cached"
    BY <2>1 DEF MemoryInv
  <2> QED
    BY <1>1, <2>2 DEF Loop!Cached, MemoryInv
<1>2. CASE Loop!Ran(print, a) /\ ~Loop!Cached(print)
  <2>1. answer' = a /\ cache' = cache \cup {[print |-> print, answer |-> a]}
    BY <1>2 DEF Loop!Ran, Loop!Answers
  <2> QED
    BY <1>2, <2>1 DEF MemoryInv
<1> QED
  BY <1>1, <1>2

\* The memory, when the answer is no stub: the file and its mark are as they were, or the mark
\* is newer than what is remembered, or it stands over another text, or nothing is remembered.
LEMMA MemoryStays ==
    ASSUME MemoryInv, answer'.how # "stub",
           \A c \in cache' : {"call", "ok", "how"} \subseteq DOMAIN c.answer,
           \/ UNCHANGED <<file, memo>>
           \/ /\ DOMAIN file' = DOMAIN file /\ DOMAIN memo' = DOMAIN memo
              /\ file'.stamp \in Nat /\ file'.stamp >= file.stamp
              /\ \/ memo'.read = {}
                 \/ /\ memo'.read = memo.read /\ memo'.shown = memo.shown /\ (memo.sly => memo'.sly)
                    /\ \/ file'.stamp = file.stamp + 1
                       \/ file'.stamp = file.stamp /\ (file'.text = file.text \/ memo'.sly)
    PROVE  MemoryInv'
<1>1. CASE UNCHANGED <<file, memo>>
  BY <1>1 DEF MemoryInv, Loop!StubsAreTrue
<1>2. CASE memo'.read = {} /\ DOMAIN file' = DOMAIN file /\ DOMAIN memo' = DOMAIN memo
           /\ file'.stamp \in Nat
  BY <1>2 DEF MemoryInv, Loop!StubsAreTrue
<1>3. CASE /\ memo'.read = memo.read /\ file'.stamp = file.stamp + 1
           /\ DOMAIN file' = DOMAIN file /\ DOMAIN memo' = DOMAIN memo
  <2>1. file'.stamp \in Nat /\ memo.read \subseteq 0..file'.stamp /\ file'.stamp \notin memo.read
    BY <1>3 DEF MemoryInv
  <2> QED
    BY <1>3, <2>1 DEF MemoryInv, Loop!StubsAreTrue
<1>4. CASE /\ memo'.read = memo.read /\ memo'.shown = memo.shown /\ (memo.sly => memo'.sly)
           /\ file'.stamp = file.stamp /\ (file'.text = file.text \/ memo'.sly)
           /\ DOMAIN file' = DOMAIN file /\ DOMAIN memo' = DOMAIN memo
  BY <1>4 DEF MemoryInv, Loop!StubsAreTrue
<1> QED
  BY <1>1, <1>2, <1>3, <1>4

\* What writes to the file through the tools makes them forget what they have read.
LEMMA WritingForgets ==
    ASSUME MemoryInv, NEW t, NEW observed, Loop!Put(t, observed)
    PROVE  /\ DOMAIN file' = DOMAIN file /\ DOMAIN memo' = DOMAIN memo
           /\ file'.stamp \in Nat /\ file'.stamp >= file.stamp /\ memo'.read = {}
<1>1. PICK k \in 0..1 : file' = [text |-> t, stamp |-> file.stamp + k]
  BY DEF Loop!Put, Loop!Stamped
<1>2. memo' = [memo EXCEPT !.read = {}, !.observed = observed, !.sly = FALSE]
  BY DEF Loop!Put
<1>3. DOMAIN memo' = DOMAIN memo /\ memo'.read = {}
  BY <1>2 DEF MemoryInv
<1>4. file'.stamp = file.stamp + k /\ DOMAIN file' = {"text", "stamp"}
  BY <1>1
<1>5. DOMAIN file = {"text", "stamp"}
  BY DEF MemoryInv
<1> QED
  BY <1>3, <1>4, <1>5 DEF MemoryInv

\* The tools, one by one.
LEMMA ToolKeeps ==
    ASSUME MemoryInv, Loop!Tool
    PROVE  MemoryInv'
<1>0. \A c \in cache : {"call", "ok", "how"} \subseteq DOMAIN c.answer
  BY DEF MemoryInv
<1>1. CASE Loop!ReadFile
  <2>1. PICK force \in BOOLEAN :
          LET stub == ~force /\ Loop!Unchanged
          IN /\ memo' = IF stub THEN [memo EXCEPT !.observed = TRUE]
                        ELSE [read |-> {file.stamp}, observed |-> TRUE, shown |-> file.text,
                              sly |-> FALSE]
             /\ answer' = [call |-> <<"read">>, ok |-> TRUE, how |-> IF stub THEN "stub" ELSE "full"]
    BY <1>1 DEF Loop!ReadFile
  <2>2. UNCHANGED <<file, cache>>
    BY <1>1 DEF Loop!ReadFile
  <2>3. CASE ~force /\ Loop!Unchanged
    <3>1. /\ DOMAIN memo' = DOMAIN memo /\ memo'.read = memo.read /\ memo'.shown = memo.shown
          /\ memo'.sly = memo.sly /\ file.stamp \in memo.read
      BY <2>1, <2>3 DEF MemoryInv, Loop!Unchanged
    <3> QED
      BY <2>2, <3>1 DEF MemoryInv, Loop!StubsAreTrue
  <2>4. CASE ~(~force /\ Loop!Unchanged)
    <3>1. /\ DOMAIN memo' = {"read", "observed", "shown", "sly"} /\ memo'.read = {file.stamp}
          /\ memo'.shown = file.text /\ answer'.how = "full"
      BY <2>1, <2>4
    <3> QED
      BY <2>2, <3>1 DEF MemoryInv, Loop!StubsAreTrue
  <2> QED
    BY <2>3, <2>4
<1>2. ASSUME NEW t \in Texts, Loop!WriteFile(t) PROVE MemoryInv'
  <2> DEFINE a(ok) == [call |-> <<"write", t>>, ok |-> ok, how |-> "ran"]
  <2>1. \E ok \in BOOLEAN :
            /\ Loop!Cached(<<"write", t>>) \/ Loop!Ran(<<"write", t>>, a(ok))
            /\ \/ Loop!Cached(<<"write", t>>)
               \/ UNCHANGED <<file, memo>>
               \/ Loop!Put(t, TRUE)
    BY <1>2 DEF Loop!WriteFile
  <2>2. \A ok : DOMAIN a(ok) = {"call", "ok", "how"} /\ a(ok).how = "ran"
    OBVIOUS
  <2> QED
    BY <2>1, <2>2, KeptIsNoStub, WritingForgets, MemoryStays
<1>3. ASSUME NEW f \in Texts, NEW t \in Texts, Loop!EditFile(f, t) PROVE MemoryInv'
  <2> DEFINE a(ok) == [call |-> <<"edit", f, t>>, ok |-> ok, how |-> "ran"]
  <2>1. \E ok \in BOOLEAN :
            /\ Loop!Cached(<<"edit", f, t>>) \/ Loop!Ran(<<"edit", f, t>>, a(ok))
            /\ \/ Loop!Cached(<<"edit", f, t>>)
               \/ UNCHANGED <<file, memo>>
               \/ Loop!Put(t, memo.observed)
    BY <1>3 DEF Loop!EditFile
  <2>2. \A ok : DOMAIN a(ok) = {"call", "ok", "how"} /\ a(ok).how = "ran"
    OBVIOUS
  <2> QED
    BY <2>1, <2>2, KeptIsNoStub, WritingForgets, MemoryStays
<1>4. CASE Loop!RunCommand
  <2> DEFINE print == <<"run", file.text>>
             a(ok, how) == [call |-> <<"run">>, ok |-> ok, how |-> how]
  <2>1. \/ Loop!Cached(print)
        \/ /\ file' \in {file} \cup UNION {Loop!Stamped(t) : t \in Texts}
           /\ memo' = [memo EXCEPT !.sly = @ \/ (file'.stamp = file.stamp /\ file'.text # file.text)]
           /\ \/ Loop!Ran(print, a(TRUE, "ran"))
              \/ Loop!Answers(a(FALSE, "late")) /\ UNCHANGED cache
    BY <1>4 DEF Loop!RunCommand
  <2>2. \A ok, how : DOMAIN a(ok, how) = {"call", "ok", "how"} /\ a(ok, how).how = how
    OBVIOUS
  <2> HIDE DEF print
  <2>3. /\ answer'.how # "stub"
        /\ \A c \in cache' : {"call", "ok", "how"} \subseteq DOMAIN c.answer
    <3>1. CASE Loop!Cached(print) \/ Loop!Ran(print, a(TRUE, "ran"))
      BY <2>2, <3>1, KeptIsNoStub
    <3>2. CASE Loop!Answers(a(FALSE, "late")) /\ UNCHANGED cache
      BY <1>0, <3>2 DEF Loop!Answers
    <3> QED
      BY <2>1, <3>1, <3>2
  <2>4. CASE Loop!Cached(print)
    BY <2>3, <2>4, MemoryStays DEF Loop!Cached
  <2>5. CASE /\ file' \in {file} \cup UNION {Loop!Stamped(t) : t \in Texts}
             /\ memo' = [memo EXCEPT !.sly = @ \/ (file'.stamp = file.stamp /\ file'.text # file.text)]
    <3>1. file.stamp \in Nat /\ DOMAIN file = {"text", "stamp"}
      BY DEF MemoryInv
    <3>2. /\ DOMAIN file' = DOMAIN file
          /\ file'.stamp = file.stamp \/ file'.stamp = file.stamp + 1
      <4>1. CASE file' = file
        BY <4>1
      <4>2. CASE file' # file
        <5>1. PICK t \in Texts, k \in 0..1 : file' = [text |-> t, stamp |-> file.stamp + k]
          BY <2>5, <4>2 DEF Loop!Stamped
        <5>2. DOMAIN file' = {"text", "stamp"} /\ file'.stamp = file.stamp + k
          BY <5>1
        <5> QED
          BY <3>1, <5>2
      <4> QED
        BY <4>1, <4>2
    <3>3. /\ DOMAIN memo' = DOMAIN memo /\ memo'.read = memo.read /\ memo'.shown = memo.shown
          /\ memo.sly => memo'.sly
          /\ file'.stamp = file.stamp => file'.text = file.text \/ memo'.sly
      BY <2>5, Zenon DEF MemoryInv
    <3>4. file'.stamp \in Nat /\ file'.stamp >= file.stamp
      BY <3>1, <3>2
    <3> QED
      BY <2>3, <3>2, <3>3, <3>4, MemoryStays
  <2> QED
    BY <2>1, <2>4, <2>5
<1>5. CASE Loop!Rehearse
  <2> DEFINE why == IF file.text \in Green THEN "" ELSE file.text
             a == [call |-> <<"rehearse">>, ok |-> why = "", how |-> "ran", fails |-> why]
  <2>1. \/ Loop!Cached(<<"rehearse">>)
        \/ Loop!Ran(<<"rehearse">>, a) /\ UNCHANGED <<file, memo>>
    BY <1>5 DEF Loop!Rehearse
  <2>2. {"call", "ok", "how"} \subseteq DOMAIN a /\ a.how = "ran"
    OBVIOUS
  <2> HIDE DEF a
  <2> QED
    BY <2>1, <2>2, KeptIsNoStub, MemoryStays
<1>6. ASSUME NEW s \in Signatures, Loop!Delegate(s) \/ Loop!ExpertEnds(s) PROVE MemoryInv'
  <2>1. UNCHANGED <<file, memo, cache>> /\ answer'.how # "stub"
    <3>1. CASE Loop!Delegate(s)
      <4>1. UNCHANGED <<file, memo, cache>>
        BY <3>1 DEF Loop!Delegate
      <4>2. \/ answer' = Loop!Refused(<<"delegate", s>>)
            \/ \E ok : answer' = [call |-> <<"delegate", s>>, how |-> "old", ok |-> ok]
            \/ answer' = [call |-> <<"delegate", s>>, ok |-> FALSE, how |-> "running"]
        BY <3>1 DEF Loop!Delegate
      <4> QED
        BY <4>1, <4>2 DEF Loop!Refused
    <3>2. CASE Loop!ExpertEnds(s)
      <4>1. UNCHANGED <<file, memo, cache>>
        BY <3>2 DEF Loop!ExpertEnds
      <4>2. \E ok : answer' = [call |-> answer.call, ok |-> ok, how |-> "new"]
        BY <3>2 DEF Loop!ExpertEnds
      <4> QED
        BY <4>1, <4>2
    <3> QED
      BY <1>6, <3>1, <3>2
  <2> QED
    BY <1>0, <2>1, MemoryStays
<1> QED
  BY <1>1, <1>2, <1>3, <1>4, <1>5, <1>6 DEF Loop!Tool

\* Every step of the loop.
LEMMA MemoryKeeps ==
    ASSUME MemoryInv, [Loop!Next]_LoopVars
    PROVE  MemoryInv'
<1>1. CASE UNCHANGED <<file, memo, cache, answer>>
  BY <1>1 DEF MemoryInv, Loop!StubsAreTrue
<1>2. CASE Loop!NextLoop
  BY <1>2, MemoryStays DEF Loop!NextLoop, Loop!Silence, Loop!world, MemoryInv
<1>3. CASE Loop!Crash
  <2>1. /\ DOMAIN memo' = {"read", "observed", "shown", "sly"} /\ memo'.read = {}
        /\ answer'.how = "none" /\ UNCHANGED <<file, cache>>
    BY <1>3 DEF Loop!Crash, Loop!Forgotten, Loop!Silence
  <2> QED
    BY <2>1 DEF MemoryInv, Loop!StubsAreTrue
<1> QED
  BY <1>1, <1>2, <1>3, ToolKeeps DEF Loop!Next, Loop!Compact, Loop!Guard, Loop!Send, Loop!CallFails,
     Loop!Decides, Loop!Over, Loop!world, Loop!vars, LoopVars

\* For any texts, signatures and bounds: the model is told that the file is unchanged only when
\* it holds what was last sent in full, whatever has written to it meanwhile, in the same tick
\* of the disk's clock too, or when a command has changed it and left size and time as they were
\* (readDedup.ts, observedFiles.ts).
THEOREM StubsTellTheTruth ==
    Spec => []StubsAreTrue
<1> DEFINE Inv == part = "loop" => MemoryInv
<1>1. Init => Inv
  <2>1. Loop!Init => MemoryInv
    BY DEF Loop!Init, Loop!Forgotten, Loop!Silence, MemoryInv, Loop!StubsAreTrue
  <2> QED
    BY <2>1, Beginnings
<1>2. Inv /\ [Next]_all => Inv'
  BY Steps, MemoryKeeps
<1>3. Inv => StubsAreTrue
  BY DEF MemoryInv, StubsAreTrue
<1> QED
  BY <1>1, <1>2, <1>3, PTL DEF Spec, all

-----------------------------------------------------------------------------
\* The loop around the model

\* The account of a loop: what it has spent and heard on decisions, and apart from that on
\* compactions and experts.
Used(l)  == l.planned - l.extra
Heard(l) == l.got - l.extraGot

Account(l) ==
    /\ {"at", "steps", "planned", "got", "streak", "extra", "extraGot", "late", "touched",
        "expert", "stall", "key", "wrote"} \subseteq DOMAIN l
    /\ {l.steps, l.planned, l.got, l.streak, l.extra, l.extraGot, l.late} \subseteq Nat
    /\ l.extraGot <= l.extra /\ l.extra <= l.planned /\ l.extraGot <= l.got
    /\ l.planned <= Budget /\ l.steps <= MaxSteps /\ l.extra <= MaxExtras
    /\ l.streak <= Tolerance /\ l.late <= Heard(l) /\ Heard(l) <= l.steps
    /\ l.touched \in BOOLEAN /\ (l.touched => Heard(l) > 0)

\* What a loop of the developer is taken for.
Contract(l) ==
    [end |-> l.at, used |-> l.planned, got |-> l.got, wrote |-> l.touched]
        \in Loop!Graph!runToolLoop(Budget)

\* Between two decisions every step has been one; while a decision is under way one call more
\* has been made than steps were taken.
Between(l) ==
    /\ Used(l) = l.steps
    /\ Used(l) <= Heard(l) * (Tolerance + 1) + l.streak
Under(l) ==
    /\ Used(l) = l.steps + 1 /\ l.steps < MaxSteps
    /\ Used(l) <= Heard(l) * (Tolerance + 1) + l.streak + 1

AccountInv(l) ==
    /\ l.at \in {"guard", "send", "sent", "expert"} => Account(l)
    /\ l.at \in {"guard", "send"} => Between(l)
    /\ l.at = "send" => l.steps < MaxSteps
    /\ l.at \in {"sent", "expert"} => Under(l)
    /\ l.at = "expert" => l.planned + 1 <= Budget /\ l.extra < MaxExtras
    /\ l.at \in Loop!Ends \ {"threw"} => Contract(l)

LoopNumbers == {MaxSteps, Budget, Tolerance, MaxExtras, Retries} \subseteq Nat

\* An account that is in order, and an end that fits it, are what the graph takes a loop for.
LEMMA EndsFit ==
    ASSUME LoopNumbers, NEW l, Account(l), l.at \in Loop!Ends \ {"threw"},
           Loop!Graph!Stops(l.at, Used(l), Heard(l), l.planned, Budget)
    PROVE  Contract(l)
<1> DEFINE o == [end |-> l.at, used |-> l.planned, got |-> l.got, wrote |-> l.touched]
<1>1. /\ l.planned \in 0..Budget /\ l.got \in 0..Budget /\ l.touched \in BOOLEAN
      /\ l.touched => l.got > 0
  <2>1. Heard(l) <= Used(l)
    BY DEF Loop!Graph!Stops
  <2> QED
    BY <2>1 DEF Account, LoopNumbers, Used, Heard
<1>2. l.extra \in 0..MaxExtras /\ l.extraGot \in 0..l.extra /\ l.extra <= l.planned
      /\ l.extraGot <= l.got
  BY DEF Account, LoopNumbers
<1>3. o \in [end : {"done", "budget", "steps", "slow", "stall", "full", "threw"},
             used : 0..Budget, got : 0..Budget, wrote : BOOLEAN]
  BY <1>1 DEF Loop!Ends
<1>4. /\ o.end = l.at /\ o.used = l.planned /\ o.got = l.got /\ o.wrote = l.touched
  OBVIOUS
<1>5. o.wrote => o.got > 0 /\ o.end # "threw"
  BY <1>1, <1>4
<1>6. \E more \in 0..MaxExtras : \E h \in 0..more :
          /\ more <= o.used /\ h <= o.got
          /\ Loop!Graph!Stops(o.end, o.used - more, o.got - h, o.used, Budget)
  BY <1>2, <1>4 DEF Used, Heard
<1> HIDE DEF o
<1>7. o \in Loop!Graph!runToolLoop(Budget)
  BY <1>3, <1>5, <1>6 DEF Loop!Graph!runToolLoop
<1> QED
  BY <1>7 DEF o, Contract

\* What has been tolerated of failures, with the last call answered or not.
LEMMA ToleratedBetween ==
    ASSUME LoopNumbers, NEW l, Account(l), Between(l)
    PROVE  Loop!Graph!Tolerated(Used(l), Heard(l), FALSE)
<1>1. Used(l) \in Int /\ Heard(l) \in Int /\ Tolerance \in Nat /\ l.streak \in Nat
  BY DEF Account, LoopNumbers, Used, Heard
<1>2. Used(l) <= Heard(l) * (Tolerance + 1) + Tolerance
  BY <1>1 DEF Between, Account
<1> DEFINE h == Heard(l)
           u == Used(l)
<1> HIDE DEF h, u
<1>3. h \in Int /\ u <= h * (Tolerance + 1) + Tolerance
  BY <1>1, <1>2 DEF h, u
<1>4. h * (Tolerance + 1) + Tolerance = h + (h + 1) * Tolerance
  BY <1>1, <1>3
<1>5. u <= h + (h + 1) * Tolerance
  BY <1>3, <1>4
<1> QED
  BY <1>5 DEF Loop!Graph!Tolerated, h, u

\* A decision is heard: the failures before it are forgiven.
LEMMA HeardBalances ==
    ASSUME LoopNumbers, NEW l, NEW m, Account(l), Under(l), DOMAIN m = DOMAIN l,
           m.planned = l.planned, m.extra = l.extra, m.extraGot = l.extraGot,
           m.got = l.got + 1, m.steps = l.steps + 1, m.streak = 0,
           m.late \in {l.late, l.late + 1, 0}, m.touched \in BOOLEAN
    PROVE  /\ Account(m) /\ Between(m)
           /\ Loop!Graph!Tolerated(Used(m), Heard(m), TRUE)
<1>1. /\ l.planned \in Nat /\ l.extra \in Nat /\ l.got \in Nat /\ l.extraGot \in Nat /\ l.steps \in Nat
      /\ l.streak \in Nat /\ l.late \in Nat
      /\ Tolerance \in Nat /\ MaxSteps \in Nat /\ Budget \in Nat /\ MaxExtras \in Nat
  BY DEF Account, LoopNumbers
<1>2. /\ Used(m) = Used(l) /\ Heard(m) = Heard(l) + 1 /\ Heard(l) \in Int /\ Heard(l) >= 0
      /\ Used(l) \in Int
  BY <1>1 DEF Account, Used, Heard
<1>3. Account(m)
  <2>1. Used(l) = l.steps + 1 /\ l.steps < MaxSteps
    BY DEF Under
  <2>2. /\ l.late <= Heard(l) /\ Heard(l) <= l.steps
        /\ {"at", "steps", "planned", "got", "streak", "extra", "extraGot", "late", "touched",
            "expert", "stall", "key", "wrote"} \subseteq DOMAIN m
    BY DEF Account
  <2>3. m.late \in Nat /\ m.late <= Heard(m) /\ Heard(m) > 0
    BY <1>1, <1>2, <2>2
  <2>4. Heard(m) <= m.steps
    BY <1>1, <1>2, <2>2
  <2> QED
    BY <1>1, <1>2, <2>1, <2>2, <2>3, <2>4 DEF Account
<1>4. Used(l) <= Heard(l) * (Tolerance + 1) + Tolerance + 1
  BY <1>1, <1>2 DEF Under, Account
<1> DEFINE h == Heard(l)
           u == Used(l)
<1> HIDE DEF h, u
<1>5. h \in Int /\ u \in Int /\ u <= h * (Tolerance + 1) + Tolerance + 1
  BY <1>2, <1>4 DEF h, u
<1>6. h * (Tolerance + 1) + Tolerance + 1 = (h + 1) * (Tolerance + 1)
  BY <1>1, <1>5
<1>7. u <= (h + 1) * (Tolerance + 1)
  BY <1>5, <1>6
<1>8. Used(m) <= Heard(m) * (Tolerance + 1) /\ Heard(m) > 0
  BY <1>2, <1>7 DEF h, u
<1>9. Between(m)
  <2> DEFINE w == Heard(m) * (Tolerance + 1)
  <2>1. w \in Int /\ Used(m) <= w
    BY <1>1, <1>2, <1>8
  <2> HIDE DEF w
  <2>2. Used(m) <= w + m.streak
    BY <1>2, <2>1
  <2> QED
    BY <1>2, <2>2 DEF Between, Under, w
<1> QED
  BY <1>3, <1>8, <1>9 DEF Loop!Graph!Tolerated

\* What a tool's answer does to the locals.
LEMMA HearsBalances ==
    ASSUME LoopNumbers, Account(loop), Under(loop), NEW a, NEW batch \in BOOLEAN
    PROVE  LET m == Loop!Hears(a, batch)
           IN  /\ DOMAIN m = DOMAIN loop /\ m.at \in {"guard", "slow", "stall"}
               /\ Account(m) /\ Between(m) /\ m.expert = loop.expert
               /\ m.planned = loop.planned /\ m.extra = loop.extra
               /\ m.at \in {"slow", "stall"} => a.call[1] \in {"run", "rehearse"} /\ Contract(m)
<1> DEFINE s    == Loop!Stalled(a)
           slow == IF a.call[1] # "run" THEN loop.late ELSE IF a.how = "late" THEN loop.late + 1 ELSE 0
           place   == CASE a.call[1] = "run" /\ slow >= 2 -> "slow"
                     [] a.call[1] = "rehearse" /\ s.stall >= StallLimit -> "stall"
                     [] OTHER -> "guard"
           t    == loop.touched \/ Loop!Touches(a, batch)
           w    == loop.wrote \/ Loop!Writes(a)
           m    == Loop!Hears(a, batch)
<1>1. /\ DOMAIN s = DOMAIN loop /\ s.steps = loop.steps /\ s.got = loop.got /\ s.planned = loop.planned
      /\ s.extra = loop.extra /\ s.extraGot = loop.extraGot /\ s.touched = loop.touched
      /\ s.wrote = loop.wrote /\ s.expert = loop.expert
      /\ {"at", "steps", "planned", "got", "streak", "extra", "extraGot", "late", "touched",
          "expert", "stall", "key", "wrote"} \subseteq DOMAIN s
  BY DEF Loop!Stalled, Account
<1>2. slow \in {loop.late, loop.late + 1, 0} /\ t \in BOOLEAN
  OBVIOUS
<1>3. /\ place \in {"guard", "slow", "stall"}
      /\ place = "slow" => slow >= 2 /\ a.call[1] = "run"
      /\ place = "stall" => a.call[1] = "rehearse"
  OBVIOUS
<1>4. m = [s EXCEPT !.at = place, !.steps = s.steps + 1, !.got = s.got + 1, !.streak = 0, !.late = slow,
                    !.touched = s.touched \/ Loop!Touches(a, batch), !.wrote = s.wrote \/ Loop!Writes(a)]
  BY DEF Loop!Hears
<1>5. m = [s EXCEPT !.at = place, !.steps = s.steps + 1, !.got = s.got + 1, !.streak = 0, !.late = slow,
                    !.touched = t, !.wrote = w]
  BY <1>1, <1>4
<1> HIDE DEF s, slow, place, t, w, m
<1>6. /\ DOMAIN m = DOMAIN loop /\ m.at = place /\ m.steps = loop.steps + 1 /\ m.got = loop.got + 1
      /\ m.streak = 0 /\ m.late = slow /\ m.touched = t /\ m.planned = loop.planned
      /\ m.extra = loop.extra /\ m.extraGot = loop.extraGot /\ m.expert = loop.expert
  BY <1>1, <1>5
<1>7. Account(m) /\ Between(m) /\ Loop!Graph!Tolerated(Used(m), Heard(m), TRUE)
  BY <1>2, <1>6, HeardBalances
<1>8. ASSUME place \in {"slow", "stall"} PROVE Contract(m)
  <2>1. place = "slow" => Heard(m) > 1
    BY <1>3, <1>6, <1>7 DEF Account, Heard
  <2>2. Heard(m) <= Used(m) /\ Used(m) <= MaxSteps
    BY <1>7 DEF Account, Between
  <2>3. Loop!Graph!Stops(m.at, Used(m), Heard(m), m.planned, Budget)
    <3>1. CASE place = "slow"
      BY <1>6, <1>7, <2>1, <2>2, <3>1 DEF Loop!Graph!Stops
    <3>2. CASE place = "stall"
      BY <1>6, <1>7, <2>2, <3>2 DEF Loop!Graph!Stops
    <3> QED
      BY <1>8, <3>1, <3>2
  <2>4. m.at \in Loop!Ends \ {"threw"}
    BY <1>6, <1>8 DEF Loop!Ends
  <2> QED
    BY <1>7, <2>3, <2>4, EndsFit
<1> QED
  BY <1>3, <1>6, <1>7, <1>8 DEF m

\* The steps between two decisions.
LEMMA BetweenKeeps ==
    ASSUME LoopNumbers, AccountInv(loop),
           Loop!Compact \/ Loop!Guard \/ Loop!Send \/ Loop!CallFails \/ Loop!Decides
    PROVE  AccountInv(loop')
<1>0. /\ Account(loop)
      /\ {loop.steps, loop.planned, loop.got, loop.streak, loop.extra, loop.extraGot, loop.late} \subseteq Nat
      /\ {"at", "steps", "planned", "got", "streak", "extra", "extraGot", "late", "touched",
          "expert", "stall", "key", "wrote"} \subseteq DOMAIN loop
      /\ {MaxSteps, Budget, Tolerance, MaxExtras} \subseteq Nat
  BY DEF AccountInv, Account, LoopNumbers, Loop!Compact, Loop!Guard, Loop!Send, Loop!CallFails, Loop!Decides
<1>1. CASE Loop!Compact
  <2>1. PICK n \in 1..Retries, ok \in BOOLEAN :
          /\ loop.planned + n <= Budget /\ loop.extra + n <= MaxExtras
          /\ LET k == IF ok THEN n ELSE n - 1 IN
             loop' = [loop EXCEPT !.at = "send", !.planned = @ + n, !.got = @ + k,
                                  !.extra = @ + n, !.extraGot = @ + k]
    BY <1>1 DEF Loop!Compact
  <2> DEFINE k == IF ok THEN n ELSE n - 1
  <2>2. k \in 0..n /\ n \in Nat
    BY DEF LoopNumbers
  <2>3. loop' = [loop EXCEPT !.at = "send", !.planned = @ + n, !.got = @ + k,
                             !.extra = @ + n, !.extraGot = @ + k]
    BY <2>1
  <2> HIDE DEF k
  <2>4. /\ DOMAIN loop' = DOMAIN loop /\ loop'.at = "send" /\ loop'.steps = loop.steps
        /\ loop'.planned = loop.planned + n /\ loop'.got = loop.got + k
        /\ loop'.extra = loop.extra + n /\ loop'.extraGot = loop.extraGot + k
        /\ loop'.streak = loop.streak /\ loop'.late = loop.late /\ loop'.touched = loop.touched
    BY <1>0, <2>3
  <2>5. Used(loop') = Used(loop) /\ Heard(loop') = Heard(loop)
    BY <1>0, <2>2, <2>4 DEF Used, Heard
  <2>6. loop.at = "guard" /\ loop.steps < MaxSteps
    BY <1>1 DEF Loop!Compact
  <2>7. Account(loop')
    BY <1>0, <2>1, <2>2, <2>4, <2>5 DEF Account
  <2>8. Between(loop')
    BY <2>4, <2>5, <2>6 DEF AccountInv, Between
  <2> QED
    BY <2>4, <2>6, <2>7, <2>8 DEF AccountInv, Loop!Ends
<1>2. ASSUME NEW place, loop' = [loop EXCEPT !.at = place]
      PROVE  /\ Account(loop') /\ loop'.at = place /\ Used(loop') = Used(loop) /\ Heard(loop') = Heard(loop)
             /\ (Between(loop) => Between(loop'))
             /\ loop'.planned = loop.planned /\ loop'.steps = loop.steps /\ loop'.extra = loop.extra
             /\ loop'.streak = loop.streak
  <2>1. /\ DOMAIN loop' = DOMAIN loop /\ loop'.at = place /\ loop'.steps = loop.steps
        /\ loop'.planned = loop.planned /\ loop'.got = loop.got
        /\ loop'.extra = loop.extra /\ loop'.extraGot = loop.extraGot
        /\ loop'.streak = loop.streak /\ loop'.late = loop.late /\ loop'.touched = loop.touched
    BY <1>0, <1>2
  <2>2. Used(loop') = Used(loop) /\ Heard(loop') = Heard(loop)
    BY <2>1 DEF Used, Heard
  <2> QED
    BY <1>0, <2>1, <2>2 DEF Account, Between
<1>3. CASE Loop!Guard
  <2>1. loop.at = "guard" /\ Between(loop)
    BY <1>3 DEF Loop!Guard, AccountInv
  <2>2. Loop!Graph!Tolerated(Used(loop), Heard(loop), FALSE)
    BY <1>0, <2>1, ToleratedBetween
  <2>3. Heard(loop) <= Used(loop) /\ Used(loop) <= MaxSteps /\ Used(loop) = loop.steps
    BY <1>0, <2>1 DEF Account, Between
  <2>4. CASE loop' = [loop EXCEPT !.at = "send"] /\ loop.steps < MaxSteps
    BY <1>2, <2>1, <2>4 DEF AccountInv, Loop!Ends
  <2>5. ASSUME NEW place \in {"full", "steps"}, loop' = [loop EXCEPT !.at = place],
               place = "full" => loop.steps < MaxSteps, place = "steps" => ~(loop.steps < MaxSteps)
        PROVE  AccountInv(loop')
    <3>1. /\ Account(loop') /\ loop'.at = place /\ Used(loop') = Used(loop) /\ Heard(loop') = Heard(loop)
          /\ loop'.planned = loop.planned
      BY <1>2, <2>5
    <3>2. place = "steps" => Used(loop) = MaxSteps
      BY <1>0, <2>3, <2>5
    <3>3. Loop!Graph!Stops(loop'.at, Used(loop'), Heard(loop'), loop'.planned, Budget)
      BY <2>2, <2>3, <2>5, <3>1, <3>2 DEF Loop!Graph!Stops
    <3>4. loop'.at \in Loop!Ends \ {"threw"}
      BY <2>5, <3>1 DEF Loop!Ends
    <3>5. Contract(loop')
      BY <3>1, <3>3, <3>4, EndsFit
    <3> QED
      BY <2>5, <3>1, <3>5 DEF AccountInv
  <2> QED
    BY <1>3, <2>4, <2>5 DEF Loop!Guard
<1>4. CASE Loop!Send
  <2>1. loop.at = "send" /\ Between(loop) /\ loop.steps < MaxSteps
    BY <1>4 DEF Loop!Send, AccountInv
  <2>2. CASE loop.planned + 1 > Budget
    <3>1. loop' = [loop EXCEPT !.at = "budget"]
      BY <1>4, <2>2 DEF Loop!Send
    <3>2. /\ Account(loop') /\ loop'.at = "budget" /\ Used(loop') = Used(loop) /\ Heard(loop') = Heard(loop)
          /\ loop'.planned = loop.planned
      BY <1>2, <3>1
    <3>3. Heard(loop) <= Used(loop) /\ Used(loop) < MaxSteps /\ loop.planned = Budget
      BY <1>0, <2>1, <2>2 DEF Account, Between
    <3>4. Loop!Graph!Tolerated(Used(loop), Heard(loop), FALSE)
      BY <1>0, <2>1, ToleratedBetween
    <3>5. Used(loop) <= MaxSteps
      BY <1>0, <3>3 DEF Used
    <3>6. Loop!Graph!Stops(loop'.at, Used(loop'), Heard(loop'), loop'.planned, Budget)
      BY <3>2, <3>3, <3>4, <3>5 DEF Loop!Graph!Stops
    <3>7. Contract(loop')
      BY <3>2, <3>6, EndsFit DEF Loop!Ends
    <3> QED
      BY <3>2, <3>7 DEF AccountInv
  <2>3. CASE ~(loop.planned + 1 > Budget)
    <3>1. loop' = [loop EXCEPT !.at = "sent", !.planned = loop.planned + 1]
      BY <1>4, <2>3 DEF Loop!Send
    <3>2. /\ DOMAIN loop' = DOMAIN loop /\ loop'.at = "sent" /\ loop'.steps = loop.steps
          /\ loop'.planned = loop.planned + 1 /\ loop'.got = loop.got
          /\ loop'.extra = loop.extra /\ loop'.extraGot = loop.extraGot
          /\ loop'.streak = loop.streak /\ loop'.late = loop.late /\ loop'.touched = loop.touched
      BY <1>0, <3>1
    <3>3. Used(loop') = Used(loop) + 1 /\ Heard(loop') = Heard(loop)
      BY <1>0, <3>2 DEF Used, Heard
    <3>4. Account(loop')
      BY <1>0, <2>3, <3>2, <3>3 DEF Account
    <3>5. Under(loop')
      <4> DEFINE w == Heard(loop) * (Tolerance + 1)
      <4>1. w \in Int /\ Used(loop) \in Int
        BY <1>0 DEF Used, Heard
      <4>2. Used(loop) <= w + loop.streak /\ Used(loop) = loop.steps
        BY <2>1 DEF Between
      <4> HIDE DEF w
      <4>3. Used(loop') <= w + loop'.streak + 1
        BY <1>0, <3>2, <3>3, <4>1, <4>2
      <4> QED
        BY <2>1, <3>2, <3>3, <4>2, <4>3 DEF Under, w
    <3> QED
      BY <3>2, <3>4, <3>5 DEF AccountInv, Loop!Ends
  <2> QED
    BY <2>2, <2>3
<1>5. CASE Loop!CallFails
  <2>1. loop.at = "sent" /\ Under(loop)
    BY <1>5 DEF Loop!CallFails, AccountInv
  <2>2. CASE loop.streak + 1 > Tolerance
    BY <1>2, <1>5, <2>2 DEF Loop!CallFails, AccountInv, Loop!Ends
  <2>3. CASE ~(loop.streak + 1 > Tolerance)
    <3>1. loop' = [loop EXCEPT !.at = "guard", !.streak = loop.streak + 1, !.steps = loop.steps + 1]
      BY <1>5, <2>3 DEF Loop!CallFails
    <3>2. /\ DOMAIN loop' = DOMAIN loop /\ loop'.at = "guard" /\ loop'.steps = loop.steps + 1
          /\ loop'.planned = loop.planned /\ loop'.got = loop.got
          /\ loop'.extra = loop.extra /\ loop'.extraGot = loop.extraGot
          /\ loop'.streak = loop.streak + 1 /\ loop'.late = loop.late /\ loop'.touched = loop.touched
      BY <1>0, <3>1
    <3>3. Used(loop') = Used(loop) /\ Heard(loop') = Heard(loop)
      BY <3>2 DEF Used, Heard
    <3>4. loop.steps < MaxSteps /\ Heard(loop) \in Int
      BY <1>0, <2>1 DEF Under, Heard
    <3>5. Account(loop')
      BY <1>0, <2>3, <3>2, <3>3, <3>4 DEF Account
    <3>6. Between(loop')
      <4> DEFINE w == Heard(loop) * (Tolerance + 1)
      <4>1. w \in Int /\ Used(loop) \in Int
        BY <1>0 DEF Used, Heard
      <4>2. Used(loop) <= w + loop.streak + 1 /\ Used(loop) = loop.steps + 1
        BY <2>1 DEF Under
      <4> HIDE DEF w
      <4>3. Used(loop') <= w + loop'.streak
        BY <1>0, <3>2, <3>3, <4>1, <4>2
      <4> QED
        BY <3>2, <3>3, <4>2, <4>3 DEF Between, w
    <3> QED
      BY <3>2, <3>5, <3>6 DEF AccountInv, Loop!Ends
  <2> QED
    BY <2>2, <2>3
<1>6. CASE Loop!Decides
  <2>1. loop.at = "sent" /\ Under(loop)
    BY <1>6 DEF Loop!Decides, AccountInv
  <2>2. \/ loop' = [loop EXCEPT !.got = loop.got + 1, !.streak = 0, !.at = "done"]
        \/ loop' = [loop EXCEPT !.got = loop.got + 1, !.streak = 0, !.at = "threw"]
        \/ loop' = [loop EXCEPT !.got = loop.got + 1, !.streak = 0, !.at = "guard", !.steps = loop.steps + 1]
    BY <1>0, <1>6 DEF Loop!Decides
  <2> DEFINE m == [loop EXCEPT !.got = loop.got + 1, !.streak = 0, !.steps = loop.steps + 1]
  <2>3. /\ DOMAIN m = DOMAIN loop /\ m.steps = loop.steps + 1
        /\ m.planned = loop.planned /\ m.got = loop.got + 1
        /\ m.extra = loop.extra /\ m.extraGot = loop.extraGot
        /\ m.streak = 0 /\ m.late = loop.late /\ m.touched = loop.touched
    BY <1>0
  <2> HIDE DEF m
  <2>4. Account(m) /\ Between(m) /\ Loop!Graph!Tolerated(Used(m), Heard(m), TRUE)
    BY <1>0, <2>1, <2>3, HeardBalances DEF Account
  <2>5. /\ DOMAIN loop' = DOMAIN loop /\ loop'.planned = m.planned /\ loop'.got = m.got
        /\ loop'.extra = m.extra /\ loop'.extraGot = m.extraGot
        /\ loop'.streak = 0 /\ loop'.late = m.late /\ loop'.touched = m.touched
        /\ \/ loop'.at = "guard" /\ loop'.steps = m.steps
           \/ loop'.at \in {"done", "threw"} /\ loop'.steps = loop.steps
    BY <1>0, <2>2, <2>3, ZenonT(60)
  <2>6. Used(loop') = Used(m) /\ Heard(loop') = Heard(m)
    BY <2>5 DEF Used, Heard
  <2>7. CASE loop'.at = "guard"
    <3>1. Account(loop') /\ Between(loop')
      BY <2>3, <2>4, <2>5, <2>6, <2>7 DEF Account, Between
    <3> QED
      BY <2>7, <3>1 DEF AccountInv, Loop!Ends
  <2>8. CASE loop'.at = "threw"
    BY <2>8 DEF AccountInv
  <2>9. CASE loop'.at = "done"
    <3> DEFINE e == [loop EXCEPT !.at = "done", !.got = loop.got + 1, !.streak = 0,
                                 !.steps = loop.steps + 1]
    <3>1. /\ DOMAIN e = DOMAIN loop /\ e.at = "done" /\ e.steps = loop.steps + 1
          /\ e.planned = loop.planned /\ e.got = loop.got + 1
          /\ e.extra = loop.extra /\ e.extraGot = loop.extraGot
          /\ e.streak = 0 /\ e.late = loop.late /\ e.touched = loop.touched
      BY <1>0
    <3> HIDE DEF e
    <3>2. Account(e) /\ Between(e) /\ Loop!Graph!Tolerated(Used(e), Heard(e), TRUE)
      BY <1>0, <2>1, <3>1, HeardBalances DEF Account
    <3>3. Heard(e) <= Used(e) /\ Used(e) <= MaxSteps
      BY <3>2 DEF Account, Between
    <3>4. Loop!Graph!Stops(e.at, Used(e), Heard(e), e.planned, Budget)
      BY <3>1, <3>2, <3>3 DEF Loop!Graph!Stops
    <3>5. Contract(e)
      BY <3>1, <3>2, <3>4, EndsFit DEF Loop!Ends
    <3>6. Contract(loop')
      BY <2>3, <2>5, <2>9, <3>1, <3>5 DEF Contract
    <3> QED
      BY <2>9, <3>6 DEF AccountInv
  <2> QED
    BY <2>5, <2>7, <2>8, <2>9
<1> QED
  BY <1>1, <1>3, <1>4, <1>5, <1>6

\* The tools and the experts.
LEMMA ToolBalances ==
    ASSUME LoopNumbers, AccountInv(loop), loop.at = "expert" => answer.call[1] = "delegate", Loop!Tool
    PROVE  /\ AccountInv(loop')
           /\ loop'.at = "expert" => answer'.call[1] = "delegate"
<1>0. /\ Account(loop) /\ Under(loop) /\ loop.at \in {"sent", "expert"}
      /\ {loop.steps, loop.planned, loop.got, loop.streak, loop.extra, loop.extraGot, loop.late} \subseteq Nat
      /\ {"at", "steps", "planned", "got", "streak", "extra", "extraGot", "late", "touched",
          "expert", "stall", "key", "wrote"} \subseteq DOMAIN loop
      /\ {MaxSteps, Budget, Tolerance, MaxExtras} \subseteq Nat
  <2>1. loop.at \in {"sent", "expert"}
    BY DEF Loop!Tool, Loop!ReadFile, Loop!WriteFile, Loop!EditFile, Loop!RunCommand, Loop!Rehearse,
       Loop!Delegate, Loop!ExpertEnds
  <2> QED
    BY <2>1 DEF AccountInv, Account, LoopNumbers
<1>1. ASSUME NEW a, NEW batch \in BOOLEAN, loop' = Loop!Hears(a, batch)
      PROVE  AccountInv(loop') /\ loop'.at # "expert"
  <2>1. /\ loop'.at \in {"guard", "slow", "stall"} /\ Account(loop') /\ Between(loop')
        /\ loop'.at \in {"slow", "stall"} => Contract(loop')
    BY <1>0, <1>1, HearsBalances
  <2> QED
    BY <2>1 DEF AccountInv, Loop!Ends
<1>2. ASSUME NEW a, Loop!Answers(a) PROVE AccountInv(loop') /\ loop'.at # "expert"
  BY <1>1, <1>2 DEF Loop!Answers
<1>3. CASE Loop!ReadFile
  <2>1. \E a : \E batch \in BOOLEAN : loop' = Loop!Hears(a, batch)
    BY <1>3 DEF Loop!ReadFile
  <2> QED
    BY <1>1, <2>1
<1>4. CASE \/ Loop!RunCommand \/ Loop!Rehearse
           \/ \E t \in Texts : Loop!WriteFile(t) \/ \E f \in Texts : Loop!EditFile(f, t)
  <2>1. \E a : Loop!Answers(a)
    BY <1>4 DEF Loop!RunCommand, Loop!Rehearse, Loop!WriteFile, Loop!EditFile, Loop!Cached, Loop!Ran
  <2> QED
    BY <1>2, <2>1
<1>5. ASSUME NEW s \in Signatures, Loop!Delegate(s)
      PROVE  AccountInv(loop') /\ (loop'.at = "expert" => answer'.call[1] = "delegate")
  <2>1. \/ \E a : loop' = Loop!Hears(a, FALSE)
        \/ \E a : /\ loop' = [Loop!Hears(a, FALSE) EXCEPT !.expert = TRUE]
                  /\ a.call[1] = "delegate"
        \/ /\ loop' = [loop EXCEPT !.at = "expert"] /\ ~(loop.planned + 1 > Budget)
           /\ loop.extra < MaxExtras /\ answer'.call = <<"delegate", s>>
    <3> DEFINE old == [call |-> <<"delegate", s>>, how |-> "old",
                       ok |-> experts[s].status = "done" /\ experts[s].text = file.text]
    <3>1. Loop!Refused(<<"delegate", s>>).call[1] = "delegate" /\ old.call[1] = "delegate"
      BY DEF Loop!Refused
    <3>2. CASE loop.expert \/ loop.planned + 1 > Budget
      BY <1>5, <3>2 DEF Loop!Delegate
    <3>3. CASE ~(loop.expert \/ loop.planned + 1 > Budget) /\ Loop!Called >= Experts
      <4>1. loop' = [Loop!Hears(Loop!Refused(<<"delegate", s>>), FALSE) EXCEPT !.expert = TRUE]
        BY <1>5, <3>3 DEF Loop!Delegate
      <4> QED
        BY <3>1, <4>1
    <3>4. CASE ~(loop.expert \/ loop.planned + 1 > Budget) /\ ~(Loop!Called >= Experts)
               /\ experts[s].status # "none"
      <4>1. loop' = [Loop!Hears(old, FALSE) EXCEPT !.expert = TRUE]
        BY <1>5, <3>4 DEF Loop!Delegate
      <4> QED
        BY <3>1, <4>1
    <3>5. CASE ~(loop.expert \/ loop.planned + 1 > Budget) /\ ~(Loop!Called >= Experts)
               /\ ~(experts[s].status # "none")
      <4>1. /\ loop' = [loop EXCEPT !.at = "expert"] /\ loop.extra < MaxExtras
            /\ answer' = [call |-> <<"delegate", s>>, ok |-> FALSE, how |-> "running"]
        BY <1>5, <3>5 DEF Loop!Delegate
      <4> QED
        BY <3>5, <4>1
    <3> QED
      BY <3>2, <3>3, <3>4, <3>5
  <2>2. ASSUME NEW a, loop' = Loop!Hears(a, FALSE)
        PROVE  AccountInv(loop') /\ loop'.at # "expert"
    BY <1>1, <2>2
  <2>3. ASSUME NEW a, a.call[1] = "delegate",
               loop' = [Loop!Hears(a, FALSE) EXCEPT !.expert = TRUE]
        PROVE  AccountInv(loop') /\ loop'.at # "expert"
    <3> DEFINE m == Loop!Hears(a, FALSE)
    <3>1. /\ Account(m) /\ Between(m) /\ m.at = "guard"
      BY <1>0, <2>3, HearsBalances
    <3> HIDE DEF m
    <3>2. loop' = [m EXCEPT !.expert = TRUE]
      BY <2>3 DEF m
    <3>3. /\ DOMAIN loop' = DOMAIN m /\ loop'.at = "guard" /\ loop'.steps = m.steps
          /\ loop'.planned = m.planned /\ loop'.got = m.got
          /\ loop'.extra = m.extra /\ loop'.extraGot = m.extraGot
          /\ loop'.streak = m.streak /\ loop'.late = m.late /\ loop'.touched = m.touched
      BY <3>1, <3>2
    <3>4. Used(loop') = Used(m) /\ Heard(loop') = Heard(m)
      BY <3>3 DEF Used, Heard
    <3>5. Account(loop') /\ Between(loop')
      BY <3>1, <3>3, <3>4 DEF Account, Between
    <3> QED
      BY <3>3, <3>5 DEF AccountInv, Loop!Ends
  <2>4. CASE /\ loop' = [loop EXCEPT !.at = "expert"] /\ ~(loop.planned + 1 > Budget)
             /\ loop.extra < MaxExtras /\ answer'.call = <<"delegate", s>>
    <3>1. /\ DOMAIN loop' = DOMAIN loop /\ loop'.at = "expert" /\ loop'.steps = loop.steps
          /\ loop'.planned = loop.planned /\ loop'.got = loop.got
          /\ loop'.extra = loop.extra /\ loop'.extraGot = loop.extraGot
          /\ loop'.streak = loop.streak /\ loop'.late = loop.late /\ loop'.touched = loop.touched
      BY <1>0, <2>4
    <3>2. Used(loop') = Used(loop) /\ Heard(loop') = Heard(loop)
      BY <3>1 DEF Used, Heard
    <3>3. Account(loop') /\ Under(loop')
      BY <1>0, <3>1, <3>2 DEF Account, Under
    <3>4. loop'.planned + 1 <= Budget /\ loop'.extra < MaxExtras
      BY <1>0, <2>4, <3>1
    <3>5. answer'.call[1] = "delegate"
      BY <2>4
    <3> QED
      BY <3>1, <3>3, <3>4, <3>5 DEF AccountInv, Loop!Ends
  <2> QED
    BY <2>1, <2>2, <2>3, <2>4
<1>6. ASSUME NEW s \in Signatures, Loop!ExpertEnds(s) PROVE AccountInv(loop') /\ loop'.at # "expert"
  <2>1. \E a : \E k \in 0..1 :
            /\ a.call[1] = "delegate"
            /\ loop' = [Loop!Hears(a, FALSE) EXCEPT
                            !.expert = TRUE, !.planned = @ + 1, !.extra = @ + 1,
                            !.got = @ + k, !.extraGot = @ + k]
    <3>1. PICK status \in {"done", "failed", "timeout"}, h \in BOOLEAN :
          LET a == [call |-> answer.call, ok |-> status = "done", how |-> "new"]
              k == IF h THEN 1 ELSE 0
          IN loop' = [Loop!Hears(a, FALSE) EXCEPT
                            !.expert = TRUE, !.planned = @ + 1, !.extra = @ + 1,
                            !.got = @ + k, !.extraGot = @ + k]
      BY <1>6 DEF Loop!ExpertEnds
    <3> DEFINE a == [call |-> answer.call, ok |-> status = "done", how |-> "new"]
               k == IF h THEN 1 ELSE 0
    <3>2. loop.at = "expert"
      BY <1>6 DEF Loop!ExpertEnds
    <3>3. a.call[1] = "delegate" /\ k \in 0..1
      BY <3>2
    <3>4. loop' = [Loop!Hears(a, FALSE) EXCEPT
                            !.expert = TRUE, !.planned = @ + 1, !.extra = @ + 1,
                            !.got = @ + k, !.extraGot = @ + k]
      BY <3>1
    <3> HIDE DEF a, k
    <3> QED
      BY <3>3, <3>4
  <2>20. PICK a, k : /\ a.call[1] = "delegate" /\ k \in 0..1
                    /\ loop' = [Loop!Hears(a, FALSE) EXCEPT
                            !.expert = TRUE, !.planned = @ + 1, !.extra = @ + 1,
                            !.got = @ + k, !.extraGot = @ + k]
    BY <2>1
  <2> DEFINE m == Loop!Hears(a, FALSE)
  <2>2. /\ Account(m) /\ Between(m) /\ m.at = "guard"
        /\ m.planned = loop.planned /\ m.extra = loop.extra
    BY <1>0, <2>20, HearsBalances
  <2> HIDE DEF m
  <2>3. loop' = [m EXCEPT !.expert = TRUE, !.planned = m.planned + 1, !.extra = m.extra + 1,
                          !.got = m.got + k, !.extraGot = m.extraGot + k]
    BY <2>20 DEF m
  <2>4. loop.planned + 1 <= Budget /\ loop.extra < MaxExtras
    BY <1>6 DEF Loop!ExpertEnds, AccountInv
  <2>5. /\ DOMAIN loop' = DOMAIN m /\ loop'.at = "guard" /\ loop'.steps = m.steps
        /\ loop'.planned = m.planned + 1 /\ loop'.got = m.got + k
        /\ loop'.extra = m.extra + 1 /\ loop'.extraGot = m.extraGot + k
        /\ loop'.streak = m.streak /\ loop'.late = m.late /\ loop'.touched = m.touched
    BY <2>2, <2>3 DEF Account
  <2>6. /\ m.planned \in Int /\ m.got \in Int /\ m.extra \in Int /\ m.extraGot \in Int
        /\ k \in Int /\ k \in {0, 1}
    BY <2>2, <2>20 DEF Account
  <2>7. Used(loop') = Used(m) /\ Heard(loop') = Heard(m)
    <3>1. (m.planned + 1) - (m.extra + 1) = m.planned - m.extra
      BY <2>6
    <3>2. (m.got + k) - (m.extraGot + k) = m.got - m.extraGot
      BY <2>6
    <3> QED
      BY <2>5, <3>1, <3>2 DEF Used, Heard
  <2>8. Account(loop')
    BY <1>0, <2>2, <2>4, <2>5, <2>6, <2>7 DEF Account
  <2>9. Between(loop')
    BY <2>2, <2>5, <2>7 DEF Between
  <2> QED
    BY <2>5, <2>8, <2>9 DEF AccountInv, Loop!Ends
<1> QED
  BY <1>3, <1>4, <1>5, <1>6 DEF Loop!Tool

\* Every step of the loop.
LEMMA AccountKeeps ==
    ASSUME LoopNumbers, AccountInv(loop), loop.at = "expert" => answer.call[1] = "delegate",
           [Loop!Next]_LoopVars
    PROVE  /\ AccountInv(loop')
           /\ loop'.at = "expert" => answer'.call[1] = "delegate"
<1>0. LoopNumbers => AccountInv(Loop!Fresh) /\ Account(Loop!Fresh) /\ Between(Loop!Fresh)
  BY DEF LoopNumbers, AccountInv, Account, Between, Used, Heard, Loop!Fresh, Loop!Ends
<1>1. CASE Loop!Compact \/ Loop!Guard \/ Loop!Send \/ Loop!CallFails \/ Loop!Decides
  <2>1. AccountInv(loop')
    BY <1>1, BetweenKeeps
  <2>2. "at" \in DOMAIN loop
    BY <1>1 DEF AccountInv, Account, Loop!Compact, Loop!Guard, Loop!Send, Loop!CallFails, Loop!Decides
  <2>3. loop'.at # "expert"
    <3>1. CASE Loop!Compact
      BY <2>2, <3>1 DEF Loop!Compact
    <3>2. CASE Loop!Guard
      BY <2>2, <3>2 DEF Loop!Guard
    <3>3. CASE Loop!Send
      BY <2>2, <3>3 DEF Loop!Send
    <3>4. CASE Loop!CallFails
      BY <2>2, <3>4 DEF Loop!CallFails
    <3>5. CASE Loop!Decides
      BY <2>2, <3>5 DEF Loop!Decides
    <3> QED
      BY <1>1, <3>1, <3>2, <3>3, <3>4, <3>5
  <2> QED
    BY <2>1, <2>3
<1>2. CASE Loop!Crash
  BY <1>0, <1>2 DEF Loop!Crash, Loop!Fresh
<1>3. CASE Loop!NextLoop
  <2>1. loop' = [Loop!Fresh EXCEPT !.stall = loop.stall, !.key = loop.key]
    BY <1>3 DEF Loop!NextLoop
  <2>2. AccountInv(loop') /\ loop'.at = "guard"
    BY <1>0, <2>1 DEF AccountInv, Account, Between, Used, Heard, Loop!Fresh, Loop!Ends
  <2> QED
    BY <2>2
<1>4. CASE Loop!Over \/ UNCHANGED LoopVars
  BY <1>4 DEF Loop!Over, Loop!vars, LoopVars
<1> QED
  BY <1>1, <1>2, <1>3, <1>4, ToolBalances DEF Loop!Next

\* For any texts, budgets and tolerances: whatever loop the tools, the experts and the model go
\* through, with compactions and crashes in between, the way it ends and the calls it has
\* charged and heard are what the graph takes a loop for (runToolLoop of developerAgent/graph.ts).
THEOREM LoopsFitTheGraph ==
    ASSUME LoopNumbers
    PROVE  Spec => []LoopKeepsContract
<1> DEFINE Inv == part = "loop" => AccountInv(loop) /\ (loop.at = "expert" => answer.call[1] = "delegate")
<1>1. Init => Inv
  <2>1. Loop!Init => AccountInv(loop) /\ loop.at # "expert"
    BY DEF LoopNumbers, AccountInv, Account, Between, Used, Heard, Loop!Fresh, Loop!Ends, Loop!Init
  <2> QED
    BY <2>1, Beginnings
<1>2. Inv /\ [Next]_all => Inv'
  <2>1. ASSUME Inv, [Next]_all, part = "loop" PROVE AccountInv(loop') /\ (loop'.at = "expert" => answer'.call[1] = "delegate")
    BY <2>1, Steps, AccountKeeps
  <2> QED
    BY <2>1, Steps DEF AccountInv, Account, Between, Under, Contract, Used, Heard
<1>3. Inv => LoopKeepsContract
  BY DEF AccountInv, Contract, LoopKeepsContract, Loop!LoopKeepsContract
<1> QED
  BY <1>1, <1>2, <1>3, PTL DEF Spec, all

\* What has no row was never begun; a row once made is not taken away.
AskedInv ==
    /\ DOMAIN experts = Signatures /\ asked \in [Signatures -> Nat]
    /\ \A s \in Signatures :
          /\ "status" \in DOMAIN experts[s]
          /\ asked[s] <= 1
          /\ experts[s].status = "none" => asked[s] = 0

LEMMA ExpertsKeep ==
    ASSUME AskedInv, [Loop!Next]_LoopVars
    PROVE  AskedInv'
<1>1. ASSUME UNCHANGED <<experts, asked>> PROVE AskedInv'
  BY <1>1 DEF AskedInv
<1>2. ASSUME NEW s \in Signatures, Loop!Delegate(s) PROVE AskedInv'
  <2>1. CASE experts[s].status = "none" /\ ~UNCHANGED <<experts, asked>>
    <3>1. /\ experts' = [experts EXCEPT ![s] = [status |-> "running", text |-> file.text]]
          /\ asked' = [asked EXCEPT ![s] = @ + 1]
      BY <1>2, <2>1 DEF Loop!Delegate
    <3> QED
      BY <2>1, <3>1 DEF AskedInv
  <2>2. CASE UNCHANGED <<experts, asked>>
    BY <1>1, <2>2
  <2>3. CASE experts[s].status # "none"
    <3>1. UNCHANGED <<experts, asked>>
      BY <1>2, <2>3 DEF Loop!Delegate
    <3> QED
      BY <1>1, <3>1
  <2> QED
    BY <2>1, <2>2, <2>3
<1>3. ASSUME NEW s \in Signatures, Loop!ExpertEnds(s) PROVE AskedInv'
  <2>1. PICK status \in {"done", "failed", "timeout"} : Loop!Settle(s, status)
    BY <1>3 DEF Loop!ExpertEnds
  <2>2. experts' = [experts EXCEPT ![s].status = status] /\ asked' = asked
    BY <1>3, <2>1 DEF Loop!ExpertEnds, Loop!Settle
  <2>3. /\ DOMAIN experts' = Signatures
        /\ \A t \in Signatures : /\ t # s => experts'[t] = experts[t]
                                 /\ "status" \in DOMAIN experts'[t]
        /\ experts'[s].status = status
    BY <2>2 DEF AskedInv
  <2> QED
    BY <2>1, <2>2, <2>3 DEF AskedInv
<1>4. CASE Loop!ReadFile
  BY <1>1, <1>4 DEF Loop!ReadFile
<1>5. ASSUME NEW print, Loop!Cached(print) \/ \E a : Loop!Ran(print, a) PROVE AskedInv'
  BY <1>1, <1>5 DEF Loop!Cached, Loop!Ran, Loop!Answers
<1>6. CASE Loop!Rehearse \/ Loop!RunCommand
  <2>1. CASE Loop!Rehearse
    BY <1>5, <2>1 DEF Loop!Rehearse
  <2>2. CASE Loop!RunCommand
    BY <1>1, <1>5, <2>2 DEF Loop!RunCommand, Loop!Answers
  <2> QED
    BY <1>6, <2>1, <2>2
<1>7. ASSUME NEW t, Loop!WriteFile(t) PROVE AskedInv'
  BY <1>5, <1>7 DEF Loop!WriteFile
<1>8. ASSUME NEW f, NEW t, Loop!EditFile(f, t) PROVE AskedInv'
  BY <1>5, <1>8 DEF Loop!EditFile
<1>9. CASE Loop!Compact \/ Loop!Guard \/ Loop!Send \/ Loop!CallFails \/ Loop!Decides
           \/ Loop!NextLoop
  BY <1>1, <1>9 DEF Loop!Compact, Loop!Guard, Loop!Send, Loop!CallFails, Loop!Decides,
     Loop!NextLoop, Loop!world
<1>10. CASE Loop!Crash \/ Loop!Over \/ UNCHANGED LoopVars
  BY <1>1, <1>10 DEF Loop!Crash, Loop!Over, Loop!vars, LoopVars
<1> QED
  BY <1>2, <1>3, <1>4, <1>6, <1>7, <1>8, <1>9, <1>10 DEF Loop!Next, Loop!Tool

\* However many loops and crashes: an expert is paid for its analysis of a failure once, whether
\* it answered, failed or was cut off (claimSubagentCall of ledger.ts).
THEOREM ExpertsAskedOnce == Spec => []ExpertsAreAskedOnce
<1> DEFINE Inv == part = "loop" => AskedInv
<1>1. Init => Inv
  BY Beginnings DEF Loop!Init, AskedInv
<1>2. Inv /\ [Next]_all => Inv'
  BY Steps, ExpertsKeep
<1>3. Inv => ExpertsAreAskedOnce
  BY DEF AskedInv, ExpertsAreAskedOnce, Loop!ExpertsAreAskedOnce
<1> QED
  BY <1>1, <1>2, <1>3, PTL DEF Spec, all

-----------------------------------------------------------------------------
\* Context: calls and results

\* A set of numbers that is not empty has a least one: the form in which induction is used here.
LEMMA LeastNumber ==
    ASSUME NEW T, T \subseteq Nat, T # {}
    PROVE  \E x \in T : \A y \in T : x <= y
<1> DEFINE R == {ss \in Nat \X Nat : ss[1] < ss[2]}
<1>1. IsWellFoundedOn(R, Nat)
  BY NatLessThanWellFounded DEF OpToRel
<1>2. PICK x \in T : \A y \in T : ~(<<y, x>> \in R)
  <2> HIDE DEF R
  <2> QED
    BY <1>1, WFMin
<1>3. \A y \in T : ~(y < x)
  BY <1>2
<1> QED
  BY <1>3

\* What holds of 0, and of n + 1 when of n, holds of every number.
LEMMA Induct ==
    ASSUME NEW N \in SUBSET Nat, 0 \in N, \A n \in N : n + 1 \in N
    PROVE  N = Nat
<1> SUFFICES ASSUME Nat \ N # {} PROVE FALSE
  OBVIOUS
<1>1. PICK x \in Nat \ N : \A y \in Nat \ N : x <= y
  BY LeastNumber
<1>2. x - 1 \in Nat /\ x - 1 \notin Nat \ N
  BY <1>1
<1> QED
  BY <1>1, <1>2

\* A function that puts one piece after the other is there, for any number of pieces.
LEMMA Joins ==
    ASSUME NEW s, NEW n \in Nat
    PROVE  \E g : g = [i \in 1..n |-> IF i = 1 THEN s[i] ELSE g[i - 1] \o s[i]]
<1> DEFINE IsJoin(g, k) == g = [i \in 1..k |-> IF i = 1 THEN s[i] ELSE g[i - 1] \o s[i]]
           N == {k \in Nat : \E g : IsJoin(g, k)}
<1>1. 0 \in N
  <2>1. IsJoin([i \in {} |-> s[i]], 0)
    BY 1..0 = {}
  <2> QED
    BY <2>1
<1>2. ASSUME NEW k \in N PROVE k + 1 \in N
  <2>1. PICK g : IsJoin(g, k)
    BY <1>2
  <2> DEFINE more == IF k = 0 THEN s[1] ELSE g[k] \o s[k + 1]
             h == [i \in 1..(k + 1) |-> IF i = k + 1 THEN more ELSE g[i]]
  <2>2. \A i \in 1..k : g[i] = (IF i = 1 THEN s[i] ELSE g[i - 1] \o s[i])
    BY <2>1
  <2>3. \A i \in 1..(k + 1) : h[i] = (IF i = 1 THEN s[i] ELSE h[i - 1] \o s[i])
    BY <2>2
  <2>4. h = [i \in 1..(k + 1) |-> IF i = 1 THEN s[i] ELSE h[i - 1] \o s[i]]
    <3> HIDE DEF h
    <3>1. DOMAIN h = 1..(k + 1) /\ h = [i \in DOMAIN h |-> h[i]]
      BY DEF h
    <3> QED
      BY <2>3, <3>1
  <2>5. IsJoin(h, k + 1)
    BY <2>4
  <2> HIDE DEF h, IsJoin
  <2> QED
    BY <2>5
<1> HIDE DEF N
<1>3. N \in SUBSET Nat
  BY DEF N
<1>4. N = Nat
  BY <1>1, <1>2, <1>3, Induct
<1> QED
  BY <1>4 DEF N

\* FlattenSeq is the last value of such a function.
LEMMA FlattenJoins ==
    ASSUME NEW s, Len(s) \in Nat \ {0}
    PROVE  \E g : /\ \A i \in 1..Len(s) : g[i] = (IF i = 1 THEN s[i] ELSE g[i - 1] \o s[i])
                  /\ Ctx!FlattenSeq(s) = g[Len(s)]
<1> DEFINE IsJoin(g) == g = [i \in 1..Len(s) |-> IF i = 1 THEN s[i] ELSE g[i - 1] \o s[i]]
           flatten == CHOOSE g : IsJoin(g)
<1>1. \E g : IsJoin(g)
  BY Joins, Zenon
<1>2. IsJoin(flatten)
  <2> HIDE DEF IsJoin
  <2> QED
    BY <1>1
<1>3. Ctx!FlattenSeq(s) = flatten[Len(s)]
  <2>1. Len(s) # 0
    OBVIOUS
  <2> QED
    BY <2>1, Zenon DEF Ctx!FlattenSeq
<1> HIDE DEF flatten
<1>4. \A i \in 1..Len(s) : flatten[i] = (IF i = 1 THEN s[i] ELSE flatten[i - 1] \o s[i])
  BY <1>2, Zenon
<1> QED
  BY <1>3, <1>4

Entries  == [kind : {"call", "note", "boundary", "summary"}, id : Nat,
             size : Sizes \cup Summaries \cup {0}, tells : SUBSET Nat]
Messages == [kind : {"use", "result", "note", "boundary", "summary", "marker"}, id : Nat,
             size : Sizes \cup Summaries \cup {0}, tells : SUBSET Nat]

\* Each result follows its call.
Beside(ms) ==
    \A i \in DOMAIN ms : ms[i].kind = "result" =>
        i > 1 /\ ms[i - 1].kind = "use" /\ ms[i - 1].id = ms[i].id

\* No two calls have one id.
Single(ms) ==
    \A i, j \in DOMAIN ms :
        ms[i].kind = "use" /\ ms[j].kind = "use" /\ ms[i].id = ms[j].id => i = j

\* Of messages in which each result follows its call, a tail that does not begin with a result
\* is of this kind.
LEMMA TailBeside ==
    ASSUME NEW ms \in Seq(Messages), Beside(ms), NEW first \in Nat, 1 <= first,
           first \in DOMAIN ms => ms[first].kind # "result"
    PROVE  /\ SubSeq(ms, first, Len(ms)) \in Seq(Messages)
           /\ Beside(SubSeq(ms, first, Len(ms)))
<1> DEFINE tail == SubSeq(ms, first, Len(ms))
<1>1. Len(ms) \in Nat /\ DOMAIN ms = 1..Len(ms) /\ \A i \in 1..Len(ms) : ms[i] \in Messages
  BY LenProperties, ElementOfSeq
<1>2. \A i \in first..Len(ms) : ms[i] \in Messages
  BY <1>1
<1>3. /\ tail \in Seq(Messages)
      /\ Len(tail) = (IF first <= Len(ms) THEN Len(ms) - first + 1 ELSE 0)
      /\ \A i \in 1..(Len(ms) - first + 1) : tail[i] = ms[first + i - 1]
  BY <1>1, <1>2, SubSeqProperties
<1>4. DOMAIN tail = 1..Len(tail)
  BY <1>3, LenProperties
<1> HIDE DEF tail
<1>5. ASSUME NEW i \in DOMAIN tail, tail[i].kind = "result"
      PROVE  i > 1 /\ tail[i - 1].kind = "use" /\ tail[i - 1].id = tail[i].id
  <2>1. /\ i \in 1..(Len(ms) - first + 1) /\ first + i - 1 \in DOMAIN ms
        /\ tail[i] = ms[first + i - 1]
    BY <1>1, <1>3, <1>4
  <2> DEFINE p == first + i - 1
  <2>2. p > 1 /\ ms[p - 1].kind = "use" /\ ms[p - 1].id = tail[i].id
    <3> HIDE DEF p
    <3> QED
      BY <1>5, <2>1 DEF Beside, p
  <2>3. i # 1
    <3> HIDE DEF p
    <3> SUFFICES ASSUME i = 1 PROVE FALSE
      OBVIOUS
    <3>1. first + i - 1 = first
      OBVIOUS
    <3> QED
      BY <1>5, <2>1, <3>1
  <2>4. tail[i - 1] = ms[p - 1]
    <3>1. i - 1 \in 1..(Len(ms) - first + 1) /\ first + (i - 1) - 1 = p - 1
      BY <1>1, <2>1, <2>3
    <3> QED
      BY <1>3, <3>1
  <2> QED
    BY <2>1, <2>2, <2>3, <2>4
<1> QED
  BY <1>3, <1>5 DEF Beside, tail

\* Two such sequences one after the other are such a sequence.
LEMMA JoinedBeside ==
    ASSUME NEW s \in Seq(Messages), NEW t \in Seq(Messages), Beside(s), Beside(t)
    PROVE  s \o t \in Seq(Messages) /\ Beside(s \o t)
<1>1. /\ s \o t \in Seq(Messages) /\ Len(s \o t) = Len(s) + Len(t)
      /\ \A i \in 1..(Len(s) + Len(t)) : (s \o t)[i] = IF i <= Len(s) THEN s[i] ELSE t[i - Len(s)]
  BY ConcatProperties
<1>2. /\ Len(s) \in Nat /\ Len(t) \in Nat /\ DOMAIN s = 1..Len(s) /\ DOMAIN t = 1..Len(t)
      /\ DOMAIN (s \o t) = 1..Len(s \o t)
  BY <1>1, LenProperties
<1> DEFINE u == s \o t
<1> HIDE DEF u
<1>3. ASSUME NEW i \in DOMAIN u, u[i].kind = "result"
      PROVE  i > 1 /\ u[i - 1].kind = "use" /\ u[i - 1].id = u[i].id
  <2>1. CASE i <= Len(s)
    BY <1>1, <1>2, <1>3, <2>1 DEF Beside, u
  <2>2. CASE i > Len(s)
    <3>1. i - Len(s) \in DOMAIN t /\ u[i] = t[i - Len(s)]
      BY <1>1, <1>2, <2>2 DEF u
    <3>2. /\ i - Len(s) > 1 /\ t[i - Len(s) - 1].kind = "use"
          /\ t[i - Len(s) - 1].id = t[i - Len(s)].id
      BY <1>3, <3>1 DEF Beside
    <3>3. u[i - 1] = t[i - Len(s) - 1]
      <4>1. /\ i - 1 \in 1..(Len(s) + Len(t)) /\ ~(i - 1 <= Len(s))
            /\ (i - 1) - Len(s) = i - Len(s) - 1
        BY <1>1, <1>2, <2>2, <3>1, <3>2 DEF u
      <4> QED
        BY <1>1, <4>1 DEF u
    <3>4. i > 1
      BY <1>2, <3>1, <3>2
    <3> QED
      <4> DEFINE p == i - 1
                 q == i - Len(s) - 1
      <4>1. /\ u[p] = t[q] /\ t[q].kind = "use" /\ t[q].id = u[i].id
        BY <3>1, <3>2, <3>3
      <4> HIDE DEF q
      <4> QED
        BY <3>4, <4>1
  <2> QED
    BY <1>1, <1>2, <2>1, <2>2 DEF u
<1> QED
  BY <1>1, <1>3 DEF Beside, u

\* Whatever tail is kept, begun earlier for a call and freed of boundaries, a result in it has
\* its call.
LEMMA KeptArePaired ==
    ASSUME NEW ms \in Seq(Messages), Beside(ms), Single(ms),
           NEW keeps \in Ctx!MessagesToKeep(ms)
    PROVE  Ctx!Paired(ms, keeps)
<1>1. Len(ms) \in Nat /\ DOMAIN ms = 1..Len(ms) /\ \A i \in 1..Len(ms) : ms[i] \in Messages
  BY LenProperties, ElementOfSeq
<1>2. PICK start \in DOMAIN ms :
        keeps = {j \in Ctx!adjustIndexToPreserveAPIInvariants(ms, start)..Len(ms) :
                  ms[j].kind # "boundary"}
  BY DEF Ctx!MessagesToKeep
<1> DEFINE tail   == SubSeq(ms, start, Len(ms))
           needed == Ctx!Ids(tail, "result") \ Ctx!Ids(tail, "use")
           earlier == {j \in 1..(start - 1) : ms[j].kind = "use" /\ ms[j].id \in needed}
           index  == Ctx!adjustIndexToPreserveAPIInvariants(ms, start)
<1> HIDE DEF needed
<1>3. index \in {start} \cup earlier /\ \A j \in {start} \cup earlier : index <= j
  <2>1. index = Ctx!Min({start} \cup earlier)
    BY DEF Ctx!adjustIndexToPreserveAPIInvariants, needed
  <2>2. {start} \cup earlier \subseteq Nat
    BY <1>1
  <2>3. \E x \in {start} \cup earlier : \A y \in {start} \cup earlier : x <= y
    BY <2>2, LeastNumber
  <2> HIDE DEF index, earlier
  <2> QED
    BY <2>1, <2>3 DEF Ctx!Min
<1>4. /\ DOMAIN tail = 1..(Len(ms) - start + 1)
      /\ \A i \in DOMAIN tail : tail[i] = ms[start + i - 1]
  <2>1. \A i \in start..Len(ms) : ms[i] \in Messages
    BY <1>1
  <2>2. /\ tail \in Seq(Messages) /\ Len(tail) = Len(ms) - start + 1
        /\ \A i \in 1..(Len(ms) - start + 1) : tail[i] = ms[start + i - 1]
    BY <1>1, <2>1, SubSeqProperties
  <2> QED
    BY <2>2, LenProperties
<1> HIDE DEF tail, index
<1>5. ASSUME NEW i \in keeps, ms[i].kind = "result"
      PROVE  \E j \in keeps : j < i /\ ms[j].kind = "use" /\ ms[j].id = ms[i].id
  <2>1. i \in index..Len(ms) /\ i \in DOMAIN ms /\ index \in DOMAIN ms
    BY <1>1, <1>2, <1>3 DEF index
  <2>2. i > 1 /\ ms[i - 1].kind = "use" /\ ms[i - 1].id = ms[i].id
    BY <1>5, <2>1 DEF Beside
  <2>3. i - 1 >= index
    <3> SUFFICES ASSUME i = index PROVE FALSE
      BY <1>1, <2>1
    <3>1. index = start
      BY <1>3, <1>5
    <3>2. 1 \in DOMAIN tail /\ tail[1] = ms[start]
      BY <1>1, <1>4, <3>1, <2>1
    <3>3. ms[start].id \in Ctx!Ids(tail, "result")
      BY <1>5, <3>1, <3>2 DEF Ctx!Ids
    <3>4. ms[start].id \notin Ctx!Ids(tail, "use")
      <4> SUFFICES ASSUME NEW k \in DOMAIN tail, tail[k].kind = "use", tail[k].id = ms[start].id
                   PROVE  FALSE
        BY DEF Ctx!Ids
      <4>1. tail[k] = ms[start + k - 1] /\ start + k - 1 \in DOMAIN ms /\ start + k - 1 >= start
        BY <1>1, <1>4
      <4>2. start + k - 1 = start - 1
        BY <1>1, <2>1, <2>2, <3>1, <4>1 DEF Single
      <4> QED
        BY <1>1, <4>1, <4>2
    <3>5. start - 1 \in earlier
      BY <1>1, <2>1, <2>2, <3>1, <3>3, <3>4 DEF needed
    <3> QED
      BY <1>1, <1>3, <3>1, <3>5
  <2>4. i - 1 \in keeps
    BY <1>1, <1>2, <2>1, <2>2, <2>3 DEF index
  <2> QED
    BY <1>1, <2>1, <2>2, <2>4
<1> QED
  BY <1>5 DEF Ctx!Paired

\* Each result follows its call: so the messages as a whole are paired.
LEMMA BesideIsPaired ==
    ASSUME NEW ms \in Seq(Messages), Beside(ms)
    PROVE  Ctx!Paired(ms, DOMAIN ms)
BY LenProperties DEF Beside, Ctx!Paired

\* A call and its result are a sequence of this kind.
LEMMA PairBeside ==
    ASSUME NEW a \in Messages, NEW b \in Messages, a.kind = "use", b.kind = "result", a.id = b.id
    PROVE  /\ <<a, b>> \in Seq(Messages) /\ Beside(<<a, b>>)
           /\ \A p \in DOMAIN <<a, b>> : <<a, b>>[p].kind = "use" => p = 1 /\ <<a, b>>[p].id = a.id
<1> DEFINE s == <<a, b>>
<1>1. s \in Seq(Messages) /\ DOMAIN s = 1..2 /\ s[1] = a /\ s[2] = b
  OBVIOUS
<1> HIDE DEF s
<1>2. \A p \in DOMAIN s : p = 1 \/ p = 2
  BY <1>1
<1>3. Beside(s)
  <2> SUFFICES ASSUME NEW p \in DOMAIN s, s[p].kind = "result"
               PROVE  p > 1 /\ s[p - 1].kind = "use" /\ s[p - 1].id = s[p].id
    BY DEF Beside
  <2>1. p = 2 /\ p - 1 = 1
    BY <1>1, <1>2
  <2> QED
    BY <1>1, <2>1
<1>4. \A p \in DOMAIN s : s[p].kind = "use" => p = 1 /\ s[p].id = a.id
  BY <1>1, <1>2
<1> QED
  BY <1>1, <1>3, <1>4 DEF s

\* The messages of a history: call and result of an entry, one after the other.
LEMMA HistoryBeside ==
    ASSUME NEW h \in Seq(Entries),
           \A i, j \in DOMAIN h :
               h[i].kind = "call" /\ h[j].kind = "call" /\ h[i].id = h[j].id => i = j
    PROVE  /\ Ctx!historyToMessages(h) \in Seq(Messages)
           /\ Beside(Ctx!historyToMessages(h)) /\ Single(Ctx!historyToMessages(h))
<1> DEFINE n == Len(h)
           piece(e) == IF e.kind = "call"
                       THEN <<[e EXCEPT !.kind = "use"], [e EXCEPT !.kind = "result"]>>
                       ELSE <<e>>
           pieces == [i \in DOMAIN h |-> piece(h[i])]
<1>1. n \in Nat /\ DOMAIN h = 1..n /\ \A i \in 1..n : h[i] \in Entries
  BY LenProperties, ElementOfSeq
<1>2. Ctx!historyToMessages(h) = Ctx!FlattenSeq(pieces)
  BY DEF Ctx!historyToMessages
<1>3. ASSUME NEW e \in Entries
      PROVE  /\ piece(e) \in Seq(Messages) /\ Beside(piece(e))
             /\ \A p \in DOMAIN piece(e) : piece(e)[p].kind = "use" =>
                    p = 1 /\ e.kind = "call" /\ piece(e)[p].id = e.id
  <2>1. CASE e.kind = "call"
    <3>1. /\ [e EXCEPT !.kind = "use"] \in Messages /\ [e EXCEPT !.kind = "result"] \in Messages
          /\ [e EXCEPT !.kind = "use"].id = e.id /\ [e EXCEPT !.kind = "result"].id = e.id
          /\ [e EXCEPT !.kind = "use"].kind = "use"
          /\ [e EXCEPT !.kind = "result"].kind = "result"
      BY DEF Entries, Messages
    <3> QED
      BY <2>1, <3>1, PairBeside
  <2>2. CASE e.kind # "call"
    <3>1. e \in Messages /\ e.kind \notin {"use", "result"}
      BY <2>2 DEF Entries, Messages
    <3> QED
      BY <2>2, <3>1 DEF Beside
  <2> QED
    BY <2>1, <2>2
<1> HIDE DEF piece
<1>4. Len(pieces) = n
  <2>1. pieces \in [1..n -> Seq(Messages)]
    BY <1>1, <1>3
  <2>2. pieces \in Seq(Seq(Messages))
    BY <1>1, <2>1, SeqDef
  <2> QED
    BY <1>1, <2>1, <2>2, LenProperties
<1>5. CASE n = 0
  <2>1. Ctx!FlattenSeq(pieces) = pieces /\ pieces = <<>>
    BY <1>1, <1>4, <1>5 DEF Ctx!FlattenSeq
  <2>2. <<>> \in Seq(Messages) /\ DOMAIN <<>> = {}
    OBVIOUS
  <2> QED
    BY <1>2, <2>1, <2>2 DEF Beside, Single
<1>6. CASE n # 0
  <2>1. PICK g : /\ \A i \in 1..n : g[i] = IF i = 1 THEN pieces[i] ELSE g[i - 1] \o pieces[i]
                 /\ Ctx!FlattenSeq(pieces) = g[n]
    BY <1>1, <1>4, <1>6, FlattenJoins
  <2> DEFINE Fine(k) ==
               /\ g[k] \in Seq(Messages) /\ Beside(g[k]) /\ Single(g[k])
               /\ \A p \in DOMAIN g[k] : g[k][p].kind = "use" =>
                      \E i \in 1..k : h[i].kind = "call" /\ h[i].id = g[k][p].id
             N == {k \in Nat : k \in 1..n => Fine(k)}
  <2>2. ASSUME NEW k \in N PROVE k + 1 \in N
    <3> HIDE DEF Fine
    <3> SUFFICES ASSUME k + 1 \in 1..n PROVE Fine(k + 1)
      OBVIOUS
    <3>1. k \in Nat /\ (k \in 1..n => Fine(k)) /\ h[k + 1] \in Entries
      BY <1>1
    <3>2. CASE k = 0
      <4>1. g[k + 1] = piece(h[1]) /\ h[1] \in Entries
        BY <1>1, <2>1, <3>2
      <4>2. Single(piece(h[1]))
        BY <1>3, <4>1 DEF Single
      <4> QED
        BY <1>3, <3>2, <4>1, <4>2 DEF Fine
    <3>3. CASE k # 0
      <4> DEFINE s == g[k]
                 t == piece(h[k + 1])
      <4>1. g[k + 1] = s \o t
        <5>1. k + 1 \in 1..n /\ k + 1 # 1 /\ (k + 1) - 1 = k
          BY <3>1, <3>3
        <5>2. pieces[k + 1] = t
          BY <1>1, <5>1
        <5> HIDE DEF pieces
        <5> QED
          BY <2>1, <5>1, <5>2
      <4>2. /\ s \in Seq(Messages) /\ Beside(s) /\ Single(s)
            /\ \A p \in DOMAIN s : s[p].kind = "use" =>
                   \E i \in 1..k : h[i].kind = "call" /\ h[i].id = s[p].id
        BY <1>1, <3>1, <3>3 DEF Fine
      <4>3. /\ t \in Seq(Messages) /\ Beside(t)
            /\ \A p \in DOMAIN t : t[p].kind = "use" =>
                   p = 1 /\ h[k + 1].kind = "call" /\ t[p].id = h[k + 1].id
        BY <1>3, <3>1
      <4> HIDE DEF s, t
      <4>4. s \o t \in Seq(Messages) /\ Beside(s \o t)
        BY <4>2, <4>3, JoinedBeside
      <4>5. /\ Len(s) \in Nat /\ Len(t) \in Nat /\ DOMAIN s = 1..Len(s) /\ DOMAIN t = 1..Len(t)
            /\ DOMAIN (s \o t) = 1..(Len(s) + Len(t))
            /\ \A i \in 1..(Len(s) + Len(t)) :
                   (s \o t)[i] = IF i <= Len(s) THEN s[i] ELSE t[i - Len(s)]
        BY <4>2, <4>3, <4>4, LenProperties, ConcatProperties
      <4> DEFINE u == s \o t
      <4> HIDE DEF u
      <4>6. ASSUME NEW p \in DOMAIN u, u[p].kind = "use"
            PROVE  \/ p \in DOMAIN s /\ u[p] = s[p]
                   \/ p = Len(s) + 1 /\ h[k + 1].kind = "call" /\ u[p].id = h[k + 1].id
        <5>1. CASE p <= Len(s)
          BY <4>5, <5>1 DEF u
        <5>2. CASE p > Len(s)
          <6>1. p - Len(s) \in DOMAIN t /\ u[p] = t[p - Len(s)]
            BY <4>5, <5>2 DEF u
          <6> QED
            BY <4>3, <4>5, <4>6, <6>1 DEF u
        <5> QED
          BY <4>5, <5>1, <5>2 DEF u
      <4>7. ASSUME NEW p \in DOMAIN u, u[p].kind = "use"
            PROVE  \E i \in 1..(k + 1) : h[i].kind = "call" /\ h[i].id = u[p].id
        BY <3>1, <4>2, <4>6, <4>7
      <4>8. Single(u)
        <5> SUFFICES ASSUME NEW p \in DOMAIN u, NEW q \in DOMAIN u, u[p].kind = "use",
                            u[q].kind = "use", u[p].id = u[q].id
                     PROVE  p = q
          BY DEF Single
        <5>1. \A i \in 1..k : h[i].kind = "call" /\ h[k + 1].kind = "call" =>
                                  h[i].id # h[k + 1].id
          BY <1>1, <3>1
        <5> QED
          BY <4>2, <4>6, <5>1 DEF Single
      <4> QED
        BY <4>1, <4>4, <4>7, <4>8 DEF Fine, u
    <3> QED
      BY <3>2, <3>3
  <2>3. N \in SUBSET Nat /\ 0 \in N
    OBVIOUS
  <2> HIDE DEF N
  <2>4. N = Nat
    BY <2>2, <2>3, Induct
  <2>5. Fine(n)
    <3> HIDE DEF Fine
    <3> QED
      BY <1>1, <1>6, <2>4 DEF N
  <2> QED
    BY <1>2, <2>1, <2>5
<1> QED
  BY <1>5, <1>6

\* Of a finite set of numbers there is one with any number of others below it that leaves one.
LEMMA Ranked ==
    ASSUME NEW S \in SUBSET Nat, IsFiniteSet(S), NEW k \in Nat, k < Cardinality(S)
    PROVE  \E i \in S : Cardinality({j \in S : j < i}) = k
<1> DEFINE below(i) == {j \in S : j < i}
           Rank(m) == m < Cardinality(S) => \E i \in S : Cardinality(below(i)) = m
           N == {m \in Nat : Rank(m)}
<1>1. Cardinality(S) \in Nat
  BY FS_CardinalityType
<1>2. ASSUME NEW T \in SUBSET S, T # {} PROVE \E i \in T : \A j \in T : i <= j
  BY <1>2, LeastNumber
<1>3. 0 \in N
  <2> SUFFICES ASSUME 0 < Cardinality(S) PROVE \E i \in S : Cardinality(below(i)) = 0
    OBVIOUS
  <2>1. S # {}
    BY FS_EmptySet
  <2>2. PICK i \in S : \A j \in S : i <= j
    BY <1>2, <2>1
  <2>3. below(i) = {}
    <3>1. \A j \in S : ~(j < i)
      BY <2>2
    <3> QED
      BY <3>1
  <2> HIDE DEF below
  <2> QED
    BY <2>3, FS_EmptySet
<1>4. ASSUME NEW m \in N PROVE m + 1 \in N
  <2>1. m \in Nat /\ Rank(m)
    OBVIOUS
  <2> SUFFICES ASSUME m + 1 < Cardinality(S)
               PROVE  \E i \in S : Cardinality(below(i)) = m + 1
    BY <2>1
  <2>2. PICK i \in S : Cardinality(below(i)) = m
    BY <1>1, <2>1
  <2> DEFINE upTo == below(i) \cup {i}
  <2>3. below(i) \subseteq S /\ i \notin below(i) /\ upTo \subseteq S
    OBVIOUS
  <2>4. IsFiniteSet(below(i))
    BY <2>3, FS_Subset
  <2>5. Cardinality(upTo) = m + 1
    <3> HIDE DEF below
    <3> QED
      BY <2>2, <2>3, <2>4, FS_AddElement
  <2>6. S \ upTo # {}
    <3> HIDE DEF upTo
    <3> SUFFICES ASSUME S \ upTo = {} PROVE FALSE
      OBVIOUS
    <3>1. S = upTo
      BY <2>3
    <3> QED
      BY <1>1, <2>1, <2>5, <3>1
  <2>7. PICK next \in S \ upTo : \A j \in S \ upTo : next <= j
    <3> HIDE DEF upTo
    <3> QED
      BY <1>2, <2>6
  <2>8. next > i
    BY <2>7
  <2>9. \A j \in S : j < next <=> j \in upTo
    BY <2>7, <2>8
  <2>10. below(next) = upTo
    <3> HIDE DEF upTo
    <3> QED
      BY <2>3, <2>9
  <2> HIDE DEF below, upTo
  <2> QED
    BY <2>5, <2>7, <2>10
<1> HIDE DEF N
<1>5. N = Nat
  <2>1. N \in SUBSET Nat
    BY DEF N
  <2> QED
    BY <1>3, <1>4, <2>1, Induct
<1> QED
  BY <1>5 DEF N

\* A set of numbers up to n that is not empty has a greatest one.
LEMMA GreatestNumber ==
    ASSUME NEW n \in Nat, NEW S \in SUBSET (0..n), S # {}
    PROVE  Ctx!Max(S) \in S /\ \A y \in S : Ctx!Max(S) >= y
<1> DEFINE T == {n - y : y \in S}
<1>1. T \subseteq Nat /\ T # {}
  <2>1. \A y \in S : n - y \in Nat
    OBVIOUS
  <2> QED
    BY <2>1
<1>2. PICK t \in T : \A u \in T : t <= u
  BY <1>1, LeastNumber
<1>3. PICK x \in S : t = n - x
  BY <1>2
<1>4. \A y \in S : x >= y
  <2>1. \A y \in S : t <= n - y
    BY <1>2
  <2> QED
    BY <1>3, <2>1
<1> QED
  BY <1>4 DEF Ctx!Max

\* The entry that marks a cut is no call, so the rest is what it was.
LEMMA UnmarkedBeside ==
    ASSUME NEW ms \in Seq(Messages), Beside(ms)
    PROVE  Ctx!Unmarked(ms) \in Seq(Messages) /\ Beside(Ctx!Unmarked(ms))
<1>1. CASE ms # <<>> /\ ms[1] = Ctx!Marker
  <2>1. 2 \in DOMAIN ms => ms[2].kind # "result"
    BY <1>1, LenProperties DEF Beside, Ctx!Marker, Ctx!Entry
  <2>2. Ctx!Unmarked(ms) = SubSeq(ms, 2, Len(ms))
    BY <1>1, TailIsSubSeq DEF Ctx!Unmarked
  <2> QED
    BY <2>1, <2>2, TailBeside
<1>2. CASE ~(ms # <<>> /\ ms[1] = Ctx!Marker)
  BY <1>2 DEF Ctx!Unmarked
<1> QED
  BY <1>1, <1>2

\* Both modules count alike.
LEMMA SameCardinality == \A S : Ctx!Cardinality(S) = Cardinality(S)
BY Zenon DEF Ctx!Cardinality, Cardinality

\* However the head is cut off, it is cut before a call.
LEMMA TruncatedBeside ==
    ASSUME NEW ms \in Seq(Messages), Beside(ms)
    PROVE  /\ Ctx!truncateHeadForPTLRetry(ms) \in Seq(Messages)
           /\ Beside(Ctx!truncateHeadForPTLRetry(ms))
<1> DEFINE input  == Ctx!Unmarked(ms)
           heads == Ctx!RoundStarts(input)
           drop   == Ctx!Larger(1, Cardinality(heads) \div 5)
           first  == CHOOSE i \in heads : Cardinality({j \in heads : j < i}) = drop
           left   == SubSeq(input, first, Len(input))
<1>1. input \in Seq(Messages) /\ Beside(input)
  BY UnmarkedBeside
<1>2. CASE Cardinality(heads) < 2
  <2> HIDE DEF heads, first
  <2>1. Ctx!truncateHeadForPTLRetry(ms) = <<>>
    BY <1>2, SameCardinality DEF Ctx!truncateHeadForPTLRetry, heads, first
  <2> QED
    BY <2>1 DEF Beside
<1>3. CASE ~(Cardinality(heads) < 2)
  <2> HIDE DEF input
  <2>1. Len(input) \in Nat /\ DOMAIN input = 1..Len(input)
    BY <1>1, LenProperties
  <2>2. heads \in SUBSET Nat /\ IsFiniteSet(heads) /\ \A i \in heads : i >= 1
    <3>1. heads \subseteq 1..(Len(input) + 1)
      BY <2>1 DEF Ctx!RoundStarts
    <3>2. IsFiniteSet(1..(Len(input) + 1))
      BY <2>1, FS_Interval
    <3> HIDE DEF heads
    <3>3. IsFiniteSet(heads)
      BY <3>1, <3>2, FS_Subset
    <3> QED
      BY <2>1, <3>1, <3>3
  <2> HIDE DEF heads
  <2>3. Cardinality(heads) \in Nat /\ Cardinality(heads) >= 2
    BY <1>3, <2>2, FS_CardinalityType
  <2>4. drop \in Nat /\ drop >= 1 /\ drop < Cardinality(heads)
    BY <2>3 DEF Ctx!Larger
  <2> HIDE DEF drop
  <2> DEFINE before == {j \in heads : j < first}
  <2>5. first \in heads /\ Cardinality(before) = drop
    BY <2>2, <2>4, Ranked
  <2> HIDE DEF first
  <2>6. first # 1
    <3> SUFFICES ASSUME first = 1 PROVE FALSE
      OBVIOUS
    <3>1. \A j \in heads : ~(j < first)
      BY <2>2
    <3>2. before = {}
      BY <3>1
    <3> HIDE DEF before
    <3> QED
      BY <2>4, <2>5, <3>2, FS_EmptySet
  <2>7. first \in DOMAIN input /\ input[first].kind = "use"
    BY <2>5, <2>6 DEF heads, Ctx!RoundStarts
  <2>8. left \in Seq(Messages) /\ Beside(left)
    BY <1>1, <2>1, <2>7, TailBeside
  <2>9. <<Ctx!Marker>> \in Seq(Messages) /\ Beside(<<Ctx!Marker>>)
    BY DEF Ctx!Marker, Ctx!Entry, Messages, Beside
  <2>10. <<>> \in Seq(Messages) /\ Beside(<<>>)
    BY DEF Beside
  <2>11. \E head \in {<<Ctx!Marker>>, <<>>} : Ctx!truncateHeadForPTLRetry(ms) = head \o left
    BY <1>3, SameCardinality
       DEF Ctx!truncateHeadForPTLRetry, input, heads, drop, first
  <2> HIDE DEF left
  <2> QED
    BY <2>8, <2>9, <2>10, <2>11, JoinedBeside
<1> QED
  BY <1>2, <1>3

\* What is sent from the last boundary on begins with it.
LEMMA AfterBoundaryBeside ==
    ASSUME NEW ms \in Seq(Messages), Beside(ms)
    PROVE  Ctx!AfterBoundary(ms) \in Seq(Messages) /\ Beside(Ctx!AfterBoundary(ms))
<1> DEFINE places == {1} \cup {i \in DOMAIN ms : ms[i].kind = "boundary"}
<1>1. Len(ms) \in Nat /\ DOMAIN ms = 1..Len(ms)
  BY LenProperties
<1>2. places \subseteq 0..(Len(ms) + 1) /\ places # {}
  BY <1>1
<1> DEFINE last == Ctx!Max(places)
<1>3. last \in places
  <2> HIDE DEF places
  <2>1. Len(ms) + 1 \in Nat /\ places \in SUBSET (0..(Len(ms) + 1))
    BY <1>1, <1>2
  <2> QED
    BY <1>2, <2>1, GreatestNumber
<1> HIDE DEF last
<1>4. /\ last \in Nat /\ 1 <= last
      /\ last \in DOMAIN ms => ms[last].kind # "result"
  BY <1>1, <1>3 DEF Beside
<1>5. Ctx!AfterBoundary(ms) = SubSeq(ms, last, Len(ms))
  BY DEF Ctx!AfterBoundary, last
<1> QED
  BY <1>4, <1>5, TailBeside

\* No two entries for a call have one id.
Named(h) ==
    \A i, j \in DOMAIN h : h[i].kind = "call" /\ h[j].kind = "call" /\ h[i].id = h[j].id => i = j

\* The history numbers its calls, and what was given to be summarised keeps pairs together.
PairInv ==
    /\ count \in Nat
    /\ hist \in Seq(Entries) /\ Named(hist)
    /\ \A i \in DOMAIN hist : hist[i].id <= count
    /\ request.ms \in Seq(Messages) /\ Beside(request.ms)

LEMMA PairInit == Ctx!Init => PairInv
<1>1. <<>> \in Seq(Entries) /\ <<>> \in Seq(Messages) /\ DOMAIN <<>> = {}
  OBVIOUS
<1> QED
  BY <1>1 DEF Ctx!Init, Ctx!NoRequest, PairInv, Named, Beside

LEMMA PairStep == PairInv /\ [Ctx!Next]_CtxVars => PairInv'
<1> SUFFICES ASSUME PairInv, [Ctx!Next]_CtxVars PROVE PairInv'
  OBVIOUS
<1>0. /\ Len(hist) \in Nat /\ DOMAIN hist = 1..Len(hist)
      /\ \A i \in 1..Len(hist) : hist[i] \in Entries
  BY LenProperties, ElementOfSeq DEF PairInv
<1>1. ASSUME NEW size \in Sizes, NEW kind \in {"call", "note"}, Ctx!Append1(kind, size)
      PROVE  PairInv'
  <2> DEFINE e == Ctx!Entry(kind, count + 1, size, {count + 1})
  <2>1. /\ e \in Entries /\ e.id = count + 1 /\ count + 1 \in Nat
    BY DEF Ctx!Entry, Entries, PairInv
  <2>2. hist' = Append(hist, e) /\ count' = count + 1 /\ request' = request
    BY <1>1 DEF Ctx!Append1
  <2> HIDE DEF e
  <2>3. /\ hist' \in Seq(Entries) /\ DOMAIN hist' = 1..(Len(hist) + 1)
        /\ \A i \in 1..Len(hist) : hist'[i] = hist[i]
        /\ hist'[Len(hist) + 1] = e
    BY <2>1, <2>2, AppendProperties, LenProperties DEF PairInv
  <2>4. \A i \in 1..(Len(hist) + 1) :
            \/ i \in DOMAIN hist /\ hist'[i] = hist[i] /\ hist[i].id <= count
            \/ i = Len(hist) + 1 /\ hist'[i].id = count + 1
    BY <1>0, <2>1, <2>3 DEF PairInv
  <2>5. Named(hist')
    <3> SUFFICES ASSUME NEW i \in DOMAIN hist', NEW j \in DOMAIN hist', hist'[i].kind = "call",
                        hist'[j].kind = "call", hist'[i].id = hist'[j].id
                 PROVE  i = j
      BY DEF Named
    <3> QED
      BY <2>3, <2>4 DEF PairInv, Named
  <2>6. \A i \in DOMAIN hist' : hist'[i].id <= count'
    <3>1. \A i \in DOMAIN hist : hist[i].id <= count + 1
      BY <1>0 DEF PairInv, Entries
    <3> QED
      BY <1>0, <2>1, <2>2, <2>3, <3>1
  <2> QED
    BY <2>1, <2>2, <2>3, <2>5, <2>6 DEF PairInv
<1>2. ASSUME hist' = hist, count' = count, request' = request PROVE PairInv'
  BY <1>2 DEF PairInv
<1>3. CASE Ctx!Compact
  <2>1. /\ Ctx!historyToMessages(hist) \in Seq(Messages) /\ Beside(Ctx!historyToMessages(hist))
    BY HistoryBeside DEF PairInv, Named
  <2>2. /\ Ctx!AfterBoundary(Ctx!historyToMessages(hist)) \in Seq(Messages)
        /\ Beside(Ctx!AfterBoundary(Ctx!historyToMessages(hist)))
    BY <2>1, AfterBoundaryBeside
  <2>3. /\ request'.ms = Ctx!AfterBoundary(Ctx!historyToMessages(hist))
        /\ hist' = hist /\ count' = count
    BY <1>3 DEF Ctx!Compact
  <2> QED
    BY <2>2, <2>3 DEF PairInv
<1>4. ASSUME NEW size \in Summaries, Ctx!Summarised(size) PROVE PairInv'
  <2> DEFINE b == Ctx!Entry("boundary", 0, 0, {})
             t == Ctx!Entry("summary", 0, size, Ctx!Told(request.ms))
  <2>1. Ctx!Told(request.ms) \subseteq Nat
    <3>1. \A i \in DOMAIN request.ms : request.ms[i] \in Messages
      BY LenProperties, ElementOfSeq DEF PairInv
    <3>2. \A m \in Messages : m.tells \subseteq Nat
      BY DEF Messages
    <3> QED
      BY <3>1, <3>2 DEF Ctx!Told
  <2>2. /\ b \in Entries /\ t \in Entries /\ b.id = 0 /\ t.id = 0
        /\ b.kind = "boundary" /\ t.kind = "summary"
    BY <2>1 DEF Ctx!Entry, Entries
  <2>3. hist' = <<b, t>> /\ count' = count /\ request' = request
    BY <1>4 DEF Ctx!Summarised
  <2> HIDE DEF b, t
  <2>4. hist' \in Seq(Entries) /\ DOMAIN hist' = 1..2 /\ hist'[1] = b /\ hist'[2] = t
    BY <2>2, <2>3
  <2>5. \A i \in DOMAIN hist' : hist'[i].kind # "call" /\ hist'[i].id = 0
    BY <2>2, <2>4
  <2>6. Named(hist')
    BY <2>5 DEF Named
  <2>7. \A i \in DOMAIN hist' : hist'[i].id <= count'
    BY <2>3, <2>5 DEF PairInv
  <2> QED
    BY <2>3, <2>4, <2>6, <2>7 DEF PairInv
<1>5. CASE Ctx!TooLong
  <2> DEFINE ms == Ctx!truncateHeadForPTLRetry(request.ms)
  <2>1. ms \in Seq(Messages) /\ Beside(ms)
    BY TruncatedBeside DEF PairInv
  <2>2. /\ hist' = hist /\ count' = count
        /\ \/ request' = request
           \/ request' = [ms |-> ms, retries |-> request.retries + 1]
    <3> HIDE DEF ms
    <3>1. Ctx!TooLong =>
            \/ /\ request' = [ms |-> ms, retries |-> request.retries + 1]
               /\ UNCHANGED <<window, hist, turn, tracking, count, fails, since>>
            \/ Ctx!Fail(TRUE)
      BY DEF Ctx!TooLong, ms
    <3> QED
      BY <1>5, <3>1 DEF Ctx!Fail
  <2> HIDE DEF ms
  <2> QED
    BY <2>1, <2>2 DEF PairInv
<1>6. CASE Ctx!NewLoop
  <2>1. /\ <<>> \in Seq(Entries) /\ <<>> \in Seq(Messages) /\ DOMAIN <<>> = {}
        /\ hist' = <<>> /\ request'.ms = <<>> /\ count' = count
    BY <1>6 DEF Ctx!NewLoop, Ctx!NoRequest
  <2> QED
    BY <2>1 DEF PairInv, Named, Beside
<1>7. CASE Ctx!SummaryFails
  BY <1>2, <1>7 DEF Ctx!SummaryFails, Ctx!Fail
<1>8. ASSUME NEW can \in BOOLEAN, Ctx!Pass(can) PROVE PairInv'
  BY <1>2, <1>8 DEF Ctx!Pass
<1>9. CASE UNCHANGED CtxVars
  BY <1>2, <1>9 DEF Ctx!cvars, CtxVars
<1> QED
  BY <1>1, <1>3, <1>4, <1>5, <1>6, <1>7, <1>8, <1>9 DEF Ctx!Next, Ctx!cvars, CtxVars

LEMMA PairsFollow == PairInv => Ctx!PairsStayTogether
<1> SUFFICES ASSUME PairInv PROVE Ctx!PairsStayTogether
  OBVIOUS
<1>1. Ctx!Paired(request.ms, DOMAIN request.ms)
  BY BesideIsPaired DEF PairInv
<1> DEFINE ms == Ctx!historyToMessages(hist)
<1>2. ms \in Seq(Messages) /\ Beside(ms) /\ Single(ms)
  BY HistoryBeside DEF PairInv, Named
<1>3. \A keeps \in Ctx!MessagesToKeep(ms) : Ctx!Paired(ms, keeps)
  <2> HIDE DEF ms
  <2> QED
    BY <1>2, KeptArePaired
<1> QED
  BY <1>1, <1>3 DEF Ctx!PairsStayTogether

\* For any window and any sizes of entries and summaries: whatever has been appended, compacted,
\* cut off for being too long or begun anew, no request for a summary and no tail kept beside one
\* holds a result without its call (truncateHeadForPTLRetry, adjustIndexToPreserveAPIInvariants
\* of contextCompaction.ts).
THEOREM PairsAreKept == Spec => []PairsStayTogether
<1> DEFINE Inv == part = "context" => PairInv
<1>1. Init => Inv
  BY Beginnings, PairInit
<1>2. Inv /\ [Next]_all => Inv'
  BY Steps, PairStep
<1>3. Inv => PairsStayTogether
  BY PairsFollow DEF PairsStayTogether
<1> QED
  BY <1>1, <1>2, <1>3, PTL DEF Spec, all

\* The failures in the ledger are those since the last success, and there is room for one more
\* while a summary is being made.
BreakerInv ==
    /\ fails = tracking.failures /\ tracking.failures \in 0..MaxFailures
    /\ turn = "summary" => tracking.failures < MaxFailures

LEMMA BreakerStep ==
    ASSUME MaxFailures \in Nat, BreakerInv, [Ctx!Next]_CtxVars
    PROVE  BreakerInv'
<1> USE DEF BreakerInv
<1>1. ASSUME tracking' = tracking, fails' = fails, turn' = turn \/ turn' # "summary"
      PROVE  BreakerInv'
  BY <1>1
<1>2. ASSUME turn = "summary", NEW long, Ctx!Fail(long) PROVE BreakerInv'
  <2>1. /\ tracking'.failures = tracking.failures + 1 /\ fails' = fails + 1
        /\ turn' # "summary"
    BY <1>2 DEF Ctx!Fail, Ctx!Count
  <2> QED
    BY <1>2, <2>1
<1>3. CASE Ctx!Compact
  BY <1>3 DEF Ctx!Compact
<1>4. ASSUME NEW size \in Summaries, Ctx!Summarised(size) PROVE BreakerInv'
  <2>1. tracking'.failures = 0 /\ fails' = 0 /\ turn' # "summary"
    BY <1>4 DEF Ctx!Summarised
  <2> QED
    BY <2>1
<1>5. CASE Ctx!TooLong
  <2>1. turn = "summary" /\ (UNCHANGED <<turn, tracking, fails>> \/ Ctx!Fail(TRUE))
    BY <1>5 DEF Ctx!TooLong
  <2> QED
    BY <1>1, <1>2, <2>1
<1>6. CASE Ctx!SummaryFails
  BY <1>2, <1>6 DEF Ctx!SummaryFails
<1>7. CASE Ctx!NewLoop
  BY <1>1, <1>7 DEF Ctx!NewLoop
<1>8. ASSUME NEW can \in BOOLEAN, Ctx!Pass(can) PROVE BreakerInv'
  BY <1>1, <1>8 DEF Ctx!Pass
<1>9. ASSUME NEW size \in Sizes, NEW kind \in {"call", "note"}, Ctx!Append1(kind, size)
      PROVE  BreakerInv'
  BY <1>1, <1>9 DEF Ctx!Append1
<1>10. CASE UNCHANGED CtxVars
  BY <1>1, <1>10 DEF Ctx!cvars, CtxVars
<1> QED
  BY <1>3, <1>4, <1>5, <1>6, <1>7, <1>8, <1>9, <1>10
     DEF Ctx!Next, Ctx!cvars, CtxVars

\* However many failures in a row are allowed: over all loops of a task and over crashes, no more
\* summaries than that fail between two that succeed (MAX_CONSECUTIVE_AUTOCOMPACT_FAILURES).
THEOREM BreakerIsKept ==
    ASSUME MaxFailures \in Nat
    PROVE  Spec => []BreakerHolds
<1> DEFINE Inv == part = "context" => BreakerInv
<1>1. Init => Inv
  BY Beginnings DEF Ctx!Init, BreakerInv
<1>2. Inv /\ [Next]_all => Inv'
  BY Steps, BreakerStep
<1>3. Inv => BreakerHolds
  BY DEF BreakerInv, BreakerHolds, Ctx!BreakerHolds
<1> QED
  BY <1>1, <1>2, <1>3, PTL DEF Spec, all

=============================================================================
