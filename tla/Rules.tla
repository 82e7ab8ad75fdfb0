--------------------------------- MODULE Rules ----------------------------------
(***************************************************************************)
(* The standing rules on commands (PermissionRuleServiceImpl.java): people  *)
(* write, disable and remember them, several at once and each by queries    *)
(* of its own without a transaction, and a command is decided by the first  *)
(* rule that matches it, in the order of their sources, or by the project's *)
(* mode.  What the engine itself refuses is written down beside its tools   *)
(* (developerAgent/guardrails.ts).                                          *)
(***************************************************************************)
EXTENDS Naturals

CONSTANTS
    Patterns,       \* the contents of rules
    Invocations,    \* the commands
    Fits,           \* Fits[p]: the commands that a pattern matches
    TooWide,        \* the patterns that would allow anything: interpreters, shells, "*"
    Consequential,  \* the commands that change something
    Barred,         \* the commands the engine never runs
    Sources,        \* the sources of rules that are looked at
    Writings        \* how often a rule is written

VARIABLES
    standing,     \* the rules, enabled or not
    pending,      \* the requests to write one that are under way
    writings,
    confirmMode   \* of the project: 0 automatic, 1 mixed, 2 by hand

vars == <<standing, pending, writings, confirmMode>>

Global   == 0
Project  == 1
Rank     == [policy |-> 1, project |-> 2, user |-> 3, session |-> 4]
Rule     == [project : {Global, Project}, content : Patterns, source : Sources,
             behavior : {"allow", "deny", "ask"}, enabled : BOOLEAN]
Key(r)   == <<r.project, r.content, r.source>>

\* A request has a number (0 disables), has been checked against the denials it read, and knows
\* once it has looked whether a row of its key is there.
Request  == [nr : 0..Writings, rule : Rule, denies : SUBSET Rule,
             row : {"not looked", "there", "absent"}]

TypeOK ==
    /\ standing \subseteq Rule
    /\ \A r, s \in standing : Key(r) = Key(s) => r = s
    /\ pending \subseteq Request
    /\ writings \in 0..Writings /\ confirmMode \in 0..2

Init ==
    /\ standing = {} /\ pending = {} /\ writings = 0
    /\ confirmMode \in 0..2

-----------------------------------------------------------------------------
(* Writing *)

\* Of the project and of everybody.
globalAnd(project) == {Global, project}

\* A pattern is matched against the text of another: all that fits the one fits the other.
Covers(p, q) == Fits[q] \subseteq Fits[p]

\* Taken as allowing anything: an interpreter, a shell, a download, or everything.
Dangerous(p) == p \in TooWide

\* The denials in force that a request for an allowance reads.
deniesFor(allow) ==
    {d \in standing : d.project \in globalAnd(allow.project) /\ d.enabled /\ d.behavior = "deny"}

\* Mutant: of two rules of one source the later one is not looked at.
ShadowsOfHigher(allow, denies) ==
    {d \in denies : /\ d.content # allow.content
                    /\ Rank[allow.source] < Rank[d.source]
                    /\ Covers(allow.content, d.content)}

\* Of the denials read, those that this allowance would leave without effect.
findShadowedDeny(allow, denies) ==
    {d \in denies : /\ d.content # allow.content
                    /\ Rank[allow.source] <= Rank[d.source]
                    /\ Covers(allow.content, d.content)}

\* A rule is refused if it is an allowance in force that is too wide or over a denial.
Check(rule) ==
    LET checked == rule.behavior = "allow" /\ rule.enabled
        denies  == IF checked THEN deniesFor(rule) ELSE {}
    IN  /\ writings < Writings
        /\ checked => ~Dangerous(rule.content) /\ findShadowedDeny(rule, denies) = {}
        /\ pending' = pending \cup {[nr |-> writings + 1, rule |-> rule, denies |-> denies,
                                    row |-> "not looked"]}
        /\ writings' = writings + 1
        /\ UNCHANGED <<standing, confirmMode>>

upsert == \E rule \in Rule : Check(rule)

\* "Always" on a card; for everybody if the card is of no project.
rememberAllow ==
    \E p \in Patterns, project \in {Global, Project} :
        Check([project |-> project, content |-> p, source |-> "project", behavior |-> "allow",
               enabled |-> TRUE])

\* selectOne by the key.
Look ==
    /\ \E q \in pending :
          /\ q.row = "not looked"
          /\ pending' = (pending \ {q}) \cup
                 {[q EXCEPT !.row = IF \E r \in standing : Key(r) = Key(q.rule)
                                    THEN "there" ELSE "absent"]}
    /\ UNCHANGED <<standing, writings, confirmMode>>

\* The row of the key now says this.
Put(rule) == standing' = {r \in standing : Key(r) # Key(rule)} \cup {rule}

\* The row found is updated, whatever it says by now; a row that has come in between makes the
\* insert fail by its key.
Write ==
    /\ \E q \in pending :
          /\ q.row # "not looked"
          /\ pending' = pending \ {q}
          /\ IF q.row = "absent" /\ \E r \in standing : Key(r) = Key(q.rule)
             THEN UNCHANGED standing
             ELSE Put(q.rule)
    /\ UNCHANGED <<writings, confirmMode>>

\* The row is read, and will be written back as it was read, but not in force; one such request
\* at a time.
disable ==
    /\ \A q \in pending : q.nr # 0
    /\ \E r \in standing :
          pending' = pending \cup {[nr |-> 0, rule |-> [r EXCEPT !.enabled = FALSE], denies |-> {},
                                   row |-> "there"]}
    /\ UNCHANGED <<standing, writings, confirmMode>>

SetMode ==
    /\ confirmMode' \in 0..2 \ {confirmMode}
    /\ UNCHANGED <<standing, pending, writings>>

-----------------------------------------------------------------------------
(* Deciding *)

\* The rules that match, of the sources that come first; their order within one is left open.
First(rules, command) ==
    LET fit == {r \in rules : r.enabled /\ command \in Fits[r.content]}
    IN  {r \in fit : \A s \in fit : Rank[r.source] <= Rank[s.source]}

\* Without a rule: by hand everything is asked, else what has consequences.
ByMode(mode, command) ==
    IF mode = 2 \/ command \in Consequential THEN "ask" ELSE "allow"

\* What a command may be answered, which changes nothing; an allowance that is too wide is taken
\* for a question.
Verdicts(rules, mode, command) ==
    LET first == First(rules, command) IN
    CASE mode = 0   -> {"allow"}
      [] first = {} -> {ByMode(mode, command)}
      [] OTHER      -> {IF r.behavior = "allow" /\ Dangerous(r.content) THEN "ask" ELSE r.behavior :
                            r \in first}

\* The engine runs what its own list does not refuse; no rule allows what is on the list, and
\* no standing rule is asked for.
evaluateGuardrails(command) == command \notin Barred

Next ==
    \/ upsert \/ rememberAllow \/ Look \/ Write \/ disable \/ SetMode

Spec == Init /\ [][Next]_vars

-----------------------------------------------------------------------------
(* Properties *)

Denied(rules, command) == Verdicts(rules, 1, command) = {"deny"}

\* This allowance does not take the effect of that denial away: what was denied as a whole is
\* so at least in part.  Left out are a denial of the very same content and an allowance for
\* everybody over a denial of the project.
Spared(a, d) ==
    /\ a.behavior = "allow" /\ a.enabled
    /\ a.content # d.content /\ ~(a.project = Global /\ d.project = Project)
    /\ d.behavior = "deny" /\ d.enabled
    /\ Fits[d.content] # {}
    /\ \A c \in Fits[d.content] : Denied(standing, c)
    => \E c \in Fits[d.content] : Denied(standing', c)

\* An allowance spares every denial that stood when it was checked and still stands when it is
\* written, whatever else has been written meanwhile
\* (PermissionRuleServiceImpl.findShadowedDeny).
SparesDenies ==
    \A q \in pending \ pending' : \A d \in q.denies \cap standing \cap standing' :
        q.rule \in standing' \ standing => Spared(q.rule, d)

AllowSparesDenies == [][SparesDenies]_vars

\* Not so in the code: it spares every denial that stands when it is written.
SparesAll ==
    \A a \in standing' \ standing, d \in standing \cap standing' : Spared(a, d)

NoneIsShadowed == [][SparesAll]_vars

\* Not so in the code: a denial in force denies something.
DeniesHaveEffect ==
    \A d \in standing : d.behavior = "deny" /\ d.enabled => \E c \in Fits[d.content] : Denied(standing, c)

\* Not so in the code: what the rules deny is not run.
DeniedIsNotRun ==
    \A c \in Invocations : evaluateGuardrails(c) => Verdicts(standing, confirmMode, c) # {"deny"}
=============================================================================
