---------------------------------- MODULE Pages ----------------------------------
(***************************************************************************)
(* A page that polls: the dialogues with the manager and the architect      *)
(* ("list": CreateProjectView.vue, "plan": ArchitectView.vue), the panel of *)
(* the engine's work (ExecutionView.vue, of which a person looks at the     *)
(* dialogue, "work", or at the files, "files"), the board of the tasks      *)
(* ("board": TaskBoardView.vue) and the project's own page ("detail":       *)
(* ProjectDetailView.vue).  A poll is sent by a timer whether the one       *)
(* before has been answered or not, and answers come in any order; a page   *)
(* that is left while it is still being set up goes on with that.           *)
(***************************************************************************)
EXTENDS Naturals, FiniteSets

CONSTANTS
    Views,       \* which pages
    Cards,       \* cards of the project, one after the other
    Files,       \* files of the project, 1..Files
    Progress,    \* tasks done
    Flight       \* requests on their way at once

VARIABLES
    site,        \* the server: the project, its card, its tasks
    page,        \* the page, and what it has done that it should not
    desk,        \* what is on the page
    flying       \* polls that are not answered yet, with what was read for them

vars == <<site, page, desk, flying>>

Dialogues == {"list", "plan"}
Panel     == {"work", "files"}
Heeding   == Dialogues \cup Panel       \* the pages that stop when told

Answers == [kind : {"cards", "tasks", "file", "open"}, gone : BOOLEAN, of : 0..(Cards + Files + Progress)]

Blank == [card |-> 0, draft |-> 0, busy |-> FALSE, answered |-> {}, done |-> 0, active |-> 0,
          content |-> [f \in 1..Files |-> 0], edited |-> {}, slips |-> {}]

TypeOK ==
    /\ site \in [gone : BOOLEAN, card : 0..Cards, asked : 0..Cards, done : 0..Progress]
    /\ page \in [view : Views, step : {"first", "second", "third", "set"}, up : BOOLEAN,
                 told : BOOLEAN, timer : BOOLEAN, vain : BOOLEAN, haunts : BOOLEAN]
    /\ desk \in [card : 0..Cards, draft : 0..Cards, busy : BOOLEAN, answered : SUBSET (1..Cards),
                 done : 0..Progress, active : 0..Files, content : [1..Files -> 0..Files],
                 edited : SUBSET (1..Files),
                 slips : SUBSET {"text", "again", "edits", "back"}]
    /\ flying \subseteq Answers /\ Cardinality(flying) <= Flight + 1

Init ==
    /\ site = [gone |-> FALSE, card |-> 0, asked |-> 0, done |-> 0]
    /\ \E v \in Views :
           page = [view |-> v, step |-> IF v = "detail" THEN "set" ELSE "first", up |-> TRUE,
                   told |-> FALSE, timer |-> v = "detail", vain |-> FALSE, haunts |-> FALSE]
    /\ desk = Blank
    /\ flying = {}

-----------------------------------------------------------------------------
(* The project *)

Asked ==
    /\ site.card = 0 /\ site.asked < Cards
    /\ site' = [site EXCEPT !.card = site.asked + 1, !.asked = @ + 1]
    /\ UNCHANGED <<page, desk, flying>>

\* The card is answered elsewhere or has lapsed.
Settled ==
    /\ site.card # 0
    /\ site' = [site EXCEPT !.card = 0]
    /\ UNCHANGED <<page, desk, flying>>

TaskDone ==
    /\ site.done < Progress
    /\ site' = [site EXCEPT !.done = @ + 1]
    /\ UNCHANGED <<page, desk, flying>>

Deleted ==
    /\ ~site.gone
    /\ site' = [site EXCEPT !.gone = TRUE]
    /\ UNCHANGED <<page, desk, flying>>

-----------------------------------------------------------------------------
(* Being set up and left *)

\* isProjectGone, markProjectGone: a page that does not heed it asks on.
Told(p, gone) ==
    [p EXCEPT !.told = @ \/ gone, !.timer = @ /\ ~(gone /\ p.view \in Heeding)]

Showing(card, gone) ==
    IF gone THEN [desk EXCEPT !.card = IF page.view \in Dialogues THEN 0 ELSE @]
    ELSE [desk EXCEPT !.card = card]

\* Mutant: the timer is set whatever has been found meanwhile.
SetAlways(p) == [p EXCEPT !.step = "set", !.timer = TRUE]

\* The end of onMounted; the panel's polls look whether the project is there.
Set(p) == [p EXCEPT !.step = "set", !.timer = p.view \notin Dialogues \/ ~p.told]

\* onMounted: the project, its history, the first poll.
Mounting ==
    /\ page.step # "set"
    /\ LET told == Told(page, site.gone)
       IN  CASE page.step = "first" /\ page.view \in Dialogues ->
                    /\ page' = IF site.gone THEN [told EXCEPT !.step = "set"]
                               ELSE [told EXCEPT !.step = "second"]
                    /\ UNCHANGED desk
             [] page.step = "second" /\ page.view \in Dialogues ->
                    /\ page' = [told EXCEPT !.step = "third"]
                    /\ UNCHANGED desk
             [] page.step = "third" ->
                    /\ page' = Set(told)
                    /\ desk' = IF page.up THEN Showing(site.card, site.gone) ELSE desk
             [] page.step = "first" /\ page.view \notin Dialogues ->
                    /\ page' = [told EXCEPT !.step = "second"]
                    /\ desk' = IF site.gone \/ ~page.up THEN desk ELSE [desk EXCEPT !.done = site.done]
             [] page.step = "second" /\ page.view \notin Dialogues ->
                    /\ page' = Set(told)
                    /\ UNCHANGED desk
    /\ UNCHANGED <<site, flying>>

\* onUnmounted and onBeforeUnmount clear the timer there is.
Leave ==
    /\ page.up
    /\ page' = [page EXCEPT !.up = FALSE, !.timer = FALSE]
    /\ desk' = [Blank EXCEPT !.slips = desk.slips]
    /\ UNCHANGED <<site, flying>>

-----------------------------------------------------------------------------
(* Polls *)

Poll(kind) ==
    [kind |-> kind, gone |-> site.gone,
     of |-> CASE kind = "cards" -> site.card
              [] kind = "tasks" -> site.done
              [] OTHER          -> desk.active]

\* pollFiles leaves a file that a person has changed.
Wanting ==
    CASE page.view \in Dialogues -> {"cards"}
      [] page.view = "files" ->
             {k \in {"file"} : desk.active # 0 /\ desk.active \notin desk.edited}
      [] page.view = "work" -> {"cards", "tasks"}
      [] OTHER -> {"tasks"}

\* usePolling, setInterval
Tick ==
    /\ page.timer /\ Cardinality(flying) < Flight
    /\ \E kind \in Wanting :
           /\ page.view \in Panel => ~page.told
           /\ flying' = flying \cup {Poll(kind)}
    /\ page' = [page EXCEPT !.vain = @ \/ page.told, !.haunts = @ \/ ~page.up]
    /\ UNCHANGED <<site, desk>>

\* The rest of pollConfirms, pollTasks, pollFiles and openFile: what has come
\* is written to what is on the page now.
Shown(r) ==
    CASE r.kind = "cards" -> Showing(r.of, r.gone)
      [] r.gone           -> desk
      [] r.kind = "tasks" -> [desk EXCEPT !.done = r.of,
                                          !.slips = @ \cup {s \in {"back"} : r.of < desk.done}]
      [] r.kind = "open"  -> [desk EXCEPT !.content[r.of] = r.of, !.edited = @ \ {r.of},
                                          !.slips = @ \cup {s \in {"edits"} : r.of \in desk.edited}]
      [] desk.active = 0  -> desk
      [] OTHER            -> [desk EXCEPT !.content[desk.active] = r.of,
                                          !.slips = @ \cup {s \in {"edits"} : desk.active \in desk.edited}]

Arrives ==
    \E r \in flying :
        /\ flying' = flying \ {r}
        /\ page' = Told(page, r.gone)
        /\ desk' = IF page.up THEN Shown(r) ELSE desk
        /\ UNCHANGED site

\* The network, or the server, is out of order.
Fails ==
    \E r \in flying :
        /\ flying' = flying \ {r}
        /\ UNCHANGED <<site, page, desk>>

-----------------------------------------------------------------------------
(* The person *)

AtWork == page.up /\ page.view \in Heeding \ {"files"}

Write ==
    /\ AtWork /\ desk.card # 0 /\ desk.draft # desk.card
    /\ desk' = [desk EXCEPT !.draft = desk.card]
    /\ UNCHANGED <<site, page, flying>>

\* submitConfirm, submitPermission, sendPm, send: the card of the moment.
Submit ==
    /\ AtWork /\ desk.card # 0 /\ desk.draft # 0 /\ ~desk.busy /\ ~site.gone
    /\ site' = [site EXCEPT !.card = IF @ = desk.card THEN 0 ELSE @]
    /\ desk' = [desk EXCEPT !.busy = TRUE, !.answered = @ \cup {desk.card},
                            !.slips = @ \cup {s \in {"text"} : desk.draft # desk.card}
                                        \cup {s \in {"again"} : desk.card \in desk.answered}]
    /\ UNCHANGED <<page, flying>>

Submitted ==
    /\ desk.busy /\ page.up
    /\ page' = Told(page, site.gone)
    /\ desk' = [Showing(site.card, site.gone) EXCEPT !.busy = FALSE, !.draft = 0]
    /\ UNCHANGED <<site, flying>>

AtFiles == page.up /\ page.view = "files"

openFile(f) ==
    /\ AtFiles /\ desk.active # f
    /\ desk' = [desk EXCEPT !.active = f]
    /\ flying' = IF desk.content[f] # 0 THEN flying
                 ELSE flying \cup {[kind |-> "open", gone |-> site.gone, of |-> f]}
    /\ Cardinality(flying') <= Flight
    /\ UNCHANGED <<site, page>>

onUserEdit ==
    /\ AtFiles /\ desk.active # 0
    /\ desk' = [desk EXCEPT !.edited = @ \cup {desk.active}]
    /\ UNCHANGED <<site, page, flying>>

closeTab ==
    /\ AtFiles /\ desk.active # 0
    /\ desk' = [desk EXCEPT !.active = 0]
    /\ UNCHANGED <<site, page, flying>>

\* Everything can be over.
Stay == UNCHANGED vars

Next ==
    \/ Asked \/ Settled \/ TaskDone \/ Deleted
    \/ Mounting \/ Leave \/ Tick \/ Arrives \/ Fails
    \/ Write \/ Submit \/ Submitted
    \/ \E f \in 1..Files : openFile(f)
    \/ onUserEdit \/ closeTab \/ Stay

Spec == Init /\ [][Next]_vars

-----------------------------------------------------------------------------
(* Properties *)

\* A dialogue or the panel, once told that the project is gone, asks no more by
\* its timer, whatever was under way when it was told: the page being set up, a
\* poll before, an answer being given.  Otherwise a message comes up every four
\* or ten seconds for ever.
GoneIsLeftAlone == page.view \in Heeding => ~page.vain

\* Not so: the board and the project's own page ask on.
EveryPageIsQuiet == ~page.vain

\* Not so: a page that is left asks no more (usePolling.ts:6); the timer is set
\* after awaits that leaving does not end.
LeftIsLeftAlone == ~page.haunts

\* Not so: what is written for a card is not given to the one that has taken
\* its place (ExecutionView.vue:183).
TextIsForTheCard == "text" \notin desk.slips

\* Not so: a card that has been answered is not on the page again.
AnsweredStaysAway == "again" \notin desk.slips

\* Not so: a tab shows its own file.
ContentIsOfTheFile == \A f \in 1..Files : desk.content[f] \in {0, f}

\* Not so: what a person has changed is not covered (ExecutionView.vue:697).
EditsAreKept == "edits" \notin desk.slips

\* Not so: the tasks on the page go forward as those of the project do.
TasksGoForward == "back" \notin desk.slips
=============================================================================
