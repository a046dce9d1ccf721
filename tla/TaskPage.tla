------------------------------- MODULE TaskPage -------------------------------
(***************************************************************************)
(* The page of one task in the browser of its reader (tasks.js): a card in *)
(* a list, or the page of details.  Every click is a request of its own;   *)
(* requests are handled and answered in any order, an answer may be lost,  *)
(* and another member votes meanwhile.                                     *)
(*                                                                         *)
(* The views are taken as one step; what happens inside them is in Tasks.  *)
(* Left out: the popovers of voters, for which no template has a button,   *)
(* the dialogs around subtasks, and dragging them.                         *)
(***************************************************************************)
EXTENDS Integers, FiniteSets

CONSTANTS
    Needed,   \* what required_people may be
    Budgets   \* how many votes, clicks on team and boxes, moves of others and losses: records

VARIABLES
    task,     \* as it is stored; Helper is another member who votes
    page,     \* as the browser shows it
    sent, replies,
    left

vars == <<task, page, sent, replies, left>>

Me == "me"
Helper == "helper"
Nobody == "nobody"
Parent == "parent"
Children == {"first child", "second child"}
Lone == "lone"
Subtasks == {Parent, Lone} \cup Children
Threshold == 2
Undefined == 9
Spend(what) == left[what] > 0 /\ left' = [left EXCEPT ![what] = @ - 1]

-----------------------------------------------------------------------------
(* What the views do and answer                                            *)

Score(t) == t.vote[Me] + t.vote[Helper]
get_team_size(t) == Cardinality(t.team \cup ({t.coordinator} \ {Nobody}))
is_user_approved(t, u) == t.coordinator = u \/ u \in t.team

\* Only the votes, the coordinator and the team decide about the phase.
sync_realization_phase(t) ==
    IF t.status # "active" THEN t
    ELSE [t EXCEPT !.phase =
            IF t.coordinator # Nobody /\ Score(t) >= Threshold /\ get_team_size(t) >= t.needed
            THEN "realization" ELSE "proposal"]

\* The same vote again withdraws it; the score may reject the task.
Voted(t, u, value) ==
    LET s == [t EXCEPT !.vote[u] = IF @ = value THEN 0 ELSE value]
    IN IF Score(s) <= -1 THEN [s EXCEPT !.status = "rejected"] ELSE sync_realization_phase(s)

Refused(r) == [kind |-> r.kind, n |-> r.n, of |-> r.of, ok |-> FALSE]
Told(r, t) == [kind |-> r.kind, n |-> r.n, of |-> r.of, ok |-> TRUE, now |-> t]
Does(r, allowed, t) == IF allowed THEN [task |-> t, answer |-> Told(r, t)]
                       ELSE [task |-> task, answer |-> Refused(r)]

vote_task(r) == Does(r, task.status = "active", Voted(task, Me, r.of))

toggle_helper(r) ==
    Does(r, task.coordinator = Me /\ (Helper \in task.team \/ task.vote[Helper] = 1),
         sync_realization_phase([task EXCEPT !.team = IF Helper \in @ THEN @ \ {Helper} ELSE @ \cup {Helper}]))

take_task(r) ==
    Does(r, task.status = "active" /\ task.coordinator \in {Nobody, Me},
         sync_realization_phase([task EXCEPT !.coordinator = Me]))

resign_task(r) ==
    Does(r, task.status = "active" /\ task.coordinator = Me,
         sync_realization_phase([task EXCEPT !.coordinator = IF task.vote[Helper] = 1 THEN Helper ELSE Nobody]))

can_manage_subtasks(t, u) == t.status = "active" /\ is_user_approved(t, u)

Toggled(t, k) ==
    LET flip == IF k \in t.done THEN t.done \ {k} ELSE t.done \cup {k}
    IN [t EXCEPT !.done =
          CASE k \in Children -> IF Children \subseteq flip THEN flip \cup {Parent} ELSE flip \ {Parent}
            [] k = Parent -> IF k \in flip THEN flip \cup Children ELSE flip \ Children
            [] OTHER -> flip]

toggle_subtask(r) == Does(r, can_manage_subtasks(task, Me), Toggled(task, r.of))

\* The rows the answer tells of.
Told_of(k) == CASE k \in Children -> {k, Parent} [] k = Parent -> Children \cup {Parent} [] OTHER -> {k}

Outcome(r) ==
    CASE r.kind = "vote" -> vote_task(r)
      [] r.kind = "team" -> toggle_helper(r)
      [] r.kind = "take" -> take_task(r)
      [] r.kind = "resign" -> resign_task(r)
      [] r.kind = "subtask" -> toggle_subtask(r)

\* The page is built; in a list another card may come first.
TaskDetailView ==
    /\ ~page.up
    /\ \E first \in IF page.list THEN {"proposal", "realization"} ELSE {task.phase} :
          page' = [up |-> TRUE, list |-> page.list, phase |-> task.phase, status |-> task.status,
                   first |-> first, vote |-> task.vote[Me], row |-> task.vote[Me], score |-> Score(task),
                   coordinator |-> task.coordinator, switches |-> task.coordinator = Me /\ task.vote[Helper] = 1,
                   switch |-> Helper \in task.team, size |-> get_team_size(task), boxes |-> task.done,
                   editable |-> can_manage_subtasks(task, Me),
                   waiting |-> {}, jumbled |-> {}, foreign |-> FALSE, unsure |-> sent # {}]
    /\ UNCHANGED <<task, sent, replies, left>>

-----------------------------------------------------------------------------
(* What the reader does                                                    *)

Post(kind, of) ==
    sent' = sent \cup {[kind |-> kind, of |-> of, lost |-> FALSE,
                        n |-> left.votes + left.clicks]}

\* Buttons of a task that is over are not there.
handleVoteClick ==
    /\ page.up /\ page.status = "active" /\ Spend("votes")
    /\ \E value \in {1, -1} : Post("vote", value)
    /\ UNCHANGED <<task, page, replies>>

handleHelperToggleChange ==
    /\ page.up /\ ~page.list /\ page.switches /\ Spend("clicks")
    /\ page' = [page EXCEPT !.switch = ~@] /\ Post("team", Helper)
    /\ UNCHANGED <<task, replies>>

handleCoordSubmit ==
    /\ page.up /\ page.status = "active" /\ Spend("clicks")
    /\ \/ page.coordinator = Nobody /\ Post("take", Me)
       \/ page.coordinator = Me /\ Post("resign", Me)
    /\ UNCHANGED <<task, page, replies>>

\* A box waits for its answer.
handleSubtaskToggle ==
    /\ page.up /\ ~page.list /\ page.editable /\ Spend("clicks")
    /\ \E k \in Subtasks \ page.waiting :
          /\ Post("subtask", k)
          /\ page' = [page EXCEPT !.waiting = @ \cup {k},
                                  !.boxes = IF k \in @ THEN @ \ {k} ELSE @ \cup {k}]
    /\ UNCHANGED <<task, replies>>

\* Another member votes.
Foreign ==
    /\ Spend("others") /\ task.status = "active"
    /\ \E value \in {1, -1} : task' = Voted(task, Helper, value)
    /\ page' = IF page.up THEN [page EXCEPT !.foreign = TRUE] ELSE page
    /\ UNCHANGED <<sent, replies>>

-----------------------------------------------------------------------------
(* Requests and answers                                                    *)

Kinds(kind) == {kind} \cup (IF kind = "subtask" THEN {} ELSE {"phase"})

\* Of which kinds an earlier click is still in S.
Jumbles(r, S) == UNION {Kinds(o.kind) \cap Kinds(r.kind) : o \in {x \in S : x.n > r.n}}
Jumbled(kinds) == IF page.up THEN [page EXCEPT !.jumbled = @ \cup kinds] ELSE page

Handle(r) ==
    /\ task' = Outcome(r).task /\ sent' = sent \ {r}
    /\ replies' = IF r.lost THEN replies ELSE replies \cup {Outcome(r).answer}
    /\ page' = Jumbled(IF r.lost THEN {} ELSE Jumbles(r, {x \in sent : ~x.lost}))
    /\ UNCHANGED left

\* fetch fails, whether or not the request was worked off.
Fail(r) ==
    /\ Spend("faults") /\ ~r.lost /\ page.up /\ sent' = sent \ {r}
    /\ task' \in {task, Outcome(r).task}
    /\ page' = [page EXCEPT !.unsure = TRUE,
                  !.switch = IF r.kind = "team" THEN ~@ ELSE @,
                  !.waiting = IF r.kind = "subtask" THEN @ \ {r.of} ELSE @,
                  !.boxes = IF r.kind # "subtask" THEN @ ELSE IF r.of \in @ THEN @ \ {r.of} ELSE @ \cup {r.of}]
    /\ UNCHANGED replies

\* The browser forgets the page; what is on its way is still worked off.
Reload ==
    /\ page' = [up |-> FALSE, list |-> page.list]
    /\ replies' = {} /\ sent' = {[r EXCEPT !.lost = TRUE] : r \in sent}

\* The first element with a phase is looked at; only votes tell the status.
reloadOnTaskPhaseChange(r) == r.now.phase # page.first \/ (r.kind = "vote" /\ r.now.status # page.status)

\* A refusal has none of the fields, and nobody looks whether it is one.
updateVoteCounts(p, r) ==
    IF r.ok THEN [p EXCEPT !.vote = r.now.vote[Me], !.score = Score(r.now)]
    ELSE [p EXCEPT !.vote = 0, !.score = Undefined]
updateVoterLists(p) == [p EXCEPT !.row = p.vote]

updateHelperApproval(p, r) ==
    LET approved == Helper \in r.now.team
    IN [p EXCEPT !.switch = approved, !.size = IF approved THEN @ + 1 ELSE IF @ = 0 THEN 0 ELSE @ - 1]

updateCoordinatorUI(p, r) == [p EXCEPT !.coordinator = r.now.coordinator]

Apply(p, r) ==
    CASE r.kind = "vote" -> updateVoterLists(updateVoteCounts(p, r))
      [] r.kind = "team" -> IF r.ok THEN updateHelperApproval(p, r) ELSE [p EXCEPT !.switch = ~@]
      [] r.kind = "take" /\ r.ok -> updateCoordinatorUI(p, r)
      [] r.kind = "subtask" ->
           LET q == [p EXCEPT !.waiting = @ \ {r.of}]
           IN IF r.ok THEN [q EXCEPT !.boxes = (@ \ Told_of(r.of)) \cup (r.now.done \cap Told_of(r.of))]
              ELSE [q EXCEPT !.boxes = IF r.of \in @ THEN @ \ {r.of} ELSE @ \cup {r.of}]
      [] OTHER -> p

Show(r) ==
    /\ page.up
    /\ IF r.ok /\ r.kind # "subtask"
            /\ (reloadOnTaskPhaseChange(r) \/ r.kind = "resign" \/ (r.kind = "take" /\ ~page.list))
       THEN Reload
       ELSE /\ replies' = replies \ {r} /\ UNCHANGED sent
            /\ page' = Apply(Jumbled(Jumbles(r, replies \cup {x \in sent : ~x.lost})), r)
    /\ UNCHANGED <<task, left>>

Init ==
    /\ \E coordinator \in {Me, Nobody}, needed \in Needed, help \in {0, 1} :
          task = sync_realization_phase(
                   [vote |-> [u \in {Me, Helper} |-> IF u = Me THEN 0 ELSE help], coordinator |-> coordinator,
                    team |-> {}, needed |-> needed, phase |-> "proposal", status |-> "active", done |-> {}])
    /\ \E list \in BOOLEAN : page = [up |-> FALSE, list |-> list]
    /\ sent = {} /\ replies = {} /\ left \in Budgets

Next ==
    \/ TaskDetailView \/ handleVoteClick \/ handleHelperToggleChange \/ handleCoordSubmit
    \/ handleSubtaskToggle \/ Foreign
    \/ \E r \in sent : Handle(r) \/ Fail(r)
    \/ \E r \in replies : Show(r)

-----------------------------------------------------------------------------
(* Properties                                                              *)

TypeOK ==
    /\ task.team \subseteq {Me, Helper} /\ task.done \subseteq Subtasks
    /\ page.up => page.boxes \subseteq Subtasks /\ page.size \in 0 .. 3

Settled(kind) == page.up /\ sent = {} /\ replies = {} /\ ~page.unsure /\ kind \notin page.jumbled

(* Once every click is answered, in the order of the clicks, the buttons   *)
(* and the list of voters show the vote as it is stored, unless a vote was *)
(* refused; so does the score if nobody else has voted.                    *)
VoteIsShown ==
    Settled("vote") /\ page.score # Undefined =>
        /\ page.vote = task.vote[Me] /\ page.row = page.vote
        /\ page.foreign \/ page.score = Score(task)

(* The switch and the size of the team, which the page counts by itself,   *)
(* are those of the task; refused switches go back to where they were.     *)
TeamIsShown ==
    Settled("team") /\ ~page.list /\ page.switches =>
        page.switch = (Helper \in task.team) /\ page.size = get_team_size(task)

(* The page loads again when the reader's own clicks change the phase or   *)
(* close the task; a card in a list only if the first card of that list is *)
(* in the phase the task was in.                                           *)
PhaseIsShown ==
    Settled("phase") /\ ~page.foreign /\ page.first = page.phase =>
        page.phase = task.phase /\ page.status = task.status

(* Boxes are what is stored, unless answers overtake one another or others *)
(* close the task; and a box without relatives even then, as it cannot be  *)
(* clicked again before its answer.                                        *)
BoxesAreRight ==
    page.up /\ sent = {} /\ replies = {} /\ ~page.unsure =>
        /\ Lone \in page.boxes <=> Lone \in task.done
        /\ "subtask" \in page.jumbled \/ page.foreign \/ page.boxes = task.done

TaskPageInvariant == TypeOK /\ VoteIsShown /\ TeamIsShown /\ PhaseIsShown /\ BoxesAreRight
=============================================================================
