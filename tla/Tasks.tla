------------------------------- MODULE Tasks -------------------------------
(***************************************************************************)
(* One task of the group, tasks/views.py and models.py: its coordinator,   *)
(* the votes for and against it, the team, and the phase that              *)
(* sync_realization_phase derives from them.                               *)
(*                                                                         *)
(* Votes, taking, resigning and reopening are transactions.  The views of  *)
(* the team write one row and then synchronise the phase in a transaction  *)
(* of its own; editing and closing save the whole task as they have loaded *)
(* it.  select_for_update locks nothing in SQLite: what a request has      *)
(* checked may change before it writes.                                    *)
(***************************************************************************)
EXTENDS Integers, Sequences, FiniteSets

CONSTANTS
    Users,      \* the accounts
    Creator,    \* the author of the task
    TeamSizes,  \* what required_people may be set to
    MaxSteps,   \* bound: requests that change the task
    MaxOpens    \* bound: requests under way at once

ASSUME CreatorAssumption == Creator \in Users

Threshold == 2   \* REALIZATION_VOTE_THRESHOLD
Rejection == -1  \* TASK_REJECTION_SCORE
Nobody == "nobody"

VARIABLES
    accounts,     \* the accounts that are left
    status, phase, coordinator, creator,
    needed,       \* required_people
    helpers,      \* the votes "I want to help", oldest first
    against,      \* the votes against
    approved,     \* approved_helpers
    open,         \* requests under way: what they have loaded
    \* history: what the last synchronisation does not know of
    unsynced,     \* an account was deleted, or a synchronisation failed
    untallied,    \* an account was deleted, or an older row brought back, since the last vote
    steps

row     == <<status, phase, coordinator, creator, needed>>
votes   == <<helpers, against>>
history == <<unsynced, untallied>>
vars    == <<accounts, row, votes, approved, open, history, steps>>

Closed == {"completed", "cancelled", "rejected"}

Helps(u) == \E i \in DOMAIN helpers : helpers[i] = u

(* The helpers but u, who has one vote at most.                            *)
HelpersBut(u) ==
    LET i == CHOOSE i \in DOMAIN helpers : helpers[i] = u
    IN  IF Helps(u) THEN [j \in 1..(Len(helpers) - 1) |-> helpers[IF j < i THEN j ELSE j + 1]]
                    ELSE helpers

NoVote(u) == [h |-> HelpersBut(u), a |-> against \ {u}]

(* The author coordinates and helps.                                       *)
Init ==
    /\ accounts = Users /\ creator = Creator /\ coordinator = Creator
    /\ status = "active" /\ phase = "proposal"
    /\ needed \in TeamSizes
    /\ helpers = <<Creator>> /\ against = {} /\ approved = {}
    /\ open = {} /\ unsynced = FALSE /\ untallied = FALSE /\ steps = 0

-----------------------------------------------------------------------------
(* The phase                                                               *)

Score(h, a) == Len(h) - Cardinality(a)

Team(c, team) == (IF c = Nobody THEN {} ELSE {c}) \cup team

Ready(c, h, a, team, n) ==
    c # Nobody /\ Score(h, a) >= Threshold /\ Cardinality(Team(c, team)) >= n

Fitting(c, h, a, team, n) == IF Ready(c, h, a, team, n) THEN "realization" ELSE "proposal"

MutantSync == phase' = IF status' = "active" /\ phase = "proposal"
              THEN Fitting(coordinator', helpers', against', approved', needed') ELSE phase
(* sync_realization_phase, at the end of a transaction.                    *)
Sync == phase' = IF status' = "active"
                 THEN Fitting(coordinator', helpers', against', approved', needed') ELSE phase

Synced == Sync /\ unsynced' = (status' # "active" /\ unsynced)

Step == steps < MaxSteps /\ steps' = steps + 1

-----------------------------------------------------------------------------
(* Transactions                                                            *)

MutantRejects(h, a) == Score(h, a) < Rejection
Rejects(h, a) == Score(h, a) <= Rejection

(* vote_task: the same vote again withdraws it; a score of -1 rejects the  *)
(* task whatever has become of it since the request looked.                *)
Cast(u, side) ==
    /\ u \in accounts /\ status # "deleted"
    /\ LET none == NoVote(u) IN
       CASE side = "up" /\ Helps(u)       -> helpers' = none.h /\ against' = none.a
         [] side = "up" /\ ~Helps(u)      -> helpers' = Append(helpers, u) /\ against' = none.a
         [] side = "down" /\ u \in against -> helpers' = none.h /\ against' = none.a
         [] OTHER                         -> helpers' = none.h /\ against' = against \cup {u}
    /\ UNCHANGED <<accounts, coordinator, creator, needed, approved>>
    /\ IF Rejects(helpers', against') /\ status # "rejected"
       THEN status' = "rejected" /\ UNCHANGED <<phase, unsynced>>
       ELSE status' = status /\ Synced
    /\ untallied' = FALSE

take_task(u) ==
    /\ status = "active" /\ u \in accounts /\ coordinator \in {Nobody, u} /\ Step
    /\ coordinator' = u
    /\ UNCHANGED <<accounts, status, creator, needed, votes, approved, open, untallied>>
    /\ Synced

(* The oldest of the other helpers takes over.                             *)
Successor(u) ==
    IF HelpersBut(u) = <<>> THEN Nobody ELSE Head(HelpersBut(u))

resign_task(u) ==
    /\ status = "active" /\ coordinator = u /\ u \in accounts /\ Step
    /\ coordinator' = Successor(u)
    /\ UNCHANGED <<accounts, status, creator, needed, votes, approved, open, untallied>>
    /\ Synced

reopen_task(u) ==
    /\ status \in Closed /\ u \in {creator, coordinator} \cap accounts /\ Step
    /\ status' = "active" /\ phase' = "proposal"
    /\ helpers' = <<>> /\ against' = {}
    /\ unsynced' = FALSE /\ untallied' = FALSE
    /\ UNCHANGED <<accounts, coordinator, creator, needed, approved, open>>

(* An account goes, and with it its votes and its place in the team; the   *)
(* task stays, and nothing synchronises its phase.                         *)
Leave(u) ==
    /\ u \in accounts /\ Step
    /\ accounts' = accounts \ {u}
    /\ helpers' = NoVote(u).h /\ against' = NoVote(u).a
    /\ approved' = approved \ {u}
    /\ coordinator' = IF coordinator = u THEN Nobody ELSE coordinator
    /\ creator' = IF creator = u THEN Nobody ELSE creator
    /\ unsynced' = TRUE /\ untallied' = TRUE
    /\ UNCHANGED <<status, phase, needed, open>>

-----------------------------------------------------------------------------
(* Requests that check first and write later                               *)

Request(kind, u, x, n) ==
    [kind |-> kind, user |-> u, with |-> x,
     status |-> status, phase |-> phase, coordinator |-> coordinator, creator |-> creator,
     needed |-> n, wrote |-> FALSE]

BeginWith(kind, u, x, n) ==
    /\ u \in accounts /\ Cardinality(open) < MaxOpens /\ Step
    /\ open' = open \cup {Request(kind, u, x, n)}
    /\ UNCHANGED <<accounts, row, votes, approved, history>>

Begin(kind, u, x) == BeginWith(kind, u, x, needed)

BeginVote(u) == status = "active" /\ \E side \in {"up", "down"} : Begin("vote", u, side)

(* require_coordinator, and the helper's vote.                             *)
BeginApprove(u, v) == coordinator = u /\ v # u /\ Helps(v) /\ Begin("approve", u, v)
BeginRemove(u, v)  == coordinator = u /\ v # u /\ v \in accounts /\ Begin("remove", u, v)

(* In the proposal the form has the required people among its fields; in   *)
(* the realization it has none the phase depends on.                       *)
BeginEdit(u) ==
    /\ coordinator = u /\ status = "active"
    /\ \E n \in IF phase = "realization" THEN {needed} ELSE TeamSizes :
         BeginWith("edit", u, phase, n)

BeginClose(u) ==
    /\ coordinator = u /\ status = "active"
    /\ \E s \in {"completed", "cancelled"} : Begin("close", u, s)

(* The author, unless the task is completed.                               *)
BeginDelete(u) ==
    creator = u /\ status \notin {"completed", "deleted"} /\ Begin("delete", u, status)

Done(r) == open' = open \ {r}
Wrote(r) == open' = (open \ {r}) \cup {[r EXCEPT !.wrote = TRUE]}

FinishVote(r) == r.kind = "vote" /\ Cast(r.user, r.with) /\ Done(r) /\ UNCHANGED steps

(* The team; the vote is looked at once more before the helper is added.   *)
WriteTeam(r) ==
    /\ r.kind \in {"approve", "remove"} /\ ~r.wrote /\ r.with \in accounts
    /\ status # "deleted"
    /\ r.kind = "approve" => Helps(r.with)
    /\ approved' = IF r.kind = "approve" THEN approved \cup {r.with} ELSE approved \ {r.with}
    /\ Wrote(r)
    /\ UNCHANGED <<accounts, row, votes, history, steps>>

(* Is anything in the row no longer what the request has loaded?           *)
Stale(r) == <<r.status, r.phase, r.coordinator>> # <<status, phase, coordinator>>

(* A whole-row save.  Django would insert a row that is gone, but the room *)
(* it is linked to is gone with it, and the save is rolled back.           *)
SaveRow(r, s) ==
    /\ status # "deleted" /\ r.coordinator \in accounts /\ r.creator \in accounts \cup {Nobody}
    /\ status' = s /\ phase' = r.phase /\ coordinator' = r.coordinator /\ creator' = r.creator
    /\ untallied' = (untallied \/ Stale(r))

WriteEdit(r) ==
    /\ r.kind = "edit" /\ ~r.wrote
    /\ SaveRow(r, r.status) /\ needed' = r.needed
    /\ Wrote(r)
    /\ UNCHANGED <<accounts, votes, approved, unsynced, steps>>

FinishClose(r) ==
    /\ r.kind = "close"
    /\ SaveRow(r, r.with) /\ needed' = r.needed
    /\ Done(r)
    /\ UNCHANGED <<accounts, votes, approved, unsynced, steps>>

FinishDelete(r) ==
    /\ r.kind = "delete" /\ status # "deleted"
    /\ status' = "deleted" /\ phase' = "proposal"
    /\ helpers' = <<>> /\ against' = {} /\ approved' = {}
    /\ Done(r)
    /\ UNCHANGED <<accounts, coordinator, creator, needed, history, steps>>

SyncAfter(r) ==
    /\ r.wrote /\ Done(r)
    /\ UNCHANGED <<accounts, status, coordinator, creator, needed, votes, approved,
                   untallied, steps>>
    /\ \/ Synced
       \/ unsynced' = TRUE /\ UNCHANGED phase  \* the database is locked

(* The request fails before it has written.                                *)
GiveUp(r) ==
    /\ ~r.wrote /\ Done(r)
    /\ UNCHANGED <<accounts, row, votes, approved, history, steps>>

Proceed(r) ==
    \/ FinishVote(r) \/ WriteTeam(r) \/ WriteEdit(r) \/ FinishClose(r) \/ FinishDelete(r)
    \/ SyncAfter(r) \/ GiveUp(r)

Next ==
    \/ \E u \in Users :
         \/ take_task(u) \/ resign_task(u) \/ reopen_task(u) \/ Leave(u)
         \/ BeginVote(u) \/ BeginEdit(u) \/ BeginClose(u) \/ BeginDelete(u)
         \/ \E v \in Users : BeginApprove(u, v) \/ BeginRemove(u, v)
    \/ \E r \in open : Proceed(r)

Spec == Init /\ [][Next]_vars

-----------------------------------------------------------------------------
(* The list                                                                *)

(* The tabs that show the task, _task_tab_counts and TaskListView: the     *)
(* rejected are found by their score alone.                                *)
Tabs ==
    {tab \in {"awaiting", "active", "finished"} :
        \/ tab = "awaiting" /\ status = "active" /\ phase = "proposal"
        \/ tab = "active"   /\ status = "active" /\ phase = "realization"
        \/ tab = "finished" /\ 
              (status \in {"completed", "cancelled"} \/ Score(helpers, against) <= Rejection)}

-----------------------------------------------------------------------------
(* Properties                                                              *)

People == Users \cup {Nobody}

Requests ==
    [kind : {"vote", "approve", "remove", "edit", "close", "delete"}, user : Users,
     with : Users \cup Closed \cup {"up", "down", "active", "proposal", "realization"},
     status : Closed \cup {"active", "deleted"}, phase : {"proposal", "realization"},
     coordinator : People, creator : People, needed : TeamSizes, wrote : BOOLEAN]

(* Every variable has its type.                                            *)
TypeOK ==
    /\ accounts \subseteq Users /\ coordinator \in People /\ creator \in People
    /\ status \in Closed \cup {"active", "deleted"}
    /\ phase \in {"proposal", "realization"} /\ needed \in TeamSizes
    /\ helpers \in Seq(Users) /\ against \subseteq Users /\ approved \subseteq Users
    /\ open \subseteq Requests
    /\ unsynced \in BOOLEAN /\ untallied \in BOOLEAN

(* Whatever requests cross one another: once those that have written are   *)
(* done, the phase of an active task is the one its coordinator, its votes *)
(* and its team ask for, unless an account has been deleted or a           *)
(* synchronisation has failed since.                                       *)
PhaseFollows ==
    status = "active" /\ ~unsynced /\ (\A r \in open : ~r.wrote) =>
        phase = Fitting(coordinator, helpers, against, approved, needed)

(* An open task, and one closed by its coordinator, is on exactly one of   *)
(* the tabs everybody sees: no crossing of votes, closings and edits hides *)
(* it or lists it both as open and as rejected, unless an account has been *)
(* deleted or a whole-row save has brought an older row back since the     *)
(* last vote.                                                              *)
ListedOnce ==
    status \in {"active", "completed", "cancelled"} /\ ~untallied => Cardinality(Tabs) = 1

(* tasks/README.md: the finished tab lists the completed, the cancelled    *)
(* and the rejected tasks.                                                 *)
RejectedAreListed == status = "rejected" => "finished" \in Tabs
=============================================================================
