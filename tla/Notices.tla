-------------------------------- MODULE Notices --------------------------------
(***************************************************************************)
(* Notices to the whole group: what happens in the other parts is          *)
(* announced by a signal, and whoever has not switched it off is told by   *)
(* web push on every device and over the websocket, core/notifications.py. *)
(*                                                                         *)
(* A notice is sent by a thread of its own, or by the command that raises  *)
(* it; it asks the database several times who is to be told, and members   *)
(* change their settings, or are blocked, in between.  A change of the     *)
(* settings saves the whole profile as its request has loaded it.          *)
(*                                                                         *)
(* Left out: wording, icons, browsers (Push), messages of the chat, which  *)
(* go to one person (Push, NotificationQueue), and mail but for the one    *)
(* that welcomes a citizen.                                                *)
(***************************************************************************)
EXTENDS Naturals, Sequences

CONSTANTS
    Users,
    Happening,   \* sequences of events
    Budgets

VARIABLES
    happening,   \* what one process announces, in this order
    notice,      \* per notice raised: how far it is
    setting,     \* per member: what is stored
    again,       \* history, per member: what has been switched on since the last unsubscription
    saving,      \* requests that have loaded a profile
    crossed,     \* members one request of whom has saved over another one
    left

vars == <<happening, notice, setting, again, saving, crossed, left>>

Spend(what) == left[what] > 0 /\ left' = [left EXCEPT ![what] = @ - 1]

-----------------------------------------------------------------------------
(* What is announced, and to whom                                          *)

TaskEvents == {"task.created", "task.helper_joined", "task.status_changed"}
CitizenEvents == {"citizen.proposed", "citizen.accepted", "citizen.blocked"}
DocumentEvents == {"document.created", "document.important_updated"}
CalendarEvents == {"event.created", "event.updated", "event.starting"}
TransitionEvents ==
    {"vote.proposed", "vote.modified", "vote.discussion_started", "vote.started", "vote.approved", "vote.rejected",
     "vote.rejected_no_signatures", "vote.last_day", "vote.buffer_restarted"}
VoteEvents == TransitionEvents \cup {"vote.argument_added"}
LedgerEvents == {"transaction.created", "transaction.updated"}
SurveyEvents == {"survey.created", "survey.updated"}
PushEvents == TaskEvents \cup CitizenEvents \cup DocumentEvents \cup CalendarEvents \cup VoteEvents
              \cup LedgerEvents \cup SurveyEvents

\* Announced by neither channel, as things are set.
Silent == {"citizen.accepted", "citizen.blocked", "document.important_updated", "event.updated", "vote.modified",
           "transaction.updated", "survey.updated"}

module(event) ==
    CASE event \in TaskEvents -> "task"
      [] event \in CitizenEvents -> "obywatele"
      [] event \in DocumentEvents -> "post"
      [] event \in CalendarEvents -> "events"
      [] event \in VoteEvents -> "glosowania"
      [] event \in LedgerEvents -> "bookkeeping"
      [] event \in SurveyEvents -> "survey"

\* The others are told of by threads.
Waits(event) == event \in TransitionEvents \cup {"citizen.blocked", "event.starting"}

\* One person only: the coordinator of the activity, the new citizen.
Personal == {"task.helper_joined", "task.status_changed", "citizen.accepted"}

Channels == {"mobile", "desktop", "socket"}
Modules == {module(happening[n]) : n \in DOMAIN happening} \cup {"bookkeeping"}

-----------------------------------------------------------------------------
(* The settings                                                            *)

notifications_unsubscribed(s) == s.unsubscribed
Aspects(s) ==
    s.on \cup s.devices \cup (IF s.active /\ ~notifications_unsubscribed(s) THEN {"reached"} ELSE {})
Needed(event, channel) ==
    {"reached", module(event)} \cup (IF channel = "socket" THEN {} ELSE {channel})

\* The notices under way remember what the member allowed all along, and at any time.
Set(u, s) ==
    /\ setting' = [setting EXCEPT ![u] = s]
    /\ notice' = [n \in DOMAIN notice |->
          [notice[n] EXCEPT !.always = {a \in @ : a[1] # u \/ a[2] \in Aspects(s)},
                            !.ever = @ \cup {<<u, a>> : a \in Aspects(s)}]]

\* One switch of toggle_notification; to switch on anything ends an unsubscription.
Switch(s, what, on) ==
    LET New(set) == IF on THEN set \cup {what} ELSE set \ {what}
        quiet == s.unsubscribed /\ ~on
    IN IF what \in {"mobile", "desktop"} THEN [s EXCEPT !.devices = New(@), !.unsubscribed = quiet]
       ELSE [s EXCEPT !.on = New(@), !.unsubscribed = quiet]

Load(u, does, what, on) ==
    saving' = saving \cup
        {[of |-> u, does |-> does, what |-> what, on |-> on, loaded |-> setting[u], n |-> left.changes]}

toggle_notification(u) ==
    /\ Spend("changes")
    /\ \E what \in Modules \cup {"mobile", "desktop"}, on \in BOOLEAN : Load(u, "switch", what, on)
    /\ UNCHANGED <<happening, notice, setting, again, crossed>>

\* The profile's own form, or a new picture: these settings are in the row, too.
my_profile(u) ==
    /\ Spend("changes") /\ Load(u, "form", "", FALSE)
    /\ UNCHANGED <<happening, notice, setting, again, crossed>>

\* Whether the account is active is not in the profile.
SaveProfile(r) ==
    LET Done(s) == IF r.does = "switch" THEN Switch(s, r.what, r.on) ELSE s
        u == r.of
    IN /\ Set(u, [Done(r.loaded) EXCEPT !.active = setting[u].active])
       /\ again' = [again EXCEPT ![u] = IF r.on THEN @ \cup {r.what} ELSE @]
       /\ crossed' = IF [r.loaded EXCEPT !.active = setting[u].active] # setting[u] THEN crossed \cup {u} ELSE crossed
       /\ saving' = saving \ {r}
       /\ UNCHANGED <<happening, left>>

\* By a link in a mail: everything is switched off, but for the bookkeeping.
Unsubscribed(s) == [s EXCEPT !.unsubscribed = TRUE, !.on = @ \cap {"bookkeeping"}, !.devices = {}]

unsubscribe_notifications(u) ==
    /\ Spend("changes")
    /\ Set(u, Unsubscribed(setting[u]))
    /\ again' = [again EXCEPT ![u] = {}]
    /\ UNCHANGED <<happening, saving, crossed>>

Block(u) ==
    /\ setting[u].active /\ Spend("blocks")
    /\ Set(u, [setting[u] EXCEPT !.active = FALSE])
    /\ UNCHANGED <<happening, again, saving, crossed>>

-----------------------------------------------------------------------------
(* A notice                                                                *)

Event(n) == happening[n]
Goes(n, next) ==
    /\ notice' = [notice EXCEPT ![n] = next]
    /\ UNCHANGED <<happening, setting, again, saving, crossed>>

\* After a notice that is waited for, the process goes on when it is sent.
_dispatch_notification ==
    LET n == Len(notice) + 1
    IN /\ n <= Len(happening)
       /\ \A m \in DOMAIN notice : Waits(Event(m)) => notice[m].step = "done"
       /\ \E only \in IF Event(n) \in Personal THEN {{u} : u \in Users} ELSE {Users} :
             notice' = Append(notice,
                [step |-> IF Event(n) = "citizen.accepted" THEN "mail" ELSE IF Event(n) \in Silent THEN "done" ELSE "choose",
                 only |-> only, ids |-> {}, got |-> {}, failed |-> FALSE,
                 always |-> {<<u, a>> : u \in only, a \in Modules \cup Channels \cup {"reached"}}
                              \cap UNION {{u} \X Aspects(setting[u]) : u \in Users},
                 ever |-> UNION {{u} \X Aspects(setting[u]) : u \in Users}])
       /\ UNCHANGED <<happening, setting, again, saving, crossed, left>>

\* _push_user_ids; if the database fails, nobody.
_push_user_ids(n) ==
    LET now == {u \in Users : {"reached", module(Event(n))} \subseteq Aspects(setting[u])}
    IN /\ notice[n].step = "choose"
       /\ \/ Goes(n, [notice[n] EXCEPT !.step = "push", !.ids = now \cap notice[n].only]) /\ UNCHANGED left
          \/ Goes(n, [notice[n] EXCEPT !.step = "done", !.failed = TRUE]) /\ Spend("faults")

\* The devices are looked up, and all sent to at once, or not at all.
send_fcm_to_all_sync(n) ==
    LET reached == {u \in notice[n].ids : "reached" \in Aspects(setting[u])}
    IN /\ notice[n].step = "push"
       /\ \/ /\ Goes(n, [notice[n] EXCEPT !.step = "list", !.got = @ \cup UNION {{u} \X setting[u].devices : u \in reached}])
             /\ UNCHANGED left
          \/ Goes(n, [notice[n] EXCEPT !.step = "list", !.failed = TRUE]) /\ Spend("faults")

ListMembers(n) ==
    /\ notice[n].step = "list"
    /\ Goes(n, [notice[n] EXCEPT !.step = "socket", !.ids = {u \in @ : "reached" \in Aspects(setting[u])}])
    /\ UNCHANGED left

\* One member after the other; that one of them cannot be reached stops nothing.
send_websocket_to_all_sync(n) ==
    /\ notice[n].step = "socket"
    /\ IF notice[n].ids = {} THEN Goes(n, [notice[n] EXCEPT !.step = "done"]) /\ UNCHANGED left
       ELSE \E u \in notice[n].ids :
          \/ Goes(n, [notice[n] EXCEPT !.ids = @ \ {u}, !.got = @ \cup {<<u, "socket">>}]) /\ UNCHANGED left
          \/ Goes(n, [notice[n] EXCEPT !.ids = @ \ {u}, !.failed = TRUE]) /\ Spend("faults")

\* Whatever the new citizen has switched off.
on_citizen_accepted(n) ==
    /\ notice[n].step = "mail"
    /\ \/ Goes(n, [notice[n] EXCEPT !.step = "done", !.got = {<<u, "mail">> : u \in notice[n].only}])
          /\ UNCHANGED left
       \/ Goes(n, [notice[n] EXCEPT !.step = "done", !.failed = TRUE]) /\ Spend("faults")

Init ==
    /\ happening \in Happening /\ notice = <<>>
    /\ setting = [u \in Users |-> [active |-> TRUE, unsubscribed |-> FALSE,
                                   on |-> Modules, devices |-> {"mobile", "desktop"}]]
    /\ again = [u \in Users |-> Modules \cup {"mobile", "desktop"}] /\ saving = {} /\ crossed = {}
    /\ left \in Budgets

Next ==
    \/ \E u \in Users : toggle_notification(u) \/ my_profile(u) \/ unsubscribe_notifications(u) \/ Block(u)
    \/ \E r \in saving : SaveProfile(r)
    \/ _dispatch_notification
    \/ \E n \in DOMAIN notice :
          \/ _push_user_ids(n) \/ send_fcm_to_all_sync(n) \/ ListMembers(n) \/ send_websocket_to_all_sync(n)
          \/ on_citizen_accepted(n)

-----------------------------------------------------------------------------
(* Properties                                                              *)

Pairs == Users \X Channels

TypeOK ==
    /\ \A n \in DOMAIN notice : notice[n].ids \subseteq Users /\ Event(n) \in PushEvents
    /\ \A u \in Users : setting[u].on \subseteq Modules /\ setting[u].devices \subseteq {"mobile", "desktop"}

(* Nobody is told who did not, since the notice was raised, allow what it  *)
(* takes, each setting at one time at least: to be told at all, of this    *)
(* part, on this device; and of the notices to one person nobody else is.  *)
NobodyUnasked ==
    \A n \in DOMAIN notice : \A p \in notice[n].got :
        /\ p[1] \in notice[n].only
        /\ p[2] # "mail" => \A a \in Needed(Event(n), p[2]) : <<p[1], a>> \in notice[n].ever

(* Whoever allowed it all the time is told on every channel when a notice  *)
(* is done, unless it could not be sent.                                   *)
EverybodyAsked ==
    \A n \in DOMAIN notice :
        notice[n].step = "done" /\ ~notice[n].failed /\ Event(n) \notin Silent =>
            \A p \in Pairs : p[1] \in notice[n].only
                /\ (\A a \in Needed(Event(n), p[2]) : <<p[1], a>> \in notice[n].always) => p \in notice[n].got

(* The notices of one run of the voting command are sent in their order.   *)
InTheirOrder ==
    \A m, n \in DOMAIN notice :
        m < n /\ Waits(Event(m)) /\ notice[n].got # {} => notice[m].step = "done"

(* Whoever has unsubscribed is told of nothing and nowhere but what has    *)
(* been switched on again since, and of the bookkeeping, which the link    *)
(* leaves on; unless a request saved what it had loaded before.            *)
QuietAgain ==
    \A u \in Users \ crossed :
        ~notifications_unsubscribed(setting[u]) =>
            setting[u].on \subseteq again[u] \cup {"bookkeeping"} /\ setting[u].devices \subseteq again[u]

NoticesInvariant == TypeOK /\ NobodyUnasked /\ EverybodyAsked /\ InTheirOrder /\ QuietAgain
=============================================================================
