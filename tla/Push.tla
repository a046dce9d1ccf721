--------------------------------- MODULE Push ---------------------------------
(***************************************************************************)
(* Web push to one browser that several members log in on: the rows that   *)
(* say whose pushes go there, chat/push_api.py, and what is sent by them,  *)
(* core/notifications.py.                                                  *)
(*                                                                         *)
(* Every page registers the browser's token for whoever is logged in when  *)
(* it loads; the statements of a registration are not one transaction, and *)
(* pages of the same or of another member register meanwhile.  Logging out *)
(* unregisters nothing.                                                    *)
(*                                                                         *)
(* Left out: kinds of devices, muted authors, other browsers, and what     *)
(* goes over the websocket.                                                *)
(***************************************************************************)
EXTENDS Naturals, FiniteSets

CONSTANTS Users, Nobody,
    Budgets      \* how many logins, pages, pushes, changed minds and faults there are

VARIABLES
    session,     \* who is logged in
    rows,        \* GCMDevice rows of the token
    newest,      \* the greatest key of a row
    debounced,   \* the token has been registered within thirty seconds
    calls,       \* requests under way
    pref,        \* what the members want
    jobs,        \* notifications being sent
    wire,        \* messages on their way to the browser
    owner,       \* history: whose pushes go here, going by what has ended
    muddled,     \* history: requests have overlapped since
    revived,     \* history: a row was saved that had been deleted
    failed,      \* history: a request that overlapped with none has failed
    left

server == <<rows, newest, debounced, calls, owner, muddled, failed, revived>>
vars == <<session, server, pref, jobs, wire, left>>

Spend(what) == left[what] > 0 /\ left' = [left EXCEPT ![what] = @ - 1]
Of(u) == {r \in rows : r.user = u}
Active == {r \in rows : r.active}

-----------------------------------------------------------------------------
(* The browser                                                             *)

\* What is on its way will be shown to someone else.
Login ==
    /\ Spend("logins")
    /\ \E u \in Users \cup {Nobody} : u # session /\ session' = u
    /\ wire' = {[w EXCEPT !.stray = TRUE] : w \in wire}
    /\ UNCHANGED <<server, pref, jobs>>

Begin(does) ==
    /\ session # Nobody
    /\ calls' = {[c EXCEPT !.alone = FALSE] : c \in calls}
                \cup {[n |-> left.pages, does |-> does, user |-> session, keys |-> {}, alone |-> calls = {}]}
    /\ muddled' = (muddled \/ calls # {})

\* initFCM: once per page, with the one token the browser has.
registerDevice == Begin("look")

\* Offered by the page's code, used by nothing yet.
unregisterDevice == Begin("list")

Page ==
    /\ Spend("pages") /\ (registerDevice \/ unregisterDevice)
    /\ UNCHANGED <<session, rows, newest, debounced, owner, failed, revived, pref, jobs, wire>>

-----------------------------------------------------------------------------
(* PushDeviceRegisterView, statement by statement                          *)

Goes(c, does) == calls' = (calls \ {c}) \cup {[c EXCEPT !.does = does]}
Holds(c, does, keys) == calls' = (calls \ {c}) \cup {[c EXCEPT !.does = does, !.keys = keys]}

\* A row that is gone when it is saved comes back under its key.
Saved(c, key, active) == {r \in rows : r.key # key} \cup {[key |-> key, user |-> c.user, active |-> active]}

\* If no request overlapped with it, this one decides whose the browser is.
Ends(c, own, settles) ==
    /\ calls' = calls \ {c}
    /\ owner' = IF c.alone THEN own ELSE owner
    /\ muddled' = (muddled /\ ~(c.alone /\ settles))
    /\ UNCHANGED <<failed, revived>>

Stays == UNCHANGED <<owner, muddled, failed, revived>>

Debounce(c) ==
    \/ /\ c.does = "look"
       /\ Goes(c, IF \E r \in Of(c.user) : r.active /\ \A q \in Of(c.user) : r.key <= q.key
                  THEN "debounce" ELSE "clear")
       /\ Stays
    \/ /\ c.does = "debounce"
       /\ IF debounced THEN calls' = calls \ {c} /\ Stays ELSE Goes(c, "clear") /\ Stays

\* The token was someone else's: those rows go.
Reassign(c) ==
    /\ c.does = "clear" /\ Goes(c, "get")
    /\ rows' = Of(c.user)

get_or_create(c) ==
    \/ /\ c.does = "get" /\ UNCHANGED <<rows, newest>>
       /\ CASE Of(c.user) = {} -> Goes(c, "create") /\ Stays
            [] Cardinality(Of(c.user)) = 1 -> Holds(c, "save", {r.key : r \in Of(c.user)}) /\ Stays
            [] OTHER -> /\ calls' = calls \ {c} /\ failed' = (failed \/ c.alone)
                        /\ UNCHANGED <<owner, muddled, revived>>
    \/ /\ c.does = "create" /\ newest' = newest + 1 /\ Holds(c, "dedupe", {newest + 1})
       /\ rows' = rows \cup {[key |-> newest + 1, user |-> c.user, active |-> TRUE]} /\ Stays
    \/ /\ c.does = "save" /\ Goes(c, "dedupe") /\ Stays
       /\ \E key \in c.keys : rows' = Saved(c, key, TRUE)
       /\ UNCHANGED newest

MutantDeduplicate(c) == c.does = "dedupe" /\ Goes(c, "remember") /\ UNCHANGED rows
Deduplicate(c) ==
    /\ c.does = "dedupe" /\ Goes(c, "remember")
    /\ rows' = {r \in rows : r.user = c.user => r.key \in c.keys}

Register(c) ==
    \/ Debounce(c) /\ UNCHANGED <<rows, newest, debounced>>
    \/ Reassign(c) /\ Stays /\ UNCHANGED <<newest, debounced>>
    \/ get_or_create(c) /\ UNCHANGED debounced
    \/ Deduplicate(c) /\ Stays /\ UNCHANGED <<newest, debounced>>
    \/ c.does = "remember" /\ debounced' = TRUE /\ Ends(c, {c.user}, TRUE) /\ UNCHANGED <<rows, newest>>

\* Every row that was listed is saved, though it may be gone since.
Unregister(c) ==
    /\ UNCHANGED newest
    /\ \/ /\ c.does = "list" /\ Stays /\ UNCHANGED <<rows, debounced>>
          /\ Holds(c, "deactivate", {r.key : r \in Of(c.user)})
       \/ /\ c.does = "deactivate" /\ UNCHANGED <<debounced, owner, muddled, failed>>
          /\ \E key \in c.keys :
                /\ Holds(c, "deactivate", c.keys \ {key})
                /\ rows' = Saved(c, key, FALSE)
                /\ revived' = (revived \/ \A r \in rows : r.key # key)
       \/ /\ c.does = "deactivate" /\ c.keys = {}
          /\ debounced' = FALSE /\ Ends(c, owner \ {c.user}, FALSE) /\ UNCHANGED rows

Handle ==
    /\ \E c \in calls : Register(c) \/ Unregister(c)
    /\ UNCHANGED <<session, pref, jobs, wire, left>>

\* The key of the cache lives for thirty seconds.
Expire ==
    /\ debounced /\ debounced' = FALSE
    /\ UNCHANGED <<session, rows, newest, calls, owner, muddled, failed, revived, pref, jobs, wire, left>>

-----------------------------------------------------------------------------
(* Notifications                                                           *)

notifications_unsubscribed(u) == pref[u] = "unsubscribed"
_push_enabled_for_user(u) == pref[u] = "on"
_push_user_ids == {u \in Users : _push_enabled_for_user(u)}

\* Members change their minds about a kind of push, or about all of them.
Choose ==
    /\ Spend("choices")
    /\ \E u \in Users, p \in {"on", "off", "unsubscribed"} :
          /\ pref' = [pref EXCEPT ![u] = p]
          /\ jobs' = IF p = "unsubscribed" THEN jobs ELSE {[j EXCEPT !.out = @ \ {u}] : j \in jobs}
    /\ UNCHANGED <<session, server, wire>>

\* To one member, out of the queue of the chat, or to some, in a thread.
Notify ==
    /\ Spend("pushes")
    /\ \/ \E u \in Users : jobs' = jobs \cup {[kind |-> "one", at |-> "check", to |-> {u}, out |-> {}]}
       \/ \E S \in SUBSET Users \ {{}} : jobs' = jobs \cup {[kind |-> "all", at |-> "check", to |-> S, out |-> {}]}
    /\ UNCHANGED <<session, server, pref, wire>>

\* out: who had unsubscribed by then, to a push for one when it began, and
\* has stayed so.
Continue(j, at, to) ==
    jobs' = (jobs \ {j}) \cup (IF to = {} THEN {} ELSE {[j EXCEPT !.at = at, !.to = to,
             !.out = IF j.at = "check" \/ j.kind = "all" THEN {u \in Users : notifications_unsubscribed(u)} ELSE @]})

Reachable(j, u) == (\E r \in Of(u) : r.active) /\ (j.kind = "all" => ~notifications_unsubscribed(u))

\* The push service knows the token no more: the library deactivates its rows.
Deactivate ==
    /\ Spend("faults")
    /\ rows' = {[r EXCEPT !.active = FALSE] : r \in rows} /\ owner' = {}
    /\ calls' = {[c EXCEPT !.alone = FALSE] : c \in calls}
    /\ muddled' = (muddled \/ calls # {})

\* Whether there is a device at all is asked before, and again when it is sent.
send_fcm(j) ==
    \/ /\ j.at = "check" /\ Continue(j, "count", j.to \cap _push_user_ids)
       /\ UNCHANGED <<rows, owner, muddled, calls, wire, left>>
    \/ /\ j.at = "count"
       /\ Continue(j, "send", IF \E u \in j.to : Reachable(j, u) THEN j.to ELSE {})
       /\ UNCHANGED <<rows, owner, muddled, calls, wire, left>>
    \/ /\ j.at = "send" /\ jobs' = jobs \ {j}
       /\ \/ /\ wire' = wire \cup {[for |-> u, out |-> u \in j.out,
                                    stray |-> muddled \/ calls # {} \/ session \notin owner] :
                                      u \in {v \in j.to : Reachable(j, v)}}
             /\ UNCHANGED <<rows, owner, muddled, calls, left>>
          \/ (\E u \in j.to : Reachable(j, u)) /\ Deactivate /\ UNCHANGED wire

Send ==
    /\ \E j \in jobs : send_fcm(j)
    /\ UNCHANGED <<session, newest, debounced, failed, revived, pref>>

\* Shown by the page, or by the service worker; or lost.
Arrive ==
    /\ \E w \in wire : wire' = wire \ {w}
    /\ UNCHANGED <<session, server, pref, jobs, left>>

Init ==
    /\ session = Nobody /\ rows = {} /\ newest = 0 /\ debounced = FALSE /\ calls = {}
    /\ pref = [u \in Users |-> "on"] /\ jobs = {} /\ wire = {}
    /\ owner = {} /\ muddled = FALSE /\ failed = FALSE /\ revived = FALSE
    /\ left \in Budgets

Next == Login \/ Page \/ Handle \/ Expire \/ Choose \/ Notify \/ Send \/ Arrive

Spec == Init /\ [][Next]_vars

-----------------------------------------------------------------------------
(* Properties                                                              *)

TypeOK ==
    /\ session \in Users \cup {Nobody} /\ owner \subseteq Users
    /\ \A r \in rows : r.key \in 1 .. newest /\ r.user \in Users /\ r.active \in BOOLEAN

(* However many pages have registered at once, no member is left with two  *)
(* rows, which would make all registrations to come fail, unless           *)
(* unregistering brought one back.                                         *)
OneRowEach ==
    ~revived => ~failed /\ (calls = {} => \A u \in Users : Cardinality(Of(u)) <= 1)

(* The browser is of the member who was the last to register it when no    *)
(* other request was under way, and of nobody else.                        *)
OneOwner == calls = {} /\ ~muddled => {r.user : r \in Active} = owner

(* A push sent after whoever is logged in has registered is his own.       *)
ShownToItsAddressee == \A w \in wire : ~w.stray => w.for = session

(* Who unsubscribes before a push to him begins, or before the devices for *)
(* a push to all are looked for, gets none, unless he subscribes again.    *)
UnsubscribedIsLeftAlone == \A w \in wire : ~w.out

PushInvariant == TypeOK /\ OneRowEach /\ OneOwner /\ ShownToItsAddressee /\ UnsubscribedIsLeftAlone
=============================================================================
