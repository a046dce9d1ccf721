------------------------------ MODULE Presence ------------------------------
(***************************************************************************)
(* One citizen as others see him: core/presence.py, the retry of           *)
(* core/sqlite.py, the requests and messages that leave a sign of him      *)
(* (chat/consumers.py, chat/push_api.py, UpdateLastSeenMiddleware), the    *)
(* lists and counters that read the signs (obywatele/views.py,             *)
(* obywatele/dashboard.py), and the page of somebody who watches           *)
(* (presence.js).                                                          *)
(*                                                                         *)
(* Time is in ticks.  Throttle, Green, Yellow and Month are not to scale;  *)
(* the last three keep the order of the real times.  presence.js           *)
(* sends its sign at a click, a key, a timer or any message from the       *)
(* server, which is to say whenever it likes.                              *)
(***************************************************************************)
EXTENDS Integers, Sequences

CONSTANTS Signs, Requests, LastTick, Budgets

VARIABLES
    clock,
    active,      \* User.is_active
    presence,    \* Uzytkownik.last_presence_at, Never at first
    sign,        \* of each signal under way: what it does, its kind, time, tries and status
    inbox,       \* what the presence group has for the watcher
    page,        \* of the watcher
    key,         \* last_seen:<pk> in the cache: when it expires
    request,     \* of each request: how far it is, and whether it found the account active
    last_login,
    copy,        \* the rows as somebody loaded them to save them whole
    newest,      \* history: the newest sign that was dealt with
    lastRequest, \* history: when an active account last asked for a page
    restored,    \* history: a whole save brought an old presence back
    takenBack,   \* history: ... an old last_login
    unseen,      \* history: a write of last_login failed, none has succeeded since
    farewell,    \* history: when the account, or a request that found it active, was last there
    left

vars == <<clock, active, presence, sign, inbox, page, key, request, last_login, copy,
          newest, lastRequest, restored, takenBack, unseen, farewell, left>>

citizen == <<active, presence, sign, newest>>
watcher == <<inbox, page>>
lastSeen == <<key, request, last_login, lastRequest, unseen, farewell>>
saves == <<copy, restored, takenBack>>

Spend(what) == left[what] > 0 /\ left' = [left EXCEPT ![what] = @ - 1]

Never == -9
Throttle == 2
Green == 1
Yellow == 2
Month == 3
Attempts == 2

Larger(m, n) == IF m > n THEN m ELSE n

-----------------------------------------------------------------------------
(* Reading the signs                                                       *)

get_presence_status(t) ==
    CASE t = Never -> "red"
      [] t # Never /\ clock - t <= Green -> "green"
      [] t # Never /\ clock - t > Green /\ clock - t <= Yellow -> "yellow"
      [] OTHER -> "red"

green_since == clock - Green
yellow_since == clock - Yellow
thirty_days_ago == clock - Month

\* The filters of the directory that let the citizen through.
presence_filters ==
    {f \in {"online", "7d", "nieaktywni"} :
        CASE f = "online" -> presence # Never /\ presence >= green_since
          [] f = "7d" -> presence # Never /\ presence < green_since /\ presence >= yellow_since
          [] f = "nieaktywni" -> presence = Never \/ presence < yellow_since}

\* The counters of the dashboard that count him.
active_counters ==
    {c \in {"green", "yellow", "recent"} :
        /\ active /\ presence # Never
        /\ CASE c = "green" -> presence >= green_since
             [] c = "yellow" -> presence < green_since /\ presence >= yellow_since
             [] c = "recent" -> presence < yellow_since /\ presence >= thirty_days_ago}

-----------------------------------------------------------------------------
(* Leaving a sign                                                          *)

NoSign == [at |-> "idle", kind |-> "none", time |-> Never, tries |-> 0, status |-> "red"]
NoRequest == [at |-> "idle", active |-> FALSE]
NoPage == [open |-> FALSE, joined |-> FALSE, time |-> Never, status |-> "red",
           missed |-> FALSE, overtaken |-> FALSE]
NoCopy == [row |-> "none", value |-> Never, active |-> FALSE]

\* The time is taken before the write; an inactive account is turned away
\* before (middleware, consumers' _user_is_active).
Signal(s, kind) ==
    /\ sign[s] = NoSign /\ active /\ Spend("signs")
    /\ sign' = [sign EXCEPT ![s] = [at |-> "write", kind |-> kind, time |-> clock, tries |-> 0, status |-> "red"]]
    /\ UNCHANGED <<clock, active, presence, newest, watcher, lastSeen, saves>>

connect(s) == Signal(s, "connect")
presence_heartbeat(s) == Signal(s, "heartbeat")
record_login_presence(s) == Signal(s, "login")

\* A notification that was skipped, failed or clicked is no sign.
PushNotificationAckView(s) ==
    \E status \in {"shown", "skipped"} :
        \/ status = "shown" /\ Signal(s, "push")
        \/ status # "shown" /\ active /\ UNCHANGED vars

\* As if any other time were a newer one.
MutantNewer(s) == presence # sign[s].time

Newer(s) == presence = Never \/ presence < sign[s].time

(* The conditional update; the consumer makes up its message in the same   *)
(* thread, the others when they send it.                                   *)
update_presence(s) ==
    /\ sign[s].at = "write"
    /\ newest' = Larger(newest, sign[s].time)
    /\ IF Newer(s)
       THEN /\ presence' = sign[s].time
            /\ sign' = [sign EXCEPT ![s].at = "tell", ![s].status = get_presence_status(sign[s].time)]
       ELSE /\ sign' = [sign EXCEPT ![s] = NoSign]
            /\ UNCHANGED presence
    /\ UNCHANGED <<clock, active, watcher, lastSeen, saves, left>>

\* run_with_lock_retry: the last attempt's lock is an answer of False.
Locked(s) ==
    /\ sign[s].at = "write" /\ Spend("faults")
    /\ sign' = IF sign[s].tries = Attempts - 1 THEN [sign EXCEPT ![s] = NoSign] ELSE [sign EXCEPT ![s].tries = @ + 1]
    /\ UNCHANGED <<clock, active, presence, newest, watcher, lastSeen, saves>>

Fresh(s) == IF sign[s].kind \in {"login", "push"} THEN get_presence_status(sign[s].time) ELSE sign[s].status

publish_presence(s) ==
    /\ sign[s].at = "tell"
    /\ IF page.joined
       THEN inbox' = Append(inbox, [time |-> sign[s].time, status |-> Fresh(s)]) /\ UNCHANGED page
       ELSE page' = [page EXCEPT !.missed = page.open] /\ UNCHANGED inbox
    /\ sign' = [sign EXCEPT ![s] = NoSign]
    /\ UNCHANGED <<clock, active, presence, newest, lastSeen, saves, left>>

Sign(s) ==
    \/ connect(s) \/ presence_heartbeat(s) \/ record_login_presence(s) \/ PushNotificationAckView(s)
    \/ update_presence(s) \/ Locked(s) \/ publish_presence(s)

-----------------------------------------------------------------------------
(* The watcher: the page is rendered, and connects later                   *)

\* What a page is rendered with.
presence_data == [NoPage EXCEPT !.open = TRUE, !.time = presence, !.status = get_presence_status(presence)]

OpenPage ==
    /\ Spend("pages") /\ ~page.joined
    /\ page' = presence_data
    /\ UNCHANGED <<clock, citizen, inbox, lastSeen, saves>>

JoinGroup ==
    /\ page.open /\ ~page.joined
    /\ page' = [page EXCEPT !.joined = TRUE]
    /\ UNCHANGED <<clock, citizen, inbox, lastSeen, saves, left>>

\* A broken connection; the one that follows is told nothing of what it missed.
LeaveGroup ==
    /\ page.joined /\ Spend("breaks")
    /\ page' = [page EXCEPT !.joined = FALSE, !.missed = @ \/ inbox # <<>>]
    /\ inbox' = <<>>
    /\ UNCHANGED <<clock, citizen, lastSeen, saves>>

\* The page shows what it is told, without a look at what it shows.
handlePresenceMessage ==
    /\ inbox # <<>> /\ inbox' = Tail(inbox)
    /\ LET told == Head(inbox) IN
       page' = [page EXCEPT !.time = told.time, !.status = told.status,
                            !.missed = @ /\ told.time < newest,
                            !.overtaken = told.time < page.time \/ (@ /\ told.time < newest)]
    /\ UNCHANGED <<clock, citizen, lastSeen, saves, left>>

\* Every minute.
refreshPresenceStatuses ==
    /\ page.open
    /\ page' = [page EXCEPT !.status = get_presence_status(page.time)]
    /\ UNCHANGED <<clock, citizen, inbox, lastSeen, saves, left>>

Watch == OpenPage \/ JoinGroup \/ LeaveGroup \/ handlePresenceMessage \/ refreshPresenceStatuses

-----------------------------------------------------------------------------
(* Last seen                                                               *)

(* request.user is loaded once; what it says of the account is old by the  *)
(* time the key is asked for.                                              *)
AuthenticationMiddleware(r) ==
    /\ request[r] = NoRequest /\ Spend("requests")
    /\ request' = [request EXCEPT ![r] = [at |-> "check", active |-> active]]
    /\ UNCHANGED <<clock, citizen, watcher, key, last_login, lastRequest, unseen, farewell, saves>>

\* Whoever adds the key writes; an inactive account is logged out.
UpdateLastSeenMiddleware(r) ==
    /\ request[r].at = "check"
    /\ IF request[r].active /\ clock >= key
       THEN key' = clock + Throttle /\ request' = [request EXCEPT ![r].at = "update"]
       ELSE request' = [request EXCEPT ![r] = NoRequest] /\ UNCHANGED key
    /\ lastRequest' = IF request[r].active THEN clock ELSE lastRequest
    /\ UNCHANGED <<clock, citizen, watcher, last_login, unseen, farewell, saves, left>>

UpdateLastLogin(r) ==
    /\ request[r].at = "update"
    /\ last_login' = clock
    /\ unseen' = FALSE
    /\ request' = [request EXCEPT ![r] = NoRequest]
    /\ UNCHANGED <<clock, citizen, watcher, key, lastRequest, farewell, copy, restored, left>>
    /\ takenBack' = FALSE

\* Whatever goes wrong is passed over; the key stays.
UpdateFails(r) ==
    /\ request[r].at = "update" /\ Spend("faults")
    /\ request' = [request EXCEPT ![r] = NoRequest]
    /\ unseen' = TRUE
    /\ UNCHANGED <<clock, citizen, watcher, key, last_login, lastRequest, farewell, saves>>

Seen(r) == AuthenticationMiddleware(r) \/ UpdateLastSeenMiddleware(r) \/ UpdateLastLogin(r) \/ UpdateFails(r)

-----------------------------------------------------------------------------
(* Whole saves of the account and of the profile, the end of an account,   *)
(* and time                                                                *)

LoadRow ==
    /\ copy = NoCopy /\ Spend("edits")
    /\ \E row \in {"user", "profile"} :
          copy' = [row |-> row, value |-> IF row = "user" THEN last_login ELSE presence, active |-> active]
    /\ UNCHANGED <<clock, citizen, watcher, lastSeen, restored, takenBack>>

\* A whole save of the account brings is_active back with last_login.
SaveRow ==
    /\ copy # NoCopy /\ copy' = NoCopy
    /\ IF copy.row = "user"
       THEN /\ last_login' = copy.value /\ active' = copy.active
            /\ takenBack' = (takenBack \/ last_login > copy.value)
            /\ farewell' = IF copy.active THEN clock ELSE farewell
            /\ UNCHANGED <<presence, restored>>
       ELSE /\ presence' = copy.value
            /\ restored' = (restored \/ presence > copy.value)
            /\ UNCHANGED <<active, last_login, takenBack, farewell>>
    /\ UNCHANGED <<clock, sign, newest, watcher, key, request, lastRequest, unseen, left>>

Deactivate ==
    /\ active /\ Spend("departures") /\ active' = FALSE
    /\ UNCHANGED <<clock, presence, sign, newest, watcher, lastSeen, saves>>

\* A minute is far shorter than a tick: no open page sits one out unrefreshed.
Tick ==
    /\ clock < LastTick
    /\ page.open => page.status = get_presence_status(page.time)
    /\ clock' = clock + 1
    /\ farewell' = IF active \/ \E r \in Requests : request[r].active THEN clock' ELSE farewell
    /\ UNCHANGED <<citizen, watcher, key, request, last_login, lastRequest, unseen, saves, left>>

Init ==
    /\ clock = 0 /\ active = TRUE
    /\ presence = Never /\ last_login = Never
    /\ sign = [s \in Signs |-> NoSign]
    /\ request = [r \in Requests |-> NoRequest]
    /\ inbox = <<>> /\ page = NoPage /\ key = 0 /\ copy = NoCopy
    /\ newest = Never /\ lastRequest = Never
    /\ restored = FALSE /\ takenBack = FALSE /\ unseen = FALSE /\ farewell = 0
    /\ left \in Budgets

Next ==
    \/ \E s \in Signs : Sign(s)
    \/ \E r \in Requests : Seen(r)
    \/ Watch \/ LoadRow \/ SaveRow \/ Deactivate \/ Tick

-----------------------------------------------------------------------------
(* Properties                                                              *)

Times == {Never} \cup 0..LastTick
Statuses == {"green", "yellow", "red"}

TypeOK ==
    /\ clock \in 0..LastTick /\ key \in 0..LastTick + Throttle
    /\ presence \in Times /\ last_login \in Times /\ newest \in Times /\ lastRequest \in Times /\ farewell \in 0..clock
    /\ \A s \in Signs : sign[s].time \in Times /\ sign[s].tries \in 0..Attempts - 1 /\ sign[s].status \in Statuses
    /\ page.time \in Times /\ page.status \in Statuses

(* However signs of one citizen overlap, the newest that was dealt with is *)
(* the one that stays, unless a whole save of the profile brought an older *)
(* one back (record_presence, "Store a monotonic presence signal").        *)
NewestStays == restored \/ presence = newest

(* Every list calls him what the page of his profile calls him, at the     *)
(* boundaries too: one filter of the directory has him, and a counter of   *)
(* the dashboard counts a green or yellow citizen as that.                 *)
ListsAgree ==
    LET status == get_presence_status(presence) IN
    /\ presence_filters = {CASE status = "green" -> "online" [] status = "yellow" -> "7d" [] status = "red" -> "nieaktywni"}
    /\ active => active_counters \cap {"green", "yellow"} = {status} \ {"red"}
    /\ "recent" \in active_counters => status = "red"

Quiet == inbox = <<>> /\ \A s \in Signs : sign[s].at # "tell"

(* An open page shows the stored presence once all news has arrived, but   *)
(* for news it was not connected for, news that overtook each other and    *)
(* presence a whole save brought back (publish_presence, presence.js).     *)
WatcherIsRight ==
    page.open /\ Quiet => page.time = presence \/ page.missed \/ page.overtaken \/ restored

(* last_login is never older than the last request by more than the        *)
(* throttle, when no write is under way, none failed and no whole save of  *)
(* the account took it back (UpdateLastSeenMiddleware).                    *)
LastSeenIsRecent ==
    (\A r \in Requests : request[r].at # "update") =>
        unseen \/ takenBack \/ lastRequest - last_login < Throttle

(* Whatever requests, whole saves and the end of the account overlap, he   *)
(* was never seen later than the account, or a request that had found it   *)
(* active, was there: a session that outlives the account does not put off *)
(* its deletion (the middleware's comment).                                *)
NobodyGoneIsSeen == last_login <= farewell

PresenceInvariant ==
    TypeOK /\ NewestStays /\ ListsAgree /\ WatcherIsRight /\ LastSeenIsRecent /\ NobodyGoneIsSeen
=============================================================================
