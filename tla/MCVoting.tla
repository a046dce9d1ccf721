------------------------------ MODULE MCVoting ------------------------------
(* A referendum, and in the same run parts that share no state with it, a  *)
(* behaviour being a behaviour of one of them.  Around the voting: the     *)
(* arguments for and against a decision, the parameters that decisions     *)
(* change, the scheduler that starts the commands, the rooms of what is    *)
(* discussed, the notices of what happens.  Around the members: their      *)
(* accounts, their presence, the map of where they live.                   *)
EXTENDS MCReferendum, Sequences

CONSTANTS
    Processes, LastDue, LaunchBudgets,                         \* the scheduler
    Addresses, AccountIds, AccountBudgets,                     \* the accounts
    Signs, Visits, LastSign, SignBudgets,                      \* one member's presence
    Lookups, Cities, LastSecond, Places, Replies, MapBudgets   \* the map

VARIABLES
    part,
    decisions, accounts, arguments, posts, said, told, closed, late, deleted, revived, postsLeft,
    row, files, derived, motions, kept, forms, effects, applying, site, cached, icons, touched, moved, marks,
    crossed, hasty, broken, voted, formsLeft,
    now, process, kind, holder, job, _db_lock, begun, misses, skipped, killed, launchesLeft,
    discussed, rooms, made, joinedBy, handling, command, joining, legacyRooms, bonded, overlaid, loud, shut, roomsLeft,
    happening, notice, setting, again, saving, overlapped, noticesLeft,
    user, profile, addresses, links, session, submission, changes, since, checked, answered, opened, overwritten,
    accepted, unsent, accountsLeft,
    tick, active, presence, sign, inbox, page, key, request, last_login, copy, newest, lastRequest, restored,
    takenBack, unseen, farewell, signsLeft,
    second, places, geocoder, cache, lock, next, query, last, crowded, outlived, geocoded, mapLeft

Sides == {[side |-> "FOR", length |-> 2], [side |-> "AGAINST", length |-> 1]}

A == INSTANCE Arguments WITH requests <- posts, left <- postsLeft,
       Decisions <- {1, 2}, Citizens <- {1, 2}, Forms <- Sides, MaxArguments <- 3,
       Budgets <- {[requests |-> 2, faults |-> 1, days |-> 1, signs |-> 0, departures |-> 0],
                   [requests |-> 1, faults |-> 0, days |-> 2, signs |-> 1, departures |-> 1],
                   [requests |-> 2, faults |-> 0, days |-> 0, signs |-> 0, departures |-> 1]}

P == INSTANCE Parameters WITH left <- formsLeft,
       Motions <- {1, 2}, MaxFiles <- 7,
       Budgets <- {[forms |-> 2, approvals |-> 2, runs |-> 1, faults |-> 0, visits |-> 0],
                   [forms |-> 2, approvals |-> 0, runs |-> 0, faults |-> 1, visits |-> 0],
                   [forms |-> 1, approvals |-> 1, runs |-> 2, faults |-> 1, visits |-> 2],
                   [forms |-> 2, approvals |-> 2, runs |-> 2, faults |-> 0, visits |-> 1]}

L == INSTANCE Scheduler WITH left <- launchesLeft, LastTick <- LastDue, Budgets <- LaunchBudgets

U == INSTANCE Accounts WITH rows <- addresses, request <- submission, clock <- changes, crossed <- overwritten,
       left <- accountsLeft, Ids <- AccountIds, Budgets <- AccountBudgets

O == INSTANCE Presence WITH clock <- tick, left <- signsLeft,
       Requests <- Visits, LastTick <- LastSign, Budgets <- SignBudgets

M == INSTANCE CommunityMap WITH clock <- second, answered <- geocoded, left <- mapLeft,
       Requests <- Lookups, LastTick <- LastSecond, Answers <- Replies, Budgets <- MapBudgets

D == INSTANCE DiscussionRooms WITH rows <- discussed, active <- joinedBy, request <- handling, legacy <- legacyRooms,
       left <- roomsLeft,
       Apps <- <<"board", "tasks", "glosowania">>, Users <- {1, 2}, Actives <- {{1}}, MaxRooms <- 5,
       Legacies <- {<<"unlinked", "unmarked", "new">>, <<"new", "unlinked", "unmarked">>, <<"none", "sound", "new">>,
                    <<"sound", "astray", "new">>, <<"new", "new", "new">>},
       Budgets <- {[requests |-> 2, faults |-> 0, bulks |-> 0, titles |-> 0, words |-> 0, citizens |-> 0, starts |-> 0, commands |-> 1],
                   [requests |-> 1, faults |-> 1, bulks |-> 0, titles |-> 0, words |-> 0, citizens |-> 1, starts |-> 0, commands |-> 1],
                   [requests |-> 0, faults |-> 0, bulks |-> 1, titles |-> 1, words |-> 1, citizens |-> 1, starts |-> 2, commands |-> 0]}

N == INSTANCE Notices WITH crossed <- overlapped, left <- noticesLeft,
       Users <- {"ann", "bob"},
       Happening <- {<<"transaction.created">>, <<"task.helper_joined">>, <<"citizen.accepted">>,
                     <<"vote.started", "vote.last_day">>, <<"task.created", "task.status_changed">>},
       Budgets <- {[changes |-> 2, blocks |-> 0, faults |-> 0], [changes |-> 1, blocks |-> 1, faults |-> 1],
                   [changes |-> 1, blocks |-> 0, faults |-> 1], [changes |-> 0, blocks |-> 1, faults |-> 1]}

referendum == <<vars>>
talk == <<decisions, accounts, arguments, posts, said, told, closed, late, deleted, revived, postsLeft>>
settings == <<row, files, derived, motions, kept, forms, effects, applying, site, cached, icons, touched, moved,
              marks, crossed, hasty, broken, voted, formsLeft>>
schedule == <<now, process, kind, holder, job, _db_lock, begun, misses, skipped, killed, launchesLeft>>
rooming == <<discussed, rooms, made, joinedBy, handling, command, joining, legacyRooms, bonded, overlaid, loud, shut,
             roomsLeft>>
noticing == <<happening, notice, setting, again, saving, overlapped, noticesLeft>>
voting == <<talk, settings, schedule, rooming, noticing>>
account == <<user, profile, addresses, links, session, submission, changes, since, checked, answered, opened,
             overwritten, accepted, unsent, accountsLeft>>
signs == <<tick, active, presence, sign, inbox, page, key, request, last_login, copy, newest, lastRequest, restored,
           takenBack, unseen, farewell, signsLeft>>
map == <<second, places, geocoder, cache, lock, next, query, last, crowded, outlived, geocoded, mapLeft>>
members == <<account, signs, map>>
all == <<part, referendum, voting, members>>

\* Two decisions, one of them with a room, an argument of citizen 1.
TalkInit ==
    /\ A!Init
    /\ \A d \in {1, 2} : decisions[d].author = d
    /\ decisions[1].room /\ decisions[1].status \in {"proposition", "referendum"}
    /\ ~decisions[2].room /\ decisions[2].status = IF postsLeft.requests = 2 THEN "approved" ELSE "proposition"
    /\ \A i \in DOMAIN arguments : arguments[i].author = 1
    /\ part # "talk" => DOMAIN arguments = {} /\ postsLeft.requests = 1 /\ decisions[1].status = "proposition"

\* A motion was rejected before, where the other one takes long.
SettingsInit ==
    /\ P!Init
    /\ motions[1] = P!NoMotion
    /\ motions[2] = P!NoMotion <=> ~(formsLeft.runs = 2 /\ formsLeft.forms = 2)
    /\ part # "settings" => formsLeft.approvals = 0

ScheduleInit == L!Init /\ (part # "schedule" => launchesLeft.stops = 0)

\* Nothing to discuss yet, or older data of different kinds.
RoomsInit ==
    /\ D!Init
    /\ roomsLeft.bulks = 1 <=> \A o \in {1, 2, 3} : discussed[o].state = "new"
    /\ roomsLeft.faults = 1 <=> discussed[2].link = 1
    /\ part # "rooms" => roomsLeft.bulks = 1

NoticesInit ==
    /\ N!Init
    /\ noticesLeft.changes = 2 <=> happening = <<"transaction.created">>
    /\ noticesLeft.changes = 1 /\ noticesLeft.blocks = 0 <=> happening = <<"vote.started", "vote.last_day">>
    /\ noticesLeft.changes = 0 <=> happening = <<"task.created", "task.status_changed">>
    /\ part # "notices" => noticesLeft.changes = 0

AccountInit ==
    /\ U!Init
    /\ part # "account" => /\ addresses = {[U!Row(1, CHOOSE a \in Addresses : TRUE, TRUE, TRUE) EXCEPT !.upper = TRUE]}
                           /\ accountsLeft.commands = 0

SignsInit == O!Init /\ (part # "signs" => signsLeft.departures = 1)

\* Requests overlap for one place; the geocoder is off where people move.
MapInit ==
    /\ M!Init
    /\ Len(places) = 1 <=> mapLeft.requests = 2
    /\ geocoder # IF mapLeft.edits = 0 THEN "off" ELSE "on"
    /\ mapLeft.requests = 2 => geocoder = "on"
    /\ part # "map" => mapLeft.requests = 2

VotingInit ==
    /\ part \in {"referendum", "talk", "settings", "schedule", "rooms", "notices", "account", "signs", "map"}
    /\ Init /\ TalkInit /\ SettingsInit /\ ScheduleInit /\ RoomsInit /\ NoticesInit
    /\ AccountInit /\ SignsInit /\ MapInit

ReferendumNext == part = "referendum" /\ Next /\ UNCHANGED <<part, voting, members>>
TalkNext == part = "talk" /\ A!Next /\ UNCHANGED <<part, referendum, settings, schedule, rooming, noticing, members>>
SettingsNext == part = "settings" /\ P!Next /\ UNCHANGED <<part, referendum, talk, schedule, rooming, noticing, members>>
ScheduleNext == part = "schedule" /\ L!Next /\ UNCHANGED <<part, referendum, talk, settings, rooming, noticing, members>>
RoomsNext == part = "rooms" /\ D!Next /\ UNCHANGED <<part, referendum, talk, settings, schedule, noticing, members>>
NoticesNext == part = "notices" /\ N!Next /\ UNCHANGED <<part, referendum, talk, settings, schedule, rooming, members>>
AccountNext == part = "account" /\ U!Next /\ UNCHANGED <<part, referendum, voting, signs, map>>
SignsNext == part = "signs" /\ O!Next /\ UNCHANGED <<part, referendum, voting, account, map>>
MapNext == part = "map" /\ M!Next /\ UNCHANGED <<part, referendum, voting, account, signs>>

VotingNext == ReferendumNext \/ TalkNext \/ SettingsNext \/ ScheduleNext
              \/ RoomsNext \/ NoticesNext \/ AccountNext \/ SignsNext \/ MapNext
VotingSpec == VotingInit /\ [][VotingNext]_all

\* What surrounds the voting, each stated in its module.
SurroundingsInvariant ==
    /\ part = "talk" => A!ArgumentsInvariant
    /\ part = "settings" => P!ParametersInvariant
    /\ part = "schedule" => L!SchedulerInvariant
    /\ part = "rooms" => D!DiscussionInvariant
    /\ part = "notices" => N!NoticesInvariant

\* What surrounds the members, each stated in its module.
MembersInvariant ==
    /\ part = "account" => U!AccountsInvariant
    /\ part = "signs" => O!PresenceInvariant
    /\ part = "map" => M!MapInvariant

\* Each budget allows few of everything, or more of one thing.
MCLaunches == {[launches |-> 2, faults |-> 1, stops |-> 0], [launches |-> 2, faults |-> 0, stops |-> 1]}
MCAccounts ==
    {[requests |-> 1, forms |-> 2, accepts |-> 1, changes |-> 1, commands |-> 0, faults |-> 0],
     [requests |-> 2, forms |-> 0, accepts |-> 1, changes |-> 1, commands |-> 1, faults |-> 1]}
MCSigns ==
    {[signs |-> 2, pages |-> 1, breaks |-> 0, requests |-> 0, edits |-> 0, faults |-> 0, departures |-> 0],
     [signs |-> 1, pages |-> 1, breaks |-> 1, requests |-> 0, edits |-> 0, faults |-> 2, departures |-> 0],
     [signs |-> 1, pages |-> 1, breaks |-> 0, requests |-> 0, edits |-> 1, faults |-> 0, departures |-> 0],
     [signs |-> 0, pages |-> 0, breaks |-> 0, requests |-> 2, edits |-> 1, faults |-> 1, departures |-> 1]}
MCLookups ==
    {[requests |-> 2, edits |-> 0, faults |-> 0], [requests |-> 1, edits |-> 0, faults |-> 1],
     [requests |-> 1, edits |-> 1, faults |-> 0]}

\* Who lives where, and what the geocoder may say of it.
Record(type, city, house) ==
    [type |-> type, city |-> city, house |-> house, active |-> TRUE, open |-> TRUE, community |-> FALSE]
Inhabited == {<<Record("citizen", "Radom", 0)>>,
              <<Record("citizen", "Radom", 1), Record("partner", "none", 0)>>,
              <<Record("resource", "Radom", 2), Record("partner", "none", 0)>>}
Entry(fits, centre, exact, point) == [fits |-> fits, centre |-> centre, exact |-> exact, point |-> point]
Found == {<<Entry(TRUE, FALSE, TRUE, 1)>>,
          <<Entry(TRUE, FALSE, TRUE, 1), Entry(TRUE, TRUE, TRUE, 2)>>,
          <<Entry(FALSE, TRUE, TRUE, 2), Entry(TRUE, TRUE, FALSE, 1)>>}
=============================================================================
