# Wikikracja in TLA+

Wikikracja is a platform for groups that govern themselves: citizens admit one another, propose
motions, sign them, discuss them and vote; around that core there are a chat, tasks, surveys, a
board, a calendar, simple accounts and listings of things. It is a Django program on SQLite (WAL,
deferred transactions, one writer at a time, no row locks) with Redis (memory only) for the vote
buffer, the cache, Channels and the queue of notifications. One Daphne process serves HTTP and
WebSockets, a second process schedules the management commands, a third one pushes chat
notifications.

This directory holds TLA+ models of the parts of that program where order, concurrency and failure
decide about correctness, the TLC configurations that check them, and TLAPS proofs of the
properties that matter most. `PROJECT.json` maps each definition to the lines it models and lists
the runs, the mutants (deliberate errors each property must catch), the findings, the hazards of
the code and the theorems.

1. Inventory, 2. Modules, 3. Runs, 4. Fairness, 5. Proofs, 6. Known limits of the code,
7. Disagreements noticed, 8. Not modelled, 9. Plan.

## 1. Inventory

| component | state | operations | hard behaviour | what makes it correct |
|---|---|---|---|---|
| referendum (`glosowania/views.py`, `vote_buffer.py`, `commands/vote.py`) | SQLite: status and window of the motion, who has voted, result, pending effects. Redis: v2 hash, legacy list, claim | vote request with three attempts; claim, compare, tally or restart; acknowledge | two stores without a common transaction, crashes between them, Redis loses its memory, locked database, command run over late requests | one vote per voter, the tally is what was recorded, votes survive failed runs, true answers, every referendum ends |
| motion (`glosowania/views.py`, `forms.py`, `commands/vote.py`) | one row with status, wording, counter, dates; rows for signatures and old wordings; effects | propose, sign, withdraw, edit, delete; daily: discuss, give up, open, close, repeal, apply | edits and deletions that check a row loaded earlier and save all of it; days missed; effects repeated after failures; motions that name motions | stages in order, the text fixed once it is discussed, counter = rows, decisions in order, every motion ends |
| arguments (`glosowania/views.py`, `stepper.py`, `dashboard.py`) | arguments with side and author | add, edit, delete; lists and counts of decisions | requests let in before the end of a voting; whole-row saves of what was deleted | a closed debate stays, lists and counts agree |
| parameters (`site_settings`, `glosowania/forms.py`) | one row, logo files, icons, the site's name in a table cached by two processes | propose by a form, apply, serve icons | a form with every parameter in it, files outside the transaction, two processes | only what was changed is proposed, what was voted is applied, files are neither lost nor leaked |
| scheduler (`zzz/scheduler.py`) | in-memory jobs, a file lock, a process-local lock | start, stop, one thread per job | processes killed and started again, a lock released before its jobs end | one scheduler, one command at a time, one run per due time |
| membership (`obywatele`, `count_citizens`) | accounts, ratings, stored reputation, deletion requests | sign up, rate, edit, ask for deletion, cancel; every five minutes: count, admit, grant, recount, block, reset, purge, delete | a long command without a transaction, whole-row saves on both sides, a bar that moves with every admission | citizens at the bar stay, only citizens count, lawful deletion, membership settles |
| accounts (`obywatele/forms.py`, `views.py`, `adapter.py`, `normalize_email_case`) | account, profile, table of addresses, links mailed | sign up, propose somebody, confirm, fill in, change address or name, normalise, log in | checks before writes, no uniqueness of addresses in the database, whole-row saves | one account per address, a confirmed address is confirmed, nobody is locked out |
| presence (`core/presence.py`, middleware, `presence.js`) | newest sign, last login, a throttle key | signs from five sources, heartbeats, watching | conditional updates, news that arrive in another order, retries | the newest sign stays, lists agree |
| map (`obywatele/map_geocoding.py`) | cache of answers, lock and slot | collect places, ask the geocoder | a lock that is an entry of the cache, requests that overlap | slots apart, only answers are remembered |
| chat: queue of notifications | Redis stream, cooldown, pending job, delayed set, lock, markers | enqueue; deliver due, claim, read, deliver or defer; open a room | crash between delivery and mark, retries out of order, lock and key expiry | a message is announced, once an hour at most, the newest first |
| chat: messages and read state | messages, reactions, read rows, cached counters; tabs and groups | send, edit, vote, react, mark read, join, leave | events and answers on different paths, cache filled after its invalidation | tabs converge, nothing is missed, counters agree with rows |
| chat: rooms | rooms and members | rooms of two, rooms of what is discussed, nightly clean-up, repair | get-or-create without a lock, whole-row saves on stale objects | one room per pair, one room per object, everybody is in |
| chat: federation | rooms for other groups, secrets, nonces | configure, deliver, store | lost, late and repeated deliveries, secrets changed by hand | at most once, genuine |
| chat: web push (`push_api.py`, `core/notifications.py`) | rows of devices | register, unregister, push | statements of two registrations interleave | one row each, one owner |
| notices (`core/notifications.py`) | settings of members | raise, choose, send on each channel, switch, unsubscribe | threads that read settings one after another while they change | nobody unasked, everybody who asked |
| tasks | task, helpers, votes, subtasks | take, approve, vote, close, reopen, resign; nest and reorder subtasks; the page in the browser | checks before transactions, stale saves, answers out of order | the phase follows, one tab, the outline, the page shows what is stored |
| surveys (`ankiety`) | options, votes | vote, add an option, edit, close | delete and create, check outside the transaction | one vote per voter, a closed result is final |
| bookkeeping, resources, categories | rows with an author; lists in two dialogs | claim, edit, hand over; add, rename, reorder, delete | row locks SQLite does not have, cascades, stale orders | authors decide, listings differ, reports agree, dialogs show what is stored |
| board, events | documents with a room; events with recurrence | publish, archive, restore, expire; next occurrence, reminders | two rows that follow one another, dates | the room follows, no occurrence lost or doubled |
| feed and digests (`core`, `home`) | a shared cache, read marks; marks and subscriptions | build, invalidate, toggle; run, mark, unsubscribe | cache filled after its invalidation, mail twice or never | pages recent, nothing missed, one digest a period |
| frontend | state of a tab | the chat page, the chat beside a page, the filter of a list, the page of a task, the dialog of categories | connections that break, answers late, lost or overtaken | what is shown is what is stored, the newest wish wins |

How they interact: web requests call models directly (one transaction each only where the code
says `atomic`); the scheduler's commands change the same rows; Django signals create chat rooms,
announce changes and invalidate caches; the chat's notifications go through a Redis stream to a
worker process; votes go to Redis and return through the vote command; parameters decided by vote
change how the next motions are treated. The hazards of each component, with the line where it
bites, are listed in `PROJECT.json`.

## 2. Modules

Modules with the same state are composed (`Motion` contains the effects on parameters, `Checklist`
implements `Outline`, `TaskPage` takes `Tasks`' views as steps); where two components meet only
through a call, the call is a step of both modules, with what the other one may do left open.

| module | models | remarks |
|---|---|---|
| `Ballot` | what one referendum promises | abstract specification |
| `Referendum`, `ReferendumProofs` | requests, buffer and command for one motion under vote | implements `Ballot`; TLAPS |
| `Motion`, `MotionProofs` | motions from the proposal to the decision and its effects | the voting itself is one arbitrary step; TLAPS |
| `Citizens`, `CitizensProofs` | membership | TLAPS |
| `NotificationQueue`, `NotificationQueueProofs` | announcements of chat messages to one member of one room | TLAPS |
| `Outline` | what a checklist promises | abstract specification |
| `Tasks`, `Checklist`, `TaskPage` | a task, its subtasks, its page | `Checklist` implements `Outline` |
| `Surveys`, `Bookkeeping`, `Resources`, `Board`, `Events` | one survey, the ledger, the listings, one document with its room, one event | |
| `ChatRoom`, `Messages`, `DirectRooms`, `DiscussionRooms`, `Federation`, `Push` | the chat on the server | |
| `ChatView`, `Widget` | the chat in the browser: its page, and beside another page | |
| `Activity`, `Digest`, `FilteredList`, `Categories` | what one member is shown and sent | |
| `Arguments`, `Parameters`, `Scheduler`, `Notices` | what surrounds a voting | |
| `Accounts`, `Presence`, `CommunityMap` | what is kept for a member | |
| `MCReferendum`, `MCMotion` | instances for TLC | |
| `MCVoting`, `MCCitizens`, `MCSite`, `MCChat` | instances of many parts for TLC | see section 3 |
| `SiteProofs` | theorems about `Tasks` and the parts board, surveys, ledger and listings of `MCSite` | TLAPS |
| `ChatProofs` | theorems about `Federation`, `DirectRooms`, `ChatRoom`, `Push` and `ChatView` in `MCChat` | TLAPS |
| `VotingProofs` | theorems about `Scheduler`, `Presence`, `Accounts` and `CommunityMap` in `MCVoting` | TLAPS |

Three conventions are shared by most modules. A request that checks first and writes later is a
record in a set (`open`, `pending`, `request`), so that other steps come between; its write is the
whole of what the code does from there, with everything that Django's signals add. What a reader or
a tester would have to remember to tell right from wrong is kept in history variables that no guard
reads (`crossed`, `overlaid`, `missed`, `jumbled` and the like): they name the conditions under
which the code does not keep a promise, and so the promise that it keeps otherwise. And bounds are
either constants called `Max...`, or a set `Budgets` of records: every behaviour picks one record,
which says how often each kind of thing may happen, so that few of everything and many of one are
both covered.

### Referendum

A request goes through the labels of `pc`: *insert* (checks made on one snapshot), *push* (row
written, write lock held), *commit*, *discard* (an IntegrityError), *retry* (database locked) and
its answer. SQLite is modelled by what matters of it: `fresh` holds the open transactions whose
snapshot is still the newest, `writer` the holder of the write lock; a transaction that is not
fresh cannot start writing and fails at once. The command has the labels *claim*, *clear*,
*restart*, *tally* and *mark*; the claim script is one step of Redis. A vote is identified with
its operation id, which is drawn once per request: that is why a repeated push is idempotent in
the model as it is in the code (HSETNX). Deleted accounts leave their rows (SET_NULL). An account
deleted between insert and commit makes the commit fail, for SQLite checks foreign keys there.

### Motion

Dates are numbers of days relative to today. Signing and withdrawing are transactions; editing
and deleting check the motion they have loaded, so with `Overlapping` they may span any number of
other steps (`open` holds what they have loaded). `Process` treats one motion as one run of
`process` does, in its own transaction: discuss, give up, open, approve with repeals, reject,
restart or wait; `Fail` is a failed transaction. Effects are applied after that, in the order of
their rows, and may fail before or after the parameters were saved. `settled`, `openDays`,
`wordings` and `latest` are history variables.

Assumptions: no request and no run crosses midnight; the result of the voting is arbitrary (it is
`Referendum`'s business); of the parameters only the number of required signatures changes;
blocked authors, who cannot log in but keep their motions, are like authors who do nothing. Whether
a motion changes parameters is a constant of it: no request turns one kind into the other. An edit of
a motion deleted meanwhile fails: the insertion Django would make names the room deleted with the
motion, and `on_chat_room_requested` refuses such a link. The same holds for tasks and documents.

### Citizens

One action per statement of `count_citizens` that commits, for each loop the objects loaded at
its start (`loaded`), because the command saves whole profiles. Of a profile only the reputation
is modelled. A neutral rating is no rating. `Skip` passes over a candidate whom somebody else has
activated since. What `dodaj` commits after it has deactivated the new account belongs to that step
here (`Deactivate`) and is taken apart in `Accounts`. Requests may overlap the command for the kinds in
`Overlapping`, else they run between two runs. `firm` (who met the bar when the run began and was
not rated down since, and the candidate the run has admitted first) and `admitted` are history
variables.

### NotificationQueue

All keys of the queue but the stream belong to a pair of member and room, and pairs do not
interact; so one pair is modelled. A worker is a program counter that goes through
`deliver_due_chat_notifications` (labels *start* to *releaseDue*) and then through the jobs it has
fetched (*next* to *ack*), one step per Redis command that writes; what the holder of the lock
reads in a row is one step with the command that follows. `stream` holds the state of each job in
the consumer group, `idle` those that `XAUTOCLAIM` may claim; `delivered` and `deferred` are the
markers; `cooldown`, `pendingJob` and `delayed` are the keys of the pair. A delivery may raise
after it has reached some device or none. `unheard`, `quiet` and `silenced` are history variables.
A stopped process leaves its lock (`Orphan`) until it expires; no living one holds it for 120
seconds, and no push takes an hour. A worker that is stopped comes back under the same name.

### Tasks, Checklist, TaskPage

`Tasks`: votes, taking, resigning and reopening are one step each (`atomic`); approving and removing
helpers write one row and synchronise the phase in a second step; editing and closing save the task
as they loaded it. `PhaseFollows` compares the stored phase with what coordinator, votes and team ask
for once everybody who has written is done. `Checklist`: every request is one transaction; rows are
numbered among their siblings, and the mapping to the nested lists of `Outline` shows that numbers
and keys never decide what a user sees. `TaskPage`: a card or a page of details in one browser;
requests are handled and answered in any order and may be lost, another member votes meanwhile.
Left out: evaluations, edits of the text, popovers of voters (no template has their button), the
dialogs around subtasks, dragging them.

### Surveys, Bookkeeping, Resources, Board, Events

`Surveys`: a vote replaces the voter's rows, an own option is added in a transaction that reads first
and fails when it is late, an edit keeps options by text. `Bookkeeping`: a claim is read and write of
one transaction, every other request checks and writes apart, and an edit looks at the author in one
load of the row and takes the form from another (`BeginUpdate`, `LoadUpdate`, `Update`); categories and partners cascade, assets
are protected; the two reports are sums over the same ledger. `Resources`: whoever holds or wrote a
listing, who may hand it over, the unique names. `Board`: visibility and room of one document; a
message to an archived room restores the document in three steps; the commands that archive and expire.
Left out: attachments. `Events`: recurrence as an algorithm on a calendar with two slots to a day and
months of two to four days, so that the 29th to 31st are within reach; reminders of every minute.
A change of the clocks is left out, all times are local.

### ChatRoom, Messages, DirectRooms, DiscussionRooms, Federation, Push

`ChatRoom`: one reader, two tabs, the messages of the others; read rows, cached counter, registry of
the newest connection, dispatch in four steps. `Messages`: one message from both sides: the consumers
take turns at every call of the database, each tab has its wire, its inbox and a screen that shows
clicks before they are confirmed. Left out: counts of votes, lists of readers, broken connections.
`DirectRooms`: open_dm and the admission of a member look for a room and create it in two steps;
renaming, leaving, and the nightly command with the rows it has loaded. `DiscussionRooms`: rooms
made with their object, linked, renamed and deleted by signals, made in bulk, mended by a command,
joined by a new citizen in three steps; the inbox at each start. Left out: visibility and archiving
(`Board`), the clearing of old rooms (`DirectRooms`), rooms that members make for themselves.
`Federation`: two groups, secrets carried over by hand, a network that loses, delays and repeats, a
cache of nonces that forgets. `Push`: the rows of one browser's token for two members; every
statement of a registration is a step. Left out: kinds of devices, muted authors, other browsers.

### ChatView, Widget

`ChatView`: the tab of a telephone as the code keeps it (room wanted, asked for, joined), the queue of
`ReconnectingWebSocket`, the consumer's rooms at the other end; connections break at any moment and
answers come late or never. Left out: the panes of a wide screen, the preview of two seconds, drafts.
`Widget`: the chat beside an activity: join, retry and redraw timers, one box for writing and editing,
uploads that take their time. Left out: votes, reactions, replies, anonymity, messages of files alone,
limits of length.

### Activity, Digest, FilteredList, Categories

`Activity`: a feed in a cache all members share, with invalidations before or after the change
or lost, marks and stars of one reader, clicks that overtake one another. Left out: sorting, types,
rows that share an object, several messages of a room, the second look into the cache. `Digest`:
the job of 08:00 with the profiles it has read, the marks, the settings page that saves whole
profiles, stops between mail and mark. Left out: wording, events to come, own messages, hidden rooms.
`FilteredList`: the filter of categories in three kinds of list, which differ in who changes the
address, with what `PagePrefs` keeps. Left out: sorting, searching, addresses typed by hand, other
windows, going forward. `Categories`: the dialog of one member and the requests of another. Left out:
descriptions, lengths, a dialog opened again (closing it loads the page).

### Arguments, Parameters, Scheduler, Notices

`Arguments`: add, edit and delete as requests with a check and a save; the notices of a new argument;
pages, lists, counts and the tile as operators. Left out: search, history page, unread marks, when a
decision is ripe (`Motion`). `Parameters`: two forms in two windows, the command in its own process
with the effects it has read, every file that is written and erased, the icons, the site's name and
its cache in each process. Left out: how a motion is approved and the order of effects (`Motion`),
sizes and formats of pictures, deletion of propositions. `Scheduler`: processes of the kinds that may
schedule or not, the file lock, jobs due at every tick or once in a few, `_db_lock`. Two commands
stand for six; left out: the announcement of events (`Events`), misfires after a suspended machine.
`Notices`: the queries for each channel one by one, threads that end with the process, settings saved
as a whole. Left out: wording, icons, browsers (`Push`), messages of the chat, other mail, the claim
on updates of documents.

### Accounts, Presence, CommunityMap

`Accounts`: sign-up, proposal, confirmation, onboarding and changes as requests with steps; allauth's
table of addresses is external, as the code uses it; the command that normalises addresses and the
log-in are operators; of a proposal (`dodaj`) the account, its deactivation, the profile and the
address are four commits. Left out: passwords, user names, ratings (`Citizens`), expired links.
`Presence`: `record_presence` with its conditional update and retry, its broadcast as a second step, a
page that watches, `last_seen` with its throttle key, by requests that know of the account what
they have loaded, and whole saves of the account that may bring it back; the boundaries of green and yellow. Left out:
wording, popovers, the throttle of the browser (a sign comes at any time). `CommunityMap`: requests
step by step through `_cached_search` and `_wait_for_nominatim_slot`, with the geocoder off, on or
misconfigured; a request that fails counts as an answer without entries, as in the code. Left out: the map in the
browser, texts of addresses; the parsing of an answer is reduced to whether its entries fit, are the
centre and are the very house.

## 3. Runs

A project of this size has many small models, so some runs check several of them at once: the
variable `part` says which one a behaviour belongs to, the variables of the others stay at their
initial value, and a conjunct of an invariant or a disjunct of the next-state relation that belongs
to a part is guarded by `part`. Such a run explores the disjoint union of the parts' state spaces; it
does not combine them, and nothing is claimed about combinations. `MCSite`, `MCChat` and `MCVoting`
leave the constants of their parts open; the cfg gives them their values, and the theorems about a
part are about these modules with any values.

| run | instance | shows |
|---|---|---|
| `referendum_durable` (`MCVoting`) | two citizens, three requests, durable Redis, 2 request faults, 1 command fault, 2 windows; and the parts arguments, parameters, scheduler, rooms, notices, accounts, presence, map | the referendum's invariant, faithful tally, no vote given up, refinement of `Ballot`; `SurroundingsInvariant` and `MembersInvariant`, the invariants of the parts |
| `referendum_faults` | 1 request fault, 1 command fault, 2 restarts of Redis, one request that is open when the window ends; fairness | true answers, losses noticed, all requests answered, referendums end, buffers are emptied |
| `motion_orderly` (`MCMotion`) | no overlap, 2 people: 2 laws and 1 failed run of the command; 2 parameter motions and a missed day | counter, history, stages, freeze, term, text, decisions in order |
| `motion_overlap` (`MCMotion`) | 2 laws whose edits and deletions overlap everything; a law and a parameter motion, a command that fails and an author who leaves; fairness | what is voted on is fixed whatever overlaps; motions end unless they name a deleted one |
| `citizens_firm` (`MCCitizens`) | 3 people of whom one may leave, 4 people with acceptance 2; and the parts feed, digest, page of a task, filtered list, categories, chat beside a page | admissions cost no citizen the membership, no outsider's rating counts, lawful deletion; `PagesInvariant`, the invariants of the parts |
| `citizens_live` | 2 people, every kind of request overlaps, 1 crash, departures; fairness | membership settles, good candidates get in |
| `site` (`MCSite`) | one task, checklist, survey, ledger, listings, document, event | `PhaseFollows`, `ListedOnce`, `ImplementsOutline`, `BoardInvariant`, `FiguresInvariant` (the order of a checklist, the calendar, the two reports of the book), and `RequestsAreFair` for surveys, ledger and listings |
| `chat` (`MCChat`) | the queue: 1 worker (the deployment runs one), 3 messages, 1 opening, 1 crash, 1 failed push, with fairness; one reader's room, rooms of two for three people, two groups, a telephone, one message with two members, one browser with two members | the lock excludes, one push an hour, pushes are timely, every message is heard of; the invariants of the other parts |

Bounds. Two of everything that can conflict (two requests, two tabs, two windows of a form, two
processes) and three where two must have someone between them (three accounts, three people in
`DirectRooms`, three requests in `Surveys`); of each fault one, at every point, two where the second
one meets the recovery from the first. Two windows of a referendum are the voting and its repetition.
Groups are below, at and above twice the acceptance. The clocks of `Presence`, `CommunityMap` and
`Activity` count ticks that keep the order of the program's times and not their lengths. Larger values
were tried for each part on its own while it was written; those here are what all parts together
afford. Symmetry is used only where no temporal property needs the members apart.

Four runs end in a counterexample; each shows one disagreement between the code and what its
documents, comments or tests say (quoted under `findings` in `PROJECT.json`):
`referendum_loss_and_orphan` (a lost vote and an orphan cancel out in the count),
`motion_reverted` (an edit that overlaps the command changes a motion under discussion),
`citizens_crash` (a run that breaks off between an admission and its grants costs the founder the
membership) and `tasks_rejected_unlisted` (a rejected task whose votes change is on no tab).

A mutant per property - a dropped guard, an off-by-one, a wrong answer - is listed under `mutants`;
TLC finds each property violated by its mutant. Of an invariant that joins several parts one part has
a listed mutant; the conjuncts of the others were tried against errors of their own code in the same way.

## 4. Fairness

A request that runs goes on (the server executes its next statement; waiting for the lock ends
after `busy_timeout`); the command is started again and again and goes on once started (APScheduler
interval and cron jobs); days pass. The notification worker is a loop that its supervisor starts
again, a request that has the lock of a pair goes on, and the clock makes cooldowns, locks and idle
times end. Nothing else is fair: no request has to arrive, nobody has to
sign, rate, edit or come back, and faults need never happen. Liveness is checked by TLC only. What
the browser's parts promise "once everything is answered" is stated as an invariant of quiet states,
which needs no fairness.

## 5. Proofs

The theorems hold for every value of the constants that satisfies the assumptions in their
statement and the named `ASSUME`s of the module (bounds are numbers, sets of people are finite,
names of processes differ). Where a theorem has a further hypothesis, the code keeps its promise
only under it, and the table says which run or which row of section 6 shows what happens without.

| theorem | module | hypotheses | without them |
|---|---|---|---|
| `TypeCorrect`, `AnswersAreHonest` | `ReferendumProofs` | none | |
| `FaultInvariantHolds`, `VotesAreAlwaysKept` | `ReferendumProofs` | `~MayOverlap`: the command does not run while requests are late | section 6, `vote.py:179` |
| `InvariantHolds`, `TallyIsFaithful`, `NobodyCountsTwice`, `ReferendumImplementsBallot` | `ReferendumProofs` | `~MayOverlap`, `MaxRedisRestarts = 0` | `referendum_loss_and_orphan` |
| `VotersAlwaysKnowTheText` | `MotionProofs` | none | |
| `CountIsRight`, `TextStaysFixed` | `MotionProofs` | `Overlapping = {}` | `motion_reverted` |
| `TypesHold` | `MotionProofs` | none | |
| `MotionInvariantHolds` | `MotionProofs` | `Overlapping = {}` | section 6, `views.py:141`, `views.py:152` |
| `StagesAreAlwaysEarned` | `MotionProofs` | `Overlapping = {}`, `MaxMissed + MaxFailures <= 1` | section 6, `views.py:186`, `vote.py:158` |
| `LatestDecisionAlwaysRules` | `MotionProofs` | `MaxFailures = 0`, whatever overlaps | section 6, `vote.py:29` |
| `TypesHold` | `CitizensProofs` | none | |
| `DeletionsAreLawful` | `CitizensProofs` | `Overlapping = {}`, whatever breaks off | section 6, `count_citizens.py:247` |
| `CitizensInvariantHolds`, `FirmAreAlwaysSpared` | `CitizensProofs` | `Overlapping = {}`, `MaxCrashes = 0` | `citizens_crash`; section 6, `count_citizens.py:216` |
| `TypesHold`, `PhaseAlwaysFollows`, `TasksAreListedOnce` | `SiteProofs` | none | |
| `BoardInvariantHolds` | `SiteProofs` | founders are citizens (`Admitted`) | |
| `SurveysAreFair` | `SiteProofs` | finitely many texts, room for two options (`Counted`) | |
| `ListingsAreFair` | `SiteProofs` | no member is called like the community or nobody, bounds are numbers (`NamesDiffer`) | |
| `LedgerIsFairToAuthors` | `SiteProofs` | no treasurer is called like nobody, bounds are numbers (`Treasury`) | |
| `RequestsAreAlwaysFair` | `SiteProofs` | `Counted`, `Treasury`, `NamesDiffer` | |
| `TypesHold`, `MutualExclusionHolds`, `OncePerHourHolds` | `NotificationQueueProofs` | none | |
| `QueueInvariantHolds` | `NotificationQueueProofs` | one worker | section 6, `notification_queue.py:116` and `:19` |
| `PushesAreAlwaysTimely` | `NotificationQueueProofs` | `IsFiniteSet(Workers)`, for `Cardinality` to mean something | |
| `FederationInvariantHolds` | `ChatProofs` | two groups, `MaxCopies \in Nat` (`TwoGroups`) | |
| `DirectRoomsInvariantHolds` | `ChatProofs` | finitely many people, `MaxRooms \in Nat` (`FewPeople`) | |
| `ChatInvariantHolds` | `ChatProofs` | no tab is called like none | |
| `PushInvariantHolds` | `ChatProofs` | budgets are numbers (`BudgetsAreCounts`) | |
| `ChatViewInvariantHolds` | `ChatProofs` | no room is called like none | |
| `SchedulerInvariantHolds` | `VotingProofs` | no process has the number of nobody, `LastDue \in Nat` (`Numbered`) | |
| `PresenceInvariantHolds` | `VotingProofs` | `LastSign \in Nat` | |
| `AccountsInvariantHolds` | `VotingProofs` | there is a first account, budgets are numbers (`Populated`) | |
| `MapInvariantHolds` | `VotingProofs` | no request has the number of nobody, `LastSecond \in Nat`, places and answers are lists of what they are made of (`Surveyed`) | |
| `MembersInvariantHolds` | `VotingProofs` | `Populated`, `LastSign \in Nat`, `Surveyed` | |

*Referendum.* The tally compares only numbers, so `TallyFaithful` is not inductive:
`ReferendumInvariant` adds who may hold the lock in which state (`LockInv`), that nobody votes while
the command closes (`ClosingInv`), that each recorded vote is in the store and each voter recorded
once (`VotesInv`), and what the command has seen (`ResultInv`). With it every step of `Referendum`
is a step of `Ballot` or none. When Redis may lose its data or requests break off much of that is
false, and two other invariants take its place. `HonestInv` needs no assumption: the window is over
when the command closes, a recorded vote is that of a request that was saved, and a request turns
back only from a citizen who has voted or is gone. `ScheduleInv` adds the lock to it, and `CountInv`
says what the number of entries still means: what Redis holds beyond the recorded votes belongs to
requests on their way unless one has broken off (`NoExtraInv`), nothing recorded is missing unless
Redis was restarted (`KeptInv`), and with neither the numbers match (`MatchInv`). From these follows
that a loss is always noticed and that no recorded vote is given up as long as nothing was lost.

*Motion.* `VotersAlwaysKnowTheText` holds whatever overlaps: an open request was made in an early
stage and only the command moves a motion on. With one request at a time no request is open between
two steps and the counter of a motion counts its set of signatures (`Orderly`, on the finiteness of
`People`); `Life` ties existence, the history and the effects still to come to the stage of a motion,
and to the signatures needed as long as no parameter motion has ended. That a stage is earned needs
in addition how far the dates of a motion have moved, which depends on the days the command has
missed (`Term`). `LatestDecisionRules` rests on `Lawful`: the effects that wait are those of closed
votes, each once, and the parameter decided on is that of the last one waiting, or the one in force.

*Citizens.* The sum of the ratings of a person is computed over a set of pairs; the first lemmas say
what adding or taking back one of them does to it. `Calm` says that without overlap no request is
under way and nobody is half signed up while the command runs; `Doomed` what holds of those whom a
loop has still to delete, which makes deletions lawful; `Heard` whose ratings may stand from loop to
loop (`Voices`), which is what `CitizensInvariant` needs while a blocked person's ratings are being
reset. `Spared` follows a firm citizen through the loops: the bar is met when the run begins, the
admission of somebody costs at most what `firm` was chosen to bear, and the recount comes before the
loop that blocks.

*Tasks.* Nothing is assumed: `Sound` adds to the types that a request to close a task closes it.
`PhaseFollows` is inductive with it. For `ListedOnce` one has to know that a task that is open and
has been tallied is not voted down (`NotVotedDown`).

*NotificationQueue.* Mutual exclusion is inductive by itself. One push an hour needs two more facts
(`LockInvariant`): a worker that is about to push has seen that the hour is over and it stays over
while the worker has the lock; and once something was pushed the cooldown runs, or the worker that
pushed still has the lock and is about to start it. Three lemmas say what a worker's step keeps
outside the lock, into it and inside it; each action is an instance of one. `QueueInvariant` rests on
`Sound` (who processes a job has one), `Sent` (whatever is marked, deferred or held has been sent,
and what is acknowledged has its marker) and `Kept`: as long as the member has not heard of a
message, a job without a marker is left other than the one the worker has just pushed, or the
deferred job is there and nobody is about to delete it. A second worker loses messages on the two
paths of section 6, so the theorem is for one, which is what the deployment runs. `OpeningSilences`
holds for any workers: a deferred job is *spent* (acknowledged, or on its way to be), no job is with
two workers (`HeldOnce`), so no dropped job is decided on again (`Silent`). `NewestIsPushed` says
something of one worker only: `Newest` follows the order of the stream, from the acknowledged jobs
through the batch to the jobs to come, and that the deferred job is the newest of the acknowledged.

*Rooms of two.* `OneRoomPerPair` rests on what a request knows that looks for a free title (`Tried`):
the titles before the one it tries are taken, and if the pair has a room by now that the request has
not seen, the title tried next is taken too, so it creates no second one. That fails for a pair that
was sought while somebody took a new name or a room went (`blurred`). `VisitFits` says what the rows
that the nightly command has loaded have in common with the rows that are there, for it saves the
former; `Company` that nobody who is gone is a member, and that a room with one member, or with one
who is leaving, was opened after the clean-up of the one who left or leaves (`late`).

*Reader of a room.* The mark of a message is cleared for the readers that are away in a step of the
dispatch of its own, so `NothingPasses` speaks of a message that was dispatched, or has passed the
marking with the reader seen away; `CountFits` says of the cached number that it was right when it
was cached or is marked as wrong, once no message is on its way. `ReadIsKnown` keeps what is read
within what was on a screen.

*Push.* Each statement of a registration is a step. `KeysOwned` gives every row one owner, row or not;
`DedupeComes` says that a member with two rows has a registration under way that will look for
them, unless a row came back that had gone; `Fits` describes, for each statement that is next, the
rows there are while no other registration overlapped (`Alone`), from which `owner` follows.

*Chat page.* `Newest` follows the wish from the waiting room through the join under way to the room
shown; `Links` connects the page with the server: the last join on its way is for the room the page
waits for or shows, or none is and the server holds the reader there; `Written` says that every
message on its way follows a join of its own room. `Still`, `Started` and `Freed` describe a page
that has asked for nothing, has asked for a room, or has given a join up; every handler ends in one
of them, and one lemma for each says what it keeps.

*Board, surveys, listings, ledger.* `BoardSound` adds to the properties the stage of each admission
(`greeting`) and what a pending request has loaded; a room set from an older state is `adrift` until
it is set again. In a survey nobody has two answers because the requests that are open were read
when one answer was allowed (`OneOnly`), and an option gets a place behind the last (`Ordered`).
Listings and ledger rest on what the open requests have checked (`Permitted`, `Checked`), which stays
true, or is marked stale: a claim that is not stale is of a row without an author (`ClaimsAreFresh`),
and whoever has an edit of a row open is its author (`AuthorsUpdate`, `LoadedAsChecked`), unless an edit
that outlived the account of its own author has erased it (`orphaned`, see section 6).

*Federation.* `AtMostOnce` is inductive: the unique number is looked up in the step that stores.
That what appears was written, after both groups have set up the room, needs the way it came:
nothing is delivered that was not written and no request goes out unsigned (`GroupsSent`), a secret
expected is one the other group has generated (`SecretsAreKnown`), and what passed the check of the
signature keeps both while it waits to be stored (`GroupsReceived`), whatever the settings become. The
nonces play no part in it.

*Scheduler.* `OneScheduler` is inductive, since the lock file is taken only from nobody. That commands
run one at a time follows from two facts more: a running command has the lock of its process
(`JobsLocked`), and jobs are those of a process that schedules or is stopping (`JobsOwned`). For
`OnceADue` one has to know that what waits has not been begun and waits in one process only, and that
nothing is begun before it is due (`JobsFresh`).

*Presence.* No time that is stored, told, read or held by a saver is newer than the newest sign
(`NothingNewer`), and the newest is on the page, in its inbox or about to be told, unless the page
missed it or was overtaken (`Told`). That a session which outlives the account does not write
`last_login` (`NobodyGoneIsSeen`) is a matter of times: `farewell` says when the account, or a request
that had found it active, was last there, and no step writes a later one.

*Accounts.* Two accounts share an address only if each was looked for before the other had it: for
that `LookedBefore` compares, per account and address, when the address was last looked for
(`checked`) with when the other account came by it (`since`), also for the requests that have looked
and not yet written. A larger instance than that of the run had refuted an earlier statement, which
kept one time of looking per account; the histories are the outcome. `VouchedFor` says of a
proposed account how far the request that proposed it is. `VerifiedRows`, `CanConfirm`
and `FormsStored` follow an address, a link and a form from request to row, `SigningUp` keeps two
requests from one new account. The command that normalises addresses gives a set of rows; the lemmas
`OneIsWritten` and `WrittenIs` say that what it writes has a row for every row it read and no new ones.

*Map.* The slot of the service: of the requests that may be past the lock only the owner's value is
in it and has not run out, unless somebody outlived his lock (`OneHolds`), so the interval is
kept. What a request has resolved was answered to somebody (`GoesBy`), answers with a house have it
(`AnswersAreExact`), and a request that is done has resolved every location of its list. The next
location is the first unresolved one, and that there is a first needs the order of the numbers: the
lemma `Least` gets it from the library's theorem on minimal elements, which takes no operator.

Each property that a theorem states is also checked by TLC in the run that names it.

What stays with TLC. Liveness under fairness, which the prover cannot reason about:
`ClosesUnlessDangling`, `Settles`, `EligibleAreAdmitted`, the liveness properties of the referendum
(that results come, buffers are released and requests answered) and of the queue (`Heard`). What
folds and sorting compute for every input, for which the induction over the data is missing: the
refinement of `Outline` by `Checklist` (the one counts with a fold, the other sorts its rows with
`SetToSortSeq`), the calendar and the sums of the book (`FiguresInvariant`), and the pages of
arguments in `SurroundingsInvariant`, whose scheduler is proved. And the invariants that are only
model-checked because their proofs are not written: `MessagesInvariant`, `PagesInvariant`, and of
`SurroundingsInvariant` parameters, rooms of discussions and notices.

## 6. Known limits of the code

The passing runs choose constants under which the code keeps what it promises. Other constants
show where it does not; each of the following was seen in a counterexample while the models were
written, and every one is a consequence of the same actions that the passing runs check.

| where | what happens | how to see it |
|---|---|---|
| `glosowania/views.py:276` | a push whose transaction does not commit leaves an entry; the numbers differ and the voting restarts although no vote was lost | `Referendum`, one request fault: a restart with no Redis restart before it |
| `commands/vote.py:232` | the buffer of a referendum that another motion abolishes stays in Redis for ever | `Referendum`, `status = "abolished"`, `Store` stays |
| `commands/vote.py:179` | the command, run by hand while late requests are under way, misses their entries: they stay in the buffer, or hide a lost vote | `MayOverlap = TRUE`: `BufferReleased`, `LossesAreNoticed` |
| `glosowania/views.py:152` | a signature given while an edit is under way drops out of the counter | `Overlapping = {"edit"}`: `SignaturesAreCounted` |
| `glosowania/views.py:141` | of two edits that overlap the first is in no version | two overlapping edits: `HistoryIsComplete` |
| `glosowania/views.py:186` | a deletion that overlaps the command deletes a motion under discussion | `Overlapping = {"delete"}`: `Stages` |
| `commands/vote.py:123` | a wording saved in the first hours of a day (local time) is frozen one day only | `settled[m] >= Freeze` in place of `Freeze - 1` in `DiscussionIsEarned` |
| `commands/vote.py:120` | a parameter motion changes the signatures needed by motions proposed earlier, though the user guide speaks of new ones | compare `required` at `Propose` and at `Discuss` |
| `commands/vote.py:158` | after missed days the voting opens late and ends on time | `MaxMissed = 2`: `FullTerm` |
| `commands/vote.py:29` | the retried effect of an older decision overwrites a newer one | `MaxFailures = 1` with two parameter motions: `LatestDecisionRules` |
| `commands/vote.py:232` | an approved motion that names a deleted one is never closed | drop `Dangling` from `ClosesUnlessDangling` |
| `commands/count_citizens.py:137` | the bar is read once per loop: the second candidate admitted by a run may be blocked by the same run | let `firm` take every admitted candidate in `Admit` |
| `obywatele/views.py:427` | a new account counts for the bar until it is deactivated | `Overlapping = {"signup"}`: `FirmAreSpared` |
| `obywatele/views.py:644` | a profile saved with an old reputation has its owner blocked | `Overlapping = {"profile"}`: `FirmAreSpared` |
| `commands/count_citizens.py:216` | a rating under way while its author is blocked survives the reset | `Overlapping = {"rating"}`: `OnlyCitizensRate` |
| `commands/count_citizens.py:247` | a deletion cancelled during the loop happens all the same | `Overlapping = {"cancel"}`, two leavers: `LawfulDeletion` |
| `commands/count_citizens.py:111` | the command saves whole profiles over the edits their owners made during its loop | not modelled further |
| `obywatele/forms.py:98` | a username change that overlaps the deletion of the account inserts it again | `Overlapping = {"username"}`: `SaveUser` of a removed person |
| `chat/notification_queue.py:116` | a deferred job of a worker that stops, claimed again, replaces a newer one and is then dropped because it has been pushed | `NotificationQueue`, two workers, one crash: `NothingIsLost` |
| `chat/notification_queue.py:19` | a job that a slow worker still processes is claimed by another one; the same loss without a crash, and a push after the room was opened | two workers, `MaxSlow = 1`: `NothingIsLost`, `OpeningSilences` |
| `chat/notification_queue.py:116` | after a failed push the old job, tried again, replaces a newer deferred one | drop `Faultless'` from `PushesNewest` |
| `chat/notification_queue.py:118` | deferred jobs are acknowledged before they are delivered, though `docs/DEPLOYMENT_INSTRUCTIONS.md:304` says only after | any state with a job acknowledged and not in `delivered` |
| `chat/notification_queue.py:191` | the opening of a room gives up after a second while a push is under way; the deferred job is pushed later | `OpenRoom` with `lock # Free` |
| `zzz/scheduler.py:136` | a stopping scheduler gives its lock back without waiting for the commands it has started, and another process may run the same command | `Scheduler`, a state after `Stop` with a command still running |
| `bookkeeping/views.py:1052` | the author is looked at in one load of the transaction and the form is of another: an edit whose author's account is deleted between the two writes the row without author, over whoever has claimed it | `Bookkeeping`: drop `Erased(k)` from `AuthorsDecide` |
| `obywatele/forms.py:353` | the address is compared with the accounts there are, and no constraint keeps a second one out; by-email login then finds neither | two sign-ups that overlap |

## 7. Disagreements noticed

What a comment, a docstring or a page of the documentation says and the code does not do, beside
the three that have a run of their own (`referendum_loss_and_orphan`, `citizens_crash`,
`tasks_rejected_unlisted`), and the ends of races that were met while the models were written. They
were read in the code, not searched for; the models contain the steps that lead to most of them.

*Connections and chat.*
- `chat/consumers.py`: `connect` registers the consumer before it sets `rooms`; a message in
  between raises `AttributeError` and the recipients after it get nothing.
- A room that `deactivate_federated_room` archives is opened again by the nightly `chat_rooms`
  command when its last message is recent. That command's loop over the members of a private room
  goes on after it deleted the room for one of them, and the next member's save inserts it anew.
- "Mark one message read" adds its reader to `room.seen_by`, which makes every message of the room
  read (`_unread_messages` leaves out rooms seen); a new message clears the marks of all messages of
  the room for those not there, read ones too (`chat/notifications.py:81`), though the docstring of
  `_unread_messages` speaks of messages "the user has not marked as read".
- "Last tab" in the comments, the newest connection in the registry.
- An edit of attachments only broadcasts the text as it was read; vote counts and "read by" are
  broadcast in the order of the requests' ends; a link preview may answer for the text before the edit.
- `ReconnectingWebSocket.close()` does not stop a reconnect that is already due. A request refused
  after 15 s in `sendJsonAsync` (or marked failed after 10 s) may still be sent on reconnect.
- `chat.js`: the error path at line 174 does not look at the generation; two reconnects in a row
  take the reader from the list to the room; a message written offline is lost when the room is
  changed; after a failed join a click on the same room does nothing.
- Message list: up, down, up before the first answer leaves the button released over a stored
  downvote; `your_reactions` is never in a batch; a message created before the batch and broadcast
  after it is shown twice; editing back to the first text while an edit is under way sends nothing.
- Small widget: a message sent just before the connection breaks is lost without notice; a join
  answered after 15 s joins twice; text typed while files upload is wiped; Enter during the upload
  sends twice; any confirmed edit wipes what was typed since.

*Push, activity and digest.*
- Two registrations of one token delete each other's rows (`push_api.py:77`); logging out leaves the token active.
- A double click on the read toggle takes two off the badge; an older bookmarked decision changes
  a badge that never counted it; memberships made in bulk, and ageing, do not drop the cached page.
- A row stamped before a digest was built and committed after it is in no digest. Whole-profile
  saves put an old `last_email_digest_at` back, and a subscription that was cancelled. A crash
  between the mail and the save sends it twice; an exception ends the run for everybody after.
- `unsubscribe_user_notifications` ("disable all subscription notifications") leaves
  `push_notifications_bookkeeping` on; `important_post_published` ("notify all active users")
  sends nothing for a new post. Notices sent by daemon threads are lost when the process stops.

*Tasks, lists, categories.*
- A refused vote (403) is shown as a withdrawn one with "Votes: undefined"; the page reloads on a
  change of phase of its first card only; an approved helper who votes again is shown as pending; a
  refused subtask toggle reverts over a relative's newer answer.
- `_task_tab_counts` (`tasks/views.py:112`) speaks of counters that follow the filter; they are not
  refreshed. Answers that come out of order leave the older list and address; Back changes the
  address and not the list.
- A category added is shown last and stored with order 0; `CategoryEditAPI` does not look at
  `is_protected`; the bookkeeping's delete checks, then cascades over bookings filed in between.

*Accounts and presence.*
- The account of a sign-up is active while its confirmation mail is sent; a failed mail is only
  logged, and a second sign-up is refused. `onboarding_details` and `UsernameChangeForm` save whole
  accounts, over an acceptance or a confirmed address. A double click on `request_deletion`
  publishes the feedback twice.
- The 15-minute timer of an idle tab and the messages it receives count as activity;
  `PushNotificationAckView` ("no side effects beyond logging") records presence; what is told while a
  page is not connected is never asked for again.

*Rooms, parameters, scheduler, map.*
- `add_citizen_to_public_rooms` lists the rooms first: one deleted in between leaves the newcomer
  in none. `ensure_system_rooms` takes over any room titled like a system room.
- The form of parameters posts every one, so a parameter changed while it was open is proposed to
  be changed back. The scheduler is a process of its own, so "without an application restart" in
  `_sync_django_site` does not hold for the web process. `apply_brand_mark` leaks the first copy
  of the logo; a regeneration stopped midway leaves icons of two logos.
- `run_scheduler` runs `update_site` outside any lock; a process that found the lock taken never
  asks again; missed daily runs are not made up; `zzz/apps.py` says every 10 minutes, the code every 5.
- An edit in flight inserts a deleted argument again; the dashboard counts referendums whose
  author is gone, though no list shows them; `historia` labels a version with the person of the next.
- The slot of the map service is reserved before the request is sent, so two may be closer than the
  "at most one per second" of `DEPLOYMENT_INSTRUCTIONS.md:496`; overlapping requests ask twice.
- `monthly_ordinal` ignores the start date; a survey whose `multiple` is switched off keeps the choices.

## 8. Not modelled

- Migrations, fixtures, translations, scripts and the end-to-end tests: no state of a running system.
- The pages that only read (directory, history, dashboard), the wording and layout of mails and pages.
- Two `vote` commands at once: the scheduler runs one at a time, and by hand the transaction decides.
- The code a voter keeps: its uniqueness rests on randomness. A change of the acceptance rule while
  people wait, and the clean-up of accounts that share an address.
- In the notification queue, the expiry of pending jobs (two hours) and of markers (a week), the
  trimming of the stream, and Redis restarts; a run in which a day is a tick has no such lengths.
- What a single section of part 2 names as left out.

Liveness under fairness, and everything about recursive definitions, stays with TLC. So does the
refinement of `Outline` by `Checklist`: the one counts its points with a fold, the other sorts its
rows with `SetToSortSeq`, and what either returns for every input takes an induction over the data.

## 9. Plan

1. Done: the votings, motions, membership, tasks and the notification queue, with the proofs above.
2. Done: the parts that were listed as next and the rest of the program (part 2), the invariants
   of parts that share instances in `MCVoting`, `MCCitizens`, `MCChat` and `MCSite`.
3. Done: the invariants of the parts that share instances and look inductive with what their requests
   know: rooms of two, reader, pushes, chat page, board, surveys, listings, ledger, accounts, presence
   and map, with the scheduler and the federation (section 5).
4. Not done: `Messages`, the pages (`Activity`, `Digest`, `TaskPage`, `FilteredList`, `Categories`,
   `Widget`), `Parameters`, `DiscussionRooms` and `Notices` are model-checked only.
