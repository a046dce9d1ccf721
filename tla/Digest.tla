-------------------------------- MODULE Digest --------------------------------
(***************************************************************************)
(* The mailed digests of one member: the job of 08:00,                     *)
(* send_email_digest, against what is posted and what the member chooses   *)
(* meanwhile.                                                              *)
(*                                                                         *)
(* A digest covers what has happened since the last one, and the last one  *)
(* is remembered by the moment its run began.  The run works on profiles   *)
(* read at its beginning; the settings page saves whole profiles as it has *)
(* read them.                                                              *)
(*                                                                         *)
(* Left out: the wording, events to come, the member's own messages, rooms *)
(* the member may not see, and runs started by hand while one is going     *)
(* (those of the scheduler wait for each other).                           *)
(***************************************************************************)
EXTENDS Naturals

CONSTANTS Kinds,  \* of activity, each with its provider of feed items
    Days,         \* how many days the periods of the frequencies last
    Budgets       \* how many days, posts, changes, choices and faults there are

VARIABLES
    now,          \* the clock: it moves when anything takes a stamp
    day, eight,   \* the day, and when 08:00 of each day was; FALSE before it
    early,        \* it is not 08:00 yet
    posted,       \* what the providers can see
    writing,      \* stamped, and not committed yet
    profile, form,\* the member's settings, and a settings request under way
    run,          \* the run under way
    told,         \* history: what has been in a digest
    wanted,       \* history: the frequency the member chose last
    muddled,      \* history: choices have overlapped
    mailed,       \* history: when the run began that mailed last
    mayMiss, mayRepeat, wrong, left

clock == <<now, day, eight, early>>
member == <<profile, form, wanted, muddled>>
history == <<told, mailed, mayMiss, mayRepeat, wrong>>
vars == <<clock, posted, writing, member, run, history, left>>

Spend(what) == left[what] > 0 /\ left' = [left EXCEPT ![what] = @ - 1]
Stamp == now' = now + 1 /\ UNCHANGED <<day, eight, early>>
None == [frequency |-> "never", off |-> TRUE, mark |-> 0]
NoRun == [does |-> "nothing", at |-> 0, profile |-> None, items |-> {}]
NoForm == [does |-> "nothing", profile |-> None, choice |-> "never"]

-----------------------------------------------------------------------------
(* The days                                                                *)

Midnight ==
    /\ ~early /\ Spend("days")
    /\ day' = day + 1 /\ early' = TRUE
    /\ UNCHANGED <<now, eight, posted, writing, member, run, history>>

Eight ==
    /\ early /\ early' = FALSE
    /\ eight' = [eight EXCEPT ![day] = now] /\ now' = now + 1
    /\ UNCHANGED <<day, posted, writing, member, run, history, left>>

\* The periods of every frequency begin at 08:00 of their first day.
First(frequency) == day - (day % Days[frequency])

_is_digest_due(p) ==
    /\ p.frequency # "never"
    /\ ~(early /\ First(p.frequency) = day)
    /\ p.mark < eight[First(p.frequency)]

-----------------------------------------------------------------------------
(* Activity                                                                *)

\* The stamp is taken before the row is written, which may have to wait.
Post ==
    /\ Spend("posts") /\ writing = {} /\ Stamp
    /\ \E kind \in Kinds : writing' = {[kind |-> kind, at |-> now]}
    /\ UNCHANGED <<posted, member, run, history>>

\* Messages, arguments and activities of citizens stay as they are; votes, tasks, decisions, documents,
\* surveys and transactions get a new stamp with every change.
Change ==
    /\ Spend("changes") /\ writing = {} /\ Stamp
    /\ \E item \in posted :
         /\ item.kind # "message"
         /\ posted' = posted \ {item}
         /\ writing' = {[item EXCEPT !.at = now]}
    /\ UNCHANGED <<member, run, history>>

Commit ==
    /\ writing # {}
    /\ posted' = posted \cup writing /\ writing' = {}
    /\ UNCHANGED <<clock, member, run, history, left>>

room_messages(since) == {item \in posted : item.kind = "message" /\ item.at >= since}

\* Tasks somebody works on are offered whatever their age.
tasks(since) == {item \in posted : item.kind = "task"}

decisions(since) == {item \in posted : item.kind = "decision" /\ item.at >= since}

collect_feed_items(since) == room_messages(since) \cup tasks(since) \cup decisions(since)

build_user_digest(since) == {item \in collect_feed_items(since) : item.at >= since}

-----------------------------------------------------------------------------
(* The run                                                                 *)

\* Profiles are read once, those without a frequency or unsubscribed are not.
Begin ==
    /\ Spend("runs") /\ run.does = "nothing" /\ Stamp
    /\ ~profile.off /\ _is_digest_due(profile)
    /\ run' = [run EXCEPT !.does = "build", !.at = now, !.profile = profile]
    /\ wrong' = \/ wrong
                \/ wanted = "never" /\ ~muddled /\ form.does = "nothing"
                \/ mailed >= eight[First(profile.frequency)]
    /\ UNCHANGED <<posted, writing, member, told, mailed, mayMiss, mayRepeat>>

\* People who want to join the member's teams, votes that end today and votes that were restarted.
Notices == BOOLEAN

\* What is stamped and not committed is missed; what came after the run began comes again.
Build ==
    /\ run.does = "build"
    /\ LET items == build_user_digest(run.profile.mark) IN
         /\ \E notices \in Notices :
              run' = [run EXCEPT !.does = IF items = {} /\ ~notices THEN "mark" ELSE "mail", !.items = items]
         /\ mayMiss' = mayMiss \cup writing
         /\ mayRepeat' = mayRepeat \cup {item \in items : item.at >= run.at}
    /\ UNCHANGED <<clock, posted, writing, member, told, mailed, wrong, left>>

\* Whether it arrives or not: errors of the mail server are not noticed.
Mail ==
    /\ run.does = "mail"
    /\ run' = [run EXCEPT !.does = "mark"]
    /\ told' = told \cup run.items /\ mailed' = run.at
    /\ wrong' = (wrong \/ ~(told \cap run.items \subseteq mayRepeat))
    /\ UNCHANGED <<clock, posted, writing, member, mayMiss, mayRepeat, left>>

Marked(p) == [p EXCEPT !.mark = run.at]

Mark ==
    /\ run.does = "mark"
    /\ profile' = Marked(profile) /\ run' = NoRun
    /\ UNCHANGED <<clock, posted, writing, form, wanted, muddled, history, left>>

\* What was in a digest since then may come again, and another one in the same period.
Forgotten(mark) ==
    /\ mayRepeat' = mayRepeat \cup {item \in told : item.at >= mark}
    /\ mailed' = 0

\* Stopped, or failed while it put the digest of somebody together.
Crash ==
    /\ Spend("faults") /\ run.does # "nothing"
    /\ run' = NoRun /\ Forgotten(profile.mark)
    /\ UNCHANGED <<clock, posted, writing, member, told, mayMiss, wrong>>

-----------------------------------------------------------------------------
(* The settings                                                            *)

\* A frequency is chosen, or something else on the page that may lift the unsubscription.
toggle_notification ==
    /\ Spend("choices") /\ form.does = "nothing"
    /\ \E choice \in DOMAIN Days \cup {"never", "other"} :
         form' = [does |-> "save", profile |-> profile, choice |-> choice]
    /\ UNCHANGED <<clock, posted, writing, profile, wanted, muddled, run, history>>

clear_notifications_unsubscribe(p) == [p EXCEPT !.off = FALSE]

Chosen(p, choice) ==
    IF choice = "other" THEN clear_notifications_unsubscribe(p)
    ELSE IF choice = "never" THEN [p EXCEPT !.frequency = choice]
    ELSE clear_notifications_unsubscribe([p EXCEPT !.frequency = choice])

\* The whole profile goes back, the mark of the last digest with it.
Save ==
    /\ form.does = "save"
    /\ profile' = Chosen(form.profile, form.choice)
    /\ form' = NoForm
    /\ wanted' = IF form.choice = "other" THEN wanted ELSE form.choice
    /\ IF form.profile.mark = profile.mark THEN UNCHANGED <<mailed, mayRepeat>>
       ELSE Forgotten(form.profile.mark)
    /\ UNCHANGED <<clock, posted, writing, muddled, run, told, mayMiss, wrong, left>>

unsubscribe_user_notifications ==
    /\ Spend("choices")
    /\ profile' = [profile EXCEPT !.frequency = "never", !.off = TRUE]
    /\ wanted' = "never" /\ muddled' = (muddled \/ form.does # "nothing")
    /\ UNCHANGED <<clock, posted, writing, form, run, history>>

-----------------------------------------------------------------------------
Init ==
    /\ now = 2 /\ day = 0 /\ eight = [d \in 0..6 |-> 0] /\ early = FALSE
    /\ posted = {} /\ writing = {} /\ told = {} /\ mayMiss = {} /\ mayRepeat = {} /\ mailed = 0
    /\ \E frequency \in DOMAIN Days : profile = [frequency |-> frequency, off |-> FALSE, mark |-> 1]
    /\ wanted = profile.frequency
    /\ form = NoForm /\ run = NoRun
    /\ muddled = FALSE /\ wrong = FALSE
    /\ left \in Budgets

Next ==
    \/ Midnight \/ Eight
    \/ Post \/ Change \/ Commit
    \/ Begin \/ Build \/ Mail \/ Mark \/ Crash
    \/ toggle_notification \/ Save \/ unsubscribe_user_notifications

-----------------------------------------------------------------------------
(* Properties                                                              *)

\* What has been posted before the last digest has been in a digest, whatever
\* was missed or fell out before: days without a run, runs that stop, other
\* frequencies, times without any.  Only what was being written while the
\* digest was put together is lost.
NothingIsMissed == \A item \in posted : item.at < profile.mark => item \in told \cup mayMiss

\* A member who wants none is sent none, there is one digest in a period, and
\* what was in one comes again only if it was posted while that one was made,
\* or if the mark of the digest was lost to a crash or an older profile.
DigestInvariant == NothingIsMissed /\ ~wrong
=============================================================================
