------------------------------- MODULE Motion -------------------------------
(***************************************************************************)
(* The life of a motion (Decyzja), the glosowania app: somebody proposes   *)
(* it, edits it, people sign it (glosowania/views.py); the daily vote      *)
(* command moves it through discussion and referendum to its end, and      *)
(* applies the parameters an approved motion proposes                      *)
(* (management/commands/vote.py).  How the votes of one referendum are     *)
(* stored and counted is the subject of Referendum; here its result is an  *)
(* arbitrary one.                                                          *)
(*                                                                         *)
(* Signing, withdrawing and the processing of one motion are transactions. *)
(* The editing and the deletion of a motion are not: they check a motion   *)
(* loaded earlier.  Dates are days relative to today, capped where the     *)
(* code no longer tells them apart.                                        *)
(***************************************************************************)
EXTENDS Integers, FiniteSets, Sequences

CONSTANTS
    Motions, People,
    Proposes,        \* the required signatures a motion proposes; 0: it is no parameter motion
    Required,        \* wymaganych_podpisow at the start
    SignatureDays,   \* czas_na_zebranie_podpisow
    DiscussionDays,  \* dyskusja
    ReferendumDays,  \* czas_trwania_referendum
    Leavers,         \* people whose account may be deleted
    Overlapping,     \* kinds of request that may span other steps
    MaxEdits,        \* bound: edits saved
    MaxOpens,        \* bound: requests that span other steps
    MaxMissed,       \* bound: days without a run of the command
    MaxFailures      \* bound: failures of a step of the command

ASSUME SetsAssumption ==
    /\ IsFiniteSet(People) /\ Leavers \subseteq People
    /\ Proposes \in [Motions -> Nat]
    /\ Overlapping \subseteq {"edit", "delete"}

ASSUME ParametersAssumption ==
    /\ Required \in Nat \ {0} /\ SignatureDays \in Nat \ {0}
    /\ DiscussionDays \in Nat \ {0} /\ ReferendumDays \in Nat \ {0}
    /\ MaxEdits \in Nat /\ MaxOpens \in Nat
    /\ MaxMissed \in Nat /\ MaxFailures \in Nat

VARIABLES
    members,     \* people with an account
    \* the motion
    exists, author, status,
    text,        \* which edit the wording is from, 0 for the original
    abolishes,   \* znosi: the motions it abolishes
    archive,     \* the wordings kept as DecyzjaWersja
    signed,      \* who has signed; the row of somebody who left stays
    count,       \* ile_osob_podpisalo
    gathered,    \* is data_zebrania_wymaganej_liczby_podpisow set?
    \* its dates
    age,         \* days since data_powstania
    sinceEdit,   \* days since the date of data_ostatniej_modyfikacji
    untilStart,  \* days until data_referendum_start
    untilStop,   \* days until data_referendum_stop, -1 when it is past
    \* the parameters and the effects of approved motions
    required,    \* SiteParameters.wymaganych_podpisow
    pending,     \* effects not yet applied, in the order of their rows
    \* the command, and requests under way
    phase, todo, effects, ranToday,
    open,        \* requests that have passed their checks
    \* history, for the properties
    settled,     \* days by the calendar since the wording last changed
    openDays,    \* days since the voting was opened
    wordings,    \* every wording the motion has had
    latest,      \* what the parameter motion approved last proposes
    \* counters for the bounds
    edits, opens, missed, failures

motionVars == <<exists, author, text, abolishes, archive>>
signVars   == <<signed, count, gathered>>
dateVars   == <<age, sinceEdit, untilStart, untilStop, settled, openDays>>
effectVars == <<required, pending, latest>>
runVars    == <<phase, todo, effects, ranToday>>
counters   == <<edits, opens, missed, failures>>
vars == <<members, motionVars, status, signVars, dateVars, effectVars, runVars,
          open, wordings, counters>>

Freeze == 2  \* DISCUSSION_FREEZE_PERIOD_DAYS

NoOne == "no one"
Deleted == "deleted"
NotYet == "not proposed"
Ended == {"rejected", "approved"}
Running == {"proposition", "discussion", "referendum"}
Statuses == {NotYet, Deleted} \cup Running \cup Ended

Init ==
    /\ members = People
    /\ exists = {} /\ author = [m \in Motions |-> NoOne]
    /\ status = [m \in Motions |-> NotYet]
    /\ text = [m \in Motions |-> 0]
    /\ abolishes = [m \in Motions |-> {}]
    /\ archive = [m \in Motions |-> {}]
    /\ signed = [m \in Motions |-> {}]
    /\ count = [m \in Motions |-> 0]
    /\ gathered = [m \in Motions |-> FALSE]
    /\ age = [m \in Motions |-> 0] /\ sinceEdit = [m \in Motions |-> 0]
    /\ untilStart = [m \in Motions |-> 0] /\ untilStop = [m \in Motions |-> 0]
    /\ required = Required /\ pending = <<>>
    /\ phase = "idle" /\ todo = {} /\ effects = <<>> /\ ranToday = FALSE
    /\ open = {}
    /\ settled = [m \in Motions |-> 0] /\ openDays = [m \in Motions |-> 0]
    /\ wordings = [m \in Motions |-> {}]
    /\ latest = Required
    /\ edits = 0 /\ opens = 0 /\ missed = 0 /\ failures = 0
-----------------------------------------------------------------------------
(* Web requests                                                            *)

(* What znosi may hold: numbers of existing motions (does_it_exist); a     *)
(* parameter motion has none.  A motion stays of its kind: edit sends      *)
(* parameter motions to the form of their own, parameters_propose is       *)
(* linked for them only, and does not look once more.                      *)
Targets(m) == IF Proposes[m] = 0 THEN SUBSET exists ELSE {{}}

(* The date a wording gets.  It is the date in UTC of the time of the save,*)
(* for the first hours of a day in Poland the day before.                  *)
Stamps == {0, 1}

Propose(p, m) ==
    /\ p \in members /\ status[m] = NotYet
    /\ exists' = exists \cup {m}
    /\ author' = [author EXCEPT ![m] = p]
    /\ status' = [status EXCEPT ![m] = "proposition"]
    /\ \E Z \in Targets(m) : abolishes' = [abolishes EXCEPT ![m] = Z]
    /\ \E d \in Stamps : sinceEdit' = [sinceEdit EXCEPT ![m] = d]
    /\ wordings' = [wordings EXCEPT ![m] = {0}]
    /\ UNCHANGED <<members, text, archive, signVars, age, untilStart, untilStop, settled,
                   openDays, effectVars, runVars, open, counters>>

(* The date is set once there are enough signatures.                       *)
Gathered(m) == gathered[m] \/ count'[m] >= required

MutantSign(p, m) ==
    /\ p \in members /\ m \in exists /\ status[m] = "proposition"
    /\ signed' = [signed EXCEPT ![m] = @ \cup {p}]
    /\ count' = [count EXCEPT ![m] = @ + 1]
    /\ gathered' = [gathered EXCEPT ![m] = Gathered(m)]
    /\ UNCHANGED <<members, motionVars, status, dateVars, effectVars, runVars, open,
                   wordings, counters>>

Sign(p, m) ==
    /\ p \in members /\ m \in exists /\ status[m] = "proposition"
    /\ signed' = [signed EXCEPT ![m] = @ \cup {p}]
    /\ count' = [count EXCEPT ![m] = IF p \in signed[m] THEN @ ELSE @ + 1]
    /\ gathered' = [gathered EXCEPT ![m] = Gathered(m)]
    /\ UNCHANGED <<members, motionVars, status, dateVars, effectVars, runVars, open,
                   wordings, counters>>

Withdraw(p, m) ==
    /\ p \in members /\ m \in exists /\ status[m] = "proposition"
    /\ p \in signed[m]
    /\ signed' = [signed EXCEPT ![m] = @ \ {p}]
    /\ count' = [count EXCEPT ![m] = @ - 1]
    /\ gathered' = [gathered EXCEPT ![m] = @ /\ count'[m] >= required]
    /\ UNCHANGED <<members, motionVars, status, dateVars, effectVars, runVars, open,
                   wordings, counters>>

MutantMayChange(p, m) == p \in members /\ m \in exists /\ author[m] = p

(* edit, parameters_propose and delete_proposal let the author of a        *)
(* proposition pass, and go on with the motion as they loaded it.          *)
MayChange(p, m) ==
    p \in members /\ m \in exists /\ author[m] = p /\ status[m] = "proposition"

Request(kind, p, m) ==
    [kind |-> kind, person |-> p, motion |-> m,
     text |-> text[m], count |-> count[m], gathered |-> gathered[m]]

Open(p, m) ==
    /\ MayChange(p, m)
    /\ opens < MaxOpens /\ opens' = opens + 1
    /\ \E kind \in Overlapping : open' = open \cup {Request(kind, p, m)}
    /\ UNCHANGED <<members, motionVars, status, signVars, dateVars, effectVars, runVars,
                   wordings, edits, missed, failures>>

(* The wording kept is the one the request loaded.                         *)
MutantSnapshot(r) == edits + 1
Snapshot(r) == r.text

(* decision.save() writes every field: those of the form, and the others   *)
(* as the request loaded them.  For a motion deleted meanwhile it fails:   *)
(* Django would insert it again, but its room has been deleted with it,    *)
(* and on_chat_room_requested refuses the link and rolls the edit back.    *)
Save(r) ==
    LET m == r.motion IN
    /\ r.person \in members /\ m \in exists
    /\ edits < MaxEdits /\ edits' = edits + 1
    /\ author' = [author EXCEPT ![m] = r.person]
    /\ status' = [status EXCEPT ![m] = "proposition"]
    /\ archive' = [archive EXCEPT ![m] = @ \cup {Snapshot(r)}]
    /\ text' = [text EXCEPT ![m] = edits']
    /\ \E Z \in Targets(m) : abolishes' = [abolishes EXCEPT ![m] = Z]
    /\ count' = [count EXCEPT ![m] = r.count]
    /\ gathered' = [gathered EXCEPT ![m] = r.gathered]
    /\ \E d \in Stamps : sinceEdit' = [sinceEdit EXCEPT ![m] = d]
    /\ settled' = [settled EXCEPT ![m] = 0]
    /\ untilStart' = [untilStart EXCEPT ![m] = 0]
    /\ untilStop' = [untilStop EXCEPT ![m] = 0]
    /\ wordings' = [wordings EXCEPT ![m] = @ \cup {edits'}]
    /\ UNCHANGED <<members, exists, signed, age, openDays, effectVars, runVars,
                   opens, missed, failures>>

Edit(p, m) ==
    /\ MayChange(p, m)
    /\ Save(Request("edit", p, m))
    /\ UNCHANGED open

(* The rows that belong to the motion go with it; the signatures stay, but *)
(* for no motion.                                                          *)
Erase(m) ==
    /\ exists' = exists \ {m}
    /\ author' = [author EXCEPT ![m] = NoOne]
    /\ status' = [status EXCEPT ![m] = Deleted]
    /\ text' = [text EXCEPT ![m] = 0]
    /\ abolishes' = [abolishes EXCEPT ![m] = {}]
    /\ archive' = [archive EXCEPT ![m] = {}]
    /\ wordings' = [wordings EXCEPT ![m] = {}]
    /\ signed' = [signed EXCEPT ![m] = {}]
    /\ count' = [count EXCEPT ![m] = 0]
    /\ gathered' = [gathered EXCEPT ![m] = FALSE]
    /\ UNCHANGED <<members, dateVars, effectVars, runVars, counters>>

Delete(p, m) ==
    /\ MayChange(p, m)
    /\ Erase(m)
    /\ UNCHANGED open

(* A request under way writes, or fails: the form is wrong, the database   *)
(* locked.                                                                 *)
Proceed(r) ==
    /\ \/ r.kind = "edit" /\ Save(r)
       \/ r.kind = "delete" /\ Erase(r.motion)
       \/ UNCHANGED <<members, motionVars, status, signVars, dateVars, effectVars, runVars,
                      wordings, counters>>
    /\ open' = open \ {r}

(* The account of p is deleted; what p wrote and signed stays, without an  *)
(* author.                                                                 *)
Leave(p) ==
    /\ p \in members \cap Leavers
    /\ members' = members \ {p}
    /\ author' = [m \in Motions |-> IF author[m] = p THEN NoOne ELSE author[m]]
    /\ UNCHANGED <<exists, text, abolishes, archive, status, signVars, dateVars,
                   effectVars, runVars, open, wordings, counters>>

Web(p, m) == Propose(p, m) \/ Sign(p, m) \/ Withdraw(p, m) \/ Edit(p, m)
                \/ Delete(p, m) \/ Open(p, m)

-----------------------------------------------------------------------------
(* The vote command                                                        *)

StartRun ==
    /\ phase = "idle" /\ ~ranToday
    /\ phase' = "process" /\ ranToday' = TRUE
    /\ todo' = {m \in exists : status[m] \in Running}
    /\ UNCHANGED <<members, motionVars, status, signVars, dateVars, effectVars, effects,
                   open, wordings, counters>>

(* Enough signatures, the author's among them.                             *)
Ready(m) == author[m] \in signed[m] /\ count[m] >= required

Frozen(m) == sinceEdit[m] < Freeze

Overdue(m) == age[m] >= SignatureDays

MutantClosing(m) == status[m] = "referendum" /\ untilStop[m] <= 0
Closing(m) == status[m] = "referendum" /\ untilStop[m] < 0

MayDiscuss(m) == status[m] = "proposition" /\ Ready(m) /\ ~Frozen(m)
MutantDraft(m) ==
    status[m] = "proposition" /\ author[m] \in signed[m] /\ ~Ready(m) /\ Overdue(m)
MayGiveUp(m) == status[m] = "proposition" /\ ~Ready(m) /\ Overdue(m)
MayVote(m) == status[m] = "discussion" /\ untilStart[m] = 0

Discuss(m) ==
    /\ MayDiscuss(m)
    /\ status' = [status EXCEPT ![m] = "discussion"]
    /\ untilStart' = [untilStart EXCEPT ![m] = DiscussionDays]
    /\ untilStop' = [untilStop EXCEPT ![m] = DiscussionDays + ReferendumDays]
    /\ UNCHANGED <<openDays, pending, latest, failures>>

GiveUp(m) ==
    /\ MayGiveUp(m)
    /\ status' = [status EXCEPT ![m] = "rejected"]
    /\ UNCHANGED <<untilStart, untilStop, openDays, pending, latest, failures>>

OpenVoting(m) ==
    /\ MayVote(m)
    /\ status' = [status EXCEPT ![m] = "referendum"]
    /\ openDays' = [openDays EXCEPT ![m] = 0]
    /\ UNCHANGED <<untilStart, untilStop, pending, latest, failures>>

(* The motions an approved one abolishes; if one of them is gone, nothing  *)
(* is saved at all.                                                        *)
Abolished(m) == abolishes[m] \ {m}

Approve(m) ==
    /\ Closing(m) /\ Abolished(m) \subseteq exists
    /\ status' = [x \in Motions |-> IF x = m THEN "approved"
                                    ELSE IF x \in Abolished(m) THEN "rejected"
                                    ELSE status[x]]
    /\ IF Proposes[m] = 0 THEN UNCHANGED <<pending, latest>>
                          ELSE pending' = Append(pending, m) /\ latest' = Proposes[m]
    /\ UNCHANGED <<untilStart, untilStop, openDays, failures>>

Reject(m) ==
    /\ Closing(m)
    /\ status' = [status EXCEPT ![m] = "rejected"]
    /\ UNCHANGED <<untilStart, untilStop, openDays, pending, latest, failures>>

(* Votes have been lost: voting starts again.                              *)
Restart(m) ==
    /\ Closing(m)
    /\ failures < MaxFailures /\ failures' = failures + 1
    /\ untilStart' = [untilStart EXCEPT ![m] = 0]
    /\ untilStop' = [untilStop EXCEPT ![m] = ReferendumDays]
    /\ openDays' = [openDays EXCEPT ![m] = 0]
    /\ UNCHANGED <<status, pending, latest>>

(* Nothing to be done today, or the motion is gone, or an approved one     *)
(* cannot abolish what it names.                                           *)
Wait(m) ==
    /\ ~MayDiscuss(m) /\ ~MayGiveUp(m) /\ ~MayVote(m)
    /\ Closing(m) => ~(Abolished(m) \subseteq exists)
    /\ UNCHANGED <<status, untilStart, untilStop, openDays, pending, latest, failures>>

(* The database is locked, or the vote buffer cannot be reached.           *)
Fail(m) ==
    /\ failures < MaxFailures /\ failures' = failures + 1
    /\ UNCHANGED <<status, untilStart, untilStop, openDays, pending, latest>>

Process(m) ==
    /\ phase = "process" /\ m \in todo
    /\ todo' = todo \ {m}
    /\ \/ Discuss(m) \/ GiveUp(m) \/ OpenVoting(m)
       \/ Approve(m) \/ Reject(m) \/ Restart(m)
       \/ Wait(m) \/ Fail(m)
    /\ UNCHANGED <<members, motionVars, signVars, age, sinceEdit, settled, required,
                   phase, effects, ranToday, open, wordings, edits, opens, missed>>

(* The effects in the order of their rows, which is that of the approvals. *)
MutantRows == [i \in 1..Len(pending) |-> pending[Len(pending) + 1 - i]]
Rows == pending

(* apply_pending_referendum_effects                                        *)
StartEffects ==
    /\ phase = "process" /\ todo = {}
    /\ phase' = "effects" /\ effects' = Rows
    /\ UNCHANGED <<members, motionVars, status, signVars, dateVars, effectVars, todo,
                   ranToday, open, wordings, counters>>

(* The rows but that of m, which is one of them.                           *)
Without(s, m) ==
    LET i == CHOOSE i \in DOMAIN s : s[i] = m
    IN  [j \in 1..(Len(s) - 1) |-> s[IF j < i THEN j ELSE j + 1]]

(* apply_parameters may raise before or after it has saved the parameters; *)
(* the effect is then tried again by the next run.                         *)
ApplyEffect ==
    /\ phase = "effects" /\ effects # <<>>
    /\ LET m == Head(effects) IN
       \/ /\ required' = Proposes[m] /\ pending' = Without(pending, m)
          /\ UNCHANGED failures
       \/ /\ failures < MaxFailures /\ failures' = failures + 1
          /\ required' \in {required, Proposes[m]} /\ UNCHANGED pending
    /\ effects' = Tail(effects)
    /\ UNCHANGED <<members, motionVars, status, signVars, dateVars, latest, phase, todo,
                   ranToday, open, wordings, edits, opens, missed>>

EndRun ==
    /\ phase = "effects" /\ effects = <<>>
    /\ phase' = "idle"
    /\ UNCHANGED <<members, motionVars, status, signVars, dateVars, effectVars, todo,
                   effects, ranToday, open, wordings, counters>>

(* The process stops, possibly between the parameters and the mark that    *)
(* they have been applied.                                                 *)
BreakOff ==
    /\ phase # "idle"
    /\ failures < MaxFailures /\ failures' = failures + 1
    /\ \/ UNCHANGED required
       \/ effects # <<>> /\ required' = Proposes[Head(effects)]
    /\ phase' = "idle" /\ todo' = {} /\ effects' = <<>>
    /\ UNCHANGED <<members, motionVars, status, signVars, dateVars, pending, latest,
                   ranToday, open, wordings, edits, opens, missed>>

Lower(n, bottom) == IF n > bottom THEN n - 1 ELSE bottom
Raise(n, top)    == IF n < top THEN n + 1 ELSE top

(* Midnight.  No request or run lasts from one day into the next.          *)
Tick ==
    /\ phase = "idle" /\ open = {}
    /\ \/ ranToday /\ UNCHANGED missed
       \/ ~ranToday /\ missed < MaxMissed /\ missed' = missed + 1
    /\ ranToday' = FALSE
    /\ age' = [m \in Motions |-> IF m \in exists THEN Raise(age[m], SignatureDays) ELSE age[m]]
    /\ sinceEdit' = [m \in Motions |-> IF m \in exists THEN Raise(sinceEdit[m], Freeze) ELSE sinceEdit[m]]
    /\ settled' = [m \in Motions |-> IF m \in exists THEN Raise(settled[m], Freeze) ELSE settled[m]]
    /\ untilStart' = [m \in Motions |-> Lower(untilStart[m], 0)]
    /\ untilStop' = [m \in Motions |-> IF status[m] \in {"discussion", "referendum"}
                                          THEN Lower(untilStop[m], -1) ELSE untilStop[m]]
    /\ openDays' = [m \in Motions |-> IF status[m] = "referendum"
                                         THEN Raise(openDays[m], ReferendumDays) ELSE openDays[m]]
    /\ UNCHANGED <<members, motionVars, status, signVars, effectVars, phase, todo, effects,
                   open, wordings, edits, opens, failures>>

Run == StartRun \/ StartEffects \/ ApplyEffect \/ EndRun \/ \E m \in Motions : Process(m)

Next ==
    \/ \E p \in People, m \in Motions : Web(p, m)
    \/ \E r \in open : Proceed(r)
    \/ \E p \in People : Leave(p)
    \/ Run \/ BreakOff \/ Tick

Spec == Init /\ [][Next]_vars

(* The scheduler runs the command every day and a run goes on; days pass;  *)
(* requests end.  Nobody owes a motion a signature or an edit.             *)
FairSpec ==
    /\ Spec
    /\ WF_vars(Run) /\ WF_vars(Tick)
    /\ WF_vars(\E r \in open : Proceed(r))

-----------------------------------------------------------------------------
(* Properties                                                              *)

(* Every variable has its type.                                            *)
TypeOK ==
    /\ members \subseteq People /\ exists \subseteq Motions
    /\ author \in [Motions -> People \cup {NoOne}]
    /\ status \in [Motions -> Statuses]
    /\ text \in [Motions -> 0..MaxEdits]
    /\ abolishes \in [Motions -> SUBSET Motions]
    /\ archive \in [Motions -> SUBSET (0..MaxEdits)]
    /\ wordings \in [Motions -> SUBSET (0..MaxEdits)]
    /\ signed \in [Motions -> SUBSET People]
    /\ count \in [Motions -> Int] /\ gathered \in [Motions -> BOOLEAN]
    /\ age \in [Motions -> 0..SignatureDays]
    /\ sinceEdit \in [Motions -> 0..Freeze] /\ settled \in [Motions -> 0..Freeze]
    /\ untilStart \in [Motions -> 0..DiscussionDays]
    /\ untilStop \in [Motions -> -1..(DiscussionDays + ReferendumDays)]
    /\ openDays \in [Motions -> 0..ReferendumDays]
    /\ required \in Nat /\ latest \in Nat
    /\ pending \in Seq(Motions) /\ effects \in Seq(Motions)
    /\ phase \in {"idle", "process", "effects"} /\ todo \subseteq Motions
    /\ ranToday \in BOOLEAN
    /\ open \subseteq [kind : {"edit", "delete"}, person : People, motion : Motions,
                       text : 0..MaxEdits, count : Int, gathered : BOOLEAN]
    /\ edits \in 0..MaxEdits /\ opens \in 0..MaxOpens
    /\ missed \in 0..MaxMissed /\ failures \in 0..MaxFailures

(* ile_osob_podpisalo, which decides about the discussion, is a number of  *)
(* its own beside the rows it counts, and says the same.                   *)
SignaturesAreCounted == \A m \in exists : count[m] = Cardinality(signed[m])

(* Whether the motion shows a date for its required signatures tells       *)
(* whether it has them, until a parameter motion has come to its end and   *)
(* may have changed the number needed.                                     *)
GatheredIsRight ==
    (\A x \in Motions : Proposes[x] # 0 => status[x] \notin Ended) =>
        \A m \in exists : gathered[m] <=> count[m] >= required

(* From the discussion on the group knows what it votes on: the wording    *)
(* and what it abolishes stay.                                             *)
TextIsFixed ==
    [][\A m \in exists :
         status[m] # "proposition" => text'[m] = text[m] /\ abolishes'[m] = abolishes[m]]_vars

(* Whatever requests overlap, the voters know what they vote on: neither   *)
(* the wording nor what it abolishes changes once the voting is open.      *)
VotersKnowTheText ==
    [][\A m \in exists :
         status[m] \in {"referendum", "approved"} =>
             m \in exists' /\ text'[m] = text[m] /\ abolishes'[m] = abolishes[m]]_vars

(* A motion goes forward only, one stage at a time; what has entered the   *)
(* discussion is never deleted, and is rejected before its own vote, or    *)
(* after it has become law, only by an approved motion that names it.      *)
Stages ==
    [][\A m \in exists :
         \/ status'[m] = status[m]
         \/ status[m] = "proposition" /\ status'[m] \in {"discussion", Deleted}
         \/ status[m] = "proposition" /\ status'[m] = "rejected" /\ Overdue(m)
         \/ status[m] = "discussion" /\ status'[m] = "referendum"
         \/ status[m] = "referendum" /\ status'[m] \in Ended
         \/ /\ status[m] \in Running \cup {"approved"} /\ status'[m] = "rejected"
            /\ \E x \in exists : /\ m \in abolishes[x]
                                 /\ status[x] = "referendum" /\ status'[x] = "approved"]_vars

(* A motion enters the discussion with enough signatures, its author's     *)
(* among them, and a wording nobody has changed for a while: the signers   *)
(* have had a whole day to withdraw.                                       *)
DiscussionIsEarned ==
    [][\A m \in exists :
         status[m] = "proposition" /\ status'[m] = "discussion" =>
             /\ author[m] \in signed[m]
             /\ Cardinality(signed[m]) >= required
             /\ settled[m] >= Freeze - 1]_vars

(* The voting on a law lasted as long as a referendum lasts.               *)
FullTerm ==
    [][\A m \in exists :
         status[m] # "approved" /\ status'[m] = "approved"
             => openDays[m] >= ReferendumDays]_vars

(* No wording is lost: it is the current one or kept in the history.       *)
HistoryIsComplete ==
    \A m \in exists : wordings[m] \subseteq archive[m] \cup {text[m]}

MotionInvariant == TypeOK /\ GatheredIsRight /\ HistoryIsComplete

(* Every stage is reached in its turn, with the signatures and after the   *)
(* time it needs.                                                          *)
StagesAreEarned == Stages /\ DiscussionIsEarned /\ FullTerm

(* Once every effect is applied the parameter is what the group decided    *)
(* last.                                                                   *)
LatestDecisionRules ==
    phase = "idle" /\ pending = <<>> => required = latest

(* A motion that names a deleted one cannot be approved.                   *)
Dangling(m) == ~(Abolished(m) \subseteq exists)

(* A motion does not stay under way for ever, unless it names a motion     *)
(* that has been deleted.                                                  *)
ClosesUnlessDangling ==
    \A m \in Motions : status[m] \in Running ~> (status[m] \notin Running \/ Dangling(m))
=============================================================================
