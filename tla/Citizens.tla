------------------------------ MODULE Citizens ------------------------------
(***************************************************************************)
(* Membership of the group, the obywatele app: citizens accept and reject  *)
(* one another and the candidates in the waiting room (obywatele/views.py),*)
(* and the count_citizens command, run every five minutes, turns the       *)
(* ratings into reputation, admits candidates, blocks citizens and deletes *)
(* accounts (management/commands/count_citizens.py).                       *)
(*                                                                         *)
(* The command is not a transaction: every statement commits by itself,    *)
(* each of its loops works on objects loaded when the loop began, and web  *)
(* requests run between any two of its steps.  A neutral rating adds       *)
(* nothing and is not distinguished from no rating at all.                 *)
(***************************************************************************)
EXTENDS Integers, FiniteSets

CONSTANTS
    People,       \* everybody who may ever have an account
    Founders,     \* the first citizens
    Acceptance,   \* the `acceptance` parameter
    WelcomePost,  \* is there a welcome_email system post?
    Leavers,      \* people who may ask for the deletion of their account
    Sleepers,     \* people who may stay away longer than delete_inactive_user_after
    Overlapping,  \* kinds of request that may span steps of the command
    MaxRatings,   \* bound: ratings given
    MaxOpens,     \* bound: requests that span steps of the command
    MaxCrashes    \* bound: runs of the command that break off

Kinds == {"signup", "rating", "profile", "username", "cancel"}

ASSUME PeopleAssumption ==
    /\ IsFiniteSet(People)
    /\ Founders \subseteq People
    /\ Leavers \subseteq People /\ Sleepers \subseteq People

ASSUME ParametersAssumption ==
    /\ Acceptance \in 1..100
    /\ WelcomePost \in BOOLEAN
    /\ Overlapping \subseteq Kinds
    /\ MaxRatings \in Nat /\ MaxOpens \in Nat /\ MaxCrashes \in Nat

VARIABLES
    exists,      \* accounts
    active,      \* accounts with is_active
    created,     \* accounts just created, not yet deactivated by the sign-up
    accepts,     \* pairs <<obywatel, kandydat>> rated +1
    rejects,     \* pairs rated -1
    reputation,  \* Uzytkownik.reputation, as stored
    deletion,    \* DeletionRequest: "none", "waiting" or "due"
    dormant,     \* accounts whose last_login is too long ago
    \* requests under way
    inflight,    \* the kind of request a citizen has under way, or "none"
    held,        \* the reputation in the profile that request has loaded
    \* the command
    phase,       \* its current loop, "idle" between two runs
    todo,        \* whom the loop has still to deal with
    loaded,      \* the reputations in the objects of the loop
    current,     \* the citizen just admitted or blocked
    \* history of the run, for the properties
    firm,        \* citizens who met the bar when the run (or the one before, if it
                 \* broke off before its blocks) began, and the first one it has
                 \* admitted above the bar, those rated down since excepted
    admitted,    \* has the run admitted anybody?
    \* counters for the bounds
    ratings, opens, crashes

accountVars == <<exists, active, created, deletion, dormant>>
rateVars    == <<accepts, rejects>>
webVars     == <<inflight, held>>
loopVars    == <<phase, todo, loaded, current>>
history     == <<firm, admitted>>
counters    == <<ratings, opens, crashes>>
vars == <<accountVars, rateVars, reputation, webVars, loopVars, history, counters>>

None   == "none"
Phases == {"idle", "count", "admit", "grant", "recount", "block", "neutral", "purge", "delete"}

Init ==
    /\ exists = Founders /\ active = Founders
    /\ created = {} /\ dormant = {}
    /\ accepts = {} /\ rejects = {}
    /\ reputation = [p \in People |-> 0]
    /\ deletion = [p \in People |-> None]
    /\ inflight = [p \in People |-> None]
    /\ held = [p \in People |-> 0]
    /\ phase = "idle" /\ todo = {} /\ current = {}
    /\ loaded = [p \in People |-> 0]
    /\ firm = {} /\ admitted = FALSE
    /\ ratings = 0 /\ opens = 0 /\ crashes = 0

-----------------------------------------------------------------------------
(* Reputation and the bar                                                  *)

(* The sum of the ratings of p.                                            *)
Sum(p) == Cardinality({o \in People : <<o, p>> \in accepts})
            - Cardinality({o \in People : <<o, p>> \in rejects})

population == Cardinality(active)

Bar(n) == IF n < 2 * Acceptance THEN n - Acceptance ELSE Acceptance

required_reputation == Bar(population)

-----------------------------------------------------------------------------
(* Web requests                                                            *)

MayRun(kind) == phase = "idle" \/ kind \in Overlapping

LoggedIn(p) == p \in active \ created

(* A sign-up saves its user, active by default, before it deactivates it;  *)
(* the profile comes with the user.                                        *)
SignUp(p) ==
    /\ p \notin exists /\ MayRun("signup")
    /\ exists' = exists \cup {p}
    /\ active' = active \cup {p}
    /\ created' = created \cup {p}
    /\ UNCHANGED <<deletion, dormant, rateVars, reputation, webVars, loopVars,
                   history, counters>>

(* DeactivateNewUser for somebody who signed up; `dodaj` for somebody a    *)
(* citizen proposes, with that citizen's acceptance: what it commits from  *)
(* the deactivation on is one step here, and is taken apart in Accounts.   *)
Deactivate(p) ==
    /\ p \in created
    /\ created' = created \ {p}
    /\ active' = active \ {p}
    /\ \/ UNCHANGED accepts
       \/ \E o \in People : LoggedIn(o) /\ <<o, p>> \notin rejects
                                  /\ accepts' = accepts \cup {<<o, p>>}
    /\ UNCHANGED <<exists, deletion, dormant, rejects, reputation, webVars,
                   loopVars, history, counters>>

(* obywatele_szczegoly: accept, reject or reset.  A request that passed    *)
(* the login check in time still writes.                                   *)
RatePerson(o, k) ==
    /\ \/ LoggedIn(o) /\ inflight[o] = None
       \/ inflight[o] = "rating" /\ o \in exists
    /\ k \in exists /\ o # k
    /\ ratings < MaxRatings /\ ratings' = ratings + 1
    /\ inflight' = [inflight EXCEPT ![o] = None]
    /\ \/ accepts' = accepts \cup {<<o, k>>} /\ rejects' = rejects \ {<<o, k>>}
          /\ UNCHANGED firm
       \/ accepts' = accepts \ {<<o, k>>} /\ rejects' = rejects \cup {<<o, k>>}
          /\ firm' = firm \ {k}
       \/ accepts' = accepts \ {<<o, k>>} /\ rejects' = rejects \ {<<o, k>>}
          /\ firm' = firm \ {k}
    /\ UNCHANGED <<accountVars, reputation, held, loopVars, admitted, opens, crashes>>

(* A request has loaded its user and profile and is not yet done.          *)
Open(p, kind) ==
    /\ kind \in Overlapping \cap {"rating", "profile", "username"}
    /\ LoggedIn(p) /\ inflight[p] = None
    /\ opens < MaxOpens /\ opens' = opens + 1
    /\ inflight' = [inflight EXCEPT ![p] = kind]
    /\ held' = [held EXCEPT ![p] = reputation[p]]
    /\ UNCHANGED <<accountVars, rateVars, reputation, loopVars, history, ratings, crashes>>

Close(p) ==
    /\ inflight' = [inflight EXCEPT ![p] = None]
    /\ held' = [held EXCEPT ![p] = 0]

(* profile.save() writes every field of the profile it has loaded, the     *)
(* reputation among them.                                                  *)
SaveProfile(p) ==
    /\ inflight[p] = "profile" /\ p \in exists
    /\ reputation' = [reputation EXCEPT ![p] = held[p]]
    /\ Close(p)
    /\ UNCHANGED <<accountVars, rateVars, loopVars, history, counters>>

(* change_username saves the whole user it has loaded, is_active among its *)
(* fields; Django inserts the row again, with a new profile, when it is no *)
(* longer there.                                                           *)
SaveUser(p) ==
    /\ inflight[p] = "username"
    /\ exists' = exists \cup {p}
    /\ active' = active \cup {p}
    /\ Close(p)
    /\ UNCHANGED <<created, deletion, dormant, rateVars, reputation, loopVars,
                   history, counters>>

request_deletion(p) ==
    /\ p \in Leavers /\ LoggedIn(p) /\ deletion[p] = None
    /\ deletion' = [deletion EXCEPT ![p] = "waiting"]
    /\ UNCHANGED <<exists, active, created, dormant, rateVars, reputation, webVars,
                   loopVars, history, counters>>

cancel_deletion(p) ==
    /\ LoggedIn(p) /\ deletion[p] # None /\ MayRun("cancel")
    /\ deletion' = [deletion EXCEPT ![p] = None]
    /\ UNCHANGED <<exists, active, created, dormant, rateVars, reputation, webVars,
                   loopVars, history, counters>>

(* Thirty days pass.                                                       *)
FallDue(p) ==
    /\ deletion[p] = "waiting"
    /\ deletion' = [deletion EXCEPT ![p] = "due"]
    /\ UNCHANGED <<exists, active, created, dormant, rateVars, reputation, webVars,
                   loopVars, history, counters>>

(* Somebody stays away for long; a citizen comes back.                     *)
StayAway(p) ==
    /\ p \in Sleepers \cap (exists \ created) /\ p \notin dormant
    /\ dormant' = dormant \cup {p}
    /\ UNCHANGED <<exists, active, created, deletion, rateVars, reputation, webVars,
                   loopVars, history, counters>>

ComeBack(p) ==
    /\ p \in dormant /\ LoggedIn(p)
    /\ dormant' = dormant \ {p}
    /\ UNCHANGED <<exists, active, created, deletion, rateVars, reputation, webVars,
                   loopVars, history, counters>>

Web(p) ==
    \/ SignUp(p) \/ Deactivate(p) \/ SaveProfile(p) \/ SaveUser(p)
    \/ request_deletion(p) \/ cancel_deletion(p) \/ FallDue(p)
    \/ StayAway(p) \/ ComeBack(p)
    \/ \E k \in People : RatePerson(p, k)
    \/ \E kind \in Kinds : Open(p, kind)

-----------------------------------------------------------------------------
(* The command                                                             *)

(* A loop begins: it loads the objects it is going to work on.             *)
Load(label, people) ==
    /\ phase' = label
    /\ todo' = people
    /\ loaded' = reputation
    /\ current' = {}

StartRun ==
    /\ phase = "idle"
    /\ created = {} \/ "signup" \in Overlapping
    /\ Load("count", exists)
    /\ firm' = firm \cup {p \in active \ created : Sum(p) >= required_reputation}
    /\ admitted' = FALSE
    /\ UNCHANGED <<accountVars, rateVars, reputation, webVars, counters>>

(* i.save(): the whole profile as the loop has loaded it.                  *)
SaveLoaded(p, value) == reputation' = [reputation EXCEPT ![p] = value]

(* count_reputation, one profile.                                          *)
CountReputation(p) ==
    /\ phase \in {"count", "recount"} /\ p \in todo
    /\ SaveLoaded(p, Sum(p))
    /\ todo' = todo \ {p}
    /\ UNCHANGED <<accountVars, rateVars, webVars, phase, loaded, current,
                   history, counters>>

MutantEligible == {p \in exists \ active : reputation[p] >= required_reputation}
MutantTarget == {p \in exists \ active : reputation[p] > Acceptance}
Eligible == {p \in exists \ active : reputation[p] > required_reputation}

StartAdmissions ==
    /\ phase = "count" /\ todo = {}
    /\ Load("admit", Eligible)
    /\ UNCHANGED <<accountVars, rateVars, reputation, webVars, history, counters>>

(* activate_eligible_users, one candidate: is_active, unless somebody else *)
(* has set it meanwhile, then the profile.                                 *)
Skip(p) ==
    /\ phase = "admit" /\ p \in todo \cap active
    /\ todo' = todo \ {p}
    /\ UNCHANGED <<accountVars, rateVars, reputation, webVars, phase, loaded, current, history, counters>>

Admit(p) ==
    /\ phase = "admit" /\ p \in todo \ active
    /\ active' = active \cup {p}
    /\ SaveLoaded(p, loaded[p])
    /\ admitted' = TRUE
    /\ firm' = IF ~admitted /\ Sum(p) > required_reputation THEN firm \cup {p} ELSE firm
    /\ phase' = "grant"
    /\ current' = {p}
    /\ todo' = todo \ {p}
    /\ UNCHANGED <<exists, created, deletion, dormant, rateVars, webVars, loaded, counters>>

MutantGroupIsSmall == population < 2 * Acceptance
GroupIsSmall == population <= 2 * Acceptance

(* grant_automatic_reputation, for one citizen k.                          *)
Grant(k) ==
    /\ phase = "grant" /\ GroupIsSmall
    /\ \E p \in current :
         /\ k \in active \ {p} /\ <<p, k>> \notin accepts
         /\ accepts' = accepts \cup {<<p, k>>}
         /\ rejects' = rejects \ {<<p, k>>}
    /\ UNCHANGED <<accountVars, reputation, webVars, loopVars, history, counters>>

Granted == GroupIsSmall => \A p \in current : \A k \in active \ {p} : <<p, k>> \in accepts

(* The welcome mail.  Without its system post the function returns, and    *)
(* the other candidates wait for the next run.                             *)
AfterGrants ==
    /\ phase = "grant" /\ Granted
    /\ phase' = "admit"
    /\ todo' = IF WelcomePost THEN todo ELSE {}
    /\ current' = {}
    /\ UNCHANGED <<accountVars, rateVars, reputation, webVars, loaded,
                   history, counters>>

StartRecount ==
    /\ phase = "admit" /\ todo = {}
    /\ Load("recount", exists)
    /\ UNCHANGED <<accountVars, rateVars, reputation, webVars, history, counters>>

Ineligible == {p \in active : reputation[p] < required_reputation}

StartBlocks ==
    /\ phase = "recount" /\ todo = {}
    /\ Load("block", Ineligible)
    /\ UNCHANGED <<accountVars, rateVars, reputation, webVars, history, counters>>

(* block_ineligible_users, one citizen: the account, then the ratings the  *)
(* blocked citizen has given.                                              *)
Block(p) ==
    /\ phase = "block" /\ p \in todo
    /\ active' = active \ {p}
    /\ SaveLoaded(p, loaded[p])
    /\ phase' = "neutral"
    /\ current' = {p}
    /\ todo' = todo \ {p}
    /\ UNCHANGED <<exists, created, deletion, dormant, rateVars, webVars, loaded, history, counters>>

MutantGivenBy(p) == {p} \X active
GivenBy(p) == {p} \X People

Neutralise ==
    /\ phase = "neutral"
    /\ \E p \in current :
         /\ accepts' = accepts \ GivenBy(p)
         /\ rejects' = rejects \ GivenBy(p)
    /\ phase' = "block"
    /\ current' = {}
    /\ UNCHANGED <<accountVars, reputation, webVars, todo, loaded,
                   history, counters>>

MutantAbandoned == (exists \ active) \cap dormant
Abandoned == {p \in (exists \ active) \cap dormant : deletion[p] = None}

StartPurge ==
    /\ phase = "block" /\ todo = {}
    /\ Load("purge", Abandoned)
    /\ UNCHANGED <<accountVars, rateVars, reputation, webVars, history, counters>>

Involving(p) == ({p} \X People) \cup (People \X {p})

(* user.delete() takes the profile, the ratings and the request with it.   *)
Remove(p) ==
    /\ exists' = exists \ {p}
    /\ active' = active \ {p}
    /\ created' = created \ {p}
    /\ dormant' = dormant \ {p}
    /\ deletion' = [deletion EXCEPT ![p] = None]
    /\ accepts' = accepts \ Involving(p)
    /\ rejects' = rejects \ Involving(p)
    /\ reputation' = [reputation EXCEPT ![p] = 0]
    /\ firm' = firm \ {p}

(* delete_inactive_users and process_deletion_requests, one account.       *)
Delete(p) ==
    /\ phase \in {"purge", "delete"} /\ p \in todo
    /\ Remove(p)
    /\ todo' = todo \ {p}
    /\ UNCHANGED <<webVars, phase, loaded, current, admitted, counters>>

StartDeletions ==
    /\ phase = "purge" /\ todo = {}
    /\ Load("delete", {p \in exists : deletion[p] = "due"})
    /\ UNCHANGED <<accountVars, rateVars, reputation, webVars, history, counters>>

Finish ==
    /\ phase' = "idle" /\ todo' = {} /\ current' = {}
    /\ loaded' = [p \in People |-> 0]
    /\ admitted' = FALSE

EndRun ==
    /\ phase = "delete" /\ todo = {}
    /\ Finish
    /\ firm' = {}
    /\ UNCHANGED <<accountVars, rateVars, reputation, webVars, counters>>

(* The process stops, or a receiver of one of the signals raises.  What    *)
(* the run has done stays done, and the next run owes the firm the same.   *)
BreakOff ==
    /\ phase # "idle"
    /\ crashes < MaxCrashes /\ crashes' = crashes + 1
    /\ Finish
    /\ firm' = IF phase \in {"count", "admit", "grant", "recount"} THEN firm ELSE {}
    /\ UNCHANGED <<accountVars, rateVars, reputation, webVars, ratings, opens>>

Run ==
    \/ StartRun \/ StartAdmissions \/ AfterGrants \/ StartRecount \/ StartBlocks
    \/ Neutralise \/ StartPurge \/ StartDeletions \/ EndRun
    \/ \E p \in People :
         CountReputation(p) \/ Skip(p) \/ Admit(p) \/ Grant(p) \/ Block(p) \/ Delete(p)

Next == Run \/ BreakOff \/ \E p \in People : Web(p)

Spec == Init /\ [][Next]_vars

(* The scheduler starts the command every five minutes, and a run goes on. *)
(* The requests of a person end; nobody owes the group a rating.           *)
FairSpec ==
    /\ Spec
    /\ WF_vars(Run)
    /\ \A p \in People : WF_vars(Deactivate(p))

-----------------------------------------------------------------------------
(* Properties                                                              *)

(* Every variable has its type.                                            *)
TypeOK ==
    /\ exists \subseteq People
    /\ active \subseteq exists /\ created \subseteq exists
    /\ accepts \subseteq exists \X exists /\ rejects \subseteq exists \X exists
    /\ accepts \cap rejects = {}
    /\ reputation \in [People -> Int]
    /\ deletion \in [People -> {None, "waiting", "due"}]
    /\ dormant \subseteq exists
    /\ inflight \in [People -> Kinds \cup {None}]
    /\ held \in [People -> Int]
    /\ phase \in Phases
    /\ todo \subseteq People /\ current \subseteq People
    /\ loaded \in [People -> Int]
    /\ firm \subseteq People /\ admitted \in BOOLEAN
    /\ ratings \in 0..MaxRatings /\ opens \in 0..MaxOpens /\ crashes \in 0..MaxCrashes

(* Admissions do not cost a citizen the membership: whoever met the bar    *)
(* when the run began, and was not rated down since, is not blocked by it, *)
(* though the bar rises with every admission (views.required_reputation).  *)
(* Nor is the candidate the run has admitted first: the comparisons of the *)
(* two loops are strict "to avoid flapping".                               *)
FirmAreSpared ==
    [][phase = "block" => \A p \in firm : p \in active => p \in active']_vars

(* Only citizens have a say: between two runs no rating of anybody who is  *)
(* not a citizen is left ("Banned person resets other people's reputation  *)
(* to Neutral").                                                           *)
OnlyCitizensRate ==
    phase = "idle" => \A r \in accepts \cup rejects : r[1] \in active

CitizensInvariant == TypeOK /\ OnlyCitizensRate

(* An account goes only if its owner has asked for it, thirty days have    *)
(* passed and the request stands, or if it is inactive, has been left      *)
(* alone for long and has no request.                                      *)
LawfulDeletion ==
    [][\A p \in exists \ exists' :
         \/ deletion[p] = "due"
         \/ p \in dormant \ active /\ deletion[p] = None]_vars

(* Once people stop rating one another, the membership comes to rest,      *)
(* unless accounts are deleted and made again for ever.                    *)
Settles == []<><<exists' # exists>>_vars \/ <>[][active' = active]_vars

(* A candidate who is above the bar is admitted, falls below it or leaves. *)
EligibleAreAdmitted ==
    \A p \in People :
        (p \in exists \ active /\ Sum(p) > required_reputation)
            ~> (p \in active \/ p \notin exists \/ Sum(p) <= required_reputation)
=============================================================================
