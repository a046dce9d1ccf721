------------------------------- MODULE Accounts -------------------------------
(***************************************************************************)
(* How somebody comes to have an account: a candidate signs up or is       *)
(* proposed by a citizen, confirms an address, fills in the form; a        *)
(* citizen changes the address; and an administrator writes old addresses  *)
(* in small letters.  Every address belongs to one person, who reads what  *)
(* is mailed to it in one browser, and may be entered by anybody.          *)
(*                                                                         *)
(* Requests are not transactions: what one checks, or has loaded of the    *)
(* profile, is old when it is used.  The table of addresses, its links and *)
(* its rule that a verified address is unique are the account library's.   *)
(* Left out: passwords, user names, ratings (Citizens) and expired links.  *)
(***************************************************************************)
EXTENDS Naturals, FiniteSets

CONSTANTS
    Addresses,   \* each the name of the person who reads it, too
    Ids,         \* 1..n: accounts
    Budgets

VARIABLES
    user,        \* per id: what is stored of the account, and that a citizen proposed it
    profile,     \* per id: the status, the answers of the form, and whether a proposer is named
    rows,        \* the table of addresses
    links,       \* what has been mailed: <<kind, id, address>>
    session,     \* per browser: whose form it may fill in
    request,     \* per browser: the request under way
    clock,       \* history: counts the accounts' addresses as they are stored
    since,       \* history, per id: when the account came by its address
    checked,     \* history, per id and address: when it was last found to be free for the account
    answered,    \* per id: the answers sent last, and whether the candidate has sent any
    opened,      \* <<id, address>>: links opened by whoever reads the address
    crossed,     \* accounts one request of which has saved over another one
    accepted,    \* accounts the citizens have let in
    unsent,      \* accounts whose first mail could not be sent
    left

vars == <<user, profile, rows, links, session, request, clock, since, checked, answered, opened, crossed,
          accepted, unsent, left>>

times == <<clock, since, checked>>

Rest == [do |-> "rest"]
NoUser == [state |-> "none", mail |-> "", vouched |-> FALSE]
NoProfile == [status |-> "email_entered", form |-> 0, polecajacy |-> FALSE]

Spend(what) == left[what] > 0 /\ left' = [left EXCEPT ![what] = @ - 1]
Becomes(p, next) == request' = [request EXCEPT ![p] = next]
Exists(id) == user[id].state # "none"
Row(id, address, verified, primary) ==
    [of |-> id, address |-> address, upper |-> FALSE, verified |-> verified, primary |-> primary]
\* All addresses are compared without regard to case, but for the table's own rule.
Holds(id, address) == Exists(id) /\ user[id].mail = address
Verified(id, address) == \E r \in rows : r.of = id /\ r.address = address /\ r.verified
Taken(address) == \E r \in rows : r.address = address /\ r.verified /\ ~r.upper
Moved(id) == clock' = clock + 1 /\ since' = [since EXCEPT ![id] = clock + 1]
Next_id == {id \in Ids : ~Exists(id) /\ \A j \in Ids : j < id => Exists(j)}

-----------------------------------------------------------------------------
(* Signing up.  The account is active until the mail has been sent, or     *)
(* could not be.                                                           *)

clean_email(address) == \A id \in Ids : ~Holds(id, address)

SignUp(p) ==
    /\ request[p] = Rest /\ Spend("requests")
    /\ \E address \in Addresses :
          clean_email(address) /\ Becomes(p, [do |-> "signup", address |-> address, at |-> clock])
    /\ UNCHANGED <<user, profile, rows, links, session, times, answered, opened, crossed, accepted, unsent>>

Created(id, state, address, vouched, at) ==
    /\ user' = [user EXCEPT ![id] = [state |-> state, mail |-> address, vouched |-> vouched]]
    /\ Moved(id)
    /\ checked' = [checked EXCEPT ![id][address] = at]

CustomSignupForm_save(p) ==
    /\ request[p].do = "signup"
    /\ \E id \in Next_id :
          /\ Created(id, "active", request[p].address, FALSE, request[p].at)
          /\ rows' = rows \cup {Row(id, request[p].address, FALSE, TRUE)}
          /\ session' = [session EXCEPT ![p] = id]
          /\ Becomes(p, [do |-> "mail", id |-> id])
    /\ UNCHANGED <<profile, links, answered, opened, crossed, accepted, unsent, left>>

send_confirmation_mail(p) ==
    LET id == request[p].id
    IN /\ request[p].do = "mail"
       /\ \/ links' = links \cup {<<"confirm", id, user[id].mail>>} /\ UNCHANGED <<unsent, left>>
          \/ Spend("faults") /\ unsent' = unsent \cup {id} /\ UNCHANGED links
       /\ Becomes(p, [do |-> "signed up", id |-> id])
       /\ UNCHANGED <<user, profile, rows, session, times, answered, opened, crossed, accepted>>

DeactivateNewUser(p) ==
    /\ request[p].do = "signed up"
    /\ user' = [user EXCEPT ![request[p].id].state = "candidate"]
    /\ Becomes(p, Rest)
    /\ UNCHANGED <<profile, rows, links, session, times, answered, opened, crossed, accepted, unsent, left>>

\* The whole profile is saved, as it was loaded but for what changes.
Save(id, loaded, new) ==
    /\ profile' = [profile EXCEPT ![id] = new]
    /\ crossed' = IF profile[id] # loaded THEN crossed \cup {id} ELSE crossed

(* A citizen proposes somebody: the account is stored, active, deactivated *)
(* and given the proposer's name and the answers, and its address is       *)
(* entered as verified, unless the table refuses it.                       *)
dodaj(p) ==
    /\ request[p] = Rest /\ Spend("requests")
    /\ \E id \in Ids : user[id].state = "citizen"
    /\ \E address \in Addresses :
          clean_email(address) /\ Becomes(p, [do |-> "propose", address |-> address, at |-> clock])
    /\ UNCHANGED <<user, profile, rows, links, session, times, answered, opened, crossed, accepted, unsent>>

SaveCandidate(p) ==
    /\ request[p].do = "propose"
    /\ \E id \in Next_id :
          /\ Created(id, "active", request[p].address, TRUE, request[p].at)
          /\ Becomes(p, [do |-> "proposed", id |-> id, address |-> request[p].address])
    /\ UNCHANGED <<profile, rows, links, session, answered, opened, crossed, accepted, unsent, left>>

DeactivateCandidate(p) ==
    /\ request[p].do = "proposed"
    /\ user' = [user EXCEPT ![request[p].id].state = "candidate"]
    /\ Becomes(p, [request[p] EXCEPT !.do = "vouching"])
    /\ UNCHANGED <<profile, rows, links, session, times, answered, opened, crossed, accepted, unsent, left>>

\* The profile, all of it, as it was created with the account.
SaveCandidateProfile(p) ==
    LET id == request[p].id
    IN /\ request[p].do = "vouching"
       /\ Save(id, NoProfile, [NoProfile EXCEPT !.polecajacy = TRUE])
       /\ answered' = [answered EXCEPT ![id].form = NoProfile.form]
       /\ Becomes(p, [request[p] EXCEPT !.do = "entering"])
       /\ UNCHANGED <<user, rows, links, session, times, opened, accepted, unsent, left>>

\* One primary address to an account, and one account to a verified address.
Refused(id, address) == Taken(address) \/ \E r \in rows : r.of = id /\ (r.primary \/ r.address = address)

EnterAddress(p) ==
    LET r == request[p]
    IN /\ r.do = "entering"
       /\ rows' = IF Refused(r.id, r.address) THEN rows ELSE rows \cup {Row(r.id, r.address, TRUE, TRUE)}
       /\ Becomes(p, Rest)
       /\ UNCHANGED <<user, profile, links, session, times, answered, opened, crossed, accepted, unsent, left>>

-----------------------------------------------------------------------------
(* Confirming                                                              *)

\* What the library makes of a link: the address becomes the account's only one.
Confirmed(id, address) ==
    /\ rows' = {r \in rows : r.of # id} \cup {Row(id, address, TRUE, TRUE)}
    /\ IF user[id].mail = address THEN UNCHANGED <<user, clock, since>>
       ELSE user' = [user EXCEPT ![id].mail = address] /\ Moved(id)
    /\ UNCHANGED checked
    /\ opened' = opened \cup {<<id, address>>}

\* The browser is led on to the form; the profile has been loaded.
OpenLink(p) ==
    /\ request[p] = Rest
    /\ \E id \in Ids :
          /\ <<"confirm", id, p>> \in links
          /\ \E r \in rows : r.of = id /\ r.address = p /\ ~r.verified /\ ~r.upper
          /\ ~Taken(p)
          /\ Confirmed(id, p)
          /\ Becomes(p, IF profile[id].status # "email_entered" THEN Rest
                        ELSE [do |-> "confirmed", id |-> id, loaded |-> profile[id]])
          /\ session' = IF user[id].state = "candidate" THEN [session EXCEPT ![p] = id] ELSE session
    /\ UNCHANGED <<profile, links, answered, crossed, accepted, unsent, left>>

set_onboarding_email_confirmed(p) ==
    LET id == request[p].id
    IN /\ request[p].do = "confirmed"
       /\ Save(id, request[p].loaded, [request[p].loaded EXCEPT !.status = "email_confirmed"])
       /\ links' = links \cup {<<"form", id, p>>}
       /\ Becomes(p, Rest)
       /\ UNCHANGED <<user, rows, session, times, answered, opened, accepted, unsent, left>>

-----------------------------------------------------------------------------
(* The form: the link mailed for it comes before the session               *)

get_onboarding_user_from_request(p) ==
    {id \in Ids : Exists(id) /\ (<<"form", id, p>> \in links \/ session[p] = id)}

Load(p, id, do) ==
    Becomes(p, [do |-> do, id |-> id, loaded |-> profile[id], user |-> user[id], form |-> left.forms])

\* The account, too, is saved as it was loaded: whether it is active, and its address.
SaveUser(id, loaded) ==
    /\ user' = [user EXCEPT ![id] = loaded]
    /\ IF loaded.mail = user[id].mail THEN UNCHANGED <<clock, since>> ELSE Moved(id)
    /\ UNCHANGED checked

onboarding_details(p) ==
    /\ request[p] = Rest /\ Spend("forms")
    /\ \E id \in get_onboarding_user_from_request(p) :
          session' = [session EXCEPT ![p] = id] /\ Load(p, id, "form")
    /\ UNCHANGED <<user, profile, rows, links, times, answered, opened, crossed, accepted, unsent>>

SaveForm(p) ==
    LET r == request[p]
        new == [r.loaded EXCEPT !.form = r.form]
    IN /\ r.do = "form"
       /\ Save(r.id, r.loaded, new)
       /\ answered' = [answered EXCEPT ![r.id] = [form |-> r.form, own |-> TRUE]]
       /\ Becomes(p, [r EXCEPT !.do = "account", !.loaded = new])
       /\ UNCHANGED <<user, rows, links, session, times, opened, accepted, unsent, left>>

SaveAccount(p) ==
    LET r == request[p]
    IN /\ r.do \in {"account", "name"}
       /\ SaveUser(r.id, r.user)
       /\ crossed' = IF user[r.id] # r.user THEN crossed \cup {r.id} ELSE crossed
       /\ Becomes(p, IF r.do = "name" THEN Rest ELSE [r EXCEPT !.do = "status"])
       /\ UNCHANGED <<profile, rows, links, session, answered, opened, accepted, unsent, left>>

SaveStatus(p) ==
    LET r == request[p]
    IN /\ r.do = "status"
       /\ Save(r.id, r.loaded, [r.loaded EXCEPT !.status = "form_completed"])
       /\ Becomes(p, Rest)
       /\ UNCHANGED <<user, rows, links, session, times, answered, opened, accepted, unsent, left>>

-----------------------------------------------------------------------------
(* Citizens, and the administrator                                         *)

change_username(p) ==
    /\ request[p] = Rest /\ Spend("forms")
    /\ \E id \in Ids : user[id].state = "citizen" /\ Load(p, id, "name")
    /\ UNCHANGED <<user, profile, rows, links, session, times, answered, opened, crossed, accepted, unsent>>

\* A citizen corrects what a candidate has answered.
candidate_edit(p) ==
    /\ request[p] = Rest /\ Spend("forms")
    /\ \E id \in Ids : user[id].state = "candidate" /\ Load(p, id, "edit")
    /\ UNCHANGED <<user, profile, rows, links, session, times, answered, opened, crossed, accepted, unsent>>

SaveEdit(p) ==
    LET r == request[p]
    IN /\ r.do = "edit"
       /\ Save(r.id, r.loaded, [r.loaded EXCEPT !.form = r.form])
       /\ answered' = [answered EXCEPT ![r.id].form = r.form]
       /\ Becomes(p, Rest)
       /\ UNCHANGED <<user, rows, links, session, times, opened, accepted, unsent, left>>

Accept(id) ==
    /\ user[id].state = "candidate" /\ Spend("accepts")
    /\ user' = [user EXCEPT ![id].state = "citizen"]
    /\ accepted' = accepted \cup {id}
    /\ UNCHANGED <<profile, rows, links, session, request, times, answered, opened, crossed, unsent>>

EmailChangeForm_valid(id, address) ==
    /\ user[id].mail # address
    /\ \A other \in Ids \ {id} : ~Holds(other, address) /\ ~Verified(other, address)

\* The new address takes the place of another one that waits to be confirmed.
change_email(id) ==
    /\ user[id].state = "citizen" /\ Spend("changes")
    /\ \E address \in Addresses :
          /\ EmailChangeForm_valid(id, address)
          /\ rows' = {r \in rows : r.of # id \/ r.verified} \cup {Row(id, address, FALSE, FALSE)}
          /\ links' = links \cup {<<"confirm", id, address>>}
          /\ checked' = [checked EXCEPT ![id][address] = clock]
    /\ UNCHANGED <<user, profile, session, request, clock, since, answered, opened, crossed, accepted, unsent>>

\* Rows of one account that differ in nothing but case: one, verified, stands for all.
Group(r) == {s \in rows : s.of = r.of /\ s.address = r.address}
Stands(r) == r.verified /\ r.primary
Redundant(r) == ~r.verified /\ ~r.primary
Mergeable(group) ==
    \/ Cardinality(group) = 1
    \/ \E r \in group : Stands(r) /\ \A s \in group \ {r} : Redundant(s)

Conflict ==
    \/ \E r \in rows : ~Mergeable(Group(r))
    \/ \E address \in Addresses :
          Cardinality({id \in Ids : Holds(id, address) \/ \E r \in rows : r.of = id /\ r.address = address}) > 1

\* The redundant rows are deleted, the others written in small letters.
Normalized == {r \in rows : Cardinality(Group(r)) = 1 \/ Stands(r)}
Written == {[r EXCEPT !.upper = FALSE] : r \in Normalized}

normalize_email_case ==
    /\ ~Conflict /\ Spend("commands")
    /\ rows' = Written
    /\ UNCHANGED <<user, profile, links, session, request, times, answered, opened, crossed, accepted, unsent>>

\* Whom an address logs in: of several accounts the only active one.
authenticate(address) ==
    LET found == {id \in Ids : Holds(id, address)}
        active == {id \in found : user[id].state # "candidate"}
    IN IF Cardinality(found) = 1 \/ Cardinality(active) = 1 THEN active ELSE {}

\* The first account may be an old one, in capitals, its address added again since.
Init ==
    /\ \E address \in Addresses :
          /\ user = [id \in Ids |-> IF id = 1 THEN [NoUser EXCEPT !.state = "citizen", !.mail = address]
                                    ELSE NoUser]
          /\ rows \in {{[Row(1, address, TRUE, TRUE) EXCEPT !.upper = TRUE]} \cup again :
                        again \in {{}, {Row(1, address, FALSE, FALSE)}, {Row(1, address, FALSE, TRUE)}}}
          /\ opened = {<<1, address>>}
    /\ profile = [id \in Ids |-> IF id = 1 THEN [NoProfile EXCEPT !.status = "form_completed"] ELSE NoProfile]
    /\ links = {} /\ session = [p \in Addresses |-> 0] /\ request = [p \in Addresses |-> Rest]
    /\ clock = 1 /\ since = [id \in Ids |-> 1]
    /\ checked = [id \in Ids |-> [address \in Addresses |-> 0]]
    /\ answered = [id \in Ids |-> [form |-> 0, own |-> FALSE]]
    /\ crossed = {} /\ accepted = {1} /\ unsent = {}
    /\ left \in Budgets

Next ==
    \/ \E p \in Addresses :
          \/ SignUp(p) \/ CustomSignupForm_save(p) \/ send_confirmation_mail(p) \/ DeactivateNewUser(p)
          \/ dodaj(p) \/ SaveCandidate(p) \/ DeactivateCandidate(p) \/ SaveCandidateProfile(p) \/ EnterAddress(p)
          \/ OpenLink(p) \/ set_onboarding_email_confirmed(p)
          \/ onboarding_details(p) \/ SaveForm(p) \/ SaveAccount(p) \/ SaveStatus(p)
          \/ change_username(p) \/ candidate_edit(p) \/ SaveEdit(p)
    \/ \E id \in Ids : Accept(id) \/ change_email(id)
    \/ normalize_email_case

-----------------------------------------------------------------------------
(* Properties                                                              *)

TypeOK ==
    /\ \A id \in Ids : user[id].mail \in Addresses \cup {""} /\ user[id].state \in {"none", "active", "candidate", "citizen"}
    /\ \A r \in rows : Exists(r.of)

(* Two accounts have one address only if each was checked before the other *)
(* had it: they were asked for at the same time, or one was a change that  *)
(* waited to be confirmed.                                                 *)
OneAccountEach ==
    \A i, j \in Ids : i # j /\ Exists(i) /\ Exists(j) /\ user[i].mail = user[j].mail =>
        checked[i][user[j].mail] < since[j] /\ checked[j][user[i].mail] < since[i]

(* A citizen can log in by the address of the account, whoever else has    *)
(* been entered with it, unless another account with it is active.         *)
CitizensGetIn ==
    \A id \in Ids : user[id].state = "citizen" =>
        \/ authenticate(user[id].mail) = {id}
        \/ \E j \in Ids \ {id} : user[j].state \in {"active", "citizen"} /\ user[j].mail = user[id].mail

is_email_confirmed_for_candidate(id) == profile[id].polecajacy \/ Verified(id, user[id].mail)

(* An address is called confirmed only if whoever reads it has opened the  *)
(* link for this very account, or a citizen vouches for the candidate.     *)
ConfirmedIsTrue ==
    \A id \in Ids : Exists(id) /\ is_email_confirmed_for_candidate(id) =>
        user[id].vouched \/ <<id, user[id].mail>> \in opened

(* Nobody is left without a way to confirm: the address counts as          *)
(* confirmed, or the link is in the mail and its row in the table, unless  *)
(* the mail could not be sent or requests saved over each other.           *)
NobodyIsStuck ==
    \A id \in Ids \ (unsent \cup crossed) : user[id].state = "candidate" =>
        \/ is_email_confirmed_for_candidate(id)
        \/ /\ <<"confirm", id, user[id].mail>> \in links
           /\ \E r \in rows : r.of = id /\ r.address = user[id].mail /\ ~r.upper
        \/ \E p \in Addresses : request[p].do = "vouching" /\ request[p].id = id

(* What a candidate answered last is kept, and the form counts as filled   *)
(* in, whenever the address is confirmed, unless two requests saved the    *)
(* profile over each other.                                                *)
FormIsKept ==
    LET Idle == \A p \in Addresses : request[p].do \notin {"form", "account", "status", "edit"}
    IN \A id \in Ids \ crossed : Idle =>
        /\ profile[id].form = answered[id].form
        /\ answered[id].own => profile[id].status = "form_completed"

(* Whoever has been let in stays in, and keeps the address confirmed last, *)
(* unless a request saved what it had loaded before.                       *)
AcceptedStay ==
    \A id \in accepted \ crossed :
        user[id].state = "citizen" /\ (Verified(id, user[id].mail) \/ \A r \in rows : r.of = id => ~r.verified)

(* Whenever the command goes through, no account loses or gains a verified *)
(* or a primary address, and no two of its rows are the same.              *)
NormalizingIsSafe ==
    ~Conflict =>
        /\ \A id \in Ids, address \in Addresses :
              /\ (\E r \in Written : r.of = id /\ r.address = address /\ r.verified) <=> Verified(id, address)
              /\ {r.address : r \in {s \in Written : s.of = id /\ s.primary}}
                   = {r.address : r \in {s \in rows : s.of = id /\ s.primary}}
        /\ \A r, s \in Written : r.of = s.of /\ r.address = s.address => r = s

AccountsInvariant ==
    /\ TypeOK /\ OneAccountEach /\ CitizensGetIn /\ ConfirmedIsTrue
    /\ NobodyIsStuck /\ AcceptedStay /\ FormIsKept /\ NormalizingIsSafe
=============================================================================
