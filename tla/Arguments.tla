----------------------------- MODULE Arguments -----------------------------
(***************************************************************************)
(* What is said about a decision and where it is shown (glosowania): the   *)
(* arguments its page lists (add_argument, edit_argument, delete_argument, *)
(* details), the notices of a new one, and the lists of decisions by       *)
(* status, with the counts over them and the tile of the start page        *)
(* (_status_list, stepper.py, dashboard.py).                               *)
(*                                                                         *)
(* Requests load, check and save in steps of their own.  Between them the  *)
(* vote command ends a voting, another request deletes the argument, or an *)
(* account goes.  Left out: when a decision is ripe for its next status    *)
(* (Motion), to whom a notice goes (Notices), what is unread (ChatRoom).   *)
(***************************************************************************)
EXTENDS Integers, Sequences, FiniteSetsExt, SequencesExt

CONSTANTS Decisions, Citizens, Forms, MaxArguments, Budgets   \* Forms: what may be sent, a side and a length

VARIABLES
    decisions,   \* status, author (0 when the account is gone), signatures and whether there is a chat room
    accounts,
    arguments,   \* by number
    requests,
    said,        \* history: the arguments ever added
    told,        \* history: how often each was announced, in notices and in the chat
    closed,      \* history: the arguments of a decision when its voting ended
    late,        \* history: decisions of which an argument was saved or deleted by a request loaded before the end
    deleted,     \* history: arguments deleted
    revived,     \* history: those deleted while an edit of them was on its way
    left

vars == <<decisions, accounts, arguments, requests, said, told, closed, late, deleted, revived, left>>

Spend(what) == left[what] > 0 /\ left' = [left EXCEPT ![what] = @ - 1]

Statuses == {"proposition", "discussion", "referendum", "rejected", "approved"}
voting_has_ended(d) == decisions[d].status \in {"rejected", "approved"}
Of(d) == {a \in DOMAIN arguments : arguments[a].on = d}

-----------------------------------------------------------------------------
(* Requests                                                                *)

\* A decision is loaded, and an argument if there is one; what is loaded is checked.
Ask(u, what, d, a, form) ==
    /\ u \in accounts /\ Spend("requests")
    /\ ~voting_has_ended(d)
    /\ requests' = requests \cup {[what |-> what, n |-> left.requests, by |-> u, on |-> d, of |-> a, step |-> "save", form |-> form,
                                   ended |-> voting_has_ended(d)]}
    /\ UNCHANGED <<decisions, accounts, arguments, said, told, closed, late, deleted, revived>>

add_argument(u) == \E d \in Decisions, form \in Forms : Ask(u, "add", d, 0, form)

\* Only by its author.
edit_argument(u) ==
    \E a \in DOMAIN arguments : arguments[a].author = u /\ \E form \in Forms : Ask(u, "edit", arguments[a].on, a, form)

delete_argument(u) ==
    \E a \in DOMAIN arguments :
        arguments[a].author = u /\ Ask(u, "delete", arguments[a].on, a, [side |-> "FOR", length |-> 1])

Late(r) == IF voting_has_ended(r.on) /\ ~r.ended THEN late \cup {r.on} ELSE late
Follow(r, step) == (requests \ {r}) \cup (IF step = "done" THEN {} ELSE {[r EXCEPT !.step = step, !.of = IF @ = 0 THEN Len(said) + 1 ELSE @]})
Row(r) == [author |-> r.by, on |-> r.on, side |-> r.form.side, length |-> r.form.length]
Put(a, row) == [b \in DOMAIN arguments \cup {a} |-> IF b = a THEN row ELSE arguments[b]]

\* The row refers to its author: without the account it cannot be saved.
Save(r) ==
    /\ r.step = "save" /\ r.what = "add"
    /\ IF r.by \in accounts
       THEN /\ Len(said) < MaxArguments
            /\ arguments' = Put(Len(said) + 1, Row(r)) /\ said' = Append(said, r.on)
            /\ requests' = Follow(r, "notice") /\ late' = Late(r)
       ELSE requests' = requests \ {r} /\ UNCHANGED <<arguments, said, late>>
    /\ UNCHANGED <<decisions, accounts, told, closed, deleted, revived, left>>

(* The whole row as it was loaded, with what the form changes; one that is *)
(* no longer there is inserted again.                                      *)
SaveEdit(r) ==
    /\ r.step = "save" /\ r.what = "edit" /\ requests' = requests \ {r}
    /\ IF r.by \in accounts
       THEN /\ arguments' = Put(r.of, Row(r)) /\ late' = Late(r)
            /\ revived' = IF r.of \in DOMAIN arguments THEN revived ELSE revived \cup {r.of}
       ELSE UNCHANGED <<arguments, late, revived>>
    /\ UNCHANGED <<decisions, accounts, said, told, closed, deleted, left>>

Delete(r) ==
    /\ r.step = "save" /\ r.what = "delete" /\ requests' = requests \ {r}
    /\ arguments' = [b \in DOMAIN arguments \ {r.of} |-> arguments[b]]
    /\ deleted' = deleted \cup {r.of} /\ revived' = revived \ {r.of} /\ late' = Late(r)
    /\ UNCHANGED <<decisions, accounts, said, told, closed, left>>

Told(a, where) == [told EXCEPT ![<<a, where>>] = @ + 1]

(* First the notices, then a message to the room of the decision, if it    *)
(* has one; an error of either is logged.                                  *)
Notify(r) ==
    /\ r.step \in {"notice", "chat"}
    /\ requests' = Follow(r, IF r.step = "notice" /\ decisions[r.on].room THEN "chat" ELSE "done")
    /\ \/ told' = Told(r.of, r.step) /\ UNCHANGED left
       \/ Spend("faults") /\ UNCHANGED told
    /\ UNCHANGED <<decisions, accounts, arguments, said, closed, late, deleted, revived>>

-----------------------------------------------------------------------------
(* What happens beside                                                     *)

\* is_author_signed
signed(d) == decisions[d].author # 0 /\ decisions[d].author \in decisions[d].signatures

Next_status(d) ==
    CASE decisions[d].status = "proposition" -> {"rejected"} \cup (IF signed(d) THEN {"discussion"} ELSE {})
      [] decisions[d].status = "discussion" -> {"referendum"}
      [] decisions[d].status = "referendum" -> {"rejected", "approved"}
      [] OTHER -> {}

\* The vote command
vote(d) ==
    \E status \in Next_status(d) :
       /\ Spend("days")
       /\ decisions' = [decisions EXCEPT ![d].status = status]
       /\ closed' = IF status \in {"rejected", "approved"} THEN [closed EXCEPT ![d] = {<<a, arguments[a]>> : a \in Of(d)}] ELSE closed
       /\ UNCHANGED <<accounts, arguments, requests, said, told, late, deleted, revived>>

\* Signed or withdrawn: as long as signatures are gathered.
Sign(u, d) ==
    /\ u \in accounts /\ decisions[d].status = "proposition" /\ Spend("signs")
    /\ decisions' = [decisions EXCEPT ![d].signatures = IF u \in @ THEN @ \ {u} ELSE @ \cup {u}]
    /\ UNCHANGED <<accounts, arguments, requests, said, told, closed, late, deleted, revived>>

\* What an account leaves stays, without its name.
DeleteAccount(u) ==
    LET nameless(a) == [arguments[a] EXCEPT !.author = IF @ = u THEN 0 ELSE @]
    IN /\ u \in accounts /\ Spend("departures") /\ accounts' = accounts \ {u}
       /\ decisions' = [d \in Decisions |-> [decisions[d] EXCEPT !.author = IF @ = u THEN 0 ELSE @, !.signatures = @ \ {u}]]
       /\ arguments' = [a \in DOMAIN arguments |-> nameless(a)]
       /\ closed' = [d \in Decisions |-> {<<x[1], [x[2] EXCEPT !.author = IF @ = u THEN 0 ELSE @]>> : x \in closed[d]}]
       /\ UNCHANGED <<requests, said, told, late, deleted, revived>>

-----------------------------------------------------------------------------
(* Pages                                                                   *)

\* Short arguments first, among them those of authors who say little.
Said_by(a, d) == IF arguments[a].author = 0 THEN 0 ELSE Cardinality({b \in Of(d) : arguments[b].author = arguments[a].author})
Precedes(a, b, d) ==
    LET key(c) == <<arguments[c].length, Said_by(c, d), c>>
    IN \E i \in 1..3 : key(a)[i] < key(b)[i] /\ \A j \in 1..(i - 1) : key(a)[j] = key(b)[j]

details(d, side) ==
    SelectSeq(SetToSortSeq(Of(d), LAMBDA a, b : Precedes(a, b, d)), LAMBDA a : arguments[a].side = side)

\* A list: of those under discussion and in a referendum only signed by their author.
_status_list(status) ==
    {d \in Decisions : decisions[d].status = status /\ (status \in {"discussion", "referendum"} => signed(d))}

get_stepper_counts ==
    [status \in Statuses |-> Cardinality({d \in Decisions : decisions[d].status = status
                                 /\ (status \in {"discussion", "referendum"} => signed(d))})]

\* The tile of the start page counts without a look at signatures.
get_context ==
    [status \in {"proposition", "discussion", "referendum"} |-> Cardinality({d \in Decisions : decisions[d].status = status})]

Init ==
    /\ accounts = Citizens
    /\ decisions \in [Decisions -> [status : Statuses, author : Citizens, signatures : {Citizens}, room : BOOLEAN]]
    /\ \E old \in SUBSET {1}, by \in Citizens :
          /\ said = [a \in old |-> 1]
          /\ arguments = [a \in old |-> [author |-> by, on |-> 1, side |-> "FOR", length |-> 1]]
    /\ requests = {}
    /\ told = [aw \in (1..MaxArguments) \X {"notice", "chat"} |-> 0]
    /\ closed = [d \in Decisions |-> {}] /\ late = {} /\ deleted = {} /\ revived = {}
    /\ left \in Budgets

Next ==
    \/ \E u \in Citizens : \/ add_argument(u) \/ edit_argument(u) \/ delete_argument(u) \/ DeleteAccount(u)
                           \/ \E d \in Decisions : Sign(u, d)
    \/ \E r \in requests : Save(r) \/ SaveEdit(r) \/ Delete(r) \/ Notify(r)
    \/ \E d \in Decisions : vote(d)

-----------------------------------------------------------------------------
(* Properties                                                              *)

TypeOK ==
    /\ DOMAIN arguments \subseteq 1..Len(said) /\ accounts \subseteq Citizens
    /\ \A a \in DOMAIN arguments : arguments[a].author \in Citizens \cup {0} /\ arguments[a].on = said[a]
    /\ \A d \in Decisions : decisions[d].status \in Statuses /\ decisions[d].author \in Citizens \cup {0}

(* After the end of a voting its arguments stay as they were, unless a     *)
(* request had been let in before.                                         *)
ClosedStays ==
    \A d \in Decisions : voting_has_ended(d) /\ d \notin late => {<<a, arguments[a]>> : a \in Of(d)} = closed[d]

(* A deleted argument does not come back, unless an edit of it was on its  *)
(* way; another goes only by deletion.                                     *)
DeletedStaysDeleted ==
    \A a \in 1..Len(said) : a \in DOMAIN arguments <=> a \notin deleted \ revived

\* Nobody's name stays on what a deleted account has said or signed.
NobodyIsNamed ==
    /\ \A a \in DOMAIN arguments : arguments[a].author \in accounts \cup {0}
    /\ \A d \in Decisions : decisions[d].author \in accounts \cup {0} /\ decisions[d].signatures \subseteq accounts

(* An argument is announced once at most in each place, and in the chat    *)
(* only when its decision has a room.                                      *)
AnnouncedOnce ==
    \A a \in 1..MaxArguments :
        /\ told[<<a, "notice">>] <= 1
        /\ told[<<a, "chat">>] <= IF a <= Len(said) /\ decisions[said[a]].room THEN 1 ELSE 0

(* A page shows every argument once, on its side, shorter ones first; who  *)
(* has said much gets no place before another who has said as briefly.     *)
PagesAreComplete ==
    \A d \in Decisions, side \in {"FOR", "AGAINST"} :
       LET shown == details(d, side)
       IN /\ Range(shown) = {a \in Of(d) : arguments[a].side = side} /\ IsInjective(shown)
          /\ \A i, j \in DOMAIN shown :
                i < j => LET a == arguments[shown[i]]  b == arguments[shown[j]]
                             said_by(c) == Cardinality({x \in Of(d) : arguments[x].author = c.author})
                         IN a.length < b.length \/ (a.length = b.length /\ (a.author = 0 \/ b.author = 0 \/ said_by(a) <= said_by(b)))

(* Counts are the lengths of the lists.  Every decision is on one, and on  *)
(* the tile as often as on the lists, unless the account of its author is  *)
(* gone: then it is voted on, but listed nowhere.                          *)
ListsAreComplete ==
    /\ \A status \in Statuses : get_stepper_counts[status] = Cardinality(_status_list(status))
    /\ \A d \in Decisions : decisions[d].author # 0 /\ (decisions[d].status = "referendum" => signed(d))
                               => d \in _status_list(decisions[d].status)
    /\ (\A d \in Decisions : decisions[d].author # 0) =>
          \A status \in DOMAIN get_context : get_context[status] = Cardinality(_status_list(status))

ArgumentsInvariant ==
    TypeOK /\ ClosedStays /\ DeletedStaysDeleted /\ NobodyIsNamed /\ AnnouncedOnce /\ PagesAreComplete /\ ListsAreComplete
=============================================================================
