------------------------------ MODULE Surveys ------------------------------
(***************************************************************************)
(* One survey, ankiety/views.py, forms.py and models.py: options, votes,   *)
(* options that voters add, edits of everything while it is open.          *)
(*                                                                         *)
(* A request loads the survey, checks that it is open and what it allows,  *)
(* and writes later in one transaction.  The transactions of votes and     *)
(* edits begin with a write, so they follow one another; a transaction     *)
(* that adds an option reads first and fails when another one has written  *)
(* since.                                                                  *)
(***************************************************************************)
EXTENDS Integers, FiniteSets, Sequences

CONSTANTS
    Voters,
    Texts,      \* the texts of options
    MaxOptions, \* bound: the options ever created
    MaxOpens,   \* bound: requests under way at once
    MaxRequests \* bound: requests

VARIABLES
    present,    \* the survey exists
    closed,     \* end_date is past
    multiple,   \* allow_multiple_choice
    options,    \* rows [key, text, order]
    votes,      \* voter -> the keys of the options voted for
    voters,     \* accounts; the votes of the others stay, without a user
    open,       \* requests under way, with what they have loaded
    lenient,    \* history: a request has found several answers allowed
    lastKey, requests

vars == <<present, closed, multiple, options, votes, voters, open, lenient, lastKey, requests>>

Keys == 1..MaxOptions
OptionKeys(rows) == {o.key : o \in rows}
OptionTexts(rows) == {o.text : o \in rows}

(* The lists of at least two options that the form takes.                  *)
Lists == {l \in UNION {[1..n -> Texts] : n \in 2..Cardinality(Texts)} :
            \A i, j \in DOMAIN l : l[i] = l[j] => i = j}

(* New rows for the texts of l that are not there, in the order of l.      *)
FirstRows(l) == {[key |-> i, text |-> l[i], order |-> i - 1] : i \in DOMAIN l}

(* survey_create                                                           *)
Init ==
    /\ present = TRUE /\ closed = FALSE /\ multiple \in BOOLEAN
    /\ \E l \in {m \in Lists : Len(m) = 2} : options = FirstRows(l)
    /\ votes = [v \in Voters |-> {}] /\ voters = Voters
    /\ open = {} /\ lenient = multiple /\ lastKey = 2 /\ requests = 0

Begin(r) ==
    /\ present /\ Cardinality(open) < MaxOpens
    /\ requests < MaxRequests /\ requests' = requests + 1
    /\ open' = open \cup {r}
    /\ lenient' = (lenient \/ r.multiple)
    /\ UNCHANGED <<present, closed, multiple, options, votes, voters, lastKey>>

Request(kind, v, keys, l, m) ==
    [kind |-> kind, voter |-> v, keys |-> keys, list |-> l, multiple |-> m]

(* How many options a request of this kind may name.                       *)
Ballots == {ks \in SUBSET OptionKeys(options) : multiple \/ Cardinality(ks) <= 1}

MutantBeginVote(v) ==
    v \in voters /\ \E ks \in Ballots : Begin(Request("vote", v, ks, <<>>, multiple))
BeginVote(v) ==
    ~closed /\ v \in voters /\ \E ks \in Ballots : Begin(Request("vote", v, ks, <<>>, multiple))

(* An option of one's own, with the others that are ticked where several   *)
(* are allowed and instead of them where not.                              *)
BeginCustom(v) ==
    /\ ~closed /\ v \in voters
    /\ \E t \in Texts \ OptionTexts(options), ks \in Ballots :
         Begin(Request("custom", v, IF multiple THEN ks ELSE {}, <<t>>, multiple))

(* Any member may edit an open survey.                                     *)
BeginEdit(v) ==
    /\ ~closed /\ v \in voters
    /\ \E l \in Lists, m \in BOOLEAN : Begin(Request("edit", v, {}, l, m))

Done(r) == open' = open \ {r}

(* _cast_vote: the voter's rows go, the new ones come.                     *)
Replace(v, keys, rows) ==
    [u \in Voters |-> (IF u = v THEN keys ELSE votes[u]) \cap OptionKeys(rows)]

(* It was open when the request looked; an option that is gone, or a user, *)
(* makes the transaction fail.                                             *)
FinishVote(r) ==
    /\ r.kind = "vote" /\ present /\ r.voter \in voters
    /\ r.keys \subseteq OptionKeys(options)
    /\ votes' = Replace(r.voter, r.keys, options)
    /\ Done(r)
    /\ UNCHANGED <<present, closed, multiple, options, voters, lenient, lastKey, requests>>

LastOrder(rows) == CHOOSE n \in {o.order : o \in rows} : \A o \in rows : o.order <= n

Free(t) == t \notin OptionTexts(options)

(* _create_custom_option and the vote for it, in one transaction that is   *)
(* rolled back when the survey has closed.                                 *)
FinishCustom(r) ==
    /\ r.kind = "custom" /\ present /\ ~closed /\ r.voter \in voters
    /\ Free(r.list[1]) /\ r.keys \subseteq OptionKeys(options)
    /\ lastKey < MaxOptions /\ lastKey' = lastKey + 1
    /\ options' = options \cup
         {[key |-> lastKey', text |-> r.list[1], order |-> LastOrder(options) + 1]}
    /\ votes' = Replace(r.voter, r.keys \cup {lastKey'}, options')
    /\ Done(r)
    /\ UNCHANGED <<present, closed, multiple, voters, lenient, requests>>

(* create_options: the rows whose texts are in the list are kept and       *)
(* renumbered, the others go with their votes, the missing ones come.      *)
Position(l, t) == CHOOSE i \in DOMAIN l : l[i] = t
Kept(l) == {o \in options : \E i \in DOMAIN l : l[i] = o.text}
Missing(l) == {i \in DOMAIN l : l[i] \notin OptionTexts(options)}

Renumbered(l) == {[o EXCEPT !.order = Position(l, o.text) - 1] : o \in Kept(l)}
Created(l) == {[key  |-> lastKey + Cardinality({j \in Missing(l) : j <= i}),
                text |-> l[i], order |-> i - 1] : i \in Missing(l)}

(* The form asks for an end in the future.                                 *)
FinishEdit(r) ==
    /\ r.kind = "edit" /\ present
    /\ lastKey' = lastKey + Cardinality(Missing(r.list)) /\ lastKey' <= MaxOptions
    /\ options' = Renumbered(r.list) \cup Created(r.list)
    /\ votes' = [u \in Voters |-> votes[u] \cap OptionKeys(options')]
    /\ multiple' = r.multiple /\ closed' = FALSE
    /\ Done(r)
    /\ UNCHANGED <<present, voters, lenient, requests>>

(* The new end has passed already: the row is saved, the options are kept. *)
FinishLateEdit(r) ==
    /\ r.kind = "edit" /\ present
    /\ multiple' = r.multiple /\ closed' = TRUE
    /\ Done(r)
    /\ UNCHANGED <<present, options, votes, voters, lenient, lastKey, requests>>

(* The request is refused or fails.                                        *)
GiveUp(r) ==
    /\ Done(r)
    /\ UNCHANGED <<present, closed, multiple, options, votes, voters, lenient, lastKey, requests>>

survey_delete ==
    /\ present /\ present' = FALSE
    /\ options' = {} /\ votes' = [v \in Voters |-> {}]
    /\ UNCHANGED <<closed, multiple, voters, open, lenient, lastKey, requests>>

Expire ==
    /\ present /\ ~closed /\ closed' = TRUE
    /\ UNCHANGED <<present, multiple, options, votes, voters, open, lenient, lastKey, requests>>

(* The account of v is deleted (SET_NULL).                                 *)
Leave(v) ==
    /\ v \in voters /\ voters' = voters \ {v}
    /\ UNCHANGED <<present, closed, multiple, options, votes, open, lenient, lastKey, requests>>

Next ==
    \/ \E v \in Voters : BeginVote(v) \/ BeginCustom(v) \/ BeginEdit(v) \/ Leave(v)
    \/ \E r \in open : FinishVote(r) \/ FinishCustom(r) \/ FinishEdit(r)
                     \/ FinishLateEdit(r) \/ GiveUp(r)
    \/ survey_delete \/ Expire

Spec == Init /\ [][Next]_vars

-----------------------------------------------------------------------------
(* Properties                                                              *)

(* Every variable has its type.                                            *)
TypeOK ==
    /\ present \in BOOLEAN /\ closed \in BOOLEAN /\ multiple \in BOOLEAN /\ lenient \in BOOLEAN
    /\ options \subseteq [key : Keys, text : Texts, order : 0..MaxOptions]
    /\ votes \in [Voters -> SUBSET Keys] /\ voters \subseteq Voters

(* Where no request has ever found several answers allowed, nobody has     *)
(* more than one, however votes, own options and edits cross.              *)
OneAnswer == ~lenient => \A v \in Voters : Cardinality(votes[v]) <= 1

(* Keys, texts and order numbers tell the options apart, and every vote    *)
(* is for one of them.                                                     *)
OptionsDiffer ==
    /\ \A a, b \in options : a # b => a.key # b.key /\ a.text # b.text /\ a.order # b.order
    /\ \A v \in Voters : votes[v] \subseteq OptionKeys(options)

SurveyInvariant == TypeOK /\ OneAnswer /\ OptionsDiffer

(* The result of a closed survey is final as soon as the requests that     *)
(* found it open are done: no later vote, option or edit gets past the     *)
(* checks, and nothing else changes it.                                    *)
ClosedIsFinal ==
    [][closed /\ open = {} /\ present' => UNCHANGED <<closed, options, votes, open>>]_vars

(* The answers are fair while the survey is open, and final after.         *)
SurveyIsFair == []SurveyInvariant /\ ClosedIsFinal
=============================================================================
