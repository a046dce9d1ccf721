---------------------------- MODULE Bookkeeping ----------------------------
(***************************************************************************)
(* The ledger, bookkeeping/views.py, models.py and services.py:            *)
(* transactions with their asset, category and partner, who may change     *)
(* them, and the two reports that add them up.                             *)
(*                                                                         *)
(* The requests check first and write later, each write a transaction of   *)
(* its own; only a claim reads and writes in one, and SQLite refuses its   *)
(* write when another one has been committed since it read.  Categories    *)
(* and partners take their transactions along (CASCADE), assets are        *)
(* protected by them (PROTECT); the views look for transactions first.     *)
(***************************************************************************)
EXTENDS Integers, FiniteSets, FiniteSetsExt, Functions

CONSTANTS
    Users, Categories, Partners, Assets,
    ProtectedRows, \* the categories with is_protected
    Amounts,
    MaxKey,        \* bound: transactions ever created
    MaxOpens,      \* bound: requests under way at once
    MaxRequests    \* bound: requests

VARIABLES
    accounts,
    rowState,      \* category, partner or asset -> "new", "present", "deleted"
    ledger,        \* key -> [type, entity, category, partner, amount, author]
    requestsOpen,  \* requests under way, with what they have loaded
    orphaned,      \* history: transactions an edit has written without author
    lastKey, made

vars == <<accounts, rowState, ledger, requestsOpen, orphaned, lastKey, made>>

Nobody == "nobody"
Rows == Categories \cup Partners \cup Assets
Present == {x \in Rows : rowState[x] = "present"}
Refs(t) == {t.entity, t.category, t.partner}
Under(x) == {k \in DOMAIN ledger : x \in Refs(ledger[k])}

Forms ==
    [type : {"I", "O"}, entity : Assets, category : Categories, partner : Partners,
     amount : Amounts]

(* The form offers the rows that are there.                                *)
ValidForms == {f \in Forms : Refs(f) \subseteq Present}

Init ==
    /\ accounts = Users
    /\ rowState \in {[x \in Rows |-> IF x = new THEN "new" ELSE "present"] : new \in Categories}
    /\ ledger = <<>> /\ requestsOpen = {} /\ orphaned = {} /\ lastKey = 0 /\ made = 0

-----------------------------------------------------------------------------
(* What a request has checked and loaded                                   *)

Open(r) ==
    /\ Cardinality(requestsOpen) < MaxOpens /\ made < MaxRequests
    /\ made' = made + 1
    /\ requestsOpen' = requestsOpen \cup {r}
    /\ UNCHANGED <<accounts, rowState, ledger, orphaned, lastKey>>

Request(kind, u, k, row, x) ==
    [kind |-> kind, user |-> u, key |-> k, row |-> row, ref |-> x,
     under |-> IF x = "none" THEN {} ELSE Under(x), stale |-> FALSE]

WithAuthor(f, u) ==
    [type |-> f.type, entity |-> f.entity, category |-> f.category,
     partner |-> f.partner, amount |-> f.amount, author |-> u]

NoRow == WithAuthor([type |-> "none", entity |-> "none", category |-> "none",
                     partner |-> "none", amount |-> 0], Nobody)

BeginCreate(u) ==
    \E f \in ValidForms : Open(Request("create", u, 0, WithAuthor(f, u), "none"))

BeginClaim(u) ==
    \E k \in DOMAIN ledger :
        ledger[k].author = Nobody /\ Open(Request("claim", u, k, ledger[k], "none"))

(* test_func loads the row to look at its author.                          *)
BeginUpdate(u) ==
    \E k \in DOMAIN ledger :
        ledger[k].author = u /\ Open(Request("mayUpdate", u, k, ledger[k], "none"))

(* The view loads it once more, without looking; the form leaves its       *)
(* author alone.                                                           *)
LoadUpdate(r) ==
    /\ r.kind = "mayUpdate" /\ r.key \in DOMAIN ledger
    /\ \E f \in ValidForms :
         requestsOpen' = (requestsOpen \ {r}) \cup
             {[r EXCEPT !.kind = "update", !.row = WithAuthor(f, ledger[r.key].author)]}
    /\ UNCHANGED <<accounts, rowState, ledger, orphaned, lastKey, made>>

BeginDelete(u) ==
    \E k \in DOMAIN ledger :
        ledger[k].author = u /\ Open(Request("delete", u, k, ledger[k], "none"))

(* A category, a partner or an asset: not a protected one, not one in use. *)
BeginDrop(u) ==
    \E x \in Present \ ProtectedRows :
        Under(x) = {} /\ Open(Request("drop", u, 0, NoRow, x))

-----------------------------------------------------------------------------
(* Writes; each makes stale what the claims under way have read            *)

CloseAll(rs) ==
    requestsOpen' = {IF q.kind = "claim" THEN [q EXCEPT !.stale = TRUE] ELSE q :
                       q \in requestsOpen \ rs}
Close(r) == CloseAll({r})

(* Transaction.save looks for the asset; the database for the rest.        *)
Intact(row) == Refs(row) \subseteq Present /\ row.author \in accounts \cup {Nobody}

Create(r) ==
    /\ r.kind = "create" /\ Intact(r.row) /\ lastKey < MaxKey
    /\ lastKey' = lastKey + 1
    /\ ledger' = [k \in DOMAIN ledger \cup {lastKey + 1} |->
                    IF k = lastKey + 1 THEN r.row ELSE ledger[k]]
    /\ Close(r) /\ UNCHANGED <<accounts, rowState, orphaned, made>>

Claim(r) ==
    /\ r.kind = "claim" /\ ~r.stale /\ r.key \in DOMAIN ledger /\ r.user \in accounts
    /\ ledger' = [ledger EXCEPT ![r.key].author = r.user]
    /\ Close(r) /\ UNCHANGED <<accounts, rowState, orphaned, lastKey, made>>

(* The whole row; Django inserts it again when it is gone.                 *)
Update(r) ==
    /\ r.kind = "update" /\ Intact(r.row)
    /\ ledger' = [k \in DOMAIN ledger \cup {r.key} |-> IF k = r.key THEN r.row ELSE ledger[k]]
    /\ orphaned' = IF r.row.author = Nobody THEN orphaned \cup {r.key} ELSE orphaned
    /\ Close(r) /\ UNCHANGED <<accounts, rowState, lastKey, made>>

Delete(r) ==
    /\ r.kind = "delete"
    /\ ledger' = Restrict(ledger, DOMAIN ledger \ {r.key})
    /\ Close(r) /\ UNCHANGED <<accounts, rowState, orphaned, lastKey, made>>

Drop(r) ==
    /\ r.kind = "drop" /\ r.ref \in Present
    /\ r.ref \in Assets => Under(r.ref) = {}
    /\ rowState' = [rowState EXCEPT ![r.ref] = "deleted"]
    /\ ledger' = Restrict(ledger, DOMAIN ledger \ Under(r.ref))
    /\ Close(r) /\ UNCHANGED <<accounts, orphaned, lastKey, made>>

(* A row is gone, a constraint or the snapshot refuses the write.          *)
Fail(r) ==
    /\ requestsOpen' = requestsOpen \ {r}
    /\ UNCHANGED <<accounts, rowState, ledger, orphaned, lastKey, made>>

CreateRow ==
    \E x \in Rows :
        /\ rowState[x] = "new"
        /\ rowState' = [rowState EXCEPT ![x] = "present"]
        /\ CloseAll({}) /\ UNCHANGED <<accounts, ledger, orphaned, lastKey, made>>

(* An account goes: its transactions stay, without an author (SET_NULL).   *)
Leave(u) ==
    /\ u \in accounts /\ accounts' = accounts \ {u}
    /\ ledger' = [k \in DOMAIN ledger |->
                    IF ledger[k].author = u THEN [ledger[k] EXCEPT !.author = Nobody]
                                            ELSE ledger[k]]
    /\ CloseAll({}) /\ UNCHANGED <<rowState, orphaned, lastKey, made>>

Next ==
    \/ \E u \in accounts :
         \/ BeginCreate(u) \/ BeginClaim(u) \/ BeginUpdate(u) \/ BeginDelete(u) \/ BeginDrop(u)
         \/ Leave(u)
    \/ \E r \in requestsOpen :
         LoadUpdate(r) \/ Create(r) \/ Claim(r) \/ Update(r) \/ Delete(r) \/ Drop(r) \/ Fail(r)
    \/ CreateRow

Spec == Init /\ [][Next]_vars

-----------------------------------------------------------------------------
(* Reports                                                                 *)

Total(ks) == MapThenSumSet(LAMBDA k : ledger[k].amount, ks)
Of(asset, type) == {k \in Under(asset) : ledger[k].type = type}

(* asset_balances: one row per asset with transactions.                    *)
Balance(asset) == Total(Of(asset, "I")) - Total(Of(asset, "O"))
asset_balances == [a \in {b \in Assets : Under(b) # {}} |-> Balance(a)]

(* category_breakdown: the net of every category and asset; cells that are *)
(* zero, and assets without another cell, are left out.                    *)
Net(category, asset) ==
    Total(Of(asset, "I") \cap Under(category)) - Total(Of(asset, "O") \cap Under(category))

Cells(asset) == {c \in Categories : Net(c, asset) # 0}
asset_totals == [a \in {b \in Assets : Cells(b) # {}} |->
                    MapThenSumSet(LAMBDA c : Net(c, a), Cells(a))]

-----------------------------------------------------------------------------
(* Properties                                                              *)

TypeOK ==
    /\ accounts \subseteq Users
    /\ rowState \in [Rows -> {"new", "present", "deleted"}]
    /\ DOMAIN ledger \cup orphaned \subseteq 1..lastKey /\ lastKey \in 0..MaxKey
    /\ \A k \in DOMAIN ledger :
         ledger[k] \in [type : {"I", "O"}, entity : Assets, category : Categories,
                        partner : Partners, amount : Amounts, author : Users \cup {Nobody}]

(* Both reports show the same money: an asset has the balance of its       *)
(* column, and one without a column has none.                              *)
ReportsAgree ==
    /\ DOMAIN asset_totals \subseteq DOMAIN asset_balances
    /\ \A a \in DOMAIN asset_balances :
         asset_balances[a] = IF a \in DOMAIN asset_totals THEN asset_totals[a] ELSE 0

(* What a transaction refers to exists, whatever has been deleted between  *)
(* the form and the save.                                                  *)
LedgerInvariant == TypeOK /\ \A k \in DOMAIN ledger : Refs(ledger[k]) \subseteq Present

Ended(kind) == {r \in requestsOpen \ requestsOpen' : r.kind = kind}

(* A transaction goes only when someone who was its author deletes it, or  *)
(* with a category or a partner that it came under after the deletion had  *)
(* found it unused.                                                        *)
GoesByRight(k) ==
    \/ \E r \in Ended("delete") : r.key = k /\ r.row.author = r.user
    \/ \E r \in Ended("drop") : k \in Under(r.ref) \ r.under /\ r.ref \notin Assets

(* An edit whose author lost the account after the check and before the    *)
(* row was loaded for the form writes no author, though somebody may have  *)
(* claimed the transaction; the edits under way then write what they hold. *)
Erased(k) ==
    \E r \in Ended("update") :
        /\ r.key = k
        /\ k \in orphaned \/ (r.row.author = Nobody /\ r.user \notin accounts)

(* A transaction keeps its author as long as the account exists, however   *)
(* many claim or edit it, unless an edit that outlived the account of its  *)
(* own author erases it; and it goes only by right.                        *)
AuthorsDecide ==
    [][\A k \in DOMAIN ledger :
         IF k \in DOMAIN ledger'
         THEN \/ ledger[k].author \in accounts' => ledger'[k].author = ledger[k].author
              \/ Erased(k)
         ELSE GoesByRight(k)]_vars

(* The ledger is sound, and its authors decide about it.                   *)
LedgerIsFair == []LedgerInvariant /\ AuthorsDecide
=============================================================================
