------------------------------ MODULE Categories ------------------------------
(***************************************************************************)
(* The categories of activities, documents or bookings, and the dialog in  *)
(* which a member manages them (category-manager.js, sortable-list.js).    *)
(* Requests of the dialog and of another member are handled and answered   *)
(* in any order; a view that looks before it writes takes two steps.       *)
(*                                                                         *)
(* Left out: descriptions, the length of names, and a dialog opened again, *)
(* as closing it loads the page.                                           *)
(***************************************************************************)
EXTENDS Integers, FiniteSets, SequencesExt

CONSTANTS
    Names,      \* what categories are called, numbers: lists are sorted by them
    MaxIds,     \* how many categories there ever are
    Budgets     \* how many clicks, moves of others and losses: records

VARIABLES
    kind,       \* whose categories
    cats,       \* those stored: id -> name, order, slug and whether it is protected
    gone,       \* the ids that were deleted
    filed,      \* the items and their category, 0 for none; those lost with one are not there
    page,       \* the dialog
    sent, replies,
    left

vars == <<kind, cats, gone, filed, page, sent, replies, left>>

Ids == 1 .. MaxIds
Items == {"item"}
Protected == 1
Spend(what) == left[what] > 0 /\ left' = [left EXCEPT ![what] = @ - 1]

-----------------------------------------------------------------------------
(* What the views do                                                       *)

Before(i, j) ==
    LET a == cats[i] b == cats[j]
    IN a.order < b.order \/ (a.order = b.order /\ (a.name < b.name \/ (a.name = b.name /\ i < j)))

\* The list in the order of the model, every category with its items.
ItemsOf(c) == {i \in DOMAIN filed : filed[i] = c}
serialize(c) == [id |-> c, name |-> cats[c].name, count |-> Cardinality(ItemsOf(c)), busy |-> FALSE]
Stored == SetToSortSeq(DOMAIN cats, Before)
_get_queryset == [k \in DOMAIN Stored |-> serialize(Stored[k])]

\* Every name makes the same slug here, to which a counter is added.
FreeSlug == CHOOSE s \in Ids : /\ \A c \in DOMAIN cats : cats[c].slug # s
                               /\ \A t \in Ids : (\A c \in DOMAIN cats : cats[c].slug # t) => s <= t
Duplicate(name, c) == \E o \in DOMAIN cats \ {c} : cats[o].name = name

Known(c) == c \in DOMAIN cats
Next_id == 1 + Cardinality(DOMAIN cats \cup gone)

Answered(r, ok, what) ==
    /\ sent' = sent \ {r}
    /\ replies' = IF r.by = "other" \/ r.lost THEN replies
                  ELSE replies \cup {[op |-> r.op, id |-> r.id, n |-> r.n, ok |-> ok, what |-> what]}
Refused(r) == Answered(r, FALSE, <<>>) /\ UNCHANGED <<cats, filed, gone>>
Goes_on(r, slug) ==
    /\ sent' = (sent \ {r}) \cup {[r EXCEPT !.checked = TRUE, !.slug = slug]}
    /\ UNCHANGED <<cats, filed, gone, replies>>

CategoryAPIBase_get(r) ==
    /\ r.op = "list" /\ Answered(r, TRUE, _get_queryset)
    /\ UNCHANGED <<cats, filed, gone>>

\* Bookings have a name once, activities a slug; both are looked up first
\* and enforced by the table.
CategoryAPIBase_post(r) ==
    /\ r.op = "add" /\ Cardinality(DOMAIN cats \cup gone) < MaxIds
    /\ \/ kind = "bookkeeping" /\ ~r.checked /\ Duplicate(r.name, 0) /\ Refused(r)
       \/ kind = "bookkeeping" /\ ~r.checked /\ ~Duplicate(r.name, 0) /\ Goes_on(r, 0)
       \/ kind = "tasks" /\ ~r.checked /\ Goes_on(r, FreeSlug)
       \/ /\ r.checked
          /\ \/ kind = "bookkeeping" /\ Duplicate(r.name, 0)
             \/ kind = "tasks" /\ \E c \in DOMAIN cats : cats[c].slug = r.slug
          /\ Refused(r)
       \/ /\ kind = "board" \/ r.checked
          /\ ~(kind = "bookkeeping" /\ Duplicate(r.name, 0))
          /\ ~(kind = "tasks" /\ \E c \in DOMAIN cats : cats[c].slug = r.slug)
          /\ cats' = cats @@ (Next_id :> [name |-> r.name, order |-> IF kind = "board" THEN 10 ELSE 0, slug |-> r.slug])
          /\ Answered(r, TRUE, <<[id |-> Next_id, name |-> r.name, count |-> 0, busy |-> FALSE]>>)
          /\ UNCHANGED <<filed, gone>>

\* Of bookings alone the protected ones cannot be renamed.
Barred(r) == kind = "bookkeeping" /\ (r.id = Protected \/ Duplicate(r.name, r.id))

\* Only the named columns are written: a row that is gone stays gone.
CategoryEditAPI_post(r) ==
    /\ r.op = "edit"
    /\ \/ /\ ~r.checked
          /\ IF ~Known(r.id) \/ Barred(r)
             THEN Refused(r) ELSE Goes_on(r, 0)
       \/ /\ r.checked
          /\ IF ~Known(r.id) \/ (kind = "bookkeeping" /\ Duplicate(r.name, r.id))
             THEN Refused(r)
             ELSE /\ cats' = [cats EXCEPT ![r.id].name = r.name]
                  /\ Answered(r, TRUE, <<[id |-> r.id, name |-> r.name, count |-> 0, busy |-> FALSE]>>)
                  /\ UNCHANGED <<filed, gone>>

InUse(r) == kind = "bookkeeping" /\ ItemsOf(r.id) # {}

\* Bookings go with their category, other items are left without one.
Unfiled(c) ==
    IF kind = "bookkeeping" THEN [i \in DOMAIN filed \ ItemsOf(c) |-> filed[i]]
    ELSE [i \in DOMAIN filed |-> IF filed[i] = c THEN 0 ELSE filed[i]]

CategoryDeleteAPI_post(r) ==
    /\ r.op = "delete"
    /\ \/ /\ ~r.checked
          /\ IF ~Known(r.id) \/ r.id = Protected \/ InUse(r)
             THEN Refused(r) ELSE Goes_on(r, 0)
       \/ /\ r.checked
          /\ cats' = [c \in DOMAIN cats \ {r.id} |-> cats[c]]
          /\ gone' = gone \cup {r.id} /\ filed' = Unfiled(r.id)
          /\ Answered(r, TRUE, <<>>)

CategoryItemsAPI_get(r) ==
    /\ r.op = "items"
    /\ IF Known(r.id) THEN Answered(r, TRUE, <<serialize(r.id)>>) ELSE Answered(r, FALSE, <<>>)
    /\ UNCHANGED <<cats, filed, gone>>

\* Categories that are not in the list keep their order.
CategoryReorderAPI_post(r) ==
    /\ r.op = "reorder"
    /\ cats' = [c \in DOMAIN cats |->
                  IF \E k \in DOMAIN r.order : r.order[k] = c
                  THEN [cats[c] EXCEPT !.order = CHOOSE k \in DOMAIN r.order : r.order[k] = c]
                  ELSE cats[c]]
    /\ Answered(r, TRUE, <<>>) /\ UNCHANGED <<filed, gone>>

Handle(r) ==
    /\ \/ CategoryAPIBase_get(r) \/ CategoryAPIBase_post(r) \/ CategoryEditAPI_post(r)
       \/ CategoryDeleteAPI_post(r) \/ CategoryItemsAPI_get(r) \/ CategoryReorderAPI_post(r)
    /\ page' = [page EXCEPT !.foreign = @ \/ (r.by = "other" \/ r.lost),
                  !.jumbled = @ \/ (r.op = "reorder" /\ \E o \in sent : o.op = "reorder" /\ o.n > r.n),
                  !.loose = (@ \/ (r.op = "add" /\ Next_id \in DOMAIN cats')
                               \/ (r.op = "edit" /\ r.checked /\ Known(r.id) /\ \E c \in DOMAIN cats \ {r.id} : cats[c].order = cats[r.id].order))
                            /\ ~(r.op = "reorder" /\ {r.order[k] : k \in DOMAIN r.order} = DOMAIN cats)]
    /\ UNCHANGED <<kind, left>>

-----------------------------------------------------------------------------
(* The dialog                                                              *)

request(op, id, name, order) ==
    sent' = sent \cup {[by |-> "me", op |-> op, id |-> id, name |-> name, order |-> order, slug |-> 0,
                        n |-> left.clicks, checked |-> FALSE, lost |-> FALSE]}

At(id) == SelectInSeq(page.rows, LAMBDA row : row.id = id)
Busy(id, busy) == IF At(id) = 0 THEN page.rows ELSE [page.rows EXCEPT ![At(id)].busy = busy]
Free == {k \in DOMAIN page.rows : ~page.rows[k].busy /\ page.rows[k].id # Protected}

\* Shown for the first time, the dialog asks for the list; Add waits for it.
loadCategories ==
    /\ ~page.open /\ request("list", 0, 0, <<>>)
    /\ page' = [page EXCEPT !.open = TRUE, !.adding = TRUE, !.foreign = FALSE]
    /\ UNCHANGED <<kind, cats, gone, filed, replies, left>>

add ==
    /\ page.open /\ ~page.adding /\ Spend("clicks")
    /\ \E name \in Names : request("add", 0, name, <<>>)
    /\ page' = [page EXCEPT !.adding = TRUE]
    /\ UNCHANGED <<kind, cats, gone, filed, replies>>

startEdit ==
    /\ page.open /\ page.asking.id = 0 /\ Spend("clicks")
    /\ \E k \in Free, name \in Names :
          request("edit", page.rows[k].id, name, <<>>) /\ page' = [page EXCEPT !.rows[k].busy = TRUE]
    /\ UNCHANGED <<kind, cats, gone, filed, replies>>

\* Documents are listed in the question; otherwise it tells the number the
\* list came with.
deleteCategory ==
    /\ page.open /\ page.asking.id = 0 /\ Spend("clicks")
    /\ \E k \in Free :
          LET row == page.rows[k]
          IN IF kind = "board" /\ row.count > 0
             THEN request("items", row.id, 0, <<>>) /\ page' = [page EXCEPT !.rows[k].busy = TRUE]
             ELSE page' = [page EXCEPT !.asking = [id |-> row.id, count |-> row.count]] /\ UNCHANGED sent
    /\ UNCHANGED <<kind, cats, gone, filed, replies>>

performDelete ==
    /\ page.asking.id # 0
    /\ \/ request("delete", page.asking.id, 0, <<>>)
          /\ page' = [page EXCEPT !.asking = [id |-> 0, count |-> 0], !.rows = Busy(page.asking.id, TRUE)]
       \/ page' = [page EXCEPT !.asking = [id |-> 0, count |-> 0]] /\ UNCHANGED sent
    /\ UNCHANGED <<kind, cats, gone, filed, replies, left>>

\* A row is dragged, whatever the others are waiting for.
onEnd ==
    /\ page.open /\ page.asking.id = 0 /\ Spend("clicks")
    /\ \E from, to \in DOMAIN page.rows :
          /\ from # to
          /\ LET rows == InsertAt(RemoveAt(page.rows, from), to, page.rows[from])
             IN /\ page' = [page EXCEPT !.rows = rows]
                /\ request("reorder", 0, 0, [k \in DOMAIN rows |-> rows[k].id])
    /\ UNCHANGED <<kind, cats, gone, filed, replies>>

Receive(a) ==
    /\ replies' = replies \ {a}
    /\ page' =
         LET p == [page EXCEPT !.rows = Busy(a.id, FALSE), !.adding = @ /\ a.op \notin {"list", "add"},
                               !.error = ~a.ok, !.failed = @ \/ (~a.ok /\ a.op \in {"list", "reorder"})]
         IN CASE ~a.ok -> p
              [] a.op = "list" -> [p EXCEPT !.rows = a.what]
              [] a.op = "add" -> [p EXCEPT !.rows = page.rows \o a.what]
              [] a.op = "edit" /\ At(a.id) # 0 -> [p EXCEPT !.rows[At(a.id)].name = a.what[1].name]
              [] a.op = "delete" -> [p EXCEPT !.rows = SelectSeq(page.rows, LAMBDA row : row.id # a.id)]
              [] a.op = "items" -> [p EXCEPT !.asking = [id |-> a.id, count |-> a.what[1].count]]
              [] OTHER -> p
    /\ UNCHANGED <<kind, cats, gone, filed, sent, left>>

\* The request may have been worked off although no answer comes.
Lose(r) ==
    /\ r.by = "me" /\ ~r.lost /\ Spend("faults")
    /\ sent' = (sent \ {r}) \cup {[r EXCEPT !.lost = TRUE]}
    /\ replies' = replies \cup {[op |-> r.op, id |-> r.id, n |-> r.n, ok |-> FALSE, what |-> <<>>]}
    /\ UNCHANGED <<kind, cats, gone, filed, page>>

\* Another member's dialog, the pages of bookkeeping, or an item that is filed.
Foreign ==
    /\ Spend("others")
    /\ \/ /\ \E op \in {"add", "delete", "edit"}, c \in DOMAIN cats, name \in Names :
               /\ op = "add" => c = Protected
               /\ op = "delete" => name = CHOOSE first \in Names : TRUE
               /\ op = "edit" => c # Protected
               /\ sent' = sent \cup {[by |-> "other", op |-> op, id |-> c, name |-> name, order |-> <<>>, slug |-> 0,
                                      n |-> 0, checked |-> FALSE, lost |-> FALSE]}
          /\ UNCHANGED <<filed, page>>
       \/ /\ \E i \in DOMAIN filed, c \in DOMAIN cats :
               /\ filed' = [filed EXCEPT ![i] = c]
               /\ page' = [page EXCEPT !.foreign = TRUE,
                     !.raced = IF \E r \in sent : r.op = "delete" /\ r.checked /\ r.id = c THEN @ \cup {i} ELSE @]
          /\ UNCHANGED sent
    /\ UNCHANGED <<kind, cats, gone, replies>>

Init ==
    /\ kind \in {"tasks", "board", "bookkeeping"} /\ left \in Budgets
    /\ \E tied \in BOOLEAN : cats = [c \in {1, 2} |-> [name |-> c, order |-> IF tied THEN 0 ELSE c, slug |-> c]]
    /\ gone = {} /\ \E c \in {0, 2} : filed = [i \in Items |-> c]
    /\ page = [open |-> FALSE, rows |-> <<>>, asking |-> [id |-> 0, count |-> 0], adding |-> FALSE, error |-> FALSE,
               failed |-> FALSE, loose |-> FALSE, jumbled |-> FALSE, foreign |-> FALSE, raced |-> {}]
    /\ sent = {} /\ replies = {}

Next ==
    \/ loadCategories \/ add \/ startEdit \/ deleteCategory \/ performDelete \/ onEnd \/ Foreign
    \/ \E r \in sent : Handle(r) \/ Lose(r)
    \/ \E a \in replies : Receive(a)

-----------------------------------------------------------------------------
(* Properties                                                              *)

TypeOK == DOMAIN cats \subseteq Ids /\ DOMAIN filed \subseteq Items /\ gone \subseteq Ids

Alone == sent = {} /\ replies = {} /\ page.open /\ ~page.foreign /\ ~page.failed
Rows == [k \in DOMAIN page.rows |-> page.rows[k].id]

(* While nobody else works on the categories, the rows of the dialog are   *)
(* the categories stored, under their names, whatever answers overtook one *)
(* another; none waits for an answer that will not come.                   *)
RowsAreStored ==
    Alone => /\ {Rows[k] : k \in DOMAIN Rows} = DOMAIN cats /\ IsInjective(Rows)
             /\ \A k \in DOMAIN Rows : page.rows[k].name = cats[Rows[k]].name
             /\ ~page.adding /\ \A k \in DOMAIN Rows : ~page.rows[k].busy

(* They stand in the order the pages list them, once the last drag was the *)
(* last to be stored, unless a category has been added since, which comes  *)
(* first on the pages and last in the dialog.                              *)
OrderIsStored == Alone /\ ~page.loose /\ ~page.jumbled => Rows = Stored

(* The number of items in the question is the one there is.                *)
CountIsTold ==
    page.asking.id # 0 /\ sent = {} /\ ~page.foreign => page.asking.count = Cardinality(ItemsOf(page.asking.id))

(* A category that was deleted does not come back, protected ones stay,    *)
(* and no item is left in a category that is not there.                    *)
NothingComesBack ==
    /\ DOMAIN cats \cap gone = {} /\ Protected \in DOMAIN cats
    /\ \A i \in DOMAIN filed : filed[i] \in DOMAIN cats \cup {0}

(* Items outlive their category, but for bookings filed under it after the *)
(* view has looked for them.                                               *)
ItemsSurvive == Items \ DOMAIN filed \subseteq IF kind = "bookkeeping" THEN page.raced ELSE {}

(* No two categories of bookings have one name, and no two of activities   *)
(* the word by which pages are filtered.                                   *)
NamesAreTold ==
    \A c, o \in DOMAIN cats : c # o =>
        /\ kind = "bookkeeping" => cats[c].name # cats[o].name
        /\ kind = "tasks" => cats[c].slug # cats[o].slug

CategoriesInvariant ==
    TypeOK /\ RowsAreStored /\ OrderIsStored /\ CountIsTold /\ NothingComesBack /\ ItemsSurvive /\ NamesAreTold
=============================================================================
