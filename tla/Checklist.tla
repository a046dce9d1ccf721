----------------------------- MODULE Checklist -----------------------------
(***************************************************************************)
(* The checklist of a task (tasks/views.py, TaskSubtask): rows with a      *)
(* parent and an order number, changed by requests of those who may manage *)
(* it, each in a transaction.  It implements Outline.                      *)
(***************************************************************************)
EXTENDS Integers, FiniteSets, SequencesExt

CONSTANTS
    Keys,     \* primary keys, positive numbers
    MaxOrder  \* bound: the order numbers in use

VARIABLES
    rows,       \* the subtasks: key -> [parent, order]
    completed,  \* those with is_completed
    gesture     \* history: the last request, and its subtask

vars == <<rows, completed, gesture>>

Root == 0  \* parent is NULL

Init == rows = <<>> /\ completed = {} /\ gesture = <<"none", 0>>

Did(what, k) == gesture' = <<what, k>>

Present == DOMAIN rows
Children(k) == {c \in Present : rows[c].parent = k}

(* Meta.ordering: by order, then by key.                                   *)
Before(a, b) == rows[a].order < rows[b].order \/ (rows[a].order = rows[b].order /\ a < b)
Sorted(parent) == SetToSortSeq(Children(parent), Before)

Position(s, k) == CHOOSE i \in DOMAIN s : s[i] = k

(* The order that puts a new row after its siblings: Max("order") + 1.     *)
MutantNext(parent) == Cardinality(Children(parent))
NextOrder(parent) ==
    IF Children(parent) = {} THEN 0
    ELSE 1 + Max({rows[c].order : c \in Children(parent)})

(* The rows with those of s numbered in their order in s.                  *)
Numbered(r, s) ==
    [k \in DOMAIN r |-> IF k \in ToSet(s) THEN [r[k] EXCEPT !.order = Position(s, k) - 1]
                                          ELSE r[k]]

add_subtask ==
    \E k \in Keys \ Present :
        /\ NextOrder(Root) <= MaxOrder
        /\ rows' = [x \in Present \cup {k} |->
                      IF x = k THEN [parent |-> Root, order |-> NextOrder(Root)] ELSE rows[x]]
        /\ UNCHANGED completed /\ Did("add", k)

(* A parent sets its children, a child its parent.                         *)
toggle_subtask(k) ==
    LET now == IF k \in completed THEN completed \ {k} ELSE completed \cup {k}
        p   == rows[k].parent
    IN  /\ completed' =
             IF p # Root
             THEN IF Children(p) \subseteq now THEN now \cup {p} ELSE now \ {p}
             ELSE IF k \in now THEN now \cup Children(k) ELSE now \ Children(k)
        /\ UNCHANGED rows /\ Did("tick", k)

delete_subtask(k) ==
    /\ Children(k) = {}
    /\ rows' = [x \in Present \ {k} |-> rows[x]]
    /\ completed' = completed \ {k}
    /\ Did("delete", k)

(* Changes places with a neighbour, and numbers all siblings.              *)
move_subtask(k, direction) ==
    LET s == Sorted(rows[k].parent)
        i == Position(s, k)
        j == IF direction = "up" THEN i - 1 ELSE i + 1
    IN  /\ j \in DOMAIN s
        /\ rows' = Numbered(rows, [s EXCEPT ![i] = s[j], ![j] = s[i]])
        /\ UNCHANGED completed /\ Did(direction, k)

Nested(k, p) == [rows EXCEPT ![k] = [parent |-> p, order |-> NextOrder(p)]]

(* The last child of the root before it; then the roots are numbered.      *)
indent_subtask(k) ==
    LET s == Sorted(Root) IN
    /\ rows[k].parent = Root /\ Children(k) = {}
    /\ Position(s, k) > 1
    /\ LET p == s[Position(s, k) - 1] IN
       /\ NextOrder(p) <= MaxOrder
       /\ rows' = Numbered(Nested(k, p), RemoveAt(s, Position(s, k)))
    /\ UNCHANGED completed /\ Did("indent", k)

(* The root after its parent; then both lists are numbered.                *)
outdent_subtask(k) ==
    LET p == rows[k].parent   s == Sorted(Root) IN
    /\ p # Root
    /\ LET out == [rows EXCEPT ![k].parent = Root]
           below == Sorted(p)
       IN  rows' = Numbered(Numbered(out, InsertAt(s, Position(s, p) + 1, k)),
                            RemoveAt(below, Position(below, k)))
    /\ UNCHANGED completed /\ Did("outdent", k)

(* One level of nesting.                                                   *)
Hierarchy(r) ==
    \A k \in DOMAIN r :
        r[k].parent = Root \/ (r[k].parent \in DOMAIN r \ {k} /\ r[r[k].parent].parent = Root)

(* Every list of siblings is numbered from 0 on.                           *)
Orders(r) ==
    \A k \in DOMAIN r :
        LET siblings == {x \in DOMAIN r : r[x].parent = r[k].parent}
        IN  {r[x].order : x \in siblings} = 0..(Cardinality(siblings) - 1)

(* The browser sends every row with its parent and order; a list that does *)
(* not fit the rows or the rules is refused.                               *)
reorder_subtasks ==
    /\ \E r \in [Present -> [parent : Present \cup {Root}, order : 0..(Cardinality(Present) - 1)]] :
         Hierarchy(r) /\ Orders(r) /\ rows' = r
    /\ UNCHANGED completed /\ Did("drag", 0)

Next ==
    \/ add_subtask \/ reorder_subtasks
    \/ \E k \in Present :
         \/ toggle_subtask(k) \/ delete_subtask(k)
         \/ move_subtask(k, "up") \/ move_subtask(k, "down")
         \/ indent_subtask(k) \/ outdent_subtask(k)

Spec == Init /\ [][Next]_vars

-----------------------------------------------------------------------------
(* Properties                                                              *)

(* What a user sees.                                                       *)
Shown == [i \in 1..Cardinality(Children(Root)) |->
            [head |-> Sorted(Root)[i], below |-> Sorted(Sorted(Root)[i])]]

Abstract == INSTANCE Outline WITH Points <- Keys, outline <- Shown, ticked <- completed

(* Rows with numbers behave as the outline that users edit: every request  *)
(* does what it says, and nothing else.                                    *)
ImplementsOutline == Abstract!Spec

(* A checklist has one level of nesting, no row outside it, and no two     *)
(* siblings with the same number, whose order a key would decide.          *)
WellFormed ==
    /\ Hierarchy(rows)
    /\ completed \subseteq Present
    /\ \A a, b \in Present :
         a # b /\ rows[a].parent = rows[b].parent => rows[a].order # rows[b].order
=============================================================================
