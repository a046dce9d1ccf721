------------------------------ MODULE Outline ------------------------------
(***************************************************************************)
(* What the checklist of a task promises its users (tasks/FLOW.md, section *)
(* 3): a list of headings, each with a list of points below it, ticked and *)
(* edited by moving things one place at a time or by dragging them         *)
(* anywhere.                                                               *)
(***************************************************************************)
EXTENDS Naturals, FiniteSets, SequencesExt

CONSTANT Points

VARIABLES
    outline,  \* the headings in order: [head, below]
    ticked,   \* the points that are done
    gesture   \* what the user did last, and to which point

Heading(p, b) == [head |-> p, below |-> b]

InOutline(o) == {o[i].head : i \in DOMAIN o} \cup UNION {ToSet(o[i].below) : i \in DOMAIN o}

Size(o) == FoldSeq(LAMBDA h, n : n + 1 + Len(h.below), 0, o)

Init == outline = <<>> /\ ticked = {} /\ gesture = <<"none", 0>>

Did(what, p) == gesture' = <<what, p>>

AddPoint ==
    \E p \in Points \ InOutline(outline) :
        /\ outline' = Append(outline, Heading(p, <<>>))
        /\ UNCHANGED ticked /\ Did("add", p)

(* A point without anything below it goes.                                 *)
DeletePoint ==
    \E i \in DOMAIN outline :
        \/ /\ outline[i].below = <<>>
           /\ outline' = RemoveAt(outline, i)
           /\ ticked' = ticked \ {outline[i].head}
           /\ Did("delete", outline[i].head)
        \/ \E j \in DOMAIN outline[i].below :
             /\ outline' = [outline EXCEPT ![i].below = RemoveAt(@, j)]
             /\ ticked' = ticked \ {outline[i].below[j]}
             /\ Did("delete", outline[i].below[j])

(* A heading ticks what is below it; it is ticked when all of that is.     *)
Tick ==
    /\ UNCHANGED outline
    /\ \E i \in DOMAIN outline :
         LET h == outline[i].head   below == ToSet(outline[i].below) IN
         \/ /\ ticked' = IF h \in ticked THEN ticked \ (below \cup {h}) ELSE ticked \cup below \cup {h}
            /\ Did("tick", h)
         \/ \E p \in below :
              LET now == IF p \in ticked THEN ticked \ {p} ELSE ticked \cup {p} IN
              /\ ticked' = IF below \subseteq now THEN now \cup {h} ELSE now \ {h}
              /\ Did("tick", p)

(* Two neighbours change places; what is below a heading goes with it.     *)
Swapped(s, i) == [s EXCEPT ![i] = s[i + 1], ![i + 1] = s[i]]

Move ==
    /\ UNCHANGED ticked
    /\ \/ \E i \in 1..(Len(outline) - 1) :
            /\ outline' = Swapped(outline, i)
            /\ Did("down", outline[i].head) \/ Did("up", outline[i + 1].head)
       \/ \E i \in DOMAIN outline : \E j \in 1..(Len(outline[i].below) - 1) :
            /\ outline' = [outline EXCEPT ![i].below = Swapped(@, j)]
            /\ Did("down", outline[i].below[j]) \/ Did("up", outline[i].below[j + 1])

(* A heading becomes the last point of the one above it.                   *)
Indent ==
    \E i \in 2..Len(outline) :
        /\ outline[i].below = <<>>
        /\ outline' = RemoveAt([outline EXCEPT ![i - 1].below = Append(@, outline[i].head)], i)
        /\ UNCHANGED ticked /\ Did("indent", outline[i].head)

(* A point becomes the heading right after its own.                        *)
Outdent ==
    \E i \in DOMAIN outline : \E j \in DOMAIN outline[i].below :
        /\ outline' = InsertAt([outline EXCEPT ![i].below = RemoveAt(@, j)], i + 1,
                               Heading(outline[i].below[j], <<>>))
        /\ UNCHANGED ticked /\ Did("outdent", outline[i].below[j])

(* Dragging gives another outline of the same points.                      *)
Drag ==
    /\ InOutline(outline') = InOutline(outline)
    /\ Size(outline') = Size(outline)
    /\ UNCHANGED ticked /\ Did("drag", 0)

Next == AddPoint \/ DeletePoint \/ Tick \/ Move \/ Indent \/ Outdent \/ Drag

Spec == Init /\ [][Next]_<<outline, ticked, gesture>>
=============================================================================
