----------------------------- MODULE FilteredList -----------------------------
(***************************************************************************)
(* A list with the filter of categories above it, in one browser:          *)
(* category-filter.js, what PagePrefs (app.js) keeps in localStorage, and  *)
(* the views that build the list.  The three lists that use the filter     *)
(* differ: the page of activities fetches its list and then changes the    *)
(* address, the board hides groups and changes the address, the list of    *)
(* bookings is loaded again.                                               *)
(*                                                                         *)
(* Left out: sorting and searching, which travel in the address and are    *)
(* never changed without a load; addresses typed by hand; other windows of *)
(* the same browser; going forward again.                                  *)
(***************************************************************************)
EXTENDS Sequences, Integers

CONSTANTS
    Categories, Tabs,
    Budgets     \* how many clicks, visits, steps back, losses and deletions: records

VARIABLES
    kind,       \* which of the three lists
    exists,     \* the categories there are
    url, past,  \* the address, and those the page has pushed over
    page, fetching,
    store,      \* what the browser keeps
    left

vars == <<kind, exists, url, past, page, fetching, store, left>>

NoTab == "none"
Address == [tab : Tabs \cup {NoTab}, cats : SUBSET Categories]
Nowhere == [tab |-> "nowhere", cats |-> {}]
Plain == [tab |-> NoTab, cats |-> {}]
Views == {"list", "grid"}
Spend(what) == left[what] > 0 /\ left' = [left EXCEPT ![what] = @ - 1]

-----------------------------------------------------------------------------
(* What the views make of an address; no category means all of them        *)

current_tab(u) == IF u.tab # NoTab THEN u.tab ELSE IF kind = "tasks" THEN "mine" ELSE "public"
Listed(u, cats) == u.cats \cap cats

\* The board sends every group, and leaves hiding them to the page.
Delivered(u) == IF kind = "board" THEN {} ELSE Listed(u, exists)

\* The arrows of a page of details go over the list its address tells.
Neighbours == Listed(page.query, exists)

-----------------------------------------------------------------------------
(* What is kept                                                            *)

viewOf(s, tab) == IF tab \in DOMAIN s.views THEN s.views[tab] ELSE s.view

\* An empty address leaves the filters of its tab alone, and is returned to
\* only where the template names a tab.
saveCurrentFilters(s, u) ==
    [s EXCEPT !.filtersByTab[u.tab] = IF u = Plain THEN @ ELSE u,
              !.lastUrl = IF u = Plain /\ kind # "bookkeeping" THEN @ ELSE u]

\* The links of the tabs of activities keep the filter; those of the board
\* are given back what was last filtered under them.
steps(u) ==
    [t \in Tabs |-> [tab |-> t, cats |-> IF kind # "tasks" THEN {}
                                        ELSE IF Listed(u, exists) = {} THEN u.cats ELSE Listed(u, exists)]]
restoreTabFilters(s, links) ==
    [t \in Tabs |-> IF kind = "board" /\ s.filtersByTab[t] # Nowhere THEN s.filtersByTab[t] ELSE links[t]]

patchSidebarLinks(s) == IF s.lastUrl = Nowhere THEN Plain ELSE s.lastUrl

-----------------------------------------------------------------------------
(* Loading and clicking                                                    *)

\* The rows that an address selects, and what the selection hides.
initial(u) == Listed(u, exists)
updateUI(p) == IF kind = "board" THEN [p EXCEPT !.list = p.selected] ELSE p

\* A page for u; wish is what the reader has asked for.
Loaded(u, wish) ==
    LET s == saveCurrentFilters(store, u)
    IN /\ url' = u /\ past' = <<>> /\ fetching' = {} /\ store' = s
       /\ page' = updateUI([list |-> Delivered(u), selected |-> initial(u), wish |-> wish,
                            rows |-> exists, query |-> u, view |-> viewOf(store, u.tab),
                            links |-> restoreTabFilters(s, steps(u)), sidebar |-> patchSidebarLinks(s),
                            excuse |-> {}])

Load(u) == Loaded(u, initial(u))

\* By a tab, by the link of the sidebar of this page or of any other, or
\* by a link without a query.
Visit ==
    /\ Spend("visits")
    /\ \E u \in {page.links[t] : t \in Tabs} \cup {page.sidebar, patchSidebarLinks(store), Plain} : Load(u)
    /\ UNCHANGED <<kind, exists>>

Push(u) ==
    /\ url' = u /\ past' = Append(past, url)
    /\ store' = saveCurrentFilters(store, u)

\* The address a click asks for; the one of a fetch is kept before it is sent.
buildCategoryUrl(sel) == [url EXCEPT !.cats = sel]
Request(u) == [n |-> left.clicks, url |-> u]

updateHistory(sel) ==
    LET u == buildCategoryUrl(sel)
        p == updateUI([page EXCEPT !.selected = sel, !.wish = sel])
    IN \/ /\ u = url
          /\ page' = [p EXCEPT !.excuse = IF fetching = {} THEN @ ELSE @ \cup {"swallowed"}]
          /\ UNCHANGED <<url, past, fetching, store>>
       \/ /\ u # url /\ kind = "tasks"
          /\ page' = p /\ fetching' = fetching \cup {Request(u)}
          /\ store' = [store EXCEPT !.lastUrl = u, !.filtersByTab[url.tab] = IF u = Plain THEN Nowhere ELSE u]
          /\ UNCHANGED <<url, past>>
       \/ u # url /\ kind = "board" /\ page' = p /\ Push(u) /\ UNCHANGED fetching
       \/ u # url /\ kind = "bookkeeping" /\ page' = p /\ fetching' = {Request(u)} /\ UNCHANGED <<url, past, store>>

\* A row is toggled, or the row of all of them clears the others.
Click ==
    /\ Spend("clicks")
    /\ \/ \E c \in page.rows : updateHistory(IF c \in page.selected THEN page.selected \ {c} ELSE page.selected \cup {c})
       \/ updateHistory({})
    /\ UNCHANGED <<kind, exists>>

\* The list of activities is put in, whichever clicks came since.
fetchTasksList(f) ==
    /\ kind = "tasks" /\ fetching' = fetching \ {f}
    /\ Push(f.url)
    /\ page' = [page EXCEPT !.list = Listed(f.url, exists), !.query = f.url,
                            !.links = [t \in Tabs |-> [tab |-> t, cats |-> f.url.cats]],
                            !.view = viewOf(store, current_tab(f.url)),
                            !.excuse = @ \cup (IF \E o \in fetching : o.n > f.n THEN {"overtaken"} ELSE {})
                                         \cup (IF f.url.cats \subseteq exists THEN {} ELSE {"deleted"})]
    /\ UNCHANGED <<kind, exists, left>>

\* The browser gets to the bookings that were last asked for.
Arrive(f) ==
    /\ kind = "bookkeeping" /\ UNCHANGED <<kind, exists, left>>
    /\ IF "swallowed" \in page.excuse \/ ~(page.wish \subseteq exists) THEN Load(f.url) ELSE Loaded(f.url, page.wish)

\* A fetch that fails becomes a load of the same address.
Fail(f) == kind = "tasks" /\ Spend("faults") /\ Load(f.url) /\ UNCHANGED <<kind, exists>>

\* The address goes back, and is kept; list and rows stay as they are.
Back ==
    /\ past # <<>> /\ Spend("backs")
    /\ url' = past[Len(past)] /\ past' = SubSeq(past, 1, Len(past) - 1)
    /\ store' = saveCurrentFilters(store, url')
    /\ page' = [page EXCEPT !.excuse = @ \cup {"back"}]
    /\ UNCHANGED <<kind, exists, fetching>>

setView ==
    /\ Spend("visits") /\ kind # "bookkeeping"
    /\ \E mode \in Views :
          /\ page' = [page EXCEPT !.view = mode]
          /\ store' = [store EXCEPT !.view = mode,
                !.views = IF url.tab = NoTab THEN @
                          ELSE [t \in DOMAIN @ \cup {url.tab} |-> IF t = url.tab THEN mode ELSE @[t]]]
    /\ UNCHANGED <<kind, exists, url, past, fetching>>

\* Another member deletes a category.
Delete ==
    /\ Spend("others")
    /\ \E c \in exists : exists' = exists \ {c}
    /\ page' = [page EXCEPT !.excuse = @ \cup {"deleted"}]
    /\ UNCHANGED <<kind, url, past, fetching, store>>

Kept == [filtersByTab |-> [t \in Tabs \cup {NoTab} |-> Nowhere], lastUrl |-> Nowhere,
         view |-> "list", views |-> [t \in {} |-> "list"]]

Init ==
    /\ kind \in {"tasks", "board", "bookkeeping"} /\ exists = Categories /\ left \in Budgets
    /\ url = Plain /\ past = <<>> /\ fetching = {}
    /\ store = saveCurrentFilters(Kept, Plain)
    /\ page = [list |-> {}, selected |-> {}, wish |-> {}, rows |-> exists, query |-> Plain, view |-> "list",
               links |-> steps(Plain), sidebar |-> Plain, excuse |-> {}]

Next ==
    \/ Visit \/ Click \/ Back \/ setView \/ Delete
    \/ \E f \in fetching : fetchTasksList(f) \/ Arrive(f) \/ Fail(f)

-----------------------------------------------------------------------------
(* Properties                                                              *)

TypeOK ==
    /\ exists \subseteq Categories /\ url \in Address
    /\ page.list \subseteq Categories /\ page.selected \subseteq Categories /\ page.view \in Views

Settled == fetching = {} /\ page.excuse = {}

(* Once every click is answered in its order, and none asked for what the  *)
(* address already was while another was on its way, the list, the rows    *)
(* and the address are what was clicked together, under the same tab.      *)
FilterIsShown ==
    Settled => /\ page.list = page.wish /\ page.selected = page.wish /\ Listed(url, page.rows) = page.wish
               /\ current_tab(url) = current_tab(page.query)

(* The links of the tabs, and those of the cards with their arrows, follow *)
(* the list of activities, in whatever order answers come.                 *)
LinksFollow ==
    /\ kind = "tasks" /\ page.excuse \subseteq {"overtaken", "swallowed"} =>
           Neighbours = page.list /\ \A t \in Tabs : Listed(page.links[t], exists) = page.list
    /\ kind = "bookkeeping" /\ page.excuse \subseteq {"swallowed"} => Neighbours = page.list

(* Whoever leaves a list at rest finds it again by the sidebar, also after *)
(* going back; only an address without a query is not kept.  A tab of the  *)
(* board is found as it was left from the other tabs.                      *)
ReturnsWhereOneWas ==
    fetching = {} =>
        /\ url # Plain \/ kind = "bookkeeping" => patchSidebarLinks(store) = url
        /\ url.tab # NoTab => store.filtersByTab[url.tab] = url

(* Under a tab the view is the one last chosen for it, whether the list    *)
(* was loaded or fetched.                                                  *)
ViewIsKept == url.tab # NoTab => page.view = viewOf(store, url.tab)

FilteredListInvariant == TypeOK /\ FilterIsShown /\ LinksFollow /\ ReturnsWhereOneWas /\ ViewIsKept
=============================================================================
