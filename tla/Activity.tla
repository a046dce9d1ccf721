------------------------------- MODULE Activity -------------------------------
(***************************************************************************)
(* The activity page of one reader: what it lists comes out of a cache all *)
(* members share, what is read and starred out of the reader's own rows.   *)
(*                                                                         *)
(* Members change things, which throws the cache away, before or after the *)
(* change can be seen and if the cache can be reached at all; pages are    *)
(* built from it meanwhile.  On the page every click is a request of its   *)
(* own; requests are handled and answered in any order.                    *)
(*                                                                         *)
(* The clock counts hours; building a page or saving a change takes none.  *)
(* Left out: sorting, the choice of content types, rows that stand for the *)
(* same object, rooms of several messages, and the second look into the    *)
(* cache for what is starred.                                              *)
(***************************************************************************)
EXTENDS Naturals, FiniteSets

CONSTANTS
    Messages,    \* items of private rooms
    Decisions,   \* items that stay bookmarked however old they are
    Budgets      \* how many changes, clicks, visits and hours there are: a set of records

VARIABLES
    item,        \* what exists, and when it last changed
    writer,      \* the change being saved: what is left to do
    cache, clock,
    job,         \* the request for a list being worked off
    reads,
    stars,       \* pairs of an item and the click it was starred by
    page,        \* as the browser shows it
    sent,        \* clicks on their way
    replies,
    left         \* changes, clicks, visits and hours still to come

vars == <<item, writer, cache, clock, job, reads, stars, page, sent, replies, left>>

Items == Messages \cup Decisions
Filters == {"all", "unread", "bookmarks"}
FEED_CACHE_TTL == 1
Rest == [at |-> "rest"]
Empty == [at |-> 0]
Idle == [todo |-> {}]
Spend(what) == left[what] > 0 /\ left' = [left EXCEPT ![what] = @ - 1]

-----------------------------------------------------------------------------
(* What there is.  open: in the feed of the reader; closed: a message of a *)
(* room the reader is not in; aged: older than ninety days.                *)

Later(i) ==
    IF item[i].state = "gone" THEN {}
    ELSE {"open", "gone"} \cup (IF i \in Messages THEN {"closed"} ELSE {})

\* A row is saved and the cache thrown away; in a transaction the other way round.
Change ==
    /\ writer = Idle /\ Spend("changes")
    /\ \E i \in Items, first \in {"save", "invalidate"} : \E s \in Later(i) :
          writer' = [item |-> i, state |-> s, todo |-> {"save", "invalidate"}, first |-> first]
    /\ UNCHANGED <<item, cache, clock, job, reads, stars, page, sent, replies>>

Due(step) == step \in writer.todo /\ (writer.first \in writer.todo => step = writer.first)
Done(step) == writer' = IF writer.todo = {step} THEN Idle ELSE [writer EXCEPT !.todo = @ \ {step}]

Save ==
    /\ Due("save") /\ Done("save")
    /\ item' = [item EXCEPT ![writer.item] = [state |-> writer.state, at |-> clock]]
    /\ UNCHANGED <<cache, clock, job, reads, stars, page, sent, replies, left>>

invalidate_feed_cache ==
    /\ Due("invalidate") /\ Done("invalidate")
    /\ cache' = Empty \/ UNCHANGED cache
    /\ UNCHANGED <<item, clock, job, reads, stars, page, sent, replies, left>>

\* Things grow old, and some members come to a room or leave it, without a signal.
Drift ==
    /\ Spend("changes")
    /\ \E i \in Items :
          /\ item[i].state \in {"open", "closed"}
          /\ \E s \in {"aged"} \cup (IF i \in Messages THEN {"open", "closed"} ELSE {}) :
                s # item[i].state /\ item' = [item EXCEPT ![i] = [state |-> s, at |-> clock]]
    /\ UNCHANGED <<writer, cache, clock, job, reads, stars, page, sent, replies>>

\* An hour passes.
Tick ==
    /\ writer = Idle /\ job = Rest /\ Spend("hours")
    /\ clock' = clock + 1
    /\ UNCHANGED <<item, writer, cache, job, reads, stars, page, sent, replies>>

-----------------------------------------------------------------------------
(* Lists: the feed of all members, out of the cache if it is there         *)

Looks(want, filter) == [at |-> "look", want |-> want, filter |-> filter]

collect_feed_items == {i \in Items : item[i].state \in {"open", "closed"}}

MutantCached == cache # Empty
Cached == cache # Empty /\ clock <= cache.at + FEED_CACHE_TTL

generate_feed_raw ==
    /\ \/ /\ job.at = "look" /\ UNCHANGED cache
          /\ job' = [at |-> IF Cached THEN "attach" ELSE "store", want |-> job.want, filter |-> job.filter,
                     feed |-> IF Cached THEN cache.feed
                              ELSE [raw |-> collect_feed_items,
                                    closed |-> {i \in Items : item[i].state = "closed"}]]
       \/ /\ job.at = "store"
          /\ job' = [job EXCEPT !.at = "attach"]
          /\ cache' = [feed |-> job.feed, at |-> clock]
    /\ UNCHANGED <<item, writer, clock, reads, stars, page, sent, replies, left>>

\* Who is in a room is decided by the copy in the cache.
prepare_items(feed) == feed.raw \ feed.closed
generate_feed_items(feed) == prepare_items(feed)

Starred == {s[1] : s \in stars}

\* The decisions the feed has no more are looked up by their ids.
older_bookmarked_decisions(feed) ==
    {i \in (Starred \cap Decisions) \ feed.raw : item[i].state \in {"open", "aged"}}

\* What the reader is shown, without what the filter does.
Wanted(filter) == CASE filter = "all" -> Items [] filter = "unread" -> Items \ reads [] OTHER -> Starred

_get_filtered_activity_items(feed, filter) ==
    (generate_feed_items(feed) \cap Wanted(filter))
        \cup (IF filter = "bookmarks" THEN older_bookmarked_decisions(feed) ELSE {})

\* A page that arrives; answers to clicks on the last one reach nobody.
activity_page ==
    LET feed == job.feed
        rows == _get_filtered_activity_items(feed, job.filter)
        unread == generate_feed_items(feed) \ reads
        starred == (generate_feed_items(feed) \cap Starred) \cup older_bookmarked_decisions(feed)
    IN /\ job.at = "attach" /\ job.want = "page" /\ job' = Rest
       /\ page' = [up |-> TRUE, filter |-> job.filter, time |-> clock, wanted |-> Wanted(job.filter),
                   rows |-> rows, read |-> rows \cap reads, star |-> rows \cap Starred,
                   unread |-> Cardinality(unread), starred |-> Cardinality(starred),
                   others |-> [unread |-> Cardinality(unread \ rows), starred |-> Cardinality(starred \ rows)],
                   twice |-> FALSE, overtaken |-> sent # {}]
       /\ sent' = {[s EXCEPT !.lost = TRUE] : s \in sent} /\ replies' = {}
       /\ UNCHANGED <<item, writer, cache, clock, reads, stars, left>>

\* A message that is gone is marked without a word.
mark_as_read(i) == IF i \in Messages /\ item[i].state = "gone" THEN reads ELSE reads \cup {i}

\* One after another; then the browser loads the page again.
mark_all_feed_items_as_read ==
    /\ \/ /\ job.at = "attach" /\ job.want = "all"
          /\ job' = [at |-> "mark", todo |-> _get_filtered_activity_items(job.feed, job.filter) \ reads]
          /\ UNCHANGED reads
       \/ /\ job.at = "mark"
          /\ IF job.todo = {} THEN job' = Looks("page", page.filter) /\ UNCHANGED reads
             ELSE \E i \in job.todo : job' = [job EXCEPT !.todo = @ \ {i}] /\ reads' = mark_as_read(i)
    /\ UNCHANGED <<item, writer, cache, clock, stars, page, sent, replies, left>>

Visit ==
    /\ job = Rest /\ Spend("visits")
    /\ \E filter \in Filters : job' = Looks("page", filter)
    /\ UNCHANGED <<item, writer, cache, clock, reads, stars, page, sent, replies>>

mark_all_read ==
    /\ page.up /\ job = Rest /\ Spend("clicks")
    /\ job' = Looks("all", page.filter)
    /\ UNCHANGED <<item, writer, cache, clock, reads, stars, page, sent, replies>>

-----------------------------------------------------------------------------
(* Clicks                                                                  *)

Same(s, r) == s.kind = r.kind /\ s.item = r.item
Before(s, r) == Same(s, r) /\ s.n > r.n /\ ~s.lost

\* What is asked for depends on how the row looks now.
Click ==
    /\ page.up /\ Spend("clicks")
    /\ \E i \in page.rows, kind \in {"read", "star"} :
          LET s == [n |-> left.clicks, kind |-> kind, item |-> i, lost |-> FALSE, late |-> {},
                    yes |-> kind = "read" /\ i \notin page.read]
          IN /\ sent' = sent \cup {s}
             /\ page' = [page EXCEPT !.twice = @ \/ \E o \in sent \cup replies : Same(o, s)]
    /\ UNCHANGED <<item, writer, cache, clock, job, reads, stars, replies>>

\* Whether an earlier click is still to be handled.
Overtakes(s) == page' = [page EXCEPT !.overtaken = @ \/ \E o \in sent : Before(o, s)]

Answer(s, yes) ==
    /\ sent' = sent \ {s}
    /\ replies' = IF s.lost THEN replies ELSE replies \cup {[s EXCEPT !.yes = yes, !.late = {}]}
    /\ Overtakes(s)

mark_feed_item_as_read(s) ==
    s.kind = "read" /\ s.yes /\ Answer(s, TRUE) /\ reads' = mark_as_read(s.item) /\ UNCHANGED stars

mark_unread(s) ==
    s.kind = "read" /\ ~s.yes /\ Answer(s, FALSE) /\ reads' = reads \ {s.item} /\ UNCHANGED stars

\* get_or_create, and later delete() of that row if it was there.
toggle_feed_bookmark(s) ==
    /\ s.kind = "star" /\ UNCHANGED reads
    /\ \/ s.late # {} /\ stars' = stars \ s.late /\ Answer(s, FALSE)
       \/ /\ s.late = {} /\ s.item \notin Starred
          /\ stars' = stars \cup {<<s.item, s.n>>} /\ Answer(s, TRUE)
       \/ /\ s.late = {} /\ s.item \in Starred
          /\ sent' = (sent \ {s}) \cup {[s EXCEPT !.late = {p \in stars : p[1] = s.item}]}
          /\ Overtakes(s) /\ UNCHANGED <<stars, replies>>

Handle ==
    /\ \E s \in sent : mark_feed_item_as_read(s) \/ mark_unread(s) \/ toggle_feed_bookmark(s)
    /\ UNCHANGED <<item, writer, cache, clock, job, left>>

updateCountBadge(count, more) == IF more THEN count + 1 ELSE IF count = 0 THEN 0 ELSE count - 1

\* A row that leaves the list the page is filtered to makes it load again.
Reloads(r) == (r.kind = "read" /\ r.yes /\ page.filter = "unread") \/ (r.kind = "star" /\ page.filter = "bookmarks")

Show ==
    /\ \E r \in replies :
          LET set(S) == IF r.yes THEN S \cup {r.item} ELSE S \ {r.item}
              late == page.overtaken \/ \E o \in replies : Before(o, r)
          IN /\ replies' = replies \ {r}
             /\ IF r.kind = "read"
                THEN page' = [page EXCEPT !.read = set(@), !.overtaken = late,
                              !.unread = IF Reloads(r) THEN @ ELSE updateCountBadge(@, ~r.yes)]
                ELSE page' = [page EXCEPT !.star = set(@), !.overtaken = late,
                              !.starred = IF Reloads(r) THEN @ ELSE updateCountBadge(@, r.yes)]
             /\ IF Reloads(r) THEN job = Rest /\ job' = Looks("page", page.filter)
                ELSE UNCHANGED job
    /\ UNCHANGED <<item, writer, cache, clock, reads, stars, sent, left>>

Init ==
    /\ item = [i \in Items |-> [state |-> "open", at |-> 0]]
    /\ writer = Idle /\ cache = Empty /\ clock = 0 /\ job = Rest
    /\ reads = {} /\ stars \in {{}, Decisions \X {0}} /\ sent = {} /\ replies = {}
    /\ page = [up |-> FALSE, filter |-> "all"]
    /\ left \in Budgets

Next ==
    \/ Change \/ Save \/ invalidate_feed_cache \/ Drift \/ Tick
    \/ generate_feed_raw \/ activity_page \/ mark_all_feed_items_as_read
    \/ Visit \/ mark_all_read \/ Click \/ Handle \/ Show

Spec == Init /\ [][Next]_vars

-----------------------------------------------------------------------------
(* Properties                                                              *)

TypeOK ==
    /\ \A i \in Items : item[i].state \in {"none", "open", "closed", "aged", "gone"} /\ item[i].at \in 0 .. clock
    /\ clock \in Nat /\ reads \subseteq Items /\ Starred \subseteq Items /\ Cardinality(stars) = Cardinality(Starred)

(* A page lists what there was at most an hour before it was built, though *)
(* invalidations are lost, overtaken by a page that is being built, or     *)
(* never sent; and a bookmarked decision however old it is.                *)
Listed(i) ==
    /\ i \in page.wanted
    /\ item[i].state = "open" \/ (item[i].state = "aged" /\ i \in Decisions /\ page.filter = "bookmarks")

FeedIsRecent ==
    page.up => \A i \in Items :
        item[i].at + FEED_CACHE_TTL < page.time => (i \in page.rows) = Listed(i)

(* When every click has been answered the rows look as they are stored,    *)
(* unless two clicks on a row overtook one another, and the counts in the  *)
(* toolbar are right, unless a row was clicked again before the answer.    *)
RowsSettle ==
    page.up /\ job = Rest /\ sent = {} /\ replies = {} /\ ~page.overtaken =>
        LET alive == {i \in page.rows : item[i].state # "gone"}
        IN /\ alive \cap page.read = alive \cap reads /\ alive \cap page.star = alive \cap Starred
           /\ ~page.twice => /\ page.starred = page.others.starred + Cardinality(page.star)
                             /\ page.filter = "bookmarks" \/
                                page.unread = page.others.unread + Cardinality(page.rows \ page.read)

ActivityInvariant == TypeOK /\ FeedIsRecent /\ RowsSettle
=============================================================================
