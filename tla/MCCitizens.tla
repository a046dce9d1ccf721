----------------------------- MODULE MCCitizens -----------------------------
(* Citizens on small groups, and what is shown to one member.  Parts that  *)
(* share no state, a behaviour being a behaviour of one of them: a group   *)
(* of up to three that a member may leave, a group of up to four where two *)
(* more people must accept, a group with the constants as they are, and    *)
(* the pages of a member: the activity page, the mailed digests, the page  *)
(* of an activity, a list with its filter, the dialog of categories, and   *)
(* the chat beside an activity.                                            *)
EXTENDS Citizens, TLC

CONSTANTS Ada, Ben, Cyd, Dan

VARIABLES
    part,
    item, writer, cache, clock, job, reads, stars, page, sent, replies, left,
    moment, day, eight, early, feed, writing, profile, form, run, told, wanted, muddled, mailed, mayMiss, mayRepeat,
    wrong, allowance,
    taskStored, taskCard, taskSent, taskReplies, taskLeft,
    listKind, there, url, past, listPage, fetching, store, listLeft,
    catKind, cats, gone, filed, dialog, catSent, catReplies, catLeft,
    room, allowed, other, server, up, queued, screen, widget, box, uploads, lost, twice, overtaken, denied,
    widgetLeft

Three == {Ada, Ben, Cyd}

\* The newcomers of a group that nobody leaves are alike: they come in this order.
ComeInOrder == /\ Cyd \in exists => Ben \in exists
               /\ Dan \in exists => Cyd \in exists

Four == INSTANCE Citizens WITH Acceptance <- 2, Leavers <- {}, Sleepers <- {}, MaxRatings <- 1

F == INSTANCE Activity WITH Messages <- {"message"}, Decisions <- {"decision"},
       Budgets <- {[changes |-> 1, clicks |-> 0, visits |-> 2, hours |-> 2],
                   [changes |-> 1, clicks |-> 2, visits |-> 1, hours |-> 0],
                   [changes |-> 0, clicks |-> 3, visits |-> 1, hours |-> 0]}

G == INSTANCE Digest WITH now <- moment, posted <- feed, left <- allowance,
       Kinds <- {"message", "task", "decision"}, Days <- [daily |-> 1, weekly |-> 2],
       Budgets <- {[days |-> 2, posts |-> 2, changes |-> 0, runs |-> 2, choices |-> 0, faults |-> 1],
                   [days |-> 2, posts |-> 1, changes |-> 0, runs |-> 2, choices |-> 2, faults |-> 0],
                   [days |-> 2, posts |-> 2, changes |-> 1, runs |-> 2, choices |-> 0, faults |-> 0]}

H == INSTANCE TaskPage WITH task <- taskStored, page <- taskCard, sent <- taskSent, replies <- taskReplies,
       left <- taskLeft, Needed <- {1, 2},
       Budgets <- {[votes |-> 2, clicks |-> 0, others |-> 1, faults |-> 1],
                   [votes |-> 0, clicks |-> 3, others |-> 0, faults |-> 0],
                   [votes |-> 0, clicks |-> 2, others |-> 1, faults |-> 0],
                   [votes |-> 1, clicks |-> 1, others |-> 1, faults |-> 0]}

I == INSTANCE FilteredList WITH kind <- listKind, exists <- there, page <- listPage, left <- listLeft,
       Categories <- {"food", "rent"}, Tabs <- {"mine", "active"},
       Budgets <- {[clicks |-> 3, visits |-> 1, backs |-> 0, faults |-> 0, others |-> 0],
                   [clicks |-> 2, visits |-> 1, backs |-> 1, faults |-> 0, others |-> 0],
                   [clicks |-> 1, visits |-> 2, backs |-> 0, faults |-> 1, others |-> 1],
                   [clicks |-> 1, visits |-> 5, backs |-> 0, faults |-> 0, others |-> 0]}

J == INSTANCE Categories WITH kind <- catKind, page <- dialog, sent <- catSent, replies <- catReplies,
       left <- catLeft, Names <- {1, 3}, MaxIds <- 4,
       Budgets <- {[clicks |-> 2, others |-> 0, faults |-> 1], [clicks |-> 0, others |-> 2, faults |-> 0],
                   [clicks |-> 1, others |-> 1, faults |-> 0]}

K == INSTANCE Widget WITH left <- widgetLeft, Mine <- {1, 2}, Others <- {3, 4},
       Budgets <- {[breaks |-> 2, waits |-> 1, others |-> 1, bars |-> 0, files |-> 0, enters |-> 1, faults |-> 0, edits |-> 0],
                   [breaks |-> 1, waits |-> 1, others |-> 1, bars |-> 0, files |-> 1, enters |-> 1, faults |-> 0, edits |-> 0],
                   [breaks |-> 1, waits |-> 0, others |-> 1, bars |-> 0, files |-> 1, enters |-> 1, faults |-> 1, edits |-> 1],
                   [breaks |-> 1, waits |-> 0, others |-> 1, bars |-> 0, files |-> 0, enters |-> 2, faults |-> 0, edits |-> 1],
                   [breaks |-> 1, waits |-> 1, others |-> 1, bars |-> 1, files |-> 0, enters |-> 1, faults |-> 0, edits |-> 0]}

group == <<vars>>
activity == <<item, writer, cache, clock, job, reads, stars, page, sent, replies, left>>
digest == <<moment, day, eight, early, feed, writing, profile, form, run, told, wanted, muddled, mailed,
            mayMiss, mayRepeat, wrong, allowance>>
card == <<taskStored, taskCard, taskSent, taskReplies, taskLeft>>
list == <<listKind, there, url, past, listPage, fetching, store, listLeft>>
names == <<catKind, cats, gone, filed, dialog, catSent, catReplies, catLeft>>
beside == <<room, allowed, other, server, up, queued, screen, widget, box, uploads, lost, twice, overtaken,
            denied, widgetLeft>>
pages == <<activity, digest, card, list, names, beside>>
all == <<part, group, pages>>

Shown == {"activity", "digest", "card", "list", "names", "beside"}

PartsInit ==
  /\ part \in {"three", "four"} \cup Shown
  /\ Init
  /\ F!Init /\ (part # "activity" => stars = {} /\ left.clicks = 3)
  /\ G!Init /\ (part # "digest" => wanted = "daily" /\ allowance.changes = 1)
  /\ H!Init /\ (part # "card" =>
                   /\ taskStored.coordinator = "me" /\ taskStored.needed = 1 /\ taskStored.vote["helper"] = 0
                   /\ taskCard.list /\ taskLeft.clicks = 3)
  /\ I!Init /\ (part # "list" => listKind = "board" /\ listLeft.visits = 5)
  /\ J!Init /\ (part # "names" => catKind = "board" /\ catLeft.faults = 1 /\ cats[1].order = 1
                                  /\ 0 \in {filed[i] : i \in DOMAIN filed})
  /\ K!Init /\ (part # "beside" => widgetLeft.waits = 0 /\ widgetLeft.files = 0)

ThreeNext == part = "three" /\ Next /\ exists' \subseteq Three /\ UNCHANGED <<part, pages>>
FourNext == part = "four" /\ Four!Next /\ ComeInOrder' /\ UNCHANGED <<part, pages>>
ActivityNext == part = "activity" /\ F!Next /\ UNCHANGED <<part, group, digest, card, list, names, beside>>
DigestNext == part = "digest" /\ G!Next /\ UNCHANGED <<part, group, activity, card, list, names, beside>>
CardNext == part = "card" /\ H!Next /\ UNCHANGED <<part, group, activity, digest, list, names, beside>>
ListNext == part = "list" /\ I!Next /\ UNCHANGED <<part, group, activity, digest, card, names, beside>>
NamesNext == part = "names" /\ J!Next /\ UNCHANGED <<part, group, activity, digest, card, list, beside>>
BesideNext == part = "beside" /\ K!Next /\ UNCHANGED <<part, group, activity, digest, card, list, names>>
\* What a member does is bounded, and may come to an end.
Rest == part \in Shown /\ UNCHANGED all

PartsNext == ThreeNext \/ FourNext \/ ActivityNext \/ DigestNext \/ CardNext \/ ListNext \/ NamesNext
             \/ BesideNext \/ Rest
PartsSpec == PartsInit /\ [][PartsNext]_all

\* What one member is shown and sent, each stated in its module.
PagesInvariant ==
  /\ part = "activity" => F!ActivityInvariant
  /\ part = "digest" => G!DigestInvariant
  /\ part = "card" => H!TaskPageInvariant
  /\ part = "list" => I!FilteredListInvariant
  /\ part = "names" => J!CategoriesInvariant
  /\ part = "beside" => K!WidgetInvariant
=============================================================================
