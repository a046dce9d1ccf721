----------------------------- MODULE Resources -----------------------------
(***************************************************************************)
(* The listings of things to give, lend, sell or find: bookkeeping/views.py*)
(* (resource_create to resource_toggle_closed), its form, and              *)
(* resources/models.py with its constraints.                               *)
(*                                                                         *)
(* A listing is held by a member or by the community.  Its author may hand *)
(* it over; the member who holds it may edit it.  A request loads the      *)
(* listing, decides what it may do, and saves the whole row later.         *)
(***************************************************************************)
EXTENDS Integers, FiniteSets, Functions

CONSTANTS
    Members, Names,
    MaxKey,    \* bound: listings ever created
    MaxOpens,  \* bound: requests under way at once
    MaxMade    \* bound: requests

VARIABLES
    active,    \* the members that are left
    listings,  \* key -> [name, author, holder, closed]
    pending,   \* requests under way, with the row they have loaded
    lastKey, made

vars == <<active, listings, pending, lastKey, made>>

Community == "community"
Nobody == "nobody"
Holders == Members \cup {Community, Nobody}

Init ==
    active = Members /\ listings = <<>> /\ pending = {} /\ lastKey = 0 /\ made = 0

-----------------------------------------------------------------------------
(* What a request may do with the row it has loaded                        *)

_can_manage(row, u) == u \in {row.author, row.holder} \/ row.holder = Community

_can_assign(row, u) ==
    \/ row.author = u \/ row.holder = Community
    \/ row.author = Nobody /\ row.holder = u

(* ResourceEntityForm: whoever cannot assign keeps the holder.             *)
Choices(row, u) == IF _can_assign(row, u) THEN active \cup {Community} ELSE {row.holder}

(* clean and the unique constraints: no other listing of the name, for the *)
(* same member or for the community.                                       *)
Free(k, row) ==
    \/ row.holder = Nobody
    \/ \A j \in DOMAIN listings \ {k} :
         ~(listings[j].name = row.name /\ listings[j].holder = row.holder)

Request(kind, u, k, loaded, row) ==
    [kind |-> kind, user |-> u, key |-> k, loaded |-> loaded, row |-> row]

Open(r) ==
    /\ Cardinality(pending) < MaxOpens /\ made < MaxMade /\ made' = made + 1
    /\ pending' = pending \cup {r}
    /\ UNCHANGED <<active, listings, lastKey>>

BeginCreate(u) ==
    \E n \in Names, h \in active \cup {Community} :
        LET row == [name |-> n, author |-> u, holder |-> h, closed |-> FALSE]
        IN  Free(0, row) /\ Open(Request("create", u, 0, row, row))

BeginUpdate(u) ==
    \E k \in DOMAIN listings : \E n \in Names, h \in Choices(listings[k], u) :
        LET row == [listings[k] EXCEPT !.name = n, !.holder = h]
        IN  /\ _can_manage(listings[k], u) /\ Free(k, row)
            /\ Open(Request("update", u, k, listings[k], row))

BeginOther(u) ==
    \E k \in DOMAIN listings, kind \in {"delete", "close", "open"} :
        /\ _can_manage(listings[k], u)
        /\ Open(Request(kind, u, k, listings[k], listings[k]))

-----------------------------------------------------------------------------
(* Writes                                                                  *)

Done(r) == pending' = pending \ {r} /\ UNCHANGED <<active, made>>
Put(k, row) == listings' = [j \in DOMAIN listings \cup {k} |-> IF j = k THEN row ELSE listings[j]]

Existing(row) == {row.author, row.holder} \subseteq active \cup {Community, Nobody}
Insertable(k, row) == Existing(row) /\ Free(k, row)

Create(r) ==
    /\ r.kind = "create" /\ lastKey < MaxKey /\ Insertable(0, r.row)
    /\ lastKey' = lastKey + 1 /\ Put(lastKey + 1, r.row) /\ Done(r)

(* The whole row, inserted again when it is gone.                          *)
Update(r) ==
    /\ r.kind = "update" /\ Insertable(r.key, r.row)
    /\ Put(r.key, r.row) /\ Done(r) /\ UNCHANGED lastKey

Delete(r) ==
    /\ r.kind = "delete"
    /\ listings' = Restrict(listings, DOMAIN listings \ {r.key})
    /\ Done(r) /\ UNCHANGED lastKey

(* update_fields: only is_closed.                                          *)
SetClosed(r) ==
    /\ r.kind \in {"close", "open"} /\ r.key \in DOMAIN listings
    /\ listings' = [listings EXCEPT ![r.key].closed = (r.kind = "close")]
    /\ Done(r) /\ UNCHANGED lastKey

(* The listing is gone or a constraint refuses the row.                    *)
Fail(r) == Done(r) /\ UNCHANGED <<listings, lastKey>>

(* An account is deleted (SET_NULL).                                       *)
Leave(u) ==
    /\ u \in active /\ active' = active \ {u}
    /\ listings' = [k \in DOMAIN listings |->
         [listings[k] EXCEPT !.author = IF @ = u THEN Nobody ELSE @,
                             !.holder = IF @ = u THEN Nobody ELSE @]]
    /\ UNCHANGED <<pending, lastKey, made>>

Next ==
    \/ \E u \in active : BeginCreate(u) \/ BeginUpdate(u) \/ BeginOther(u) \/ Leave(u)
    \/ \E r \in pending : Create(r) \/ Update(r) \/ Delete(r) \/ SetClosed(r) \/ Fail(r)

Spec == Init /\ [][Next]_vars

-----------------------------------------------------------------------------
(* Properties                                                              *)

(* Requests may cross one another and members may leave: a member, and the *)
(* community, never holds two listings of one name and kind.               *)
ListingsDiffer ==
    /\ lastKey \in 0..MaxKey /\ DOMAIN listings \subseteq 1..lastKey
    /\ \A k \in DOMAIN listings :
         /\ listings[k] \in [name : Names, author : active \cup {Nobody},
                             holder : Holders \ (Members \ active), closed : BOOLEAN]
         /\ Free(k, listings[k])

(* Only the author, an heir of the author or anyone of the community gives *)
(* a listing to somebody else; all another request can do is give it back  *)
(* to the holder it had when the request loaded it.                        *)
HandedOverByRight ==
    [][\A k \in DOMAIN listings \cap DOMAIN listings' :
         listings'[k].holder \notin {listings[k].holder, Nobody} =>
             \E r \in pending \ pending' :
                 /\ r.key = k
                 /\ \/ _can_manage(r.loaded, r.user) /\ r.loaded.holder = listings'[k].holder
                    \/ r.loaded.author = r.user
                    \/ r.loaded.holder = Community
                    \/ r.loaded.author = Nobody /\ r.loaded.holder = r.user]_vars

(* Listings differ, and change hands by right.                             *)
ListingsAreFair == []ListingsDiffer /\ HandedOverByRight
=============================================================================
