---------------------------- MODULE CommunityMap ----------------------------
(***************************************************************************)
(* The map of the community (obywatele/views.py community_map_data,        *)
(* map_data.py, map_geocoding.py): requests collect the places of          *)
(* citizens, partners and resources, look their coordinates up in the      *)
(* cache, and those of members ask a geocoder for what is missing, one     *)
(* slot at a time behind a lock that is itself an entry of the cache.      *)
(*                                                                         *)
(* A city is a model value, a house a number, a point of the map a         *)
(* number; 0 is no house, no point.  Of an answer of the geocoder an entry *)
(* tells whether its country, city and coordinates fit, whether it is the  *)
(* city's centre and whether it is the very house.  Time is in ticks that  *)
(* keep the order of the times involved, not their lengths.                *)
(***************************************************************************)
EXTENDS Integers, Sequences, FiniteSets, FiniteSetsExt, Functions

CONSTANTS
    Requests, Cities, LastTick, Budgets,
    Places,     \* what people may have entered: sequences of records
    Answers     \* what the geocoder may say: sequences of entries

VARIABLES
    clock, places,
    geocoder,   \* off, on, or on and misconfigured: no https address, or no user agent
    cache,      \* coordinates by key, and until when
    lock,       \* NOMINATIM_LOCK_KEY: whose token, until when
    next,       \* NOMINATIM_NEXT_REQUEST_KEY
    query,      \* the state of each request
    last,       \* history: when the last slot was given
    crowded,    \* history: two slots were given too close to each other
    outlived,   \* history: somebody went on after his lock had expired
    answered,   \* history: what the geocoder's answers to each key came to
    left

vars == <<clock, places, geocoder, cache, lock, next, query, last, crowded, outlived, answered, left>>

slots == <<lock, next, last, crowded, outlived>>

Spend(what) == left[what] > 0 /\ left' = [left EXCEPT ![what] = @ - 1]

INTERVAL == 1
LOCK_TIMEOUT == 2
DEADLINE == 3
FAILURE_TTL == 4
SUCCESS_TTL == 5

NoCity == "none"
Nowhere == [city |-> NoCity, house |-> 0]
Keys == [kind : {"address"}, city : Cities, house : 1..2] \cup [kind : {"city"}, city : Cities, house : {0}]
NoLock == [owner |-> 0, until |-> 0]
NoEntry == [value |-> 0, until |-> 0]
Idle == [at |-> "idle", member |-> FALSE, todo |-> <<>>, resolved |-> <<>>,
         key |-> [kind |-> "city", city |-> NoCity, house |-> 0], deadline |-> 0, until |-> 0, ours |-> FALSE, found |-> 0]

-----------------------------------------------------------------------------
(* What is on the map                                                      *)

\* A street without a number is no address; a resource has a city at most.
location_key(rec) ==
    IF rec.city = NoCity THEN Nowhere
    ELSE [city |-> rec.city, house |-> IF rec.type = "resource" THEN 0 ELSE rec.house]

Listed(rec) ==
    CASE rec.type = "citizen" -> rec.active /\ rec.city # NoCity
      [] rec.type = "partner" -> TRUE
      [] rec.type = "resource" -> rec.open /\ (rec.community \/ rec.active) /\ rec.city # NoCity

\* Each under the number of its row.
get_map_location_records == [i \in {j \in DOMAIN places : Listed(places[j])} |-> places[i]]

First(location) ==
    [kind |-> IF location.house = 0 THEN "city" ELSE "address", city |-> location.city, house |-> location.house]
CityOf(key) == [kind |-> "city", city |-> key.city, house |-> 0]

Unresolved(todo, resolved) ==
    {i \in DOMAIN todo : location_key(todo[i]) # Nowhere /\ location_key(todo[i]) \notin DOMAIN resolved}
Foremost(todo, resolved) == location_key(todo[Min(Unresolved(todo, resolved))])

-----------------------------------------------------------------------------
(* A request goes through the records                                      *)

Answerer(r) == query[r].member /\ geocoder # "off"     \* geocode_location or get_cached_coordinates

\* The next location to be resolved, or the payload.
Proceed(r, todo, resolved) ==
    LET over == Unresolved(todo, resolved) = {} IN
    query' = [query EXCEPT ![r].todo = todo, ![r].resolved = resolved,
                           ![r].deadline = 0, ![r].found = 0,
                           ![r].at = IF over THEN "done" ELSE "look",
                           ![r].key = IF over THEN Idle.key ELSE First(Foremost(todo, resolved))]

community_map_data(r) ==
    /\ query[r].at \in {"idle", "done"} /\ Spend("requests")
    /\ \E member \in BOOLEAN :
          LET todo == get_map_location_records
              over == Unresolved(todo, <<>>) = {} IN
          query' = [query EXCEPT ![r] =
              [Idle EXCEPT !.member = member, !.todo = todo,
                           !.at = IF over THEN "done" ELSE "look",
                           !.key = IF over THEN Idle.key ELSE First(Foremost(todo, <<>>))]]
    /\ UNCHANGED <<clock, places, geocoder, cache, slots, answered>>

Resolve(r, point) ==
    LET location == Foremost(query[r].todo, query[r].resolved) IN
    Proceed(r, query[r].todo, [l \in DOMAIN query[r].resolved \cup {location} |->
                                  IF l = location THEN point ELSE query[r].resolved[l]])

\* An address without a point leaves the city to be looked for.
Settle(r, point) ==
    IF point = 0 /\ query[r].key.kind = "address"
    THEN query' = [query EXCEPT ![r].at = "look", ![r].key = CityOf(@),
                                ![r].deadline = 0, ![r].found = 0]
    ELSE Resolve(r, point)

Hit(key) == clock < cache[key].until

\* _coordinates_from_cache, or the beginning of _cached_search.
Look(r) ==
    /\ query[r].at = "look"
    /\ IF ~Hit(query[r].key) /\ Answerer(r)
       THEN geocoder = "on" /\ query' = [query EXCEPT ![r].at = "slot", ![r].deadline = clock + DEADLINE]
       ELSE Settle(r, IF Hit(query[r].key) THEN cache[query[r].key].value ELSE 0)
    /\ UNCHANGED <<clock, places, geocoder, cache, slots, answered, left>>

\* A cache that fails knows nothing, and nobody is asked.
LookFails(r) ==
    /\ query[r].at = "look" /\ Spend("faults")
    /\ Settle(r, 0)
    /\ UNCHANGED <<clock, places, geocoder, cache, slots, answered>>

-----------------------------------------------------------------------------
(* _wait_for_nominatim_slot                                                *)

Acquire(r) ==
    /\ query[r].at = "slot" /\ clock < query[r].deadline
    /\ clock >= lock.until
    /\ lock' = [owner |-> r, until |-> clock + LOCK_TIMEOUT]
    /\ query' = [query EXCEPT ![r].at = "held", ![r].until = clock + LOCK_TIMEOUT]
    /\ UNCHANGED <<clock, places, geocoder, cache, next, last, crowded, outlived, answered, left>>

\* RATE_LIMITED: the location has no point in this payload, and the cache
\* learns nothing; not even the city of an address is looked for.
RateLimited(r) ==
    /\ query[r].at = "slot"
    /\ \/ clock >= query[r].deadline /\ UNCHANGED left
       \/ Spend("faults")
    /\ Resolve(r, 0)
    /\ UNCHANGED <<clock, places, geocoder, cache, slots, answered>>

Owned(r) == lock.owner = r /\ clock < lock.until

\* His lock has expired, whoever has it now.
Late(r) == clock >= query[r].until

ReadNext(r) ==
    /\ query[r].at = "held"
    /\ query' = [query EXCEPT ![r].at = IF next <= clock THEN "free" ELSE "refused"]
    /\ UNCHANGED <<clock, places, geocoder, cache, slots, answered, left>>

SetNext(r) ==
    /\ query[r].at = "free"
    /\ next' = clock + INTERVAL
    /\ last' = clock
    /\ outlived' = (outlived \/ Late(r))
    /\ crowded' = (crowded \/ (clock < last + INTERVAL /\ ~outlived'))
    /\ query' = [query EXCEPT ![r].at = "granted"]
    /\ UNCHANGED <<clock, places, geocoder, cache, lock, answered, left>>

\* finally: whose token is it, and then, if it is ours, away with it.
Compare(r) ==
    /\ query[r].at \in {"granted", "refused"} /\ Owned(r)
    /\ query' = [query EXCEPT ![r].at = IF @ = "granted" THEN "delete_granted" ELSE "delete_refused",
                              ![r].ours = ~Late(r)]
    /\ UNCHANGED <<clock, places, geocoder, cache, slots, answered, left>>

GoOn(r) ==
    query' = [query EXCEPT ![r].at = IF @ \in {"granted", "delete_granted"} THEN "ask" ELSE "slot",
                           ![r].until = 0, ![r].ours = FALSE]

NotOurs(r) ==
    /\ query[r].at \in {"granted", "refused"}
    /\ \/ ~Owned(r) /\ UNCHANGED left
       \/ Spend("faults")
    /\ GoOn(r)
    /\ UNCHANGED <<clock, places, geocoder, cache, slots, answered>>

Delete(r) ==
    /\ query[r].at \in {"delete_granted", "delete_refused"}
    /\ lock' = NoLock
    /\ outlived' = (outlived \/ (query[r].ours /\ Late(r)))
    /\ GoOn(r)
    /\ UNCHANGED <<clock, places, geocoder, cache, next, last, crowded, answered, left>>

-----------------------------------------------------------------------------
(* The geocoder and its answers                                            *)

_select_result(results, key) ==
    LET fitting == {i \in DOMAIN results : results[i].fits}
        exact == {results[i].point : i \in {j \in fitting : results[j].exact}}
        centres == {i \in fitting : results[i].centre} IN
    CASE key.kind = "address" -> IF Cardinality(exact) = 1 THEN CHOOSE p \in exact : TRUE ELSE 0
      [] key.kind = "city" /\ centres # {} -> results[Min(centres)].point
      [] key.kind = "city" /\ centres = {} -> IF Cardinality(fitting) = 1 THEN results[Min(fitting)].point ELSE 0

Answered(r, results) ==
    LET point == _select_result(results, query[r].key) IN
    /\ query' = [query EXCEPT ![r].at = "store", ![r].found = point]
    /\ answered' = [answered EXCEPT ![query[r].key] = @ \cup {[point |-> point, of |-> results]}]
    /\ UNCHANGED <<clock, places, geocoder, cache, slots, left>>

\* Without a usable address nobody is asked, and no slot is taken.
Misconfigured(r) ==
    /\ query[r].at = "look" /\ ~Hit(query[r].key) /\ Answerer(r) /\ geocoder = "misconfigured"
    /\ Answered(r, <<>>)

\* A failure of the geocoder is an answer without entries.
_search_nominatim(r) ==
    /\ query[r].at = "ask"
    /\ \E results \in Answers \cup {<<>>} : Answered(r, results)

Store(r) ==
    /\ query[r].at = "store"
    /\ cache' = [cache EXCEPT ![query[r].key] =
          [value |-> query[r].found, until |-> clock + (IF query[r].found = 0 THEN FAILURE_TTL ELSE SUCCESS_TTL)]]
    /\ Settle(r, query[r].found)
    /\ UNCHANGED <<clock, places, geocoder, slots, answered, left>>

\* What cannot be stored is not shown either.
StoreFails(r) ==
    /\ query[r].at = "store" /\ Spend("faults")
    /\ Settle(r, 0)
    /\ UNCHANGED <<clock, places, geocoder, cache, slots, answered>>

-----------------------------------------------------------------------------
(* The payload                                                             *)

PointOf(r, rec) == IF location_key(rec) = Nowhere THEN 0 ELSE query[r].resolved[location_key(rec)]

\* Members see who is where, and who could not be placed; guests see points.
build_map_payload(r) ==
    LET todo == query[r].todo IN
    [markers |-> IF query[r].member
                 THEN {[rec |-> todo[i], point |-> PointOf(r, todo[i])] : i \in {j \in DOMAIN todo : PointOf(r, todo[j]) # 0}}
                 ELSE {},
     unmapped |-> IF query[r].member THEN {todo[i] : i \in {j \in DOMAIN todo : PointOf(r, todo[j]) = 0}} ELSE {},
     points |-> IF query[r].member THEN {} ELSE {PointOf(r, todo[i]) : i \in DOMAIN todo} \ {0}]

-----------------------------------------------------------------------------
(* People edit their addresses, leave, close resources                     *)

Edit ==
    /\ Spend("edits")
    /\ \E p \in Places \ {places} : Len(p) = Len(places) /\ places' = p
    /\ UNCHANGED <<clock, geocoder, cache, slots, query, answered>>

Tick ==
    /\ clock < LastTick /\ clock' = clock + 1
    /\ UNCHANGED <<places, geocoder, cache, slots, query, answered, left>>

Init ==
    /\ clock = 0 /\ places \in Places /\ geocoder \in {"off", "misconfigured", "on"}
    /\ cache = [k \in Keys |-> NoEntry]
    /\ lock = NoLock /\ next = 0
    /\ query = [r \in Requests |-> Idle]
    /\ last = -INTERVAL /\ crowded = FALSE /\ outlived = FALSE
    /\ answered = [k \in Keys |-> {}]
    /\ left \in Budgets

Request(r) ==
    \/ community_map_data(r) \/ Look(r) \/ LookFails(r)
    \/ Acquire(r) \/ RateLimited(r) \/ ReadNext(r) \/ SetNext(r) \/ Compare(r) \/ NotOurs(r) \/ Delete(r)
    \/ Misconfigured(r) \/ _search_nominatim(r) \/ Store(r) \/ StoreFails(r)

Next == (\E r \in Requests : Request(r)) \/ Edit \/ Tick

-----------------------------------------------------------------------------
(* Properties                                                              *)

Ats == {"idle", "look", "slot", "held", "free", "granted", "refused", "delete_granted", "delete_refused", "ask", "store", "done"}

TypeOK ==
    /\ clock \in 0..LastTick /\ places \in Places
    /\ \A r \in Requests : query[r].at \in Ats /\ query[r].key \in Keys \cup {Idle.key}
    /\ \A k \in Keys : cache[k].until \in 0..LastTick + SUCCESS_TTL
    /\ lock.owner \in Requests \cup {0}

(* Slots are an interval apart, whoever takes them, unless somebody took   *)
(* so long over one that his lock expired under him                        *)
(* (_wait_for_nominatim_slot).                                             *)
SlotsAreSpaced == ~crowded

\* No request of a guest, and none with the geocoder switched off, asks it
\* or stores an answer; one that is misconfigured costs no slot.
GuestsNeverAsk ==
    \A r \in Requests :
        /\ query[r].at \notin {"idle", "look", "done"} => query[r].member /\ geocoder # "off"
        /\ query[r].at \notin {"idle", "look", "store", "done"} => geocoder = "on"

(* What the cache says of a place is what an answer about that very place  *)
(* came to, a failed request and a misconfigured geocoder counting as an   *)
(* answer without entries, which is remembered as nothing for a while:     *)
(* being refused a slot, or a cache that fails, is not (_cached_search).   *)
OnlyAnswersAreRemembered ==
    \A k \in Keys : Hit(k) => \E a \in answered[k] : a.point = cache[k].value

(* Nobody is put at a house unless an answer had that house, and no second *)
(* place for it; otherwise he is in the city or nowhere.                   *)
HousesAreConfirmed ==
    \A r \in Requests : query[r].at = "done" => \A i \in DOMAIN query[r].todo :
        LET location == location_key(query[r].todo[i])
            point == PointOf(r, query[r].todo[i])
            Known(kind, house) == {a \in answered[[kind |-> kind, city |-> location.city, house |-> house]] : a.point = point} IN
        point # 0 =>
            \/ Known("city", 0) # {}
            \/ location.house # 0 /\ \E a \in Known("address", location.house) :
                  {a.of[j].point : j \in {n \in DOMAIN a.of : a.of[n].fits /\ a.of[n].exact}} = {point}

(* A guest's payload names nobody, a member's has every record that was    *)
(* listed once, with a point or without, and those at one place together   *)
(* (build_map_payload).                                                    *)
PayloadsAreComplete ==
    \A r \in Requests : query[r].at = "done" =>
        LET payload == build_map_payload(r)
            placed == {mark.rec : mark \in payload.markers} IN
        /\ ~query[r].member => placed \cup payload.unmapped = {}
        /\ query[r].member => /\ placed \cup payload.unmapped = Range(query[r].todo)
                              /\ placed \cap payload.unmapped = {}
        /\ \A m, n \in payload.markers : location_key(m.rec) = location_key(n.rec) => m.point = n.point

MapInvariant ==
    /\ TypeOK /\ SlotsAreSpaced /\ GuestsNeverAsk /\ OnlyAnswersAreRemembered
    /\ HousesAreConfirmed /\ PayloadsAreComplete
=============================================================================
