---------------------------- MODULE DirectRooms ----------------------------
(***************************************************************************)
(* The rooms of two citizens: Room.get_or_create_for_users                 *)
(* (chat/models.py) called by open_dm (chat/views.py) and for every pair   *)
(* when a citizen is accepted (chat/signals.py), the clean-up after a      *)
(* deleted citizen, and the nightly command chat_rooms.                    *)
(*                                                                         *)
(* A title is the names it was made of and its suffix, which but at the    *)
(* first attempt says for which pair it is; no two rooms have the same.    *)
(* The command works on the rooms as it loaded them and saves whole rows.  *)
(***************************************************************************)
EXTENDS Integers, Sequences, FiniteSets, FiniteSetsExt, SequencesExt

CONSTANTS
    Users, Names,
    Openers,     \* requests under way at a time
    MaxRooms,    \* bound: rows of rooms
    MaxSuffix,   \* bound: attempts at a title, 10 in the code
    MaxMoves     \* bound: what is begun

VARIABLES
    name,     \* of every user
    status,   \* active, leaving, inactive or gone
    rooms,    \* the rows, by their number
    made,     \* the last number given; none is given twice
    request,  \* of every opener
    loaded,   \* the rooms the nightly command has still to visit
    visit,    \* the one it is visiting
    blurred,  \* history: pairs sought while a name changed or a room went
    moves

vars == <<name, status, rooms, made, request, loaded, visit, blurred, moves>>

\* The end of the title of a pair's room at the given attempt.
Ending(pair, attempt) == [pair |-> IF attempt = 0 THEN {} ELSE pair, number |-> attempt]

NoRoom  == [members |-> {}, names |-> {}, suffix |-> Ending({}, 0), archived |-> FALSE, quiet |-> FALSE, late |-> FALSE]
Idle    == [pair |-> {}, names |-> {}, attempt |-> 0, sees |-> FALSE]
NoVisit == [row |-> 0, room |-> NoRoom, rest |-> <<>>]

Numbers == 1..MaxRooms
Used    == {i \in Numbers : rooms[i] # NoRoom}
Pairs   == kSubset(2, Users)

(* find_with_users                                                         *)
With(pair) == {i \in Used : rooms[i].members = pair}
Titled(ns, suffix) == {i \in Used : rooms[i].names = ns /\ rooms[i].suffix = suffix}

Init ==
    /\ \E f \in [Users -> Names] : IsInjective(f) /\ name = f
    /\ status = [u \in Users |-> "active"]
    /\ rooms = [i \in Numbers |-> NoRoom] /\ made = 0
    /\ request = [o \in Openers |-> Idle]
    /\ loaded = {} /\ visit = NoVisit /\ blurred = {} /\ moves = 0

Sought == {request[o].pair : o \in Openers} \ {{}}

-----------------------------------------------------------------------------
(* Opening a room                                                          *)

(* open_dm or create_all_one2one_rooms: the users are loaded.              *)
Open(o, pair) ==
    /\ request[o] = Idle /\ \A u \in pair : status[u] \in {"active", "leaving"}
    /\ request' = [request EXCEPT ![o] =
         [pair |-> pair, names |-> {name[u] : u \in pair}, attempt |-> 0, sees |-> TRUE]]
    /\ UNCHANGED <<made, name, status, rooms, loaded, visit, blurred>>

(* The room is there: open_dm brings it back from the archive.             *)
Find(o) ==
    LET r == request[o]
    IN  /\ r.sees
        /\ IF With(r.pair) = {}
           THEN request' = [request EXCEPT ![o].sees = FALSE] /\ UNCHANGED rooms
           ELSE /\ request' = [request EXCEPT ![o] = Idle]
                /\ \E i \in With(r.pair) : rooms' = [rooms EXCEPT ![i].archived = FALSE]
        /\ UNCHANGED <<made, name, status, loaded, visit, blurred>>

MutantTaken(ns, suffix) == FALSE
(* The titles are unique.                                                  *)
Taken(ns, suffix) == Titled(ns, suffix) # {}

(* The room and its two members in one transaction, or the next title; a   *)
(* member who is gone meanwhile is an error.                               *)
Create(o) ==
    LET r == request[o]
    IN  /\ r.pair # {} /\ ~r.sees
        /\ IF Taken(r.names, Ending(r.pair, r.attempt))
           THEN /\ r.attempt < MaxSuffix
                /\ request' = [request EXCEPT ![o].attempt = @ + 1, ![o].sees = TRUE]
                /\ UNCHANGED <<rooms, made>>
           ELSE /\ made < MaxRooms
                /\ made' = IF \E u \in r.pair : status[u] = "gone" THEN made ELSE made + 1
                /\ rooms' = IF made' = made THEN rooms
                            ELSE [rooms EXCEPT ![made'] =
                                   [members |-> r.pair, names |-> r.names, suffix |-> Ending(r.pair, r.attempt),
                                    archived |-> FALSE, quiet |-> FALSE,
                                    late |-> \E u \in r.pair : status[u] = "leaving"]]
                /\ request' = [request EXCEPT ![o] = Idle]
        /\ UNCHANGED <<name, status, loaded, visit, blurred>>

-----------------------------------------------------------------------------
(* The citizens                                                            *)

Rename(u, n) ==
    /\ status[u] # "gone" /\ n \notin Range(name)
    /\ name' = [name EXCEPT ![u] = n]
    /\ blurred' = blurred \cup Sought
    /\ UNCHANGED <<made, status, rooms, request, loaded, visit>>

Deactivate(u) ==
    /\ status[u] = "active" /\ status' = [status EXCEPT ![u] = "inactive"]
    /\ UNCHANGED <<made, name, rooms, request, loaded, visit, blurred>>

Activate(u) ==
    /\ status[u] = "inactive" /\ status' = [status EXCEPT ![u] = "active"]
    /\ UNCHANGED <<made, name, rooms, request, loaded, visit, blurred>>

(* The rooms of two go, the other memberships too.                         *)
Cleaned(room, u) ==
    IF u \notin room.members THEN room
    ELSE IF Cardinality(room.members) = 2 THEN NoRoom ELSE [room EXCEPT !.members = @ \ {u}]

cleanup_user_chat_rooms(u) ==
    /\ status[u] \in {"active", "inactive"}
    /\ status' = [status EXCEPT ![u] = "leaving"]
    /\ rooms' = [i \in Numbers |-> Cleaned(rooms[i], u)]
    /\ blurred' = blurred \cup Sought
    /\ UNCHANGED <<made, name, request, loaded, visit>>

(* The row of the citizen goes last.                                       *)
DeleteUser(u) ==
    /\ status[u] = "leaving" /\ status' = [status EXCEPT ![u] = "gone"]
    /\ rooms' = [i \in Numbers |-> [rooms[i] EXCEPT !.members = @ \ {u}]]
    /\ UNCHANGED <<made, name, request, loaded, visit, blurred>>

(* The last message grows old.                                             *)
Pass(i) ==
    /\ rooms[i].members # {} /\ ~rooms[i].quiet
    /\ rooms' = [rooms EXCEPT ![i].quiet = TRUE]
    /\ UNCHANGED <<made, name, status, request, loaded, visit, blurred>>

-----------------------------------------------------------------------------
(* The command chat_rooms                                                  *)

(* The rooms of two are loaded.                                            *)
Night ==
    /\ loaded = {} /\ visit = NoVisit
    /\ loaded' = {[row |-> i, room |-> rooms[i]] : i \in {j \in Used : Cardinality(rooms[j].members) = 2}}
    /\ UNCHANGED <<made, name, status, rooms, request, visit, blurred>>

(* The members of the next one, in the order of the database.              *)
Visit ==
    /\ visit = NoVisit
    /\ \E l \in loaded :
         /\ loaded' = loaded \ {l}
         /\ \E order \in SetToSeqs(rooms[l.row].members) :
              visit' = IF order = <<>> THEN NoVisit ELSE [row |-> l.row, room |-> l.room, rest |-> order]
    /\ UNCHANGED <<made, name, status, rooms, request, blurred>>

(* room.save(): the whole row as it was loaded; a row that is gone is      *)
(* made again, without members.                                            *)
SavedRow(i, room) == [room EXCEPT !.members = rooms[i].members, !.quiet = rooms[i].quiet, !.late = rooms[i].late]

(* The room of somebody inactive is deleted when its last message is old.  *)
Doomed(v) == v.row \in Used /\ rooms[v.row].quiet

HandleMember ==
    LET v    == visit
        u    == Head(v.rest)
        idle == status[u] \notin {"active", "leaving"}
        at   == IF v.row = 0 THEN made + 1 ELSE v.row
        room == [v.room EXCEPT !.archived = idle]
        next == [row |-> IF idle /\ Doomed([v EXCEPT !.row = at]) THEN 0 ELSE at,
                 room |-> room, rest |-> Tail(v.rest)]
    IN  /\ v # NoVisit /\ (v.row = 0 => made < MaxRooms)
        /\ Titled(room.names, room.suffix) \subseteq {at}
        /\ rooms' = [rooms EXCEPT ![at] = IF next.row = 0 THEN NoRoom ELSE SavedRow(at, room)]
        /\ visit' = IF next.rest = <<>> THEN NoVisit ELSE next
        /\ made' = IF v.row = 0 THEN at ELSE made
        /\ blurred' = IF next.row = 0 THEN blurred \cup Sought ELSE blurred
        /\ UNCHANGED <<name, status, request, loaded>>

(* Another room has the title: the command ends with an error.             *)
Abort ==
    /\ visit # NoVisit
    /\ ~(Titled(visit.room.names, visit.room.suffix) \subseteq {visit.row})
    /\ visit' = NoVisit /\ loaded' = {}
    /\ UNCHANGED <<made, name, status, rooms, request, blurred>>

(* A room without members goes after the time of retention.                *)
Retire(i) ==
    /\ i \in Used /\ rooms[i].members = {}
    /\ rooms' = [rooms EXCEPT ![i] = NoRoom]
    /\ blurred' = blurred \cup Sought
    /\ UNCHANGED <<made, name, status, request, loaded, visit>>

Begin ==
    \/ \E o \in Openers, pair \in Pairs : Open(o, pair)
    \/ \E u \in Users, n \in Names : Rename(u, n)
    \/ \E u \in Users : Deactivate(u) \/ Activate(u) \/ cleanup_user_chat_rooms(u)
    \/ \E i \in Numbers : Pass(i) \/ Retire(i)
    \/ Night

GoOn ==
    \/ \E o \in Openers : Find(o) \/ Create(o)
    \/ \E u \in Users : DeleteUser(u)
    \/ Visit \/ HandleMember \/ Abort

Next ==
    \/ Begin /\ moves < MaxMoves /\ moves' = moves + 1
    \/ GoOn /\ UNCHANGED moves

Spec == Init /\ [][Next]_vars

-----------------------------------------------------------------------------
(* Properties                                                              *)

TypeOK ==
    /\ name \in [Users -> Names] /\ IsInjective(name)
    /\ status \in [Users -> {"active", "leaving", "inactive", "gone"}]
    /\ \A i \in Used : rooms[i].members \subseteq Users /\ Cardinality(rooms[i].members) <= 2

(* Two citizens have one room, however many requests open it at a time:    *)
(* but when a citizen is renamed, or a room goes, while they are at it.    *)
OneRoomPerPair == \A pair \in Pairs \ blurred : Cardinality(With(pair)) <= 1

(* Nobody is left alone in a room of two, unless it was opened after the   *)
(* other's rooms were cleaned up; nobody who is gone is in a room.         *)
NobodyAlone ==
    \A i \in Used :
        /\ Cardinality(rooms[i].members) = 1 => rooms[i].late
        /\ \A u \in rooms[i].members : status[u] # "gone"

DirectRoomsInvariant == TypeOK /\ OneRoomPerPair /\ NobodyAlone
=============================================================================
