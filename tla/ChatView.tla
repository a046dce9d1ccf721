------------------------------- MODULE ChatView -------------------------------
(***************************************************************************)
(* One tab of the chat on a telephone: which room it asks for, which one   *)
(* it has joined, and what the other end of its connection believes, while *)
(* the connection breaks and is opened again, answers are late or lost,    *)
(* and the reader does not wait for any of it.                             *)
(*                                                                         *)
(* Left out: the panes of a wide screen, the two seconds for which the     *)
(* list is shown on arrival, drafts, and the messages themselves.          *)
(***************************************************************************)
EXTENDS Naturals, Sequences, FiniteSets

CONSTANTS Rooms, NoRoom, MaxMoves, MaxDrops, MaxBarred

VARIABLES
    view,      \* ViewState and the variables beside it
    up,        \* the socket is open
    opened,    \* it has been open before
    queued,    \* what waits for it to open
    wire,      \* what the server has not read yet
    answers,   \* what the tab has not read yet
    rooms,     \* the rooms the consumer of this connection has joined
    barred,    \* the rooms the reader may not enter any more
    trace,     \* the last identifier of a request
    strayed,   \* the reader left a room while something waited to be sent
    refused,   \* the server refused something written where the reader may write
    moves, drops

vars == <<view, up, opened, queued, wire, answers, rooms, barred, trace, strayed, refused,
          moves, drops>>

NoJoin == [room |-> NoRoom, preserve |-> FALSE, trace |-> 0]

ViewState ==
    [panel: {"list", "room"}, requested: Rooms \cup {NoRoom}, current: Rooms \cup {NoRoom},
     hash: Rooms \cup {NoRoom}, failed: Rooms \cup {NoRoom},
     joining: [room: Rooms \cup {NoRoom}, preserve: BOOLEAN, trace: Nat],
     waiting: [room: Rooms \cup {NoRoom}, preserve: BOOLEAN, trace: {0}],
     out: {<<>>}]

-----------------------------------------------------------------------------
(* The lock of the rooms: a join that finds another one on its way waits,  *)
(* and of those that wait the newest alone goes on.                        *)

locked(v) == v.joining # NoJoin

joinRoom(room, id) == [command |-> "join", room |-> room, trace |-> id]

sendMessage(room) == [command |-> "send", room |-> room, trace |-> 0]

\* The room on the screen is left without a word to the server.
onRoomTryLeave(v) == [v EXCEPT !.current = NoRoom]

StartJoin(v, room, preserve) ==
    LET left == onRoomTryLeave(v)
    IN [left EXCEPT !.joining = [room |-> room, preserve |-> preserve, trace |-> trace + 1],
                    !.out = Append(@, joinRoom(room, trace + 1))]

onRoomTryJoin(v, room, preserve) ==
    LET asked == [v EXCEPT !.requested = room]
    IN IF room = v.current THEN [asked EXCEPT !.panel = "room"]
       ELSE IF locked(v)
            THEN [asked EXCEPT !.waiting = [room |-> room, preserve |-> preserve, trace |-> 0]]
            ELSE StartJoin(asked, room, preserve)

unlock(v) ==
    LET free == [v EXCEPT !.joining = NoJoin, !.waiting = NoJoin]
    IN IF v.waiting = NoJoin THEN free
       ELSE StartJoin(free, v.waiting.room, v.waiting.preserve)

-----------------------------------------------------------------------------
(* The address and what it asks for                                        *)

applyChatRoute(v, room) ==
    IF room = NoRoom THEN [v EXCEPT !.panel = "list", !.requested = NoRoom]
    ELSE onRoomTryJoin([v EXCEPT !.panel = "room", !.requested = room], room, FALSE)

\* The same address twice is applied once.
syncRouteFromLocation(v, room) ==
    IF room = v.hash THEN v ELSE applyChatRoute([v EXCEPT !.hash = room], room)

-----------------------------------------------------------------------------
(* How a join ends                                                         *)

Joined(v) ==
    LET join == v.joining
        stale == v.waiting # NoJoin \/ v.requested # join.room
        shown == [v EXCEPT !.current = join.room]
    IN unlock(IF stale \/ join.preserve THEN shown
              ELSE [shown EXCEPT !.panel = "room", !.failed = NoRoom])

\* A room that is not available: back to the list, whatever was asked since.
Unavailable(v) ==
    unlock(IF v.hash = NoRoom THEN v
           ELSE applyChatRoute([v EXCEPT !.hash = NoRoom], NoRoom))

showJoinError(v) == IF v.failed = NoRoom THEN [v EXCEPT !.failed = v.joining.room] ELSE v

TimedOut(v) == unlock(showJoinError(v))

-----------------------------------------------------------------------------
(* The connection                                                          *)

\* What the step wants to send is sent, or waits for the socket to open.
send(v) ==
    /\ view' = [v EXCEPT !.out = <<>>]
    /\ trace' = IF \E i \in DOMAIN v.out : v.out[i].trace > trace THEN trace + 1 ELSE trace
    /\ IF up THEN wire' = wire \o v.out /\ UNCHANGED queued
             ELSE queued' = queued \o v.out /\ UNCHANGED wire

MutantReconnect(v) ==
    IF v.requested # NoRoom /\ v.requested # v.current
    THEN onRoomTryJoin(v, v.requested, FALSE)
    ELSE IF v.current # NoRoom THEN onRoomTryJoin(v, v.current, TRUE) ELSE v

wsOnReconnect(v) ==
    IF v.requested # NoRoom /\ v.requested # v.current
    THEN onRoomTryJoin(v, v.requested, FALSE)
    ELSE IF v.current # NoRoom
         THEN onRoomTryJoin([v EXCEPT !.current = NoRoom], v.current, TRUE)
         ELSE v

onOpen(v) == IF opened THEN wsOnReconnect(v) ELSE v

\* A new consumer knows of no room; what the handlers of the event send goes
\* out before what has been waiting.
Open ==
    /\ ~up
    /\ LET v == onOpen(view)
       IN /\ view' = [v EXCEPT !.out = <<>>]
          /\ trace' = IF v.out = <<>> THEN trace ELSE trace + 1
          /\ wire' = v.out \o queued
    /\ up' = TRUE /\ opened' = TRUE /\ queued' = <<>> /\ rooms' = {}
    /\ UNCHANGED <<answers, barred, strayed, refused, moves, drops>>

\* Everything on its way is lost, and nobody who waits for it is told.
Drop ==
    /\ up /\ drops < MaxDrops
    /\ drops' = drops + 1 /\ up' = FALSE
    /\ wire' = <<>> /\ answers' = <<>> /\ rooms' = {}
    /\ UNCHANGED <<view, opened, queued, barred, trace, strayed, refused, moves>>

-----------------------------------------------------------------------------
(* The server reads one command of a connection after another              *)

join(order) ==
    LET ok == order.room \notin barred
    IN /\ rooms' = IF ok THEN {order.room} ELSE rooms
       /\ answers' = Append(answers, [trace |-> order.trace, ok |-> ok])
       /\ UNCHANGED refused

Send(order) ==
    /\ refused' = (refused \/ (order.room \in Rooms \ barred /\ order.room \notin rooms))
    /\ UNCHANGED <<rooms, answers>>

receive_json ==
    /\ wire # <<>>
    /\ IF Head(wire).command = "join" THEN join(Head(wire)) ELSE Send(Head(wire))
    /\ wire' = Tail(wire)
    /\ UNCHANGED <<view, up, opened, queued, barred, trace, strayed, moves, drops>>

(* An answer nobody waits for any more is dropped.                         *)
onmessage ==
    /\ answers # <<>>
    /\ answers' = Tail(answers)
    /\ LET answer == Head(answers)
       IN send(IF answer.trace # view.joining.trace THEN view
               ELSE IF answer.ok THEN Joined(view) ELSE Unavailable(view))
    /\ UNCHANGED <<up, opened, rooms, barred, strayed, refused, moves, drops>>

RequestTimeout ==
    /\ locked(view)
    /\ send(TimedOut(view))
    /\ UNCHANGED <<up, opened, answers, rooms, barred, strayed, refused, moves, drops>>

-----------------------------------------------------------------------------
(* The reader                                                              *)

\* A click on a room or on the way back to the list.
Navigate(room) ==
    /\ send(syncRouteFromLocation(view, room))
    /\ strayed' = (strayed \/ \E i \in DOMAIN queued : queued[i].command = "send")

\* The button beside the error, which the address knows nothing of.
Retry ==
    /\ view.failed # NoRoom
    /\ send(onRoomTryJoin([view EXCEPT !.failed = NoRoom], view.failed, FALSE))
    /\ strayed' = (strayed \/ \E i \in DOMAIN queued : queued[i].command = "send")

onSubmitMessage ==
    /\ send([view EXCEPT !.out = <<sendMessage(view.current)>>])
    /\ UNCHANGED strayed

Reader ==
    /\ moves < MaxMoves
    /\ moves' = moves + 1
    /\ (\E room \in Rooms \cup {NoRoom} : Navigate(room)) \/ Retry \/ onSubmitMessage
    /\ UNCHANGED <<up, opened, answers, rooms, barred, refused, drops>>

Bar(room) ==
    /\ Cardinality(barred) < MaxBarred
    /\ barred' = barred \cup {room}
    /\ UNCHANGED <<view, up, opened, queued, wire, answers, rooms, trace, strayed, refused, moves, drops>>

Init ==
    /\ view = [panel |-> "list", requested |-> NoRoom, current |-> NoRoom, hash |-> NoRoom,
               failed |-> NoRoom, joining |-> NoJoin, waiting |-> NoJoin, out |-> <<>>]
    /\ up = FALSE /\ opened = FALSE /\ queued = <<>> /\ wire = <<>> /\ answers = <<>>
    /\ rooms = {} /\ barred = {} /\ trace = 0 /\ strayed = FALSE /\ refused = FALSE
    /\ moves = 0 /\ drops = 0

Next ==
    \/ Open \/ Drop \/ receive_json \/ onmessage \/ RequestTimeout \/ Reader
    \/ \E room \in Rooms : Bar(room)

Spec == Init /\ [][Next]_vars

-----------------------------------------------------------------------------
(* Properties                                                              *)

\* The rooms of the consumer once it has read what is on its way.
Joins == {i \in DOMAIN wire : wire[i].command = "join" /\ wire[i].room \notin barred}

RoomsToBe == IF Joins = {} THEN rooms ELSE {wire[i].room : i \in {j \in Joins : \A k \in Joins : k <= j}}

(* What the screen shows is what the server holds the reader to be present *)
(* in, so that nothing on the screen counts as unread and nothing else as  *)
(* read, whatever broke and however late the answers came (a room the      *)
(* reader has lost is not joined again).                                   *)
PresentWhereShown ==
    up /\ view.current \notin barred \cup {NoRoom} => RoomsToBe = {view.current}

(* The newest wish is the one that is followed: the room asked for is      *)
(* joined, or on its way, or failed; an older join never takes its place.  *)
NewestWins ==
    view.requested # NoRoom =>
        IF view.waiting # NoJoin THEN view.requested = view.waiting.room
        ELSE IF locked(view) THEN view.requested = view.joining.room
        ELSE view.current \in {NoRoom, view.requested}

(* What was written while the connection was down is accepted when it is   *)
(* back, as long as the writer stayed in the room.                         *)
WrittenIsAccepted == refused => strayed

ChatViewInvariant == view \in ViewState /\ PresentWhereShown /\ NewestWins /\ WrittenIsAccepted
=============================================================================
