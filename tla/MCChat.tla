------------------------------- MODULE MCChat -------------------------------
(* The parts of the chat that share no state, on one instance each and in  *)
(* one run: a behaviour is a behaviour of one part, the others at rest.    *)
EXTENDS NotificationQueue, TLC

CONSTANTS
    Tabs, RoomMessages, RoomMoves,                                          \* one reader
    People, Names, FirstNames, Openers, MaxRooms, MaxSuffix, DirectMoves,   \* rooms of two
    Sites, MaxKey, SiteMessages, MaxCopies, MaxSettings,                    \* two groups
    Rooms, ScreenMoves, MaxDrops, MaxBarred,                                \* one telephone
    Members, Author, MaxText, MessageMoves,                                 \* one message
    Users, Budgets                                                          \* one browser

VARIABLES
    part,
    mine, stage, sawit, read, seen, archived, cached, counting, marking, tab, registered, shown,
    known, slipped, miscounted, moves,
    name, status, rooms, made, request, loaded, visit, blurred, begun,
    view, up, opened, queued, socket, answers, joined, barred, trace, strayed, refused, clicks, drops,
    note, group, commands, work, inbox, answered, tabs, muted, taps,
    session, devices, newest, debounced, calls, pref, sending, pushed, owner, muddled, failed, revived, left,
    room, outbound, inbound, expected, posted, delivery, wire, nonces, checked, stored, settings

R == INSTANCE ChatRoom WITH NoTab <- None, MaxMessages <- RoomMessages, MaxMoves <- RoomMoves

D == INSTANCE DirectRooms WITH moves <- begun, Users <- People, MaxMoves <- DirectMoves

F == INSTANCE Federation WITH MaxMessages <- SiteMessages

V == INSTANCE ChatView WITH wire <- socket, rooms <- joined, moves <- clicks,
       NoRoom <- None, MaxMoves <- ScreenMoves

M == INSTANCE Messages WITH message <- note, wire <- commands, job <- work, screen <- answered, tab <- tabs,
       moves <- taps, MaxMoves <- MessageMoves

P == INSTANCE Push WITH rows <- devices, jobs <- sending, wire <- pushed, Nobody <- None

queue == <<vars>>
reading == <<mine, stage, sawit, read, seen, archived, cached, counting, marking, tab, registered, shown,
             known, slipped, miscounted, moves>>
direct == <<name, status, rooms, made, request, loaded, visit, blurred, begun>>
device == <<session, devices, newest, debounced, calls, pref, sending, pushed, owner, muddled, failed, revived, left>>
federated == <<room, outbound, inbound, expected, posted, delivery, wire, nonces, checked, stored, settings>>
screen == <<view, up, opened, queued, socket, answers, joined, barred, trace, strayed, refused, clicks, drops>>
message == <<note, group, commands, work, inbox, answered, tabs, muted, taps>>
all == <<part, queue, reading, direct, screen, message, device, federated>>

ChatInit ==
  /\ part \in {"queue", "room", "direct", "screen", "message", "push", "federation"}
  /\ Init
  /\ R!Init /\ (part # "room" => seen)
  /\ D!Init /\ name = FirstNames
  /\ V!Init
  /\ M!Init /\ (part # "message" => ~muted)
  /\ P!Init /\ (part # "push" => left.logins = 1)
  /\ F!Init

QueueNext == part = "queue" /\ Next /\ UNCHANGED <<part, reading, direct, screen, message, federated, device>>
RoomNext == part = "room" /\ R!Next /\ UNCHANGED <<part, queue, direct, screen, message, federated, device>>
DirectNext == part = "direct" /\ D!Next /\ UNCHANGED <<part, queue, reading, screen, message, federated, device>>
ScreenNext == part = "screen" /\ V!Next /\ UNCHANGED <<part, queue, reading, direct, message, federated, device>>
MessageNext == part = "message" /\ M!Next /\ UNCHANGED <<part, queue, reading, direct, screen, federated, device>>
PushNext == part = "push" /\ P!Next /\ UNCHANGED <<part, queue, reading, direct, screen, message, federated>>
FederationNext == part = "federation" /\ F!Next /\ UNCHANGED <<part, queue, reading, direct, screen, message, device>>
ChatNext == QueueNext \/ RoomNext \/ DirectNext \/ ScreenNext \/ MessageNext \/ PushNext \/ FederationNext
ChatSpec == ChatInit /\ [][ChatNext]_all /\ Fairness

\* The properties of the other parts, each stated in its module.
ChatInvariant == R!ChatInvariant
DirectRoomsInvariant == D!DirectRoomsInvariant
FederationInvariant == F!FederationInvariant
ChatViewInvariant == V!ChatViewInvariant
MessagesInvariant == M!MessagesInvariant
PushInvariant == P!PushInvariant

-----------------------------------------------------------------------------
(* The instance that TLC checks                                            *)

CONSTANTS one, a, b, c, k1, k2, k3, k4

MCFirstNames == a :> k1 @@ b :> k2 @@ c :> k3
MCBudgets ==
    {[logins |-> 2, pages |-> 3, pushes |-> 0, choices |-> 0, faults |-> 0],
     [logins |-> 2, pages |-> 2, pushes |-> 1, choices |-> 0, faults |-> 1],
     [logins |-> 1, pages |-> 1, pushes |-> 1, choices |-> 1, faults |-> 0]}
=============================================================================
