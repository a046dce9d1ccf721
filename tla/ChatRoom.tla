------------------------------ MODULE ChatRoom ------------------------------
(***************************************************************************)
(* One chat room as one of its members meets it: the messages, the rows    *)
(* that say what this member has read, the connections of the member's     *)
(* tabs and the cached number of unread rooms (chat/services.py,           *)
(* command_handlers.py, consumers.py, notifications.py, signals.py, feed). *)
(*                                                                         *)
(* The web process runs the calls of all the sockets on one thread and     *)
(* every HTTP request on another, over a database without transactions     *)
(* around these calls: a message goes through its steps while the other    *)
(* requests go on.  What is read is kept for each member separately, so    *)
(* one reader and the messages of everybody else are the whole state.      *)
(***************************************************************************)
EXTENDS Integers, Sequences, FiniteSets

CONSTANTS
    Tabs,         \* the connections the reader may have
    NoTab,
    MaxMessages,  \* bound: messages of the room
    MaxMoves      \* bound: what the reader and the server's jobs begin

VARIABLES
    mine,      \* of every message, whether the reader wrote it
    stage,     \* how far the sending of every message has come
    sawit,     \* of every message, whether the reader's room was seen when it came
    read,      \* MessageReadBy of the reader
    seen,      \* the reader is in Room.seen_by
    archived,
    cached,    \* the cached number of unread rooms, of this one room
    counting,  \* a number counted and not yet put into the cache
    marking,   \* the messages that a marking of the room has listed
    tab,       \* of every tab: closed, open, joining, here
    registered,\* the connection in the registry of those online
    shown,     \* the messages on the screen of every tab
    known,     \* history: shown to the reader once, or marked as read since they came
    slipped,   \* history: came in one of the two moments that lose the mark
    miscounted,\* history: the cached number was wrong when it was put there
    moves

readState == <<read, seen, cached, miscounted>>
sending   == <<mine, stage, sawit>>
screens   == <<tab, registered, shown>>
vars == <<sending, readState, archived, counting, marking, screens, known, slipped, moves>>

Messages == 1..Len(mine)
Others   == {m \in Messages : ~mine[m]}
NoCount  == -1
Nothing  == {0}

Count(s, r, a) == IF ~a /\ ~s /\ Others \ r # {} THEN 1 ELSE 0

(* _unread_messages                                                        *)
unread == IF seen THEN {} ELSE Others \ read

Init ==
    /\ mine = <<>> /\ stage = <<>> /\ sawit = <<>>
    /\ read = {} /\ seen \in BOOLEAN /\ archived = FALSE
    /\ cached = NoCount /\ counting = NoCount /\ miscounted = FALSE /\ marking = Nothing
    /\ tab = [t \in Tabs |-> "closed"] /\ registered = NoTab
    /\ shown = [t \in Tabs |-> {}]
    /\ known = {} /\ slipped = {} /\ moves = 0

(* _invalidate_unread_cache                                                *)
Forget == cached' = NoCount /\ miscounted' = FALSE

-----------------------------------------------------------------------------
(* The reader's connections                                                *)

connect(t) ==
    /\ tab[t] = "closed"
    /\ tab' = [tab EXCEPT ![t] = "open"] /\ registered' = t
    /\ UNCHANGED <<sending, readState, archived, counting, marking, shown, known, slipped>>

(* OnlineUserRegistry.make_offline: only the newest tab is registered.     *)
make_offline(t) == IF registered = t THEN NoTab ELSE registered

disconnect(t) ==
    /\ tab[t] # "closed"
    /\ tab' = [tab EXCEPT ![t] = "closed"] /\ registered' = make_offline(t)
    /\ shown' = [shown EXCEPT ![t] = {}]
    /\ UNCHANGED <<sending, readState, archived, counting, marking, known, slipped>>

(* join: into the group first, then the recent messages.                   *)
join(t) ==
    /\ tab[t] = "open" /\ tab' = [tab EXCEPT ![t] = "joining"]
    /\ UNCHANGED <<sending, readState, archived, counting, marking, registered, shown, known, slipped>>

get_recent_messages_batch(t) ==
    /\ tab[t] = "joining" /\ tab' = [tab EXCEPT ![t] = "here"]
    /\ shown' = [shown EXCEPT ![t] = Messages]
    /\ known' = known \cup Messages
    /\ UNCHANGED <<sending, readState, archived, counting, marking, registered, slipped>>

leave(t) ==
    /\ tab[t] = "here" /\ tab' = [tab EXCEPT ![t] = "open"]
    /\ shown' = [shown EXCEPT ![t] = {}]
    /\ UNCHANGED <<sending, readState, archived, counting, marking, registered, known, slipped>>

Present(t) == tab[t] \in {"joining", "here"}

-----------------------------------------------------------------------------
(* A message: send_message and ChatNotificationService.dispatch_message    *)

(* The row; a message of the reader comes from a tab in the room.          *)
_create_message(own) ==
    /\ Len(mine) < MaxMessages
    /\ own => \E t \in Tabs : tab[t] = "here"
    /\ mine' = Append(mine, own) /\ stage' = Append(stage, "stored") /\ sawit' = Append(sawit, FALSE)
    /\ UNCHANGED <<readState, archived, counting, marking, screens, known, slipped>>

(* The receiver of post_save: the room is active again.                    *)
_sync_room_last_message(m) ==
    /\ stage[m] = "stored" /\ stage' = [stage EXCEPT ![m] = "saved"]
    /\ archived' = FALSE
    /\ miscounted' = (cached # NoCount /\ (miscounted \/ archived))
    /\ UNCHANGED <<mine, sawit, read, seen, cached, counting, marking, screens, known, slipped>>

(* group_send: on the screens of the tabs in the room.                     *)
send_message(m) ==
    /\ stage[m] = "saved"
    /\ stage' = [stage EXCEPT ![m] = IF mine[m] THEN "done" ELSE "sent"]
    /\ shown' = [t \in Tabs |-> IF Present(t) THEN shown[t] \cup {m} ELSE shown[t]]
    /\ known' = known \cup (IF \E t \in Tabs : Present(t) THEN {m} ELSE {})
    /\ UNCHANGED <<mine, sawit, readState, archived, counting, marking, tab, registered, slipped>>

MutantUnread == read' = {} /\ UNCHANGED seen /\ Forget
mark_room_unread_for_user == read' = {} /\ seen' = FALSE /\ Forget

(* Who is online is looked up first; for one who is not, all that was read *)
(* in the room is unread again.                                            *)
_clear_unread_state(m) ==
    IF registered = NoTab THEN read' = {} /\ seen' = FALSE ELSE UNCHANGED <<read, seen>>

Dispatch(m) ==
    /\ stage[m] = "sent" /\ stage' = [stage EXCEPT ![m] = "cleared"]
    /\ _clear_unread_state(m)
    /\ UNCHANGED <<mine, sawit, cached, miscounted, archived, counting, marking, screens, known, slipped>>

(* _clear_unread_caches and get_membership_preferences_bulk                *)
Prefer(m) ==
    /\ stage[m] = "cleared" /\ stage' = [stage EXCEPT ![m] = "preferred"]
    /\ Forget
    /\ sawit' = [sawit EXCEPT ![m] = seen \/ Others \subseteq read]
    /\ UNCHANGED <<mine, read, seen, archived, counting, marking, screens, known, slipped>>

(* The reader is told: the registered tab, elsewhere, makes the room       *)
(* unread.                                                                 *)
Tell(m) ==
    /\ stage[m] = "preferred" /\ stage' = [stage EXCEPT ![m] = "done"]
    /\ IF sawit[m] /\ registered # NoTab /\ ~Present(registered)
       THEN mark_room_unread_for_user
       ELSE UNCHANGED readState
    /\ slipped' = slipped \cup
         (IF sawit[m] /\ (registered = NoTab \/ tab[registered] = "joining") THEN {m} ELSE {})
    /\ UNCHANGED <<mine, sawit, archived, counting, marking, screens, known>>

-----------------------------------------------------------------------------
(* Reading                                                                 *)

(* mark_room_read_for_user: the messages are listed, then marked.          *)
ListRoom ==
    /\ marking = Nothing /\ marking' = Others
    /\ \E t \in Tabs : tab[t] # "closed"
    /\ UNCHANGED <<sending, readState, archived, counting, screens, known, slipped>>

mark_room_read_for_user ==
    /\ marking # Nothing /\ marking' = Nothing
    /\ read' = read \cup marking /\ seen' = TRUE /\ Forget
    /\ known' = known \cup marking
    /\ slipped' = slipped \cup (Others \ marking)
    /\ UNCHANGED <<sending, archived, counting, screens>>

(* From the feed: one message, and with it the room.                       *)
mark_message_read_for_user(m) ==
    /\ m \in Others \ read
    /\ read' = read \cup {m} /\ seen' = TRUE /\ Forget
    /\ known' = known \cup Messages
    /\ UNCHANGED <<sending, archived, counting, marking, screens, slipped>>

(* Sent by a tab for what is on its screen.                                *)
mark_messages_read_bulk(t) ==
    /\ tab[t] = "here" /\ ~(shown[t] \cap Others \subseteq read)
    /\ read' = read \cup (shown[t] \cap Others) /\ Forget
    /\ UNCHANGED <<sending, seen, archived, counting, marking, screens, known, slipped>>

unsee_room ==
    /\ \E t \in Tabs : tab[t] # "closed"
    /\ mark_room_unread_for_user
    /\ UNCHANGED <<sending, archived, counting, marking, screens, known, slipped>>

mark_message_unread_for_user(m) ==
    /\ m \in Others
    /\ read' = read \ {m} /\ seen' = FALSE /\ Forget
    /\ UNCHANGED <<sending, archived, counting, marking, screens, known, slipped>>

(* get_unread_count_for_user: from the cache, or counted and put there.    *)
CountUnread ==
    /\ cached = NoCount /\ counting = NoCount
    /\ counting' = Count(seen, read, archived)
    /\ UNCHANGED <<sending, readState, archived, marking, screens, known, slipped>>

get_unread_count_for_user ==
    /\ counting # NoCount /\ counting' = NoCount
    /\ cached' = counting /\ miscounted' = (counting # Count(seen, read, archived))
    /\ UNCHANGED <<sending, read, seen, archived, marking, screens, known, slipped>>

Expire ==
    /\ cached # NoCount /\ Forget
    /\ UNCHANGED <<sending, read, seen, archived, counting, marking, screens, known, slipped>>

(* The command chat_rooms archives and revives; so does opening a room.    *)
Archive ==
    /\ archived' = ~archived
    /\ miscounted' = (cached # NoCount)
    /\ UNCHANGED <<sending, read, seen, cached, counting, marking, screens, known, slipped>>

(* What is begun, and what goes on by itself.                              *)
Begin ==
    \/ \E t \in Tabs : connect(t) \/ disconnect(t) \/ join(t) \/ leave(t) \/ mark_messages_read_bulk(t)
    \/ \E m \in Messages : mark_message_read_for_user(m) \/ mark_message_unread_for_user(m)
    \/ ListRoom \/ unsee_room
    \/ CountUnread \/ Expire \/ Archive

GoOn ==
    \/ \E own \in BOOLEAN : _create_message(own)
    \/ \E m \in Messages : _sync_room_last_message(m) \/ send_message(m)
    \/ \E m \in Messages : Dispatch(m) \/ Prefer(m) \/ Tell(m)
    \/ \E t \in Tabs : get_recent_messages_batch(t)
    \/ mark_room_read_for_user \/ get_unread_count_for_user

Next ==
    \/ Begin /\ moves < MaxMoves /\ moves' = moves + 1
    \/ GoOn /\ UNCHANGED moves

Spec == Init /\ [][Next]_vars

-----------------------------------------------------------------------------
(* Properties                                                              *)

TypeOK ==
    /\ mine \in Seq(BOOLEAN) /\ Len(stage) = Len(mine) /\ Len(sawit) = Len(mine)
    /\ read \subseteq Others /\ known \subseteq Messages /\ slipped \subseteq Others
    /\ registered \in Tabs => tab[registered] # "closed"

(* A message of somebody else that has been dispatched is unread, unless   *)
(* the reader had it on a screen or has marked it since it came: except    *)
(* when the last tab closed, or was only just joining, while the message   *)
(* was dispatched, and when it came while the room was being marked.       *)
NothingIsMissed ==
    \A m \in Others : stage[m] = "done" => m \in unread \cup known \cup slipped

(* A tab that has loaded the room shows every message sent to it.          *)
NoGap ==
    \A t \in Tabs, m \in Messages :
        tab[t] = "here" /\ stage[m] \in {"sent", "cleared", "preferred", "done"} => m \in shown[t]

(* When no message is under way the cached number is right, unless it was  *)
(* counted before a change and stored after it, or the room was archived   *)
(* or revived since.                                                       *)
CountIsRight ==
    (\A m \in Messages : stage[m] = "done") =>
        \/ cached = NoCount
        \/ cached = Count(seen, read, archived)
        \/ miscounted

ChatInvariant == TypeOK /\ NoGap /\ CountIsRight /\ NothingIsMissed
=============================================================================
