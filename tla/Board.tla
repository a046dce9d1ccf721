------------------------------- MODULE Board -------------------------------
(***************************************************************************)
(* One document of the board and its discussion room: board/views.py,      *)
(* models.py and signals.py with the room requests of chat/signals.py.     *)
(*                                                                         *)
(* Saving a document is one transaction that also adjusts the room, from   *)
(* the document as the request has it in memory; a transaction reads first *)
(* and is refused when another has been committed meanwhile.  A message to *)
(* the room of an archived document restores it, in three steps.           *)
(***************************************************************************)
EXTENDS Integers, FiniteSets

CONSTANTS
    Citizens,    \* all who may ever be admitted
    Founders,    \* those who are from the start
    MaxPending,  \* bound: requests under way at once
    MaxAsked     \* bound: requests

VARIABLES
    system,      \* the document has a system_key
    visibility,  \* "none" before the document, "deleted" after it
    room,        \* [archived, public]
    allowed,     \* room.allowed
    citizens,    \* the active users
    greeting,    \* citizen -> receivers of citizen_accepted still to run
    pending,     \* requests and messages under way
    adrift,      \* history: the room was set from what no longer was so
    dormant,     \* history: chat_rooms has archived the room since
    asked

vars == <<system, visibility, room, allowed, citizens, greeting, pending, adrift, dormant, asked>>

Visible == {"group", "public"}
Chosen == Visible \cup {"archive"}

(* chat_room_public and chat_room_archived                                 *)
RoomOf(v) == [archived |-> v = "archive", public |-> v = "public"]

Init ==
    /\ system \in BOOLEAN
    /\ visibility = (IF system THEN "public" ELSE "none")
    /\ room = RoomOf(visibility)
    /\ citizens = Founders
    /\ allowed = IF system THEN Founders ELSE {}
    /\ greeting = [c \in Citizens |-> {}]
    /\ pending = {} /\ adrift = FALSE /\ dormant = FALSE /\ asked = 0

-----------------------------------------------------------------------------
(* Requests load the document and save it later                            *)

Ask(kind, loaded, chosen) ==
    /\ Cardinality(pending) < MaxPending /\ asked < MaxAsked /\ asked' = asked + 1
    /\ pending' = pending \cup {[kind |-> kind, id |-> asked, loaded |-> loaded, chosen |-> chosen]}
    /\ UNCHANGED <<system, visibility, room, allowed, citizens, greeting, adrift, dormant>>

BeginCreate == visibility = "none" /\ \E v \in Chosen : Ask("create", v, v)

(* The form of a system document has its visibility disabled.              *)
BeginEdit ==
    visibility \in Visible /\ \E v \in IF system THEN {visibility} ELSE Chosen :
        Ask("save", v, v)

delete_post  == ~system /\ visibility \in Visible /\ Ask("save", "archive", "archive")
restore_post == ~system /\ visibility = "archive" /\ Ask("save", "group", "group")

(* Only the image is written; the room is set all the same.                *)
delete_featured_image == visibility \in Visible /\ Ask("image", visibility, "none")

(* A message has opened the room and not yet restored the document.        *)
Restoring == {"restore", "restoring"}

Done(r) == pending' = pending \ {r}

MutantFollow(v) == room' = IF v = visibility' /\ v # visibility THEN RoomOf(v) ELSE room
(* create_or_update_chat_room_for_post, with the document in memory.       *)
Follow(v) == room' = RoomOf(v)

(* Post.save.  For a document deleted meanwhile it fails: a save of some   *)
(* fields finds no row, and the form's, which would insert it again, names *)
(* a room that has been deleted with it (on_chat_room_requested).          *)
Save(r) ==
    /\ r.kind \in {"create", "save", "image", "restoring"}
    /\ IF r.kind = "create" THEN visibility = "none" ELSE visibility \in Chosen
    /\ visibility' = IF system THEN "public"
                     ELSE IF r.kind = "image" THEN visibility ELSE r.chosen
    /\ LET shown == IF system THEN "public" ELSE r.loaded
       IN  Follow(shown) /\ adrift' = (shown # visibility')
    /\ allowed' = citizens /\ dormant' = FALSE
    /\ Done(r) /\ UNCHANGED <<system, citizens, greeting, asked>>

(* The request breaks off.  A message that has opened the room of an       *)
(* archived document leaves it open.                                       *)
Fail(r) ==
    /\ Done(r) /\ adrift' = (adrift \/ r.kind \in Restoring)
    /\ UNCHANGED <<system, visibility, room, allowed, citizens, greeting, dormant, asked>>

(* delete_archived_posts has found the document archived for long; it and  *)
(* its room are deleted whatever has become of it.                         *)
BeginExpire == ~system /\ visibility = "archive" /\ Ask("expire", "archive", "none")

Expire(r) ==
    /\ r.kind = "expire" /\ visibility \in Chosen
    /\ visibility' = "deleted" /\ room' = RoomOf("deleted") /\ allowed' = {}
    /\ Done(r) /\ adrift' = FALSE /\ dormant' = FALSE
    /\ UNCHANGED <<system, citizens, greeting, asked>>

-----------------------------------------------------------------------------
(* A message to the room: _sync_room_last_message and                      *)
(* restore_archived_post_after_discussion_message                          *)

BeginMessage ==
    visibility \in Chosen /\ Ask(IF room.archived THEN "revive" ELSE "post", "none", "none")

Opened ==
    /\ visibility \in Chosen
    /\ room' = [room EXCEPT !.archived = FALSE] /\ dormant' = FALSE

PostMessage(r) ==
    /\ r.kind = "post"
    /\ Opened /\ adrift' = (adrift \/ (room.archived /\ ~dormant))
    /\ Done(r) /\ UNCHANGED <<system, visibility, allowed, citizens, greeting, asked>>

Become(r, kind, v) ==
    pending' = (pending \ {r}) \cup {[r EXCEPT !.kind = kind, !.loaded = v, !.chosen = v]}

ReviveRoom(r) ==
    /\ r.kind = "revive" /\ Opened /\ Become(r, "restore", "none")
    /\ UNCHANGED <<system, visibility, allowed, citizens, greeting, adrift, asked>>

(* The document is loaded if it is archived, and saved later.              *)
LoadArchived(r) ==
    /\ r.kind = "restore"
    /\ IF visibility = "archive" THEN Become(r, "restoring", "group") ELSE Done(r)
    /\ UNCHANGED <<system, visibility, room, allowed, citizens, greeting, adrift, dormant, asked>>

-----------------------------------------------------------------------------
(* Citizens                                                                *)

(* The account is active before citizen_accepted is sent.                  *)
Accept(c) ==
    /\ c \notin citizens /\ citizens' = citizens \cup {c}
    /\ greeting' = [greeting EXCEPT ![c] = {"public", "documents"}]
    /\ UNCHANGED <<system, visibility, room, allowed, pending, adrift, dormant, asked>>

(* add_citizen_to_public_rooms, then add_new_citizen_to_document_rooms     *)
Greet(c, receiver) ==
    /\ receiver \in greeting[c]
    /\ receiver = "documents" => "public" \notin greeting[c]
    /\ greeting' = [greeting EXCEPT ![c] = @ \ {receiver}]
    /\ allowed' = IF visibility \in Chosen /\ (IF receiver = "public" THEN room.public
                                             ELSE visibility \in {"group", "archive"})
                  THEN allowed \cup {c} ELSE allowed
    /\ UNCHANGED <<system, visibility, room, citizens, pending, adrift, dormant, asked>>

(* chat_rooms, which excludes count_citizens and so admissions: public     *)
(* rooms are opened to all, and rooms without messages for long archived.  *)
chat_rooms ==
    /\ visibility \in Chosen /\ \A c \in Citizens : greeting[c] = {}
    /\ allowed' = IF room.public THEN citizens ELSE allowed
    /\ \/ room' = [room EXCEPT !.archived = TRUE] /\ dormant' = (dormant \/ ~room.archived)
       \/ UNCHANGED <<room, dormant>>
    /\ UNCHANGED <<system, visibility, citizens, greeting, pending, adrift, asked>>

Leave(c) ==
    /\ c \in citizens
    /\ citizens' = citizens \ {c} /\ allowed' = allowed \ {c}
    /\ greeting' = [greeting EXCEPT ![c] = {}]
    /\ UNCHANGED <<system, visibility, room, pending, adrift, dormant, asked>>

Next ==
    \/ BeginCreate \/ BeginEdit \/ delete_post \/ restore_post \/ delete_featured_image
    \/ BeginExpire \/ BeginMessage \/ chat_rooms
    \/ \E r \in pending :
         \/ Save(r) \/ Expire(r) \/ PostMessage(r) \/ ReviveRoom(r) \/ LoadArchived(r) \/ Fail(r)
    \/ \E c \in Citizens :
         Accept(c) \/ Leave(c) \/ \E receiver \in {"public", "documents"} : Greet(c, receiver)

Spec == Init /\ [][Next]_vars

-----------------------------------------------------------------------------
(* Properties                                                              *)

TypeOK ==
    /\ visibility \in Chosen \cup {"none", "deleted"} /\ room \in [archived : BOOLEAN, public : BOOLEAN]
    /\ allowed \subseteq citizens /\ citizens \subseteq Citizens
    /\ system => visibility = "public"

(* The room of a document is public or archived as the document is, unless *)
(* it was set from an older state of it or a message is restoring it; only *)
(* for want of messages may it be archived before its document is.         *)
RoomFollows ==
    visibility \in Chosen /\ ~adrift /\ (\A r \in pending : r.kind \notin Restoring) =>
        /\ room.public = (visibility = "public")
        /\ room.archived = (visibility = "archive" \/ dormant)

(* Every citizen may join the discussion, as soon as the admission has run *)
(* its course, whatever is saved meanwhile, unless the room was set from   *)
(* an older state of the document.                                         *)
EveryoneMayDiscuss ==
    visibility \in Chosen /\ ~adrift =>
        \A c \in citizens : greeting[c] = {} => c \in allowed

(* The room is as its document is, and open to every citizen.              *)
BoardInvariant == TypeOK /\ RoomFollows /\ EveryoneMayDiscuss
=============================================================================
