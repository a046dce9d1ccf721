--------------------------- MODULE DiscussionRooms ---------------------------
(***************************************************************************)
(* The room in which an activity, a document, a vote or a survey is        *)
(* discussed: made, linked, renamed and deleted with its object            *)
(* (chat/signals.py), made for many at once (ChatRoomQuerySet of           *)
(* chat/models.py), mended by the command repair_discussion_rooms, and     *)
(* joined by a new citizen; and the inbox, ensured when the site starts.   *)
(*                                                                         *)
(* The object holds the number of its room, the room the app and number of *)
(* its object; older data may lack either.  Requests and the command work  *)
(* on objects as they have loaded them, and save whole rows.  The answer   *)
(* to one signal, and the deletion of an object, are transactions.         *)
(*                                                                         *)
(* Left out: which documents are public or archived and what is said in    *)
(* the rooms (Board), rooms of two and the clearing of old rooms           *)
(* (DirectRooms).  All rooms here are public.                              *)
(***************************************************************************)
EXTENDS Integers, Sequences, FiniteSetsExt, SequencesExt

CONSTANTS
    Apps,       \* of every object
    Users,
    Legacies,   \* per object: what older data looks like
    Actives,    \* sets of users
    MaxRooms,   \* bound: rows of rooms
    Budgets

Objects == DOMAIN Apps
Ids == 1..MaxRooms

VARIABLES
    rows,      \* of the objects
    rooms, made,
    active,
    request,   \* objects loaded to be saved or deleted
    command,   \* repair_discussion_rooms
    joining,   \* a citizen being accepted
    legacy,    \* history: rooms of older data
    bonded,    \* history: objects that were sound once
    overlaid,  \* history: objects saved with an older link, or handled when gone already
    loud,      \* history: members with a reason to hear a room
    shut,      \* history: citizens the public rooms could not be opened to
    left

vars == <<rows, rooms, made, active, request, command, joining, legacy, bonded, overlaid, loud, shut, left>>

Spend(what) == left[what] > 0 /\ left' = [left EXCEPT ![what] = @ - 1]

NoRoom == [there |-> FALSE, tag |-> 0, inbox |-> FALSE, title |-> <<0, 0, 0>>, members |-> {}, muted |-> {}]
Idle == [mode |-> "none", apps |-> <<>>, work |-> {}, users |-> {}, quiet |-> FALSE, clean |-> FALSE, failed |-> {}, fixed |-> 0]
Nobody == [of |-> {}, step |-> "none", ids |-> {}]

-----------------------------------------------------------------------------
(* Rooms                                                                   *)

\* A title: the object's number, the version of its name, and a suffix, 0 for none.
Title(o, v, s) == <<o, v, s>>
InboxTitle == <<0, 0, 0>>
There == {r \in Ids : rooms[r].there}
Titled(t) == {r \in There : rooms[r].title = t}
RoomOf(o) == {r \in There : rooms[r].tag = o}

\* Room.apply_default_notification_preferences: who joins a discussion does not hear it.
Join(room, us) ==
    [room EXCEPT !.members = @ \cup us, !.muted = IF room.tag = 0 THEN @ ELSE @ \cup (us \ room.members)]
Invite(room) == [Join(room, active) EXCEPT !.members = active]

\* _create_discussion_room: the first of ten titles that is free.
_create_discussion_room(o, v) ==
    LET free == CHOOSE s \in 0..9 : Titled(Title(o, v, s)) = {} /\ \A t \in 0..(s - 1) : Titled(Title(o, v, t)) # {}
    IN [NoRoom EXCEPT !.there = TRUE, !.tag = o, !.title = Title(o, v, free)]

\* The title of a room there is already; suffix 10 is the one without a count.
Renamed(r, v) ==
    LET o == rooms[r].tag
    IN IF Titled(Title(o, v, 0)) \ {r} # {} THEN Title(o, v, 10) ELSE Title(o, v, 0)

(* on_chat_room_requested, for an object as its instance has it.  The link *)
(* is written past the instance; inviting sets the members anew.           *)
Known(o, i) == IF i.link # 0 THEN {i.link} ELSE RoomOf(o)
Fails(o, i) == \E r \in Known(o, i) : rooms[r].tag # o \/ Titled(Renamed(r, i.v)) \ {r} # {}

on_chat_room_requested(o, i, invites, saved) ==
    LET known == Known(o, i)
        r == IF known = {} THEN made + 1 ELSE CHOOSE k \in known : TRUE
        room == IF known = {} THEN _create_discussion_room(o, i.v)
                ELSE [rooms[r] EXCEPT !.title = Renamed(r, i.v)]
    IN /\ r \in Ids
       /\ rooms' = [rooms EXCEPT ![r] = IF invites THEN Invite(room) ELSE room]
       /\ made' = IF known = {} THEN r ELSE made
       /\ rows' = [saved EXCEPT ![o].link = IF saved[o].state = "there" THEN r ELSE @]

\* If the answer fails, what was saved before it stays.
Answered(o, i, invites, saved) ==
    IF Fails(o, i) THEN rows' = saved /\ UNCHANGED <<rooms, made>>
    ELSE on_chat_room_requested(o, i, invites, saved)

Sound(o) == rows[o].state = "there" => rows[o].link # 0 /\ rooms[rows[o].link].tag = o
\* History that every step keeps.
Recorded ==
    /\ bonded' = bonded \cup {o \in Objects : rows'[o].state = "there" /\ Sound(o)'}
    /\ legacy' = legacy
Aside == command' = [command EXCEPT !.quiet = FALSE] /\ Recorded

-----------------------------------------------------------------------------
(* Objects                                                                 *)

(* The row is stored before the signal is sent: a crash leaves it alone.   *)
CreateObject(o) ==
    LET saved == [rows EXCEPT ![o] = [state |-> "there", link |-> 0, v |-> 0]]
    IN /\ rows[o].state = "new"
       /\ \/ Answered(o, saved[o], TRUE, saved) /\ UNCHANGED left
          \/ rows' = saved /\ Spend("faults") /\ UNCHANGED <<rooms, made>>
       /\ UNCHANGED <<active, request, joining, overlaid, loud, shut>> /\ Aside

(* All of them, or none if a title is taken.  Members of a room that was   *)
(* there already are not muted.                                            *)
bulk_create(os) ==
    LET fresh == {o \in os : RoomOf(o) = {}}
        id(o) == IF o \in fresh THEN made + Cardinality({p \in fresh : p <= o}) ELSE CHOOSE r \in RoomOf(o) : TRUE
        old == UNION {RoomOf(o) : o \in os}
    IN /\ \A o \in os : rows[o].state = "new" /\ Titled(Title(o, 0, 0)) \subseteq RoomOf(o)
       /\ made + Cardinality(fresh) <= MaxRooms /\ Spend("bulks")
       /\ rows' = [o \in Objects |-> IF o \in os THEN [state |-> "there", link |-> id(o), v |-> 0] ELSE rows[o]]
       /\ rooms' = [r \in Ids |->
            IF r \in old THEN [rooms[r] EXCEPT !.members = @ \cup active]
            ELSE IF \E o \in fresh : id(o) = r
                 THEN Join([NoRoom EXCEPT !.there = TRUE, !.tag = CHOOSE o \in fresh : id(o) = r,
                                          !.title = Title(CHOOSE o \in fresh : id(o) = r, 0, 0)], active)
            ELSE rooms[r]]
       /\ made' = made + Cardinality(fresh)
       /\ loud' = loud \cup (old \X active)
       /\ UNCHANGED <<active, request, joining, overlaid, shut>> /\ Aside

Load(o, does) ==
    /\ rows[o].state = "there" /\ Spend("requests")
    /\ request' = request \cup {[of |-> o, does |-> does, link |-> rows[o].link, v |-> rows[o].v]}
    /\ UNCHANGED <<rows, rooms, made, active, joining, overlaid, loud, shut>> /\ Aside

(* The object under another name: the whole row, with the link it was      *)
(* loaded with.  A row that is gone comes back as a new one, unless its    *)
(* room is gone, too.  The room of an activity keeps its title.            *)
SaveObject(q) ==
    LET o == q.of
        row == [state |-> "there", link |-> q.link, v |-> 1]
        saved == [rows EXCEPT ![o] = row]
        created == rows[o].state = "gone"
        answers == CASE Apps[o] = "board" -> TRUE
                     [] Apps[o] = "tasks" -> created
                     [] OTHER -> created \/ q.link # 0
    IN /\ q.does = "save" /\ request' = request \ {q}
       /\ IF created /\ q.link # 0 THEN UNCHANGED <<rows, rooms, made>>
          ELSE IF answers THEN Answered(o, row, created \/ Apps[o] = "board", saved)
          ELSE rows' = saved /\ UNCHANGED <<rooms, made>>
       /\ overlaid' = IF rows[o].link # q.link \/ created THEN overlaid \cup {o} ELSE overlaid
       /\ UNCHANGED <<active, joining, loud, shut, left>> /\ Aside

(* delete_linked_chat_room, and the row: not if the link has changed, or   *)
(* if another object is linked to the room.                                *)
DeleteObject(q) ==
    LET o == q.of
        refused == \/ rows[o].state = "gone"
                   \/ q.link # 0 /\ (rows[o].link # q.link \/ \E p \in Objects \ {o} : rows[p].link = q.link)
    IN /\ q.does = "delete" /\ request' = request \ {q}
       /\ IF refused THEN UNCHANGED <<rows, rooms>>
          ELSE /\ rows' = [rows EXCEPT ![o].state = "gone", ![o].link = 0]
               /\ rooms' = IF q.link = 0 THEN rooms ELSE [rooms EXCEPT ![q.link] = NoRoom]
       /\ overlaid' = IF rows[o].link # q.link THEN overlaid \cup {o} ELSE overlaid
       /\ UNCHANGED <<made, active, joining, loud, shut, left>> /\ Aside

-----------------------------------------------------------------------------
(* Citizens                                                                *)

(* A room of a citizen's own, whatever its title.                          *)
AddRoom(t) ==
    /\ made < MaxRooms /\ Titled(t) = {} /\ Spend("titles")
    /\ rooms' = [rooms EXCEPT ![made + 1] = [NoRoom EXCEPT !.there = TRUE, !.title = t, !.members = active]]
    /\ made' = made + 1
    /\ UNCHANGED <<rows, active, request, joining, overlaid, loud, shut>> /\ Aside

(* enable_notifications_after_message                                      *)
SpeakUp(u, r) ==
    /\ u \in rooms[r].members \cap rooms[r].muted /\ Spend("words")
    /\ rooms' = [rooms EXCEPT ![r].muted = @ \ {u}] /\ loud' = loud \cup {<<r, u>>}
    /\ UNCHANGED <<rows, made, active, request, joining, overlaid, shut>> /\ Aside

Accept(u) ==
    /\ u \notin active /\ joining = Nobody /\ Spend("citizens")
    /\ active' = active \cup {u} /\ joining' = [of |-> {u}, step |-> "read", ids |-> {}]
    /\ UNCHANGED <<rows, rooms, made, request, overlaid, loud, shut>> /\ Aside

(* add_citizen_to_public_rooms: the rooms are listed, joined at once, and  *)
(* muted.  If one of them has gone, none is joined.                        *)
ListRooms ==
    /\ joining.step = "read" /\ joining' = [joining EXCEPT !.step = "join", !.ids = There]
    /\ UNCHANGED <<rows, rooms, made, active, request, overlaid, loud, shut, left>> /\ Aside

JoinRooms ==
    /\ joining.step = "join"
    /\ IF joining.ids \subseteq There
       THEN /\ rooms' = [r \in Ids |-> IF r \in joining.ids
                                       THEN [rooms[r] EXCEPT !.members = @ \cup joining.of] ELSE rooms[r]]
            /\ joining' = [joining EXCEPT !.step = "mute"] /\ UNCHANGED shut
       ELSE shut' = shut \cup joining.of /\ joining' = Nobody /\ UNCHANGED rooms
    /\ UNCHANGED <<rows, made, active, request, overlaid, loud, left>> /\ Aside

MuteRooms ==
    /\ joining.step = "mute" /\ joining' = Nobody
    /\ rooms' = [r \in Ids |-> IF r \in joining.ids /\ rooms[r].tag # 0
                               THEN [rooms[r] EXCEPT !.muted = @ \cup joining.of] ELSE rooms[r]]
    /\ UNCHANGED <<rows, made, active, request, overlaid, loud, shut, left>> /\ Aside

Block(u) ==
    /\ u \in active /\ joining = Nobody /\ Spend("citizens")
    /\ active' = active \ {u}
    /\ UNCHANGED <<rows, rooms, made, request, joining, overlaid, loud, shut>> /\ Aside

(* ensure_system_rooms: the inbox, or whatever room bears its title.       *)
ensure_system_rooms ==
    LET known == IF \E r \in There : rooms[r].inbox THEN {r \in There : rooms[r].inbox} ELSE Titled(InboxTitle)
        r == IF known = {} THEN made + 1 ELSE CHOOSE k \in known : TRUE
    IN /\ r \in Ids /\ Spend("starts")
       /\ rooms' = [rooms EXCEPT ![r] = Invite([@ EXCEPT !.there = TRUE, !.inbox = TRUE, !.title = InboxTitle])]
       /\ made' = IF known = {} THEN r ELSE made
       /\ UNCHANGED <<rows, active, request, joining, overlaid, loud, shut>> /\ Aside

-----------------------------------------------------------------------------
(* The command                                                             *)

(* With --audit it only looks: what it would have to say.                  *)
AuditedMembers == {r \in There : rooms[r].tag # 0 /\ rooms[r].members # active}
AuditedRooms == {r \in There : rooms[r].tag # 0 /\ rows[rooms[r].tag].state # "there"}
AuditedLinks == {o \in Objects : ~Sound(o)} \cup {o \in Objects : \E p \in Objects \ {o} : rows[o].link \in {rows[p].link} \ {0}}
_audit == AuditedMembers = {} /\ AuditedRooms = {} /\ AuditedLinks = {}

AppOrder == <<"board", "glosowania", "ankiety", "tasks">>

\* With no option it makes missing rooms, with --repair-source-data it mends links.
repair_discussion_rooms(mode) ==
    /\ command.mode = "none" \/ (command.apps = <<>> /\ command.work = {})
    /\ Spend("commands")
    /\ command' = [Idle EXCEPT !.mode = mode, !.apps = AppOrder, !.users = active,
                               !.clean = _audit, !.quiet = request = {} /\ joining = Nobody]
    /\ UNCHANGED <<rows, rooms, made, active, request, joining, overlaid, loud, shut>> /\ Recorded

\* The objects of one app with their rooms, and the rooms of the app.
LoadApp ==
    /\ command.mode # "none" /\ command.work = {} /\ command.apps # <<>>
    /\ command' = [command EXCEPT !.apps = Tail(@), !.work =
          {[of |-> o, link |-> rows[o].link, v |-> rows[o].v, step |-> "look",
            tag |-> IF rows[o].link = 0 THEN 0 ELSE rooms[rows[o].link].tag, source |-> RoomOf(o)] :
           o \in {p \in Objects : rows[p].state = "there" /\ Apps[p] = Head(command.apps)
                                  /\ (command.mode = "missing" => rows[p].link = 0)}}]
    /\ UNCHANGED <<rows, rooms, made, active, request, joining, overlaid, loud, shut, left>> /\ Recorded

Current == CHOOSE w \in command.work : \A x \in command.work : w.of <= x.of
Working(mode, step) == command.mode = mode /\ command.work # {} /\ Current.step = step
Done(failed, fixed) ==
    command' = [command EXCEPT !.work = @ \ {Current}, !.failed = IF failed THEN @ \cup {Current.of} ELSE @,
                               !.fixed = @ + fixed]
On(step, room, fixed) ==
    command' = [command EXCEPT !.work = (@ \ {Current}) \cup {[Current EXCEPT !.step = step, !.link = room]},
                               !.fixed = @ + fixed]

(* ensure_discussion_room_for_instance                                     *)
MakeMissing ==
    LET w == Current
    IN /\ Working("missing", "look")
       /\ Answered(w.of, w, TRUE, rows)
       /\ Done(Fails(w.of, w), 1)
       /\ overlaid' = IF rows[w.of].state = "gone" THEN overlaid \cup {w.of} ELSE overlaid
       /\ UNCHANGED <<active, request, joining, loud, shut, left>> /\ Recorded

(* The link, if it is still missing.                                       *)
MendLink ==
    LET w == Current
        source == CHOOSE r \in w.source : TRUE
    IN /\ Working("mend", "look")
       /\ IF w.link = 0 /\ w.source # {}
          THEN /\ rows' = [rows EXCEPT ![w.of].link = IF rows[w.of].state = "there" /\ @ = 0 THEN source ELSE @]
               /\ On("invite", source, 1)
          ELSE /\ UNCHANGED rows
               /\ IF w.link # 0 /\ w.tag = w.of THEN On("invite", w.link, 0)
                  ELSE IF w.link # 0 /\ w.tag = 0 THEN On("tag", w.link, 0) ELSE Done(TRUE, 0)
       /\ UNCHANGED <<rooms, made, active, request, joining, overlaid, loud, shut, left>> /\ Recorded

(* The room's own mark, unless another room bears it already, or this one  *)
(* has been marked meanwhile.  Its members keep hearing it.                *)
MendTag ==
    LET w == Current
    IN /\ Working("mend", "tag")
       /\ IF RoomOf(w.of) \ {w.link} # {} \/ ~rooms[w.link].there \/ rooms[w.link].tag # 0
          THEN Done(TRUE, 0) /\ UNCHANGED <<rooms, loud>>
          ELSE /\ rooms' = [rooms EXCEPT ![w.link].tag = w.of] /\ On("invite", w.link, 1)
               /\ loud' = loud \cup ({w.link} \X rooms[w.link].members)
       /\ UNCHANGED <<rows, made, active, request, joining, overlaid, shut, left>> /\ Recorded

(* Members who were active when the command began; if the room has gone,   *)
(* the command ends with an error.                                         *)
MendMembers ==
    LET w == Current
        missing == command.users \ rooms[w.link].members
    IN /\ Working("mend", "invite")
       /\ IF missing # {} /\ ~rooms[w.link].there
          THEN command' = [command EXCEPT !.work = {}, !.apps = <<>>, !.failed = @ \cup {w.of}] /\ UNCHANGED rooms
          ELSE rooms' = [rooms EXCEPT ![w.link] = Join(@, missing)] /\ Done(FALSE, Cardinality(missing))
       /\ UNCHANGED <<rows, made, active, request, joining, overlaid, loud, shut, left>> /\ Recorded

-----------------------------------------------------------------------------
\* What older data has of an object: its row, and the mark of the room of the same number.
Linked == {"sound", "unmarked"}
Init ==
    /\ \E kind \in Legacies :
         /\ rows = [o \in Objects |-> [state |-> IF kind[o] = "new" THEN "new" ELSE "there", v |-> 0,
                                       link |-> IF kind[o] \in Linked THEN o ELSE IF kind[o] = "astray" THEN 1 ELSE 0]]
         /\ rooms = [r \in Ids |-> IF r \in Objects /\ kind[r] \in Linked \cup {"unlinked"}
                                   THEN [NoRoom EXCEPT !.there = TRUE, !.tag = IF kind[r] = "unmarked" THEN 0 ELSE r,
                                                       !.title = Title(r, 0, 0)]
                                   ELSE NoRoom]
         /\ bonded = {o \in Objects : kind[o] = "sound"}
    /\ made = Len(Apps) /\ legacy = Objects /\ active \in Actives
    /\ request = {} /\ command = Idle /\ joining = Nobody /\ overlaid = {} /\ loud = {} /\ shut = {}
    /\ left \in Budgets

Next ==
    \/ \E o \in Objects : CreateObject(o) \/ Load(o, "save") \/ Load(o, "delete")
    \/ \E os \in SUBSET Objects : Cardinality(os) = 2 /\ bulk_create(os)
    \/ \E q \in request : SaveObject(q) \/ DeleteObject(q)
    \/ \E o \in Objects, v \in {0, 1}, s \in {0, 10} : AddRoom(Title(o, v, s))
    \/ AddRoom(InboxTitle)
    \/ \E u \in Users : Accept(u) \/ Block(u) \/ \E r \in Ids : SpeakUp(u, r)
    \/ ListRooms \/ JoinRooms \/ MuteRooms \/ ensure_system_rooms
    \/ \E mode \in {"missing", "mend"} : repair_discussion_rooms(mode)
    \/ LoadApp \/ MakeMissing \/ MendLink \/ MendTag \/ MendMembers

-----------------------------------------------------------------------------
(* Properties                                                              *)

TypeOK ==
    /\ \A o \in Objects : rows[o].link \in 0..made
    /\ \A r \in Ids : rooms[r].members \subseteq Users /\ rooms[r].muted \subseteq Users

(* No two rooms have the same title or the same object, no object is       *)
(* linked to a room that has gone, and there is one inbox.                 *)
RoomsAreDistinct ==
    /\ \A q, r \in There : q # r =>
          /\ rooms[q].title # rooms[r].title
          /\ rooms[q].tag # 0 => rooms[q].tag # rooms[r].tag
          /\ ~(rooms[q].inbox /\ rooms[r].inbox)
    /\ \A o \in Objects : rows[o].link # 0 => rooms[rows[o].link].there

(* An object and its room that once pointed at each other go on doing so   *)
(* until the object is deleted, unless a request saves the link as it was  *)
(* before.                                                                 *)
OnceBonded == \A o \in bonded \ overlaid : Sound(o)

(* A room whose object has gone was never linked in older data, or the     *)
(* object was deleted while somebody had it loaded.                        *)
NoStrays ==
    \A r \in There : rooms[r].tag # 0 /\ rows[rooms[r].tag].state # "there" =>
        rooms[r].tag \in overlaid \/ (r \in legacy /\ rooms[r].tag \notin bonded)

(* A run of the command that nothing came across and that reports no       *)
(* failure leaves every object with a room of its own, and after mending   *)
(* every active member is in it; where the audit had nothing to say the    *)
(* run has changed nothing.                                                *)
Finished == command.mode # "none" /\ command.apps = <<>> /\ command.work = {} /\ command.quiet
MendedIsSound ==
    Finished =>
        /\ command.mode = "missing" => \A o \in Objects \ command.failed : rows[o].state = "there" => rows[o].link # 0
        /\ command.mode = "mend" /\ command.failed = {} =>
             \A o \in Objects : rows[o].state = "there" => Sound(o) /\ active \subseteq rooms[rows[o].link].members
        /\ command.clean => command.fixed = 0 /\ command.failed = {}

(* Every active citizen is in every public discussion made by the program, *)
(* however creation and acceptance overlap, unless a room went while the   *)
(* citizen was let in.                                                     *)
EverybodyIsIn ==
    \A r \in There : (rooms[r].tag # 0 /\ r \notin legacy) \/ rooms[r].inbox =>
        active \ (shut \cup joining.of) \subseteq rooms[r].members

(* Nobody hears a discussion who has not spoken there, unless a member     *)
(* before it was marked or found by a bulk creation.                       *)
QuietByDefault ==
    \A r \in There : rooms[r].tag # 0 =>
        \A u \in rooms[r].members \ joining.of : u \in rooms[r].muted \/ <<r, u>> \in loud

DiscussionInvariant ==
    TypeOK /\ RoomsAreDistinct /\ OnceBonded /\ NoStrays /\ MendedIsSound /\ EverybodyIsIn /\ QuietByDefault
=============================================================================
