-------------------------------- MODULE Widget --------------------------------
(***************************************************************************)
(* The chat beside an activity or a decision: one room on a page, a socket *)
(* that is opened again when it breaks and keeps what is sent meanwhile,   *)
(* and one box for writing, for changing what was written, and for files,  *)
(* whose upload takes its time while the reader goes on.                   *)
(*                                                                         *)
(* The consumer of the connection handles a command at a time; joining is  *)
(* two steps of it.  Others store a message or a change first and tell the *)
(* room afterwards.  Left out: votes, reactions, replies, anonymity,       *)
(* messages of files alone and what the box refuses for its length.        *)
(***************************************************************************)
EXTENDS Naturals, Sequences, SequencesExt, FiniteSets

CONSTANTS Mine, Others, Budgets   \* texts, numbered; what may happen

VARIABLES
    room,      \* the texts of the messages, in order; kept: all there have been
    allowed,   \* the reader may enter the room
    other,     \* what others have stored and not yet told
    server,    \* the consumer of the present connection
    up,        \* the socket is open
    queued,    \* what waits for it to open
    screen,    \* what the server has sent and the page has not read
    widget, box, uploads,
    lost,      \* texts that are in one of the ways of NothingVanishes gone
    twice,     \* messages the page may show twice
    overtaken, \* messages changed while they waited to be shown
    denied,    \* the server refused a text on a connection that asked to join at once
    left

vars == <<room, allowed, other, server, up, queued, screen, widget, box, uploads,
          lost, twice, overtaken, denied, left>>

NoText == 0
Nothing == [kind |-> "nothing"]
Consumer == [member |-> FALSE, job |-> "rest", trace |-> 0, batched |-> FALSE, joins |-> FALSE,
             wire |-> <<>>, inbox |-> <<>>]
Clear == [text |-> NoText, of |-> 0, original |-> NoText, file |-> FALSE]

Spend(what) == left[what] > 0 /\ left' = [left EXCEPT ![what] = @ - 1]
Numbered(id) == [id |-> id, text |-> room.texts[id]]
Ids(messages) == {messages[i].id : i \in DOMAIN messages}

History == <<lost, twice, overtaken, denied>>
Page == <<queued, widget, box, uploads>>
Fresh(texts) == {t \in texts \ room.written : \A u \in texts \ room.written : t <= u}

-----------------------------------------------------------------------------
(* The socket: what cannot be sent waits, and goes after what those say    *)
(* who hear first that it is open.                                         *)

sent(command) ==
    IF up THEN /\ server' = [server EXCEPT !.wire = Append(@, command)] /\ UNCHANGED queued
    ELSE queued' = Append(queued, command) /\ UNCHANGED server

Join(id) == [do |-> "join", trace |-> id]

\* A join that has not been answered keeps another one from being sent.
joinRoom(w) == IF w.joined \/ w.asked # 0 THEN w
               ELSE [w EXCEPT !.asked = w.last + 1, !.last = @ + 1]

\* What joinRoom sends.
Joins(w) == IF joinRoom(w) = w THEN <<>> ELSE <<Join(w.last + 1)>>

onOpen(w) == [w EXCEPT !.joined = FALSE, !.done = FALSE, !.pending = <<>>]
onClose(w) == [w EXCEPT !.joined = FALSE, !.done = FALSE]

socket_onopen ==
    /\ ~up /\ ~widget.redraw
    /\ up' = TRUE
    /\ widget' = joinRoom(onOpen(widget))
    /\ server' = [Consumer EXCEPT !.wire = Joins(onOpen(widget)) \o queued,
                                  !.joins = Joins(onOpen(widget)) # <<>>]
    /\ queued' = <<>>
    /\ twice' = {} /\ overtaken' = {}
    /\ UNCHANGED <<room, allowed, other, screen, box, uploads, lost, denied, left>>

TextsOf(commands) == {commands[i].text : i \in {j \in DOMAIN commands : commands[j].do # "join"}}

\* What was on its way in either direction is gone.
socket_onclose ==
    /\ up /\ Spend("breaks")
    /\ up' = FALSE
    /\ widget' = onClose(widget)
    /\ server' = Consumer /\ screen' = <<>>
    /\ lost' = lost \cup TextsOf(server.wire)
    /\ UNCHANGED <<room, allowed, other, queued, box, uploads, twice, overtaken, denied>>

\* After fifteen seconds the request is given up, whatever becomes of it.
sendJsonAsync_timeout ==
    /\ widget.asked # 0 /\ ~widget.retry /\ Spend("waits")
    /\ widget' = [widget EXCEPT !.asked = 0, !.retry = TRUE]
    /\ UNCHANGED <<room, allowed, other, server, up, queued, screen, box, uploads>>
    /\ UNCHANGED History

Retry ==
    /\ widget.retry
    /\ LET w == [widget EXCEPT !.retry = FALSE]
       IN IF ~w.joined /\ up
          THEN /\ widget' = joinRoom(w)
               /\ server' = [server EXCEPT !.wire = @ \o Joins(w)]
          ELSE widget' = w /\ UNCHANGED server
    /\ UNCHANGED <<room, allowed, other, up, queued, screen, box, uploads, left>>
    /\ UNCHANGED History

-----------------------------------------------------------------------------
(* The server                                                              *)

Begins(command) == server.job = "rest" /\ server.wire # <<>> /\ Head(server.wire).do = command
Served == [server EXCEPT !.wire = Tail(@)]
ServerOnly == UNCHANGED <<allowed, other, up, queued, widget, box, uploads, left>>

Told(s, event) == IF s.member THEN [s EXCEPT !.inbox = Append(@, event)] ELSE s
NewMessage(id, text) == [kind |-> "messages", messages |-> <<[id |-> id, text |-> text]>>]
Change(id, text) == [kind |-> "edit", id |-> id, text |-> text]

Stored(text) == [room EXCEPT !.texts = Append(@, text), !.kept = @ \cup {text}]
Changed(id, text) == [room EXCEPT !.texts[id] = text, !.kept = @ \cup {text}]

\* The room is left, if it was joined before, and entered.
join ==
    /\ Begins("join")
    /\ IF allowed
       THEN /\ server' = [Served EXCEPT !.member = TRUE, !.job = "join", !.trace = Head(server.wire).trace]
            /\ UNCHANGED screen
       ELSE /\ server' = Served
            /\ screen' = Append(screen, [kind |-> "refusal", trace |-> Head(server.wire).trace])
    /\ UNCHANGED room /\ ServerOnly /\ UNCHANGED History

Announced(event) == IF event.kind = "messages" THEN Ids(event.messages) ELSE {}

\* The answer, and then the messages there are by now: those that are still
\* to be told will come again, as does everything if it was sent before.
join_batch ==
    LET batch == [id \in DOMAIN room.texts |-> Numbered(id)]
    IN /\ server.job = "join"
       /\ server' = [server EXCEPT !.job = "rest", !.batched = TRUE]
       /\ screen' = screen \o <<[kind |-> "answer", trace |-> server.trace],
                                [kind |-> "messages", messages |-> batch]>>
       /\ twice' = twice \cup Announced(other) \cup UNION {Announced(server.inbox[i]) : i \in DOMAIN server.inbox}
                         \cup (IF server.batched THEN DOMAIN room.texts ELSE {})
       /\ UNCHANGED <<room, lost, overtaken, denied>> /\ ServerOnly

send ==
    LET text == Head(server.wire).text
    IN /\ Begins("send")
       /\ IF server.member /\ allowed
          THEN /\ room' = Stored(text)
               /\ server' = Told(Served, NewMessage(Len(room.texts) + 1, text))
               /\ UNCHANGED <<lost, denied>>
          ELSE /\ server' = Served /\ lost' = lost \cup {text}
               /\ denied' = (denied \/ (allowed /\ server.joins))
               /\ UNCHANGED room
       /\ UNCHANGED <<screen, twice, overtaken>> /\ ServerOnly

\* A change needs no membership; one that names no text is of the files.
edit_message ==
    LET command == Head(server.wire)
        text == IF command.text = NoText THEN room.texts[command.id] ELSE command.text
    IN /\ Begins("edit")
       /\ room' = Changed(command.id, text)
       /\ server' = IF text = room.texts[command.id] /\ ~command.file THEN Served
                    ELSE Told(Served, Change(command.id, text))
       /\ UNCHANGED screen /\ ServerOnly /\ UNCHANGED History

Relay ==
    /\ server.job = "rest" /\ server.inbox # <<>>
    /\ screen' = Append(screen, Head(server.inbox))
    /\ server' = [server EXCEPT !.inbox = Tail(@)]
    /\ UNCHANGED room /\ ServerOnly /\ UNCHANGED History

OtherStores ==
    /\ other = Nothing /\ Spend("others")
    /\ \E text \in Fresh(Others) :
          \/ /\ room' = [Stored(text) EXCEPT !.written = @ \cup {text}]
             /\ other' = NewMessage(Len(room.texts) + 1, text)
          \/ \E id \in DOMAIN room.texts :
                /\ room.texts[id] \in Others
                /\ room' = [Changed(id, text) EXCEPT !.written = @ \cup {text}]
                /\ other' = Change(id, text)
    /\ UNCHANGED <<allowed, server, up, screen>> /\ UNCHANGED Page /\ UNCHANGED History

OtherTells ==
    /\ other # Nothing
    /\ other' = Nothing /\ server' = Told(server, other)
    /\ UNCHANGED <<room, allowed, up, screen, left>> /\ UNCHANGED Page /\ UNCHANGED History

Bar ==
    /\ allowed /\ Spend("bars")
    /\ allowed' = FALSE
    /\ UNCHANGED <<room, other, server, up, screen>> /\ UNCHANGED Page /\ UNCHANGED History

-----------------------------------------------------------------------------
(* What the page makes of it                                               *)

\* Editing ends, and what is in the box is not kept.
clearEditing == Clear

Place(shown, id) == CHOOSE i \in DOMAIN shown : shown[i].id = id /\ \A j \in 1..(i - 1) : shown[j].id # id

updateMessage(e) ==
    IF e.id \notin Ids(widget.shown) THEN UNCHANGED <<widget, box, lost>>
    ELSE /\ widget' = [widget EXCEPT !.shown[Place(widget.shown, e.id)].text = e.text]
         /\ IF box.of = e.id
            THEN box' = clearEditing /\ lost' = lost \cup {box.text}
            ELSE UNCHANGED <<box, lost>>

onMessage(w, messages) ==
    IF w.done THEN [w EXCEPT !.shown = @ \o messages] ELSE [w EXCEPT !.pending = @ \o messages]

\* An answer to a request that was given up is ignored.
Answered(e) == IF e.trace # widget.asked THEN widget
               ELSE IF e.kind = "answer" THEN [widget EXCEPT !.asked = 0, !.joined = TRUE, !.redraw = TRUE]
               ELSE [widget EXCEPT !.asked = 0, !.shown = <<>>, !.barred = TRUE]

socket_onmessage ==
    LET e == Head(screen)
    IN /\ screen # <<>>
       /\ screen' = Tail(screen)
       /\ CASE e.kind = "edit" -> updateMessage(e)
            [] e.kind = "messages" -> widget' = onMessage(widget, e.messages) /\ UNCHANGED <<box, lost>>
            [] OTHER -> widget' = Answered(e) /\ UNCHANGED <<box, lost>>
       /\ overtaken' = overtaken \cup (IF e.kind = "edit" /\ e.id \in Ids(widget.pending) THEN {e.id} ELSE {})
    /\ UNCHANGED <<room, allowed, other, server, up, queued, uploads, twice, denied, left>>

\* What came while the room was joined is shown instead of what there was.
Redraw ==
    /\ widget.redraw
    /\ widget' = [widget EXCEPT !.redraw = FALSE, !.done = TRUE, !.shown = widget.pending, !.pending = <<>>]
    /\ UNCHANGED <<room, allowed, other, server, up, queued, screen, box, uploads, left>> /\ UNCHANGED History

-----------------------------------------------------------------------------
(* The reader                                                              *)

ReaderOnly == UNCHANGED <<allowed, other, up, screen, widget, twice, overtaken, denied>>
Carried(text) == \E i \in DOMAIN uploads : uploads[i].text = text

\* Into an empty box, instead of what is edited, or on while files are sent.
Type ==
    /\ box.text = NoText \/ (box.of # 0 /\ box.text = box.original) \/ Carried(box.text)
    /\ \E text \in Fresh(Mine) :
          /\ room' = [room EXCEPT !.written = @ \cup {text}]
          /\ box' = [box EXCEPT !.text = text]
    /\ ReaderOnly /\ UNCHANGED <<server, queued, uploads, lost, left>>

ChooseFile ==
    /\ ~box.file /\ Spend("files")
    /\ box' = [box EXCEPT !.file = TRUE]
    /\ ReaderOnly /\ UNCHANGED <<room, server, queued, uploads, lost>>

\* Enter heeds no lock of the button.  The text stays while files are sent.
sendMessage ==
    /\ box.of = 0 /\ box.text # NoText /\ widget.joined
    /\ IF box.file
       THEN /\ uploads' = Append(uploads, [do |-> "send", text |-> box.text])
            /\ UNCHANGED <<box, server, queued>>
       ELSE /\ sent([do |-> "send", text |-> box.text])
            /\ box' = [box EXCEPT !.text = NoText] /\ UNCHANGED uploads
    /\ Spend("enters")
    /\ ReaderOnly /\ UNCHANGED <<room, lost>>

EditOf(b) == [do |-> "edit", id |-> b.of, file |-> b.file,
              text |-> IF b.text = b.original THEN NoText ELSE b.text]

\* A change stays in the box until the server tells of it.
submitInput_edit ==
    /\ box.of # 0 /\ widget.joined
    /\ CASE box.file -> uploads' = Append(uploads, EditOf(box)) /\ UNCHANGED <<box, server, queued>>
         [] ~box.file /\ EditOf(box).text = NoText -> box' = clearEditing /\ UNCHANGED <<server, queued, uploads>>
         [] OTHER -> sent(EditOf(box)) /\ UNCHANGED <<box, uploads>>
    /\ Spend("enters")
    /\ ReaderOnly /\ UNCHANGED <<room, lost>>

\* What is in the box by now is cleared with what was sent from it.
Uploaded(u) ==
    /\ sent(u)
    /\ IF u.do = "send"
       THEN /\ box' = [box EXCEPT !.text = NoText, !.file = FALSE]
            /\ lost' = lost \cup {box.text}
       ELSE UNCHANGED <<box, lost>>
    /\ UNCHANGED <<room, left>>

UploadFails(u) ==
    /\ Spend("faults")
    /\ lost' = IF box.text = u.text THEN lost ELSE lost \cup {u.text}
    /\ UNCHANGED <<room, server, queued, box>>

uploadFiles ==
    \E i \in DOMAIN uploads :
        /\ uploads' = RemoveAt(uploads, i)
        /\ Uploaded(uploads[i]) \/ UploadFails(uploads[i])
        /\ ReaderOnly

\* What was in the box gives way to the message.
startEdit ==
    /\ Spend("edits")
    /\ \E i \in DOMAIN widget.shown :
          LET text == widget.shown[i].text
          IN /\ text \in Mine
             /\ box' = [text |-> text, of |-> widget.shown[i].id, original |-> text, file |-> FALSE]
    /\ lost' = lost \cup {box.text}
    /\ ReaderOnly /\ UNCHANGED <<room, server, queued, uploads>>

Escape ==
    /\ box.of # 0
    /\ box' = clearEditing /\ lost' = lost \cup {box.text}
    /\ ReaderOnly /\ UNCHANGED <<room, server, queued, uploads, left>>

Reader == Type \/ ChooseFile \/ sendMessage \/ submitInput_edit \/ uploadFiles \/ startEdit \/ Escape

Init ==
    /\ room = [texts |-> <<>>, kept |-> {}, written |-> {}]
    /\ allowed = TRUE /\ other = Nothing
    /\ server = Consumer /\ up = FALSE /\ queued = <<>> /\ screen = <<>>
    /\ widget = [joined |-> FALSE, done |-> FALSE, asked |-> 0, last |-> 0, redraw |-> FALSE,
                 retry |-> FALSE, pending |-> <<>>, shown |-> <<>>, barred |-> FALSE]
    /\ box = Clear /\ uploads = <<>>
    /\ lost = {} /\ twice = {} /\ overtaken = {} /\ denied = FALSE
    /\ left \in Budgets

Next ==
    \/ socket_onopen \/ socket_onclose \/ sendJsonAsync_timeout \/ Retry
    \/ join \/ join_batch \/ send \/ edit_message \/ Relay
    \/ OtherStores \/ OtherTells \/ Bar
    \/ socket_onmessage \/ Redraw
    \/ Reader

-----------------------------------------------------------------------------
(* Properties                                                              *)

TypeOK ==
    /\ room.written \subseteq Mine \cup Others
    /\ box.of \in 0..Len(room.texts) /\ widget.asked \in 0..widget.last
    /\ up \in BOOLEAN /\ (up => queued = <<>>)

\* The socket is open, nothing is on its way and no timer runs.
Quiet ==
    /\ up /\ server.wire = <<>> /\ server.job = "rest" /\ server.inbox = <<>> /\ screen = <<>>
    /\ other = Nothing /\ widget.asked = 0 /\ ~widget.redraw /\ ~widget.retry

(* However often the socket breaks, and whatever becomes of the requests,  *)
(* the page ends up in the room, on both sides of the connection, or has   *)
(* been told that it may not enter.                                        *)
JoinsAgain == Quiet => IF widget.joined THEN server.member /\ widget.done ELSE widget.barred /\ ~allowed

(* It then shows every message of the room as it stands, and none twice    *)
(* but what was told after it had been sent, and all if the room was       *)
(* joined twice on one connection.  (A change told while its message waits *)
(* to be shown is missed.)                                                 *)
ShowsTheRoom ==
    Quiet /\ widget.joined =>
        \A id \in DOMAIN room.texts :
            LET copies == {i \in DOMAIN widget.shown : widget.shown[i].id = id}
            IN /\ copies # {}
               /\ Cardinality(copies) > 1 => id \in twice
               /\ widget.shown[Place(widget.shown, id)].text = room.texts[id] \/ id \in overtaken

(* What the reader wrote is in the box, on its way or in the room, unless  *)
(* the connection broke under it, the server refused it, the upload failed *)
(* after the box had changed, it was typed while files were sent or a      *)
(* change confirmed, or given up for editing another message.              *)
NothingVanishes ==
    \A text \in room.written \cap Mine :
        \/ text \in room.kept \cup lost \cup {box.text} \cup TextsOf(server.wire) \cup TextsOf(queued)
        \/ Carried(text)

(* What waited for the socket follows the new join: of a reader who may    *)
(* enter, the server refuses nothing but what follows no join, because one *)
(* of an earlier connection has not been given up yet.                     *)
JoinsFirst == ~denied

WidgetInvariant == TypeOK /\ JoinsAgain /\ ShowsTheRoom /\ NothingVanishes /\ JoinsFirst
=============================================================================
