------------------------------- MODULE Messages -------------------------------
(***************************************************************************)
(* One message of a room: sent, changed, voted on and read, by members     *)
(* whose tabs are told of every change through the group of the room.      *)
(*                                                                         *)
(* The consumer of a connection handles one thing at a time, a command or  *)
(* an event of the group, but every call of the database is a step of its  *)
(* own and the consumers take turns between them.  A tab shows a reader's   *)
(* own clicks before the server has confirmed them.                        *)
(*                                                                         *)
(* Left out: the counts of the votes and the list of readers, told as      *)
(* they were when they were counted, and connections that break.           *)
(***************************************************************************)
EXTENDS Naturals, Sequences, FiniteSets

CONSTANTS Members, Author, MaxText, MaxMoves

VARIABLES
    message,   \* the row, its attachment, its reactions and its readers
    group,     \* whose consumers the channel layer sends the room's events to
    wire,      \* per member: commands the consumer has not read
    job,       \* per member: what the consumer is at
    inbox,     \* per member: events the consumer has not read
    screen,    \* per member: what the tab has not read
    tab,       \* per member: the message as the tab shows it
    muted,     \* the author may not write in the room any more
    moves

vars == <<message, group, wire, job, inbox, screen, tab, muted, moves>>

Votes == {"upvote", "downvote"}
Rest == [do |-> "rest"]
NoText == 0
Blank == [room |-> "out", shown |-> "no", copies |-> 0, text |-> NoText, file |-> FALSE,
          active |-> {}, bulb |-> FALSE, original |-> NoText]

Opposite(vote) == CHOOSE other \in Votes : other # vote

-----------------------------------------------------------------------------
(* The consumers: a command is read, and worked off step by step           *)

Begins(m, command) == job[m] = Rest /\ wire[m] # <<>> /\ Head(wire[m]).do = command
Read(m) == wire' = [wire EXCEPT ![m] = Tail(@)]
Becomes(m, next) == job' = [job EXCEPT ![m] = next]
Tell(event) == [do |-> "tell", event |-> event]
NoTab == UNCHANGED <<screen, tab, muted, moves>>

\* The event reaches whoever is in the group by now.
group_send(m) ==
    /\ job[m].do = "tell"
    /\ inbox' = [n \in Members |-> IF n \in group THEN Append(inbox[n], job[m].event) ELSE inbox[n]]
    /\ Becomes(m, Rest)
    /\ UNCHANGED <<message, group, wire>> /\ NoTab

build_chat_message_event(text) == [kind |-> "message", text |-> text]

send(m) ==
    /\ Begins(m, "send") /\ Read(m)
    /\ IF muted THEN UNCHANGED <<message, job>>
       ELSE /\ message' = [message EXCEPT !.text = Head(wire[m]).text]
            /\ Becomes(m, Tell(build_chat_message_event(Head(wire[m]).text)))
    /\ UNCHANGED <<group, inbox>> /\ NoTab

\* The text of a command that names none is the one that was loaded.
edit_message(m) ==
    LET command == Head(wire[m])
    IN /\ Begins(m, "edit") /\ Read(m)
       /\ Becomes(m, [do |-> "files", old |-> message.text, file |-> command.file,
                      new |-> IF command.text = NoText THEN message.text ELSE command.text])
       /\ UNCHANGED <<message, group, inbox>> /\ NoTab

save_attachments(m) ==
    LET edit == job[m]
    IN /\ edit.do = "files"
       /\ message' = [message EXCEPT !.file = IF edit.file = "keep" THEN @ ELSE edit.file = "add"]
       /\ Becomes(m, IF edit.new = edit.old /\ edit.file = "keep" THEN Rest
                     ELSE [do |-> "text", old |-> edit.old, new |-> edit.new, file |-> message'.file])
       /\ UNCHANGED <<group, wire, inbox>> /\ NoTab

edit_message_and_history(m) ==
    LET edit == job[m]
    IN /\ edit.do = "text"
       /\ message' = IF edit.new = edit.old THEN message
                     ELSE [message EXCEPT !.text = edit.new]
       /\ Becomes(m, Tell([kind |-> "edit", text |-> edit.new, file |-> edit.file]))
       /\ UNCHANGED <<group, wire, inbox>> /\ NoTab

Voted(m, vote, add) == Tell([kind |-> "vote", who |-> m, vote |-> vote, add |-> add])

get_vote(m) == {v \in Votes : m \in message.votes[v]}

\* Whoever asks for the vote that stands already is told nothing.
add_vote(m) ==
    LET vote == Head(wire[m]).vote
    IN /\ Begins(m, "add") /\ Read(m)
       /\ Becomes(m, IF vote \in get_vote(m) THEN Rest
                     ELSE [do |-> IF get_vote(m) # {} THEN "unvote" ELSE "vote",
                           vote |-> vote])
       /\ UNCHANGED <<message, group, inbox>> /\ NoTab

RemoveOpposite(m) ==
    /\ job[m].do = "unvote"
    /\ message' = [message EXCEPT !.votes[Opposite(job[m].vote)] = @ \ {m}]
    /\ Becomes(m, [job[m] EXCEPT !.do = "vote"])
    /\ UNCHANGED <<group, wire, inbox>> /\ NoTab

StoreVote(m) ==
    LET vote == job[m].vote
    IN /\ job[m].do = "vote"
       /\ message' = [message EXCEPT
                        !.votes = [v \in Votes |-> IF v = vote THEN @[v] \cup {m} ELSE @[v] \ {m}]]
       /\ Becomes(m, Voted(m, vote, TRUE))
       /\ UNCHANGED <<group, wire, inbox>> /\ NoTab

remove_vote(m) ==
    LET vote == Head(wire[m]).vote
    IN /\ Begins(m, "remove") /\ Read(m)
       /\ message' = [message EXCEPT !.votes[vote] = @ \ {m}]
       /\ Becomes(m, Voted(m, vote, FALSE))
       /\ UNCHANGED <<group, inbox>> /\ NoTab

toggle_reaction(m) ==
    /\ Begins(m, "react") /\ Read(m)
    /\ message' = [message EXCEPT !.bulb = IF m \in @ THEN @ \ {m} ELSE @ \cup {m}]
    /\ Becomes(m, Tell([kind |-> "reaction", who |-> m, added |-> m \in message'.bulb]))
    /\ UNCHANGED <<group, inbox>> /\ NoTab

\* That it was read is stored, one at a time or many at once.
mark_read(m) ==
    /\ Begins(m, "read") \/ Begins(m, "bulk")
    /\ Read(m)
    /\ message' = [message EXCEPT !.readers = @ \cup {m}]
    /\ UNCHANGED <<group, job, inbox>> /\ NoTab

-----------------------------------------------------------------------------
(* Joining: first the group, then the messages                             *)

\* One's own reactions are not among what is sent.
Batch(m, kind) ==
    [kind |-> kind, text |-> message.text, file |-> message.file,
     active |-> get_vote(m)]

MutantJoinSteps == <<"discard", "batch", "add">>
JoinSteps == <<"discard", "add", "batch">>

JoinStep(m, step) ==
    /\ group' = CASE step = "discard" -> group \ {m} [] step = "add" -> group \cup {m} [] OTHER -> group
    /\ screen' = IF step = "batch" THEN [screen EXCEPT ![m] = Append(@, Batch(m, "batch"))] ELSE screen

join(m) ==
    /\ \/ Begins(m, "join") /\ Read(m) /\ JoinStep(m, Head(JoinSteps))
          /\ Becomes(m, [do |-> "join", todo |-> Tail(JoinSteps)])
       \/ job[m].do = "join" /\ UNCHANGED wire /\ JoinStep(m, Head(job[m].todo))
          /\ Becomes(m, IF Len(job[m].todo) = 1 THEN Rest ELSE [job[m] EXCEPT !.todo = Tail(@)])
    /\ UNCHANGED <<message, inbox, tab, muted, moves>>

fetch_messages(m) ==
    /\ Begins(m, "fetch") /\ Read(m)
    /\ screen' = [screen EXCEPT ![m] = Append(@, Batch(m, "replace"))]
    /\ UNCHANGED <<message, group, job, inbox, tab, muted, moves>>

\* The vote that goes with a new message is looked up when it is passed on.
build_chat_message_payload(event, m) == [kind |-> "message", text |-> event.text, active |-> get_vote(m)]

Relay(m) ==
    /\ job[m] = Rest /\ inbox[m] # <<>>
    /\ inbox' = [inbox EXCEPT ![m] = Tail(@)]
    /\ LET event == Head(inbox[m])
       IN screen' = [screen EXCEPT ![m] = Append(@,
            IF event.kind = "message" THEN build_chat_message_payload(event, m) ELSE event)]
    /\ UNCHANGED <<message, group, wire, job, tab, muted, moves>>

Serve(m) ==
    \/ group_send(m) \/ send(m) \/ edit_message(m) \/ save_attachments(m)
    \/ edit_message_and_history(m) \/ add_vote(m) \/ RemoveOpposite(m) \/ StoreVote(m)
    \/ remove_vote(m) \/ toggle_reaction(m) \/ mark_read(m)
    \/ join(m) \/ fetch_messages(m) \/ Relay(m)

-----------------------------------------------------------------------------
(* The tab reads what the server sends.  Of two copies of a message the    *)
(* first is the one later events change.                                   *)

addMessage(t, e, file) ==
    IF t.shown # "no" THEN [t EXCEPT !.copies = 2]
    ELSE [t EXCEPT !.shown = "yes", !.copies = 1, !.text = e.text, !.file = file,
                   !.active = e.active, !.bulb = FALSE]

\* The echo of what one wrote replaces the placeholder, if that is still there.
onReceiveMessages(t, e) ==
    IF t.room # "in" THEN t
    ELSE IF t.shown \in {"pending", "failed"} THEN [t EXCEPT !.shown = "yes"]
    ELSE addMessage(t, e, FALSE)

ShowBatch(t, e) ==
    IF e.text = NoText THEN [t EXCEPT !.room = "in"]
    ELSE addMessage([t EXCEPT !.room = "in"], e, e.file)

onReplaceMessages(t, e) ==
    IF t.room # "in" THEN t
    ELSE ShowBatch([Blank EXCEPT !.original = t.original], e)

onReceiveVotes(t, e, m) ==
    IF t.shown # "yes" \/ e.who # m THEN t
    ELSE [t EXCEPT !.active = IF e.add THEN {e.vote} ELSE {}]

onReceiveReactions(t, e, m) ==
    IF t.shown # "yes" \/ e.who # m THEN t ELSE [t EXCEPT !.bulb = e.added]

\* It also ends the editing of the message, whichever change it confirms.
onReceiveEdit(t, e) ==
    IF t.shown # "yes" THEN [t EXCEPT !.original = NoText]
    ELSE [t EXCEPT !.text = e.text, !.file = e.file, !.original = NoText]

Reading(m, t, e) ==
    CASE m = Author \/ t.room # "in" -> <<>>
      [] e.kind = "message" -> <<[do |-> "read"]>>
      [] e.kind = "batch" /\ e.text # NoText -> <<[do |-> "bulk"]>>
      [] OTHER -> <<>>

HandleEvent(m, t, e) ==
    CASE e.kind = "message" -> onReceiveMessages(t, e)
      [] e.kind = "batch" -> ShowBatch(t, e)
      [] e.kind = "replace" -> onReplaceMessages(t, e)
      [] e.kind = "vote" -> onReceiveVotes(t, e, m)
      [] e.kind = "reaction" -> onReceiveReactions(t, e, m)
      [] e.kind = "edit" -> onReceiveEdit(t, e)

Show(m) ==
    /\ screen[m] # <<>>
    /\ LET e == Head(screen[m])
           after == HandleEvent(m, tab[m], e)
       IN /\ tab' = [tab EXCEPT ![m] = after]
          /\ wire' = [wire EXCEPT ![m] = @ \o Reading(m, after, e)]
    /\ screen' = [screen EXCEPT ![m] = Tail(@)]
    /\ UNCHANGED <<message, group, job, inbox, muted, moves>>

\* Ten seconds without an echo.
failMessage(m) ==
    /\ tab[m].shown = "pending"
    /\ tab' = [tab EXCEPT ![m].shown = "failed"]
    /\ UNCHANGED <<message, group, wire, job, inbox, screen, muted, moves>>

-----------------------------------------------------------------------------
(* The reader                                                              *)

Ask(m, command, t) ==
    /\ wire' = [wire EXCEPT ![m] = Append(@, command)]
    /\ tab' = [tab EXCEPT ![m] = t]

\* Once in a behaviour: what is written is shown at once.
onSubmitMessage(m) ==
    /\ m = Author /\ tab[m].room = "in" /\ moves.send
    /\ Ask(m, [do |-> "send", text |-> 1],
           [tab[m] EXCEPT !.shown = "pending", !.copies = 1, !.text = 1])
    /\ moves' = [moves EXCEPT !.send = FALSE]

Bounded == moves.left > 0 /\ moves' = [moves EXCEPT !.left = @ - 1]

setEditing(m) ==
    /\ m = Author /\ tab[m].shown = "yes" /\ tab[m].original = NoText
    /\ tab' = [tab EXCEPT ![m].original = tab[m].text]
    /\ UNCHANGED <<wire, moves>>

\* The text goes with the command only if it is not the one editing began with.
editMessage(m) ==
    /\ tab[m].original # NoText /\ Bounded
    /\ \E text \in 1..MaxText, file \in {"keep", IF tab[m].file THEN "remove" ELSE "add"} :
          Ask(m, [do |-> "edit", file |-> file,
                  text |-> IF text = tab[m].original THEN NoText ELSE text], tab[m])

\* The button changes at once; what it asks for depends on how it looked.
onUpdateVote(m) ==
    /\ tab[m].shown = "yes" /\ Bounded
    /\ \E vote \in Votes :
          IF vote \in tab[m].active
          THEN Ask(m, [do |-> "remove", vote |-> vote], [tab[m] EXCEPT !.active = @ \ {vote}])
          ELSE Ask(m, [do |-> "add", vote |-> vote], [tab[m] EXCEPT !.active = @ \cup {vote}])

onToggleReaction(m) ==
    /\ tab[m].shown = "yes" /\ Bounded
    /\ Ask(m, [do |-> "react"], tab[m])

\* The other order of the messages, fetched from the server.
fetchMessages(m) == tab[m].room = "in" /\ Bounded /\ Ask(m, [do |-> "fetch"], tab[m])

\* Into the room, for the first time or from another one.
joinRoom(m) ==
    /\ \/ tab[m].room = "out" /\ UNCHANGED moves
       \/ tab[m].room = "in" /\ Bounded
    /\ Ask(m, [do |-> "join"], [Blank EXCEPT !.room = "joining"])

Click(m) ==
    /\ \/ onSubmitMessage(m) \/ setEditing(m) \/ editMessage(m) \/ onUpdateVote(m)
       \/ onToggleReaction(m) \/ fetchMessages(m) \/ joinRoom(m)
    /\ UNCHANGED <<message, group, job, inbox, screen, muted>>

Init ==
    /\ message = [text |-> NoText, file |-> FALSE, votes |-> [v \in Votes |-> {}],
                  bulb |-> {}, readers |-> {}]
    /\ group = {Author}
    /\ wire = [m \in Members |-> <<>>] /\ inbox = wire /\ screen = wire
    /\ job = [m \in Members |-> Rest]
    /\ tab = [m \in Members |-> IF m = Author THEN [Blank EXCEPT !.room = "in"] ELSE Blank]
    /\ muted \in BOOLEAN
    /\ moves = [left |-> MaxMoves, send |-> TRUE]

Next == \E m \in Members : Serve(m) \/ Show(m) \/ failMessage(m) \/ Click(m)

Spec == Init /\ [][Next]_vars

-----------------------------------------------------------------------------
(* Properties                                                              *)

TypeOK ==
    /\ message \in [text: 0..MaxText, file: BOOLEAN, votes: [Votes -> SUBSET Members],
                    bulb: SUBSET Members, readers: SUBSET Members]
    /\ \A m \in Members : tab[m].room \in {"out", "joining", "in"} /\ tab[m].copies \in 0..2

Quiet(m) == wire[m] = <<>> /\ job[m] = Rest /\ inbox[m] = <<>> /\ screen[m] = <<>>

(* Once nothing is on its way, every tab in the room shows the message as  *)
(* it is stored, whenever it joined or fetched, and no vote or reaction of *)
(* its reader that is not stored, however fast the reader clicked.  (A     *)
(* stored vote may go unshown: up, down and up again before the first      *)
(* answer ends with the button released and the vote against stored.       *)
(* One's own reactions are not shown after joining at all.)                *)
TabsConverge ==
    (\A m \in Members : Quiet(m)) =>
        \A m \in Members :
            LET t == tab[m]
            IN t.room = "in" =>
                IF message.text = NoText THEN t.shown # "yes"
                ELSE /\ t.shown = "yes" /\ t.text = message.text /\ t.file = message.file
                     /\ t.active \subseteq get_vote(m)
                     /\ (t.bulb => m \in message.bulb)
                     /\ m # Author => m \in message.readers

(* A member is never counted for both votes, between two steps either.     *)
OneVoteEach == message.votes["upvote"] \cap message.votes["downvote"] = {}

MessagesInvariant == TypeOK /\ TabsConverge /\ OneVoteEach
=============================================================================
