----------------------------- MODULE Federation -----------------------------
(***************************************************************************)
(* Two groups that exchange the messages of one room                       *)
(* (chat/federation.py, federation_message in chat/views.py, and the       *)
(* group settings in home/views.py).  Each keeps a room for the other, a   *)
(* secret that signs what it sends and the one it expects; the secrets are *)
(* carried over by hand.  A message is sent once, without waiting: the     *)
(* network may lose, delay or repeat it.                                   *)
(*                                                                         *)
(* A signature is valid when it was made with the secret expected; the     *)
(* cache of nonces may lose any of them, and does when they are old.       *)
(***************************************************************************)
EXTENDS Integers, Sequences, FiniteSets, SequencesExt

CONSTANTS
    Sites,        \* two groups
    MaxKey,       \* bound: secrets generated by a group
    MaxMessages,  \* bound: messages written in a group
    MaxCopies,    \* bound: times one request reaches the other group
    MaxSettings   \* bound: changes of the settings, and what the jobs do

VARIABLES
    room,      \* of every group for the other: none, open or archived
    outbound,  \* the last secret generated, 0 for none
    inbound,   \* the secret expected of the other, 0 for none
    expected,  \* the other's answer in the last check of the status
    posted,    \* messages written in the room by the group's own members
    delivery,  \* messages whose delivery has been started and not yet sent
    wire,      \* the requests sent, with the times they can still arrive
    nonces,    \* the requests whose nonce is remembered
    checked,   \* requests found new, to be stored
    stored,    \* the other's messages, as they were stored
    settings

vars == <<room, outbound, inbound, expected, posted, delivery, wire, nonces, checked, stored, settings>>
keys == <<outbound, inbound>>
traffic == <<posted, delivery, wire, nonces, checked, stored>>

Peer(s) == CHOOSE p \in Sites : p # s

Init ==
    /\ room = [s \in Sites |-> "none"]
    /\ outbound = [s \in Sites |-> 0] /\ inbound = [s \in Sites |-> 0]
    /\ expected = [s \in Sites |-> FALSE]
    /\ posted = [s \in Sites |-> 0] /\ delivery = [s \in Sites |-> {}]
    /\ wire = [s \in Sites |-> {}] /\ nonces = [s \in Sites |-> {}]
    /\ checked = [s \in Sites |-> <<>>] /\ stored = [s \in Sites |-> <<>>]
    /\ settings = 0

-----------------------------------------------------------------------------
(* The group settings, and the jobs that touch the room                    *)

Change == settings < MaxSettings /\ settings' = settings + 1

(* The group has a room for the sender, a secret of it, and the room is    *)
(* not archived: get_configured_room and get_federation_inbound_secret.    *)
Configured(s) == room[s] = "open" /\ inbound[s] # 0

(* A room is made or brought back, with a first secret.                    *)
ensure_federated_room(s) ==
    /\ Change /\ room[s] # "open"
    /\ room' = [room EXCEPT ![s] = "open"]
    /\ outbound' = [outbound EXCEPT ![s] = IF @ = 0 THEN 1 ELSE @]
    /\ UNCHANGED <<inbound, expected, traffic>>

(* By an administrator, or by chat_rooms after months without a message.   *)
deactivate_federated_room(s) ==
    /\ Change /\ room[s] = "open" /\ room' = [room EXCEPT ![s] = "archived"]
    /\ UNCHANGED <<keys, expected, traffic>>

(* chat_rooms brings back every archived room with a recent message.       *)
RevivedByTheNight(s) ==
    /\ Change /\ room[s] = "archived" /\ (posted[s] > 0 \/ stored[s] # <<>>)
    /\ room' = [room EXCEPT ![s] = "open"]
    /\ UNCHANGED <<keys, expected, traffic>>

generate_federation_outbound_secret(s) ==
    /\ Change /\ room[s] # "none" /\ outbound[s] < MaxKey
    /\ outbound' = [outbound EXCEPT ![s] = @ + 1]
    /\ UNCHANGED <<room, inbound, expected, traffic>>

(* The secret the other group shows now, entered here.                     *)
set_federation_inbound_secret(s) ==
    /\ Change /\ room[s] # "none" /\ outbound[Peer(s)] # 0
    /\ inbound' = [inbound EXCEPT ![s] = outbound[Peer(s)]]
    /\ UNCHANGED <<room, outbound, expected, traffic>>

(* federation_info of the other group, or no answer.                       *)
refresh_federated_status(s) ==
    /\ Change /\ room[s] # "none"
    /\ \E answer \in {Configured(Peer(s)), FALSE} : expected' = [expected EXCEPT ![s] = answer]
    /\ UNCHANGED <<room, keys, traffic>>

-----------------------------------------------------------------------------
(* A message of the group                                                  *)

(* send_message: the room is active again, the delivery starts.            *)
send_message(s) ==
    /\ room[s] # "none" /\ posted[s] < MaxMessages
    /\ posted' = [posted EXCEPT ![s] = @ + 1]
    /\ delivery' = [delivery EXCEPT ![s] = @ \cup {posted[s] + 1}]
    /\ room' = [room EXCEPT ![s] = "open"]
    /\ UNCHANGED <<keys, expected, wire, nonces, checked, stored, settings>>

(* Signed with the secret of this moment; without one it is not sent.      *)
deliver_message(s, m) ==
    /\ m \in delivery[s] /\ delivery' = [delivery EXCEPT ![s] = @ \ {m}]
    /\ wire' = [wire EXCEPT ![s] = @ \cup
         (IF outbound[s] = 0 THEN {} ELSE {[message |-> m, key |-> outbound[s], copies |-> MaxCopies]})]
    /\ UNCHANGED <<room, keys, expected, posted, nonces, checked, stored, settings>>

(* The process ends, or the request is never sent.                         *)
Fail(s, m) ==
    /\ m \in delivery[s] /\ delivery' = [delivery EXCEPT ![s] = @ \ {m}]
    /\ UNCHANGED <<room, keys, expected, posted, wire, nonces, checked, stored, settings>>

Arrived(r) == [message |-> r.message, key |-> r.key, copies |-> r.copies - 1]
Nonce(r)   == r.message

(* verify_federation_request                                               *)
verify_federation_request(s, r) == r.key = inbound[s] /\ Nonce(r) \notin nonces[s]

Known(s, r) == Contains(stored[s], r.message)

(* federation_message of the other group, up to the search for the message.*)
federation_message(s, r) ==
    LET p == Peer(s)
    IN  /\ r \in wire[s] /\ r.copies > 0
        /\ wire' = [wire EXCEPT ![s] = (@ \ {r}) \cup {Arrived(r)}]
        /\ IF verify_federation_request(p, r)
           THEN /\ nonces' = [nonces EXCEPT ![p] = @ \cup {Nonce(r)}]
                /\ checked' = [checked EXCEPT ![p] = IF room[p] = "open" /\ ~Known(p, r)
                                                     THEN Append(@, r.message) ELSE @]
           ELSE UNCHANGED <<nonces, checked>>
        /\ UNCHANGED <<room, keys, expected, posted, delivery, stored, settings>>

MutantUnique(s, m) == TRUE
(* The unique federation_message_id                                        *)
Unique(s, m) == ~Contains(stored[s], m)

(* The row; a second one is answered as a duplicate.  Nothing is sent on.  *)
Store(s, i) ==
    /\ i \in DOMAIN checked[s]
    /\ checked' = [checked EXCEPT ![s] = RemoveAt(@, i)]
    /\ stored' = [stored EXCEPT ![s] = IF Unique(s, checked[s][i]) THEN Append(@, checked[s][i]) ELSE @]
    /\ room' = [room EXCEPT ![s] = IF Unique(s, checked[s][i]) THEN "open" ELSE @]
    /\ UNCHANGED <<keys, expected, posted, delivery, wire, nonces, settings>>

(* The cache forgets.                                                      *)
Forget(s) ==
    /\ Change /\ nonces[s] # {} /\ nonces' = [nonces EXCEPT ![s] = {}]
    /\ UNCHANGED <<room, keys, expected, posted, delivery, wire, checked, stored>>

Next ==
    \/ \E s \in Sites : ensure_federated_room(s) \/ deactivate_federated_room(s) \/ RevivedByTheNight(s)
    \/ \E s \in Sites : generate_federation_outbound_secret(s) \/ set_federation_inbound_secret(s)
    \/ \E s \in Sites : refresh_federated_status(s) \/ send_message(s) \/ Forget(s)
    \/ \E s \in Sites, m \in 1..MaxMessages : deliver_message(s, m) \/ Fail(s, m)
    \/ \E s \in Sites, r \in UNION {wire[q] : q \in Sites} : federation_message(s, r)
    \/ \E s \in Sites, i \in 1..(MaxMessages * MaxCopies) : Store(s, i)

Spec == Init /\ [][Next]_vars

-----------------------------------------------------------------------------
(* Properties                                                              *)

TypeOK ==
    /\ room \in [Sites -> {"none", "open", "archived"}]
    /\ \A s \in Sites : inbound[s] <= outbound[Peer(s)]

(* A message appears in the other group once at most, whatever the network *)
(* repeats and the cache of nonces forgets.                                *)
AtMostOnce == \A s \in Sites : IsInjective(stored[s])

(* What appears was written there; the room it appears in has been set up  *)
(* by both groups.                                                         *)
Genuine ==
    \A s \in Sites : \A m \in ToSet(stored[s]) :
        m <= posted[Peer(s)] /\ inbound[s] # 0 /\ outbound[Peer(s)] # 0

FederationInvariant == TypeOK /\ AtMostOnce /\ Genuine
=============================================================================
