------------------------------- MODULE ChatProofs -------------------------------
(***************************************************************************)
(* Theorems about the parts of the chat, for any people, tabs, groups and  *)
(* bounds.  The parts share no state, so a step of the chat is a step of   *)
(* one of them and leaves the others as they are; each section has the     *)
(* inductive invariant of one part.                                        *)
(***************************************************************************)
EXTENDS MCChat, FiniteSetTheorems, SequenceTheorems, TLAPS

-----------------------------------------------------------------------------
(* Two groups                                                              *)

TwoGroups == (\E s, q : s # q /\ Sites = {s, q}) /\ MaxCopies \in Nat

LEMMA PeerFacts ==
    ASSUME TwoGroups, NEW s \in Sites
    PROVE  /\ F!Peer(s) \in Sites /\ F!Peer(s) # s /\ F!Peer(F!Peer(s)) = s
           /\ \A q \in Sites : q = s \/ q = F!Peer(s)
<1>1. \A q \in Sites : \E p \in Sites : p # q
  BY DEF TwoGroups
<1>2. \A q \in Sites : F!Peer(q) \in Sites /\ F!Peer(q) # q
  BY <1>1 DEF F!Peer
<1> QED BY <1>2 DEF TwoGroups

-----------------------------------------------------------------------------
(* Lists of messages                                                       *)

LEMMA AppendFacts ==
    ASSUME NEW l \in Seq(Nat), NEW m \in Nat
    PROVE  /\ Append(l, m) \in Seq(Nat)
           /\ F!ToSet(Append(l, m)) = F!ToSet(l) \cup {m}
           /\ F!IsInjective(l) /\ ~F!Contains(l, m) => F!IsInjective(Append(l, m))
<1>1. /\ Append(l, m) \in Seq(Nat) /\ Len(Append(l, m)) = Len(l) + 1 /\ Len(l) \in Nat
      /\ \A i \in 1..Len(l) : Append(l, m)[i] = l[i]
      /\ Append(l, m)[Len(l) + 1] = m
      /\ DOMAIN l = 1..Len(l) /\ DOMAIN Append(l, m) = 1..(Len(l) + 1)
  BY AppendProperties
<1>2. \A i \in 1..(Len(l) + 1) : i \in 1..Len(l) \/ i = Len(l) + 1
  BY <1>1
<1>3. F!ToSet(Append(l, m)) = F!ToSet(l) \cup {m}
  <2>1. F!ToSet(Append(l, m)) \subseteq F!ToSet(l) \cup {m}
    BY <1>1, <1>2 DEF F!ToSet
  <2>2. \A i \in 1..Len(l) : i \in 1..(Len(l) + 1)
    BY <1>1
  <2>3. Len(l) + 1 \in 1..(Len(l) + 1)
    BY <1>1
  <2>4. F!ToSet(l) \cup {m} \subseteq F!ToSet(Append(l, m))
    BY <1>1, <2>2, <2>3 DEF F!ToSet
  <2> QED BY <2>1, <2>4
<1>4. ASSUME F!IsInjective(l), ~F!Contains(l, m) PROVE F!IsInjective(Append(l, m))
  <2> SUFFICES ASSUME NEW i \in 1..(Len(l) + 1), NEW k \in 1..(Len(l) + 1),
                      Append(l, m)[i] = Append(l, m)[k]
               PROVE  i = k
    BY <1>1 DEF F!IsInjective
  <2>1. CASE i \in 1..Len(l) /\ k \in 1..Len(l)
    BY <1>1, <1>4, <2>1 DEF F!IsInjective
  <2>2. CASE i = Len(l) + 1 /\ k \in 1..Len(l)
    BY <1>1, <1>4, <2>2 DEF F!Contains
  <2>3. CASE i \in 1..Len(l) /\ k = Len(l) + 1
    BY <1>1, <1>4, <2>3 DEF F!Contains
  <2> QED BY <1>2, <2>1, <2>2, <2>3
<1> QED BY <1>1, <1>3, <1>4

LEMMA RemoveFacts ==
    ASSUME NEW l \in Seq(Nat), NEW i \in DOMAIN l
    PROVE  F!RemoveAt(l, i) \in Seq(Nat) /\ F!ToSet(F!RemoveAt(l, i)) \subseteq F!ToSet(l)
<1>1. PICK n \in Nat : n = Len(l)
  OBVIOUS
<1>2. DOMAIN l = 1..n /\ i \in 1..n /\ i \in Int /\ \A k \in 1..n : l[k] \in Nat
  BY <1>1
<1> DEFINE u == SubSeq(l, 1, i - 1)
           v == SubSeq(l, i + 1, n)
<1>3. F!RemoveAt(l, i) = u \o v
  BY <1>1 DEF F!RemoveAt
<1>4. u \in Seq(Nat) /\ \A k \in DOMAIN u : k \in 1..(i - 1) /\ u[k] = l[k]
  <2>1. i - 1 \in Int /\ \A k \in 1..(i - 1) : k \in 1..n
    BY <1>2
  <2>2. /\ u \in Seq(Nat) /\ Len(u) = IF 1 <= i - 1 THEN i - 1 - 1 + 1 ELSE 0
        /\ \A k \in 1..(i - 1 - 1 + 1) : u[k] = l[1 + k - 1]
    BY <1>2, <2>1, SubSeqProperties
  <2> HIDE DEF u
  <2>3. DOMAIN u = 1..Len(u)
    BY <2>2
  <2>4. i - 1 - 1 + 1 = i - 1 /\ Len(u) = i - 1 /\ \A k \in 1..(i - 1) : 1 + k - 1 = k
    BY <1>2, <2>2
  <2> QED BY <2>2, <2>3, <2>4
<1>5. v \in Seq(Nat) /\ \A k \in DOMAIN v : k \in 1..(n - i) /\ v[k] = l[i + k]
  <2>1. i + 1 \in Int /\ n \in Int /\ i <= n
    BY <1>2
  <2>0. \A k \in (i + 1)..n : l[k] \in Nat
    <3>1. \A k \in (i + 1)..n : k \in 1..n
      BY <1>2
    <3> QED BY <1>2, <3>1
  <2>2. /\ v \in Seq(Nat) /\ Len(v) = IF i + 1 <= n THEN n - (i + 1) + 1 ELSE 0
        /\ \A k \in 1..(n - (i + 1) + 1) : v[k] = l[i + 1 + k - 1]
    BY <2>0, <2>1, SubSeqProperties
  <2> HIDE DEF v
  <2>3. DOMAIN v = 1..Len(v)
    BY <2>2
  <2>4. n - (i + 1) + 1 = n - i
    BY <1>2
  <2>5. Len(v) = n - i
    <3>1. CASE i + 1 <= n BY <2>2, <2>4, <3>1
    <3>2. CASE ~(i + 1 <= n)
      <4>1. n - i = 0 BY <1>2, <2>1, <3>2
      <4> QED BY <2>2, <3>2, <4>1
    <3> QED BY <3>1, <3>2
  <2>6. \A k \in 1..(n - i) : i + 1 + k - 1 = i + k
    BY <1>2
  <2> QED BY <2>2, <2>3, <2>4, <2>5, <2>6
<1> HIDE DEF u, v
<1>6. /\ u \o v \in Seq(Nat)
      /\ \A k \in DOMAIN (u \o v) :
            \/ k \in DOMAIN u /\ (u \o v)[k] = u[k]
            \/ k - Len(u) \in DOMAIN v /\ (u \o v)[k] = v[k - Len(u)]
  <2>1. /\ u \o v \in Seq(Nat) /\ Len(u \o v) = Len(u) + Len(v)
        /\ \A k \in 1..(Len(u) + Len(v)) : (u \o v)[k] = IF k <= Len(u) THEN u[k] ELSE v[k - Len(u)]
    BY <1>4, <1>5, ConcatProperties
  <2>2. DOMAIN (u \o v) = 1..Len(u \o v) /\ DOMAIN u = 1..Len(u) /\ DOMAIN v = 1..Len(v)
    BY <1>4, <1>5, <2>1
  <2>3. Len(u) \in Nat /\ Len(v) \in Nat
    BY <1>4, <1>5
  <2> HIDE DEF u, v
  <2>4. ASSUME NEW k \in 1..(Len(u) + Len(v))
        PROVE  (k <= Len(u) /\ k \in 1..Len(u)) \/ (~(k <= Len(u)) /\ k - Len(u) \in 1..Len(v))
    BY <2>3
  <2>5. ASSUME NEW k \in 1..(Len(u) + Len(v))
        PROVE  \/ k \in 1..Len(u) /\ (u \o v)[k] = u[k]
               \/ k - Len(u) \in 1..Len(v) /\ (u \o v)[k] = v[k - Len(u)]
    <3>1. CASE k <= Len(u) BY <2>1, <2>4, <3>1
    <3>2. CASE ~(k <= Len(u)) BY <2>1, <2>4, <3>2
    <3> QED BY <3>1, <3>2
  <2>6. DOMAIN (u \o v) = 1..(Len(u) + Len(v))
    BY <2>1, <2>2
  <2>7. u \o v \in Seq(Nat)
    BY <2>1
  <2>8. ASSUME NEW k \in DOMAIN (u \o v)
        PROVE  \/ k \in DOMAIN u /\ (u \o v)[k] = u[k]
               \/ k - Len(u) \in DOMAIN v /\ (u \o v)[k] = v[k - Len(u)]
    <3>1. k \in 1..(Len(u) + Len(v))
      BY <2>6
    <3> QED BY <2>2, <2>5, <3>1
  <2> QED BY <2>7, <2>8
<1>7. \A k \in DOMAIN u : u[k] \in F!ToSet(l)
  <2>1. \A k \in 1..(i - 1) : k \in DOMAIN l
    BY <1>2
  <2> QED BY <1>4, <2>1 DEF F!ToSet
<1>8. \A k \in DOMAIN v : v[k] \in F!ToSet(l)
  <2>1. \A k \in 1..(n - i) : i + k \in DOMAIN l
    BY <1>2
  <2> QED BY <1>5, <2>1 DEF F!ToSet
<1>9. \A k \in DOMAIN (u \o v) : (u \o v)[k] \in F!ToSet(l)
  BY <1>6, <1>7, <1>8
<1>10. F!ToSet(u \o v) \subseteq F!ToSet(l)
  BY <1>9 DEF F!ToSet
<1> QED BY <1>3, <1>6, <1>10

-----------------------------------------------------------------------------
(* The inductive invariant                                                 *)

GroupRequests == [message : Nat, key : Nat, copies : Int]

GroupsTyped ==
    /\ room \in [Sites -> {"none", "open", "archived"}]
    /\ outbound \in [Sites -> Nat] /\ inbound \in [Sites -> Nat]
    /\ posted \in [Sites -> Nat] /\ delivery \in [Sites -> SUBSET Nat]
    /\ wire \in [Sites -> SUBSET GroupRequests]
    /\ checked \in [Sites -> Seq(Nat)] /\ stored \in [Sites -> Seq(Nat)]

(* The secret expected of a group is one it has generated.                 *)
SecretsAreKnown == \A s \in Sites : inbound[s] <= outbound[F!Peer(s)]

(* What is on its way was written, and is signed.                          *)
GroupsSent ==
    \A s \in Sites :
        /\ \A m \in delivery[s] : m <= posted[s]
        /\ \A r \in wire[s] : r.message <= posted[s] /\ r.key # 0

(* What has come in, checked or stored, was written, after the room was    *)
(* set up.                                                                 *)
From(s, m) == m <= posted[F!Peer(s)] /\ inbound[s] # 0
GroupsReceived == \A s \in Sites : \A m \in F!ToSet(checked[s]) \cup F!ToSet(stored[s]) : From(s, m)

GroupsSound == GroupsTyped /\ SecretsAreKnown /\ GroupsSent /\ GroupsReceived /\ F!AtMostOnce

LEMMA GroupsInit == ASSUME TwoGroups, F!Init PROVE GroupsSound
<1>1. GroupsTyped
  <2>1. <<>> \in Seq(Nat) OBVIOUS
  <2> QED BY <2>1 DEF F!Init, GroupsTyped
<1>2. SecretsAreKnown
  BY PeerFacts DEF F!Init, SecretsAreKnown
<1>3. GroupsSent
  BY DEF F!Init, GroupsSent
<1>4. \A s \in Sites : DOMAIN checked[s] = {} /\ DOMAIN stored[s] = {}
  BY DEF F!Init
<1>5. GroupsReceived /\ F!AtMostOnce
  BY <1>4 DEF GroupsReceived, F!AtMostOnce, F!ToSet, F!IsInjective
<1> QED BY <1>1, <1>2, <1>3, <1>5 DEF GroupsSound

(* What a change of the settings keeps.                                    *)
LEMMA SettingsKeep ==
    ASSUME GroupsSound, UNCHANGED <<posted, delivery, wire, checked, stored>>,
           room' \in [Sites -> {"none", "open", "archived"}],
           outbound' \in [Sites -> Nat], inbound' \in [Sites -> Nat], SecretsAreKnown',
           \A s \in Sites : inbound[s] # 0 => inbound'[s] # 0
    PROVE  GroupsSound'
<1>1. GroupsTyped' /\ GroupsSent' /\ F!AtMostOnce'
  BY DEF GroupsSound, GroupsTyped, GroupsSent, F!AtMostOnce
<1>2. GroupsReceived'
  BY DEF GroupsSound, GroupsReceived, From
<1> QED BY <1>1, <1>2 DEF GroupsSound

LEMMA SettingsStep ==
    ASSUME TwoGroups, GroupsSound, NEW s \in Sites,
           \/ F!ensure_federated_room(s) \/ F!deactivate_federated_room(s) \/ F!RevivedByTheNight(s)
           \/ F!generate_federation_outbound_secret(s) \/ F!set_federation_inbound_secret(s)
           \/ F!refresh_federated_status(s) \/ F!Forget(s)
    PROVE  GroupsSound'
<1> USE DEF F!traffic, F!keys
<1>0. GroupsTyped /\ SecretsAreKnown BY DEF GroupsSound
<1>p. \A q \in Sites : F!Peer(q) \in Sites BY PeerFacts
<1>1. UNCHANGED <<posted, delivery, wire, checked, stored>>
  BY DEF F!ensure_federated_room, F!deactivate_federated_room, F!RevivedByTheNight,
         F!generate_federation_outbound_secret, F!set_federation_inbound_secret,
         F!refresh_federated_status, F!Forget
<1>2. room' \in [Sites -> {"none", "open", "archived"}]
  BY <1>0 DEF GroupsTyped, F!ensure_federated_room, F!deactivate_federated_room, F!RevivedByTheNight,
         F!generate_federation_outbound_secret, F!set_federation_inbound_secret,
         F!refresh_federated_status, F!Forget
<1>3. CASE F!set_federation_inbound_secret(s)
  <2>1. /\ inbound' = [inbound EXCEPT ![s] = outbound[F!Peer(s)]] /\ outbound' = outbound
        /\ outbound[F!Peer(s)] # 0 /\ outbound[F!Peer(s)] \in Nat
    BY <1>0, <1>3, <1>p DEF F!set_federation_inbound_secret, GroupsTyped
  <2>2. outbound' \in [Sites -> Nat] /\ inbound' \in [Sites -> Nat]
    BY <1>0, <2>1 DEF GroupsTyped
  <2>a. SecretsAreKnown'
    <3> SUFFICES ASSUME NEW q \in Sites PROVE inbound'[q] <= outbound'[F!Peer(q)]
      BY DEF SecretsAreKnown
    <3>1. inbound'[q] = IF q = s THEN outbound[F!Peer(s)] ELSE inbound[q]
      BY <1>0, <2>1 DEF GroupsTyped
    <3> QED BY <1>0, <2>1, <3>1 DEF SecretsAreKnown
  <2>3. \A q \in Sites : inbound[q] # 0 => inbound'[q] # 0
    BY <1>0, <2>1 DEF GroupsTyped
  <2> QED BY <1>1, <1>2, <2>2, <2>a, <2>3, SettingsKeep
<1>4. CASE ~F!set_federation_inbound_secret(s)
  <2>1. inbound' = inbound
    BY <1>4 DEF F!ensure_federated_room, F!deactivate_federated_room, F!RevivedByTheNight,
         F!generate_federation_outbound_secret, F!refresh_federated_status, F!Forget
  <2>2. outbound' \in [Sites -> Nat] /\ \A q \in Sites : outbound[q] <= outbound'[q]
    <3>1. outbound \in [Sites -> Nat] BY <1>0 DEF GroupsTyped
    <3>2. CASE F!ensure_federated_room(s)
      BY <3>1, <3>2 DEF F!ensure_federated_room
    <3>3. CASE F!generate_federation_outbound_secret(s)
      BY <3>1, <3>3 DEF F!generate_federation_outbound_secret
    <3>4. CASE F!deactivate_federated_room(s) \/ F!RevivedByTheNight(s) \/ F!refresh_federated_status(s) \/ F!Forget(s)
      BY <3>1, <3>4 DEF F!deactivate_federated_room, F!RevivedByTheNight, F!refresh_federated_status, F!Forget
    <3> QED BY <1>4, <3>2, <3>3, <3>4
  <2>3. SecretsAreKnown'
    <3> SUFFICES ASSUME NEW q \in Sites PROVE inbound'[q] <= outbound'[F!Peer(q)]
      BY DEF SecretsAreKnown
    <3>1. /\ inbound[q] \in Nat /\ outbound[F!Peer(q)] \in Nat /\ outbound'[F!Peer(q)] \in Nat
          /\ inbound[q] <= outbound[F!Peer(q)] /\ outbound[F!Peer(q)] <= outbound'[F!Peer(q)]
      BY <1>0, <1>p, <2>2 DEF GroupsTyped, SecretsAreKnown
    <3> QED BY <2>1, <3>1
  <2>4. inbound' \in [Sites -> Nat]
    BY <1>0, <2>1 DEF GroupsTyped
  <2> QED BY <1>1, <1>2, <2>1, <2>2, <2>3, <2>4, SettingsKeep
<1> QED BY <1>3, <1>4

(* The sending group: a message is written, and sent with its signature.   *)
LEMMA SendingStep ==
    ASSUME TwoGroups, GroupsSound, NEW s \in Sites, NEW n,
           F!send_message(s) \/ F!deliver_message(s, n) \/ F!Fail(s, n)
    PROVE  GroupsSound'
<1> USE DEF F!keys
<1>0. GroupsTyped /\ SecretsAreKnown /\ GroupsSent /\ GroupsReceived /\ F!AtMostOnce BY DEF GroupsSound
<1>p. \A q \in Sites : F!Peer(q) \in Sites BY PeerFacts
<1>1. UNCHANGED <<F!keys, checked, stored>>
  BY DEF F!send_message, F!deliver_message, F!Fail
<1>2. SecretsAreKnown' /\ F!AtMostOnce'
  BY <1>0, <1>1 DEF SecretsAreKnown, F!AtMostOnce
<1>3. posted' \in [Sites -> Nat] /\ \A q \in Sites : posted[q] <= posted'[q]
  <2>1. posted \in [Sites -> Nat] BY <1>0 DEF GroupsTyped
  <2>2. CASE posted' = posted BY <2>1, <2>2
  <2>3. CASE posted' = [posted EXCEPT ![s] = posted[s] + 1] BY <2>1, <2>3
  <2> QED BY <2>1, <2>2, <2>3 DEF F!send_message, F!deliver_message, F!Fail
<1>4. GroupsReceived'
  <2> SUFFICES ASSUME NEW q \in Sites, NEW m \in F!ToSet(checked[q]) \cup F!ToSet(stored[q])
               PROVE  From(q, m)'
    BY <1>1 DEF GroupsReceived
  <2>1. m \in Nat
    <3>1. checked[q] \in Seq(Nat) /\ stored[q] \in Seq(Nat) BY <1>0 DEF GroupsTyped
    <3>2. \A s1 \in Seq(Nat) : F!ToSet(s1) \subseteq Nat BY DEF F!ToSet
    <3> QED BY ONLY <3>1, <3>2, m \in F!ToSet(checked[q]) \cup F!ToSet(stored[q])
  <2>2. From(q, m) /\ posted[F!Peer(q)] \in Nat /\ posted'[F!Peer(q)] \in Nat /\ posted[F!Peer(q)] <= posted'[F!Peer(q)]
    BY <1>0, <1>3, <1>p DEF GroupsReceived, GroupsTyped
  <2> QED BY <1>1, <2>1, <2>2 DEF From
<1>5. CASE F!send_message(s)
  <2>1. /\ posted' = [posted EXCEPT ![s] = posted[s] + 1] /\ posted[s] \in Nat
        /\ delivery' = [delivery EXCEPT ![s] = delivery[s] \cup {posted[s] + 1}]
        /\ UNCHANGED wire /\ room' = [room EXCEPT ![s] = "open"]
    BY <1>0, <1>5 DEF F!send_message, GroupsTyped
  <2>2. GroupsTyped'
    BY <1>0, <1>1, <2>1 DEF GroupsTyped
  <2>3. GroupsSent'
    <3> SUFFICES ASSUME NEW q \in Sites
                 PROVE  /\ \A m \in delivery'[q] : m <= posted'[q]
                        /\ \A r \in wire'[q] : r.message <= posted'[q] /\ r.key # 0
      BY DEF GroupsSent
    <3>1. /\ \A m \in delivery[q] : m \in Nat /\ m <= posted[q]
          /\ \A r \in wire[q] : r.message \in Nat /\ r.message <= posted[q] /\ r.key # 0
          /\ posted[q] \in Nat
      BY <1>0 DEF GroupsSent, GroupsTyped, GroupRequests
    <3>2. posted'[q] = (IF q = s THEN posted[q] + 1 ELSE posted[q])
          /\ delivery'[q] = (IF q = s THEN delivery[q] \cup {posted[q] + 1} ELSE delivery[q])
      BY <1>0, <2>1 DEF GroupsTyped
    <3> QED BY <2>1, <3>1, <3>2
  <2> QED BY <1>2, <1>4, <2>2, <2>3 DEF GroupsSound
<1>6. CASE F!deliver_message(s, n) \/ F!Fail(s, n)
  <2>1. /\ UNCHANGED <<posted, room>> /\ delivery' = [delivery EXCEPT ![s] = delivery[s] \ {n}]
        /\ n \in delivery[s] /\ n \in Nat /\ n <= posted[s] /\ outbound[s] \in Nat
    BY <1>0, <1>6 DEF F!deliver_message, F!Fail, GroupsTyped, GroupsSent
  <2> DEFINE new == [message |-> n, key |-> outbound[s], copies |-> MaxCopies]
  <2>2. new \in GroupRequests
    BY <2>1 DEF GroupRequests, TwoGroups
  <2>3. \/ wire' = wire
        \/ outbound[s] # 0 /\ wire' = [wire EXCEPT ![s] = wire[s] \cup {new}]
    <3>1. CASE F!deliver_message(s, n)
      <4>1. wire' = [wire EXCEPT ![s] = wire[s] \cup (IF outbound[s] = 0 THEN {} ELSE {new})]
        BY <3>1 DEF F!deliver_message
      <4>2. wire \in [Sites -> SUBSET GroupRequests]
        BY <1>0 DEF GroupsTyped
      <4> HIDE DEF new
      <4>3. CASE outbound[s] = 0
        BY <4>1, <4>2, <4>3
      <4> QED BY <4>1, <4>3
    <3>2. CASE F!Fail(s, n)
      BY <3>2 DEF F!Fail
    <3> QED BY <1>6, <3>1, <3>2
  <2>4. new.message = n /\ new.key = outbound[s]
    OBVIOUS
  <2> HIDE DEF new
  <2>5. wire' \in [Sites -> SUBSET GroupRequests]
        /\ \A q \in Sites : \A r \in wire'[q] : r \in wire[q] \/ (q = s /\ r = new /\ outbound[s] # 0)
    BY <1>0, <2>2, <2>3 DEF GroupsTyped
  <2>6. GroupsTyped'
    BY <1>0, <1>1, <2>1, <2>5 DEF GroupsTyped
  <2>7. GroupsSent'
    BY <1>0, <2>1, <2>4, <2>5 DEF GroupsSent, GroupsTyped
  <2> QED BY <1>2, <1>4, <2>6, <2>7 DEF GroupsSound
<1> QED BY <1>5, <1>6

(* The receiving group checks the signature, ...                           *)
LEMMA ArrivalStep ==
    ASSUME TwoGroups, GroupsSound, NEW s \in Sites, NEW r, F!federation_message(s, r)
    PROVE  GroupsSound'
<1> USE DEF F!keys
<1> DEFINE p == F!Peer(s)
<1>0. GroupsTyped /\ SecretsAreKnown /\ GroupsSent /\ GroupsReceived /\ F!AtMostOnce BY DEF GroupsSound
<1>p. p \in Sites /\ F!Peer(p) = s BY PeerFacts
<1>1. UNCHANGED <<room, F!keys, posted, delivery, stored>>
  BY DEF F!federation_message
<1>2. /\ r \in wire[s] /\ r \in GroupRequests /\ r.message <= posted[s] /\ r.key # 0
      /\ wire' = [wire EXCEPT ![s] = (wire[s] \ {r}) \cup {F!Arrived(r)}]
  BY <1>0 DEF F!federation_message, GroupsTyped, GroupsSent
<1>3. F!Arrived(r) \in GroupRequests /\ F!Arrived(r).message = r.message /\ F!Arrived(r).key = r.key
  BY <1>2 DEF F!Arrived, GroupRequests
<1>4. wire' \in [Sites -> SUBSET GroupRequests]
      /\ \A q \in Sites : \A x \in wire'[q] : x \in wire[q] \/ (q = s /\ x = F!Arrived(r))
  BY <1>0, <1>2, <1>3 DEF GroupsTyped
<1>5. GroupsSent'
  BY <1>0, <1>1, <1>2, <1>3, <1>4 DEF GroupsSent
<1>6. SecretsAreKnown' /\ F!AtMostOnce'
  BY <1>0, <1>1 DEF SecretsAreKnown, F!AtMostOnce
<1>7. r.message \in Nat BY <1>2 DEF GroupRequests
<1>8. \/ checked' = checked
      \/ inbound[p] = r.key /\ checked' = [checked EXCEPT ![p] = Append(checked[p], r.message)]
  BY <1>0, <1>p DEF F!federation_message, F!verify_federation_request, GroupsTyped
<1>9. /\ checked' \in [Sites -> Seq(Nat)]
      /\ \A q \in Sites : \A m \in F!ToSet(checked'[q]) :
            m \in F!ToSet(checked[q]) \/ (q = p /\ m = r.message /\ inbound[p] = r.key)
  <2>1. CASE checked' = checked BY <1>0, <2>1 DEF GroupsTyped
  <2>2. CASE inbound[p] = r.key /\ checked' = [checked EXCEPT ![p] = Append(checked[p], r.message)]
    <3>1. checked[p] \in Seq(Nat) BY <1>0, <1>p DEF GroupsTyped
    <3>2. Append(checked[p], r.message) \in Seq(Nat)
          /\ F!ToSet(Append(checked[p], r.message)) = F!ToSet(checked[p]) \cup {r.message}
      BY <1>7, <3>1, AppendFacts
    <3>3. checked'[p] = Append(checked[p], r.message) /\ \A q \in Sites \ {p} : checked'[q] = checked[q]
      BY <1>0, <1>p, <2>2 DEF GroupsTyped
    <3>4. checked' \in [Sites -> Seq(Nat)]
      BY <1>0, <2>2, <3>2 DEF GroupsTyped
    <3> QED BY <2>2, <3>2, <3>3, <3>4
  <2> QED BY <1>8, <2>1, <2>2
<1>10. GroupsTyped'
  BY <1>0, <1>1, <1>4, <1>9 DEF GroupsTyped
<1>11. GroupsReceived'
  <2> SUFFICES ASSUME NEW q \in Sites, NEW m \in F!ToSet(checked'[q]) \cup F!ToSet(stored[q])
               PROVE  From(q, m)
    BY <1>1 DEF GroupsReceived, From
  <2>1. CASE q = p /\ m = r.message /\ inbound[p] = r.key
    BY <1>2, <1>p, <2>1 DEF From
  <2> QED BY <1>0, <1>9, <2>1 DEF GroupsReceived
<1> QED BY <1>5, <1>6, <1>10, <1>11 DEF GroupsSound

(* ... and stores the message unless it has it.                            *)
LEMMA StoreStep ==
    ASSUME TwoGroups, GroupsSound, NEW s \in Sites, NEW i, F!Store(s, i)
    PROVE  GroupsSound'
<1> USE DEF F!keys
<1>0. GroupsTyped /\ SecretsAreKnown /\ GroupsSent /\ GroupsReceived /\ F!AtMostOnce BY DEF GroupsSound
<1>1. UNCHANGED <<F!keys, posted, delivery, wire>>
  BY DEF F!Store
<1>2. checked[s] \in Seq(Nat) /\ stored[s] \in Seq(Nat) /\ i \in DOMAIN checked[s]
  BY <1>0 DEF GroupsTyped, F!Store
<1>3. checked[s][i] \in Nat /\ checked[s][i] \in F!ToSet(checked[s])
  BY <1>2 DEF F!ToSet
<1>4. F!RemoveAt(checked[s], i) \in Seq(Nat) /\ F!ToSet(F!RemoveAt(checked[s], i)) \subseteq F!ToSet(checked[s])
  BY <1>2, RemoveFacts
<1>5. checked' = [checked EXCEPT ![s] = F!RemoveAt(checked[s], i)]
  BY DEF F!Store
<1>6. \/ stored' = stored
      \/ /\ ~F!Contains(stored[s], checked[s][i])
         /\ stored' = [stored EXCEPT ![s] = Append(stored[s], checked[s][i])]
  BY <1>0 DEF F!Store, F!Unique, GroupsTyped
<1>7. /\ stored' \in [Sites -> Seq(Nat)] /\ F!AtMostOnce'
      /\ \A q \in Sites : \A m \in F!ToSet(stored'[q]) :
            m \in F!ToSet(stored[q]) \/ (q = s /\ m = checked[s][i])
  <2>1. CASE stored' = stored BY <1>0, <2>1 DEF GroupsTyped, F!AtMostOnce
  <2>2. CASE /\ ~F!Contains(stored[s], checked[s][i])
             /\ stored' = [stored EXCEPT ![s] = Append(stored[s], checked[s][i])]
    <3>1. F!IsInjective(stored[s]) BY <1>0 DEF F!AtMostOnce
    <3>2. /\ Append(stored[s], checked[s][i]) \in Seq(Nat)
          /\ F!ToSet(Append(stored[s], checked[s][i])) = F!ToSet(stored[s]) \cup {checked[s][i]}
          /\ F!IsInjective(Append(stored[s], checked[s][i]))
      BY <1>2, <1>3, <2>2, <3>1, AppendFacts
    <3>3. stored'[s] = Append(stored[s], checked[s][i]) /\ \A q \in Sites \ {s} : stored'[q] = stored[q]
      BY <1>0, <2>2 DEF GroupsTyped
    <3>4. stored' \in [Sites -> Seq(Nat)]
      BY <1>0, <2>2, <3>2 DEF GroupsTyped
    <3>5. F!AtMostOnce'
      BY <1>0, <3>2, <3>3 DEF F!AtMostOnce
    <3> QED BY <3>2, <3>3, <3>4, <3>5
  <2> QED BY <1>6, <2>1, <2>2
<1>8. /\ checked' \in [Sites -> Seq(Nat)]
      /\ \A q \in Sites : F!ToSet(checked'[q]) \subseteq F!ToSet(checked[q])
  <2>1. checked' \in [Sites -> Seq(Nat)]
    BY <1>0, <1>4, <1>5 DEF GroupsTyped
  <2>2. checked'[s] = F!RemoveAt(checked[s], i) /\ \A q \in Sites \ {s} : checked'[q] = checked[q]
    BY <1>0, <1>5 DEF GroupsTyped
  <2> QED BY <1>4, <2>1, <2>2
<1>9. room' \in [Sites -> {"none", "open", "archived"}]
  BY <1>0 DEF F!Store, GroupsTyped
<1>10. GroupsTyped'
  BY <1>0, <1>1, <1>7, <1>8, <1>9 DEF GroupsTyped
<1>11. GroupsReceived'
  <2>1. \A q \in Sites : \A m \in F!ToSet(checked'[q]) \cup F!ToSet(stored'[q]) : From(q, m)
    BY <1>0, <1>3, <1>7, <1>8 DEF GroupsReceived
  <2> QED BY <1>1, <2>1 DEF GroupsReceived, From
<1>12. SecretsAreKnown' /\ GroupsSent'
  BY <1>0, <1>1 DEF SecretsAreKnown, GroupsSent
<1> QED BY <1>7, <1>10, <1>11, <1>12 DEF GroupsSound

LEMMA GroupsStep == ASSUME TwoGroups, GroupsSound, [F!Next]_(F!vars) PROVE GroupsSound'
<1>1. ASSUME NEW s \in Sites, F!send_message(s) PROVE GroupsSound'
  <2>1. PICK n : n = 0 OBVIOUS
  <2> QED BY <1>1, SendingStep
<1>2. CASE UNCHANGED F!vars
  BY <1>2 DEF F!vars, F!keys, F!traffic, GroupsSound, GroupsTyped, SecretsAreKnown, GroupsSent, GroupsReceived, From, F!AtMostOnce
<1> QED
  BY <1>1, <1>2, SettingsStep, SendingStep, ArrivalStep, StoreStep DEF F!Next

LEMMA GroupsGiveInvariant == ASSUME GroupsSound PROVE FederationInvariant
<1>1. F!TypeOK
  BY DEF GroupsSound, GroupsTyped, SecretsAreKnown, F!TypeOK
<1>2. F!Genuine
  <2> SUFFICES ASSUME NEW s \in Sites, NEW m \in F!ToSet(stored[s])
               PROVE  m <= posted[F!Peer(s)] /\ inbound[s] # 0 /\ outbound[F!Peer(s)] # 0
    BY DEF F!Genuine
  <2>1. m <= posted[F!Peer(s)] /\ inbound[s] # 0
    BY DEF GroupsSound, GroupsReceived, From
  <2>2. inbound[s] <= outbound[F!Peer(s)] /\ inbound[s] \in Nat
    BY DEF GroupsSound, SecretsAreKnown, GroupsTyped
  <2> QED BY <2>1, <2>2
<1> QED BY <1>1, <1>2 DEF GroupsSound, FederationInvariant, F!FederationInvariant

(* A message appears in the other group once at most, whatever the network *)
(* repeats and the cache of nonces forgets; what appears was written in    *)
(* the other group, and both have set up the room.                         *)
THEOREM FederationInvariantHolds ==
    ASSUME TwoGroups
    PROVE  ChatSpec => []FederationInvariant
<1>1. ChatInit => GroupsSound
  BY GroupsInit DEF ChatInit
<1>2. GroupsSound /\ [ChatNext]_all => GroupsSound'
  <2> SUFFICES ASSUME GroupsSound, [ChatNext]_all PROVE GroupsSound'
    OBVIOUS
  <2>1. F!Next \/ UNCHANGED F!vars
    BY DEF ChatNext, QueueNext, RoomNext, DirectNext, ScreenNext, MessageNext, PushNext, FederationNext,
           all, federated, F!vars, F!keys, F!traffic
  <2> QED BY <2>1, GroupsStep
<1>3. GroupsSound => FederationInvariant
  BY GroupsGiveInvariant
<1> QED BY <1>1, <1>2, <1>3, PTL DEF ChatSpec

-----------------------------------------------------------------------------
(* The rooms of two                                                        *)

FewPeople == IsFiniteSet(People) /\ MaxRooms \in Nat

LEMMA SizeIsCardinality == \A S : D!Cardinality(S) = Cardinality(S)
  BY DEF D!Cardinality, Cardinality

Single(S) == \E x \in People : S = {x}
Couple(S) == \E x, y \in People : x # y /\ S = {x, y}

LEMMA SizeOfCouple == ASSUME NEW S, Couple(S) PROVE Cardinality(S) = 2 /\ IsFiniteSet(S)
<1>1. PICK x \in People, y \in People : x # y /\ S = {x, y}
  BY DEF Couple
<1>2. IsFiniteSet({x}) /\ Cardinality({x}) = 1
  BY FS_Singleton
<1>3. IsFiniteSet({x} \cup {y}) /\ Cardinality({x} \cup {y}) = 1 + 1
  BY <1>1, <1>2, FS_AddElement
<1>4. {x} \cup {y} = {x, y}
  OBVIOUS
<1> QED BY <1>1, <1>3, <1>4

LEMMA PairIsCouple == ASSUME FewPeople, NEW S PROVE S \in D!Pairs <=> Couple(S)
<1>1. D!Pairs = {s \in SUBSET People : Cardinality(s) = 2}
  BY SizeIsCardinality DEF D!Pairs, D!kSubset
<1>2. ASSUME Couple(S) PROVE S \in D!Pairs
  BY <1>1, <1>2, SizeOfCouple DEF Couple
<1>3. ASSUME S \in SUBSET People, Cardinality(S) = 2 PROVE Couple(S)
  <2>1. IsFiniteSet(S)
    BY <1>3, FS_Subset DEF FewPeople
  <2>2. PICK x : x \in S
    BY <1>3, FS_EmptySet
  <2>3. IsFiniteSet(S \ {x}) /\ Cardinality(S \ {x}) = 1
    BY <1>3, <2>1, <2>2, FS_RemoveElement
  <2>4. PICK y : S \ {x} = {y}
    BY <2>3, FS_Singleton
  <2> QED BY <1>3, <2>2, <2>4 DEF Couple
<1> QED BY <1>1, <1>2, <1>3

RoomRows ==
  [members : SUBSET People, names : SUBSET Names, suffix : [pair : SUBSET People, number : Nat],
   archived : BOOLEAN, quiet : BOOLEAN, late : BOOLEAN]

DirectTyped ==
  /\ name \in [People -> Names] /\ \A u, v \in People : name[u] = name[v] => u = v
  /\ status \in [People -> {"active", "leaving", "inactive", "gone"}]
  /\ rooms \in [D!Numbers -> RoomRows] /\ made \in 0..MaxRooms
  /\ request \in [Openers -> [pair : SUBSET People, names : SUBSET Names, attempt : Nat, sees : BOOLEAN]]
  /\ loaded \subseteq [row : Nat, room : RoomRows]
  /\ visit.row \in Nat /\ visit.room \in RoomRows

(* A number is given once; a room has its title, and two members at most.  *)
RoomsFit ==
  \A i \in D!Numbers :
    /\ i > made => rooms[i] = D!NoRoom
    /\ i \in D!Used => /\ rooms[i].names # {}
                       /\ rooms[i].members = {} \/ Single(rooms[i].members) \/ Couple(rooms[i].members)

(* What the command has loaded are titles that the rows still have, unless *)
(* they are gone; each row is loaded once.                                 *)
SameTitle(r, q) == r.names = q.names /\ r.suffix = q.suffix

Loaded(l) == l.row \in 1..made /\ l.room.names # {} /\ (l.row \in D!Used => SameTitle(rooms[l.row], l.room))

VisitFits ==
  /\ \A l \in loaded : Loaded(l) /\ l.row # visit.row
  /\ \A l, m \in loaded : l.row = m.row => l = m
  /\ visit # D!NoVisit => (visit.row = 0 /\ visit.room.names # {}) \/ Loaded(visit)

RequestsFit ==
  \A o \in Openers :
    IF request[o].pair = {} THEN ~request[o].sees ELSE request[o].pair \in D!Pairs /\ request[o].names # {}

(* The titles a request has tried are taken; when the room was not there   *)
(* and is now, the title it tries next is taken as well.                   *)
Tried(r) ==
  /\ r.names = {name[u] : u \in r.pair}
  /\ \A k \in Nat : k < r.attempt => D!Taken(r.names, D!Ending(r.pair, k))
  /\ ~r.sees /\ D!With(r.pair) # {} => D!Taken(r.names, D!Ending(r.pair, r.attempt))

RequestsSee == \A o \in Openers : request[o].pair # {} /\ request[o].pair \notin blurred => Tried(request[o])

OneRoom == \A p \in D!Pairs : p \notin blurred => \A i, j \in D!With(p) : i = j

(* A room with somebody who leaves was opened after the clean-up.          *)
Company ==
  \A i \in D!Numbers :
    /\ \A u \in rooms[i].members : status[u] # "gone" /\ (status[u] = "leaving" => rooms[i].late)
    /\ Single(rooms[i].members) => rooms[i].late

DirectSound ==
  DirectTyped /\ RoomsFit /\ VisitFits /\ RequestsFit /\ RequestsSee /\ OneRoom /\ Company

LEMMA DirectInit == ASSUME FewPeople, D!Init PROVE DirectSound
<1>1. /\ name \in [People -> Names] /\ \A u, v \in People : name[u] = name[v] => u = v
      /\ status = [u \in People |-> "active"]
      /\ rooms = [i \in D!Numbers |-> D!NoRoom] /\ made = 0
      /\ request = [o \in Openers |-> D!Idle]
      /\ loaded = {} /\ visit = D!NoVisit /\ blurred = {}
  BY DEF D!Init, D!IsInjective
<1>2. D!NoRoom \in RoomRows /\ D!NoRoom.members = {}
  BY DEF D!NoRoom, D!Ending, RoomRows
<1>3. D!Used = {} /\ \A p : D!With(p) = {}
  BY <1>1 DEF D!Used, D!With
<1>4. DirectTyped
  BY <1>1, <1>2 DEF DirectTyped, FewPeople, D!NoVisit, D!Idle
<1>5. RoomsFit /\ VisitFits
  BY <1>1, <1>3 DEF RoomsFit, VisitFits
<1>6. RequestsFit /\ RequestsSee /\ OneRoom
  BY <1>1, <1>3 DEF RequestsFit, RequestsSee, OneRoom, D!Idle
<1>7. Company
  <2>1. ~Single({})
    BY DEF Single
  <2> QED BY <1>1, <1>2, <2>1 DEF Company
<1> QED BY <1>4, <1>5, <1>6, <1>7 DEF DirectSound

(* What keeps the parts of the invariant as they are.                      *)
LEMMA TitlesKept ==
    ASSUME DirectTyped, DirectTyped',
           \A i \in D!Used : i \in D!Used' /\ SameTitle(rooms'[i], rooms[i])
    PROVE  \A ns, k : D!Taken(ns, k) => D!Taken(ns, k)'
  BY DEF D!Taken, D!Titled, SameTitle, D!Used

LEMMA RequestsKept ==
    ASSUME DirectTyped, RequestsFit, RequestsSee, UNCHANGED <<name, request>>,
           \A u \in blurred : u \in blurred',
           \A ns, k : D!Taken(ns, k) => D!Taken(ns, k)',
           \A p \in D!Pairs : D!With(p) = {} => D!With(p)' = {}
    PROVE  RequestsFit' /\ RequestsSee'
<1>1. RequestsFit'
  BY DEF RequestsFit, D!Pairs
<1>2. ASSUME NEW o \in Openers, request[o].pair # {}, request[o].pair \notin blurred'
      PROVE  Tried(request[o])'
  <2>1. Tried(request[o]) /\ request[o].pair \in D!Pairs
    BY <1>2 DEF RequestsSee, RequestsFit
  <2> QED BY <2>1 DEF Tried, DirectTyped
<1> QED BY <1>1, <1>2 DEF RequestsSee

LEMMA RequestsBlurred ==
    ASSUME RequestsFit, UNCHANGED request, blurred' = blurred \cup D!Sought
    PROVE  RequestsFit' /\ RequestsSee'
  BY DEF RequestsFit, RequestsSee, D!Sought, D!Pairs

LEMMA OneRoomKept ==
    ASSUME OneRoom, \A u \in blurred : u \in blurred',
           \A p \in D!Pairs : D!With(p)' \subseteq D!With(p)
    PROVE  OneRoom'
  BY DEF OneRoom, D!Pairs

(* The steps                                                               *)
LEMMA OpenStep ==
    ASSUME FewPeople, DirectSound, NEW o \in Openers, NEW p \in D!Pairs, D!Open(o, p)
    PROVE  DirectSound'
<1>0. /\ UNCHANGED <<made, name, status, rooms, loaded, visit, blurred>>
      /\ request' = [request EXCEPT ![o] =
           [pair |-> p, names |-> {name[u] : u \in p}, attempt |-> 0, sees |-> TRUE]]
  BY DEF D!Open
<1>1. p \in SUBSET People /\ p # {}
  <2>1. Couple(p)
    BY PairIsCouple
  <2> QED BY <2>1 DEF Couple
<1>2. {name[u] : u \in p} \in SUBSET Names /\ {name[u] : u \in p} # {}
  BY <1>1 DEF DirectSound, DirectTyped
<1>3. DirectTyped'
  BY <1>0, <1>1, <1>2 DEF DirectSound, DirectTyped, D!Numbers
<1>4. RoomsFit' /\ VisitFits' /\ OneRoom' /\ Company'
  BY <1>0 DEF DirectSound, RoomsFit, VisitFits, OneRoom, Company, D!Numbers, D!Used, D!With, D!Pairs, Loaded
<1>5. ASSUME NEW q \in Openers
      PROVE  IF q = o THEN /\ request'[q].pair = p /\ request'[q].names = {name[u] : u \in p}
                           /\ request'[q].attempt = 0 /\ request'[q].sees
                      ELSE request'[q] = request[q]
  BY <1>0 DEF DirectSound, DirectTyped
<1>6. RequestsFit'
  BY <1>1, <1>2, <1>5 DEF DirectSound, RequestsFit, D!Pairs
<1>7. ASSUME NEW q \in Openers, request'[q].pair # {}, request'[q].pair \notin blurred'
      PROVE  Tried(request[q])'
  <2>1. CASE q = o
    BY <1>0, <1>5, <2>1 DEF Tried
  <2>2. CASE q # o
    <3>1. PICK r : r = request[q]
      OBVIOUS
    <3>2. request'[q] = r
      BY <1>5, <2>2, <3>1
    <3>3. Tried(r)
      BY <1>0, <1>7, <3>1, <3>2 DEF DirectSound, RequestsSee
    <3>4. Tried(r)'
      BY <1>0, <3>3 DEF Tried, D!Taken, D!Titled, D!With, D!Used, D!Numbers
    <3> QED BY <3>2, <3>4 DEF Tried
  <2> QED BY <2>1, <2>2
<1>8. RequestsSee'
  BY <1>7 DEF RequestsSee
<1> QED BY <1>3, <1>4, <1>6, <1>8 DEF DirectSound

LEMMA StatusStep ==
    ASSUME DirectSound, NEW u \in People, D!Deactivate(u) \/ D!Activate(u)
    PROVE  DirectSound'
<1>0. /\ UNCHANGED <<made, name, rooms, request, loaded, visit, blurred>>
      /\ \E t \in {"active", "inactive"} : status' = [status EXCEPT ![u] = t]
  BY DEF D!Deactivate, D!Activate
<1>1. DirectTyped'
  BY <1>0 DEF DirectSound, DirectTyped, D!Numbers
<1>2. RoomsFit' /\ VisitFits' /\ OneRoom'
  BY <1>0 DEF DirectSound, RoomsFit, VisitFits, OneRoom, D!Numbers, D!Used, D!With, D!Pairs, Loaded
<1>3. \A ns, k : D!Taken(ns, k) => D!Taken(ns, k)'
  BY <1>0 DEF D!Taken, D!Titled, D!Used, D!Numbers
<1>4. \A p : D!With(p)' = D!With(p)
  BY <1>0 DEF D!With, D!Used, D!Numbers
<1>5. RequestsFit' /\ RequestsSee'
  BY <1>0, <1>3, <1>4, RequestsKept DEF DirectSound
<1>6. Company'
  <2>1. \A v \in People : status'[v] \in {"gone", "leaving"} => status'[v] = status[v]
    BY <1>0 DEF DirectSound, DirectTyped
  <2>2. \A i \in D!Numbers : rooms[i].members \subseteq People
    BY DEF DirectSound, DirectTyped, RoomRows
  <2> QED BY <1>0, <2>1, <2>2 DEF DirectSound, Company, D!Numbers
<1> QED BY <1>1, <1>2, <1>5, <1>6 DEF DirectSound

LEMMA RenameStep ==
    ASSUME DirectSound, NEW u \in People, NEW n \in Names, D!Rename(u, n)
    PROVE  DirectSound'
<1>0. /\ UNCHANGED <<made, status, rooms, request, loaded, visit>>
      /\ n \notin D!Range(name) /\ name' = [name EXCEPT ![u] = n] /\ blurred' = blurred \cup D!Sought
  BY DEF D!Rename
<1>1. \A v \in People : name[v] # n
  BY <1>0 DEF DirectSound, DirectTyped, D!Range
<1>2. DirectTyped'
  BY <1>0, <1>1 DEF DirectSound, DirectTyped, D!Numbers
<1>3. RoomsFit' /\ VisitFits' /\ Company'
  BY <1>0 DEF DirectSound, RoomsFit, VisitFits, Company, D!Numbers, D!Used, Loaded
<1>4. OneRoom'
  BY <1>0 DEF DirectSound, OneRoom, D!With, D!Used, D!Numbers, D!Pairs
<1>5. RequestsFit' /\ RequestsSee'
  BY <1>0, RequestsBlurred DEF DirectSound
<1> QED BY <1>2, <1>3, <1>4, <1>5 DEF DirectSound

(* A step that keeps the titles, the members and who came late.            *)
Alike(r, q) == SameTitle(r, q) /\ r.members = q.members /\ r.late = q.late

LEMMA AlikeKept ==
    ASSUME DirectSound, DirectTyped', UNCHANGED <<made, status>>,
           \A i \in D!Numbers : Alike(rooms'[i], rooms[i]) /\ (i \in D!Used' <=> i \in D!Used)
    PROVE  /\ RoomsFit' /\ Company'
           /\ \A p : D!With(p)' = D!With(p)
           /\ \A ns, k : D!Taken(ns, k) => D!Taken(ns, k)'
<1>1. D!Numbers' = D!Numbers
  BY DEF D!Numbers
<1>2. \A i \in D!Numbers : rooms'[i].members = rooms[i].members /\ rooms'[i].names = rooms[i].names
                           /\ rooms'[i].late = rooms[i].late /\ rooms'[i].suffix = rooms[i].suffix
  BY DEF Alike, SameTitle
<1>3. D!Used' = D!Used
  BY <1>1 DEF D!Used
<1>4. RoomsFit'
  BY <1>1, <1>2, <1>3 DEF DirectSound, RoomsFit, D!Used, D!NoRoom
<1>5. Company'
  BY <1>1, <1>2 DEF DirectSound, Company
<1>6. \A i \in D!Used : i \in D!Numbers
  BY DEF D!Used
<1>7. \A p : D!With(p)' = D!With(p)
  BY <1>2, <1>3, <1>6 DEF D!With
<1>8. \A ns, k : D!Taken(ns, k) => D!Taken(ns, k)'
  BY <1>2, <1>3, <1>6 DEF D!Taken, D!Titled
<1> QED BY <1>4, <1>5, <1>7, <1>8

LEMMA PassStep ==
    ASSUME DirectSound, NEW i \in D!Numbers, D!Pass(i)
    PROVE  DirectSound'
<1>0. /\ rooms[i].members # {} /\ rooms' = [rooms EXCEPT ![i].quiet = TRUE]
      /\ UNCHANGED <<made, name, status, request, loaded, visit, blurred>>
  BY DEF D!Pass
<1>1. rooms \in [D!Numbers -> RoomRows] /\ \A j \in D!Numbers : rooms[j] \in RoomRows
  BY DEF DirectSound, DirectTyped
<1>2. rooms' \in [D!Numbers -> RoomRows] /\ \A j \in D!Numbers : Alike(rooms'[j], rooms[j])
  BY <1>0, <1>1 DEF RoomRows, Alike, SameTitle
<1>3. rooms[i] # D!NoRoom /\ rooms'[i] # D!NoRoom
  BY <1>0, <1>1, <1>2 DEF D!NoRoom, Alike
<1>4. \A j \in D!Numbers : j \in D!Used' <=> j \in D!Used
  BY <1>0, <1>1, <1>3 DEF D!Used, D!Numbers
<1>5. DirectTyped'
  BY <1>0, <1>2 DEF DirectSound, DirectTyped, D!Numbers
<1>6. /\ RoomsFit' /\ Company' /\ \A p : D!With(p)' = D!With(p)
      /\ \A ns, k : D!Taken(ns, k) => D!Taken(ns, k)'
  BY <1>0, <1>2, <1>4, <1>5, AlikeKept
<1>7. VisitFits'
  <2>1. \A l : l.row \in D!Used' => l.row \in D!Used /\ SameTitle(rooms'[l.row], rooms[l.row])
    BY <1>2, <1>4 DEF D!Used, D!Numbers, Alike
  <2>2. \A l : Loaded(l) => Loaded(l)'
    BY <1>0, <2>1 DEF Loaded, SameTitle
  <2> QED BY <1>0, <2>2 DEF DirectSound, VisitFits, Loaded
<1>8. RequestsFit' /\ RequestsSee' /\ OneRoom'
  BY <1>0, <1>6, RequestsKept, OneRoomKept DEF DirectSound
<1> QED BY <1>5, <1>6, <1>7, <1>8 DEF DirectSound

(* Rooms that go, and members that go.                                     *)
LEMMA LoadedKept ==
    ASSUME DirectTyped, VisitFits, UNCHANGED <<made, loaded, visit>>,
           \A i \in D!Used' : i \in D!Used /\ SameTitle(rooms'[i], rooms[i])
    PROVE  VisitFits'
<1>1. \A l : Loaded(l) => Loaded(l)'
  BY DEF Loaded, SameTitle
<1> QED BY <1>1 DEF VisitFits, Loaded

LEMMA CleanedFacts ==
    ASSUME DirectSound, NEW u \in People, NEW i \in D!Numbers
    PROVE  LET r == D!Cleaned(rooms[i], u)
           IN  /\ r \in RoomRows
               /\ r = D!NoRoom \/ (r = rooms[i] /\ u \notin r.members)
                               \/ (i \in D!Used /\ SameTitle(r, rooms[i]) /\ r.members = {})
<1>1. rooms[i] \in RoomRows /\ D!NoRoom \in RoomRows
  BY DEF DirectSound, DirectTyped, RoomRows, D!NoRoom, D!Ending
<1>2. CASE u \notin rooms[i].members
  BY <1>1, <1>2 DEF D!Cleaned
<1>3. CASE Couple(rooms[i].members) /\ u \in rooms[i].members
  BY <1>1, <1>3, SizeOfCouple, SizeIsCardinality DEF D!Cleaned
<1>4. CASE ~Couple(rooms[i].members) /\ u \in rooms[i].members
  <2>1. i \in D!Used
    BY <1>4 DEF D!Used, D!NoRoom
  <2>2. rooms[i].members = {u}
    BY <1>4, <2>1 DEF DirectSound, RoomsFit, Single
  <2>3. D!Cardinality({u}) # 2
    BY FS_Singleton, SizeIsCardinality
  <2>4. D!Cleaned(rooms[i], u) = [rooms[i] EXCEPT !.members = {}]
    BY <2>2, <2>3 DEF D!Cleaned
  <2> QED BY <1>1, <2>1, <2>4 DEF RoomRows, SameTitle
<1> QED BY <1>2, <1>3, <1>4

LEMMA CleanupStep ==
    ASSUME FewPeople, DirectSound, NEW u \in People, D!cleanup_user_chat_rooms(u)
    PROVE  DirectSound'
<1>0. /\ status' = [status EXCEPT ![u] = "leaving"]
      /\ rooms' = [i \in D!Numbers |-> D!Cleaned(rooms[i], u)]
      /\ blurred' = blurred \cup D!Sought
      /\ UNCHANGED <<made, name, request, loaded, visit>>
  BY DEF D!cleanup_user_chat_rooms
<1>1. ASSUME NEW i \in D!Numbers
      PROVE  /\ rooms'[i] \in RoomRows
             /\ \/ rooms'[i] = D!NoRoom
                \/ rooms'[i] = rooms[i] /\ u \notin rooms[i].members
                \/ i \in D!Used /\ SameTitle(rooms'[i], rooms[i]) /\ rooms'[i].members = {}
  BY <1>0, CleanedFacts
<1>2. rooms' \in [D!Numbers -> RoomRows]
  BY <1>0, <1>1
<1>3. DirectTyped'
  BY <1>0, <1>2 DEF DirectSound, DirectTyped, D!Numbers
<1>4. D!NoRoom.members = {}
  BY DEF D!NoRoom
<1>5. \A i \in D!Used' : i \in D!Used /\ SameTitle(rooms'[i], rooms[i]) /\ (rooms'[i] = rooms[i] \/ rooms'[i].members = {})
  BY <1>1 DEF D!Used, D!Numbers, SameTitle
<1>6. RoomsFit'
  <2>1. \A i \in D!Numbers : i > made' => i \notin D!Used'
    BY <1>0, <1>5 DEF DirectSound, RoomsFit, D!Used
  <2> QED BY <2>1, <1>5 DEF DirectSound, RoomsFit, SameTitle, D!Used, D!Numbers
<1>7. VisitFits'
  BY <1>0, <1>5, LoadedKept DEF DirectSound
<1>8. RequestsFit' /\ RequestsSee'
  BY <1>0, RequestsBlurred DEF DirectSound
<1>9. OneRoom'
  <2>1. ASSUME NEW p \in D!Pairs PROVE D!With(p)' \subseteq D!With(p)
    <3>1. p # {}
      <4>1. Couple(p)
        BY PairIsCouple
      <4> QED BY <4>1 DEF Couple
    <3> QED BY <1>5, <3>1 DEF D!With
  <2> QED BY <1>0, <2>1, OneRoomKept DEF DirectSound
<1>10. Company'
  <2> SUFFICES ASSUME NEW i \in D!Numbers
               PROVE  /\ \A v \in rooms'[i].members : status'[v] # "gone" /\ (status'[v] = "leaving" => rooms'[i].late)
                      /\ Single(rooms'[i].members) => rooms'[i].late
    BY DEF Company, D!Numbers
  <2>1. CASE rooms'[i].members = {}
    BY <2>1 DEF Single
  <2>2. CASE rooms'[i] = rooms[i] /\ u \notin rooms[i].members
    <3>1. \A v \in rooms[i].members : v \in People /\ v # u
      BY <2>2 DEF DirectSound, DirectTyped, RoomRows
    <3>2. \A v \in rooms[i].members : status'[v] = status[v]
      BY <1>0, <3>1 DEF DirectSound, DirectTyped
    <3> QED BY <2>2, <3>2 DEF DirectSound, Company
  <2> QED BY <1>1, <1>4, <2>1, <2>2
<1> QED BY <1>3, <1>6, <1>7, <1>8, <1>9, <1>10 DEF DirectSound

LEMMA DeleteStep ==
    ASSUME FewPeople, DirectSound, NEW u \in People, D!DeleteUser(u)
    PROVE  DirectSound'
<1>0. /\ status[u] = "leaving" /\ status' = [status EXCEPT ![u] = "gone"]
      /\ rooms' = [i \in D!Numbers |-> [rooms[i] EXCEPT !.members = @ \ {u}]]
      /\ UNCHANGED <<made, name, request, loaded, visit, blurred>>
  BY DEF D!DeleteUser
<1>1. ASSUME NEW i \in D!Numbers
      PROVE  /\ rooms'[i] \in RoomRows /\ rooms[i] \in RoomRows /\ SameTitle(rooms'[i], rooms[i])
             /\ rooms'[i].members = rooms[i].members \ {u} /\ rooms'[i].late = rooms[i].late
             /\ (rooms[i] = D!NoRoom => rooms'[i] = D!NoRoom)
  <2>1. rooms[i] \in RoomRows /\ rooms'[i] = [rooms[i] EXCEPT !.members = @ \ {u}]
    BY <1>0 DEF DirectSound, DirectTyped
  <2> QED BY <2>1 DEF RoomRows, SameTitle, D!NoRoom, D!Ending
<1>2. rooms' \in [D!Numbers -> RoomRows]
  <2>1. rooms' = [i \in D!Numbers |-> rooms'[i]]
    BY <1>0
  <2> QED BY <1>1, <2>1
<1>3. DirectTyped'
  BY <1>0, <1>2 DEF DirectSound, DirectTyped, D!Numbers
<1>4. \A i \in D!Numbers : i \in D!Used' <=> i \in D!Used
  <2> SUFFICES ASSUME NEW i \in D!Numbers, i \in D!Used PROVE i \in D!Used'
    BY <1>1 DEF D!Used, D!Numbers
  <2>1. rooms[i].names # {}
    BY DEF DirectSound, RoomsFit
  <2> QED BY <1>1, <2>1 DEF D!Used, D!Numbers, D!NoRoom, SameTitle
<1>5. ASSUME NEW i \in D!Used
      PROVE  LET S == rooms[i].members
                 Q == S \ {u}
             IN  /\ Q = {} \/ Single(Q) \/ Couple(Q)
                 /\ Single(Q) => Single(S) \/ u \in S
                 /\ Couple(Q) => Q = S
  <2>1. i \in D!Numbers
    BY DEF D!Used
  <2>2. rooms[i].members = {} \/ Single(rooms[i].members) \/ Couple(rooms[i].members)
    BY <2>1 DEF DirectSound, RoomsFit
  <2> QED BY <2>2 DEF Single, Couple
<1>6. RoomsFit'
  <2>1. \A i \in D!Numbers : i > made' => i \notin D!Used'
    BY <1>0, <1>4 DEF DirectSound, RoomsFit, D!Used
  <2> QED BY <1>1, <1>4, <1>5, <2>1 DEF DirectSound, RoomsFit, SameTitle, D!Used, D!Numbers
<1>7. VisitFits'
  <2>1. \A i \in D!Used' : i \in D!Used /\ SameTitle(rooms'[i], rooms[i])
    BY <1>1, <1>4 DEF D!Used, D!Numbers
  <2> QED BY <1>0, <2>1, LoadedKept DEF DirectSound
<1>8. ASSUME NEW p \in D!Pairs PROVE D!With(p)' \subseteq D!With(p)
  <2>1. Couple(p)
    BY PairIsCouple
  <2>2. \A i \in D!Used' : i \in D!Used /\ rooms'[i].members = rooms[i].members \ {u}
    BY <1>1, <1>4 DEF D!Used, D!Numbers
  <2> QED BY <1>5, <2>1, <2>2 DEF D!With
<1>9. OneRoom'
  BY <1>0, <1>8, OneRoomKept DEF DirectSound
<1>10. RequestsFit' /\ RequestsSee'
  <2>1. \A i \in D!Used : i \in D!Used' /\ SameTitle(rooms'[i], rooms[i])
    BY <1>1, <1>4 DEF D!Used
  <2>2. \A ns, k : D!Taken(ns, k) => D!Taken(ns, k)'
    BY <1>3, <2>1, TitlesKept DEF DirectSound
  <2>3. \A p \in D!Pairs : D!With(p) = {} => D!With(p)' = {}
    BY <1>8
  <2> QED BY <1>0, <2>2, <2>3, RequestsKept DEF DirectSound
<1>11. Company'
  <2> SUFFICES ASSUME NEW i \in D!Numbers
               PROVE  /\ \A v \in rooms'[i].members : status'[v] # "gone" /\ (status'[v] = "leaving" => rooms'[i].late)
                      /\ Single(rooms'[i].members) => rooms'[i].late
    BY DEF Company, D!Numbers
  <2>1. \A v \in rooms'[i].members : v \in rooms[i].members /\ status'[v] = status[v]
    BY <1>0, <1>1 DEF DirectSound, DirectTyped, RoomRows
  <2>2. \A v \in rooms'[i].members : status'[v] # "gone" /\ (status'[v] = "leaving" => rooms'[i].late)
    BY <1>1, <2>1 DEF DirectSound, Company
  <2>3. ASSUME Single(rooms'[i].members) PROVE rooms'[i].late
    <3>1. i \in D!Used
      BY <1>1, <2>3 DEF D!Used, D!NoRoom, Single
    <3>2. Single(rooms[i].members) \/ u \in rooms[i].members
      BY <1>1, <1>5, <2>3, <3>1
    <3> QED BY <1>0, <1>1, <3>2 DEF DirectSound, Company
  <2> QED BY <2>2, <2>3
<1> QED BY <1>3, <1>6, <1>7, <1>9, <1>10, <1>11 DEF DirectSound

LEMMA RetireStep ==
    ASSUME DirectSound, NEW i \in D!Numbers, D!Retire(i)
    PROVE  DirectSound'
<1>0. /\ i \in D!Used /\ rooms' = [rooms EXCEPT ![i] = D!NoRoom]
      /\ blurred' = blurred \cup D!Sought
      /\ UNCHANGED <<made, name, status, request, loaded, visit>>
  BY DEF D!Retire
<1>1. D!NoRoom \in RoomRows /\ D!NoRoom.members = {}
  BY DEF RoomRows, D!NoRoom, D!Ending
<1>2. rooms' \in [D!Numbers -> RoomRows] /\ \A j \in D!Numbers : rooms'[j] = IF j = i THEN D!NoRoom ELSE rooms[j]
  BY <1>0, <1>1 DEF DirectSound, DirectTyped
<1>3. DirectTyped'
  BY <1>0, <1>2 DEF DirectSound, DirectTyped, D!Numbers
<1>4. \A j \in D!Used' : j \in D!Used /\ rooms'[j] = rooms[j]
  BY <1>2 DEF D!Used, D!Numbers
<1>5. RoomsFit'
  BY <1>0, <1>2, <1>4 DEF DirectSound, RoomsFit, D!Used, D!Numbers
<1>6. VisitFits'
  BY <1>0, <1>4, LoadedKept DEF DirectSound, SameTitle
<1>7. RequestsFit' /\ RequestsSee'
  BY <1>0, RequestsBlurred DEF DirectSound
<1>8. OneRoom'
  <2>1. \A p : D!With(p)' \subseteq D!With(p)
    BY <1>4 DEF D!With
  <2> QED BY <1>0, <2>1, OneRoomKept DEF DirectSound
<1>9. Company'
  BY <1>0, <1>1, <1>2 DEF DirectSound, Company, Single, D!Numbers
<1> QED BY <1>3, <1>5, <1>6, <1>7, <1>8, <1>9 DEF DirectSound

LEMMA NightStep == ASSUME DirectSound, D!Night PROVE DirectSound'
<1>0. /\ visit = D!NoVisit
      /\ loaded' = {[row |-> i, room |-> rooms[i]] : i \in {j \in D!Used : D!Cardinality(rooms[j].members) = 2}}
      /\ UNCHANGED <<made, name, status, rooms, request, visit, blurred>>
  BY DEF D!Night
<1>1. visit.row = 0
  BY <1>0 DEF D!NoVisit
<1>2. ASSUME NEW l \in loaded'
      PROVE  l \in [row : Nat, room : RoomRows] /\ Loaded(l) /\ l.row # 0 /\ l.room = rooms[l.row]
             /\ l = [row |-> l.row, room |-> rooms[l.row]]
  <2>1. PICK i \in D!Used : l = [row |-> i, room |-> rooms[i]]
    BY <1>0
  <2>2. i \in D!Numbers /\ i \in 1..MaxRooms /\ rooms[i] \in RoomRows /\ rooms[i] # D!NoRoom
    BY DEF D!Used, D!Numbers, DirectSound, DirectTyped
  <2>3. ~(i > made) /\ rooms[i].names # {} /\ made \in Nat
    BY <2>2 DEF DirectSound, RoomsFit, DirectTyped
  <2> QED BY <2>1, <2>2, <2>3 DEF Loaded, SameTitle
<1>3. \A l : Loaded(l)' <=> Loaded(l)
  BY <1>0 DEF Loaded, D!Used, D!Numbers
<1>4. DirectTyped'
  BY <1>0, <1>2 DEF DirectSound, DirectTyped, D!Numbers
<1>5. VisitFits'
  <2>1. \A l \in loaded' : Loaded(l)' /\ l.row # visit'.row
    BY <1>0, <1>1, <1>2, <1>3
  <2>2. \A l, m \in loaded' : l.row = m.row => l = m
    BY <1>2
  <2>3. visit' = D!NoVisit
    BY <1>0
  <2> QED BY <2>1, <2>2, <2>3 DEF VisitFits, D!NoVisit, D!NoRoom
<1>6. RoomsFit' /\ OneRoom' /\ Company'
  BY <1>0 DEF DirectSound, RoomsFit, OneRoom, Company, D!Numbers, D!Used, D!With, D!Pairs
<1>7. RequestsFit' /\ RequestsSee'
  BY <1>0 DEF DirectSound, RequestsFit, RequestsSee, Tried, D!Numbers, D!Used, D!With, D!Pairs, D!Taken, D!Titled
<1> QED BY <1>4, <1>5, <1>6, <1>7 DEF DirectSound

LEMMA VisitStep == ASSUME DirectSound, D!Visit \/ D!Abort PROVE DirectSound'
<1>0. UNCHANGED <<made, name, status, rooms, request, blurred>>
  BY DEF D!Visit, D!Abort
<1>1. RoomsFit' /\ OneRoom' /\ Company'
  BY <1>0 DEF DirectSound, RoomsFit, OneRoom, Company, D!Numbers, D!Used, D!With, D!Pairs
<1>2. RequestsFit' /\ RequestsSee'
  BY <1>0 DEF DirectSound, RequestsFit, RequestsSee, Tried, D!Numbers, D!Used, D!With, D!Pairs, D!Taken, D!Titled
<1>3. \A l : Loaded(l)' <=> Loaded(l)
  BY <1>0 DEF Loaded, D!Used, D!Numbers
<1>4. D!NoVisit.row = 0 /\ D!NoVisit.room \in RoomRows
  BY DEF D!NoVisit, D!NoRoom, D!Ending, RoomRows
<1>5. \A l \in loaded : l.row # 0
  BY DEF DirectSound, VisitFits, Loaded
<1>6. CASE D!Abort
  <2>1. visit' = D!NoVisit /\ loaded' = {}
    BY <1>6 DEF D!Abort
  <2>2. DirectTyped' /\ VisitFits'
    BY <1>0, <1>4, <2>1 DEF DirectSound, DirectTyped, D!Numbers, VisitFits, D!NoVisit, D!NoRoom
  <2> QED BY <1>1, <1>2, <2>2 DEF DirectSound
<1>7. CASE D!Visit
  <2>1. PICK l \in loaded : /\ loaded' = loaded \ {l}
                            /\ \/ visit' = D!NoVisit
                               \/ \E t : visit' = [row |-> l.row, room |-> l.room, rest |-> t]
    BY <1>7 DEF D!Visit
  <2>2. /\ visit' = D!NoVisit \/ (visit'.row = l.row /\ visit'.room = l.room)
        /\ l.row \in Nat /\ l.room \in RoomRows /\ loaded' \subseteq loaded
    BY <2>1 DEF DirectSound, DirectTyped
  <2>3. DirectTyped'
    BY <1>0, <1>4, <2>2 DEF DirectSound, DirectTyped, D!Numbers
  <2>4. \A m \in loaded' : m \in loaded /\ m.row # l.row /\ m.row # 0 /\ Loaded(m)'
    BY <1>3, <1>5, <2>1 DEF DirectSound, VisitFits
  <2>5. \A m \in loaded' : Loaded(m)' /\ m.row # visit'.row
    BY <1>4, <2>2, <2>4
  <2>6. \A m, n \in loaded' : m.row = n.row => m = n
    BY <2>4 DEF DirectSound, VisitFits
  <2>7. (visit # D!NoVisit)' => Loaded(visit)'
    <3> SUFFICES ASSUME visit' # D!NoVisit PROVE Loaded(visit)'
      BY DEF D!NoVisit, D!NoRoom
    <3>1. Loaded(l)'
      BY <1>3 DEF DirectSound, VisitFits
    <3> QED BY <2>2, <3>1 DEF Loaded
  <2>8. VisitFits'
    BY <2>5, <2>6, <2>7 DEF VisitFits
  <2> QED BY <1>1, <1>2, <2>3, <2>8 DEF DirectSound
<1> QED BY <1>6, <1>7

LEMMA FindStep ==
    ASSUME DirectSound, NEW o \in Openers, D!Find(o)
    PROVE  DirectSound'
<1>0. UNCHANGED <<made, name, status, loaded, visit, blurred>>
  BY DEF D!Find
<1>1. request[o].sees /\ request[o].pair # {}
  BY DEF D!Find, DirectSound, RequestsFit
<1>2. PICK r : r = request[o]
  OBVIOUS
<1>3. CASE D!With(r.pair) = {}
  <2>1. request' = [request EXCEPT ![o].sees = FALSE] /\ UNCHANGED rooms
    BY <1>2, <1>3 DEF D!Find
  <2>2. DirectTyped'
    <3> DEFINE Asks == [pair : SUBSET People, names : SUBSET Names, attempt : Nat, sees : BOOLEAN]
    <3>1. request \in [Openers -> Asks] BY DEF DirectSound, DirectTyped
    <3>2. [request[o] EXCEPT !.sees = FALSE] \in Asks BY <3>1
    <3>3. request' = [request EXCEPT ![o] = [request[o] EXCEPT !.sees = FALSE]] BY <2>1, <3>1
    <3> HIDE DEF Asks
    <3>4. request' \in [Openers -> Asks] BY <3>1, <3>2, <3>3
    <3> QED BY <1>0, <2>1, <3>4 DEF DirectSound, DirectTyped, D!Numbers, Asks
  <2>3. RoomsFit' /\ VisitFits' /\ OneRoom' /\ Company'
    BY <1>0, <2>1 DEF DirectSound, RoomsFit, VisitFits, OneRoom, Company, D!Numbers, D!Used, D!With, D!Pairs, Loaded
  <2>4. /\ \A q \in Openers \ {o} : request'[q] = request[q]
        /\ request'[o].pair = r.pair /\ request'[o].names = r.names /\ request'[o].attempt = r.attempt
        /\ ~request'[o].sees
    BY <1>2, <2>1 DEF DirectSound, DirectTyped
  <2>5. RequestsFit'
    BY <1>1, <1>2, <2>4 DEF DirectSound, RequestsFit, D!Pairs
  <2>6. \A t : Tried(t) => Tried(t)'
    BY <1>0, <2>1 DEF Tried, D!Taken, D!Titled, D!With, D!Used, D!Numbers
  <2>7. \A q \in Openers \ {o} : request'[q].pair # {} /\ request'[q].pair \notin blurred' => Tried(request[q])'
    <3> SUFFICES ASSUME NEW q \in Openers \ {o}, request'[q].pair # {}, request'[q].pair \notin blurred'
                 PROVE  Tried(request[q])'
      OBVIOUS
    <3>1. PICK t : t = request[q]
      OBVIOUS
    <3>2. Tried(t) /\ request'[q] = t
      BY <1>0, <2>4, <3>1 DEF DirectSound, RequestsSee
    <3> QED BY <2>6, <3>2 DEF Tried
  <2>8. request'[o].pair \notin blurred' => Tried(request[o])'
    <3> SUFFICES ASSUME r.pair \notin blurred PROVE Tried(request[o])'
      BY <1>0, <2>4
    <3>1. Tried(r)
      BY <1>1, <1>2 DEF DirectSound, RequestsSee
    <3>2. Tried(r)' /\ D!With(r.pair)' = {}
      BY <1>0, <1>3, <2>1, <2>6, <3>1 DEF D!With, D!Used, D!Numbers
    <3> QED BY <2>4, <3>2 DEF Tried
  <2>9. RequestsSee'
    BY <2>7, <2>8 DEF RequestsSee
  <2> QED BY <2>2, <2>3, <2>5, <2>9 DEF DirectSound
<1>4. CASE D!With(r.pair) # {}
  <2>1. request' = [request EXCEPT ![o] = D!Idle] /\ \E i \in D!With(r.pair) : rooms' = [rooms EXCEPT ![i].archived = FALSE]
    BY <1>2, <1>4 DEF D!Find
  <2>2. PICK i \in D!Used : rooms' = [rooms EXCEPT ![i].archived = FALSE]
    BY <2>1 DEF D!With
  <2>3. i \in D!Numbers /\ rooms[i] # D!NoRoom
    BY DEF D!Used
  <2>4. rooms \in [D!Numbers -> RoomRows] /\ \A j \in D!Numbers : rooms[j] \in RoomRows
    BY DEF DirectSound, DirectTyped
  <2>5. rooms' \in [D!Numbers -> RoomRows] /\ \A j \in D!Numbers : Alike(rooms'[j], rooms[j])
    BY <2>2, <2>3, <2>4 DEF RoomRows, Alike, SameTitle
  <2>6. rooms[i].names # {} /\ rooms'[i].names # {}
    BY <2>3, <2>5 DEF DirectSound, RoomsFit, Alike, SameTitle
  <2>7. \A j \in D!Numbers : j \in D!Used' <=> j \in D!Used
    BY <2>2, <2>3, <2>4, <2>6 DEF D!Used, D!Numbers, D!NoRoom
  <2>8. DirectTyped'
    BY <1>0, <2>1, <2>5 DEF DirectSound, DirectTyped, D!Numbers, D!Idle
  <2>9. /\ RoomsFit' /\ Company' /\ \A p : D!With(p)' = D!With(p)
        /\ \A ns, k : D!Taken(ns, k) => D!Taken(ns, k)'
    BY <1>0, <2>5, <2>7, <2>8, AlikeKept
  <2>10. VisitFits'
    <3>1. \A j \in D!Used' : j \in D!Used /\ SameTitle(rooms'[j], rooms[j])
      BY <2>5, <2>7 DEF D!Used, D!Numbers, Alike
    <3> QED BY <1>0, <3>1, LoadedKept DEF DirectSound
  <2>11. OneRoom'
    BY <1>0, <2>9, OneRoomKept DEF DirectSound
  <2>12. \A q \in Openers : request'[q] = IF q = o THEN D!Idle ELSE request[q]
    BY <2>1 DEF DirectSound, DirectTyped
  <2>13. RequestsFit'
    BY <2>12 DEF DirectSound, RequestsFit, D!Pairs, D!Idle
  <2>14. ASSUME NEW q \in Openers, request'[q].pair # {}, request'[q].pair \notin blurred' PROVE Tried(request[q])'
    <3>1. PICK t : t = request[q]
      OBVIOUS
    <3>2. request'[q] = t
      BY <2>12, <2>14, <3>1 DEF D!Idle
    <3>3. Tried(t)
      BY <1>0, <2>14, <3>1, <3>2 DEF DirectSound, RequestsSee
    <3> QED BY <1>0, <2>9, <3>2, <3>3 DEF Tried
  <2>15. RequestsSee'
    BY <2>14 DEF RequestsSee
  <2> QED BY <2>8, <2>9, <2>10, <2>11, <2>13, <2>15 DEF DirectSound
<1> QED BY <1>3, <1>4

LEMMA CreateStep ==
    ASSUME FewPeople, DirectSound, NEW o \in Openers, D!Create(o)
    PROVE  DirectSound'
<1>0. UNCHANGED <<name, status, loaded, visit, blurred>> /\ request[o].pair # {} /\ ~request[o].sees
  BY DEF D!Create
<1>1. PICK r : r = request[o]
  OBVIOUS
<1>2. /\ r.pair \in D!Pairs /\ r.pair \in SUBSET People /\ r.names \in SUBSET Names /\ r.names # {}
      /\ r.attempt \in Nat /\ Couple(r.pair)
  BY <1>0, <1>1, PairIsCouple DEF DirectSound, RequestsFit, DirectTyped
<1>3. request[o].pair \notin blurred => Tried(r)
  BY <1>0, <1>1 DEF DirectSound, RequestsSee
<1>4. ASSUME UNCHANGED <<rooms, made>>
      PROVE  /\ RoomsFit' /\ VisitFits' /\ OneRoom' /\ Company'
             /\ \A t : Tried(t) => Tried(t)'
  <2>1. RoomsFit' /\ VisitFits' /\ OneRoom' /\ Company'
    BY <1>0, <1>4 DEF DirectSound, RoomsFit, VisitFits, OneRoom, Company, D!Numbers, D!Used, D!With, D!Pairs, Loaded
  <2>2. \A t : Tried(t) => Tried(t)'
    BY <1>0, <1>4 DEF Tried, D!Taken, D!Titled, D!With, D!Used, D!Numbers
  <2> QED BY <2>1, <2>2
<1>5. ASSUME \A q \in Openers \ {o} : request'[q] = request[q],
             NEW q \in Openers \ {o}, request'[q].pair # {}, request'[q].pair \notin blurred',
             \A t : Tried(t) => Tried(t)'
      PROVE  Tried(request[q])'
  <2>1. PICK t : t = request[q]
    OBVIOUS
  <2>2. Tried(t) /\ request'[q] = t
    BY <1>0, <1>5, <2>1 DEF DirectSound, RequestsSee
  <2> QED BY <1>5, <2>2 DEF Tried
<1>6. CASE D!Taken(r.names, D!Ending(r.pair, r.attempt))
  <2>1. /\ request' = [request EXCEPT ![o].attempt = @ + 1, ![o].sees = TRUE]
        /\ UNCHANGED <<rooms, made>>
    BY <1>1, <1>6 DEF D!Create
  <2>2. DirectTyped'
    BY <1>0, <2>1 DEF DirectSound, DirectTyped, D!Numbers
  <2>3. /\ \A q \in Openers \ {o} : request'[q] = request[q]
        /\ request'[o].pair = r.pair /\ request'[o].names = r.names
        /\ request'[o].attempt = r.attempt + 1 /\ request'[o].sees
    BY <1>1, <2>1 DEF DirectSound, DirectTyped
  <2>4. RequestsFit'
    <3>1. request'[o].pair \in D!Pairs /\ request'[o].pair # {} /\ request'[o].names # {}
      BY <1>0, <1>1, <1>2, <2>3
    <3>2. D!Pairs' = D!Pairs
      BY DEF D!Pairs
    <3> QED BY <2>3, <3>1, <3>2 DEF DirectSound, RequestsFit
  <2>5. r.pair \notin blurred' => Tried(request[o])'
    <3> SUFFICES ASSUME r.pair \notin blurred' PROVE Tried(request[o])'
      OBVIOUS
    <3>1. Tried(r) /\ Tried(r)'
      BY <1>0, <1>1, <1>3, <1>4, <2>1
    <3>2. D!Taken(r.names, D!Ending(r.pair, r.attempt))'
      BY <1>6, <2>1 DEF D!Taken, D!Titled, D!Used, D!Numbers
    <3>3. \A k \in Nat : k < r.attempt + 1 => k < r.attempt \/ k = r.attempt
      BY <1>2
    <3> QED BY <2>3, <3>1, <3>2, <3>3 DEF Tried
  <2>6. RequestsSee'
    <3>1. ASSUME NEW q \in Openers, request'[q].pair # {}, request'[q].pair \notin blurred' PROVE Tried(request[q])'
      BY <1>4, <1>5, <2>1, <2>3, <2>5, <3>1
    <3> QED BY <3>1 DEF RequestsSee
  <2> QED BY <1>4, <2>1, <2>2, <2>4, <2>6 DEF DirectSound
<1>7. CASE ~D!Taken(r.names, D!Ending(r.pair, r.attempt))
  <2>1. /\ made < MaxRooms /\ request' = [request EXCEPT ![o] = D!Idle]
        /\ made' = IF \E u \in r.pair : status[u] = "gone" THEN made ELSE made + 1
        /\ rooms' = IF made' = made THEN rooms
                    ELSE [rooms EXCEPT ![made'] =
                           [members |-> r.pair, names |-> r.names, suffix |-> D!Ending(r.pair, r.attempt),
                            archived |-> FALSE, quiet |-> FALSE,
                            late |-> \E u \in r.pair : status[u] = "leaving"]]
    BY <1>1, <1>7 DEF D!Create
  <2>2. \A q \in Openers : request'[q] = IF q = o THEN D!Idle ELSE request[q]
    BY <2>1 DEF DirectSound, DirectTyped
  <2>3. request' \in [Openers -> [pair : SUBSET People, names : SUBSET Names, attempt : Nat, sees : BOOLEAN]]
    BY <2>1 DEF DirectSound, DirectTyped, D!Idle
  <2>4. RequestsFit'
    BY <2>2 DEF DirectSound, RequestsFit, D!Pairs, D!Idle
  <2>5. ASSUME \A t \in {request[q] : q \in Openers \ {o}} : t.pair # {} /\ t.pair \notin blurred' /\ Tried(t) => Tried(t)'
        PROVE  RequestsSee'
    <3> SUFFICES ASSUME NEW q \in Openers, request'[q].pair # {}, request'[q].pair \notin blurred' PROVE Tried(request[q])'
      BY DEF RequestsSee
    <3>1. PICK t : t = request[q]
      OBVIOUS
    <3>2. q # o /\ request'[q] = t
      BY <2>2, <3>1 DEF D!Idle
    <3>3. Tried(t)'
      BY <1>0, <2>5, <3>1, <3>2 DEF DirectSound, RequestsSee
    <3> QED BY <3>2, <3>3 DEF Tried
  <2>6. CASE \E u \in r.pair : status[u] = "gone"
    <3>1. UNCHANGED <<rooms, made>>
      BY <2>1, <2>6
    <3>2. DirectTyped'
      BY <1>0, <2>3, <3>1 DEF DirectSound, DirectTyped, D!Numbers
    <3> QED BY <1>4, <2>4, <2>5, <3>1, <3>2 DEF DirectSound
  <2>7. CASE \A u \in r.pair : status[u] # "gone"
    <3> DEFINE at == made + 1
               new == [members |-> r.pair, names |-> r.names, suffix |-> D!Ending(r.pair, r.attempt),
                       archived |-> FALSE, quiet |-> FALSE, late |-> \E u \in r.pair : status[u] = "leaving"]
    <3>1. made \in Nat /\ MaxRooms \in Nat /\ at \in D!Numbers /\ at > made
      BY <2>1 DEF DirectSound, DirectTyped, FewPeople, D!Numbers
    <3>2. made' = at /\ rooms' = [rooms EXCEPT ![at] = new]
      <4>1. made' = at /\ at # made
        BY <2>1, <2>7, <3>1
      <4> QED BY <2>1, <4>1
    <3>3. at \notin D!Used
      BY <3>1 DEF DirectSound, RoomsFit, D!Used
    <3>4. new \in RoomRows /\ new # D!NoRoom
      <4>1. (\E u \in r.pair : status[u] = "leaving") \in BOOLEAN
        OBVIOUS
      <4>2. new \in RoomRows
        BY <1>2, <4>1 DEF RoomRows, D!Ending
      <4> QED BY <1>2, <4>2 DEF D!NoRoom
    <3>5. /\ new.members = r.pair /\ new.names = r.names /\ new.suffix = D!Ending(r.pair, r.attempt)
          /\ new.late = (\E u \in r.pair : status[u] = "leaving")
      OBVIOUS
    <3> HIDE DEF at, new
    <3>6. rooms' \in [D!Numbers -> RoomRows] /\ \A i \in D!Numbers : rooms'[i] = IF i = at THEN new ELSE rooms[i]
      BY <3>2, <3>4 DEF DirectSound, DirectTyped
    <3>7. DirectTyped'
      BY <1>0, <2>3, <3>1, <3>2, <3>6 DEF DirectSound, DirectTyped, D!Numbers
    <3>8. D!Used' = D!Used \cup {at}
      BY <3>1, <3>4, <3>6 DEF D!Used, D!Numbers
    <3>9. RoomsFit'
      <4>1. \A i \in D!Numbers : i > made' => i \notin D!Used'
        BY <3>1, <3>2, <3>8 DEF DirectSound, RoomsFit, D!Used, D!Numbers
      <4>2. ASSUME NEW i \in D!Used'
            PROVE  rooms'[i].names # {} /\ (rooms'[i].members = {} \/ Single(rooms'[i].members) \/ Couple(rooms'[i].members))
        <5>1. i = at \/ (i \in D!Used /\ rooms'[i] = rooms[i])
          BY <3>6, <3>8 DEF D!Used
        <5> QED BY <1>2, <3>1, <3>5, <3>6, <5>1 DEF DirectSound, RoomsFit, D!Used
      <4> QED BY <4>1, <4>2 DEF RoomsFit, D!Used
    <3>10. VisitFits'
      <4>1. ASSUME NEW l, Loaded(l) PROVE Loaded(l)'
        BY <3>1, <3>2, <3>6, <3>8, <4>1 DEF Loaded, D!Numbers, D!Used
      <4> QED BY <1>0, <4>1 DEF DirectSound, VisitFits, Loaded
    <3>11. \A p : D!With(p)' = IF p = r.pair THEN D!With(p) \cup {at} ELSE D!With(p)
      <4>1. \A i \in D!Used : rooms'[i] = rooms[i]
        BY <3>3, <3>6 DEF D!Used
      <4>2. rooms'[at].members = r.pair
        BY <3>1, <3>5, <3>6
      <4> QED BY <3>8, <4>1, <4>2 DEF D!With
    <3>12. \A ns, k : D!Taken(ns, k)' <=> D!Taken(ns, k) \/ (ns = r.names /\ k = D!Ending(r.pair, r.attempt))
      <4>1. \A i \in D!Used : rooms'[i] = rooms[i]
        BY <3>3, <3>6 DEF D!Used
      <4>2. rooms'[at].names = r.names /\ rooms'[at].suffix = D!Ending(r.pair, r.attempt)
        BY <3>1, <3>5, <3>6
      <4> QED BY <3>8, <4>1, <4>2 DEF D!Taken, D!Titled
    <3>13. OneRoom'
      <4>1. r.pair \notin blurred => D!With(r.pair) = {}
        BY <1>0, <1>1, <1>3, <1>7 DEF Tried
      <4> QED BY <1>0, <3>11, <4>1 DEF DirectSound, OneRoom, D!Pairs
    <3>14. ASSUME NEW q \in Openers \ {o}, request[q].pair # {}, request[q].pair \notin blurred', Tried(request[q])
           PROVE  \E t : t = request[q] /\ Tried(t)'
      <4>1. PICK t : t = request[q]
        OBVIOUS
      <4>2. Tried(t) /\ t.attempt \in Nat
        BY <3>14, <4>1 DEF DirectSound, DirectTyped
      <4>3. t.names = {name'[u] : u \in t.pair} /\ \A k \in Nat : k < t.attempt => D!Taken(t.names, D!Ending(t.pair, k))'
        BY <1>0, <3>12, <4>2 DEF Tried
      <4>4. CASE t.pair # r.pair
        <5>1. ~t.sees /\ D!With(t.pair)' # {} => D!Taken(t.names, D!Ending(t.pair, t.attempt))'
          BY <3>11, <3>12, <4>2, <4>4 DEF Tried
        <5> QED BY <4>1, <4>3, <5>1 DEF Tried
      <4>5. CASE t.pair = r.pair
        <5>1. Tried(r)
          BY <1>0, <1>1, <1>3, <3>14, <4>1, <4>5
        <5>2. t.names = r.names
          BY <4>2, <4>5, <5>1 DEF Tried
        <5>3. ~(r.attempt < t.attempt)
          BY <1>2, <1>7, <4>2, <4>5, <5>2 DEF Tried
        <5>4. t.attempt < r.attempt \/ t.attempt = r.attempt
          BY <1>2, <4>2, <5>3
        <5>5. D!Taken(t.names, D!Ending(t.pair, t.attempt))'
          BY <1>2, <3>12, <4>2, <4>5, <5>1, <5>2, <5>4 DEF Tried
        <5> QED BY <4>1, <4>3, <5>5 DEF Tried
      <4> QED BY <4>4, <4>5
    <3>15. RequestsSee'
      BY <2>5, <3>14
    <3>16. Company'
      <4> SUFFICES ASSUME NEW i \in D!Numbers
                   PROVE  /\ \A v \in rooms'[i].members : status[v] # "gone" /\ (status[v] = "leaving" => rooms'[i].late)
                          /\ Single(rooms'[i].members) => rooms'[i].late
        BY <1>0 DEF Company, D!Numbers
      <4>1. CASE i = at
        <5>1. rooms'[i] = new
          BY <3>6, <4>1
        <5>2. ~Single(r.pair)
          BY <1>2 DEF Single, Couple
        <5> QED BY <2>7, <3>5, <5>1, <5>2
      <4>2. CASE i # at
        BY <3>6, <4>2 DEF DirectSound, Company
      <4> QED BY <4>1, <4>2
    <3> QED BY <2>4, <3>7, <3>9, <3>10, <3>13, <3>15, <3>16 DEF DirectSound
  <2> QED BY <2>6, <2>7
<1> QED BY <1>6, <1>7

LEMMA HandleStep == ASSUME FewPeople, DirectSound, D!HandleMember PROVE DirectSound'
<1> DEFINE v == visit
           at == IF v.row = 0 THEN made + 1 ELSE v.row
<1>1. PICK gone \in BOOLEAN, old \in BOOLEAN :
        LET t == [v.room EXCEPT !.archived = old]
        IN  /\ v # D!NoVisit /\ (v.row = 0 => made < MaxRooms)
            /\ rooms' = [rooms EXCEPT ![at] = IF gone THEN D!NoRoom ELSE D!SavedRow(at, t)]
            /\ \/ visit' = D!NoVisit
               \/ visit'.row = (IF gone THEN 0 ELSE at) /\ visit'.room = t
            /\ made' = (IF v.row = 0 THEN at ELSE made)
            /\ blurred' = (IF gone THEN blurred \cup D!Sought ELSE blurred)
            /\ UNCHANGED <<name, status, request, loaded>>
  <2> DEFINE u == Head(v.rest)
             unused == status[u] \notin {"active", "leaving"}
             t == [v.room EXCEPT !.archived = unused]
             gone == unused /\ D!Doomed([v EXCEPT !.row = at])
             next == [row |-> IF gone THEN 0 ELSE at, room |-> t, rest |-> Tail(v.rest)]
  <2>1. gone \in BOOLEAN /\ unused \in BOOLEAN
    BY DEF D!Doomed
  <2>2. at # 0
    BY DEF DirectSound, DirectTyped
  <2>3. /\ v # D!NoVisit /\ (v.row = 0 => made < MaxRooms)
        /\ rooms' = [rooms EXCEPT ![at] = IF next.row = 0 THEN D!NoRoom ELSE D!SavedRow(at, t)]
        /\ visit' = (IF next.rest = <<>> THEN D!NoVisit ELSE next)
        /\ made' = (IF v.row = 0 THEN at ELSE made)
        /\ blurred' = (IF next.row = 0 THEN blurred \cup D!Sought ELSE blurred)
        /\ UNCHANGED <<name, status, request, loaded>>
    BY DEF D!HandleMember
  <2>4. (next.row = 0 <=> gone) /\ next.row = (IF gone THEN 0 ELSE at) /\ next.room = t
    BY <2>2
  <2> HIDE DEF gone, next, at, unused
  <2> QED BY <2>1, <2>3, <2>4
<1> PICK t : t = [v.room EXCEPT !.archived = old]
  OBVIOUS
<1>2. t \in RoomRows /\ v.room \in RoomRows /\ SameTitle(t, v.room) /\ t.names = v.room.names /\ t.suffix = v.room.suffix
  BY DEF DirectSound, DirectTyped, RoomRows, SameTitle
<1>3. made \in Nat /\ MaxRooms \in Nat /\ v.row \in Nat /\ made <= MaxRooms
  BY DEF DirectSound, DirectTyped, FewPeople
<1>4. t.names # {} /\ (v.row # 0 => Loaded(v))
  <2>1. v # D!NoVisit
    BY <1>1
  <2>2. (v.row = 0 /\ v.room.names # {}) \/ Loaded(v)
    BY <2>1 DEF DirectSound, VisitFits
  <2>3. Loaded(v) => v.room.names # {}
    BY DEF Loaded
  <2> QED BY <1>2, <2>2, <2>3
<1>5. at \in D!Numbers /\ at \in 1..made' /\ made' \in 0..MaxRooms /\ made <= made' /\ at # 0
  BY <1>1, <1>3, <1>4 DEF D!Numbers, Loaded
<1>6. at \in D!Used => v.row # 0 /\ SameTitle(rooms[at], t)
  BY <1>1, <1>2, <1>3, <1>4 DEF Loaded, SameTitle, DirectSound, RoomsFit, D!Used
<1>7. \A l \in loaded : l.row # at
  BY <1>3 DEF DirectSound, VisitFits, Loaded
<1>8. /\ rooms' = [rooms EXCEPT ![at] = IF gone THEN D!NoRoom ELSE D!SavedRow(at, t)]
      /\ visit' = D!NoVisit \/ (visit'.row = (IF gone THEN 0 ELSE at) /\ visit'.room = t)
      /\ made' = (IF v.row = 0 THEN at ELSE made)
      /\ blurred' = (IF gone THEN blurred \cup D!Sought ELSE blurred)
      /\ UNCHANGED <<name, status, request, loaded>>
  BY <1>1
<1> HIDE DEF at, v
<1>9. /\ D!SavedRow(at, t) \in RoomRows /\ SameTitle(D!SavedRow(at, t), t) /\ D!SavedRow(at, t) # D!NoRoom
      /\ D!SavedRow(at, t).members = rooms[at].members /\ D!SavedRow(at, t).late = rooms[at].late
  <2>1. rooms[at] \in RoomRows
    BY <1>5 DEF DirectSound, DirectTyped
  <2>2. D!SavedRow(at, t).names = t.names
    BY <1>2 DEF D!SavedRow, RoomRows
  <2>3. D!SavedRow(at, t) # D!NoRoom
    BY <1>4, <2>2 DEF D!NoRoom
  <2> QED BY <1>2, <2>1, <2>3 DEF D!SavedRow, RoomRows, SameTitle
<1>10. D!NoRoom \in RoomRows /\ D!NoRoom.members = {}
  BY DEF D!NoRoom, D!Ending, RoomRows
<1>11. /\ rooms' \in [D!Numbers -> RoomRows]
       /\ \A i \in D!Numbers : rooms'[i] = IF i # at THEN rooms[i] ELSE IF gone THEN D!NoRoom ELSE D!SavedRow(at, t)
  BY <1>5, <1>8, <1>9, <1>10 DEF DirectSound, DirectTyped
<1>12. DirectTyped'
  <2>1. visit'.row \in Nat /\ visit'.room \in RoomRows
    BY <1>1, <1>2, <1>5, <1>8, <1>10 DEF D!NoVisit
  <2> QED BY <1>5, <1>8, <1>11, <2>1 DEF DirectSound, DirectTyped, D!Numbers
<1>13. \A i \in D!Numbers : i # at => (i \in D!Used' <=> i \in D!Used) /\ rooms'[i] = rooms[i]
  BY <1>11 DEF D!Used, D!Numbers
<1>14. (gone => at \notin D!Used') /\ (~gone => at \in D!Used' /\ SameTitle(rooms'[at], t))
  BY <1>5, <1>9, <1>11 DEF D!Used, D!Numbers
<1>15. \A i \in D!Numbers : /\ rooms'[i].members = rooms[i].members \/ rooms'[i].members = {}
                            /\ rooms'[i].late = rooms[i].late \/ rooms'[i].members = {}
  BY <1>9, <1>10, <1>11
<1>16. RoomsFit'
  <2>1. \A i \in D!Numbers : i > made' => i \notin D!Used'
    BY <1>3, <1>5, <1>13 DEF DirectSound, RoomsFit, D!Used, D!Numbers
  <2>2. ASSUME NEW i \in D!Numbers, i \in D!Used', i = at
        PROVE  rooms'[i].names # {} /\ (rooms'[i].members = {} \/ Single(rooms'[i].members) \/ Couple(rooms'[i].members))
    <3>1. rooms'[i].names # {}
      BY <1>4, <1>14, <2>2 DEF SameTitle
    <3>2. rooms[i] = D!NoRoom \/ i \in D!Used
      BY DEF D!Used
    <3> QED BY <1>10, <1>15, <3>1, <3>2 DEF DirectSound, RoomsFit
  <2>3. ASSUME NEW i \in D!Numbers, i \in D!Used', i # at
        PROVE  rooms'[i].names # {} /\ (rooms'[i].members = {} \/ Single(rooms'[i].members) \/ Couple(rooms'[i].members))
    BY <1>13, <2>3 DEF DirectSound, RoomsFit
  <2> QED BY <2>1, <2>2, <2>3 DEF RoomsFit, D!Used, D!Numbers
<1>17. VisitFits'
  <2>1. \A l \in loaded : Loaded(l)'
    <3> SUFFICES ASSUME NEW l \in loaded PROVE Loaded(l)'
      OBVIOUS
    <3>1. Loaded(l) /\ l.row # at
      BY <1>7 DEF DirectSound, VisitFits
    <3>2. l.row \in 1..made' /\ l.row \in D!Numbers
      BY <1>3, <1>5, <3>1 DEF Loaded, D!Numbers
    <3> QED BY <1>13, <3>1, <3>2 DEF Loaded
  <2>2. \A l \in loaded : l.row # 0
    BY DEF DirectSound, VisitFits, Loaded
  <2>3. (visit # D!NoVisit)' => (visit'.row = 0 /\ visit'.room.names # {}) \/ Loaded(visit)'
    <3> SUFFICES ASSUME visit' # D!NoVisit
                 PROVE  (visit'.row = 0 /\ visit'.room.names # {}) \/ Loaded(visit)'
      BY DEF D!NoVisit, D!NoRoom
    <3>1. visit'.row = (IF gone THEN 0 ELSE at) /\ visit'.room = t
      BY <1>8
    <3>2. CASE gone
      BY <1>4, <3>1, <3>2
    <3>3. CASE ~gone
      BY <1>4, <1>5, <1>14, <3>1, <3>3 DEF Loaded
    <3> QED BY <3>2, <3>3
  <2>4. \A l \in loaded : l.row # visit'.row
    BY <1>7, <1>8, <2>2 DEF D!NoVisit
  <2> QED BY <1>8, <2>1, <2>3, <2>4 DEF DirectSound, VisitFits
<1>18. ASSUME NEW p \in D!Pairs PROVE D!With(p)' \subseteq D!With(p)
  <2>1. p # {}
    <3>1. Couple(p)
      BY PairIsCouple
    <3> QED BY <3>1 DEF Couple
  <2>2. ASSUME NEW i \in D!With(p)' PROVE i \in D!With(p)
    <3>1. i \in D!Numbers /\ rooms'[i].members = p
      BY DEF D!With, D!Used, D!Numbers
    <3>2. rooms[i].members = p /\ rooms[i] # D!NoRoom
      BY <1>10, <1>15, <2>1, <3>1
    <3> QED BY <3>1, <3>2 DEF D!With, D!Used
  <2> QED BY <2>2
<1>19. OneRoom'
  BY <1>8, <1>18, OneRoomKept DEF DirectSound
<1>20. RequestsFit' /\ RequestsSee'
  <2>1. CASE gone
    BY <1>8, <2>1, RequestsBlurred DEF DirectSound
  <2>2. CASE ~gone
    <3>1. \A i \in D!Used : i \in D!Used' /\ SameTitle(rooms'[i], rooms[i])
      BY <1>6, <1>13, <1>14, <2>2 DEF D!Used, SameTitle
    <3>2. \A ns, k : D!Taken(ns, k) => D!Taken(ns, k)'
      BY <1>12, <3>1, TitlesKept DEF DirectSound
    <3>3. \A p \in D!Pairs : D!With(p) = {} => D!With(p)' = {}
      BY <1>18
    <3> QED BY <1>8, <2>2, <3>2, <3>3, RequestsKept DEF DirectSound
  <2> QED BY <2>1, <2>2
<1>21. Company'
  <2> SUFFICES ASSUME NEW i \in D!Numbers
               PROVE  /\ \A u \in rooms'[i].members : status[u] # "gone" /\ (status[u] = "leaving" => rooms'[i].late)
                      /\ Single(rooms'[i].members) => rooms'[i].late
    BY <1>8 DEF Company, D!Numbers
  <2>1. CASE rooms'[i].members = {}
    BY <2>1 DEF Single
  <2>2. CASE rooms'[i].members = rooms[i].members /\ rooms'[i].late = rooms[i].late
    BY <2>2 DEF DirectSound, Company
  <2> QED BY <1>15, <2>1, <2>2
<1> QED BY <1>12, <1>16, <1>17, <1>19, <1>20, <1>21 DEF DirectSound

LEMMA DirectStep == ASSUME FewPeople, DirectSound, [D!Next]_(D!vars) PROVE DirectSound'
<1>1. CASE UNCHANGED D!vars
  BY <1>1 DEF D!vars, DirectSound, DirectTyped, RoomsFit, VisitFits, RequestsFit, RequestsSee, OneRoom, Company,
       Tried, Loaded, D!Numbers, D!Used, D!With, D!Taken, D!Titled, D!Pairs
<1>2. CASE D!Begin
  BY <1>2, OpenStep, RenameStep, StatusStep, CleanupStep, PassStep, RetireStep, NightStep DEF D!Begin
<1>3. CASE D!GoOn
  BY <1>3, FindStep, CreateStep, DeleteStep, VisitStep, HandleStep DEF D!GoOn
<1> QED BY <1>1, <1>2, <1>3 DEF D!Next

LEMMA DirectGivesInvariant == ASSUME FewPeople, DirectSound PROVE DirectRoomsInvariant
<1>1. ASSUME NEW i \in D!Used
      PROVE  /\ rooms[i].members \subseteq People
             /\ \/ rooms[i].members = {} /\ Cardinality(rooms[i].members) = 0
                \/ Single(rooms[i].members) /\ Cardinality(rooms[i].members) = 1
                \/ Couple(rooms[i].members) /\ Cardinality(rooms[i].members) = 2
  <2>1. rooms[i].members = {} \/ Single(rooms[i].members) \/ Couple(rooms[i].members)
    BY DEF DirectSound, RoomsFit, D!Used
  <2>2. Single(rooms[i].members) => Cardinality(rooms[i].members) = 1
    BY FS_Singleton DEF Single
  <2>3. rooms[i].members \subseteq People
    BY DEF DirectSound, DirectTyped, RoomRows, D!Used
  <2> QED BY <2>1, <2>2, <2>3, SizeOfCouple, FS_EmptySet
<1>2. D!TypeOK
  BY <1>1, SizeIsCardinality DEF D!TypeOK, DirectSound, DirectTyped, D!IsInjective
<1>3. D!NobodyAlone
  BY <1>1, SizeIsCardinality DEF D!NobodyAlone, DirectSound, Company, D!Used
<1>4. ASSUME NEW p \in D!Pairs, p \notin blurred PROVE D!Cardinality(D!With(p)) <= 1
  <2>1. \A i, j \in D!With(p) : i = j
    BY <1>4 DEF DirectSound, OneRoom
  <2>2. D!With(p) = {} \/ \E i : D!With(p) = {i}
    BY <2>1
  <2>3. CASE D!With(p) = {}
    <3>1. Cardinality(D!With(p)) = 0
      BY <2>3, FS_EmptySet
    <3> QED BY <3>1, SizeIsCardinality
  <2>4. CASE \E i : D!With(p) = {i}
    <3>1. Cardinality(D!With(p)) = 1
      BY <2>4, FS_Singleton
    <3> QED BY <3>1, SizeIsCardinality
  <2> QED BY <2>2, <2>3, <2>4
<1>5. D!OneRoomPerPair
  BY <1>4 DEF D!OneRoomPerPair
<1> QED BY <1>2, <1>3, <1>5 DEF DirectRoomsInvariant, D!DirectRoomsInvariant

(* Two citizens have one room, however many requests open it at a time and *)
(* whatever the nightly command saves meanwhile, but for the pairs that    *)
(* were sought while somebody was renamed or a room went; nobody is alone  *)
(* in a room of two, unless it was opened after the clean-up of the other. *)
THEOREM DirectRoomsInvariantHolds ==
    ASSUME FewPeople
    PROVE  ChatSpec => []DirectRoomsInvariant
<1>1. ChatInit => DirectSound
  BY DirectInit DEF ChatInit
<1>2. DirectSound /\ [ChatNext]_all => DirectSound'
  <2> SUFFICES ASSUME DirectSound, [ChatNext]_all PROVE DirectSound'
    OBVIOUS
  <2>1. D!Next \/ UNCHANGED D!vars
    BY DEF ChatNext, QueueNext, RoomNext, DirectNext, ScreenNext, MessageNext, PushNext, FederationNext,
           all, direct, D!vars
  <2> QED BY <2>1, DirectStep
<1>3. DirectSound => DirectRoomsInvariant
  BY DirectGivesInvariant
<1> QED BY <1>1, <1>2, <1>3, PTL DEF ChatSpec

-----------------------------------------------------------------------------
(* One reader                                                              *)

Stages == {"stored", "saved", "sent", "cleared", "preferred", "done"}

ReaderTyped ==
  /\ mine \in Seq(BOOLEAN) /\ stage \in Seq(Stages) /\ sawit \in Seq(BOOLEAN)
  /\ Len(stage) = Len(mine) /\ Len(sawit) = Len(mine)
  /\ \A m \in R!Messages : stage[m] \in {"sent", "cleared", "preferred"} => m \in R!Others
  /\ read \subseteq R!Others /\ known \subseteq R!Messages /\ slipped \subseteq R!Others
  /\ marking # R!Nothing => marking \subseteq R!Others
  /\ seen \in BOOLEAN
  /\ tab \in [Tabs -> {"closed", "open", "joining", "here"}] /\ shown \in [Tabs -> SUBSET R!Messages]
  /\ registered \in Tabs \cup {None} /\ (registered \in Tabs => tab[registered] # "closed")

(* What is read, or on a screen, has been shown or marked.                 *)
ReadIsKnown == read \subseteq known /\ \A t \in Tabs : shown[t] \subseteq known

(* A message of somebody else counts from when it is stored, and the cache *)
(* is emptied before its preferences are looked up.                        *)
Correct(n, s, r, e) == n = R!NoCount \/ n = R!Count(s, r, e)
CountFits ==
  (\A m \in R!Others : stage[m] \in {"preferred", "done"}) => Correct(cached, seen, read, archived) \/ miscounted

(* One that found the room unread needs no more than that.                 *)
Passed(m) == stage[m] = "done" \/ (stage[m] = "preferred" /\ sawit[m] = FALSE)
NothingPasses == \A m \in R!Others : Passed(m) => m \in R!unread \cup known \cup slipped

ReaderSound == ReaderTyped /\ ReadIsKnown /\ R!NoGap /\ CountFits /\ NothingPasses

LEMMA ReaderInit == ASSUME None \notin Tabs, R!Init PROVE ReaderSound
<1>1. /\ mine = <<>> /\ stage = <<>> /\ sawit = <<>>
      /\ read = {} /\ seen \in BOOLEAN /\ cached = R!NoCount /\ marking = R!Nothing
      /\ tab = [t \in Tabs |-> "closed"] /\ registered = None
      /\ shown = [t \in Tabs |-> {}] /\ known = {} /\ slipped = {}
  BY DEF R!Init
<1>2. R!Messages = {} /\ R!Others = {}
  BY <1>1 DEF R!Messages, R!Others
<1>3. <<>> \in Seq(BOOLEAN) /\ <<>> \in Seq(Stages)
  BY EmptySeq
<1>4. ReaderTyped
  <2>1. mine \in Seq(BOOLEAN) /\ stage \in Seq(Stages) /\ sawit \in Seq(BOOLEAN) /\ stage = mine /\ sawit = mine
    BY <1>1, <1>3
  <2>2. /\ tab \in [Tabs -> {"closed", "open", "joining", "here"}]
        /\ registered \in Tabs => tab[registered] # "closed"
    BY <1>1
  <2>3. shown \in [Tabs -> SUBSET R!Messages]
    BY <1>1
  <2> QED BY <1>1, <1>2, <2>1, <2>2, <2>3 DEF ReaderTyped
<1> QED BY <1>1, <1>2, <1>4 DEF ReaderSound, ReadIsKnown, R!NoGap, CountFits, NothingPasses, Correct

LEMMA MessageFacts ==
    ASSUME ReaderTyped
    PROVE  /\ R!Messages \subseteq Nat /\ R!Others \subseteq R!Messages
           /\ \A m \in R!Messages : stage[m] \in Stages /\ mine[m] \in BOOLEAN /\ sawit[m] \in BOOLEAN
<1>1. Len(mine) \in Nat /\ R!Messages = 1..Len(mine)
  BY DEF ReaderTyped, R!Messages
<1> QED BY <1>1 DEF ReaderTyped, R!Others

(* The reader's connections                                                *)
LEMMA ScreenStep ==
    ASSUME None \notin Tabs, ReaderSound, NEW t \in Tabs,
           R!connect(t) \/ R!disconnect(t) \/ R!join(t) \/ R!leave(t) \/ R!get_recent_messages_batch(t)
    PROVE  ReaderSound'
<1>0. UNCHANGED <<mine, stage, sawit, read, seen, cached, miscounted, archived, counting, marking, slipped>>
  BY DEF R!connect, R!disconnect, R!join, R!leave, R!get_recent_messages_batch, R!sending, R!readState
<1>1. R!Messages' = R!Messages /\ R!Others' = R!Others /\ R!unread' = R!unread
  BY <1>0 DEF R!Messages, R!Others, R!unread
<1>2. ReaderTyped /\ ReadIsKnown /\ R!NoGap
  BY DEF ReaderSound
<1>3. /\ known' = known \/ known' = known \cup R!Messages
      /\ \A m \in R!Messages : m \in known => m \in known'
  BY DEF R!connect, R!disconnect, R!join, R!leave, R!get_recent_messages_batch
<1>4. CountFits'
  BY <1>0, <1>1 DEF ReaderSound, CountFits, Correct, R!Count, R!NoCount
<1>5. NothingPasses'
  BY <1>0, <1>1, <1>3 DEF ReaderSound, NothingPasses, Passed
<1>6. CASE R!connect(t)
  <2>1. tab' = [tab EXCEPT ![t] = "open"] /\ registered' = t /\ UNCHANGED <<shown, known>>
    BY <1>6 DEF R!connect
  <2>2. ReaderTyped'
    BY <1>0, <1>1, <1>2, <2>1 DEF ReaderTyped, R!Nothing
  <2>3. ReadIsKnown' /\ R!NoGap'
    BY <1>0, <1>1, <1>2, <2>1 DEF ReadIsKnown, R!NoGap, ReaderTyped
  <2> QED BY <1>4, <1>5, <2>2, <2>3 DEF ReaderSound
<1>7. CASE R!disconnect(t)
  <2>1. /\ tab' = [tab EXCEPT ![t] = "closed"] /\ shown' = [shown EXCEPT ![t] = {}] /\ UNCHANGED known
        /\ registered' = IF registered = t THEN None ELSE registered
    BY <1>7 DEF R!disconnect, R!make_offline
  <2>2. ReaderTyped'
    BY <1>0, <1>1, <1>2, <2>1 DEF ReaderTyped, R!Nothing
  <2>3. ReadIsKnown' /\ R!NoGap'
    BY <1>0, <1>1, <1>2, <2>1 DEF ReadIsKnown, R!NoGap, ReaderTyped
  <2> QED BY <1>4, <1>5, <2>2, <2>3 DEF ReaderSound
<1>8. CASE R!join(t)
  <2>1. tab' = [tab EXCEPT ![t] = "joining"] /\ UNCHANGED <<registered, shown, known>>
    BY <1>8 DEF R!join
  <2>2. ReaderTyped'
    BY <1>0, <1>1, <1>2, <2>1 DEF ReaderTyped, R!Nothing
  <2>3. ReadIsKnown' /\ R!NoGap'
    BY <1>0, <1>1, <1>2, <2>1 DEF ReadIsKnown, R!NoGap, ReaderTyped
  <2> QED BY <1>4, <1>5, <2>2, <2>3 DEF ReaderSound
<1>9. CASE R!leave(t)
  <2>1. tab' = [tab EXCEPT ![t] = "open"] /\ shown' = [shown EXCEPT ![t] = {}] /\ UNCHANGED <<registered, known>>
    BY <1>9 DEF R!leave
  <2>2. ReaderTyped'
    BY <1>0, <1>1, <1>2, <2>1 DEF ReaderTyped, R!Nothing
  <2>3. ReadIsKnown' /\ R!NoGap'
    BY <1>0, <1>1, <1>2, <2>1 DEF ReadIsKnown, R!NoGap, ReaderTyped
  <2> QED BY <1>4, <1>5, <2>2, <2>3 DEF ReaderSound
<1>10. CASE R!get_recent_messages_batch(t)
  <2>1. /\ tab' = [tab EXCEPT ![t] = "here"] /\ UNCHANGED registered
        /\ shown' = [shown EXCEPT ![t] = R!Messages] /\ known' = known \cup R!Messages
    BY <1>10 DEF R!get_recent_messages_batch
  <2>2. ReaderTyped'
    BY <1>0, <1>1, <1>2, <2>1 DEF ReaderTyped, R!Nothing
  <2>3. ReadIsKnown' /\ R!NoGap'
    BY <1>0, <1>1, <1>2, <2>1 DEF ReadIsKnown, R!NoGap, ReaderTyped
  <2> QED BY <1>4, <1>5, <2>2, <2>3 DEF ReaderSound
<1> QED BY <1>6, <1>7, <1>8, <1>9, <1>10

(* A message on its way                                                    *)
LEMMA StoringStep ==
    ASSUME ReaderSound, NEW own \in BOOLEAN, R!_create_message(own)
    PROVE  ReaderSound'
<1>0. /\ mine' = Append(mine, own) /\ stage' = Append(stage, "stored") /\ sawit' = Append(sawit, FALSE)
      /\ UNCHANGED <<read, seen, cached, miscounted, archived, counting, marking, tab, registered, shown, known, slipped>>
  BY DEF R!_create_message, R!readState, R!screens
<1>1. PICK n \in Nat : n = Len(mine)
  BY DEF ReaderSound, ReaderTyped
<1>2. /\ mine' \in Seq(BOOLEAN) /\ stage' \in Seq(Stages) /\ sawit' \in Seq(BOOLEAN)
      /\ Len(mine') = n + 1 /\ Len(stage') = n + 1 /\ Len(sawit') = n + 1
      /\ \A m \in 1..n : mine'[m] = mine[m] /\ stage'[m] = stage[m] /\ sawit'[m] = sawit[m]
      /\ stage'[n + 1] = "stored" /\ mine'[n + 1] = own
  <2>1. mine \in Seq(BOOLEAN) /\ stage \in Seq(Stages) /\ sawit \in Seq(BOOLEAN) /\ Len(stage) = n /\ Len(sawit) = n
    BY <1>1 DEF ReaderSound, ReaderTyped
  <2>2. mine' \in Seq(BOOLEAN) /\ Len(mine') = n + 1 /\ mine'[n + 1] = own /\ \A m \in 1..n : mine'[m] = mine[m]
    BY <1>0, <1>1, <2>1, AppendProperties
  <2>3. "stored" \in Stages
    BY DEF Stages
  <2>4. /\ stage' \in Seq(Stages) /\ Len(stage') = n + 1 /\ stage'[n + 1] = "stored"
        /\ \A m \in 1..n : stage'[m] = stage[m]
    BY <1>0, <2>1, <2>3, AppendProperties
  <2>5. sawit' \in Seq(BOOLEAN) /\ Len(sawit') = n + 1 /\ \A m \in 1..n : sawit'[m] = sawit[m]
    <3>1. ASSUME NEW e \in BOOLEAN
          PROVE  LET l == Append(sawit, e)
                 IN  l \in Seq(BOOLEAN) /\ Len(l) = n + 1 /\ \A m \in 1..n : l[m] = sawit[m]
      BY <2>1, AppendProperties
    <3>2. FALSE \in BOOLEAN /\ sawit' = Append(sawit, FALSE)
      BY <1>0
    <3>3. LET l == Append(sawit, FALSE)
          IN  l \in Seq(BOOLEAN) /\ Len(l) = n + 1 /\ \A m \in 1..n : l[m] = sawit[m]
      BY <3>1, Zenon
    <3> QED BY <3>2, <3>3, Zenon
  <2> QED BY <2>2, <2>4, <2>5
<1>3. /\ R!Messages = 1..n /\ R!Messages' = 1..(n + 1)
      /\ \A m \in R!Messages' : m \in R!Messages \/ m = n + 1
      /\ R!Messages \subseteq R!Messages' /\ n + 1 \in R!Messages' /\ n + 1 \notin R!Messages
  BY <1>1, <1>2 DEF R!Messages
<1>4. /\ \A m \in R!Others : m \in R!Others' /\ m \in R!Messages
      /\ \A m \in R!Others' : m \in R!Others \/ (m = n + 1 /\ ~own)
      /\ own => n + 1 \notin R!Others'
  BY <1>2, <1>3 DEF R!Others
<1>5. ReaderTyped'
  BY <1>0, <1>1, <1>2, <1>3, <1>4 DEF ReaderSound, ReaderTyped, R!Nothing
<1>6. ReadIsKnown' /\ R!NoGap'
  BY <1>0, <1>2, <1>3 DEF ReaderSound, ReadIsKnown, R!NoGap
<1>7. CountFits'
  <2>1. CASE own
    <3>1. R!Others' = R!Others
      BY <1>4, <2>1
    <3> QED BY <1>0, <1>2, <1>3, <1>4, <3>1 DEF ReaderSound, CountFits, Correct, R!Count, R!NoCount
  <2>2. CASE ~own
    <3>1. n + 1 \in R!Others' /\ stage'[n + 1] \notin {"preferred", "done"}
      BY <1>2, <1>3, <2>2 DEF R!Others
    <3> QED BY <3>1 DEF CountFits
  <2> QED BY <2>1, <2>2
<1>8. NothingPasses'
  <2> SUFFICES ASSUME NEW m \in R!Others', Passed(m)' PROVE m \in (R!unread \cup known \cup slipped)'
    BY DEF NothingPasses
  <2>1. m \in R!Others
    BY <1>2, <1>4 DEF Passed
  <2>2. Passed(m) /\ m \in R!Others'
    BY <1>2, <1>3, <1>4, <2>1 DEF Passed
  <2>3. m \in R!unread \cup known \cup slipped
    BY <2>1, <2>2 DEF ReaderSound, NothingPasses
  <2>4. m \in R!unread => m \in R!unread'
    BY <1>0, <2>2 DEF R!unread
  <2> QED BY <1>0, <2>3, <2>4
<1> QED BY <1>5, <1>6, <1>7, <1>8 DEF ReaderSound

LEMMA StageFacts ==
    ASSUME ReaderTyped, NEW m \in R!Messages, NEW s \in Stages, stage' = [stage EXCEPT ![m] = s], UNCHANGED mine
    PROVE  /\ stage' \in Seq(Stages) /\ Len(stage') = Len(mine)
           /\ \A n \in R!Messages : stage'[n] = IF n = m THEN s ELSE stage[n]
           /\ R!Messages' = R!Messages /\ R!Others' = R!Others
<1>1. m \in 1..Len(stage) /\ R!Messages = 1..Len(stage)
  BY DEF R!Messages, ReaderTyped
<1> QED BY <1>1, ExceptSeq DEF R!Messages, R!Others, ReaderTyped

LEMMA SavedStep ==
    ASSUME ReaderSound, NEW m \in R!Messages, R!_sync_room_last_message(m)
    PROVE  ReaderSound'
<1>0. /\ stage[m] = "stored" /\ stage' = [stage EXCEPT ![m] = "saved"] /\ archived' = FALSE
      /\ miscounted' = (cached # R!NoCount /\ (miscounted \/ archived))
      /\ UNCHANGED <<mine, sawit, read, seen, cached, counting, marking, tab, registered, shown, known, slipped>>
  BY DEF R!_sync_room_last_message, R!screens
<1>1. /\ stage' \in Seq(Stages) /\ Len(stage') = Len(mine)
      /\ \A n \in R!Messages : stage'[n] = IF n = m THEN "saved" ELSE stage[n]
      /\ R!Messages' = R!Messages /\ R!Others' = R!Others /\ R!Others \subseteq R!Messages
  BY <1>0, StageFacts, MessageFacts DEF ReaderSound, Stages
<1>2. ReaderTyped' /\ ReadIsKnown' /\ R!NoGap'
  BY <1>0, <1>1 DEF ReaderSound, ReaderTyped, ReadIsKnown, R!NoGap, R!Nothing
<1>3. R!unread' = R!unread
  BY <1>0, <1>1 DEF R!unread
<1>4. NothingPasses'
  BY <1>0, <1>1, <1>3 DEF ReaderSound, NothingPasses, Passed
<1>5. CountFits'
  <2> SUFFICES ASSUME \A n \in R!Others : stage'[n] \in {"preferred", "done"}
               PROVE  Correct(cached, seen, read, archived)' \/ miscounted'
    BY <1>1 DEF CountFits
  <2>1. \A n \in R!Others : stage[n] \in {"preferred", "done"}
    BY <1>1
  <2>2. Correct(cached, seen, read, archived) \/ miscounted
    BY <2>1 DEF ReaderSound, CountFits
  <2>3. CASE cached = R!NoCount
    BY <1>0, <2>3 DEF Correct, R!NoCount
  <2>4. CASE cached # R!NoCount /\ (miscounted \/ archived)
    BY <1>0, <2>4
  <2>5. CASE ~miscounted /\ ~archived
    BY <1>0, <1>1, <2>2, <2>5 DEF Correct, R!Count, R!NoCount
  <2> QED BY <2>3, <2>4, <2>5
<1> QED BY <1>2, <1>4, <1>5 DEF ReaderSound

LEMMA ShownStep ==
    ASSUME ReaderSound, NEW m \in R!Messages, R!send_message(m)
    PROVE  ReaderSound'
<1>0. /\ stage[m] = "saved" /\ stage' = [stage EXCEPT ![m] = IF mine[m] THEN "done" ELSE "sent"]
      /\ shown' = [t \in Tabs |-> IF R!Present(t) THEN shown[t] \cup {m} ELSE shown[t]]
      /\ known' = known \cup (IF \E t \in Tabs : R!Present(t) THEN {m} ELSE {})
      /\ UNCHANGED <<mine, sawit, read, seen, cached, miscounted, archived, counting, marking, tab, registered, slipped>>
  BY DEF R!send_message, R!readState
<1>1. PICK s \in Stages : s = (IF mine[m] THEN "done" ELSE "sent") /\ stage' = [stage EXCEPT ![m] = s]
  BY <1>0 DEF Stages
<1>2. /\ stage' \in Seq(Stages) /\ Len(stage') = Len(mine)
      /\ \A n \in R!Messages : stage'[n] = IF n = m THEN s ELSE stage[n]
      /\ R!Messages' = R!Messages /\ R!Others' = R!Others /\ R!Others \subseteq R!Messages
  <2>1. ReaderTyped BY DEF ReaderSound
  <2>2. UNCHANGED mine BY <1>0
  <2>3. /\ stage' \in Seq(Stages) /\ Len(stage') = Len(mine)
        /\ \A n \in R!Messages : stage'[n] = IF n = m THEN s ELSE stage[n]
        /\ R!Messages' = R!Messages /\ R!Others' = R!Others
    BY <1>1, <2>1, <2>2, StageFacts
  <2>4. R!Others \subseteq R!Messages BY DEF R!Others
  <2> QED BY <2>3, <2>4
<1>3. \A n \in R!Others : stage'[n] = (IF n = m THEN "sent" ELSE stage[n])
  BY <1>1, <1>2 DEF R!Others
<1>4. ReaderTyped'
  <2>1. s \in {"sent", "cleared", "preferred"} => m \in R!Others
    BY <1>1 DEF R!Others
  <2>2. \A n \in R!Messages : stage'[n] \in {"sent", "cleared", "preferred"} => n \in R!Others
    BY <1>2, <2>1 DEF ReaderSound, ReaderTyped
  <2> QED BY <1>0, <1>2, <2>2 DEF ReaderSound, ReaderTyped, R!Nothing
<1>5. ReadIsKnown'
  BY <1>0 DEF ReaderSound, ReadIsKnown
<1>6. R!NoGap'
  BY <1>0, <1>2 DEF ReaderSound, R!NoGap, R!Present
<1>7. R!unread' = R!unread
  BY <1>0, <1>2 DEF R!unread
<1>8. NothingPasses'
  BY <1>0, <1>2, <1>3, <1>7 DEF ReaderSound, NothingPasses, Passed
<1>9. CountFits'
  BY <1>0, <1>2, <1>3 DEF ReaderSound, CountFits, Correct, R!Count, R!NoCount
<1> QED BY <1>4, <1>5, <1>6, <1>8, <1>9 DEF ReaderSound

LEMMA ClearedStep ==
    ASSUME ReaderSound, NEW m \in R!Others, R!Dispatch(m)
    PROVE  ReaderSound'
<1>0. /\ stage[m] = "sent" /\ stage' = [stage EXCEPT ![m] = "cleared"]
      /\ (read' = {} /\ seen' = FALSE) \/ UNCHANGED <<read, seen>>
      /\ UNCHANGED <<mine, sawit, cached, miscounted, archived, counting, marking, tab, registered, shown, known, slipped>>
  BY DEF R!Dispatch, R!_clear_unread_state, R!screens
<1>1. /\ stage' \in Seq(Stages) /\ Len(stage') = Len(mine) /\ m \in R!Messages
      /\ \A n \in R!Messages : stage'[n] = IF n = m THEN "cleared" ELSE stage[n]
      /\ R!Messages' = R!Messages /\ R!Others' = R!Others /\ R!Others \subseteq R!Messages
  BY <1>0, StageFacts, MessageFacts DEF ReaderSound, Stages
<1>2. ReaderTyped' /\ ReadIsKnown' /\ R!NoGap'
  BY <1>0, <1>1 DEF ReaderSound, ReaderTyped, ReadIsKnown, R!NoGap, R!Nothing
<1>3. R!unread \subseteq R!unread'
  BY <1>0, <1>1 DEF R!unread
<1>4. NothingPasses'
  BY <1>0, <1>1, <1>3 DEF ReaderSound, NothingPasses, Passed
<1>5. CountFits'
  BY <1>1 DEF CountFits
<1> QED BY <1>2, <1>4, <1>5 DEF ReaderSound

LEMMA PreferredStep ==
    ASSUME ReaderSound, NEW m \in R!Others, R!Prefer(m)
    PROVE  ReaderSound'
<1>0. /\ stage[m] = "cleared" /\ stage' = [stage EXCEPT ![m] = "preferred"]
      /\ sawit' = [sawit EXCEPT ![m] = seen \/ R!Others \subseteq read] /\ cached' = R!NoCount
      /\ UNCHANGED <<mine, read, seen, archived, counting, marking, tab, registered, shown, known, slipped>>
  BY DEF R!Prefer, R!Forget, R!screens
<1>1. /\ stage' \in Seq(Stages) /\ Len(stage') = Len(mine) /\ m \in R!Messages
      /\ \A n \in R!Messages : stage'[n] = IF n = m THEN "preferred" ELSE stage[n]
      /\ R!Messages' = R!Messages /\ R!Others' = R!Others /\ R!Others \subseteq R!Messages
  BY <1>0, StageFacts, MessageFacts DEF ReaderSound, Stages
<1>2. PICK w \in BOOLEAN : w = (seen \/ R!Others \subseteq read) /\ sawit' = [sawit EXCEPT ![m] = w]
  BY <1>0
<1>3. /\ sawit' \in Seq(BOOLEAN) /\ Len(sawit') = Len(mine)
      /\ \A n \in R!Messages : sawit'[n] = IF n = m THEN w ELSE sawit[n]
  <2>1. m \in 1..Len(sawit) /\ R!Messages = 1..Len(sawit) /\ sawit \in Seq(BOOLEAN) /\ Len(sawit) = Len(mine)
    BY <1>1 DEF R!Messages, ReaderSound, ReaderTyped
  <2> QED BY <1>2, <2>1, ExceptSeq
<1>4. ReaderTyped' /\ ReadIsKnown'
  BY <1>0, <1>1, <1>3 DEF ReaderSound, ReaderTyped, ReadIsKnown, R!Nothing
<1>5. R!NoGap'
  BY <1>0, <1>1 DEF ReaderSound, R!NoGap
<1>6. CountFits'
  BY <1>0 DEF CountFits, Correct, R!NoCount
<1>7. NothingPasses'
  <2> SUFFICES ASSUME NEW n \in R!Others, Passed(n)' PROVE n \in R!unread \cup known \cup slipped
    BY <1>0, <1>1 DEF NothingPasses, R!unread
  <2>1. CASE n # m
    BY <1>1, <1>3, <2>1 DEF ReaderSound, NothingPasses, Passed
  <2>2. CASE n = m
    <3>1. w = FALSE
      BY <1>1, <1>3, <2>2 DEF Passed
    <3> QED BY <1>2, <2>2, <3>1 DEF R!unread, ReaderSound, ReadIsKnown
  <2> QED BY <2>1, <2>2
<1> QED BY <1>4, <1>5, <1>6, <1>7 DEF ReaderSound

LEMMA ToldStep ==
    ASSUME ReaderSound, NEW m \in R!Others, R!Tell(m)
    PROVE  ReaderSound'
<1> DEFINE lost == sawit[m] /\ (registered = None \/ tab[registered] = "joining")
           away == sawit[m] /\ registered # None /\ ~R!Present(registered)
<1>0. /\ stage[m] = "preferred" /\ stage' = [stage EXCEPT ![m] = "done"]
      /\ IF away THEN read' = {} /\ seen' = FALSE /\ cached' = R!NoCount
                 ELSE UNCHANGED <<read, seen, cached, miscounted>>
      /\ slipped' = slipped \cup (IF lost THEN {m} ELSE {})
      /\ UNCHANGED <<mine, sawit, archived, counting, marking, tab, registered, shown, known>>
  BY DEF R!Tell, R!mark_room_unread_for_user, R!Forget, R!readState, R!screens
<1>1. /\ stage' \in Seq(Stages) /\ Len(stage') = Len(mine) /\ m \in R!Messages
      /\ \A n \in R!Messages : stage'[n] = IF n = m THEN "done" ELSE stage[n]
      /\ R!Messages' = R!Messages /\ R!Others' = R!Others /\ R!Others \subseteq R!Messages
  BY <1>0, StageFacts, MessageFacts DEF ReaderSound, Stages
<1>2. ReaderTyped' /\ ReadIsKnown' /\ R!NoGap'
  BY <1>0, <1>1 DEF ReaderSound, ReaderTyped, ReadIsKnown, R!NoGap, R!Nothing
<1>3. CountFits'
  <2>1. CASE away
    BY <1>0, <2>1 DEF CountFits, Correct, R!NoCount
  <2>2. CASE ~away
    BY <1>0, <1>1, <2>2 DEF ReaderSound, CountFits, Correct, R!Count, R!NoCount
  <2> QED BY <2>1, <2>2
<1>4. R!unread \subseteq R!unread' /\ (away => R!unread' = R!Others)
  BY <1>0, <1>1 DEF R!unread
<1>5. NothingPasses'
  <2> SUFFICES ASSUME NEW n \in R!Others, Passed(n)' PROVE n \in R!unread' \cup known \cup slipped'
    BY <1>0, <1>1 DEF NothingPasses
  <2>1. CASE n # m
    <3>1. n \in R!unread \cup known \cup slipped
      BY <1>0, <1>1, <2>1 DEF ReaderSound, NothingPasses, Passed
    <3> QED BY <1>0, <1>4, <3>1
  <2>2. CASE n = m
    <3>1. sawit[m] \in BOOLEAN
      BY MessageFacts DEF ReaderSound
    <3>2. CASE sawit[m] = FALSE
      <4>1. n \in R!unread \cup known \cup slipped
        BY <1>0, <2>2, <3>2 DEF ReaderSound, NothingPasses, Passed
      <4> QED BY <1>0, <1>4, <4>1
    <3>3. CASE lost \/ away
      BY <1>0, <1>4, <2>2, <3>3
    <3>4. CASE sawit[m] = TRUE /\ ~lost /\ ~away
      <4>1. registered \in Tabs /\ tab[registered] = "here"
        BY <3>4 DEF ReaderSound, ReaderTyped, R!Present
      <4>2. m \in shown[registered]
        BY <1>0, <1>1, <4>1 DEF ReaderSound, R!NoGap
      <4> QED BY <2>2, <4>1, <4>2 DEF ReaderSound, ReadIsKnown
    <3> QED BY <3>1, <3>2, <3>3, <3>4
  <2> QED BY <2>1, <2>2
<1> QED BY <1>2, <1>3, <1>5 DEF ReaderSound

(* Reading: the messages and what is on the screens stay as they are.      *)
LEMMA ReadStep ==
    ASSUME ReaderSound, UNCHANGED <<mine, stage, sawit, tab, registered, shown>>,
           read' \subseteq R!Others, seen' \in BOOLEAN, read' \subseteq known',
           known' = known \/ known' = known \cup marking \/ known' = known \cup R!Messages, known' \subseteq R!Messages,
           slipped' = slipped \/ slipped' = slipped \cup (R!Others \ marking),
           marking' # R!Nothing => marking' \subseteq R!Others,
           CountFits',
           \A m \in R!unread : m \in R!unread' \cup known' \cup slipped'
    PROVE  ReaderSound'
<1>1. R!Messages' = R!Messages /\ R!Others' = R!Others /\ known \subseteq known' /\ slipped \subseteq slipped'
  BY DEF R!Messages, R!Others
<1>2. ReaderTyped'
  BY <1>1 DEF ReaderSound, ReaderTyped, R!Nothing
<1>3. ReadIsKnown' /\ R!NoGap'
  BY <1>1 DEF ReaderSound, ReadIsKnown, R!NoGap
<1>4. NothingPasses'
  BY <1>1 DEF ReaderSound, NothingPasses, Passed
<1> QED BY <1>2, <1>3, <1>4 DEF ReaderSound

LEMMA ForgotFits == ASSUME cached' = R!NoCount PROVE CountFits'
  BY DEF CountFits, Correct, R!NoCount

LEMMA MarkingStep ==
    ASSUME ReaderSound, R!ListRoom \/ R!mark_room_read_for_user
    PROVE  ReaderSound'
<1>1. CASE R!ListRoom
  <2>1. /\ marking' = R!Others
        /\ UNCHANGED <<mine, stage, sawit, read, seen, cached, miscounted, archived, counting, tab, registered, shown, known, slipped>>
    BY <1>1 DEF R!ListRoom, R!sending, R!readState, R!screens
  <2>2. CountFits' /\ R!unread' = R!unread
    BY <2>1 DEF ReaderSound, CountFits, Correct, R!Count, R!NoCount, R!Others, R!Messages, R!unread
  <2> QED BY <2>1, <2>2, ReadStep DEF ReaderSound, ReaderTyped, ReadIsKnown
<1>2. CASE R!mark_room_read_for_user
  <2>1. /\ marking # R!Nothing /\ marking' = R!Nothing
        /\ read' = read \cup marking /\ seen' = TRUE /\ cached' = R!NoCount
        /\ known' = known \cup marking
        /\ slipped' = slipped \cup (R!Others \ marking)
        /\ UNCHANGED <<mine, stage, sawit, tab, registered, shown>>
    BY <1>2 DEF R!mark_room_read_for_user, R!sending, R!screens, R!Forget
  <2>2. marking \subseteq R!Others /\ R!Others \subseteq R!Messages
    BY <2>1, MessageFacts DEF ReaderSound, ReaderTyped
  <2>3. \A m \in R!Others : m \in known' \cup slipped'
    BY <2>1
  <2>4. R!unread \subseteq R!Others
    BY DEF R!unread
  <2> QED BY <2>1, <2>2, <2>3, <2>4, ForgotFits, ReadStep DEF ReaderSound, ReaderTyped, ReadIsKnown, R!Nothing
<1> QED BY <1>1, <1>2

LEMMA MarkedStep ==
    ASSUME ReaderSound,
           \/ \E m \in R!Messages : R!mark_message_read_for_user(m) \/ R!mark_message_unread_for_user(m)
           \/ \E t \in Tabs : R!mark_messages_read_bulk(t)
           \/ R!unsee_room
    PROVE  ReaderSound'
<1>0. R!Others \subseteq R!Messages /\ R!unread \subseteq R!Others
  BY MessageFacts DEF ReaderSound, R!unread
<1>1. CASE \E m \in R!Messages : R!mark_message_read_for_user(m)
  <2>1. PICK m \in R!Others :
           /\ read' = read \cup {m} /\ seen' = TRUE /\ cached' = R!NoCount /\ known' = known \cup R!Messages
           /\ UNCHANGED <<mine, stage, sawit, marking, tab, registered, shown, slipped>>
    BY <1>1 DEF R!mark_message_read_for_user, R!sending, R!screens, R!Forget
  <2>2. CountFits'
    BY <2>1, ForgotFits
  <2> QED BY <1>0, <2>1, <2>2, ReadStep DEF ReaderSound, ReaderTyped, ReadIsKnown, R!Nothing
<1>2. CASE \E m \in R!Messages : R!mark_message_unread_for_user(m)
  <2>1. PICK m \in R!Others :
           /\ read' = read \ {m} /\ seen' = FALSE /\ cached' = R!NoCount /\ UNCHANGED known
           /\ UNCHANGED <<mine, stage, sawit, marking, tab, registered, shown, slipped>>
    BY <1>2 DEF R!mark_message_unread_for_user, R!sending, R!screens, R!Forget
  <2>2. CountFits'
    BY <2>1, ForgotFits
  <2>3. R!unread \subseteq R!unread'
    BY <2>1 DEF R!unread, R!Others, R!Messages
  <2> QED BY <2>1, <2>2, <2>3, ReadStep DEF ReaderSound, ReaderTyped, ReadIsKnown, R!Nothing
<1>3. CASE \E t \in Tabs : R!mark_messages_read_bulk(t)
  <2>1. PICK t \in Tabs :
           /\ read' = read \cup (shown[t] \cap R!Others) /\ cached' = R!NoCount
           /\ UNCHANGED <<mine, stage, sawit, seen, marking, tab, registered, shown, known, slipped>>
    BY <1>3 DEF R!mark_messages_read_bulk, R!sending, R!screens, R!Forget
  <2>2. CountFits'
    BY <2>1, ForgotFits
  <2>3. shown[t] \subseteq known
    BY DEF ReaderSound, ReadIsKnown
  <2>4. \A m \in R!unread : m \in R!unread' \cup known
    BY <2>1, <2>3 DEF R!unread, R!Others, R!Messages
  <2> QED BY <2>1, <2>2, <2>3, <2>4, ReadStep DEF ReaderSound, ReaderTyped, ReadIsKnown, R!Nothing
<1>4. CASE R!unsee_room
  <2>1. /\ read' = {} /\ seen' = FALSE /\ cached' = R!NoCount
        /\ UNCHANGED <<mine, stage, sawit, marking, tab, registered, shown, known, slipped>>
    BY <1>4 DEF R!unsee_room, R!mark_room_unread_for_user, R!sending, R!screens, R!Forget
  <2>2. CountFits'
    BY <2>1, ForgotFits
  <2>3. R!unread \subseteq R!unread'
    BY <2>1 DEF R!unread, R!Others, R!Messages
  <2> QED BY <2>1, <2>2, <2>3, ReadStep DEF ReaderSound, ReaderTyped, ReadIsKnown, R!Nothing
<1> QED BY <1>1, <1>2, <1>3, <1>4

LEMMA CountStep ==
    ASSUME ReaderSound, R!CountUnread \/ R!get_unread_count_for_user \/ R!Expire \/ R!Archive
    PROVE  ReaderSound'
<1>0. UNCHANGED <<mine, stage, sawit, read, seen, marking, tab, registered, shown, known, slipped>>
  BY DEF R!CountUnread, R!get_unread_count_for_user, R!Expire, R!Archive, R!Forget, R!sending, R!readState, R!screens
<1>1. R!Messages' = R!Messages /\ R!Others' = R!Others /\ R!unread' = R!unread
  BY <1>0 DEF R!Messages, R!Others, R!unread
<1>2. CountFits'
  <2>1. CASE R!CountUnread
    <3>1. UNCHANGED <<cached, miscounted, archived>>
      BY <2>1 DEF R!CountUnread, R!readState
    <3> QED BY <1>0, <1>1, <3>1 DEF ReaderSound, CountFits, Correct, R!Count, R!NoCount
  <2>2. CASE R!get_unread_count_for_user
    <3>1. /\ cached' = counting /\ miscounted' = (counting # R!Count(seen, read, archived)) /\ archived' = archived
      BY <2>2 DEF R!get_unread_count_for_user
    <3>2. R!Count(seen, read, archived)' = R!Count(seen, read, archived)
      BY <1>0, <1>1, <3>1 DEF R!Count
    <3> QED BY <3>1, <3>2 DEF CountFits, Correct
  <2>3. CASE R!Expire
    BY <2>3, ForgotFits DEF R!Expire, R!Forget
  <2>4. CASE R!Archive
    BY <2>4 DEF R!Archive, CountFits, Correct, R!NoCount
  <2> QED BY <2>1, <2>2, <2>3, <2>4
<1> QED BY <1>0, <1>1, <1>2, ReadStep DEF ReaderSound, ReaderTyped, ReadIsKnown

LEMMA ReaderStep == ASSUME None \notin Tabs, ReaderSound, [R!Next]_(R!vars) PROVE ReaderSound'
<1>1. CASE UNCHANGED R!vars
  BY <1>1 DEF R!vars, R!sending, R!readState, R!screens, ReaderSound, ReaderTyped, ReadIsKnown, R!NoGap, CountFits,
       NothingPasses, Passed, Correct, R!Count, R!NoCount, R!Nothing, R!Others, R!Messages, R!unread
<1>2. CASE R!Begin
  BY <1>2, ScreenStep, MarkedStep, MarkingStep, CountStep DEF R!Begin
<1>3. CASE R!GoOn
  <2>1. \A m \in R!Messages : R!Dispatch(m) \/ R!Prefer(m) \/ R!Tell(m) => m \in R!Others
    BY DEF ReaderSound, ReaderTyped, R!Dispatch, R!Prefer, R!Tell
  <2> QED BY <1>3, <2>1, ScreenStep, StoringStep, SavedStep, ShownStep, ClearedStep, PreferredStep, ToldStep,
        MarkingStep, CountStep DEF R!GoOn
<1> QED BY <1>1, <1>2, <1>3 DEF R!Next

(* A message of somebody else that has been dispatched is unread, unless   *)
(* the reader had it on a screen or has marked it since, or it came in one *)
(* of the moments that lose the mark; a tab in the room shows what was     *)
(* sent to it; the cached number of unread rooms is right when no message  *)
(* is under way, or was wrong when it was put there.                       *)
THEOREM ChatInvariantHolds ==
    ASSUME None \notin Tabs
    PROVE  ChatSpec => []ChatInvariant
<1>1. ChatInit => ReaderSound
  BY ReaderInit DEF ChatInit
<1>2. ReaderSound /\ [ChatNext]_all => ReaderSound'
  <2> SUFFICES ASSUME ReaderSound, [ChatNext]_all PROVE ReaderSound'
    OBVIOUS
  <2>1. R!Next \/ UNCHANGED R!vars
    BY DEF ChatNext, QueueNext, RoomNext, DirectNext, ScreenNext, MessageNext, PushNext, FederationNext,
           all, reading, R!vars, R!sending, R!readState, R!screens
  <2> QED BY <2>1, ReaderStep
<1>3. ReaderSound => ChatInvariant
  <2> SUFFICES ASSUME ReaderSound PROVE ChatInvariant
    OBVIOUS
  <2>1. R!TypeOK
    BY DEF R!TypeOK, ReaderSound, ReaderTyped
  <2>2. R!CountIsRight
    BY MessageFacts DEF R!CountIsRight, ReaderSound, CountFits, Correct
  <2>3. R!NothingIsMissed
    BY DEF R!NothingIsMissed, ReaderSound, NothingPasses, Passed
  <2> QED BY <2>1, <2>2, <2>3 DEF ReaderSound, ChatInvariant, R!ChatInvariant
<1> QED BY <1>1, <1>2, <1>3, PTL DEF ChatSpec

-----------------------------------------------------------------------------
(* One browser                                                             *)

Counts == [logins : Nat, pages : Nat, pushes : Nat, choices : Nat, faults : Nat]
BudgetsAreCounts == Budgets \subseteq Counts

DeviceRows == [key : 1..newest, user : Users, active : BOOLEAN]
PageCalls ==
  [n : Nat, user : Users, keys : SUBSET Nat, alone : BOOLEAN,
   does : {"look", "debounce", "clear", "get", "create", "save", "dedupe", "remember", "list", "deactivate"}]

DevicesTyped ==
  /\ newest \in Nat /\ devices \subseteq DeviceRows /\ IsFiniteSet(devices)
  /\ calls \subseteq PageCalls /\ owner \subseteq Users
  /\ muddled \in BOOLEAN /\ revived \in BOOLEAN

SendingTyped ==
  /\ session \in Users \cup {None} /\ left \in Counts
  /\ pref \in [Users -> {"on", "off", "unsubscribed"}]
  /\ sending \subseteq [kind : {"one", "all"}, at : {"check", "count", "send"}, to : SUBSET Users, out : SUBSET Users]
  /\ pushed \subseteq [for : Users, out : BOOLEAN, stray : BOOLEAN]

(* A key is of one member for good, also when a request brings it back.    *)
Claims(k, u) == (\E r \in devices : r.key = k /\ r.user = u) \/ (\E e \in calls : k \in e.keys /\ e.user = u)
KeysOwned ==
  /\ \A k, u : Claims(k, u) => k \in 1..newest
  /\ \A k, u, v : Claims(k, u) /\ Claims(k, v) => u = v
  /\ \A r, q \in devices : r.key = q.key => r = q
  /\ \A e \in calls : e.does \in {"save", "dedupe", "remember"} => \E k : e.keys = {k}

(* Whoever has two rows has a request that will remove all but one.        *)
AtMostOne(u) == \A r, q \in P!Of(u) : r = q
DedupeComes == revived \/ \A u \in Users : AtMostOne(u) \/ \E e \in calls : e.user = u /\ e.does = "dedupe"

Alone == \A e \in calls : IF e.alone THEN calls = {e} ELSE muddled

Settled == {r.user : r \in P!Active} = owner /\ \A u \in Users : AtMostOne(u)

(* What a request finds that no other overlaps with.                       *)
Fits(e) ==
  /\ e.does = "get" => devices = P!Of(e.user) /\ (muddled \/ AtMostOne(e.user))
  /\ e.does = "create" => devices = {}
  /\ e.does = "save" => \A k \in e.keys : \E x \in BOOLEAN : devices = {[key |-> k, user |-> e.user, active |-> x]}
  /\ e.does \in {"dedupe", "remember"} => \A k \in e.keys : devices = {[key |-> k, user |-> e.user, active |-> TRUE]}
  /\ ~muddled /\ e.does \in {"look", "debounce", "clear", "list"} => Settled
  /\ ~muddled /\ e.does = "deactivate" =>
       /\ {r.user : r \in P!Active} \ {e.user} = owner \ {e.user}
       /\ \A r \in P!Active : r.user = e.user => r.key \in e.keys
       /\ \A k \in e.keys : \E r \in devices : r.key = k
       /\ \A u \in Users : AtMostOne(u)

AloneFits == (\A e \in calls : e.alone => Fits(e)) /\ (calls = {} /\ ~muddled => Settled)

DevicesSound ==
  /\ DevicesTyped /\ KeysOwned /\ DedupeComes /\ Alone /\ AloneFits
  /\ \A u, v \in owner : u = v
  /\ ~revived => ~failed

(* A push to one has lost whoever unsubscribed before it began; a push to  *)
(* all asks when it is sent.                                               *)
PushesFit ==
  /\ SendingTyped
  /\ \A j \in sending : \A u \in j.out : pref[u] = "unsubscribed"
  /\ \A j \in sending : j.kind = "one" => j.at = "check" \/ j.to \cap j.out = {}
  /\ \A w \in pushed : w.out = FALSE /\ (w.stray = FALSE => w.for = session)

PushSound == DevicesSound /\ PushesFit

LEMMA PushInit == ASSUME BudgetsAreCounts, P!Init PROVE PushSound
<1>1. /\ session = None /\ devices = {} /\ newest = 0 /\ calls = {}
      /\ pref = [u \in Users |-> "on"] /\ sending = {} /\ pushed = {}
      /\ owner = {} /\ muddled = FALSE /\ failed = FALSE /\ revived = FALSE /\ left \in Counts
  BY DEF P!Init, BudgetsAreCounts
<1>2. P!Active = {} /\ \A u : P!Of(u) = {}
  BY <1>1 DEF P!Active, P!Of
<1>3. DevicesTyped
  BY <1>1, FS_EmptySet DEF DevicesTyped
<1>4. KeysOwned /\ DedupeComes /\ Alone
  BY <1>1, <1>2 DEF KeysOwned, Claims, DedupeComes, AtMostOne, Alone
<1>5. AloneFits
  BY <1>1, <1>2 DEF AloneFits, Settled, AtMostOne
<1>6. PushesFit
  BY <1>1 DEF PushesFit, SendingTyped
<1> QED BY <1>1, <1>3, <1>4, <1>5, <1>6 DEF PushSound, DevicesSound

LEMMA DevicesKept ==
    ASSUME DevicesSound, UNCHANGED <<devices, newest, calls, owner, muddled, failed, revived>>
    PROVE  DevicesSound'
BY DEF DevicesSound, DevicesTyped, DeviceRows, PageCalls, KeysOwned, Claims, DedupeComes, Alone, AloneFits,
       Fits, Settled, AtMostOne, P!Of, P!Active

LEMMA SpendFacts ==
    ASSUME left \in Counts, NEW what \in {"logins", "pages", "pushes", "choices", "faults"}, P!Spend(what)
    PROVE  left' \in Counts
<1>1. left[what] > 0 /\ left' = [left EXCEPT ![what] = @ - 1]
  BY DEF P!Spend
<1> QED BY <1>1 DEF Counts

(* The messages                                                            *)
LEMMA ReachedIsSession ==
    ASSUME DevicesSound, ~muddled, calls = {}, session \in owner, NEW u, \E r \in P!Of(u) : r.active
    PROVE  u = session
<1>1. u \in {r.user : r \in P!Active}
  BY DEF P!Of, P!Active
<1> QED BY <1>1 DEF DevicesSound, AloneFits, Settled

LEMMA MessageStep ==
    ASSUME PushSound, P!Login \/ P!Choose \/ P!Notify \/ P!Arrive
    PROVE  PushSound'
<1>0. UNCHANGED <<devices, newest, calls, owner, muddled, failed, revived>>
  BY DEF P!Login, P!Choose, P!Notify, P!Arrive, P!server
<1>1. DevicesSound'
  BY <1>0, DevicesKept DEF PushSound
<1>2. CASE P!Login
  <2>1. PICK u \in Users \cup {None} : /\ session' = u /\ UNCHANGED <<pref, sending>>
                                       /\ pushed' = {[w EXCEPT !.stray = TRUE] : w \in pushed}
    BY <1>2 DEF P!Login
  <2>2. left' \in Counts
    BY <1>2, SpendFacts DEF P!Login, PushSound, PushesFit, SendingTyped
  <2>3. \A w \in pushed' : w \in [for : Users, out : BOOLEAN, stray : BOOLEAN] /\ w.out = FALSE /\ w.stray = TRUE
    BY <2>1 DEF PushSound, PushesFit, SendingTyped
  <2>4. PushesFit'
    BY <2>1, <2>2, <2>3 DEF PushSound, PushesFit, SendingTyped
  <2> QED BY <1>1, <2>4 DEF PushSound
<1>3. CASE P!Choose
  <2>1. PICK u \in Users, x \in {"on", "off", "unsubscribed"} :
          /\ pref' = [pref EXCEPT ![u] = x] /\ UNCHANGED <<session, pushed>>
          /\ sending' = IF x = "unsubscribed" THEN sending ELSE {[j EXCEPT !.out = @ \ {u}] : j \in sending}
    BY <1>3 DEF P!Choose
  <2>2. left' \in Counts
    BY <1>3, SpendFacts DEF P!Choose, PushSound, PushesFit, SendingTyped
  <2>3. ASSUME NEW j \in sending'
        PROVE  /\ j \in [kind : {"one", "all"}, at : {"check", "count", "send"}, to : SUBSET Users, out : SUBSET Users]
               /\ \A v \in j.out : pref'[v] = "unsubscribed"
               /\ j.kind = "one" => j.at = "check" \/ j.to \cap j.out = {}
    <3>1. CASE x = "unsubscribed"
      BY <2>1, <2>3, <3>1 DEF PushSound, PushesFit, SendingTyped
    <3>2. CASE x # "unsubscribed"
      <4>1. PICK i \in sending : j = [i EXCEPT !.out = @ \ {u}]
        BY <2>1, <2>3, <3>2
      <4> QED BY <2>1, <4>1 DEF PushSound, PushesFit, SendingTyped
    <3> QED BY <3>1, <3>2
  <2>4. PushesFit'
    BY <2>1, <2>2, <2>3 DEF PushSound, PushesFit, SendingTyped
  <2> QED BY <1>1, <2>4 DEF PushSound
<1>4. CASE P!Notify
  <2>1. PICK k \in {"one", "all"}, S \in SUBSET Users :
          /\ sending' = sending \cup {[kind |-> k, at |-> "check", to |-> S, out |-> {}]}
          /\ UNCHANGED <<session, pref, pushed>>
    <3>1. \A u \in Users : {u} \in SUBSET Users
      OBVIOUS
    <3> QED BY <1>4, <3>1 DEF P!Notify
  <2>2. left' \in Counts
    BY <1>4, SpendFacts DEF P!Notify, PushSound, PushesFit, SendingTyped
  <2>3. PushesFit'
    BY <2>1, <2>2 DEF PushSound, PushesFit, SendingTyped
  <2> QED BY <1>1, <2>3 DEF PushSound
<1>5. CASE P!Arrive
  <2>1. pushed' \subseteq pushed /\ UNCHANGED <<session, pref, sending, left>>
    BY <1>5 DEF P!Arrive
  <2>2. PushesFit'
    BY <2>1 DEF PushSound, PushesFit, SendingTyped
  <2> QED BY <1>1, <2>2 DEF PushSound
<1> QED BY <1>2, <1>3, <1>4, <1>5

LEMMA ContinueFacts ==
    ASSUME PushesFit, NEW j \in sending, NEW at \in {"check", "count", "send"}, NEW to \in SUBSET j.to,
           j.at = "check" /\ j.kind = "one" => \A u \in to : pref[u] # "unsubscribed",
           P!Continue(j, at, to)
    PROVE  \A i \in sending' :
             /\ i \in [kind : {"one", "all"}, at : {"check", "count", "send"}, to : SUBSET Users, out : SUBSET Users]
             /\ \A u \in i.out : pref[u] = "unsubscribed"
             /\ i.kind = "one" => i.at = "check" \/ i.to \cap i.out = {}
<1>1. /\ j \in [kind : {"one", "all"}, at : {"check", "count", "send"}, to : SUBSET Users, out : SUBSET Users]
      /\ \A u \in j.out : pref[u] = "unsubscribed"
      /\ j.kind = "one" => j.at = "check" \/ j.to \cap j.out = {}
  BY DEF PushesFit, SendingTyped
<1> DEFINE out == IF j.at = "check" \/ j.kind = "all" THEN {u \in Users : P!notifications_unsubscribed(u)} ELSE j.out
           i == [j EXCEPT !.at = at, !.to = to, !.out = out]
<1>2. sending' = (sending \ {j}) \cup (IF to = {} THEN {} ELSE {i})
  BY <1>1 DEF P!Continue
<1>3. out \in SUBSET Users /\ \A u \in out : pref[u] = "unsubscribed"
  BY <1>1 DEF P!notifications_unsubscribed
<1>4. j.kind = "one" => to \cap out = {}
  BY <1>1, <1>3
<1>5. i.kind = j.kind /\ i.at = at /\ i.to = to /\ i.out = out
      /\ i \in [kind : {"one", "all"}, at : {"check", "count", "send"}, to : SUBSET Users, out : SUBSET Users]
  BY <1>1, <1>3
<1> HIDE DEF i, out
<1> QED BY <1>2, <1>3, <1>4, <1>5 DEF PushesFit, SendingTyped

LEMMA FaultStep ==
    ASSUME DevicesSound, devices' = {[r EXCEPT !.active = FALSE] : r \in devices}, owner' = {},
           calls' = {[e EXCEPT !.alone = FALSE] : e \in calls}, muddled' = (muddled \/ calls # {}),
           UNCHANGED <<newest, failed, revived>>
    PROVE  DevicesSound'
<1>1. \A r \in devices : r \in DeviceRows
  BY DEF DevicesSound, DevicesTyped
<1>2. ASSUME NEW r \in devices'
      PROVE  r \in DeviceRows' /\ ~r.active /\ \E q \in devices : r.key = q.key /\ r.user = q.user /\ r = [q EXCEPT !.active = FALSE]
  BY <1>1 DEF DeviceRows
<1>3. ASSUME NEW e \in calls'
      PROVE  e \in PageCalls /\ ~e.alone /\ \E f \in calls : e.keys = f.keys /\ e.user = f.user /\ e.does = f.does
  BY DEF DevicesSound, DevicesTyped, PageCalls
<1>4. ASSUME NEW f \in calls PROVE \E e \in calls' : e.keys = f.keys /\ e.user = f.user /\ e.does = f.does
  <2>1. [f EXCEPT !.alone = FALSE] \in calls'
    OBVIOUS
  <2> QED BY <2>1 DEF DevicesSound, DevicesTyped, PageCalls
<1>5. calls # {} => muddled' = TRUE
  OBVIOUS
<1>6. IsFiniteSet(devices')
  <2> DEFINE f == [r \in devices |-> [r EXCEPT !.active = FALSE]]
  <2>1. f \in Surjection(devices, devices')
    BY DEF Surjection
  <2> HIDE DEF f
  <2> QED BY <2>1, FS_Surjection DEF DevicesSound, DevicesTyped
<1>7. DevicesTyped'
  BY <1>2, <1>3, <1>6 DEF DevicesSound, DevicesTyped
<1>8. KeysOwned'
  <2>1. \A k, u : Claims(k, u)' => Claims(k, u)
    <3>1. ASSUME NEW k, NEW u, Claims(k, u)' PROVE Claims(k, u)
      <4>1. CASE \E r \in devices' : r.key = k /\ r.user = u
        BY <1>2, <4>1 DEF Claims
      <4>2. CASE \E e \in calls' : k \in e.keys /\ e.user = u
        BY <1>3, <4>2 DEF Claims
      <4> QED BY <3>1, <4>1, <4>2 DEF Claims
    <3> QED BY <3>1
  <2>2. ASSUME NEW r \in devices', NEW q \in devices', r.key = q.key PROVE r = q
    <3>1. PICK r1 \in devices : r.key = r1.key /\ r = [r1 EXCEPT !.active = FALSE]
      BY <1>2
    <3>2. PICK q1 \in devices : q.key = q1.key /\ q = [q1 EXCEPT !.active = FALSE]
      BY <1>2
    <3>3. r1 = q1
      BY <2>2, <3>1, <3>2 DEF DevicesSound, KeysOwned
    <3> QED BY <3>1, <3>2, <3>3
  <2>3. ASSUME NEW e \in calls', e.does \in {"save", "dedupe", "remember"} PROVE \E k : e.keys = {k}
    <3>1. PICK f \in calls : e.keys = f.keys /\ e.does = f.does
      BY <1>3
    <3> QED BY <2>3, <3>1 DEF DevicesSound, KeysOwned
  <2>4. /\ \A k, u : Claims(k, u)' => k \in 1..newest'
        /\ \A k, u, v : Claims(k, u)' /\ Claims(k, v)' => u = v
    BY <2>1 DEF DevicesSound, KeysOwned
  <2> QED BY <2>2, <2>3, <2>4 DEF KeysOwned
<1>9. ASSUME NEW u \in Users, AtMostOne(u) PROVE AtMostOne(u)'
  <2> SUFFICES ASSUME NEW r \in devices', NEW q \in devices', r.user = u, q.user = u PROVE r = q
    BY DEF AtMostOne, P!Of
  <2>1. PICK r1 \in devices : r.user = r1.user /\ r = [r1 EXCEPT !.active = FALSE]
    BY <1>2
  <2>2. PICK q1 \in devices : q.user = q1.user /\ q = [q1 EXCEPT !.active = FALSE]
    BY <1>2
  <2>3. r1 = q1
    BY <1>9, <2>1, <2>2 DEF AtMostOne, P!Of
  <2> QED BY <2>1, <2>2, <2>3
<1>10. DedupeComes'
  <2>1. ASSUME NEW u \in Users, revived = FALSE PROVE AtMostOne(u)' \/ \E e \in calls' : e.user = u /\ e.does = "dedupe"
    <3>1. AtMostOne(u) \/ \E f \in calls : f.user = u /\ f.does = "dedupe"
      BY <2>1 DEF DevicesSound, DedupeComes
    <3>2. (\E f \in calls : f.user = u /\ f.does = "dedupe") => \E e \in calls' : e.user = u /\ e.does = "dedupe"
      BY <1>4
    <3> QED BY <1>9, <3>1, <3>2
  <2> QED BY <2>1 DEF DedupeComes, DevicesSound, DevicesTyped
<1>11. Alone'
  BY <1>3, <1>5 DEF Alone
<1>12. P!Active' = {}
  BY <1>2 DEF P!Active
<1>13. ASSUME calls' = {}, ~muddled' PROVE Settled'
  <2>1. calls = {} /\ ~muddled
    BY <1>4, <1>13
  <2> QED BY <1>9, <1>12, <2>1 DEF DevicesSound, AloneFits, Settled
<1>14. AloneFits'
  BY <1>3, <1>13 DEF AloneFits
<1> QED BY <1>7, <1>8, <1>10, <1>11, <1>14 DEF DevicesSound

LEMMA SendStep == ASSUME PushSound, P!Send PROVE PushSound'
<1>1. PICK j \in sending : P!send_fcm(j) /\ UNCHANGED <<session, newest, debounced, failed, revived, pref>>
  BY DEF P!Send
<1>2. j \in [kind : {"one", "all"}, at : {"check", "count", "send"}, to : SUBSET Users, out : SUBSET Users]
  BY DEF PushSound, PushesFit, SendingTyped
<1>7. /\ \A u \in j.out : pref[u] = "unsubscribed"
      /\ j.kind = "one" => j.at = "check" \/ j.to \cap j.out = {}
  BY DEF PushSound, PushesFit
<1>3. CASE j.at = "check" /\ P!Continue(j, "count", j.to \cap P!_push_user_ids)
           /\ UNCHANGED <<devices, owner, muddled, calls, pushed, left>>
  <2>1. \A u \in j.to \cap P!_push_user_ids : pref[u] # "unsubscribed"
    BY DEF P!_push_user_ids, P!_push_enabled_for_user
  <2>2. \A i \in sending' :
             /\ i \in [kind : {"one", "all"}, at : {"check", "count", "send"}, to : SUBSET Users, out : SUBSET Users]
             /\ \A u \in i.out : pref[u] = "unsubscribed"
             /\ i.kind = "one" => i.at = "check" \/ i.to \cap i.out = {}
    BY <1>3, <2>1, ContinueFacts DEF PushSound
  <2>3. PushesFit'
    BY <1>1, <1>3, <2>2 DEF PushSound, PushesFit, SendingTyped
  <2> QED BY <1>1, <1>3, <2>3, DevicesKept DEF PushSound
<1>4. CASE j.at = "count" /\ P!Continue(j, "send", IF \E u \in j.to : P!Reachable(j, u) THEN j.to ELSE {})
           /\ UNCHANGED <<devices, owner, muddled, calls, pushed, left>>
  <2>1. \A i \in sending' :
             /\ i \in [kind : {"one", "all"}, at : {"check", "count", "send"}, to : SUBSET Users, out : SUBSET Users]
             /\ \A u \in i.out : pref[u] = "unsubscribed"
             /\ i.kind = "one" => i.at = "check" \/ i.to \cap i.out = {}
    BY <1>4, ContinueFacts DEF PushSound
  <2>2. PushesFit'
    BY <1>1, <1>4, <2>1 DEF PushSound, PushesFit, SendingTyped
  <2> QED BY <1>1, <1>4, <2>2, DevicesKept DEF PushSound
<1>5. CASE /\ j.at = "send" /\ sending' = sending \ {j}
           /\ pushed' = pushed \cup {[for |-> u, out |-> u \in j.out,
                                      stray |-> muddled \/ calls # {} \/ session \notin owner] :
                                        u \in {v \in j.to : P!Reachable(j, v)}}
           /\ UNCHANGED <<devices, owner, muddled, calls, left>>
  <2>1. ASSUME NEW u \in j.to, P!Reachable(j, u)
        PROVE  u \in Users /\ u \notin j.out /\ (\E r \in P!Of(u) : r.active)
    <3>1. u \in Users /\ \E r \in P!Of(u) : r.active
      BY <1>2, <2>1 DEF P!Reachable
    <3>2. j.kind = "one" => u \notin j.out
      <4>1. j.at # "check"
        BY <1>5
      <4> QED BY <1>7, <4>1
    <3>3. j.kind = "all" => u \notin j.out
      <4>1. j.kind = "all" => pref[u] # "unsubscribed"
        BY <2>1 DEF P!Reachable, P!notifications_unsubscribed
      <4> QED BY <1>7, <4>1
    <3>4. u \notin j.out
      BY <1>2, <3>2, <3>3
    <3> QED BY <3>1, <3>4
  <2>2. ASSUME NEW w \in pushed'
        PROVE  /\ w \in [for : Users, out : BOOLEAN, stray : BOOLEAN]
               /\ w.out = FALSE /\ (w.stray = FALSE => w.for = session)
    <3>1. CASE w \in pushed
      BY <3>1 DEF PushSound, PushesFit, SendingTyped
    <3>2. CASE w \notin pushed
      <4>1. PICK u \in j.to : /\ P!Reachable(j, u)
                              /\ w = [for |-> u, out |-> u \in j.out,
                                      stray |-> muddled \/ calls # {} \/ session \notin owner]
        BY <1>5, <3>2
      <4>2. w.for = u /\ w.out = (u \in j.out) /\ w.stray = (muddled \/ calls # {} \/ session \notin owner)
        BY <4>1
      <4>3. u \in Users /\ u \notin j.out
        BY <2>1, <4>1
      <4>4. w.stray = FALSE => u = session
        BY <2>1, <4>1, <4>2, ReachedIsSession DEF PushSound
      <4>5. (u \in j.out) \in BOOLEAN /\ (muddled \/ calls # {} \/ session \notin owner) \in BOOLEAN
        OBVIOUS
      <4>6. w \in [for : Users, out : BOOLEAN, stray : BOOLEAN] /\ w.out = FALSE
        <5>1. PICK x \in BOOLEAN, y \in BOOLEAN :
                x = (u \in j.out) /\ y = (muddled \/ calls # {} \/ session \notin owner)
          BY <4>5
        <5>2. w = [for |-> u, out |-> x, stray |-> y]
          BY <4>1, <5>1
        <5>3. x = FALSE
          BY <4>3, <5>1
        <5>4. w = [for |-> u, out |-> FALSE, stray |-> y]
          BY <5>2, <5>3
        <5> QED BY <4>3, <5>4
      <4> QED BY <4>2, <4>4, <4>6
    <3> QED BY <3>1, <3>2
  <2>3. PushesFit'
    BY <1>1, <1>5, <2>2 DEF PushSound, PushesFit, SendingTyped
  <2> QED BY <1>1, <1>5, <2>3, DevicesKept DEF PushSound
<1>6. CASE j.at = "send" /\ sending' = sending \ {j} /\ P!Deactivate /\ UNCHANGED pushed
  <2>1. left' \in Counts
    BY <1>6, SpendFacts DEF P!Deactivate, PushSound, PushesFit, SendingTyped
  <2>2. DevicesSound'
    BY <1>1, <1>6, FaultStep DEF P!Deactivate, PushSound
  <2>3. PushesFit'
    BY <1>1, <1>6, <2>1 DEF PushSound, PushesFit, SendingTyped
  <2> QED BY <2>2, <2>3 DEF PushSound
<1> QED BY <1>1, <1>3, <1>4, <1>5, <1>6 DEF P!send_fcm

(* The requests                                                            *)
LEMMA CallGoesOn ==
    ASSUME DevicesSound, NEW e \in calls, NEW f \in PageCalls, f.user = e.user, f.alone = e.alone,
           calls' = (calls \ {e}) \cup {f}, UNCHANGED <<owner, muddled, failed>>,
           newest' \in Nat, devices' \subseteq DeviceRows', IsFiniteSet(devices'),
           revived' \in BOOLEAN, revived => revived',
           KeysOwned', DedupeComes', e.alone /\ Fits(e) => Fits(f)'
    PROVE  DevicesSound'
<1>1. DevicesTyped'
  BY DEF DevicesSound, DevicesTyped, PageCalls
<1>2. ASSUME NEW g \in calls' PROVE (g.alone => g = f /\ e.alone /\ calls = {e}) /\ (~g.alone => muddled)
  <2>1. CASE g = f
    BY <2>1 DEF DevicesSound, Alone
  <2>2. CASE g # f
    BY <2>2 DEF DevicesSound, Alone
  <2> QED BY <2>1, <2>2
<1>3. Alone'
  <2>1. calls = {e} => calls' = {f}
    OBVIOUS
  <2> QED BY <1>2, <2>1 DEF Alone
<1>4. AloneFits'
  <2>1. calls' # {}
    OBVIOUS
  <2>2. e.alone => Fits(f)'
    BY DEF DevicesSound, AloneFits
  <2>3. ASSUME NEW g \in calls', g.alone PROVE Fits(g)'
    <3>1. g = f /\ e.alone
      BY <1>2, <2>3
    <3> QED BY <2>2, <3>1
  <2> QED BY <2>1, <2>3 DEF AloneFits
<1> QED BY <1>1, <1>3, <1>4 DEF DevicesSound

(* Rows go, none comes.                                                    *)
LEMMA RowsGo ==
    ASSUME DevicesSound, NEW e \in calls, NEW f \in PageCalls, f.user = e.user, f.alone = e.alone,
           calls' = (calls \ {e}) \cup {f}, UNCHANGED <<owner, muddled, failed, revived, newest>>,
           devices' \subseteq devices, e.does # "dedupe" \/ AtMostOne(e.user)',
           \A k \in f.keys : Claims(k, e.user),
           f.does \in {"save", "dedupe", "remember"} => \E k : f.keys = {k},
           e.alone /\ Fits(e) => Fits(f)'
    PROVE  DevicesSound'
<1>1. KeysOwned'
  <2>1. \A k, u : Claims(k, u)' => Claims(k, u)
    BY DEF Claims
  <2>2. \A g \in calls' : g.does \in {"save", "dedupe", "remember"} => \E k : g.keys = {k}
    BY DEF DevicesSound, KeysOwned
  <2> QED BY <2>1, <2>2 DEF DevicesSound, KeysOwned
<1>2. DedupeComes'
  <2>1. \A u : AtMostOne(u) => AtMostOne(u)'
    BY DEF AtMostOne, P!Of
  <2>2. ASSUME revived = FALSE, NEW u \in Users
        PROVE  AtMostOne(u)' \/ \E g \in calls' : g.user = u /\ g.does = "dedupe"
    <3>1. AtMostOne(u) \/ \E g \in calls : g.user = u /\ g.does = "dedupe"
      BY <2>2 DEF DevicesSound, DedupeComes
    <3>2. CASE AtMostOne(u)
      BY <2>1, <3>2
    <3>3. ASSUME NEW g \in calls, g.user = u, g.does = "dedupe"
          PROVE  AtMostOne(u)' \/ \E h \in calls' : h.user = u /\ h.does = "dedupe"
      BY <3>3
    <3> QED BY <3>1, <3>2, <3>3
  <2> QED BY <2>2 DEF DedupeComes, DevicesSound, DevicesTyped
<1>3. devices' \subseteq DeviceRows' /\ IsFiniteSet(devices') /\ newest' \in Nat /\ revived' \in BOOLEAN
  BY FS_Subset DEF DevicesSound, DevicesTyped, DeviceRows
<1> QED BY <1>1, <1>2, <1>3, CallGoesOn

LEMMA CallEnds ==
    ASSUME DevicesSound, NEW e \in calls, calls' = calls \ {e}, UNCHANGED <<devices, newest, revived>>,
           e.does # "dedupe", owner' \subseteq Users, \A u, v \in owner' : u = v,
           muddled' \in BOOLEAN, e.alone \/ muddled' = muddled,
           e.alone /\ Fits(e) /\ ~muddled' => Settled',
           ~revived => ~failed'
    PROVE  DevicesSound'
<1>1. DevicesTyped'
  BY DEF DevicesSound, DevicesTyped, DeviceRows
<1>2. KeysOwned'
  <2>1. \A k, u : Claims(k, u)' => Claims(k, u)
    BY DEF Claims
  <2> QED BY <2>1 DEF DevicesSound, KeysOwned
<1>3. DedupeComes'
  BY DEF DevicesSound, DedupeComes, AtMostOne, P!Of
<1>4. \A g \in calls' : ~g.alone /\ ~e.alone /\ muddled
  BY DEF DevicesSound, Alone
<1>5. Alone'
  BY <1>4 DEF Alone
<1>6. calls' = {} /\ ~muddled' => Settled'
  <2>1. calls' = {} /\ ~muddled' => e.alone
    BY DEF DevicesSound, Alone
  <2> QED BY <2>1 DEF DevicesSound, AloneFits
<1>7. AloneFits'
  BY <1>4, <1>6 DEF AloneFits
<1> QED BY <1>1, <1>2, <1>3, <1>5, <1>7 DEF DevicesSound

(* A row is saved under a key of the request.                              *)
LEMMA SavedFacts ==
    ASSUME DevicesSound, NEW e \in calls, NEW k \in e.keys, NEW x \in BOOLEAN, devices' = P!Saved(e, k, x)
    PROVE  /\ devices' \subseteq DeviceRows /\ IsFiniteSet(devices')
           /\ \A r, q \in devices' : r.key = q.key => r = q
           /\ \A r \in devices' : Claims(r.key, r.user)
           /\ \A u : (u # e.user \/ \E r \in devices : r.key = k) /\ AtMostOne(u) => AtMostOne(u)'
<1> DEFINE new == [key |-> k, user |-> e.user, active |-> x]
<1>1. devices' = {r \in devices : r.key # k} \cup {new}
  BY DEF P!Saved
<1>2. Claims(k, e.user) /\ k \in 1..newest /\ e.user \in Users
  BY DEF DevicesSound, KeysOwned, Claims, DevicesTyped, PageCalls
<1>3. new \in DeviceRows /\ new.key = k /\ new.user = e.user
  BY <1>2 DEF DeviceRows
<1> HIDE DEF new
<1>4. \A r \in devices : r \in DeviceRows /\ Claims(r.key, r.user)
  BY DEF DevicesSound, DevicesTyped, Claims
<1>5. IsFiniteSet(devices')
  <2>1. IsFiniteSet({r \in devices : r.key # k})
    BY FS_Subset DEF DevicesSound, DevicesTyped
  <2> QED BY <1>1, <2>1, FS_AddElement
<1>6. \A r, q \in devices' : r.key = q.key => r = q
  BY <1>1, <1>3 DEF DevicesSound, KeysOwned
<1>7. ASSUME NEW u, u # e.user \/ \E r \in devices : r.key = k, AtMostOne(u)
      PROVE  AtMostOne(u)'
  <2> SUFFICES ASSUME NEW r \in devices', NEW q \in devices', r.user = u, q.user = u PROVE r = q
    BY DEF AtMostOne, P!Of
  <2>1. CASE u # e.user
    BY <1>1, <1>3, <1>7, <2>1 DEF AtMostOne, P!Of
  <2>2. ASSUME u = e.user, NEW o \in devices, o.key = k PROVE r = q
    <3>1. o.user = u
      BY <1>2, <1>4, <2>2 DEF DevicesSound, KeysOwned
    <3>2. \A t \in devices : t.user = u => t = o
      BY <1>7, <2>2, <3>1 DEF AtMostOne, P!Of
    <3>3. \A t \in devices' : t.user = u => t = new
      BY <1>1, <2>2, <3>2
    <3> QED BY <3>3
  <2> QED BY <1>7, <2>1, <2>2
<1> QED BY <1>1, <1>2, <1>3, <1>4, <1>5, <1>6, <1>7

LEMMA CallFacts ==
    ASSUME DevicesSound, NEW e \in calls
    PROVE  /\ e \in PageCalls /\ e.user \in Users /\ e.keys \subseteq Nat
           /\ \A k \in e.keys : Claims(k, e.user)
           /\ \A f \in PageCalls : f.alone = e.alone /\ e.alone => calls = {e}
           /\ P!Of(e.user) = {r \in devices : r.user = e.user}
BY DEF DevicesSound, DevicesTyped, PageCalls, Claims, Alone, P!Of

LEMMA LookStep ==
    ASSUME DevicesSound, NEW e \in calls, P!Debounce(e), UNCHANGED <<devices, newest, debounced>>
    PROVE  DevicesSound'
<1>1. e \in PageCalls
  BY CallFacts
<1>2. UNCHANGED <<owner, muddled, failed, revived>> /\ e.does \in {"look", "debounce"}
  BY DEF P!Debounce, P!Stays
<1>3. ASSUME NEW x \in {"debounce", "clear"}, P!Goes(e, x) PROVE DevicesSound'
  <2>1. PICK f : f = [e EXCEPT !.does = x]
    OBVIOUS
  <2>2. /\ f \in PageCalls /\ f.user = e.user /\ f.alone = e.alone /\ f.keys = e.keys /\ f.does = x
        /\ calls' = (calls \ {e}) \cup {f}
    BY <1>1, <1>3, <2>1 DEF PageCalls, P!Goes
  <2>3. e.alone /\ Fits(e) => Fits(f)'
    BY <1>2, <2>2 DEF Fits, Settled, AtMostOne, P!Of, P!Active
  <2> QED BY <1>2, <2>2, <2>3, CallFacts, RowsGo
<1>4. ASSUME calls' = calls \ {e} PROVE DevicesSound'
  <2>1. e.alone /\ Fits(e) /\ ~muddled' => Settled'
    BY <1>2 DEF Fits, Settled, AtMostOne, P!Of, P!Active
  <2> QED BY <1>2, <1>4, <2>1, CallEnds DEF DevicesSound, DevicesTyped
<1> QED BY <1>3, <1>4 DEF P!Debounce

LEMMA ReassignStep ==
    ASSUME DevicesSound, NEW e \in calls, P!Reassign(e), P!Stays, UNCHANGED <<newest, debounced>>
    PROVE  DevicesSound'
<1>1. PICK f : f = [e EXCEPT !.does = "get"]
  OBVIOUS
<1>2. /\ f \in PageCalls /\ f.user = e.user /\ f.alone = e.alone /\ f.keys = e.keys /\ f.does = "get"
      /\ calls' = (calls \ {e}) \cup {f} /\ e.does = "clear"
  BY <1>1, CallFacts DEF PageCalls, P!Reassign, P!Goes
<1>3. devices' = P!Of(e.user) /\ UNCHANGED <<owner, muddled, failed, revived>>
  BY DEF P!Reassign, P!Stays
<1>4. devices' \subseteq devices /\ devices' = P!Of(e.user)'
  BY <1>3 DEF P!Of
<1>5. e.alone /\ Fits(e) => Fits(f)'
  <2>1. CASE muddled
    BY <1>2, <1>3, <1>4, <2>1 DEF Fits
  <2>2. ASSUME ~muddled, Fits(e) PROVE Fits(f)'
    <3>1. AtMostOne(e.user)
      BY <1>2, <2>2, CallFacts DEF Fits, Settled
    <3>2. AtMostOne(e.user)'
      BY <1>4, <3>1 DEF AtMostOne, P!Of
    <3> QED BY <1>2, <1>4, <3>2 DEF Fits
  <2> QED BY <2>1, <2>2
<1> QED BY <1>2, <1>3, <1>4, <1>5, CallFacts, RowsGo

LEMMA GetStep ==
    ASSUME DevicesSound, NEW e \in calls, e.does = "get", P!get_or_create(e), UNCHANGED debounced
    PROVE  DevicesSound'
<1> DEFINE S == P!Of(e.user)
<1>0. /\ e \in PageCalls /\ S = {r \in devices : r.user = e.user} /\ IsFiniteSet(S)
      /\ P!Cardinality(S) = Cardinality(S)
  <2>1. P!Cardinality(S) = Cardinality(S)
    BY DEF P!Cardinality, Cardinality
  <2> QED BY <2>1, CallFacts, FS_Subset DEF DevicesSound, DevicesTyped
<1>1. /\ UNCHANGED <<devices, newest>>
      /\ \/ S = {} /\ P!Goes(e, "create") /\ P!Stays
         \/ S # {} /\ Cardinality(S) = 1 /\ P!Holds(e, "save", {r.key : r \in S}) /\ P!Stays
         \/ /\ S # {} /\ Cardinality(S) # 1 /\ calls' = calls \ {e} /\ failed' = (failed \/ e.alone)
            /\ UNCHANGED <<owner, muddled, revived>>
  <2>1. /\ UNCHANGED <<devices, newest>>
        /\ CASE S = {} -> P!Goes(e, "create") /\ P!Stays
             [] P!Cardinality(S) = 1 -> P!Holds(e, "save", {r.key : r \in S}) /\ P!Stays
             [] OTHER -> /\ calls' = calls \ {e} /\ failed' = (failed \/ e.alone)
                         /\ UNCHANGED <<owner, muddled, revived>>
    BY DEF P!get_or_create
  <2>2. S = {} => P!Cardinality(S) # 1
    BY <1>0, FS_EmptySet
  <2> HIDE DEF S
  <2> QED BY <1>0, <2>1, <2>2
<1>2. CASE S = {} /\ P!Goes(e, "create") /\ P!Stays
  <2>1. PICK f : f = [e EXCEPT !.does = "create"]
    OBVIOUS
  <2>2. /\ f \in PageCalls /\ f.user = e.user /\ f.alone = e.alone /\ f.keys = e.keys /\ f.does = "create"
        /\ calls' = (calls \ {e}) \cup {f} /\ UNCHANGED <<owner, muddled, failed, revived>>
    BY <1>0, <1>2, <2>1 DEF PageCalls, P!Goes, P!Stays
  <2>3. e.alone /\ Fits(e) => Fits(f)'
    BY <1>1, <1>2, <2>2 DEF Fits
  <2> QED BY <1>1, <2>2, <2>3, CallFacts, RowsGo
<1>3. CASE S # {} /\ Cardinality(S) = 1 /\ P!Holds(e, "save", {r.key : r \in S}) /\ P!Stays
  <2>1. PICK r : S = {r}
    BY <1>0, <1>3, FS_Singleton
  <2>2. r \in devices /\ r.user = e.user /\ r \in DeviceRows /\ r.key \in Nat
    BY <1>0, <2>1 DEF DevicesSound, DevicesTyped, DeviceRows
  <2>3. PICK f : f = [e EXCEPT !.does = "save", !.keys = {r.key}]
    OBVIOUS
  <2>4. {q.key : q \in S} = {r.key}
    BY <2>1
  <2>5. /\ f \in PageCalls /\ f.user = e.user /\ f.alone = e.alone /\ f.keys = {r.key} /\ f.does = "save"
        /\ calls' = (calls \ {e}) \cup {f} /\ UNCHANGED <<owner, muddled, failed, revived>>
    BY <1>0, <1>3, <2>2, <2>3, <2>4 DEF PageCalls, P!Holds, P!Stays
  <2>6. Claims(r.key, e.user)
    BY <2>2 DEF Claims
  <2>7. e.alone /\ Fits(e) => Fits(f)'
    <3>1. r = [key |-> r.key, user |-> e.user, active |-> r.active] /\ r.active \in BOOLEAN
      BY <2>2 DEF DeviceRows
    <3>2. Fits(e) => devices = {r}
      BY <2>1 DEF Fits
    <3> QED BY <1>1, <2>5, <3>1, <3>2 DEF Fits
  <2> QED BY <1>1, <2>5, <2>6, <2>7, RowsGo
<1>4. CASE /\ S # {} /\ Cardinality(S) # 1 /\ calls' = calls \ {e} /\ failed' = (failed \/ e.alone)
           /\ UNCHANGED <<owner, muddled, revived>>
  <2>1. ~AtMostOne(e.user)
    <3>1. AtMostOne(e.user) => \E r : S = {r}
      BY <1>4 DEF AtMostOne
    <3> QED BY <1>4, <3>1, FS_Singleton
  <2>2. e.alone => revived
    <3>1. e.user \in Users /\ (e.alone => calls = {e})
      BY <1>0, CallFacts
    <3> QED BY <2>1, <3>1 DEF DevicesSound, DedupeComes
  <2>3. e.alone /\ Fits(e) /\ ~muddled' => Settled'
    BY <1>4, <2>1 DEF Fits
  <2>4. ~revived => ~failed'
    BY <1>4, <2>2 DEF DevicesSound
  <2> QED BY <1>1, <1>4, <2>3, <2>4, CallEnds DEF DevicesSound, DevicesTyped
<1> QED BY <1>1, <1>2, <1>3, <1>4

LEMMA CreateRowStep ==
    ASSUME DevicesSound, NEW e \in calls, e.does = "create", P!get_or_create(e), UNCHANGED debounced
    PROVE  DevicesSound'
<1>1. PICK f : f = [e EXCEPT !.does = "dedupe", !.keys = {newest + 1}]
  OBVIOUS
<1>2. PICK new : new = [key |-> newest + 1, user |-> e.user, active |-> TRUE]
  OBVIOUS
<1>3. /\ newest \in Nat /\ newest' = newest + 1 /\ devices' = devices \cup {new}
      /\ calls' = (calls \ {e}) \cup {f} /\ UNCHANGED <<owner, muddled, failed, revived>>
  BY <1>1, <1>2 DEF P!get_or_create, P!Holds, P!Stays, DevicesSound, DevicesTyped
<1>4. /\ f \in PageCalls /\ f.user = e.user /\ f.alone = e.alone /\ f.keys = {newest + 1} /\ f.does = "dedupe"
      /\ e.user \in Users
  <2>1. e \in PageCalls /\ e.user \in Users
    BY CallFacts
  <2>2. PICK K \in SUBSET Nat : K = {newest + 1}
    <3>1. newest + 1 \in Nat
      BY <1>3
    <3>2. \A n \in Nat : {n} \in SUBSET Nat
      OBVIOUS
    <3>3. {newest + 1} \in SUBSET Nat
      BY <3>1, <3>2
    <3> QED BY <3>3
  <2>3. f = [e EXCEPT !.does = "dedupe", !.keys = K]
    BY <1>1, <2>2
  <2>4. f \in PageCalls /\ f.user = e.user /\ f.alone = e.alone /\ f.keys = K /\ f.does = "dedupe"
    BY <2>1, <2>3 DEF PageCalls
  <2> QED BY <2>1, <2>2, <2>4
<1>5. new.key = newest + 1 /\ new.user = e.user /\ new \in DeviceRows'
  BY <1>2, <1>3, <1>4 DEF DeviceRows
<1>6. devices' \subseteq DeviceRows' /\ IsFiniteSet(devices')
  <2>1. \A r \in devices : r \in DeviceRows'
    BY <1>3 DEF DevicesSound, DevicesTyped, DeviceRows
  <2> QED BY <1>3, <1>5, <2>1, FS_AddElement DEF DevicesSound, DevicesTyped
<1>7. \A k, u : Claims(k, u)' => Claims(k, u) \/ (k = newest + 1 /\ u = e.user)
  BY <1>3, <1>4, <1>5 DEF Claims
<1>8. \A k, u : Claims(k, u) => k \in 1..newest
  BY DEF DevicesSound, KeysOwned
<1>9. KeysOwned'
  <2>1. \A k, u : Claims(k, u)' => k \in 1..newest'
    BY <1>3, <1>7, <1>8
  <2>2. \A k, u, v : Claims(k, u)' /\ Claims(k, v)' => u = v
    <3>1. \A u : ~Claims(newest + 1, u)
      BY <1>3, <1>8
    <3> QED BY <1>7, <3>1 DEF DevicesSound, KeysOwned
  <2>3. \A r, q \in devices' : r.key = q.key => r = q
    <3>1. \A r \in devices : r.key # newest + 1
      BY <1>3, <1>8 DEF Claims
    <3> QED BY <1>3, <1>5, <3>1 DEF DevicesSound, KeysOwned
  <2>4. \A g \in calls' : g.does \in {"save", "dedupe", "remember"} => \E k : g.keys = {k}
    BY <1>3, <1>4 DEF DevicesSound, KeysOwned
  <2> QED BY <2>1, <2>2, <2>3, <2>4 DEF KeysOwned
<1>10. DedupeComes'
  <2>1. ASSUME NEW u \in Users, revived = FALSE
        PROVE  AtMostOne(u)' \/ \E g \in calls' : g.user = u /\ g.does = "dedupe"
    <3>1. CASE u = e.user
      BY <1>3, <1>4, <3>1
    <3>2. CASE u # e.user /\ AtMostOne(u)
      BY <1>3, <1>5, <3>2 DEF AtMostOne, P!Of
    <3>3. ASSUME NEW g \in calls, g.user = u, g.does = "dedupe"
          PROVE  \E h \in calls' : h.user = u /\ h.does = "dedupe"
      BY <1>3, <3>3
    <3> QED BY <2>1, <3>1, <3>2, <3>3 DEF DevicesSound, DedupeComes
  <2> QED BY <1>3, <2>1 DEF DedupeComes, DevicesSound, DevicesTyped
<1>11. Fits(e) => Fits(f)'
  BY <1>2, <1>3, <1>4 DEF Fits
<1>12. newest' \in Nat /\ revived' \in BOOLEAN
  BY <1>3 DEF DevicesSound, DevicesTyped
<1> QED BY <1>3, <1>4, <1>6, <1>9, <1>10, <1>11, <1>12, CallGoesOn

LEMMA SaveStep ==
    ASSUME DevicesSound, NEW e \in calls, e.does = "save", P!get_or_create(e), UNCHANGED debounced
    PROVE  DevicesSound'
<1>1. PICK f : f = [e EXCEPT !.does = "dedupe"]
  OBVIOUS
<1>2. PICK k : e.keys = {k}
  BY DEF DevicesSound, KeysOwned
<1>3. /\ devices' = P!Saved(e, k, TRUE) /\ newest' = newest
      /\ calls' = (calls \ {e}) \cup {f} /\ UNCHANGED <<owner, muddled, failed, revived>>
  BY <1>1, <1>2 DEF P!get_or_create, P!Goes, P!Stays
<1>4. /\ f \in PageCalls /\ f.user = e.user /\ f.alone = e.alone /\ f.keys = e.keys /\ f.does = "dedupe"
      /\ e.user \in Users
  BY <1>1, CallFacts DEF PageCalls
<1>5. /\ devices' \subseteq DeviceRows' /\ IsFiniteSet(devices')
      /\ \A r, q \in devices' : r.key = q.key => r = q
      /\ \A r \in devices' : Claims(r.key, r.user)
      /\ \A u : u # e.user /\ AtMostOne(u) => AtMostOne(u)'
  BY <1>2, <1>3, SavedFacts DEF DeviceRows
<1>6. KeysOwned'
  <2>1. ASSUME NEW i, NEW u, Claims(i, u)' PROVE Claims(i, u)
    <3>1. CASE \E r \in devices' : r.key = i /\ r.user = u BY <1>5, <3>1
    <3>2. CASE \E g \in calls' : i \in g.keys /\ g.user = u BY <1>3, <1>4, <3>2 DEF Claims
    <3> QED BY <2>1, <3>1, <3>2 DEF Claims
  <2>2. \A g \in calls' : g.does \in {"save", "dedupe", "remember"} => \E i : g.keys = {i}
    BY <1>2, <1>3, <1>4 DEF DevicesSound, KeysOwned
  <2> QED BY <1>3, <1>5, <2>1, <2>2 DEF DevicesSound, KeysOwned
<1>7. DedupeComes'
  <2>1. ASSUME NEW u \in Users, revived = FALSE
        PROVE  AtMostOne(u)' \/ \E g \in calls' : g.user = u /\ g.does = "dedupe"
    <3>1. CASE u = e.user
      BY <1>3, <1>4, <3>1
    <3>2. CASE u # e.user /\ AtMostOne(u)
      BY <1>5, <3>2
    <3>3. ASSUME NEW g \in calls, g.user = u, g.does = "dedupe"
          PROVE  \E h \in calls' : h.user = u /\ h.does = "dedupe"
      BY <1>3, <3>3
    <3> QED BY <2>1, <3>1, <3>2, <3>3 DEF DevicesSound, DedupeComes
  <2> QED BY <1>3, <2>1 DEF DedupeComes, DevicesSound, DevicesTyped
<1>8. Fits(e) => Fits(f)'
  <2>1. ASSUME Fits(e) PROVE devices' = {[key |-> k, user |-> e.user, active |-> TRUE]}
    <3>1. PICK x \in BOOLEAN : devices = {[key |-> k, user |-> e.user, active |-> x]}
      BY <1>2, <2>1 DEF Fits
    <3> QED BY <1>3, <3>1 DEF P!Saved
  <2> QED BY <1>2, <1>4, <2>1 DEF Fits
<1>9. newest' \in Nat /\ revived' \in BOOLEAN
  BY <1>3 DEF DevicesSound, DevicesTyped
<1> QED BY <1>3, <1>4, <1>5, <1>6, <1>7, <1>8, <1>9, CallGoesOn

LEMMA DedupeStep ==
    ASSUME DevicesSound, NEW e \in calls, P!Deduplicate(e), P!Stays, UNCHANGED <<newest, debounced>>
    PROVE  DevicesSound'
<1>1. PICK f : f = [e EXCEPT !.does = "remember"]
  OBVIOUS
<1>2. /\ e.does = "dedupe" /\ devices' = {r \in devices : r.user = e.user => r.key \in e.keys}
      /\ calls' = (calls \ {e}) \cup {f} /\ UNCHANGED <<owner, muddled, failed, revived>>
  BY <1>1 DEF P!Deduplicate, P!Goes, P!Stays
<1>3. f \in PageCalls /\ f.user = e.user /\ f.alone = e.alone /\ f.keys = e.keys /\ f.does = "remember"
  BY <1>1, CallFacts DEF PageCalls
<1>4. PICK k : e.keys = {k}
  BY <1>2 DEF DevicesSound, KeysOwned
<1>5. AtMostOne(e.user)'
  <2> SUFFICES ASSUME NEW r \in devices', NEW q \in devices', r.user = e.user, q.user = e.user PROVE r = q
    BY DEF AtMostOne, P!Of
  <2> QED BY <1>2, <1>4 DEF DevicesSound, KeysOwned
<1>6. Fits(e) => Fits(f)'
  <2>1. Fits(e) => devices' = devices
    BY <1>2, <1>4 DEF Fits
  <2> QED BY <1>2, <1>3, <2>1 DEF Fits
<1>7. \A i \in f.keys : Claims(i, e.user)
  BY <1>3, CallFacts
<1> QED BY <1>2, <1>3, <1>4, <1>5, <1>6, <1>7, RowsGo

LEMMA RememberStep ==
    ASSUME DevicesSound, NEW e \in calls, e.does = "remember", P!Ends(e, {e.user}, TRUE),
           UNCHANGED <<devices, newest>>
    PROVE  DevicesSound'
<1>1. /\ calls' = calls \ {e} /\ owner' = IF e.alone THEN {e.user} ELSE owner
      /\ muddled' = (muddled /\ ~e.alone) /\ UNCHANGED <<failed, revived>>
  BY DEF P!Ends
<1>2. e.user \in Users
  BY CallFacts
<1>3. PICK k : e.keys = {k}
  BY DEF DevicesSound, KeysOwned
<1>4. ASSUME e.alone, Fits(e) PROVE Settled'
  <2>1. devices = {[key |-> k, user |-> e.user, active |-> TRUE]}
    BY <1>3, <1>4 DEF Fits
  <2>2. PICK r : devices' = {r} /\ r.user = e.user /\ r.active = TRUE
    <3>1. PICK r : r = [key |-> k, user |-> e.user, active |-> TRUE]
      OBVIOUS
    <3>2. devices' = {r} /\ r.user = e.user /\ r.active = TRUE
      BY <2>1, <3>1
    <3> QED BY <3>2
  <2>3. P!Active' = {r}
    BY <2>2 DEF P!Active
  <2>4. {q.user : q \in P!Active'} = {e.user}
    BY <2>2, <2>3
  <2>5. \A u \in Users : AtMostOne(u)'
    BY <2>2 DEF AtMostOne, P!Of
  <2> QED BY <1>1, <1>4, <2>4, <2>5 DEF Settled
<1>5. owner' \subseteq Users /\ (\A u, v \in owner' : u = v) /\ (e.alone \/ muddled' = muddled)
      /\ muddled' \in BOOLEAN /\ (~revived => ~failed')
  <2>1. muddled \in BOOLEAN
    BY DEF DevicesSound, DevicesTyped
  <2>2. e.alone \in BOOLEAN
    BY CallFacts DEF PageCalls
  <2> QED BY <1>1, <1>2, <2>1, <2>2 DEF DevicesSound, DevicesTyped
<1> QED BY <1>1, <1>4, <1>5, CallEnds

LEMMA ListStep ==
    ASSUME DevicesSound, NEW e \in calls, e.does = "list", P!Stays, UNCHANGED <<devices, newest, debounced>>,
           P!Holds(e, "deactivate", {r.key : r \in P!Of(e.user)})
    PROVE  DevicesSound'
<1> DEFINE K == {r.key : r \in P!Of(e.user)}
<1>1. PICK f : f = [e EXCEPT !.does = "deactivate", !.keys = K]
  OBVIOUS
<1>2. /\ calls' = (calls \ {e}) \cup {f} /\ UNCHANGED <<owner, muddled, failed, revived>>
  BY <1>1 DEF P!Holds, P!Stays
<1>3. /\ \A r \in devices : r.user = e.user => r.key \in K
      /\ \A k \in K : \E r \in devices : r.key = k /\ r.user = e.user
  BY CallFacts
<1>4. K \in SUBSET Nat
  BY <1>3 DEF DevicesSound, DevicesTyped, DeviceRows
<1> HIDE DEF K
<1>5. f \in PageCalls /\ f.user = e.user /\ f.alone = e.alone /\ f.keys = K /\ f.does = "deactivate"
  BY <1>1, <1>4, CallFacts DEF PageCalls
<1>6. \A k \in f.keys : Claims(k, e.user)
  BY <1>3, <1>5 DEF Claims
<1>7. Fits(e) => Fits(f)'
  <2>1. CASE muddled
    BY <1>2, <1>5, <2>1 DEF Fits
  <2>2. ASSUME ~muddled, Fits(e) PROVE Fits(f)'
    <3>1. {r.user : r \in P!Active} = owner /\ \A u \in Users : AtMostOne(u)
      BY <2>2 DEF Fits, Settled
    <3>2. {r.user : r \in P!Active} \ {e.user} = owner \ {e.user}
      BY <3>1
    <3>3. /\ \A r \in P!Active : r.user = e.user => r.key \in K
          /\ \A k \in K : \E r \in devices : r.key = k
      BY <1>3 DEF P!Active
    <3> QED BY <1>2, <1>5, <3>1, <3>2, <3>3 DEF Fits, AtMostOne, P!Active, P!Of
  <2> QED BY <2>1, <2>2
<1> QED BY <1>2, <1>5, <1>6, <1>7, RowsGo

LEMMA OffStep ==
    ASSUME DevicesSound, NEW e \in calls, e.does = "deactivate", NEW k \in e.keys,
           P!Holds(e, "deactivate", e.keys \ {k}), devices' = P!Saved(e, k, FALSE),
           revived' = (revived \/ \A r \in devices : r.key # k), UNCHANGED <<newest, owner, muddled, failed>>
    PROVE  DevicesSound'
<1>1. PICK f : f = [e EXCEPT !.does = "deactivate", !.keys = e.keys \ {k}]
  OBVIOUS
<1>2. calls' = (calls \ {e}) \cup {f}
  BY <1>1 DEF P!Holds
<1>3. /\ f \in PageCalls /\ f.user = e.user /\ f.alone = e.alone /\ f.keys = e.keys \ {k} /\ f.does = "deactivate"
      /\ e.user \in Users /\ k \in Nat
  <2>1. e \in PageCalls /\ e.user \in Users /\ e.keys \subseteq Nat
    BY CallFacts
  <2>2. e.keys \ {k} \in SUBSET Nat
    BY <2>1
  <2> QED BY <1>1, <2>1, <2>2 DEF PageCalls
<1>4. /\ devices' \subseteq DeviceRows' /\ IsFiniteSet(devices')
      /\ \A r, q \in devices' : r.key = q.key => r = q
      /\ \A r \in devices' : Claims(r.key, r.user)
      /\ \A u : (u # e.user \/ \E r \in devices : r.key = k) /\ AtMostOne(u) => AtMostOne(u)'
  BY SavedFacts DEF DeviceRows
<1>5. KeysOwned'
  <2>1. ASSUME NEW i, NEW u, Claims(i, u)' PROVE Claims(i, u)
    <3>1. CASE \E r \in devices' : r.key = i /\ r.user = u BY <1>4, <3>1
    <3>2. CASE \E g \in calls' : i \in g.keys /\ g.user = u BY <1>2, <1>3, <3>2 DEF Claims
    <3> QED BY <2>1, <3>1, <3>2 DEF Claims
  <2>2. \A g \in calls' : g.does \in {"save", "dedupe", "remember"} => \E i : g.keys = {i}
    BY <1>2, <1>3 DEF DevicesSound, KeysOwned
  <2> QED BY <1>4, <2>1, <2>2 DEF DevicesSound, KeysOwned
<1>6. revived' \in BOOLEAN /\ (revived => revived') /\ newest' \in Nat
  BY DEF DevicesSound, DevicesTyped
<1>7. DedupeComes'
  <2>1. ASSUME NEW u \in Users, ~revived'
        PROVE  AtMostOne(u)' \/ \E g \in calls' : g.user = u /\ g.does = "dedupe"
    <3>1. AtMostOne(u) => AtMostOne(u)'
      BY <1>4, <2>1
    <3>2. ASSUME NEW g \in calls, g.user = u, g.does = "dedupe"
          PROVE  \E h \in calls' : h.user = u /\ h.does = "dedupe"
      BY <1>2, <3>2
    <3> QED BY <2>1, <3>1, <3>2 DEF DevicesSound, DedupeComes
  <2> QED BY <2>1 DEF DedupeComes
<1>8. ASSUME Fits(e) PROVE Fits(f)'
  <2>1. CASE muddled
    BY <1>3, <2>1 DEF Fits
  <2>2. CASE ~muddled
    <3>1. /\ {r.user : r \in P!Active} \ {e.user} = owner \ {e.user}
          /\ \A r \in P!Active : r.user = e.user => r.key \in e.keys
          /\ \A i \in e.keys : \E r \in devices : r.key = i
          /\ \A u \in Users : AtMostOne(u)
      BY <1>8, <2>2 DEF Fits
    <3>2. \A u \in Users : AtMostOne(u)'
      BY <1>4, <3>1
    <3>3. PICK new : new = [key |-> k, user |-> e.user, active |-> FALSE]
      OBVIOUS
    <3>4. /\ devices' = {r \in devices : r.key # k} \cup {new}
          /\ new.key = k /\ new.user = e.user /\ new.active = FALSE
      BY <3>3 DEF P!Saved
    <3>5. P!Active' = {r \in P!Active : r.key # k}
      BY <3>4 DEF P!Active
    <3>6. \A r \in devices : r.key = k => r.user = e.user
      BY DEF DevicesSound, KeysOwned, Claims
    <3>7. {r.user : r \in P!Active'} \ {e.user} = {r.user : r \in P!Active} \ {e.user}
      <4>1. P!Active \subseteq devices
        BY DEF P!Active
      <4> QED BY <3>5, <3>6, <4>1
    <3>8. \A r \in P!Active' : r.user = e.user => r.key \in f.keys
      BY <1>3, <3>1, <3>5
    <3>9. \A i \in f.keys : \E r \in devices' : r.key = i
      BY <1>3, <3>1, <3>4
    <3> QED BY <1>3, <3>1, <3>2, <3>7, <3>8, <3>9 DEF Fits, P!Active
  <2> QED BY <2>1, <2>2
<1> QED BY <1>2, <1>3, <1>4, <1>5, <1>6, <1>7, <1>8, CallGoesOn

LEMMA OffEnds ==
    ASSUME DevicesSound, NEW e \in calls, e.does = "deactivate", e.keys = {},
           P!Ends(e, owner \ {e.user}, FALSE), UNCHANGED <<devices, newest>>
    PROVE  DevicesSound'
<1>1. /\ calls' = calls \ {e} /\ owner' = IF e.alone THEN owner \ {e.user} ELSE owner
      /\ UNCHANGED <<failed, revived>>
  BY DEF P!Ends
<1>2. muddled \in BOOLEAN /\ muddled' = muddled /\ e.alone \in BOOLEAN
  <2>1. muddled \in BOOLEAN /\ e.alone \in BOOLEAN
    BY CallFacts DEF DevicesSound, DevicesTyped, PageCalls
  <2> QED BY <2>1 DEF P!Ends
<1>3. ASSUME e.alone, Fits(e), ~muddled' PROVE Settled'
  <2>1. /\ {r.user : r \in P!Active} \ {e.user} = owner \ {e.user}
        /\ \A r \in P!Active : r.user # e.user
        /\ \A u \in Users : AtMostOne(u)
    BY <1>2, <1>3 DEF Fits
  <2>2. {r.user : r \in P!Active} = owner'
    BY <1>1, <1>3, <2>1
  <2> QED BY <2>1, <2>2 DEF Settled, AtMostOne, P!Active, P!Of
<1>4. owner' \subseteq Users /\ \A u, v \in owner' : u = v
  BY <1>1, <1>2 DEF DevicesSound, DevicesTyped
<1> QED BY <1>1, <1>2, <1>3, <1>4, CallEnds DEF DevicesSound

LEMMA HandleCallStep == ASSUME PushSound, P!Handle PROVE PushSound'
<1>1. PICK e \in calls : P!Register(e) \/ P!Unregister(e)
  BY DEF P!Handle
<1>2. PushesFit'
  BY DEF P!Handle, PushSound, PushesFit, SendingTyped
<1>3. DevicesSound
  BY DEF PushSound
<1> SUFFICES DevicesSound'
  BY <1>2 DEF PushSound
<1>4. CASE P!Register(e)
  <2>1. CASE P!Debounce(e) /\ UNCHANGED <<devices, newest, debounced>>
    BY <1>3, <2>1, LookStep
  <2>2. CASE P!Reassign(e) /\ P!Stays /\ UNCHANGED <<newest, debounced>>
    BY <1>3, <2>2, ReassignStep
  <2>3. CASE P!get_or_create(e) /\ UNCHANGED debounced
    <3>1. e.does \in {"get", "create", "save"}
      BY <2>3 DEF P!get_or_create
    <3> QED BY <1>3, <2>3, <3>1, GetStep, CreateRowStep, SaveStep
  <2>4. CASE P!Deduplicate(e) /\ P!Stays /\ UNCHANGED <<newest, debounced>>
    BY <1>3, <2>4, DedupeStep
  <2>5. CASE e.does = "remember" /\ P!Ends(e, {e.user}, TRUE) /\ UNCHANGED <<devices, newest>>
    BY <1>3, <2>5, RememberStep
  <2> QED BY <1>4, <2>1, <2>2, <2>3, <2>4, <2>5 DEF P!Register
<1>5. CASE P!Unregister(e)
  <2>1. CASE /\ e.does = "list" /\ P!Stays /\ UNCHANGED <<devices, newest, debounced>>
             /\ P!Holds(e, "deactivate", {r.key : r \in P!Of(e.user)})
    BY <1>3, <2>1, ListStep
  <2>2. ASSUME e.does = "deactivate", UNCHANGED <<newest, owner, muddled, failed>>, NEW k \in e.keys,
               P!Holds(e, "deactivate", e.keys \ {k}), devices' = P!Saved(e, k, FALSE),
               revived' = (revived \/ \A r \in devices : r.key # k)
        PROVE  DevicesSound'
    BY <1>3, <2>2, OffStep
  <2>3. CASE e.does = "deactivate" /\ e.keys = {} /\ P!Ends(e, owner \ {e.user}, FALSE) /\ UNCHANGED <<devices, newest>>
    BY <1>3, <2>3, OffEnds
  <2> QED BY <1>5, <2>1, <2>2, <2>3 DEF P!Unregister
<1> QED BY <1>1, <1>4, <1>5

(* A page begins a request: from now on no request under way is alone but  *)
(* the new one, if there is no other.                                      *)
LEMMA PageStep == ASSUME PushSound, P!Page PROVE PushSound'
<1>1. PICK x \in {"look", "list"} : P!Begin(x)
  BY DEF P!Page, P!registerDevice, P!unregisterDevice
<1>2. PICK new : new = [n |-> left.pages, does |-> x, user |-> session, keys |-> {}, alone |-> calls = {}]
  OBVIOUS
<1>3. /\ session \in Users /\ left \in Counts
      /\ calls' = {[e EXCEPT !.alone = FALSE] : e \in calls} \cup {new}
      /\ muddled' = (muddled \/ calls # {})
      /\ UNCHANGED <<devices, newest, owner, failed, revived>>
  BY <1>1, <1>2 DEF P!Begin, P!Page, PushSound, PushesFit, SendingTyped
<1>4. /\ new \in PageCalls /\ new.user = session /\ new.keys = {} /\ new.does = x
      /\ new.alone = (calls = {})
  <2>1. PICK t \in BOOLEAN : t = (calls = {})
    OBVIOUS
  <2>2. left.pages \in Nat
    BY <1>3 DEF Counts
  <2>3. new = [n |-> left.pages, does |-> x, user |-> session, keys |-> {}, alone |-> t]
    BY <1>2, <2>1
  <2>4. /\ new \in PageCalls /\ new.user = session /\ new.keys = {} /\ new.does = x /\ new.alone = t
    BY <1>3, <2>2, <2>3 DEF PageCalls
  <2> QED BY <2>1, <2>4
<1>5. DevicesSound
  BY DEF PushSound
<1>6. ASSUME NEW g \in calls', g # new
      PROVE  g \in PageCalls /\ ~g.alone /\ \E e \in calls : g.keys = e.keys /\ g.user = e.user /\ g.does = e.does
  <2>1. PICK e \in calls : g = [e EXCEPT !.alone = FALSE]
    BY <1>3, <1>6
  <2> QED BY <1>5, <2>1 DEF DevicesSound, DevicesTyped, PageCalls
<1>7. ASSUME NEW e \in calls PROVE \E g \in calls' : g.user = e.user /\ g.does = e.does
  <2>1. [e EXCEPT !.alone = FALSE] \in calls'
    BY <1>3
  <2> QED BY <1>5, <2>1 DEF DevicesSound, DevicesTyped, PageCalls
<1>8. DevicesTyped'
  <2>1. calls' \subseteq PageCalls
    BY <1>4, <1>6
  <2>2. muddled' \in BOOLEAN
    BY <1>3
  <2> QED BY <1>3, <1>5, <2>1, <2>2 DEF DevicesSound, DevicesTyped, DeviceRows
<1>9. KeysOwned'
  <2>1. \A k, u : Claims(k, u)' => Claims(k, u)
    BY <1>3, <1>4, <1>6 DEF Claims
  <2>2. ASSUME NEW g \in calls', g.does \in {"save", "dedupe", "remember"} PROVE \E k : g.keys = {k}
    <3>1. g # new
      BY <1>4, <2>2
    <3>2. PICK e \in calls : g.keys = e.keys /\ g.does = e.does
      BY <1>6, <3>1
    <3>3. \E k : e.keys = {k}
      BY <1>5, <2>2, <3>2 DEF DevicesSound, KeysOwned
    <3> QED BY <3>2, <3>3
  <2> QED BY <1>3, <1>5, <2>1, <2>2 DEF DevicesSound, KeysOwned
<1>10. DedupeComes'
  <2>1. \A u : AtMostOne(u)' <=> AtMostOne(u)
    BY <1>3 DEF AtMostOne, P!Of
  <2>2. DedupeComes BY <1>5 DEF DevicesSound
  <2>3. revived' = revived BY <1>3, <1>5
  <2>4. CASE revived BY <2>3, <2>4 DEF DedupeComes
  <2>5. ASSUME NEW u \in Users, \E e \in calls : e.user = u /\ e.does = "dedupe"
        PROVE  \E e \in calls' : e.user = u /\ e.does = "dedupe"
    <3>1. PICK e \in calls : e.user = u /\ e.does = "dedupe" BY <2>5
    <3> QED BY <1>7, <3>1
  <2> QED BY <2>1, <2>2, <2>4, <2>5 DEF DedupeComes
<1>11. Alone'
  <2>1. calls # {} => muddled' = TRUE
    BY <1>3
  <2>2. calls = {} => calls' = {new} /\ new.alone
    BY <1>3, <1>4
  <2>3. \A g \in calls' : g # new => ~g.alone /\ calls # {}
    BY <1>6
  <2> QED BY <1>4, <2>1, <2>2, <2>3 DEF Alone
<1>12. AloneFits'
  <2>1. calls' # {}
    BY <1>3
  <2>2. ASSUME NEW g \in calls', g.alone PROVE Fits(g)'
    <3>1. g = new /\ calls = {}
      BY <1>4, <1>6, <2>2
    <3>2. muddled' = muddled
      BY <1>3, <1>5, <3>1 DEF DevicesSound, DevicesTyped
    <3>3. ~muddled => Settled
      BY <1>5, <3>1 DEF DevicesSound, AloneFits
    <3>4. Settled' <=> Settled
      BY <1>3 DEF Settled, AtMostOne, P!Of, P!Active
    <3>5. g.does \in {"look", "list"}
      BY <1>4, <3>1
    <3> QED BY <3>2, <3>3, <3>4, <3>5 DEF Fits
  <2> QED BY <2>1, <2>2 DEF AloneFits
<1>13. DevicesSound'
  BY <1>3, <1>5, <1>8, <1>9, <1>10, <1>11, <1>12 DEF DevicesSound
<1>14. left' \in Counts
  BY <1>3, SpendFacts DEF P!Page
<1>15. PushesFit'
  BY <1>14 DEF P!Page, PushSound, PushesFit, SendingTyped
<1> QED BY <1>13, <1>15 DEF PushSound

LEMMA PushStep == ASSUME PushSound, P!Next \/ UNCHANGED P!vars PROVE PushSound'
<1>1. CASE P!Expire \/ UNCHANGED P!vars
  <2>1. /\ UNCHANGED <<devices, newest, calls, owner, muddled, failed, revived>>
        /\ UNCHANGED <<session, left, pref, sending, pushed>>
    BY <1>1 DEF P!Expire, P!vars, P!server
  <2>2. PushesFit'
    BY <2>1 DEF PushSound, PushesFit, SendingTyped
  <2> QED BY <2>1, <2>2, DevicesKept DEF PushSound
<1> QED BY <1>1, MessageStep, SendStep, HandleCallStep, PageStep DEF P!Next

LEMMA PushGivesInvariant == ASSUME PushSound PROVE PushInvariant
<1>1. P!TypeOK
  BY DEF PushSound, DevicesSound, DevicesTyped, DeviceRows, PushesFit, SendingTyped, P!TypeOK
<1>2. P!OneRowEach
  <2>1. ASSUME ~revived, calls = {}, NEW u \in Users PROVE P!Cardinality(P!Of(u)) <= 1
    <3>1. AtMostOne(u)
      BY <2>1 DEF PushSound, DevicesSound, DedupeComes
    <3>2. P!Of(u) = {} \/ \E r : P!Of(u) = {r}
      BY <3>1 DEF AtMostOne
    <3>3. Cardinality(P!Of(u)) <= 1
      BY <3>2, FS_EmptySet, FS_Singleton
    <3>4. P!Cardinality(P!Of(u)) = Cardinality(P!Of(u))
      BY DEF P!Cardinality, Cardinality
    <3> QED BY <3>3, <3>4
  <2> QED BY <2>1 DEF P!OneRowEach, PushSound, DevicesSound
<1>3. P!OneOwner
  BY DEF P!OneOwner, PushSound, DevicesSound, AloneFits, Settled
<1>4. P!ShownToItsAddressee /\ P!UnsubscribedIsLeftAlone
  BY DEF P!ShownToItsAddressee, P!UnsubscribedIsLeftAlone, PushSound, PushesFit, SendingTyped
<1> QED BY <1>1, <1>2, <1>3, <1>4 DEF PushInvariant, P!PushInvariant

(* Push: however pages register and unregister the browser at once, no     *)
(* member is left with two rows, unless a row came back; the browser is    *)
(* its last owner's alone, and what is shown there is its addressee's who  *)
(* has not unsubscribed.                                                   *)
THEOREM PushInvariantHolds ==
    ASSUME BudgetsAreCounts
    PROVE  ChatSpec => []PushInvariant
<1>1. ChatInit => PushSound
  BY PushInit DEF ChatInit
<1>2. PushSound /\ [ChatNext]_all => PushSound'
  <2> SUFFICES ASSUME PushSound, [ChatNext]_all PROVE PushSound'
    OBVIOUS
  <2>1. P!Next \/ UNCHANGED P!vars
    BY DEF ChatNext, QueueNext, RoomNext, DirectNext, ScreenNext, MessageNext, PushNext, FederationNext,
           all, device, P!vars, P!server
  <2> QED BY <2>1, PushStep
<1>3. PushSound => PushInvariant
  BY PushGivesInvariant
<1> QED BY <1>1, <1>2, <1>3, PTL DEF ChatSpec

-----------------------------------------------------------------------------
(* One telephone                                                           *)

RoomOrNone == Rooms \cup {None}
Orders == [command : {"join"}, room : Rooms, trace : Nat \ {0}] \cup [command : {"send"}, room : RoomOrNone, trace : {0}]
Views ==
  [panel : {"list", "room"}, requested : RoomOrNone, current : RoomOrNone, hash : RoomOrNone, failed : RoomOrNone,
   joining : [room : RoomOrNone, preserve : BOOLEAN, trace : Nat],
   waiting : [room : RoomOrNone, preserve : BOOLEAN, trace : {0}],
   out : Seq(Orders)]

NoJoinIn(s) == \A i \in DOMAIN s : s[i].command # "join"
LastJoinIs(s, r) ==
  \E i \in DOMAIN s : s[i].command = "join" /\ s[i].room = r /\ \A j \in DOMAIN s : j > i => s[j].command # "join"

(* What is sent i-th finds its room joined when it is read.                *)
Before(s, held, i) ==
  \/ \E k \in 1..(i - 1) : /\ s[k].command = "join" /\ s[k].room = s[i].room
                           /\ \A j \in (k + 1)..(i - 1) : s[j].command # "join"
  \/ (\A k \in 1..(i - 1) : s[k].command # "join") /\ s[i].room \in held

ScreenTyped ==
  /\ view \in Views /\ view.out = <<>> /\ up \in BOOLEAN /\ opened \in BOOLEAN
  /\ queued \in Seq(Orders) /\ socket \in Seq(Orders) /\ answers \in Seq([trace : Nat \ {0}, ok : BOOLEAN])
  /\ joined \subseteq Rooms /\ trace \in Nat

Locks(v) ==
  /\ V!locked(v) => v.current = None /\ v.joining.room \in Rooms
  /\ ~V!locked(v) => v.waiting = V!NoJoin
  /\ v.waiting # V!NoJoin => v.waiting.room \in Rooms

Newest(v) ==
  v.requested # None =>
    IF v.waiting # V!NoJoin THEN v.requested = v.waiting.room
    ELSE IF V!locked(v) THEN v.requested = v.joining.room
    ELSE v.current \in {None, v.requested}

ConnFits ==
  /\ up => opened /\ queued = <<>>
  /\ ~up => socket = <<>> /\ answers = <<>>
  /\ view.current # None => opened

(* The join the tab waits for is on its way, or was granted.               *)
Asked == \/ \E i \in DOMAIN socket : socket[i].command = "join" /\ socket[i].trace = view.joining.trace
         \/ \E i \in DOMAIN answers : answers[i].trace = view.joining.trace /\ answers[i].ok

(* The server will have the reader in this room.                           *)
Leads(r) == LastJoinIs(socket, r) \/ (NoJoinIn(socket) /\ joined = {r})

Links ==
  /\ up /\ V!locked(view) /\ Asked /\ view.joining.room \notin barred => Leads(view.joining.room)
  /\ up /\ view.current \notin barred \cup {None} => Leads(view.current)
  /\ view.current # None => NoJoinIn(queued)
  /\ V!locked(view) /\ ~NoJoinIn(queued) => LastJoinIs(queued, view.joining.room)
  /\ ~V!locked(view) /\ view.requested # None /\ ~NoJoinIn(queued) => LastJoinIs(queued, view.requested)

Written ==
  strayed \/
  /\ \A i \in DOMAIN queued : queued[i].command = "send" /\ queued[i].room \in Rooms => queued[i].room = view.current
  /\ \A i \in DOMAIN socket : socket[i].command = "send" /\ socket[i].room \in Rooms \ barred => Before(socket, joined, i)
  /\ ~refused

ScreenSound == ScreenTyped /\ Locks(view) /\ Newest(view) /\ ConnFits /\ Links /\ Written

(* The view                                                                *)
Still(v, w) ==
  /\ w \in Views /\ Locks(w) /\ Newest(w) /\ w.out = <<>> /\ w.current = v.current /\ w.joining = v.joining
  /\ w.requested \in {v.requested, None} \/ V!locked(v) \/ w.requested = v.current
Started(w) ==
  /\ w \in Views /\ Locks(w) /\ Newest(w) /\ V!locked(w) /\ w.current = None
  /\ w.out = <<V!joinRoom(w.joining.room, trace + 1)>>
Freed(v, w) ==
  /\ w \in Views /\ Locks(w) /\ Newest(w) /\ w.out = <<>> /\ V!locked(v) /\ ~V!locked(w)
  /\ w.current = v.current /\ w.requested \in {v.joining.room, None}

LEMMA NoJoinFacts == V!NoJoin = [room |-> None, preserve |-> FALSE, trace |-> 0]
BY DEF V!NoJoin

LEMMA StartJoinFacts ==
    ASSUME None \notin Rooms, trace \in Nat, NEW v \in Views, v.out = <<>>, v.waiting = V!NoJoin,
           NEW r \in Rooms, NEW p \in BOOLEAN, v.requested \in {None, r}
    PROVE  Started(V!StartJoin(v, r, p)) /\ V!StartJoin(v, r, p).joining.room = r
<1>1. PICK o : o = V!joinRoom(r, trace + 1)
  OBVIOUS
<1>2. o \in Orders /\ o.room = r
  BY <1>1 DEF V!joinRoom, Orders
<1>3. PICK g : g = [room |-> r, preserve |-> p, trace |-> trace + 1]
  OBVIOUS
<1>4. g.room = r /\ g \in [room : RoomOrNone, preserve : BOOLEAN, trace : Nat] /\ g # V!NoJoin
  BY <1>3, NoJoinFacts DEF RoomOrNone
<1>5. PICK w : w = V!StartJoin(v, r, p)
  OBVIOUS
<1>6. w = [v EXCEPT !.current = None, !.joining = g, !.out = <<o>>]
  <2>1. Append(v.out, o) = <<o>>
    OBVIOUS
  <2> QED BY <1>1, <1>3, <1>5, <2>1 DEF V!StartJoin, V!onRoomTryLeave, Views
<1>7. /\ w \in Views /\ w.current = None /\ w.joining = g /\ w.out = <<o>>
      /\ w.waiting = v.waiting /\ w.requested = v.requested
  <2>1. <<o>> \in Seq(Orders)
    BY <1>2
  <2> QED BY <1>4, <1>6, <2>1 DEF Views, RoomOrNone
<1>8. V!locked(w) /\ Locks(w) /\ Newest(w)
  BY <1>4, <1>7 DEF V!locked, Locks, Newest
<1> QED BY <1>1, <1>4, <1>5, <1>7, <1>8 DEF Started

LEMMA TryJoinFacts ==
    ASSUME None \notin Rooms, trace \in Nat, NEW v \in Views, v.out = <<>>, Locks(v), NEW r \in Rooms, NEW p \in BOOLEAN
    PROVE  /\ Started(V!onRoomTryJoin(v, r, p)) \/ Still(v, V!onRoomTryJoin(v, r, p))
           /\ ~V!locked(v) /\ r # v.current =>
                Started(V!onRoomTryJoin(v, r, p)) /\ V!onRoomTryJoin(v, r, p).joining.room = r
<1>1. PICK u : u = [v EXCEPT !.requested = r]
  OBVIOUS
<1>2. /\ u \in Views /\ u.out = <<>> /\ u.current = v.current /\ u.joining = v.joining /\ u.waiting = v.waiting
      /\ u.requested = r
  BY <1>1 DEF Views, RoomOrNone
<1>3. CASE r = v.current
  <2>1. PICK w : w = V!onRoomTryJoin(v, r, p)
    OBVIOUS
  <2>2. w = [u EXCEPT !.panel = "room"]
    BY <1>1, <1>3, <2>1 DEF V!onRoomTryJoin
  <2>3. /\ w \in Views /\ w.out = <<>> /\ w.current = v.current /\ w.joining = v.joining /\ w.waiting = v.waiting
        /\ w.requested = r
    BY <1>2, <2>2 DEF Views
  <2>4. Locks(w) /\ Newest(w)
    BY <1>3, <2>3 DEF Locks, Newest, V!locked
  <2>5. Still(v, w)
    BY <1>3, <2>3, <2>4 DEF Still
  <2> QED BY <1>3, <2>1, <2>5
<1>4. CASE r # v.current /\ V!locked(v)
  <2>1. PICK w : w = V!onRoomTryJoin(v, r, p)
    OBVIOUS
  <2>2. PICK g : g = [room |-> r, preserve |-> p, trace |-> 0]
    OBVIOUS
  <2>3. g.room = r /\ g \in [room : RoomOrNone, preserve : BOOLEAN, trace : {0}] /\ g # V!NoJoin
    BY <2>2, NoJoinFacts DEF RoomOrNone
  <2>4. V!locked(u)
    BY <1>2, <1>4 DEF V!locked
  <2>5. w = [u EXCEPT !.waiting = g]
    BY <1>1, <1>4, <2>1, <2>2, <2>4 DEF V!onRoomTryJoin
  <2>6. /\ w \in Views /\ w.out = <<>> /\ w.current = v.current /\ w.joining = v.joining /\ w.waiting = g
        /\ w.requested = r
    BY <1>2, <2>3, <2>5 DEF Views
  <2>7. Locks(w) /\ Newest(w)
    BY <1>4, <2>3, <2>6 DEF Locks, Newest, V!locked
  <2>8. Still(v, w)
    BY <1>4, <2>6, <2>7 DEF Still
  <2> QED BY <1>4, <2>1, <2>8
<1>5. CASE r # v.current /\ ~V!locked(v)
  <2>1. ~V!locked(u)
    BY <1>2, <1>5 DEF V!locked
  <2>2. V!onRoomTryJoin(v, r, p) = V!StartJoin(u, r, p)
    BY <1>1, <1>5, <2>1 DEF V!onRoomTryJoin
  <2>3. u.waiting = V!NoJoin
    BY <1>2, <1>5 DEF Locks
  <2> QED BY <1>2, <2>2, <2>3, StartJoinFacts
<1> QED BY <1>3, <1>4, <1>5

LEMMA UnlockFacts ==
    ASSUME None \notin Rooms, trace \in Nat, NEW v \in Views, v.out = <<>>, V!locked(v),
           v.waiting # V!NoJoin => v.waiting.room \in Rooms,
           v.requested # None => v.requested = IF v.waiting # V!NoJoin THEN v.waiting.room ELSE v.joining.room,
           v.current \in {None, v.joining.room}
    PROVE  Started(V!unlock(v)) \/ Freed(v, V!unlock(v))
<1>1. PICK u : u = [v EXCEPT !.joining = V!NoJoin, !.waiting = V!NoJoin]
  OBVIOUS
<1>2. /\ u \in Views /\ u.out = <<>> /\ u.current = v.current /\ u.joining = V!NoJoin /\ u.waiting = V!NoJoin
      /\ u.requested = v.requested
  <2>1. /\ V!NoJoin \in [room : RoomOrNone, preserve : BOOLEAN, trace : Nat]
        /\ V!NoJoin \in [room : RoomOrNone, preserve : BOOLEAN, trace : {0}]
    BY NoJoinFacts DEF RoomOrNone
  <2>2. u \in Views BY <1>1, <2>1 DEF Views
  <2> QED BY <1>1, <2>2 DEF Views
<1>3. CASE v.waiting = V!NoJoin
  <2>1. V!unlock(v) = u
    BY <1>1, <1>3 DEF V!unlock
  <2>2. Locks(u) /\ Newest(u) /\ ~V!locked(u)
    BY <1>2, <1>3 DEF Locks, Newest, V!locked
  <2> QED BY <1>2, <1>3, <2>1, <2>2 DEF Freed
<1>4. CASE v.waiting # V!NoJoin
  <2>1. V!unlock(v) = V!StartJoin(u, v.waiting.room, v.waiting.preserve)
    BY <1>1, <1>4 DEF V!unlock
  <2>2. v.waiting.preserve \in BOOLEAN
    BY DEF Views
  <2>3. u.requested \in {None, v.waiting.room}
    BY <1>2, <1>4
  <2> QED BY <1>2, <1>4, <2>1, <2>2, <2>3, StartJoinFacts
<1> QED BY <1>3, <1>4


(* The sequences                                                           *)
LEMMA OneMore ==
    ASSUME NEW s \in Seq(Orders), NEW o \in Orders
    PROVE  /\ s \o <<o>> \in Seq(Orders) /\ DOMAIN (s \o <<o>>) = 1..(Len(s) + 1)
           /\ \A i \in DOMAIN s : i \in 1..Len(s) /\ (s \o <<o>>)[i] = s[i]
           /\ (s \o <<o>>)[Len(s) + 1] = o /\ Len(s) \in Nat /\ DOMAIN s = 1..Len(s)
OBVIOUS

LEMMA JoinAdded ==
    ASSUME NEW s \in Seq(Orders), NEW o \in Orders, o.command = "join"
    PROVE  LastJoinIs(s \o <<o>>, o.room) /\ ~NoJoinIn(s \o <<o>>)
<1> DEFINE t == s \o <<o>>
<1>1. DOMAIN t = 1..(Len(s) + 1) /\ t[Len(s) + 1] = o /\ Len(s) \in Nat
  BY OneMore
<1> HIDE DEF t
<1>2. LastJoinIs(t, o.room) /\ ~NoJoinIn(t)
  BY <1>1 DEF LastJoinIs, NoJoinIn
<1> QED BY <1>2 DEF t

LEMMA SendAdded ==
    ASSUME NEW s \in Seq(Orders), NEW o \in Orders, o.command = "send"
    PROVE  /\ NoJoinIn(s) <=> NoJoinIn(s \o <<o>>)
           /\ \A r : LastJoinIs(s, r) => LastJoinIs(s \o <<o>>, r)
<1> DEFINE t == s \o <<o>>
<1>1. /\ DOMAIN t = 1..(Len(s) + 1) /\ t[Len(s) + 1] = o /\ Len(s) \in Nat /\ DOMAIN s = 1..Len(s)
      /\ \A i \in DOMAIN s : t[i] = s[i]
  BY OneMore
<1> HIDE DEF t
<1>2. \A i \in DOMAIN t : i \in DOMAIN s \/ i = Len(s) + 1
  BY <1>1
<1>3. \A i \in DOMAIN s : i \in DOMAIN t
  BY <1>1
<1>4. NoJoinIn(s) <=> NoJoinIn(t)
  BY <1>1, <1>2, <1>3 DEF NoJoinIn
<1>5. \A r : LastJoinIs(s, r) => LastJoinIs(t, r)
  BY <1>1, <1>2, <1>3 DEF LastJoinIs
<1> QED BY <1>4, <1>5 DEF t

LEMMA BeforeStays ==
    ASSUME NEW s \in Seq(Orders), NEW o \in Orders, NEW held, NEW i \in DOMAIN s, Before(s, held, i)
    PROVE  Before(s \o <<o>>, held, i)
<1> DEFINE t == s \o <<o>>
<1>1. DOMAIN s = 1..Len(s) /\ Len(s) \in Nat /\ \A j \in DOMAIN s : t[j] = s[j]
  BY OneMore
<1>2. \A j \in 1..(i - 1) : j \in DOMAIN s
  BY <1>1
<1>3. \A k \in 1..(i - 1) : \A j \in (k + 1)..(i - 1) : j \in DOMAIN s
  BY <1>1
<1> HIDE DEF t
<1>4. Before(t, held, i)
  BY <1>1, <1>2, <1>3 DEF Before
<1> QED BY <1>4 DEF t

(* What the tab sends                                                      *)
Kept == /\ UNCHANGED <<up, opened, joined, barred, refused>>
        /\ answers' \in Seq([trace : Nat \ {0}, ok : BOOLEAN]) /\ (~up => answers' = <<>>)
        /\ strayed => strayed'

LEMMA SentNothing ==
    ASSUME ScreenTyped, NEW w \in Views, w.out = <<>>, V!send(w)
    PROVE  view' = w /\ UNCHANGED <<trace, socket, queued>>
<1>1. [w EXCEPT !.out = <<>>] = w
  BY DEF Views
<1>2. socket \o <<>> = socket /\ queued \o <<>> = queued
  BY DEF ScreenTyped
<1>3. ~\E i \in DOMAIN w.out : w.out[i].trace > trace
  OBVIOUS
<1> QED BY <1>1, <1>2, <1>3 DEF V!send

LEMMA StillStep ==
    ASSUME ScreenSound, NEW w, Still(view, w), V!send(w), Kept,
           (\E i \in DOMAIN answers' : answers'[i].trace = view.joining.trace /\ answers'[i].ok) =>
             \E i \in DOMAIN answers : answers[i].trace = view.joining.trace /\ answers[i].ok
    PROVE  ScreenSound'
<1>1. view' = w /\ UNCHANGED <<trace, socket, queued>> /\ UNCHANGED <<up, opened, joined, barred, refused>>
  BY SentNothing DEF ScreenSound, Still, Kept
<1>2. ScreenTyped'
  BY <1>1 DEF ScreenSound, ScreenTyped, Still, Kept
<1>3. Locks(view)' /\ Newest(view)'
  BY <1>1 DEF Still, Locks, Newest, V!locked
<1>4. ConnFits'
  BY <1>1 DEF ScreenSound, ConnFits, Still, Kept
<1>5. view'.joining = view.joining /\ view'.current = view.current /\ (V!locked(view)' <=> V!locked(view))
  BY <1>1 DEF Still, V!locked
<1>6. Asked' => Asked
  BY <1>1, <1>5 DEF Asked
<1>7. /\ \A s : NoJoinIn(s)' <=> NoJoinIn(s)
      /\ \A r : Leads(r)' <=> Leads(r)
  BY <1>1 DEF NoJoinIn, Leads, LastJoinIs
<1>8. ~V!locked(view) /\ view'.requested # None /\ ~NoJoinIn(queued) => view'.requested = view.requested
  BY <1>1 DEF Still, ScreenSound, Links
<1>9. Links'
  BY <1>1, <1>5, <1>6, <1>7, <1>8 DEF ScreenSound, Links, NoJoinIn, LastJoinIs
<1>10. Written'
  BY <1>1, <1>5 DEF ScreenSound, Written, Before, Kept
<1> QED BY <1>2, <1>3, <1>4, <1>9, <1>10 DEF ScreenSound


LEMMA StartedStep ==
    ASSUME ScreenSound, None \notin Rooms, NEW w, Started(w), V!send(w), Kept,
           strayed' \/ view.current = None \/ \A i \in DOMAIN queued : queued[i].command # "send"
    PROVE  ScreenSound'
<1>1. PICK o : o = V!joinRoom(w.joining.room, trace + 1)
  OBVIOUS
<1>2. /\ w \in Views /\ Locks(w) /\ Newest(w) /\ V!locked(w) /\ w.current = None /\ w.out = <<o>>
      /\ w.joining.room \in Rooms
  BY <1>1 DEF Started, Locks
<1>3. o \in Orders /\ o.command = "join" /\ o.room = w.joining.room /\ o.trace = trace + 1 /\ trace \in Nat
  BY <1>1, <1>2 DEF V!joinRoom, Orders, ScreenSound, ScreenTyped
<1>4. trace' = trace + 1
  <2>1. 1 \in DOMAIN w.out /\ w.out[1].trace = trace + 1
    BY <1>2, <1>3
  <2>2. \E i \in DOMAIN w.out : w.out[i].trace > trace
    BY <1>3, <2>1
  <2> QED BY <2>2 DEF V!send
<1>5. /\ IF up THEN socket' = socket \o <<o>> /\ queued' = queued
                ELSE queued' = queued \o <<o>> /\ socket' = socket
      /\ UNCHANGED <<up, opened, joined, barred, refused>>
  BY <1>2 DEF V!send, Kept
<1>6. /\ view' \in Views /\ view'.out = <<>> /\ view'.current = None /\ view'.joining = w.joining
      /\ view'.waiting = w.waiting /\ view'.requested = w.requested
  <2>1. view' = [w EXCEPT !.out = <<>>] /\ <<>> \in Seq(Orders)
    BY DEF V!send
  <2> QED BY <1>2, <2>1 DEF Views
<1>7. queued \in Seq(Orders) /\ socket \in Seq(Orders)
  BY DEF ScreenSound, ScreenTyped
<1>8. ScreenTyped'
  <2>1. queued \o <<o>> \in Seq(Orders) /\ socket \o <<o>> \in Seq(Orders)
    BY <1>3, <1>7, OneMore
  <2>2. queued' \in Seq(Orders) /\ socket' \in Seq(Orders)
    BY <1>5, <1>7, <2>1
  <2> QED BY <1>3, <1>4, <1>5, <1>6, <2>2 DEF ScreenSound, ScreenTyped, Kept
<1>9. Locks(view)' /\ Newest(view)' /\ V!locked(view)'
  BY <1>2, <1>6 DEF Locks, Newest, V!locked
<1>10. ConnFits'
  BY <1>5, <1>6 DEF ScreenSound, ConnFits, Kept
<1>11. /\ up => LastJoinIs(socket', w.joining.room) /\ NoJoinIn(queued')
       /\ ~up => LastJoinIs(queued', w.joining.room)
  <2>1. up => NoJoinIn(queued')
    BY <1>5 DEF ScreenSound, ConnFits, NoJoinIn
  <2> QED BY <1>3, <1>5, <1>7, <2>1, JoinAdded
<1>12. Links'
  <2>1. LastJoinIs(socket', w.joining.room) => Leads(w.joining.room)'
    BY DEF Leads, LastJoinIs
  <2>2. /\ view'.current = None /\ V!locked(view)' /\ view'.joining.room = w.joining.room /\ up' = up
        /\ LastJoinIs(queued', w.joining.room) \/ NoJoinIn(queued')
    BY <1>5, <1>6, <1>9, <1>11
  <2>3. up => Leads(w.joining.room)'
    BY <1>11, <2>1
  <2> QED BY <2>2, <2>3 DEF Links, LastJoinIs, NoJoinIn
<1>13. Written'
  <2> SUFFICES ASSUME ~strayed' PROVE Written'
    BY DEF Written
  <2>1. ~strayed
    BY DEF Kept
  <2>2. /\ \A i \in DOMAIN queued : queued[i].command = "send" => queued[i].room \notin Rooms
        /\ \A i \in DOMAIN socket : socket[i].command = "send" /\ socket[i].room \in Rooms \ barred => Before(socket, joined, i)
        /\ ~refused
    <3>1. view.current = None => \A i \in DOMAIN queued : queued[i].command = "send" => queued[i].room \notin Rooms
      BY <2>1, <1>2 DEF ScreenSound, Written
    <3> QED BY <2>1, <3>1 DEF ScreenSound, Written
  <2>3. \A i \in DOMAIN queued' : queued'[i].command = "send" => queued'[i].room \notin Rooms
    <3>1. CASE up
      BY <1>5, <2>2, <3>1 DEF ScreenSound, ConnFits
    <3>2. CASE ~up
      <4>1. queued' = queued \o <<o>>
        BY <1>5, <3>2
      <4>2. \A i \in DOMAIN queued' : queued'[i] = o \/ (i \in DOMAIN queued /\ queued'[i] = queued[i])
        BY <1>3, <1>7, <4>1, OneMore
      <4> QED BY <1>3, <2>2, <4>2
    <3> QED BY <3>1, <3>2
  <2>4. ASSUME NEW i \in DOMAIN socket', socket'[i].command = "send", socket'[i].room \in Rooms \ barred
        PROVE  Before(socket', joined, i)
    <3>1. CASE ~up
      BY <1>5, <2>2, <2>4, <3>1
    <3>2. CASE up
      <4>1. i \in DOMAIN socket /\ socket'[i] = socket[i]
        BY <1>3, <1>5, <1>7, <2>4, <3>2, OneMore
      <4>2. Before(socket, joined, i)
        BY <2>2, <2>4, <4>1
      <4> QED BY <1>3, <1>5, <1>7, <3>2, <4>1, <4>2, BeforeStays
    <3> QED BY <3>1, <3>2
  <2>5. \A i : Before(socket', joined, i) => Before(socket, joined, i)'
    BY <1>5 DEF Before
  <2> QED BY <1>5, <2>2, <2>3, <2>4, <2>5 DEF Written
<1> QED BY <1>8, <1>9, <1>10, <1>12, <1>13 DEF ScreenSound

LEMMA FreedStep ==
    ASSUME ScreenSound, NEW v, v.joining = view.joining, NEW w, Freed(v, w), V!send(w), Kept,
           w.current # None => up /\ (w.current \notin barred => Leads(w.current))
    PROVE  ScreenSound'
<1>1. view' = w /\ UNCHANGED <<trace, socket, queued>> /\ UNCHANGED <<up, opened, joined, barred, refused>>
  BY SentNothing DEF ScreenSound, Freed, Kept
<1>2. ScreenTyped'
  BY <1>1 DEF ScreenSound, ScreenTyped, Freed, Kept
<1>3. Locks(view)' /\ Newest(view)' /\ ~V!locked(view)'
  BY <1>1 DEF Freed, Locks, Newest, V!locked
<1>4. view.current = None /\ V!locked(view)
  BY DEF Freed, ScreenSound, Locks, V!locked
<1>5. ConnFits'
  BY <1>1 DEF ScreenSound, ConnFits, Kept
<1>6. /\ \A r : Leads(r)' <=> Leads(r)
      /\ NoJoinIn(queued)' <=> NoJoinIn(queued)
      /\ \A r : LastJoinIs(queued, r)' <=> LastJoinIs(queued, r)
  BY <1>1 DEF NoJoinIn, Leads, LastJoinIs
<1>7. w.current # None => queued = <<>>
  BY DEF ScreenSound, ConnFits
<1>8. Links'
  <2>1. view'.current # None => NoJoinIn(queued)'
    BY <1>1, <1>7 DEF NoJoinIn
  <2>2. view'.requested # None /\ ~NoJoinIn(queued)' => LastJoinIs(queued, view.joining.room) /\ view'.requested = view.joining.room
    BY <1>1, <1>4, <1>6 DEF Freed, ScreenSound, Links
  <2>3. view'.requested # None /\ ~NoJoinIn(queued)' => LastJoinIs(queued', view'.requested)
    BY <1>1, <2>2
  <2>4. up' /\ view'.current \notin barred' \cup {None} => Leads(view'.current)
    BY <1>1
  <2>5. up' /\ view'.current \notin barred' \cup {None} => Leads(view.current)'
    BY <1>1, <1>6, <2>4 DEF NoJoinIn, Leads, LastJoinIs
  <2>6. LastJoinIs(queued', view'.requested) => LastJoinIs(queued, view.requested)'
    BY DEF LastJoinIs
  <2> QED BY <1>3, <2>1, <2>3, <2>5, <2>6 DEF Links
<1>9. Written'
  BY <1>1, <1>4, <1>7 DEF ScreenSound, Written, Before, Kept
<1> QED BY <1>2, <1>3, <1>5, <1>8, <1>9 DEF ScreenSound


(* What is written in the room on the screen.                              *)
LEMMA MessageSent ==
    ASSUME ScreenSound, None \notin Rooms, V!send([view EXCEPT !.out = <<V!sendMessage(view.current)>>]),
           Kept, answers' = answers
    PROVE  ScreenSound'
<1>1. PICK o : o = V!sendMessage(view.current)
  OBVIOUS
<1>2. PICK w : w = [view EXCEPT !.out = <<o>>]
  OBVIOUS
<1>3. o \in Orders /\ o.command = "send" /\ o.room = view.current /\ o.trace = 0
  BY <1>1 DEF V!sendMessage, Orders, ScreenSound, ScreenTyped, Views
<1>4. w.out = <<o>> /\ [w EXCEPT !.out = <<>>] = view
  BY <1>2 DEF ScreenSound, ScreenTyped, Views
<1>5. V!send(w)
  BY <1>1, <1>2
<1>6. view' = view /\ trace' = trace
  <2>1. ~\E i \in DOMAIN w.out : w.out[i].trace > trace
    BY <1>3, <1>4 DEF ScreenSound, ScreenTyped
  <2> QED BY <1>4, <1>5, <2>1 DEF V!send
<1>7. /\ IF up THEN socket' = socket \o <<o>> /\ queued' = queued
                ELSE queued' = queued \o <<o>> /\ socket' = socket
      /\ UNCHANGED <<up, opened, joined, barred, refused>>
  BY <1>4, <1>5 DEF V!send, Kept
<1>8. queued \in Seq(Orders) /\ socket \in Seq(Orders)
  BY DEF ScreenSound, ScreenTyped
<1>9. ScreenTyped'
  <2>1. queued \o <<o>> \in Seq(Orders) /\ socket \o <<o>> \in Seq(Orders)
    BY <1>3, <1>8, OneMore
  <2>2. queued' \in Seq(Orders) /\ socket' \in Seq(Orders)
    BY <1>7, <1>8, <2>1
  <2> QED BY <1>6, <1>7, <2>2 DEF ScreenSound, ScreenTyped, Kept
<1>10. Locks(view)' /\ Newest(view)' /\ ConnFits'
  BY <1>6, <1>7 DEF ScreenSound, Locks, Newest, V!locked, ConnFits, Kept
<1>11. /\ \A r : LastJoinIs(socket, r) => LastJoinIs(socket', r)
       /\ \A r : LastJoinIs(queued, r) => LastJoinIs(queued', r)
       /\ NoJoinIn(socket) <=> NoJoinIn(socket')
       /\ NoJoinIn(queued) <=> NoJoinIn(queued')
  BY <1>3, <1>7, <1>8, SendAdded
<1>12. \A r : Leads(r) => Leads(r)'
  <2>1. \A r : Leads(r)' <=> LastJoinIs(socket', r) \/ (NoJoinIn(socket') /\ joined' = {r})
    BY DEF Leads, LastJoinIs, NoJoinIn
  <2> QED BY <1>7, <1>11, <2>1 DEF Leads
<1>13. Asked' => Asked
  <2>1. \A i \in DOMAIN socket' : socket'[i] = o \/ (i \in DOMAIN socket /\ socket'[i] = socket[i])
    BY <1>3, <1>7, <1>8, OneMore
  <2> QED BY <1>3, <1>6, <2>1 DEF Asked
<1>14. Links'
  <2>1. V!locked(view)' <=> V!locked(view)
    BY <1>6 DEF V!locked
  <2>2. /\ NoJoinIn(queued)' <=> NoJoinIn(queued')
        /\ \A r : LastJoinIs(queued, r)' <=> LastJoinIs(queued', r)
    BY DEF LastJoinIs, NoJoinIn
  <2>3. /\ up' /\ V!locked(view)' /\ Asked' /\ view'.joining.room \notin barred' => Leads(view.joining.room)'
        /\ up' /\ view'.current \notin barred' \cup {None} => Leads(view.current)'
    <3>1. view'.joining.room = view.joining.room /\ view'.current = view.current
      BY <1>6
    <3>2. \A r : Leads(r)' <=> LastJoinIs(socket', r) \/ (NoJoinIn(socket') /\ joined' = {r})
      BY DEF Leads, LastJoinIs, NoJoinIn
    <3>3. /\ Leads(view.joining.room)' <=> LastJoinIs(socket', view'.joining.room) \/ (NoJoinIn(socket') /\ joined' = {view'.joining.room})
          /\ Leads(view.current)' <=> LastJoinIs(socket', view'.current) \/ (NoJoinIn(socket') /\ joined' = {view'.current})
      BY DEF Leads, LastJoinIs, NoJoinIn
    <3> QED BY <1>7, <1>12, <1>13, <2>1, <3>1, <3>2, <3>3 DEF ScreenSound, Links
  <2>4. /\ LastJoinIs(queued, view.joining.room)' <=> LastJoinIs(queued', view'.joining.room)
        /\ LastJoinIs(queued, view.requested)' <=> LastJoinIs(queued', view'.requested)
    BY DEF LastJoinIs
  <2> QED BY <1>6, <1>11, <2>1, <2>2, <2>3, <2>4 DEF ScreenSound, Links
<1>15. Written'
  <2> SUFFICES ASSUME ~strayed' PROVE Written'
    BY DEF Written
  <2>1. ~strayed
    BY DEF Kept
  <2>2. /\ \A i \in DOMAIN queued : queued[i].command = "send" /\ queued[i].room \in Rooms => queued[i].room = view.current
        /\ \A i \in DOMAIN socket : socket[i].command = "send" /\ socket[i].room \in Rooms \ barred => Before(socket, joined, i)
        /\ ~refused
    BY <2>1 DEF ScreenSound, Written
  <2>3. \A i \in DOMAIN queued' : queued'[i] = o \/ (i \in DOMAIN queued /\ queued'[i] = queued[i])
    BY <1>3, <1>7, <1>8, OneMore
  <2>4. ASSUME NEW i \in DOMAIN socket', socket'[i].command = "send", socket'[i].room \in Rooms \ barred
        PROVE  Before(socket', joined, i)
    <3>1. CASE ~up
      BY <1>7, <2>2, <2>4, <3>1
    <3>2. CASE up /\ i \in DOMAIN socket
      <4>1. socket'[i] = socket[i]
        BY <1>3, <1>7, <1>8, <3>2, OneMore
      <4>2. Before(socket, joined, i)
        BY <2>2, <2>4, <3>2, <4>1
      <4> QED BY <1>3, <1>7, <1>8, <3>2, <4>2, BeforeStays
    <3>3. CASE up /\ i \notin DOMAIN socket
      <4>1. /\ socket' = socket \o <<o>> /\ i = Len(socket) + 1 /\ socket'[i] = o /\ Len(socket) \in Nat
            /\ DOMAIN socket = 1..Len(socket) /\ \A j \in DOMAIN socket : socket'[j] = socket[j]
        BY <1>3, <1>7, <1>8, <2>4, <3>3, OneMore
      <4>2. Leads(view.current)
        BY <1>3, <2>4, <3>3, <4>1 DEF ScreenSound, Links
      <4>3. CASE NoJoinIn(socket) /\ joined = {view.current}
        BY <1>3, <4>1, <4>3 DEF Before, NoJoinIn
      <4>4. CASE LastJoinIs(socket, view.current)
        <5>1. PICK k \in DOMAIN socket : /\ socket[k].command = "join" /\ socket[k].room = view.current
                                         /\ \A j \in DOMAIN socket : j > k => socket[j].command # "join"
          BY <4>4 DEF LastJoinIs
        <5>2. k \in 1..(i - 1) /\ \A j \in (k + 1)..(i - 1) : j \in DOMAIN socket /\ j > k
          BY <4>1, <5>1
        <5> QED BY <1>3, <4>1, <5>1, <5>2 DEF Before
      <4> QED BY <4>2, <4>3, <4>4 DEF Leads
    <3> QED BY <3>1, <3>2, <3>3
  <2>5. \A i : Before(socket', joined, i) => Before(socket, joined, i)'
    BY <1>7 DEF Before
  <2> QED BY <1>3, <1>6, <1>7, <2>2, <2>3, <2>4, <2>5 DEF Written
<1> QED BY <1>9, <1>10, <1>14, <1>15 DEF ScreenSound


LEMMA JoinFirst ==
    ASSUME NEW s \in Seq(Orders), NEW o \in Orders
    PROVE  /\ <<o>> \o s \in Seq(Orders) /\ DOMAIN (<<o>> \o s) = 1..(Len(s) + 1) /\ DOMAIN s = 1..Len(s)
           /\ (<<o>> \o s)[1] = o /\ Len(s) \in Nat
           /\ \A i \in 1..(Len(s) + 1) : i # 1 => i - 1 \in DOMAIN s /\ (<<o>> \o s)[i] = s[i - 1]
OBVIOUS

LEMMA TailOf ==
    ASSUME NEW S, NEW s \in Seq(S), s # <<>>
    PROVE  /\ Tail(s) \in Seq(S) /\ Head(s) = s[1] /\ s[1] \in S /\ 1 \in DOMAIN s
           /\ \A i \in DOMAIN Tail(s) : i + 1 \in DOMAIN s /\ Tail(s)[i] = s[i + 1]
OBVIOUS

LEMMA TailFacts ==
    ASSUME NEW s \in Seq(Orders), s # <<>>
    PROVE  /\ Tail(s) \in Seq(Orders) /\ Head(s) = s[1] /\ s[1] \in Orders /\ 1 \in DOMAIN s
           /\ Len(s) \in Nat \ {0} /\ DOMAIN s = 1..Len(s) /\ DOMAIN Tail(s) = 1..(Len(s) - 1)
           /\ \A i \in DOMAIN Tail(s) : i + 1 \in DOMAIN s /\ Tail(s)[i] = s[i + 1]
           /\ \A i \in DOMAIN s : i # 1 => i - 1 \in DOMAIN Tail(s) /\ Tail(s)[i - 1] = s[i]
OBVIOUS

(* The socket opens                                                        *)
LEMMA ReconnectFacts ==
    ASSUME ScreenSound, None \notin Rooms, NEW w, w = V!onOpen(view)
    PROVE  \/ Still(view, w) /\ view.current = None
           \/ /\ Started(w) /\ ~V!locked(view)
              /\ w.joining.room = IF view.requested # None THEN view.requested ELSE view.current
<1>1. /\ view \in Views /\ view.out = <<>> /\ trace \in Nat /\ Locks(view) /\ Newest(view) /\ opened \in BOOLEAN
      /\ ~opened => view.current = None
  BY DEF ScreenSound, ScreenTyped, ConnFits
<1>2. view.current \in RoomOrNone /\ view.requested \in RoomOrNone
  BY <1>1 DEF Views
<1>3. Still(view, view)
  BY <1>1 DEF Still
<1>4. CASE ~opened
  BY <1>1, <1>3, <1>4 DEF V!onOpen
<1>5. CASE opened /\ view.requested # None /\ view.requested # view.current
  <2>1. w = V!onRoomTryJoin(view, view.requested, FALSE)
    BY <1>5 DEF V!onOpen, V!wsOnReconnect
  <2>2. view.requested \in Rooms
    BY <1>2, <1>5 DEF RoomOrNone
  <2>3. Started(w) \/ Still(view, w)
    BY <1>1, <2>1, <2>2, TryJoinFacts
  <2>4. ~V!locked(view) => Started(w) /\ w.joining.room = view.requested
    BY <1>1, <1>5, <2>1, <2>2, TryJoinFacts
  <2>5. V!locked(view) => Still(view, w) /\ view.current = None
    <3>1. V!locked(view) => view.current = None
      BY <1>1 DEF Locks
    <3>2. V!locked(view) => w = [[view EXCEPT !.requested = view.requested] EXCEPT
                                  !.waiting = [room |-> view.requested, preserve |-> FALSE, trace |-> 0]]
      BY <1>1, <1>5, <2>1 DEF V!onRoomTryJoin, V!locked, Views
    <3>3. V!locked(view) => w.out = <<>>
      BY <1>1, <3>2 DEF Views
    <3>4. Started(w) => w.out # <<>>
      BY DEF Started
    <3> QED BY <2>3, <3>1, <3>3, <3>4
  <2> QED BY <1>5, <2>4, <2>5
<1>6. CASE opened /\ ~(view.requested # None /\ view.requested # view.current) /\ view.current # None
  <2>1. PICK u : u = [view EXCEPT !.current = None]
    OBVIOUS
  <2>2. w = V!onRoomTryJoin(u, view.current, TRUE)
    BY <1>6, <2>1 DEF V!onOpen, V!wsOnReconnect
  <2>3. view.current \in Rooms
    BY <1>2, <1>6 DEF RoomOrNone
  <2>4. ~V!locked(view)
    BY <1>1, <1>6 DEF Locks
  <2>5. /\ u \in Views /\ u.out = <<>> /\ u.current = None /\ u.joining = view.joining /\ u.waiting = view.waiting
    BY <1>1, <2>1 DEF Views, RoomOrNone
  <2>6. Locks(u) /\ ~V!locked(u)
    BY <1>1, <2>4, <2>5 DEF Locks, V!locked
  <2>7. Started(w) /\ w.joining.room = view.current
    BY <1>1, <1>6, <2>2, <2>3, <2>5, <2>6, TryJoinFacts
  <2> QED BY <1>6, <2>4, <2>7
<1>7. CASE opened /\ ~(view.requested # None /\ view.requested # view.current) /\ view.current = None
  <2>1. w = view
    BY <1>7 DEF V!onOpen, V!wsOnReconnect
  <2> QED BY <1>3, <1>7, <2>1
<1> QED BY <1>1, <1>4, <1>5, <1>6, <1>7

LEMMA SocketOpens == ASSUME ScreenSound, None \notin Rooms, V!Open PROVE ScreenSound'
<1>1. PICK w : w = V!onOpen(view)
  OBVIOUS
<1>2. /\ ~up /\ view' = [w EXCEPT !.out = <<>>] /\ trace' = (IF w.out = <<>> THEN trace ELSE trace + 1)
      /\ socket' = w.out \o queued /\ up' = TRUE /\ opened' = TRUE /\ queued' = <<>> /\ joined' = {}
      /\ UNCHANGED <<answers, barred, strayed, refused>>
  BY <1>1 DEF V!Open
<1>3. queued \in Seq(Orders) /\ answers = <<>> /\ trace \in Nat
  BY <1>2 DEF ScreenSound, ScreenTyped, ConnFits
<1>4. /\ ConnFits' /\ \A i : i \notin DOMAIN queued' /\ i \notin DOMAIN answers'
  BY <1>2, <1>3 DEF ConnFits
<1>5. CASE Still(view, w) /\ view.current = None
  <2>1. w \in Views /\ Locks(w) /\ Newest(w) /\ w.out = <<>> /\ w.current = None /\ w.joining = view.joining
    BY <1>5 DEF Still
  <2>2. view' = w /\ trace' = trace /\ socket' = queued
    <3>1. [w EXCEPT !.out = <<>>] = w
      BY <2>1 DEF Views
    <3>2. <<>> \o queued = queued
      BY <1>3
    <3> QED BY <1>2, <2>1, <3>1, <3>2
  <2>3. ScreenTyped'
    BY <1>2, <1>3, <2>1, <2>2 DEF ScreenSound, ScreenTyped
  <2>4. Locks(view)' /\ Newest(view)' /\ (V!locked(view)' <=> V!locked(view))
    BY <2>1, <2>2 DEF Locks, Newest, V!locked
  <2>5. Asked' => ~NoJoinIn(queued)
    BY <1>4, <2>2 DEF Asked, NoJoinIn
  <2>6. V!locked(view) /\ ~NoJoinIn(queued) => LastJoinIs(queued, view.joining.room)
    BY DEF ScreenSound, Links
  <2>7. LastJoinIs(queued, view.joining.room) => Leads(view.joining.room)'
    BY <2>1, <2>2 DEF Leads, LastJoinIs
  <2>8. NoJoinIn(queued)'
    BY <1>4 DEF NoJoinIn
  <2>9. Links'
    BY <2>1, <2>2, <2>4, <2>5, <2>6, <2>7, <2>8 DEF Links
  <2>10. Written'
    <3> SUFFICES ASSUME ~strayed' PROVE Written'
      BY DEF Written
    <3>1. ~refused /\ \A i \in DOMAIN queued : queued[i].command = "send" => queued[i].room \notin Rooms
      BY <1>2, <1>5 DEF ScreenSound, Written
    <3> QED BY <1>2, <1>4, <2>2, <3>1 DEF Written
  <2> QED BY <1>4, <2>3, <2>4, <2>9, <2>10 DEF ScreenSound
<1>6. CASE /\ Started(w) /\ ~V!locked(view)
           /\ w.joining.room = IF view.requested # None THEN view.requested ELSE view.current
  <2>1. PICK o : o = V!joinRoom(w.joining.room, trace + 1)
    OBVIOUS
  <2>2. /\ w \in Views /\ Locks(w) /\ Newest(w) /\ V!locked(w) /\ w.current = None /\ w.out = <<o>>
        /\ w.joining.room \in Rooms
    BY <1>6, <2>1 DEF Started, Locks
  <2>3. o \in Orders /\ o.command = "join" /\ o.room = w.joining.room
    BY <1>3, <2>1, <2>2 DEF V!joinRoom, Orders
  <2>4. /\ socket' \in Seq(Orders) /\ DOMAIN socket' = 1..(Len(queued) + 1) /\ DOMAIN queued = 1..Len(queued)
        /\ socket'[1] = o /\ Len(queued) \in Nat
        /\ \A i \in DOMAIN socket' : i # 1 => i - 1 \in DOMAIN queued /\ socket'[i] = queued[i - 1]
    <3>1. socket' = <<o>> \o queued
      BY <1>2, <2>2
    <3> QED BY <1>3, <2>3, <3>1, JoinFirst
  <2>5. /\ view' \in Views /\ view'.out = <<>> /\ view'.current = None /\ view'.joining = w.joining
        /\ view'.waiting = w.waiting /\ view'.requested = w.requested
    <3>1. <<>> \in Seq(Orders)
      OBVIOUS
    <3> QED BY <1>2, <2>2, <3>1 DEF Views
  <2>6. ScreenTyped'
    <3>1. trace' \in Nat
      BY <1>2, <1>3
    <3> QED BY <1>2, <2>4, <2>5, <3>1 DEF ScreenSound, ScreenTyped
  <2>7. Locks(view)' /\ Newest(view)' /\ V!locked(view)'
    BY <2>2, <2>5 DEF Locks, Newest, V!locked
  <2>8. NoJoinIn(queued) \/ LastJoinIs(queued, w.joining.room)
    <3>1. view.requested = None => view.current # None
      BY <1>6, <2>2
    <3> QED BY <1>6, <3>1 DEF ScreenSound, Links
  <2>9. LastJoinIs(socket', w.joining.room)
    <3>1. CASE NoJoinIn(queued)
      BY <2>3, <2>4, <3>1 DEF LastJoinIs, NoJoinIn
    <3>2. CASE LastJoinIs(queued, w.joining.room)
      <4>1. PICK i \in DOMAIN queued : /\ queued[i].command = "join" /\ queued[i].room = w.joining.room
                                       /\ \A j \in DOMAIN queued : j > i => queued[j].command # "join"
        BY <3>2 DEF LastJoinIs
      <4>2. i + 1 \in DOMAIN socket' /\ i + 1 # 1 /\ (i + 1) - 1 = i
        BY <2>4, <4>1
      <4>3. socket'[i + 1] = queued[i]
        BY <2>4, <4>2
      <4>4. ASSUME NEW j \in DOMAIN socket', j > i + 1 PROVE socket'[j].command # "join"
        <5>1. j # 1 /\ j - 1 > i
          BY <2>4, <4>1, <4>4
        <5>2. j - 1 \in DOMAIN queued /\ socket'[j] = queued[j - 1]
          BY <2>4, <5>1
        <5> QED BY <4>1, <5>1, <5>2
      <4> QED BY <4>1, <4>2, <4>3, <4>4 DEF LastJoinIs
    <3> QED BY <2>8, <3>1, <3>2
  <2>10. Leads(view.joining.room)'
    BY <2>5, <2>9 DEF Leads, LastJoinIs
  <2>11. Links'
    <3>1. NoJoinIn(queued)'
      BY <1>4 DEF NoJoinIn
    <3> QED BY <2>5, <2>10, <3>1 DEF Links
  <2>12. Written'
    <3> SUFFICES ASSUME ~strayed' PROVE Written'
      BY DEF Written
    <3>1. ~refused /\ \A i \in DOMAIN queued : queued[i].command = "send" /\ queued[i].room \in Rooms => queued[i].room = view.current
      BY <1>2 DEF ScreenSound, Written
    <3>2. ASSUME NEW i \in DOMAIN socket', socket'[i].command = "send", socket'[i].room \in Rooms
          PROVE  Before(socket', {}, i)
      <4>1. i # 1 /\ i - 1 \in DOMAIN queued /\ socket'[i] = queued[i - 1] /\ i \in Nat
        BY <2>3, <2>4, <3>2
      <4>2. view.current = socket'[i].room /\ view.current # None
        BY <3>1, <3>2, <4>1
      <4>3. w.joining.room = view.current
        BY <1>6, <4>2 DEF ScreenSound, Locks, Newest
      <4>4. NoJoinIn(queued)
        BY <4>2 DEF ScreenSound, Links
      <4>5. ASSUME NEW j \in (1 + 1)..(i - 1) PROVE socket'[j].command # "join"
        <5>1. j \in DOMAIN socket' /\ j # 1
          BY <2>4, <4>1
        <5> QED BY <2>4, <4>4, <5>1 DEF NoJoinIn
      <4>6. 1 \in 1..(i - 1)
        BY <2>4, <4>1
      <4> QED BY <2>3, <2>4, <4>2, <4>3, <4>5, <4>6 DEF Before
    <3>3. \A i : Before(socket', {}, i) => Before(socket, joined, i)'
      BY <1>2 DEF Before
    <3> QED BY <1>2, <1>4, <3>1, <3>2, <3>3 DEF Written
  <2> QED BY <1>4, <2>6, <2>7, <2>11, <2>12 DEF ScreenSound
<1> QED BY <1>1, <1>5, <1>6, ReconnectFacts


LEMMA DropStep == ASSUME ScreenSound, V!Drop PROVE ScreenSound'
<1>1. /\ up /\ up' = FALSE /\ socket' = <<>> /\ answers' = <<>> /\ joined' = {}
      /\ UNCHANGED <<view, opened, queued, barred, trace, strayed, refused>>
  BY DEF V!Drop
<1>2. queued = <<>>
  BY <1>1 DEF ScreenSound, ConnFits
<1>3. ScreenTyped'
  <2>1. <<>> \in Seq(Orders) /\ <<>> \in Seq([trace : Nat \ {0}, ok : BOOLEAN])
    OBVIOUS
  <2> QED BY <1>1, <2>1 DEF ScreenSound, ScreenTyped
<1>4. Locks(view)' /\ Newest(view)' /\ ConnFits'
  BY <1>1, <1>2 DEF ScreenSound, Locks, Newest, V!locked, ConnFits
<1>5. Links' /\ Written'
  BY <1>1, <1>2 DEF ScreenSound, Links, NoJoinIn, Written
<1> QED BY <1>3, <1>4, <1>5 DEF ScreenSound

LEMMA BarStep == ASSUME ScreenSound, NEW r \in Rooms, V!Bar(r) PROVE ScreenSound'
<1>1. /\ barred' = barred \cup {r}
      /\ UNCHANGED <<view, up, opened, queued, socket, answers, joined, trace, strayed, refused>>
  BY DEF V!Bar
<1>2. ScreenTyped' /\ Locks(view)' /\ Newest(view)' /\ ConnFits'
  BY <1>1 DEF ScreenSound, ScreenTyped, Locks, Newest, V!locked, ConnFits
<1>3. Links'
  BY <1>1 DEF ScreenSound, Links, NoJoinIn, LastJoinIs, Leads, Asked, V!locked
<1>4. Written'
  BY <1>1 DEF ScreenSound, Written, Before
<1> QED BY <1>2, <1>3, <1>4 DEF ScreenSound

(* The server reads a command                                              *)
LEMMA ReadLeads ==
    ASSUME NEW s \in Seq(Orders), s # <<>>, NEW held, NEW held2, NEW r,
           LastJoinIs(s, r) \/ (NoJoinIn(s) /\ held = {r}),
           s[1].command = "join" /\ s[1].room = r => held2 = {r},
           s[1].command # "join" => held2 = held
    PROVE  LastJoinIs(Tail(s), r) \/ (NoJoinIn(Tail(s)) /\ held2 = {r})
<1> DEFINE t == Tail(s)
<1>1. /\ DOMAIN t = 1..(Len(s) - 1) /\ Len(s) \in Nat \ {0} /\ DOMAIN s = 1..Len(s) /\ 1 \in DOMAIN s
      /\ \A i \in DOMAIN t : i + 1 \in DOMAIN s /\ t[i] = s[i + 1]
      /\ \A i \in DOMAIN s : i # 1 => i - 1 \in DOMAIN t /\ t[i - 1] = s[i]
  BY TailFacts
<1> HIDE DEF t
<1>2. CASE NoJoinIn(s) /\ held = {r}
  <2>1. NoJoinIn(t)
    BY <1>1, <1>2 DEF NoJoinIn
  <2>2. held2 = {r}
    BY <1>1, <1>2 DEF NoJoinIn
  <2> QED BY <2>1, <2>2 DEF t
<1>3. CASE LastJoinIs(s, r)
  <2>1. PICK i \in DOMAIN s : /\ s[i].command = "join" /\ s[i].room = r
                              /\ \A j \in DOMAIN s : j > i => s[j].command # "join"
    BY <1>3 DEF LastJoinIs
  <2>2. CASE i = 1
    <3>1. ASSUME NEW j \in DOMAIN t PROVE t[j].command # "join"
      <4>1. j + 1 \in DOMAIN s /\ j + 1 > 1 /\ t[j] = s[j + 1]
        BY <1>1
      <4> QED BY <2>1, <2>2, <4>1
    <3>2. NoJoinIn(t) /\ held2 = {r}
      BY <2>1, <2>2, <3>1 DEF NoJoinIn
    <3> QED BY <3>2 DEF t
  <2>3. CASE i # 1
    <3>1. i - 1 \in DOMAIN t /\ t[i - 1] = s[i]
      BY <1>1, <2>3
    <3>2. ASSUME NEW j \in DOMAIN t, j > i - 1 PROVE t[j].command # "join"
      <4>1. j + 1 \in DOMAIN s /\ j + 1 > i /\ t[j] = s[j + 1]
        BY <1>1, <3>2
      <4> QED BY <2>1, <4>1
    <3>3. LastJoinIs(t, r)
      BY <2>1, <3>1, <3>2 DEF LastJoinIs
    <3> QED BY <3>3 DEF t
  <2> QED BY <2>2, <2>3
<1> QED BY <1>2, <1>3

LEMMA ReadBefore ==
    ASSUME NEW s \in Seq(Orders), s # <<>>, NEW held, NEW held2, NEW i \in DOMAIN Tail(s), Before(s, held, i + 1),
           s[1].command = "join" /\ s[1].room = s[i + 1].room => held2 = {s[i + 1].room},
           s[1].command # "join" => held2 = held
    PROVE  Before(Tail(s), held2, i)
<1> DEFINE t == Tail(s)
<1>1. /\ DOMAIN t = 1..(Len(s) - 1) /\ Len(s) \in Nat \ {0} /\ DOMAIN s = 1..Len(s) /\ 1 \in DOMAIN s
      /\ \A j \in DOMAIN t : j + 1 \in DOMAIN s /\ t[j] = s[j + 1]
  BY TailFacts
<1>2. i \in DOMAIN t /\ i \in Nat /\ i >= 1
  BY <1>1
<1> HIDE DEF t
<1>3. t[i].room = s[i + 1].room
  BY <1>1, <1>2
<1>4. CASE (\A k \in 1..((i + 1) - 1) : s[k].command # "join") /\ s[i + 1].room \in held
  <2>1. \A k \in 1..(i - 1) : t[k].command # "join"
    <3> SUFFICES ASSUME NEW k \in 1..(i - 1) PROVE t[k].command # "join"
      OBVIOUS
    <3>1. k \in DOMAIN t /\ k + 1 \in 1..((i + 1) - 1) /\ t[k] = s[k + 1]
      BY <1>1, <1>2
    <3> QED BY <1>4, <3>1
  <2>2. s[1].command # "join"
    BY <1>2, <1>4
  <2>3. Before(t, held2, i)
    BY <1>3, <1>4, <2>1, <2>2 DEF Before
  <2> QED BY <2>3 DEF t
<1>5. ASSUME NEW k \in 1..((i + 1) - 1), s[k].command = "join", s[k].room = s[i + 1].room,
             \A j \in (k + 1)..((i + 1) - 1) : s[j].command # "join"
      PROVE  Before(t, held2, i)
  <2>1. CASE k = 1
    <3>1. \A j \in 1..(i - 1) : t[j].command # "join"
      <4> SUFFICES ASSUME NEW j \in 1..(i - 1) PROVE t[j].command # "join"
        OBVIOUS
      <4>1. j \in DOMAIN t /\ j + 1 \in (k + 1)..((i + 1) - 1) /\ t[j] = s[j + 1]
        BY <1>1, <1>2, <2>1
      <4> QED BY <1>5, <4>1
    <3>2. held2 = {s[i + 1].room}
      BY <1>5, <2>1
    <3> QED BY <1>3, <3>1, <3>2 DEF Before
  <2>2. CASE k # 1
    <3>1. k - 1 \in 1..(i - 1) /\ k - 1 \in DOMAIN t /\ (k - 1) + 1 = k /\ t[k - 1] = s[(k - 1) + 1]
      BY <1>1, <1>2, <1>5, <2>2
    <3>2. \A j \in ((k - 1) + 1)..(i - 1) : t[j].command # "join"
      <4> SUFFICES ASSUME NEW j \in ((k - 1) + 1)..(i - 1) PROVE t[j].command # "join"
        OBVIOUS
      <4>1. j \in DOMAIN t /\ j + 1 \in (k + 1)..((i + 1) - 1) /\ t[j] = s[j + 1]
        BY <1>1, <1>2, <1>5, <2>2
      <4> QED BY <1>5, <4>1
    <3> QED BY <1>3, <1>5, <3>1, <3>2 DEF Before
  <2> QED BY <2>1, <2>2
<1>6. Before(t, held2, i)
  BY <1>4, <1>5 DEF Before, t
<1> QED BY <1>6 DEF t

Read(o) ==
  /\ answers' \in Seq([trace : Nat \ {0}, ok : BOOLEAN]) /\ joined' \subseteq Rooms
  /\ Asked' => Asked
  /\ ~strayed => ~refused'
  /\ \A r : r \notin barred =>
       (o.command = "join" /\ o.room = r => joined' = {r}) /\ (o.command # "join" => joined' = joined)

LEMMA ReceiveStep == ASSUME ScreenSound, V!receive_json PROVE ScreenSound'
<1>1. /\ socket # <<>> /\ socket' = Tail(socket)
      /\ IF Head(socket).command = "join" THEN V!join(Head(socket)) ELSE V!Send(Head(socket))
      /\ UNCHANGED <<view, up, opened, queued, barred, trace, strayed>>
  BY DEF V!receive_json
<1>2. socket \in Seq(Orders) /\ answers \in Seq([trace : Nat \ {0}, ok : BOOLEAN]) /\ joined \subseteq Rooms
  BY DEF ScreenSound, ScreenTyped
<1>3. up
  BY <1>1 DEF ScreenSound, ConnFits, ScreenTyped
<1>4. PICK o : o = socket[1]
  OBVIOUS
<1>5. /\ Tail(socket) \in Seq(Orders) /\ Head(socket) = o /\ o \in Orders /\ 1 \in DOMAIN socket
      /\ \A i \in DOMAIN Tail(socket) : i + 1 \in DOMAIN socket /\ Tail(socket)[i] = socket[i + 1]
  BY <1>1, <1>2, <1>4, TailFacts
<1>6. ASSUME o.command = "join" PROVE Read(o)
  <2>1. /\ joined' = (IF o.room \notin barred THEN {o.room} ELSE joined)
        /\ answers' = Append(answers, [trace |-> o.trace, ok |-> o.room \notin barred]) /\ refused' = refused
    BY <1>1, <1>5, <1>6 DEF V!join
  <2>2. o.room \in Rooms /\ o.trace \in Nat \ {0}
    BY <1>5, <1>6 DEF Orders
  <2>3. PICK x \in BOOLEAN : x = (o.room \notin barred)
    OBVIOUS
  <2>4. PICK g : g = [trace |-> o.trace, ok |-> x]
    OBVIOUS
  <2>5. g \in [trace : Nat \ {0}, ok : BOOLEAN] /\ g.trace = o.trace /\ answers' = Append(answers, g)
    BY <2>1, <2>2, <2>3, <2>4
  <2>6. /\ answers' \in Seq([trace : Nat \ {0}, ok : BOOLEAN])
        /\ \A i \in DOMAIN answers' : answers'[i] = g \/ (i \in DOMAIN answers /\ answers'[i] = answers[i])
    BY <1>2, <2>5
  <2>7. ASSUME Asked' PROVE Asked
    <3>1. CASE \E i \in DOMAIN socket' : socket'[i].command = "join" /\ socket'[i].trace = view'.joining.trace
      BY <1>1, <1>5, <3>1 DEF Asked
    <3>2. CASE \E i \in DOMAIN answers' : answers'[i].trace = view'.joining.trace /\ answers'[i].ok
      BY <1>1, <1>4, <1>5, <1>6, <2>5, <2>6, <3>2 DEF Asked
    <3> QED BY <2>7, <3>1, <3>2 DEF Asked
  <2>8. ~strayed => ~refused'
    BY <2>1 DEF ScreenSound, Written
  <2>9. \A r : r \notin barred => (o.command = "join" /\ o.room = r => joined' = {r}) /\ (o.command # "join" => joined' = joined)
    BY <1>6, <2>1
  <2>10. joined' \subseteq Rooms
    BY <1>2, <2>1, <2>2
  <2> QED BY <2>6, <2>7, <2>8, <2>9, <2>10 DEF Read
<1>7. ASSUME o.command # "join" PROVE Read(o)
  <2>1. /\ refused' = (refused \/ (o.room \in Rooms \ barred /\ o.room \notin joined)) /\ UNCHANGED <<joined, answers>>
    BY <1>1, <1>5, <1>7 DEF V!Send
  <2>2. o.command = "send"
    BY <1>5, <1>7 DEF Orders
  <2>3. Asked' => Asked
    BY <1>1, <1>5, <2>1 DEF Asked
  <2>4. ASSUME ~strayed PROVE ~refused'
    <3>1. o.room \in Rooms \ barred => Before(socket, joined, 1)
      BY <1>4, <1>5, <2>2, <2>4 DEF ScreenSound, Written
    <3>2. Before(socket, joined, 1) => o.room \in joined
      BY <1>4 DEF Before
    <3> QED BY <2>1, <2>4, <3>1, <3>2 DEF ScreenSound, Written
  <2>5. \A r : r \notin barred => (o.command = "join" /\ o.room = r => joined' = {r}) /\ (o.command # "join" => joined' = joined)
    BY <1>7, <2>1
  <2>6. answers' \in Seq([trace : Nat \ {0}, ok : BOOLEAN]) /\ joined' \subseteq Rooms
    BY <1>2, <2>1
  <2> QED BY <2>3, <2>4, <2>5, <2>6 DEF Read
<1>8. Read(o)
  BY <1>6, <1>7
<1>9. ScreenTyped'
  BY <1>1, <1>5, <1>8 DEF ScreenSound, ScreenTyped, Read
<1>10. Locks(view)' /\ Newest(view)' /\ ConnFits' /\ (V!locked(view)' <=> V!locked(view))
  BY <1>1, <1>3 DEF ScreenSound, Locks, Newest, V!locked, ConnFits
<1>11. ASSUME NEW r, r \notin barred, Leads(r)
       PROVE  LastJoinIs(socket', r) \/ (NoJoinIn(socket') /\ joined' = {r})
  <2>1. LastJoinIs(socket, r) \/ (NoJoinIn(socket) /\ joined = {r})
    BY <1>11 DEF Leads
  <2> QED BY <1>1, <1>2, <1>4, <1>8, <1>11, <2>1, ReadLeads DEF Read
<1>12. Links'
  <2>1. /\ Leads(view.joining.room)' <=> LastJoinIs(socket', view.joining.room) \/ (NoJoinIn(socket') /\ joined' = {view.joining.room})
        /\ Leads(view.current)' <=> LastJoinIs(socket', view.current) \/ (NoJoinIn(socket') /\ joined' = {view.current})
    BY <1>1 DEF Leads, LastJoinIs, NoJoinIn
  <2>2. /\ NoJoinIn(queued)' <=> NoJoinIn(queued)
        /\ LastJoinIs(queued, view.joining.room)' <=> LastJoinIs(queued, view.joining.room)
        /\ LastJoinIs(queued, view.requested)' <=> LastJoinIs(queued, view.requested)
    BY <1>1 DEF LastJoinIs, NoJoinIn
  <2> QED BY <1>1, <1>8, <1>10, <1>11, <2>1, <2>2 DEF ScreenSound, Links, Read
<1>13. Written'
  <2> SUFFICES ASSUME ~strayed' PROVE Written'
    BY DEF Written
  <2>1. ~strayed /\ ~refused'
    BY <1>1, <1>8 DEF Read
  <2>2. ASSUME NEW i \in DOMAIN socket', socket'[i].command = "send", socket'[i].room \in Rooms \ barred
        PROVE  Before(socket', joined', i)
    <3>1. i + 1 \in DOMAIN socket /\ socket'[i] = socket[i + 1]
      BY <1>1, <1>5
    <3>2. Before(socket, joined, i + 1)
      BY <2>1, <2>2, <3>1 DEF ScreenSound, Written
    <3>3. i \in DOMAIN Tail(socket)
      BY <1>1
    <3>4. /\ socket[1].command = "join" /\ socket[1].room = socket[i + 1].room => joined' = {socket[i + 1].room}
          /\ socket[1].command # "join" => joined' = joined
      BY <1>4, <1>8, <2>2, <3>1 DEF Read
    <3> QED BY <1>1, <1>2, <3>2, <3>3, <3>4, ReadBefore
  <2>3. \A i : Before(socket', joined', i) => Before(socket, joined, i)'
    BY DEF Before
  <2> QED BY <1>1, <2>1, <2>2, <2>3 DEF ScreenSound, Written
<1> QED BY <1>9, <1>10, <1>12, <1>13 DEF ScreenSound


(* An answer, or none                                                      *)
LEMMA TimedOutFacts ==
    ASSUME ScreenSound, None \notin Rooms, V!locked(view), NEW w, w = V!TimedOut(view)
    PROVE  Started(w) \/ \E v : v.joining = view.joining /\ v.current = None /\ Freed(v, w)
<1>1. PICK v : v = V!showJoinError(view)
  OBVIOUS
<1>2. /\ view \in Views /\ view.out = <<>> /\ trace \in Nat /\ view.current = None /\ view.joining.room \in Rooms
      /\ view.waiting # V!NoJoin => view.waiting.room \in Rooms
      /\ view.requested # None => view.requested = IF view.waiting # V!NoJoin THEN view.waiting.room ELSE view.joining.room
  BY DEF ScreenSound, ScreenTyped, Locks, Newest
<1>3. /\ v \in Views /\ v.out = <<>> /\ v.current = None /\ v.joining = view.joining /\ v.waiting = view.waiting
      /\ v.requested = view.requested
  BY <1>1, <1>2 DEF V!showJoinError, Views, RoomOrNone
<1>4. V!locked(v) /\ w = V!unlock(v)
  BY <1>1, <1>3 DEF V!locked, V!TimedOut
<1>5. Started(w) \/ Freed(v, w)
  BY <1>2, <1>3, <1>4, UnlockFacts
<1> QED BY <1>3, <1>5

LEMMA UnavailableFacts ==
    ASSUME ScreenSound, None \notin Rooms, V!locked(view), NEW w, w = V!Unavailable(view)
    PROVE  Started(w) \/ \E v : v.joining = view.joining /\ v.current = None /\ Freed(v, w)
<1>1. PICK v : v = IF view.hash = None THEN view ELSE [[view EXCEPT !.hash = None] EXCEPT !.panel = "list", !.requested = None]
  OBVIOUS
<1>2. /\ view \in Views /\ view.out = <<>> /\ trace \in Nat /\ view.current = None /\ view.joining.room \in Rooms
      /\ view.waiting # V!NoJoin => view.waiting.room \in Rooms
      /\ view.requested # None => view.requested = IF view.waiting # V!NoJoin THEN view.waiting.room ELSE view.joining.room
  BY DEF ScreenSound, ScreenTyped, Locks, Newest
<1>3. /\ v \in Views /\ v.out = <<>> /\ v.current = None /\ v.joining = view.joining /\ v.waiting = view.waiting
      /\ v.requested \in {view.requested, None}
  BY <1>1, <1>2 DEF Views, RoomOrNone
<1>4. V!locked(v) /\ w = V!unlock(v)
  BY <1>1, <1>3 DEF V!locked, V!Unavailable, V!applyChatRoute
<1>5. v.requested # None => v.requested = IF v.waiting # V!NoJoin THEN v.waiting.room ELSE v.joining.room
  BY <1>2, <1>3
<1>6. Started(w) \/ Freed(v, w)
  BY <1>2, <1>3, <1>4, <1>5, UnlockFacts
<1> QED BY <1>3, <1>6

LEMMA JoinedFacts ==
    ASSUME ScreenSound, None \notin Rooms, V!locked(view), NEW w, w = V!Joined(view)
    PROVE  Started(w) \/ \E v : v.joining = view.joining /\ v.current = view.joining.room /\ Freed(v, w)
<1>1. PICK u : u = [view EXCEPT !.current = view.joining.room]
  OBVIOUS
<1>2. /\ view \in Views /\ view.out = <<>> /\ trace \in Nat /\ view.joining.room \in Rooms
      /\ view.waiting # V!NoJoin => view.waiting.room \in Rooms
      /\ view.requested # None => view.requested = IF view.waiting # V!NoJoin THEN view.waiting.room ELSE view.joining.room
  BY DEF ScreenSound, ScreenTyped, Locks, Newest
<1>3. u \in Views
  BY <1>1, <1>2 DEF Views, RoomOrNone
<1>4. PICK v : /\ v = u \/ v = [u EXCEPT !.panel = "room", !.failed = None]
               /\ w = V!unlock(v)
  BY <1>1 DEF V!Joined
<1>5. /\ v \in Views /\ v.out = <<>> /\ v.current = view.joining.room /\ v.joining = view.joining
      /\ v.waiting = view.waiting /\ v.requested = view.requested
  <2>1. /\ u.out = <<>> /\ u.current = view.joining.room /\ u.joining = view.joining
        /\ u.waiting = view.waiting /\ u.requested = view.requested
    BY <1>1, <1>2 DEF Views
  <2>2. CASE v = u
    BY <1>3, <2>1, <2>2
  <2>3. CASE v = [u EXCEPT !.panel = "room", !.failed = None]
    BY <1>3, <2>1, <2>3 DEF Views, RoomOrNone
  <2> QED BY <1>4, <2>2, <2>3
<1>6. V!locked(v)
  BY <1>5 DEF V!locked
<1>7. Started(w) \/ Freed(v, w)
  BY <1>2, <1>4, <1>5, <1>6, UnlockFacts
<1> QED BY <1>5, <1>7

LEMMA AnswerStep == ASSUME ScreenSound, None \notin Rooms, V!onmessage PROVE ScreenSound'
<1>1. PICK w : /\ w = IF Head(answers).trace # view.joining.trace THEN view
                      ELSE IF Head(answers).ok THEN V!Joined(view) ELSE V!Unavailable(view)
               /\ V!send(w) /\ answers # <<>> /\ answers' = Tail(answers)
               /\ UNCHANGED <<up, opened, joined, barred, strayed, refused>>
  BY DEF V!onmessage
<1>2. answers \in Seq([trace : Nat \ {0}, ok : BOOLEAN])
  BY DEF ScreenSound, ScreenTyped
<1>3. /\ 1 \in DOMAIN answers /\ Head(answers) = answers[1] /\ answers[1].trace \in Nat \ {0}
      /\ Tail(answers) \in Seq([trace : Nat \ {0}, ok : BOOLEAN])
      /\ \A i \in DOMAIN Tail(answers) : i + 1 \in DOMAIN answers /\ Tail(answers)[i] = answers[i + 1]
  <2> DEFINE S == [trace : Nat \ {0}, ok : BOOLEAN]
  <2>1. \A g \in S : g.trace \in Nat \ {0}
    OBVIOUS
  <2>2. answers \in Seq(S)
    BY <1>2
  <2> HIDE DEF S
  <2>3. /\ 1 \in DOMAIN answers /\ Head(answers) = answers[1] /\ answers[1] \in S
        /\ Tail(answers) \in Seq(S)
        /\ \A i \in DOMAIN Tail(answers) : i + 1 \in DOMAIN answers /\ Tail(answers)[i] = answers[i + 1]
    BY <1>1, <2>2, TailOf
  <2>4. Tail(answers) \in Seq([trace : Nat \ {0}, ok : BOOLEAN])
    BY <2>3 DEF S
  <2> QED BY <2>1, <2>3, <2>4
<1>4. up
  BY <1>1 DEF ScreenSound, ScreenTyped, ConnFits
<1>5. Kept
  BY <1>1, <1>3, <1>4 DEF Kept
<1>6. CASE Head(answers).trace # view.joining.trace
  <2>1. w = view
    BY <1>1, <1>6
  <2>2. Still(view, w)
    BY <2>1 DEF ScreenSound, ScreenTyped, Still
  <2>3. \A i \in DOMAIN answers' : i + 1 \in DOMAIN answers /\ answers'[i] = answers[i + 1]
    BY <1>1, <1>3
  <2> QED BY <1>1, <1>5, <2>2, <2>3, StillStep
<1>7. CASE Head(answers).trace = view.joining.trace
  <2>1. V!locked(view)
    BY <1>3, <1>7, NoJoinFacts DEF V!locked
  <2>2. view.current = None
    BY <2>1 DEF ScreenSound, Locks
  <2>3. CASE Head(answers).ok
    <3>1. Asked
      BY <1>3, <1>7, <2>3 DEF Asked
    <3>2. view.joining.room \notin barred => Leads(view.joining.room)
      BY <1>4, <2>1, <3>1 DEF ScreenSound, Links
    <3>3. Started(w) \/ \E v : v.joining = view.joining /\ v.current = view.joining.room /\ Freed(v, w)
      BY <1>1, <1>7, <2>1, <2>3, JoinedFacts
    <3>4. CASE Started(w)
      BY <1>1, <1>5, <2>2, <3>4, StartedStep
    <3>5. ASSUME NEW v, v.joining = view.joining, v.current = view.joining.room, Freed(v, w) PROVE ScreenSound'
      <4>1. w.current = view.joining.room
        BY <3>5 DEF Freed
      <4> QED BY <1>1, <1>4, <1>5, <3>2, <3>5, <4>1, FreedStep
    <3> QED BY <3>3, <3>4, <3>5
  <2>4. CASE ~Head(answers).ok
    <3>1. Started(w) \/ \E v : v.joining = view.joining /\ v.current = None /\ Freed(v, w)
      BY <1>1, <1>7, <2>1, <2>4, UnavailableFacts
    <3>2. CASE Started(w)
      BY <1>1, <1>5, <2>2, <3>2, StartedStep
    <3>3. ASSUME NEW v, v.joining = view.joining, v.current = None, Freed(v, w) PROVE ScreenSound'
      <4>1. w.current = None
        BY <3>3 DEF Freed
      <4> QED BY <1>1, <1>5, <3>3, <4>1, FreedStep
    <3> QED BY <3>1, <3>2, <3>3
  <2> QED BY <2>3, <2>4
<1> QED BY <1>6, <1>7

LEMMA RequestTimeoutStep == ASSUME ScreenSound, None \notin Rooms, V!RequestTimeout PROVE ScreenSound'
<1>1. PICK w : /\ w = V!TimedOut(view) /\ V!send(w) /\ V!locked(view)
               /\ UNCHANGED <<up, opened, answers, joined, barred, strayed, refused>>
  BY DEF V!RequestTimeout
<1>2. Kept
  BY <1>1 DEF Kept, ScreenSound, ScreenTyped, ConnFits
<1>3. view.current = None
  BY <1>1 DEF ScreenSound, Locks
<1>4. CASE Started(w)
  BY <1>1, <1>2, <1>3, <1>4, StartedStep
<1>5. ASSUME NEW v, v.joining = view.joining, v.current = None, Freed(v, w) PROVE ScreenSound'
  <2>1. w.current = None
    BY <1>5 DEF Freed
  <2> QED BY <1>1, <1>2, <1>5, <2>1, FreedStep
<1> QED BY <1>1, <1>4, <1>5, TimedOutFacts


(* The reader                                                              *)
LEMMA ReaderMoves == ASSUME ScreenSound, None \notin Rooms, V!Reader PROVE ScreenSound'
<1>1. /\ UNCHANGED <<up, opened, answers, joined, barred, refused>>
      /\ (\E r \in RoomOrNone : V!Navigate(r)) \/ V!Retry \/ V!onSubmitMessage
  BY DEF V!Reader, RoomOrNone
<1>2. /\ view \in Views /\ view.out = <<>> /\ trace \in Nat /\ Locks(view) /\ Newest(view)
      /\ view.failed \in RoomOrNone /\ view.requested \in RoomOrNone
  BY DEF ScreenSound, ScreenTyped, Views
<1>3. ~up => answers = <<>>
  BY DEF ScreenSound, ConnFits
<1>4. answers \in Seq([trace : Nat \ {0}, ok : BOOLEAN])
  BY DEF ScreenSound, ScreenTyped
<1>5. ASSUME NEW w, Started(w) \/ Still(view, w), V!send(w),
             strayed' = (strayed \/ \E i \in DOMAIN queued : queued[i].command = "send")
      PROVE  ScreenSound'
  <2>1. Kept
    BY <1>1, <1>3, <1>4, <1>5 DEF Kept
  <2>2. strayed' \/ view.current = None \/ \A i \in DOMAIN queued : queued[i].command # "send"
    BY <1>5
  <2>3. CASE Started(w)
    BY <1>5, <2>1, <2>2, <2>3, StartedStep
  <2>4. CASE Still(view, w)
    BY <1>1, <1>5, <2>1, <2>4, StillStep
  <2> QED BY <1>5, <2>3, <2>4
<1>6. ASSUME NEW r \in RoomOrNone, V!Navigate(r) PROVE ScreenSound'
  <2>1. PICK w : w = V!syncRouteFromLocation(view, r)
    OBVIOUS
  <2>2. V!send(w) /\ strayed' = (strayed \/ \E i \in DOMAIN queued : queued[i].command = "send")
    BY <1>6, <2>1 DEF V!Navigate
  <2>3. CASE r = view.hash
    <3>1. w = view
      BY <2>1, <2>3 DEF V!syncRouteFromLocation
    <3>2. Still(view, w)
      BY <1>2, <3>1 DEF Still
    <3> QED BY <1>5, <2>2, <3>2
  <2>4. CASE r # view.hash /\ r = None
    <3>1. w = [[view EXCEPT !.hash = r] EXCEPT !.panel = "list", !.requested = None]
      BY <2>1, <2>4 DEF V!syncRouteFromLocation, V!applyChatRoute
    <3>2. /\ w \in Views /\ w.out = <<>> /\ w.current = view.current /\ w.joining = view.joining
          /\ w.waiting = view.waiting /\ w.requested = None
      BY <1>2, <3>1 DEF Views, RoomOrNone
    <3>3. Locks(w) /\ Newest(w)
      BY <1>2, <3>2 DEF Locks, Newest, V!locked
    <3>4. Still(view, w)
      BY <3>2, <3>3 DEF Still
    <3> QED BY <1>5, <2>2, <3>4
  <2>5. CASE r # view.hash /\ r # None
    <3>1. PICK v : v = [[view EXCEPT !.hash = r] EXCEPT !.panel = "room", !.requested = r]
      OBVIOUS
    <3>2. w = V!onRoomTryJoin(v, r, FALSE)
      BY <2>1, <2>5, <3>1 DEF V!syncRouteFromLocation, V!applyChatRoute
    <3>3. /\ v \in Views /\ v.out = <<>> /\ v.current = view.current /\ v.joining = view.joining
          /\ v.waiting = view.waiting /\ v.requested = r
      BY <1>2, <3>1 DEF Views
    <3>4. Locks(v)
      BY <1>2, <3>3 DEF Locks, V!locked
    <3>5. r \in Rooms
      BY <1>6, <2>5 DEF RoomOrNone
    <3>6. Started(w) \/ Still(v, w)
      BY <1>2, <3>2, <3>3, <3>4, <3>5, TryJoinFacts
    <3>7. ~V!locked(v) /\ r # v.current => Started(w)
      BY <1>2, <3>2, <3>3, <3>4, <3>5, TryJoinFacts
    <3>8. Still(v, w) /\ ~Started(w) => Still(view, w)
      <4>1. V!locked(v) <=> V!locked(view)
        BY <3>3 DEF V!locked
      <4>2. Still(v, w) => w.requested \in {r, None} \/ V!locked(v) \/ w.requested = view.current
        BY <3>3 DEF Still
      <4> QED BY <3>3, <3>7, <4>1, <4>2 DEF Still
    <3> QED BY <1>5, <2>2, <3>6, <3>8
  <2> QED BY <2>3, <2>4, <2>5
<1>7. CASE V!Retry
  <2>1. PICK v : v = [view EXCEPT !.failed = None]
    OBVIOUS
  <2>2. PICK w : w = V!onRoomTryJoin(v, view.failed, FALSE)
    OBVIOUS
  <2>3. /\ V!send(w) /\ view.failed \in Rooms
        /\ strayed' = (strayed \/ \E i \in DOMAIN queued : queued[i].command = "send")
    BY <1>2, <1>7, <2>1, <2>2 DEF V!Retry, RoomOrNone
  <2>4. /\ v \in Views /\ v.out = <<>> /\ v.current = view.current /\ v.joining = view.joining
        /\ v.waiting = view.waiting /\ v.requested = view.requested
    BY <1>2, <2>1 DEF Views, RoomOrNone
  <2>5. Locks(v)
    BY <1>2, <2>4 DEF Locks, V!locked
  <2>6. Started(w) \/ Still(v, w)
    BY <1>2, <2>2, <2>3, <2>4, <2>5, TryJoinFacts
  <2>7. Still(v, w) => Still(view, w)
    BY <2>4 DEF Still, V!locked
  <2> QED BY <1>5, <2>3, <2>6, <2>7
<1>8. CASE V!onSubmitMessage
  <2>1. V!send([view EXCEPT !.out = <<V!sendMessage(view.current)>>]) /\ strayed' = strayed
    BY <1>8 DEF V!onSubmitMessage
  <2>2. Kept
    BY <1>1, <1>3, <1>4, <2>1 DEF Kept
  <2> QED BY <1>1, <2>1, <2>2, MessageSent
<1> QED BY <1>1, <1>6, <1>7, <1>8

LEMMA ScreenInit == ASSUME V!Init PROVE ScreenSound
<1>1. /\ view = [panel |-> "list", requested |-> None, current |-> None, hash |-> None, failed |-> None,
                 joining |-> V!NoJoin, waiting |-> V!NoJoin, out |-> <<>>]
      /\ up = FALSE /\ opened = FALSE /\ queued = <<>> /\ socket = <<>> /\ answers = <<>>
      /\ joined = {} /\ trace = 0 /\ refused = FALSE
  BY DEF V!Init
<1>2. /\ view.out = <<>> /\ view.current = None /\ view.joining = V!NoJoin /\ view.waiting = V!NoJoin
      /\ view.requested = None
  BY <1>1
<1>3. ScreenTyped
  <2>1. /\ <<>> \in Seq(Orders) /\ <<>> \in Seq([trace : Nat \ {0}, ok : BOOLEAN])
    OBVIOUS
  <2>2. view \in Views
    BY <1>1, <2>1, NoJoinFacts DEF Views, RoomOrNone
  <2> QED BY <1>1, <1>2, <2>1, <2>2 DEF ScreenTyped
<1>4. Locks(view) /\ Newest(view) /\ ConnFits
  BY <1>1, <1>2 DEF Locks, Newest, ConnFits, V!locked
<1>5. Links /\ Written
  BY <1>1, <1>2 DEF Links, Written, NoJoinIn, V!locked
<1> QED BY <1>3, <1>4, <1>5 DEF ScreenSound

LEMMA TabStep == ASSUME ScreenSound, None \notin Rooms, V!Next \/ UNCHANGED V!vars PROVE ScreenSound'
<1>1. CASE UNCHANGED V!vars
  <2>1. UNCHANGED <<view, up, opened, queued, socket, answers, joined, barred, trace, strayed, refused>>
    BY <1>1 DEF V!vars
  <2>2. ScreenTyped' /\ Locks(view)' /\ Newest(view)' /\ ConnFits'
    BY <2>1 DEF ScreenSound, ScreenTyped, Locks, Newest, V!locked, ConnFits
  <2>3. Links' /\ Written'
    BY <2>1 DEF ScreenSound, Links, NoJoinIn, LastJoinIs, Leads, Asked, V!locked, Written, Before
  <2> QED BY <2>2, <2>3 DEF ScreenSound
<1> QED BY <1>1, SocketOpens, DropStep, ReceiveStep, AnswerStep, RequestTimeoutStep, ReaderMoves, BarStep DEF V!Next

LEMMA ScreenGivesInvariant == ASSUME ScreenSound, None \notin Rooms PROVE ChatViewInvariant
<1>1. view \in V!ViewState
  <2>1. view \in Views /\ view.out = <<>>
    BY DEF ScreenSound, ScreenTyped
  <2> QED BY <2>1 DEF Views, RoomOrNone, V!ViewState
<1>2. V!PresentWhereShown
  <2> SUFFICES ASSUME up, view.current \notin barred \cup {None} PROVE V!RoomsToBe = {view.current}
    BY DEF V!PresentWhereShown
  <2>1. LastJoinIs(socket, view.current) \/ (NoJoinIn(socket) /\ joined = {view.current})
    BY DEF ScreenSound, Links, Leads
  <2>2. CASE NoJoinIn(socket) /\ joined = {view.current}
    <3>1. V!Joins = {}
      BY <2>2 DEF V!Joins, NoJoinIn
    <3> QED BY <2>2, <3>1 DEF V!RoomsToBe
  <2>3. CASE LastJoinIs(socket, view.current)
    <3>1. PICK i \in DOMAIN socket : /\ socket[i].command = "join" /\ socket[i].room = view.current
                                     /\ \A j \in DOMAIN socket : j > i => socket[j].command # "join"
      BY <2>3 DEF LastJoinIs
    <3>2. i \in V!Joins /\ \A j \in V!Joins : j \in DOMAIN socket /\ ~(j > i)
      BY <3>1 DEF V!Joins
    <3>3. DOMAIN socket \subseteq Nat
      BY DEF ScreenSound, ScreenTyped
    <3>4. \A j \in V!Joins : j <= i
      BY <3>2, <3>3
    <3>5. {j \in V!Joins : \A k \in V!Joins : k <= j} = {i}
      BY <3>2, <3>3, <3>4
    <3> QED BY <3>1, <3>2, <3>5 DEF V!RoomsToBe
  <2> QED BY <2>1, <2>2, <2>3
<1>3. V!NewestWins
  BY DEF ScreenSound, Newest, V!NewestWins
<1>4. V!WrittenIsAccepted
  BY DEF ScreenSound, Written, V!WrittenIsAccepted
<1> QED BY <1>1, <1>2, <1>3, <1>4 DEF ChatViewInvariant, V!ChatViewInvariant

(* The tab: the room on the screen is the one that the server holds the    *)
(* reader present in, or will when it has read what is on its way; the     *)
(* newest wish is followed; and what was written while the connection was  *)
(* down is accepted, if the writer stayed.                                 *)
THEOREM ChatViewInvariantHolds ==
    ASSUME None \notin Rooms
    PROVE  ChatSpec => []ChatViewInvariant
<1>1. ChatInit => ScreenSound
  BY ScreenInit DEF ChatInit
<1>2. ScreenSound /\ [ChatNext]_all => ScreenSound'
  <2> SUFFICES ASSUME ScreenSound, [ChatNext]_all PROVE ScreenSound'
    OBVIOUS
  <2>1. V!Next \/ UNCHANGED V!vars
    BY DEF ChatNext, QueueNext, RoomNext, DirectNext, ScreenNext, MessageNext, PushNext, FederationNext,
           all, screen, V!vars
  <2> QED BY <2>1, TabStep
<1>3. ScreenSound => ChatViewInvariant
  BY ScreenGivesInvariant
<1> QED BY <1>1, <1>2, <1>3, PTL DEF ChatSpec

=============================================================================
