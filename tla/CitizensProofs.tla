--------------------------- MODULE CitizensProofs ---------------------------
(***************************************************************************)
(* Theorems about Citizens, for any people, founders, acceptance and       *)
(* bounds.  Every variable keeps its type, whatever overlaps and breaks    *)
(* off.  When no request spans steps of the command, accounts go only      *)
(* lawfully; and when no run breaks off either, only citizens have a say   *)
(* between two runs and admissions cost no firm citizen the membership.    *)
(***************************************************************************)
EXTENDS Citizens, FiniteSetTheorems, TLAPS

-----------------------------------------------------------------------------
(* The sum of the ratings                                                  *)

For(q, S) == {o \in People : <<o, q>> \in S}

LEMMA ForIsFinite ==
    ASSUME NEW q, NEW S
    PROVE  IsFiniteSet(For(q, S)) /\ Cardinality(For(q, S)) \in Nat
<1>1. For(q, S) \subseteq People BY DEF For
<1> QED BY <1>1, PeopleAssumption, FS_Subset, FS_CardinalityType

LEMMA SumIsInt == ASSUME NEW q PROVE Sum(q) \in Int
<1>1. Sum(q) = Cardinality(For(q, accepts)) - Cardinality(For(q, rejects)) BY DEF Sum, For
<1> QED BY <1>1, ForIsFinite

(* A step that leaves the ratings of q leaves their sum.                   *)
LEMMA SumStays ==
    ASSUME NEW q,
           \A o \in People : <<o, q>> \in accepts' <=> <<o, q>> \in accepts,
           \A o \in People : <<o, q>> \in rejects' <=> <<o, q>> \in rejects
    PROVE  Sum(q)' = Sum(q)
<1>1. /\ {o \in People : <<o, q>> \in accepts'} = {o \in People : <<o, q>> \in accepts}
      /\ {o \in People : <<o, q>> \in rejects'} = {o \in People : <<o, q>> \in rejects}
  OBVIOUS
<1> QED BY <1>1 DEF Sum

(* An acceptance by o never lowers the sum of k, and raises it when it is  *)
(* new; the others keep their sums.                                        *)
LEMMA SumAccepted ==
    ASSUME NEW o \in People, NEW k, accepts' = accepts \cup {<<o, k>>},
           rejects' = rejects \ {<<o, k>>}
    PROVE  /\ Sum(k)' >= Sum(k)
           /\ <<o, k>> \notin accepts => Sum(k)' >= Sum(k) + 1
           /\ \A q : q # k => Sum(q)' = Sum(q)
<1>1. /\ For(k, accepts') = For(k, accepts) \cup {o}
      /\ For(k, rejects') = For(k, rejects) \ {o}
  BY DEF For
<1>2. /\ Sum(k) = Cardinality(For(k, accepts)) - Cardinality(For(k, rejects))
      /\ Sum(k)' = Cardinality(For(k, accepts')) - Cardinality(For(k, rejects'))
  BY DEF Sum, For
<1>3. /\ Cardinality(For(k, accepts')) >= Cardinality(For(k, accepts))
      /\ o \notin For(k, accepts)
            => Cardinality(For(k, accepts')) = Cardinality(For(k, accepts)) + 1
  <2>1. IsFiniteSet(For(k, accepts)) /\ Cardinality(For(k, accepts)) \in Nat BY ForIsFinite
  <2>2. Cardinality(For(k, accepts) \cup {o}) =
            IF o \in For(k, accepts) THEN Cardinality(For(k, accepts))
                                     ELSE Cardinality(For(k, accepts)) + 1
    BY <2>1, FS_AddElement
  <2>3. Cardinality(For(k, accepts')) = Cardinality(For(k, accepts) \cup {o}) BY <1>1
  <2>4. Cardinality(For(k, accepts')) =
            IF o \in For(k, accepts) THEN Cardinality(For(k, accepts))
                                     ELSE Cardinality(For(k, accepts)) + 1
    BY <2>2, <2>3
  <2> DEFINE n == Cardinality(For(k, accepts))
  <2>5. n \in Nat /\ Cardinality(For(k, accepts')) = IF o \in For(k, accepts) THEN n ELSE n + 1
    BY <2>1, <2>4
  <2> HIDE DEF n
  <2>6. Cardinality(For(k, accepts')) >= n BY <2>5
  <2> QED BY <2>5, <2>6 DEF n
<1>4. Cardinality(For(k, rejects')) <= Cardinality(For(k, rejects))
  <2>1. IsFiniteSet(For(k, rejects)) /\ For(k, rejects') \subseteq For(k, rejects)
    BY <1>1, ForIsFinite
  <2> QED BY <2>1, FS_Subset
<1>5. /\ Cardinality(For(k, accepts)) \in Nat /\ Cardinality(For(k, rejects)) \in Nat
      /\ Cardinality(For(k, accepts')) \in Nat /\ Cardinality(For(k, rejects')) \in Nat
  BY ForIsFinite
<1>6. <<o, k>> \notin accepts => o \notin For(k, accepts) BY DEF For
<1>7. ASSUME NEW q, q # k PROVE Sum(q)' = Sum(q)
  <2>1. \A x \in People : <<x, q>> # <<o, k>> BY <1>7
  <2> QED BY <2>1, SumStays
<1> HIDE DEF Sum
<1> QED BY <1>2, <1>3, <1>4, <1>5, <1>6, <1>7

-----------------------------------------------------------------------------
(* Types                                                                   *)

(* TypeOK in parts.                                                        *)
SetsTyped ==
    /\ exists \subseteq People /\ active \subseteq exists /\ created \subseteq exists
    /\ dormant \subseteq exists

RatesTyped ==
    /\ accepts \subseteq exists \X exists /\ rejects \subseteq exists \X exists
    /\ accepts \cap rejects = {}

FunctionsTyped ==
    /\ reputation \in [People -> Int] /\ deletion \in [People -> {None, "waiting", "due"}]
    /\ inflight \in [People -> Kinds \cup {None}] /\ held \in [People -> Int]
    /\ loaded \in [People -> Int]

RunTyped ==
    /\ phase \in Phases /\ todo \subseteq People /\ current \subseteq People
    /\ firm \subseteq People /\ admitted \in BOOLEAN

CountersTyped ==
    ratings \in 0..MaxRatings /\ opens \in 0..MaxOpens /\ crashes \in 0..MaxCrashes

LEMMA TypeParts ==
    /\ TypeOK <=> SetsTyped /\ RatesTyped /\ FunctionsTyped /\ RunTyped /\ CountersTyped
    /\ TypeOK' <=> SetsTyped' /\ RatesTyped' /\ FunctionsTyped' /\ RunTyped' /\ CountersTyped'
BY DEF TypeOK, SetsTyped, RatesTyped, FunctionsTyped, RunTyped, CountersTyped

(* Whom the command is about to admit, or has just admitted, has an        *)
(* account.                                                                *)
Accounted ==
    /\ phase \in {"admit", "grant"} => todo \subseteq exists
    /\ phase = "grant" => current \subseteq exists

Sound == TypeOK /\ Accounted

LEMMA SoundInit == Init => Sound
<1> SUFFICES ASSUME Init PROVE Sound
  OBVIOUS
<1>1. SetsTyped /\ RatesTyped BY PeopleAssumption DEF Init, SetsTyped, RatesTyped
<1>2. FunctionsTyped BY DEF Init, FunctionsTyped, None
<1>3. RunTyped BY DEF Init, RunTyped, Phases
<1>4. CountersTyped BY ParametersAssumption DEF Init, CountersTyped
<1>5. Accounted BY DEF Init, Accounted
<1> QED BY <1>1, <1>2, <1>3, <1>4, <1>5, TypeParts DEF Sound

(* A request changes neither the loop of the command nor whom it admits,   *)
(* and takes no account away.                                              *)
LEMMA WebKeepsLoop ==
    ASSUME Sound, NEW p \in People, Web(p)
    PROVE  UNCHANGED <<loopVars, admitted, crashes>> /\ exists \subseteq exists'
<1>1. CASE SignUp(p) BY <1>1 DEF SignUp, history, counters
<1>2. CASE Deactivate(p) BY <1>2 DEF Deactivate, history, counters
<1>3. CASE SaveProfile(p) \/ SaveUser(p)
  BY <1>3 DEF SaveProfile, SaveUser, accountVars, history, counters
<1>4. CASE request_deletion(p) \/ cancel_deletion(p) \/ FallDue(p)
  BY <1>4 DEF request_deletion, cancel_deletion, FallDue, history, counters
<1>5. CASE StayAway(p) \/ ComeBack(p) BY <1>5 DEF StayAway, ComeBack, history, counters
<1>6. ASSUME NEW k \in People, RatePerson(p, k)
      PROVE  UNCHANGED <<loopVars, admitted, crashes>> /\ exists \subseteq exists'
  BY <1>6 DEF RatePerson, accountVars
<1>7. ASSUME NEW kind \in Kinds, Open(p, kind)
      PROVE  UNCHANGED <<loopVars, admitted, crashes>> /\ exists \subseteq exists'
  BY <1>7 DEF Open, accountVars, history
<1> QED BY <1>1, <1>2, <1>3, <1>4, <1>5, <1>6, <1>7 DEF Web

(* The ratings a person gives stay between accounts, and no pair is both   *)
(* accepted and rejected.                                                  *)
LEMMA RatingKeepsType ==
    ASSUME TypeOK, NEW o \in People, NEW k \in People, RatePerson(o, k)
    PROVE  TypeOK'
<1>1. SetsTyped /\ RatesTyped /\ FunctionsTyped /\ RunTyped /\ CountersTyped BY TypeParts
<1>2. /\ UNCHANGED <<exists, active, created, deletion, dormant, reputation, held, phase, todo,
                     loaded, current, admitted, opens, crashes>>
      /\ o \in exists /\ k \in exists
      /\ ratings < MaxRatings /\ ratings' = ratings + 1
      /\ inflight' = [inflight EXCEPT ![o] = None]
      /\ firm' \subseteq firm
      /\ \/ accepts' = accepts \cup {<<o, k>>} /\ rejects' = rejects \ {<<o, k>>}
         \/ accepts' = accepts \ {<<o, k>>} /\ rejects' = rejects \cup {<<o, k>>}
         \/ accepts' = accepts \ {<<o, k>>} /\ rejects' = rejects \ {<<o, k>>}
  BY <1>1 DEF RatePerson, LoggedIn, SetsTyped, accountVars, loopVars
<1>3. SetsTyped' BY <1>1, <1>2 DEF SetsTyped
<1>4. RatesTyped' BY <1>1, <1>2 DEF RatesTyped
<1>5. FunctionsTyped' BY <1>1, <1>2 DEF FunctionsTyped
<1>6. RunTyped' BY <1>1, <1>2 DEF RunTyped
<1>7. CountersTyped' BY <1>1, <1>2, ParametersAssumption DEF CountersTyped
<1> QED BY <1>3, <1>4, <1>5, <1>6, <1>7, TypeParts

LEMMA WebKeepsType ==
    ASSUME TypeOK, NEW p \in People, Web(p)
    PROVE  TypeOK'
<1>0. SetsTyped /\ RatesTyped /\ FunctionsTyped /\ RunTyped /\ CountersTyped BY TypeParts
<1>1. ASSUME UNCHANGED <<loopVars, history>> PROVE RunTyped'
  BY <1>0, <1>1 DEF RunTyped, loopVars, history
<1>2. ASSUME UNCHANGED counters PROVE CountersTyped' BY <1>0, <1>2 DEF CountersTyped, counters
<1>3. CASE SignUp(p)
  <2>1. SetsTyped' BY <1>0, <1>3 DEF SignUp, SetsTyped
  <2>2. RatesTyped' BY <1>0, <1>3 DEF SignUp, RatesTyped, rateVars
  <2>3. FunctionsTyped' BY <1>0, <1>3 DEF SignUp, FunctionsTyped, webVars, loopVars
  <2> QED BY <1>1, <1>2, <1>3, <2>1, <2>2, <2>3, TypeParts DEF SignUp
<1>4. CASE Deactivate(p)
  <2>1. SetsTyped' BY <1>0, <1>4 DEF Deactivate, SetsTyped
  <2>2. RatesTyped'
    <3>1. \/ accepts' = accepts
          \/ \E o \in exists : <<o, p>> \notin rejects /\ accepts' = accepts \cup {<<o, p>>}
      BY <1>0, <1>4 DEF Deactivate, LoggedIn, SetsTyped
    <3>2. exists' = exists /\ rejects' = rejects /\ p \in exists
      BY <1>0, <1>4 DEF Deactivate, SetsTyped
    <3>3. CASE accepts' = accepts BY <1>0, <3>2, <3>3 DEF RatesTyped
    <3>4. ASSUME NEW o \in exists, <<o, p>> \notin rejects, accepts' = accepts \cup {<<o, p>>}
          PROVE  RatesTyped'
      BY <1>0, <3>2, <3>4 DEF RatesTyped
    <3> QED BY <3>1, <3>3, <3>4
  <2>3. FunctionsTyped' BY <1>0, <1>4 DEF Deactivate, FunctionsTyped, webVars, loopVars
  <2> QED BY <1>1, <1>2, <1>4, <2>1, <2>2, <2>3, TypeParts DEF Deactivate
<1>5. CASE SaveProfile(p)
  <2>1. UNCHANGED <<exists, active, created, deletion, dormant, accepts, rejects, loopVars,
                    history, counters>>
    BY <1>5 DEF SaveProfile, accountVars, rateVars
  <2>2. FunctionsTyped'
    BY <1>0, <1>5, <2>1 DEF SaveProfile, Close, FunctionsTyped, loopVars
  <2> QED BY <1>0, <1>1, <1>2, <2>1, <2>2, TypeParts DEF SetsTyped, RatesTyped
<1>6. CASE SaveUser(p)
  <2>1. UNCHANGED <<created, deletion, dormant, accepts, rejects, reputation, loopVars,
                    history, counters>>
    BY <1>6 DEF SaveUser, rateVars
  <2>2. SetsTyped' BY <1>0, <1>6, <2>1 DEF SaveUser, SetsTyped
  <2>3. RatesTyped' BY <1>0, <1>6, <2>1 DEF SaveUser, RatesTyped
  <2>4. FunctionsTyped' BY <1>0, <1>6, <2>1 DEF SaveUser, Close, FunctionsTyped, loopVars
  <2> QED BY <1>1, <1>2, <2>1, <2>2, <2>3, <2>4, TypeParts
<1>7. CASE request_deletion(p) \/ cancel_deletion(p) \/ FallDue(p)
  <2>1. /\ UNCHANGED <<exists, active, created, dormant, accepts, rejects, reputation, inflight,
                       held, loopVars, history, counters>>
        /\ \E d \in {None, "waiting", "due"} : deletion' = [deletion EXCEPT ![p] = d]
    BY <1>7 DEF request_deletion, cancel_deletion, FallDue, rateVars, webVars
  <2>2. FunctionsTyped' BY <1>0, <2>1 DEF FunctionsTyped, loopVars
  <2> QED BY <1>0, <1>1, <1>2, <2>1, <2>2, TypeParts DEF SetsTyped, RatesTyped
<1>8. CASE StayAway(p) \/ ComeBack(p)
  <2>1. /\ UNCHANGED <<exists, active, created, deletion, accepts, rejects, reputation, inflight,
                       held, loopVars, history, counters>>
        /\ \/ dormant' = dormant \ {p}
           \/ dormant' = dormant \cup {p} /\ p \in exists
    BY <1>8 DEF StayAway, ComeBack, rateVars, webVars
  <2>2. SetsTyped' BY <1>0, <2>1 DEF SetsTyped
  <2>3. FunctionsTyped' BY <1>0, <2>1 DEF FunctionsTyped, loopVars
  <2> QED BY <1>0, <1>1, <1>2, <2>1, <2>2, <2>3, TypeParts DEF RatesTyped
<1>9. ASSUME NEW k \in People, RatePerson(p, k) PROVE TypeOK' BY <1>9, RatingKeepsType
<1>10. ASSUME NEW kind \in Kinds, Open(p, kind) PROVE TypeOK'
  <2>1. /\ UNCHANGED <<exists, active, created, deletion, dormant, accepts, rejects, reputation,
                       loopVars, history, ratings, crashes>>
        /\ opens < MaxOpens /\ opens' = opens + 1
        /\ inflight' = [inflight EXCEPT ![p] = kind]
        /\ held' = [held EXCEPT ![p] = reputation[p]]
    BY <1>10 DEF Open, accountVars, rateVars
  <2>2. FunctionsTyped' BY <1>0, <2>1 DEF FunctionsTyped, loopVars
  <2>3. CountersTyped' BY <1>0, <2>1, ParametersAssumption DEF CountersTyped
  <2> QED BY <1>0, <1>1, <2>1, <2>2, <2>3, TypeParts DEF SetsTyped, RatesTyped
<1> QED BY <1>3, <1>4, <1>5, <1>6, <1>7, <1>8, <1>9, <1>10 DEF Web

(* A loop of the command begins.                                           *)
LEMMA LoadKeepsType ==
    ASSUME TypeOK, NEW label \in Phases, NEW people \in SUBSET People, Load(label, people),
           UNCHANGED <<accountVars, rateVars, reputation, webVars, counters>>,
           firm' \subseteq People, admitted' \in BOOLEAN
    PROVE  TypeOK'
<1>0. SetsTyped /\ RatesTyped /\ FunctionsTyped /\ RunTyped /\ CountersTyped BY TypeParts
<1>1. SetsTyped' BY <1>0 DEF SetsTyped, accountVars
<1>2. RatesTyped' BY <1>0 DEF RatesTyped, accountVars, rateVars
<1>3. FunctionsTyped' BY <1>0 DEF FunctionsTyped, accountVars, webVars, Load
<1>4. RunTyped' BY <1>0 DEF RunTyped, Load
<1>5. CountersTyped' BY <1>0 DEF CountersTyped, counters
<1> QED BY <1>1, <1>2, <1>3, <1>4, <1>5, TypeParts

LEMMA StartKeepsType ==
    ASSUME Sound,
           StartRun \/ StartAdmissions \/ StartRecount \/ StartBlocks \/ StartPurge \/ StartDeletions
    PROVE  Sound'
<1>0. /\ exists \subseteq People /\ active \subseteq exists /\ firm \subseteq People
      /\ admitted \in BOOLEAN /\ TypeOK
  BY DEF Sound, TypeOK
<1> DEFINE Loads(label, people) ==
             /\ Load(label, people)
             /\ UNCHANGED <<accountVars, rateVars, reputation, webVars, counters>>
<1>1. ASSUME NEW label \in Phases \ {"admit", "grant"}, NEW people \in SUBSET exists,
             Loads(label, people), firm' \subseteq People, admitted' \in BOOLEAN
      PROVE  Sound'
  <2>1. TypeOK' BY <1>0, <1>1, LoadKeepsType
  <2> QED BY <1>1, <2>1 DEF Sound, Accounted, Load
<1>2. CASE StartRun
  <2>1. /\ Loads("count", exists) /\ admitted' = FALSE /\ "count" \in Phases
        /\ firm' = firm \cup {p \in active \ created : Sum(p) >= required_reputation}
    BY <1>2 DEF StartRun, Phases
  <2>2. firm' \subseteq People BY <1>0, <2>1
  <2> HIDE DEF Loads
  <2> QED BY <1>1, <2>1, <2>2
<1>3. CASE StartAdmissions
  <2>1. /\ Loads("admit", Eligible) /\ firm' = firm /\ admitted' = admitted
        /\ "admit" \in Phases /\ Eligible \subseteq exists
    BY <1>3 DEF StartAdmissions, history, Phases, Eligible
  <2>2. TypeOK' BY <1>0, <2>1, LoadKeepsType
  <2> QED BY <2>1, <2>2 DEF Sound, Accounted, Load, accountVars
<1>4. CASE StartRecount
  <2>1. /\ Loads("recount", exists) /\ firm' = firm /\ admitted' = admitted /\ "recount" \in Phases
    BY <1>4 DEF StartRecount, history, Phases
  <2> HIDE DEF Loads
  <2> QED BY <1>0, <1>1, <2>1
<1>5. CASE StartBlocks
  <2>1. /\ Loads("block", Ineligible) /\ firm' = firm /\ admitted' = admitted
        /\ "block" \in Phases /\ Ineligible \subseteq exists
    BY <1>0, <1>5 DEF StartBlocks, history, Phases, Ineligible
  <2> HIDE DEF Loads
  <2> QED BY <1>0, <1>1, <2>1
<1>6. CASE StartPurge
  <2>1. /\ Loads("purge", Abandoned) /\ firm' = firm /\ admitted' = admitted
        /\ "purge" \in Phases /\ Abandoned \subseteq exists
    BY <1>6 DEF StartPurge, history, Phases, Abandoned
  <2> HIDE DEF Loads
  <2> QED BY <1>0, <1>1, <2>1
<1>7. CASE StartDeletions
  <2>1. /\ Loads("delete", {p \in exists : deletion[p] = "due"})
        /\ firm' = firm /\ admitted' = admitted /\ "delete" \in Phases
    BY <1>7 DEF StartDeletions, history, Phases
  <2> HIDE DEF Loads
  <2> QED BY <1>0, <1>1, <2>1
<1> QED BY <1>2, <1>3, <1>4, <1>5, <1>6, <1>7

(* The steps of the loops.                                                 *)
LEMMA LoopKeepsType ==
    ASSUME Sound, NEW p \in People,
           CountReputation(p) \/ Skip(p) \/ Admit(p) \/ Grant(p) \/ Block(p) \/ Delete(p)
    PROVE  Sound'
<1>0. SetsTyped /\ RatesTyped /\ FunctionsTyped /\ RunTyped /\ CountersTyped /\ Accounted
  BY TypeParts DEF Sound
<1>1. CASE CountReputation(p)
  <2>1. Sum(p) \in Int BY SumIsInt
  <2>2. /\ UNCHANGED <<exists, active, created, deletion, dormant, accepts, rejects, inflight, held,
                       phase, loaded, current, firm, admitted, counters>>
        /\ reputation' = [reputation EXCEPT ![p] = Sum(p)] /\ todo' = todo \ {p}
        /\ phase \in {"count", "recount"}
    BY <1>1 DEF CountReputation, SaveLoaded, accountVars, rateVars, webVars, history
  <2>3. SetsTyped' /\ RatesTyped' BY <1>0, <2>2 DEF SetsTyped, RatesTyped
  <2>4. FunctionsTyped' BY <1>0, <2>1, <2>2 DEF FunctionsTyped
  <2>5. RunTyped' /\ CountersTyped' BY <1>0, <2>2 DEF RunTyped, CountersTyped, counters
  <2>6. Accounted' BY <1>0, <2>2 DEF Accounted
  <2> QED BY <2>3, <2>4, <2>5, <2>6, TypeParts DEF Sound
<1>2. CASE Admit(p)
  <2>1. /\ UNCHANGED <<exists, created, deletion, dormant, accepts, rejects, inflight, held,
                       loaded, counters>>
        /\ active' = active \cup {p} /\ reputation' = [reputation EXCEPT ![p] = loaded[p]]
        /\ admitted' = TRUE /\ firm' \subseteq firm \cup {p} /\ phase = "admit" /\ p \in todo
        /\ phase' = "grant" /\ current' = {p} /\ todo' = todo \ {p}
    BY <1>2 DEF Admit, SaveLoaded, rateVars, webVars
  <2>2. p \in exists BY <1>0, <2>1 DEF Accounted
  <2>3. SetsTyped' /\ RatesTyped' BY <1>0, <2>1, <2>2 DEF SetsTyped, RatesTyped
  <2>4. FunctionsTyped' BY <1>0, <2>1 DEF FunctionsTyped
  <2>5. RunTyped' /\ CountersTyped' BY <1>0, <2>1 DEF RunTyped, CountersTyped, counters, Phases
  <2>6. Accounted' BY <1>0, <2>1, <2>2 DEF Accounted
  <2> QED BY <2>3, <2>4, <2>5, <2>6, TypeParts DEF Sound
<1>6. CASE Skip(p)
  <2>1. /\ UNCHANGED <<exists, active, created, deletion, dormant, reputation, accepts, rejects,
                       inflight, held, phase, loaded, current, firm, admitted, counters>>
        /\ todo' = todo \ {p} /\ phase = "admit"
    BY <1>6 DEF Skip, accountVars, rateVars, webVars, history
  <2>2. SetsTyped' /\ RatesTyped' BY <1>0, <2>1 DEF SetsTyped, RatesTyped
  <2>3. FunctionsTyped' BY <1>0, <2>1 DEF FunctionsTyped
  <2>4. RunTyped' /\ CountersTyped' BY <1>0, <2>1 DEF RunTyped, CountersTyped, counters
  <2>5. Accounted' BY <1>0, <2>1 DEF Accounted
  <2> QED BY <2>2, <2>3, <2>4, <2>5, TypeParts DEF Sound
<1>3. CASE Grant(p)
  <2>1. /\ UNCHANGED <<exists, active, created, deletion, dormant, reputation, inflight, held,
                       phase, todo, loaded, current, firm, admitted, counters>>
        /\ phase = "grant" /\ p \in active
    BY <1>3 DEF Grant, accountVars, webVars, loopVars, history
  <2>2. PICK o \in current : /\ accepts' = accepts \cup {<<o, p>>}
                             /\ rejects' = rejects \ {<<o, p>>}
    BY <1>3 DEF Grant
  <2>3. SetsTyped' BY <1>0, <2>1 DEF SetsTyped
  <2>4. RatesTyped'
    <3>1. o \in exists /\ p \in exists BY <1>0, <2>1 DEF Accounted, SetsTyped
    <3> QED BY <1>0, <2>1, <2>2, <3>1 DEF RatesTyped
  <2>5. FunctionsTyped' BY <1>0, <2>1 DEF FunctionsTyped
  <2>6. RunTyped' /\ CountersTyped' BY <1>0, <2>1 DEF RunTyped, CountersTyped, counters
  <2>7. Accounted' BY <1>0, <2>1 DEF Accounted
  <2> QED BY <2>3, <2>4, <2>5, <2>6, <2>7, TypeParts DEF Sound
<1>4. CASE Block(p)
  <2>1. /\ UNCHANGED <<exists, created, deletion, dormant, accepts, rejects, inflight, held,
                       loaded, firm, admitted, counters>>
        /\ active' = active \ {p} /\ reputation' = [reputation EXCEPT ![p] = loaded[p]]
        /\ phase' = "neutral" /\ current' = {p} /\ todo' = todo \ {p}
    BY <1>4 DEF Block, SaveLoaded, rateVars, webVars, history
  <2>2. SetsTyped' /\ RatesTyped' BY <1>0, <2>1 DEF SetsTyped, RatesTyped
  <2>3. FunctionsTyped' BY <1>0, <2>1 DEF FunctionsTyped
  <2>4. RunTyped' /\ CountersTyped' BY <1>0, <2>1 DEF RunTyped, CountersTyped, counters, Phases
  <2>5. Accounted' BY <2>1 DEF Accounted
  <2> QED BY <2>2, <2>3, <2>4, <2>5, TypeParts DEF Sound
<1>5. CASE Delete(p)
  <2>1. /\ UNCHANGED <<inflight, held, phase, loaded, current, admitted, counters>>
        /\ exists' = exists \ {p} /\ active' = active \ {p} /\ created' = created \ {p}
        /\ dormant' = dormant \ {p} /\ deletion' = [deletion EXCEPT ![p] = None]
        /\ accepts' = accepts \ Involving(p) /\ rejects' = rejects \ Involving(p)
        /\ reputation' = [reputation EXCEPT ![p] = 0]
        /\ firm' = firm \ {p} /\ todo' = todo \ {p} /\ phase \in {"purge", "delete"}
    BY <1>5 DEF Delete, Remove, webVars
  <2>2. SetsTyped' BY <1>0, <2>1 DEF SetsTyped
  <2>3. RatesTyped' BY <1>0, <2>1 DEF RatesTyped, SetsTyped, Involving
  <2>4. FunctionsTyped' BY <1>0, <2>1 DEF FunctionsTyped
  <2>5. RunTyped' /\ CountersTyped' BY <1>0, <2>1 DEF RunTyped, CountersTyped, counters
  <2>6. Accounted' BY <2>1 DEF Accounted
  <2> QED BY <2>2, <2>3, <2>4, <2>5, <2>6, TypeParts DEF Sound
<1> QED BY <1>1, <1>2, <1>3, <1>4, <1>5, <1>6

LEMMA SoundStep == Sound /\ [Next]_vars => Sound'
<1> SUFFICES ASSUME Sound, [Next]_vars PROVE Sound'
  OBVIOUS
<1>0. SetsTyped /\ RatesTyped /\ FunctionsTyped /\ RunTyped /\ CountersTyped /\ Accounted
  BY TypeParts DEF Sound
<1>1. ASSUME NEW p \in People, Web(p) PROVE Sound'
  <2>1. TypeOK' BY <1>1, WebKeepsType DEF Sound
  <2>2. UNCHANGED <<loopVars, admitted, crashes>> /\ exists \subseteq exists' BY <1>1, WebKeepsLoop
  <2> QED BY <1>0, <2>1, <2>2 DEF Sound, Accounted, loopVars
<1>2. CASE AfterGrants
  <2>1. /\ UNCHANGED <<exists, active, created, deletion, dormant, accepts, rejects, reputation,
                       inflight, held, loaded, firm, admitted, counters>>
        /\ phase = "grant" /\ phase' = "admit" /\ todo' \subseteq todo /\ current' = {}
    BY <1>2 DEF AfterGrants, accountVars, rateVars, webVars, history
  <2>2. SetsTyped' /\ RatesTyped' BY <1>0, <2>1 DEF SetsTyped, RatesTyped
  <2>3. FunctionsTyped' BY <1>0, <2>1 DEF FunctionsTyped
  <2>4. RunTyped' /\ CountersTyped' BY <1>0, <2>1 DEF RunTyped, CountersTyped, counters, Phases
  <2>5. Accounted' BY <1>0, <2>1 DEF Accounted
  <2> QED BY <2>2, <2>3, <2>4, <2>5, TypeParts DEF Sound
<1>3. CASE Neutralise
  <2>1. /\ UNCHANGED <<exists, active, created, deletion, dormant, reputation,
                       inflight, held, todo, loaded, firm, admitted, counters>>
        /\ phase' = "block" /\ current' = {}
        /\ accepts' \subseteq accepts /\ rejects' \subseteq rejects
    BY <1>3 DEF Neutralise, accountVars, webVars, history
  <2>2. SetsTyped' /\ RatesTyped' BY <1>0, <2>1 DEF SetsTyped, RatesTyped
  <2>3. FunctionsTyped' BY <1>0, <2>1 DEF FunctionsTyped
  <2>4. RunTyped' /\ CountersTyped' BY <1>0, <2>1 DEF RunTyped, CountersTyped, counters, Phases
  <2>5. Accounted' BY <2>1 DEF Accounted
  <2> QED BY <2>2, <2>3, <2>4, <2>5, TypeParts DEF Sound
<1>4. CASE EndRun \/ BreakOff
  <2>1. /\ UNCHANGED <<exists, active, created, deletion, dormant, accepts, rejects, reputation,
                       inflight, held, ratings, opens>>
        /\ phase' = "idle" /\ todo' = {} /\ current' = {} /\ loaded' = [p \in People |-> 0]
        /\ admitted' = FALSE /\ firm' \subseteq firm
        /\ crashes' = crashes \/ (crashes < MaxCrashes /\ crashes' = crashes + 1)
    <3>1. CASE EndRun
      BY <3>1 DEF EndRun, Finish, accountVars, rateVars, webVars, counters
    <3>2. CASE BreakOff
      <4>1. firm' \subseteq firm BY <3>2 DEF BreakOff
      <4> QED BY <3>2, <4>1 DEF BreakOff, Finish, accountVars, rateVars, webVars
    <3> QED BY <1>4, <3>1, <3>2
  <2>2. SetsTyped' /\ RatesTyped' BY <1>0, <2>1 DEF SetsTyped, RatesTyped
  <2>3. FunctionsTyped' BY <1>0, <2>1 DEF FunctionsTyped
  <2>4. RunTyped' BY <1>0, <2>1 DEF RunTyped, Phases
  <2>5. CountersTyped' BY <1>0, <2>1, ParametersAssumption DEF CountersTyped
  <2>6. Accounted' BY <2>1 DEF Accounted
  <2> QED BY <2>2, <2>3, <2>4, <2>5, <2>6, TypeParts DEF Sound
<1>5. CASE UNCHANGED vars
  BY <1>0, <1>5, TypeParts
     DEF vars, accountVars, rateVars, webVars, loopVars, history, counters, Sound, SetsTyped,
         RatesTyped, FunctionsTyped, RunTyped, CountersTyped, Accounted
<1> QED BY <1>1, <1>2, <1>3, <1>4, <1>5, StartKeepsType, LoopKeepsType DEF Next, Run

(* Whatever overlaps and breaks off, every variable keeps its type; among  *)
(* others nobody is active without an account, or rated by or rates one    *)
(* who has none.                                                           *)
THEOREM TypesHold == Spec => []TypeOK
<1>1. Sound => TypeOK BY DEF Sound
<1> QED BY <1>1, SoundInit, SoundStep, PTL DEF Spec

-----------------------------------------------------------------------------
(* When no request spans steps of the command                              *)

(* No request is under way, and nobody is half signed up while the command *)
(* runs.                                                                   *)
Calm ==
    /\ \A p \in People : inflight[p] = None
    /\ phase # "idle" => created = {}

(* What people may do then.                                                *)
Asks(p) == request_deletion(p) \/ FallDue(p) \/ StayAway(p) \/ ComeBack(p)

AsksWhenIdle(p) == phase = "idle" /\ (SignUp(p) \/ Deactivate(p) \/ cancel_deletion(p))

LEMMA CalmSteps ==
    ASSUME Overlapping = {}, Calm, [Next]_vars
    PROVE  \/ \E p \in People : Asks(p) \/ AsksWhenIdle(p)
           \/ \E p \in People, k \in People : LoggedIn(p) /\ RatePerson(p, k)
           \/ Run \/ BreakOff \/ UNCHANGED vars
<1>1. ASSUME NEW p \in People, Web(p)
      PROVE  \/ Asks(p) \/ AsksWhenIdle(p)
             \/ \E k \in People : LoggedIn(p) /\ RatePerson(p, k)
  <2>1. inflight[p] = None /\ "profile" # None /\ "username" # None /\ "rating" # None
    BY DEF Calm, None
  <2>2. ~SaveProfile(p) /\ ~SaveUser(p) BY <2>1 DEF SaveProfile, SaveUser
  <2>3. \A kind \in Kinds : ~Open(p, kind) BY DEF Open
  <2>4. SignUp(p) \/ cancel_deletion(p) => phase = "idle" BY DEF SignUp, cancel_deletion, MayRun
  <2>5. Deactivate(p) => phase = "idle" BY DEF Deactivate, Calm
  <2>6. \A k \in People : RatePerson(p, k) => LoggedIn(p) BY <2>1 DEF RatePerson
  <2> QED BY <1>1, <2>2, <2>3, <2>4, <2>5, <2>6 DEF Web, Asks, AsksWhenIdle
<1> QED BY <1>1 DEF Next

(* What the requests leave alone.                                          *)
LEMMA AskingLeaves ==
    ASSUME NEW p \in People, Asks(p)
    PROVE  UNCHANGED <<exists, active, created, accepts, rejects, reputation, webVars, loopVars,
                       history, counters>>
BY DEF Asks, request_deletion, FallDue, StayAway, ComeBack, rateVars

LEMMA AskingIdlyLeaves ==
    ASSUME NEW p \in People, AsksWhenIdle(p)
    PROVE  /\ phase = "idle" /\ exists \subseteq exists'
           /\ UNCHANGED <<dormant, rejects, reputation, webVars, loopVars, history, counters>>
BY DEF AsksWhenIdle, SignUp, Deactivate, cancel_deletion, rateVars

LEMMA RatingLeaves ==
    ASSUME NEW p \in People, NEW k \in People, RatePerson(p, k)
    PROVE  /\ UNCHANGED <<accountVars, reputation, held, loopVars, admitted>>
           /\ inflight' = [inflight EXCEPT ![p] = None]
BY DEF RatePerson

(* What the steps of the command leave alone.                              *)
LEMMA RunLeaves ==
    ASSUME Run \/ BreakOff
    PROVE  UNCHANGED webVars /\ created' \subseteq created
<1>1. CASE StartRun \/ StartAdmissions \/ StartRecount \/ StartBlocks \/ StartPurge \/ StartDeletions
  BY <1>1 DEF StartRun, StartAdmissions, StartRecount, StartBlocks, StartPurge, StartDeletions,
              accountVars
<1>2. CASE AfterGrants \/ Neutralise \/ EndRun \/ BreakOff
  BY <1>2 DEF AfterGrants, Neutralise, EndRun, BreakOff, accountVars
<1>3. ASSUME NEW p \in People,
             CountReputation(p) \/ Skip(p) \/ Admit(p) \/ Grant(p) \/ Block(p) \/ Delete(p)
      PROVE  UNCHANGED webVars /\ created' \subseteq created
  BY <1>3 DEF CountReputation, Skip, Admit, Grant, Block, Delete, Remove, accountVars
<1> QED BY <1>1, <1>2, <1>3 DEF Run

LEMMA CalmStep ==
    ASSUME Overlapping = {}, TypeOK, Calm, [Next]_vars
    PROVE  Calm'
<1>0. inflight \in [People -> Kinds \cup {None}] BY DEF TypeOK
<1>1. ASSUME NEW p \in People, Asks(p) PROVE Calm'
  BY <1>1, AskingLeaves DEF Calm, webVars, loopVars
<1>2. ASSUME NEW p \in People, AsksWhenIdle(p) PROVE Calm'
  BY <1>2, AskingIdlyLeaves DEF Calm, webVars, loopVars
<1>3. ASSUME NEW p \in People, NEW k \in People, RatePerson(p, k) PROVE Calm'
  BY <1>0, <1>3, RatingLeaves DEF Calm, accountVars, loopVars
<1>4. CASE StartRun
  <2>1. created = {} BY <1>4 DEF StartRun
  <2> QED BY <1>4, <2>1 DEF StartRun, Calm, accountVars, webVars
<1>5. CASE (Run \/ BreakOff) /\ ~StartRun
  <2>1. phase # "idle"
    BY <1>5 DEF Run, StartAdmissions, AfterGrants, StartRecount, StartBlocks, Neutralise, StartPurge,
                StartDeletions, EndRun, CountReputation, Skip, Admit, Grant, Block, Delete,
                BreakOff
  <2> QED BY <1>5, <2>1, RunLeaves DEF Calm, webVars
<1>6. CASE UNCHANGED vars BY <1>6 DEF vars, Calm, accountVars, webVars, loopVars
<1> QED BY <1>1, <1>2, <1>3, <1>4, <1>5, <1>6, CalmSteps

LEMMA CalmInit == Init => Calm
BY DEF Init, Calm

-----------------------------------------------------------------------------
(* Accounts go only lawfully                                               *)

(* Whom a loop of the command is still to delete may be deleted.           *)
Doomed ==
    /\ phase = "purge" => \A p \in todo : p \in dormant \ active /\ deletion[p] = None
    /\ phase = "delete" => \A p \in todo : deletion[p] = "due"

LEMMA DoomedStep ==
    ASSUME Overlapping = {}, TypeOK, Calm, Doomed, [Next]_vars
    PROVE  Doomed'
<1>0. deletion \in [People -> {None, "waiting", "due"}] /\ todo \subseteq People BY DEF TypeOK
<1>1. ASSUME NEW p \in People, Asks(p) PROVE Doomed'
  <2>1. UNCHANGED <<active, phase, todo>> BY <1>1, AskingLeaves DEF loopVars
  <2>2. ASSUME NEW q \in todo, q \in dormant \ active, deletion[q] = None
        PROVE  q \in dormant' /\ deletion'[q] = None
    BY <1>0, <1>1, <2>2 DEF Asks, request_deletion, FallDue, StayAway, ComeBack, LoggedIn, None
  <2>3. ASSUME NEW q \in todo, deletion[q] = "due" PROVE deletion'[q] = "due"
    BY <1>0, <1>1, <2>3 DEF Asks, request_deletion, FallDue, StayAway, ComeBack, None
  <2> QED BY <2>1, <2>2, <2>3 DEF Doomed
<1>2. ASSUME NEW p \in People, AsksWhenIdle(p) PROVE Doomed'
  BY <1>2, AskingIdlyLeaves DEF Doomed, loopVars
<1>3. ASSUME NEW p \in People, NEW k \in People, RatePerson(p, k) PROVE Doomed'
  BY <1>3, RatingLeaves DEF Doomed, accountVars, loopVars
<1>4. CASE StartRun \/ StartAdmissions \/ StartRecount \/ StartBlocks
  BY <1>4 DEF StartRun, StartAdmissions, StartRecount, StartBlocks, Load, Doomed
<1>5. CASE StartPurge
  <2>1. phase' = "purge" /\ todo' = Abandoned /\ UNCHANGED <<active, dormant, deletion>>
    BY <1>5 DEF StartPurge, Load, accountVars
  <2> QED BY <2>1 DEF Doomed, Abandoned
<1>6. CASE StartDeletions
  <2>1. /\ phase' = "delete" /\ deletion' = deletion
        /\ todo' = {p \in exists : deletion[p] = "due"}
    BY <1>6 DEF StartDeletions, Load, accountVars
  <2> QED BY <2>1 DEF Doomed
<1>7. CASE AfterGrants \/ Neutralise BY <1>7 DEF AfterGrants, Neutralise, Doomed
<1>8. CASE EndRun \/ BreakOff BY <1>8 DEF EndRun, BreakOff, Finish, Doomed
<1>9. ASSUME NEW p \in People,
             CountReputation(p) \/ Skip(p) \/ Admit(p) \/ Grant(p) \/ Block(p)
      PROVE  Doomed'
  BY <1>9 DEF CountReputation, Skip, Admit, Grant, Block, Doomed, loopVars
<1>10. ASSUME NEW p \in People, Delete(p) PROVE Doomed'
  <2>1. /\ phase' = phase /\ todo' = todo \ {p} /\ active' = active \ {p}
        /\ dormant' = dormant \ {p} /\ deletion' = [deletion EXCEPT ![p] = None]
    BY <1>10 DEF Delete, Remove
  <2> QED BY <1>0, <2>1 DEF Doomed
<1>11. CASE UNCHANGED vars BY <1>11 DEF vars, Doomed, accountVars, loopVars
<1> QED BY <1>1, <1>2, <1>3, <1>4, <1>5, <1>6, <1>7, <1>8, <1>9, <1>10, <1>11, CalmSteps DEF Run

(* An account goes by a step of the two loops that delete.                 *)
LEMMA OnlyDeleteRemoves ==
    ASSUME Overlapping = {}, Calm, [Next]_vars, NEW q \in exists \ exists'
    PROVE  Delete(q)
<1>1. ASSUME NEW p \in People, Asks(p) \/ AsksWhenIdle(p) PROVE FALSE
  BY <1>1, AskingLeaves, AskingIdlyLeaves
<1>2. ASSUME NEW p \in People, NEW k \in People, RatePerson(p, k) PROVE FALSE
  BY <1>2, RatingLeaves DEF accountVars
<1>3. CASE StartRun \/ StartAdmissions \/ StartRecount \/ StartBlocks \/ StartPurge \/ StartDeletions
  BY <1>3 DEF StartRun, StartAdmissions, StartRecount, StartBlocks, StartPurge, StartDeletions,
              accountVars
<1>4. CASE AfterGrants \/ Neutralise \/ EndRun \/ BreakOff \/ UNCHANGED vars
  BY <1>4 DEF AfterGrants, Neutralise, EndRun, BreakOff, vars, accountVars
<1>5. ASSUME NEW p \in People,
             CountReputation(p) \/ Skip(p) \/ Admit(p) \/ Grant(p) \/ Block(p)
      PROVE  FALSE
  BY <1>5 DEF CountReputation, Skip, Admit, Grant, Block, accountVars
<1>6. ASSUME NEW p \in People, Delete(p) PROVE Delete(q)
  <2>1. exists' = exists \ {p} BY <1>6 DEF Delete, Remove
  <2> QED BY <1>6, <2>1
<1> QED BY <1>1, <1>2, <1>3, <1>4, <1>5, <1>6, CalmSteps DEF Run

(* When no request spans steps of the command, an account goes only if its *)
(* owner has asked for it and the days have passed, or if it is inactive   *)
(* and has been left alone, however often the command breaks off.          *)
THEOREM DeletionsAreLawful == (Overlapping = {}) /\ Spec => LawfulDeletion
<1> SUFFICES ASSUME Overlapping = {} PROVE Spec => LawfulDeletion
  OBVIOUS
<1>1. TypeOK /\ Calm /\ [Next]_vars => Calm' BY CalmStep
<1>2. Init => Doomed BY DEF Init, Doomed
<1>3. TypeOK /\ Calm /\ Doomed /\ [Next]_vars => Doomed' BY DoomedStep
<1>4. ASSUME TypeOK, Calm, Doomed, [Next]_vars
      PROVE  \A p \in exists \ exists' :
                \/ deletion[p] = "due"
                \/ p \in dormant \ active /\ deletion[p] = None
  <2> SUFFICES ASSUME NEW p \in exists \ exists'
               PROVE  deletion[p] = "due" \/ (p \in dormant \ active /\ deletion[p] = None)
    OBVIOUS
  <2>1. Delete(p) BY <1>4, OnlyDeleteRemoves
  <2> QED BY <1>4, <2>1 DEF Delete, Doomed
<1> QED BY <1>1, <1>2, <1>3, <1>4, CalmInit, TypesHold, PTL DEF Spec, LawfulDeletion

-----------------------------------------------------------------------------
(* When no run breaks off either: only citizens have a say                 *)

(* Those whose ratings may stand: the citizens, and while the command      *)
(* blocks one, that one.                                                   *)
Voices == (active \ created) \cup (IF phase = "neutral" THEN current ELSE {})

Heard ==
    /\ \A o, k \in People : <<o, k>> \in accepts \cup rejects => o \in Voices
    /\ phase = "grant" => \E p \in active : current = {p}
    /\ phase = "neutral" => \E p \in People : current = {p}

(* Ratings that are only taken back, or come from somebody who may give    *)
(* them.                                                                   *)
LEMMA HeardStays ==
    ASSUME Heard,
           \A o, k \in People : <<o, k>> \in accepts' \cup rejects' =>
                  <<o, k>> \in accepts \cup rejects \/ o \in Voices',
           Voices \subseteq Voices',
           phase' = "grant" => \E p \in active' : current' = {p},
           phase' = "neutral" => \E p \in People : current' = {p}
    PROVE  Heard'
BY DEF Heard

LEMMA HeardStep ==
    ASSUME Overlapping = {}, MaxCrashes = 0, TypeOK, Calm, Heard, [Next]_vars
    PROVE  Heard'
<1>0. /\ active \subseteq exists /\ created \subseteq exists /\ exists \subseteq People
      /\ todo \subseteq People
  BY DEF TypeOK
<1>1. ASSUME UNCHANGED <<accepts, rejects, phase, current>>, active \ created = active' \ created',
             active \subseteq active'
      PROVE  Heard'
  BY <1>1 DEF Heard, Voices
<1>2. ASSUME NEW p \in People, Asks(p) PROVE Heard'
  BY <1>1, <1>2, AskingLeaves DEF loopVars
<1>3. ASSUME NEW p \in People, AsksWhenIdle(p) PROVE Heard'
  <2>1. CASE SignUp(p)
    <3>1. /\ UNCHANGED <<accepts, rejects, phase, current>> /\ p \notin exists
          /\ active' = active \cup {p} /\ created' = created \cup {p}
      BY <2>1 DEF SignUp, rateVars, loopVars
    <3> QED BY <1>0, <1>1, <3>1
  <2>2. CASE Deactivate(p)
    <3>1. /\ UNCHANGED <<rejects, phase, current>> /\ p \in created /\ phase = "idle"
          /\ active' = active \ {p} /\ created' = created \ {p}
          /\ \A o, k \in People : <<o, k>> \in accepts' =>
                <<o, k>> \in accepts \/ o \in active \ created
      <4>1. /\ UNCHANGED <<rejects, phase, current>> /\ p \in created /\ phase = "idle"
            /\ active' = active \ {p} /\ created' = created \ {p}
        BY <1>3, <2>2 DEF Deactivate, loopVars, AsksWhenIdle
      <4>2. \/ accepts' = accepts
            \/ \E o \in People : o \in active \ created /\ accepts' = accepts \cup {<<o, p>>}
        BY <2>2 DEF Deactivate, LoggedIn
      <4> QED BY <4>1, <4>2
    <3>2. Voices' = Voices /\ active \ created \subseteq Voices BY <3>1 DEF Voices
    <3> QED BY <3>1, <3>2, HeardStays
  <2>3. CASE cancel_deletion(p)
    BY <1>1, <2>3 DEF cancel_deletion, rateVars, loopVars
  <2> QED BY <1>3, <2>1, <2>2, <2>3 DEF AsksWhenIdle
<1>4. ASSUME NEW p \in People, NEW k \in People, LoggedIn(p), RatePerson(p, k) PROVE Heard'
  <2>1. UNCHANGED <<active, created, phase, current>>
    BY <1>4, RatingLeaves DEF accountVars, loopVars
  <2>2. accepts' \cup rejects' \subseteq accepts \cup rejects \cup {<<p, k>>}
    BY <1>4 DEF RatePerson
  <2>3. Voices' = Voices /\ p \in Voices BY <1>4, <2>1 DEF Voices, LoggedIn
  <2> QED BY <2>1, <2>2, <2>3, HeardStays DEF Heard
<1>5. CASE StartRun \/ StartAdmissions \/ StartRecount \/ StartBlocks \/ StartPurge \/ StartDeletions
  <2>1. /\ UNCHANGED <<active, created, accepts, rejects>> /\ phase # "neutral"
        /\ phase' # "neutral" /\ phase' # "grant"
    BY <1>5 DEF StartRun, StartAdmissions, StartRecount, StartBlocks, StartPurge, StartDeletions, Load,
                accountVars, rateVars
  <2> QED BY <2>1, HeardStays DEF Voices
<1>6. CASE AfterGrants \/ EndRun
  <2>1. /\ UNCHANGED <<active, created, accepts, rejects>> /\ phase # "neutral"
        /\ phase' # "neutral" /\ phase' # "grant"
    BY <1>6 DEF AfterGrants, EndRun, Finish, accountVars, rateVars
  <2> QED BY <2>1, HeardStays DEF Voices
<1>7. CASE BreakOff BY <1>7 DEF BreakOff, TypeOK
<1>8. CASE Neutralise
  <2>1. PICK p \in current : /\ accepts' = accepts \ GivenBy(p)
                             /\ rejects' = rejects \ GivenBy(p)
    BY <1>8 DEF Neutralise
  <2>2. current = {p} /\ phase = "neutral" /\ phase' = "block" /\ UNCHANGED <<active, created>>
    BY <1>8, <2>1 DEF Neutralise, Heard, accountVars
  <2>3. \A o, k \in People : <<o, k>> \in accepts' \cup rejects' =>
            <<o, k>> \in accepts \cup rejects /\ o # p
    BY <2>1 DEF GivenBy
  <2>4. Voices = (active \ created) \cup {p} /\ Voices' = active \ created
    BY <2>2 DEF Voices
  <2> QED BY <2>2, <2>3, <2>4 DEF Heard
<1>9. ASSUME NEW p \in People, CountReputation(p) \/ Skip(p) PROVE Heard'
  BY <1>1, <1>9 DEF CountReputation, Skip, accountVars, rateVars
<1>10. ASSUME NEW p \in People, Admit(p) PROVE Heard'
  <2>1. /\ UNCHANGED <<created, accepts, rejects>> /\ phase = "admit" /\ phase' = "grant"
        /\ active' = active \cup {p} /\ current' = {p}
    BY <1>10 DEF Admit, rateVars
  <2>2. Voices \subseteq Voices' BY <2>1 DEF Voices
  <2>3. \E x \in active' : current' = {x} BY <2>1
  <2> QED BY <2>1, <2>2, <2>3, HeardStays
<1>11. ASSUME NEW q \in People, Grant(q) PROVE Heard'
  <2>1. /\ UNCHANGED <<active, created, phase, current>> /\ phase = "grant"
        /\ \E p \in current : /\ accepts' = accepts \cup {<<p, q>>}
                              /\ rejects' = rejects \ {<<p, q>>}
    BY <1>11 DEF Grant, accountVars, loopVars
  <2>2. PICK p \in active : current = {p} BY <2>1 DEF Heard
  <2>3. accepts' = accepts \cup {<<p, q>>} /\ rejects' = rejects \ {<<p, q>>} BY <2>1, <2>2
  <2>4. Voices' = Voices /\ p \in Voices BY <2>1, <2>2 DEF Voices, Calm
  <2> QED BY <2>1, <2>2, <2>3, <2>4, HeardStays
<1>12. ASSUME NEW p \in People, Block(p) PROVE Heard'
  <2>1. /\ UNCHANGED <<created, accepts, rejects>> /\ phase = "block" /\ phase' = "neutral"
        /\ active' = active \ {p} /\ current' = {p}
    BY <1>12 DEF Block, rateVars
  <2>2. Voices \subseteq Voices' BY <2>1 DEF Voices
  <2> QED BY <2>1, <2>2, HeardStays
<1>13. ASSUME NEW p \in People, Delete(p) PROVE Heard'
  <2>1. /\ UNCHANGED <<phase, current>> /\ phase \in {"purge", "delete"}
        /\ active' = active \ {p} /\ created' = created \ {p}
        /\ accepts' = accepts \ Involving(p) /\ rejects' = rejects \ Involving(p)
    BY <1>13 DEF Delete, Remove
  <2>2. \A o, k \in People : <<o, k>> \in accepts' \cup rejects' =>
            <<o, k>> \in accepts \cup rejects /\ o # p
    BY <2>1 DEF Involving
  <2>3. Voices = active \ created /\ Voices' = (active \ created) \ {p} BY <2>1 DEF Voices
  <2> QED BY <2>1, <2>2, <2>3 DEF Heard
<1>14. CASE UNCHANGED vars
  BY <1>1, <1>14 DEF vars, accountVars, rateVars, loopVars
<1> QED BY <1>2, <1>3, <1>4, <1>5, <1>6, <1>7, <1>8, <1>9, <1>10, <1>11, <1>12, <1>13, <1>14,
           CalmSteps DEF Run

(* When no request spans steps of the command and no run breaks off, no    *)
(* rating of an outsider is left between two runs; and the types hold.     *)
THEOREM CitizensInvariantHolds ==
    (Overlapping = {}) /\ (MaxCrashes = 0) /\ Spec => []CitizensInvariant
<1> SUFFICES ASSUME Overlapping = {}, MaxCrashes = 0 PROVE Spec => []CitizensInvariant
  OBVIOUS
<1>1. TypeOK /\ Calm /\ [Next]_vars => Calm' BY CalmStep
<1>2. Init => Heard BY DEF Init, Heard
<1>3. TypeOK /\ Calm /\ Heard /\ [Next]_vars => Heard' BY HeardStep
<1>4. TypeOK /\ Heard => CitizensInvariant
  <2> SUFFICES ASSUME TypeOK, Heard, phase = "idle", NEW r \in accepts \cup rejects
               PROVE  r[1] \in active
    BY DEF CitizensInvariant, OnlyCitizensRate
  <2>1. PICK o \in People, k \in People : r = <<o, k>> BY DEF TypeOK
  <2> QED BY <2>1 DEF Heard, Voices
<1> QED BY <1>1, <1>2, <1>3, <1>4, CalmInit, TypesHold, PTL DEF Spec

-----------------------------------------------------------------------------
(* When no run breaks off either: the firm are spared                      *)

(* One more citizen raises the bar by one at most, and not at all once the *)
(* group is no longer small.                                               *)
LEMMA BarRises ==
    ASSUME NEW n \in Nat
    PROVE  /\ Bar(n) \in Int /\ Bar(n + 1) \in Int
           /\ Bar(n) <= Bar(n + 1) /\ Bar(n + 1) <= Bar(n) + 1
           /\ n + 1 > 2 * Acceptance => Bar(n + 1) = Bar(n)
BY ParametersAssumption DEF Bar

LEMMA BarIsInt == TypeOK => population \in Nat /\ required_reputation \in Int
<1> SUFFICES ASSUME TypeOK PROVE population \in Nat /\ required_reputation \in Int
  OBVIOUS
<1>1. active \subseteq People BY DEF TypeOK
<1>2. population \in Nat BY <1>1, PeopleAssumption, FS_Subset, FS_CardinalityType DEF population
<1> QED BY <1>2, BarRises DEF required_reputation

(* The bar depends on the active accounts alone.                           *)
LEMMA BarStays ==
    ASSUME active' = active
    PROVE  required_reputation' = required_reputation /\ (GroupIsSmall' <=> GroupIsSmall)
BY DEF required_reputation, population, GroupIsSmall

(* What a firm citizen k still lacks while p, just admitted, grants its    *)
(* acceptances: at most p's.                                               *)
Owed(p, k) == <<p, k>> \notin accepts /\ GroupIsSmall

Bears(p, k) ==
    /\ Sum(k) >= required_reputation - 1
    /\ Owed(p, k) \/ Sum(k) >= required_reputation

Met(k) == Sum(k) >= required_reputation

(* The firm meet the bar, from loop to loop.                               *)
Spared ==
    /\ phase = "idle" => firm = {}
    /\ phase \in {"count", "admit", "grant", "recount"} => firm \subseteq active
    /\ phase \in {"count", "admit", "recount"} => \A k \in firm : Met(k)
    /\ phase \in {"admit", "grant"} => todo \cap active = {}
    /\ phase = "grant" => \A p \in current : /\ p \in firm => Met(p)
                                             /\ \A k \in firm \ {p} : Bears(p, k)
    /\ phase = "recount" => \A k \in firm : k \in todo \/ reputation[k] >= required_reputation
    /\ phase \in {"block", "neutral"} => todo \cap firm = {}

(* Nobody firm loses by the ratings, and an acceptance counts.             *)
Risen ==
    /\ firm' \subseteq firm
    /\ \A k \in firm' :
          /\ Sum(k)' >= Sum(k)
          /\ \A p \in People : /\ <<p, k>> \in accepts => <<p, k>> \in accepts'
                               /\ <<p, k>> \notin accepts /\ <<p, k>> \in accepts'
                                     => Sum(k)' >= Sum(k) + 1

LEMMA RisenSpares ==
    ASSUME TypeOK, Spared, Risen, UNCHANGED <<active, reputation, phase, todo, current>>
    PROVE  Spared'
<1>0. required_reputation \in Int /\ \A k \in People : Sum(k) \in Int /\ Sum(k)' \in Int
  <2>1. \A k \in People : Sum(k) \in Int BY SumIsInt
  <2>2. ASSUME NEW k \in People PROVE Sum(k)' \in Int
    <3>1. Sum(k)' = Cardinality(For(k, accepts')) - Cardinality(For(k, rejects')) BY DEF Sum, For
    <3> QED BY <3>1, ForIsFinite
  <2> QED BY <2>1, <2>2, BarIsInt
<1>1. required_reputation' = required_reputation /\ (GroupIsSmall' <=> GroupIsSmall) BY BarStays
<1>2. firm' \subseteq firm /\ firm \subseteq People /\ current \subseteq People BY DEF Risen, TypeOK
<1>3. ASSUME NEW k \in firm', Met(k) PROVE Met(k)'
  BY <1>0, <1>1, <1>2, <1>3 DEF Met, Risen
<1>4. ASSUME NEW p \in People, NEW k \in firm', Bears(p, k) PROVE Bears(p, k)'
  <2>1. k \in People /\ Sum(k) \in Int /\ Sum(k)' \in Int BY <1>0, <1>2
  <2>2. /\ Sum(k)' >= Sum(k)
        /\ <<p, k>> \in accepts => <<p, k>> \in accepts'
        /\ <<p, k>> \notin accepts /\ <<p, k>> \in accepts' => Sum(k)' >= Sum(k) + 1
    BY DEF Risen
  <2>3. Sum(k) >= required_reputation - 1 BY <1>4 DEF Bears
  <2>4. Sum(k)' >= required_reputation' - 1 BY <1>0, <1>1, <2>1, <2>2, <2>3
  <2>5. CASE Owed(p, k) /\ <<p, k>> \notin accepts'
    BY <1>1, <2>4, <2>5 DEF Bears, Owed
  <2>6. CASE <<p, k>> \notin accepts /\ <<p, k>> \in accepts'
    <3>1. Sum(k)' >= required_reputation' BY <1>0, <1>1, <2>1, <2>2, <2>3, <2>6
    <3> QED BY <2>4, <3>1 DEF Bears
  <2>7. CASE ~Owed(p, k)
    <3>1. Sum(k) >= required_reputation BY <1>4, <2>7 DEF Bears
    <3>2. Sum(k)' >= required_reputation' BY <1>0, <1>1, <2>1, <2>2, <3>1
    <3> QED BY <2>4, <3>2 DEF Bears
  <2> QED BY <2>5, <2>6, <2>7 DEF Owed
<1>5. phase' \in {"count", "admit", "recount"} => \A k \in firm' : Met(k)'
  BY <1>2, <1>3 DEF Spared
<1>6. phase' = "grant" => \A p \in current' : /\ p \in firm' => Met(p)'
                                              /\ \A k \in firm' \ {p} : Bears(p, k)'
  BY <1>2, <1>3, <1>4 DEF Spared
<1>7. phase' = "recount" =>
          \A k \in firm' : k \in todo' \/ reputation'[k] >= required_reputation'
  BY <1>1, <1>2 DEF Spared
<1>8. /\ phase' = "idle" => firm' = {}
      /\ phase' \in {"count", "admit", "grant", "recount"} => firm' \subseteq active'
      /\ phase' \in {"admit", "grant"} => todo' \cap active' = {}
      /\ phase' \in {"block", "neutral"} => todo' \cap firm' = {}
  BY <1>2 DEF Spared
<1> QED BY <1>5, <1>6, <1>7, <1>8 DEF Spared

(* Ratings that do not change raise nothing.                               *)
LEMMA SameRatings ==
    ASSUME UNCHANGED <<accepts, rejects>>, NEW k
    PROVE  Sum(k)' = Sum(k)
BY DEF Sum

LEMMA SameRisen ==
    ASSUME UNCHANGED <<accepts, rejects, firm>>
    PROVE  Risen
<1>1. ASSUME NEW k PROVE Sum(k)' >= Sum(k) BY SameRatings, SumIsInt
<1> QED BY <1>1 DEF Risen

(* An acceptance, by whomever, raises.                                     *)
LEMMA AcceptanceRises ==
    ASSUME NEW o \in People, NEW k \in People, firm' \subseteq firm,
           accepts' = accepts \cup {<<o, k>>}, rejects' = rejects \ {<<o, k>>}
    PROVE  Risen
<1> SUFFICES ASSUME NEW q \in firm'
             PROVE  /\ Sum(q)' >= Sum(q)
                    /\ \A p \in People : /\ <<p, q>> \in accepts => <<p, q>> \in accepts'
                                         /\ <<p, q>> \notin accepts /\ <<p, q>> \in accepts'
                                               => Sum(q)' >= Sum(q) + 1
  BY DEF Risen
<1>1. /\ Sum(k)' >= Sum(k)
      /\ <<o, k>> \notin accepts => Sum(k)' >= Sum(k) + 1
      /\ \A x : x # k => Sum(x)' = Sum(x)
  BY SumAccepted
<1>2. Sum(q) \in Int BY SumIsInt
<1>3. CASE q # k BY <1>1, <1>2, <1>3
<1>4. CASE q = k BY <1>1, <1>4
<1> QED BY <1>3, <1>4

LEMMA RatingRises ==
    ASSUME NEW o \in People, NEW k \in People, RatePerson(o, k)
    PROVE  Risen
<1>1. CASE /\ accepts' = accepts \cup {<<o, k>>} /\ rejects' = rejects \ {<<o, k>>}
           /\ UNCHANGED firm
  BY <1>1, AcceptanceRises
<1>2. CASE /\ accepts' = accepts \ {<<o, k>>} /\ firm' = firm \ {k}
           /\ rejects' = rejects \ {<<o, k>>} \/ rejects' = rejects \cup {<<o, k>>}
  <2> SUFFICES ASSUME NEW q \in firm'
               PROVE  /\ Sum(q)' >= Sum(q)
                      /\ \A p \in People : <<p, q>> \in accepts <=> <<p, q>> \in accepts'
    BY <1>2 DEF Risen
  <2>1. q # k BY <1>2
  <2>2. \A p : <<p, q>> # <<o, k>> BY <2>1
  <2>3. Sum(q)' = Sum(q) BY <1>2, <2>2, SumStays
  <2>4. Sum(q) \in Int BY SumIsInt
  <2> QED BY <1>2, <2>2, <2>3, <2>4
<1> QED BY <1>1, <1>2 DEF RatePerson

(* The first candidate a run admits above the bar is firm from then on,    *)
(* and the others lack at most its acceptance.                             *)
LEMMA AdmissionSpares ==
    ASSUME TypeOK, Heard, Spared, Calm, NEW p \in People, Admit(p)
    PROVE  Spared'
<1>1. /\ UNCHANGED <<created, accepts, rejects>> /\ phase = "admit" /\ phase' = "grant" /\ p \in todo
      /\ active' = active \cup {p} /\ current' = {p} /\ todo' = todo \ {p}
      /\ firm' = firm \/ (firm' = firm \cup {p} /\ Sum(p) > required_reputation)
  BY DEF Admit, rateVars
<1>2. /\ firm \subseteq active /\ p \notin active /\ todo \cap active = {}
      /\ active \subseteq People /\ \A k \in firm : Met(k)
  BY <1>1 DEF Spared, TypeOK
<1>3. population \in Nat /\ population' = population + 1
  BY <1>1, <1>2, PeopleAssumption, FS_Subset, FS_AddElement, FS_CardinalityType DEF population
<1>4. /\ required_reputation \in Int /\ required_reputation' \in Int
      /\ required_reputation' <= required_reputation + 1
      /\ ~GroupIsSmall' => required_reputation' = required_reputation
  <2>1. /\ required_reputation = Bar(population)
        /\ required_reputation' = Bar(population + 1)
        /\ GroupIsSmall' <=> population + 1 <= 2 * Acceptance
    BY <1>3 DEF required_reputation, GroupIsSmall
  <2> QED BY <1>3, <2>1, BarRises, ParametersAssumption
<1>5. ASSUME NEW k PROVE Sum(k)' = Sum(k) /\ Sum(k) \in Int BY <1>1, SameRatings, SumIsInt
<1>6. ASSUME NEW k \in firm, k # p PROVE Bears(p, k)'
  <2>1. Sum(k) >= required_reputation BY <1>2 DEF Met
  <2>2. k \in People /\ p \notin Voices BY <1>1, <1>2 DEF Voices
  <2>3. <<p, k>> \notin accepts' BY <1>1, <2>2 DEF Heard
  <2>4. Sum(k)' >= required_reputation' - 1 BY <1>4, <1>5, <2>1
  <2>5. GroupIsSmall' \/ Sum(k)' >= required_reputation' BY <1>4, <1>5, <2>1
  <2> QED BY <2>3, <2>4, <2>5 DEF Bears, Owed
<1>7. ASSUME p \in firm' PROVE Met(p)'
  <2>1. Sum(p) > required_reputation BY <1>1, <1>2, <1>7
  <2> QED BY <1>4, <1>5, <2>1 DEF Met
<1> QED BY <1>1, <1>2, <1>6, <1>7 DEF Spared

LEMMA SparedStep ==
    ASSUME Overlapping = {}, MaxCrashes = 0, TypeOK, Calm, Heard, Spared, [Next]_vars
    PROVE  Spared'
<1>0. /\ firm \subseteq People /\ active \subseteq exists /\ exists \subseteq People
      /\ reputation \in [People -> Int] /\ required_reputation \in Int
  BY BarIsInt DEF TypeOK
<1>1. ASSUME NEW p \in People, Asks(p) PROVE Spared'
  BY <1>1, AskingLeaves, SameRisen, RisenSpares DEF loopVars, history
<1>2. ASSUME NEW p \in People, AsksWhenIdle(p) PROVE Spared'
  <2>1. phase = "idle" /\ phase' = "idle" /\ firm' = firm
    BY <1>2, AskingIdlyLeaves DEF loopVars, history
  <2> QED BY <2>1 DEF Spared
<1>3. ASSUME NEW p \in People, NEW k \in People, RatePerson(p, k) PROVE Spared'
  <2>1. UNCHANGED <<active, reputation, phase, todo, current>>
    BY <1>3, RatingLeaves DEF accountVars, loopVars
  <2> QED BY <1>3, <2>1, RatingRises, RisenSpares
<1>4. ASSUME UNCHANGED <<active, accepts, rejects>>
      PROVE  /\ required_reputation' = required_reputation
             /\ \A k : Met(k)' <=> Met(k)
  BY <1>4, BarStays, SameRatings DEF Met
<1>5. CASE StartRun
  <2>1. /\ phase = "idle" /\ phase' = "count" /\ UNCHANGED <<active, accepts, rejects>>
        /\ firm' = firm \cup {p \in active \ created : Sum(p) >= required_reputation}
    BY <1>5 DEF StartRun, Load, accountVars, rateVars
  <2>2. firm' \subseteq active /\ \A k \in firm' : Met(k) BY <2>1 DEF Spared, Met
  <2> QED BY <1>4, <2>1, <2>2 DEF Spared
<1>6. CASE StartAdmissions
  <2>1. /\ phase = "count" /\ phase' = "admit" /\ UNCHANGED <<active, accepts, rejects, firm>>
        /\ todo' = Eligible
    BY <1>6 DEF StartAdmissions, Load, accountVars, rateVars, history
  <2> QED BY <1>4, <2>1 DEF Spared, Eligible
<1>7. CASE StartRecount
  <2>1. /\ phase = "admit" /\ phase' = "recount" /\ UNCHANGED <<active, accepts, rejects, firm>>
        /\ todo' = exists
    BY <1>7 DEF StartRecount, Load, accountVars, rateVars, history
  <2> QED BY <1>0, <1>4, <2>1 DEF Spared
<1>8. CASE StartBlocks
  <2>1. /\ phase = "recount" /\ phase' = "block" /\ todo = {} /\ firm' = firm /\ todo' = Ineligible
    BY <1>8 DEF StartBlocks, Load, history
  <2>2. \A k \in firm : k \in People /\ reputation[k] >= required_reputation
    BY <1>0, <2>1 DEF Spared
  <2>3. \A k \in Ineligible : reputation[k] < required_reputation BY DEF Ineligible
  <2>4. Ineligible \cap firm = {} BY <1>0, <2>2, <2>3
  <2> QED BY <2>1, <2>4 DEF Spared
<1>9. CASE StartPurge \/ StartDeletions
  BY <1>9 DEF StartPurge, StartDeletions, Load, Spared
<1>10. CASE EndRun BY <1>10 DEF EndRun, Finish, Spared
<1>11. CASE BreakOff BY <1>11 DEF BreakOff, TypeOK
<1>12. CASE AfterGrants
  <2>1. /\ phase = "grant" /\ phase' = "admit" /\ UNCHANGED <<active, accepts, rejects, firm>>
        /\ todo' \subseteq todo /\ Granted
    BY <1>12 DEF AfterGrants, accountVars, rateVars, history
  <2>2. ASSUME NEW k \in firm PROVE Met(k)
    <3>1. PICK p \in active : current = {p} BY <2>1 DEF Heard
    <3>2. CASE k = p BY <2>1, <3>1, <3>2 DEF Spared
    <3>3. CASE k # p
      <4>1. k \in active /\ Bears(p, k) BY <2>1, <3>1, <3>3 DEF Spared
      <4>2. GroupIsSmall => <<p, k>> \in accepts BY <2>1, <3>1, <3>3, <4>1 DEF Granted
      <4> QED BY <4>1, <4>2 DEF Bears, Owed, Met
    <3> QED BY <3>2, <3>3
  <2> QED BY <1>4, <2>1, <2>2 DEF Spared
<1>13. CASE Neutralise
  BY <1>13 DEF Neutralise, history, Spared
<1>14. ASSUME NEW p \in People, CountReputation(p) PROVE Spared'
  <2>1. /\ UNCHANGED <<active, accepts, rejects, phase, current, firm>>
        /\ phase \in {"count", "recount"}
        /\ todo' = todo \ {p} /\ reputation' = [reputation EXCEPT ![p] = Sum(p)]
    BY <1>14 DEF CountReputation, SaveLoaded, accountVars, rateVars, history
  <2>2. ASSUME phase = "recount", NEW k \in firm
        PROVE  k \in todo' \/ reputation'[k] >= required_reputation
    <3>1. k \in todo \/ reputation[k] >= required_reputation BY <2>2 DEF Spared
    <3>2. CASE k = p
      <4>1. Sum(p) >= required_reputation BY <2>2, <3>2 DEF Spared, Met
      <4> QED BY <1>0, <2>1, <3>2, <4>1
    <3>3. CASE k # p BY <1>0, <2>1, <3>1, <3>3
    <3> QED BY <3>2, <3>3
  <2> QED BY <1>4, <2>1, <2>2 DEF Spared
<1>15. ASSUME NEW p \in People, Skip(p) \/ Admit(p) PROVE Spared'
  <2>1. CASE Skip(p)
    <3>1. /\ UNCHANGED <<active, accepts, rejects, reputation, phase, current, firm>>
          /\ phase = "admit" /\ todo' \subseteq todo
      BY <2>1 DEF Skip, accountVars, rateVars, history
    <3> QED BY <1>4, <3>1 DEF Spared
  <2> QED BY <1>15, <2>1, AdmissionSpares
<1>16. ASSUME NEW k \in People, Grant(k) PROVE Spared'
  <2>1. UNCHANGED <<active, reputation, phase, todo, current, firm>>
    BY <1>16 DEF Grant, accountVars, loopVars, history
  <2>2. PICK p \in current : /\ accepts' = accepts \cup {<<p, k>>}
                             /\ rejects' = rejects \ {<<p, k>>}
    BY <1>16 DEF Grant
  <2>3. p \in People BY DEF TypeOK
  <2>4. Risen BY <2>1, <2>2, <2>3, AcceptanceRises
  <2> QED BY <2>1, <2>4, RisenSpares
<1>17. ASSUME NEW p \in People, Block(p) PROVE Spared'
  <2>1. phase = "block" /\ phase' = "neutral" /\ firm' = firm /\ todo' = todo \ {p}
    BY <1>17 DEF Block, history
  <2> QED BY <2>1 DEF Spared
<1>18. ASSUME NEW p \in People, Delete(p) PROVE Spared'
  <2>1. phase \in {"purge", "delete"} /\ phase' = phase BY <1>18 DEF Delete
  <2> QED BY <2>1 DEF Spared
<1>19. CASE UNCHANGED vars
  BY <1>19, SameRisen, RisenSpares DEF vars, accountVars, rateVars, loopVars, history
<1> QED BY <1>1, <1>2, <1>3, <1>5, <1>6, <1>7, <1>8, <1>9, <1>10, <1>11, <1>12, <1>13, <1>14, <1>15,
           <1>16, <1>17, <1>18, <1>19, CalmSteps DEF Run

(* In the loop that blocks, a citizen goes by being blocked.               *)
LEMMA BlockedWhileBlocking ==
    ASSUME Overlapping = {}, Calm, [Next]_vars, phase = "block", NEW q \in active \ active'
    PROVE  q \in todo
<1>1. ASSUME NEW p \in People, Asks(p) \/ AsksWhenIdle(p) PROVE FALSE
  BY <1>1, AskingLeaves, AskingIdlyLeaves
<1>2. ASSUME NEW p \in People, NEW k \in People, RatePerson(p, k) PROVE FALSE
  BY <1>2, RatingLeaves DEF accountVars
<1>3. CASE Run
  <2>1. ASSUME NEW p \in People, Block(p) PROVE q \in todo
    <3>1. active' = active \ {p} /\ p \in todo BY <2>1 DEF Block
    <3> QED BY <3>1
  <2> QED BY <1>3, <2>1
          DEF Run, StartRun, StartAdmissions, AfterGrants, StartRecount, StartBlocks, Neutralise,
              StartPurge, StartDeletions, EndRun, CountReputation, Skip, Admit, Grant, Delete,
              accountVars
<1>4. CASE BreakOff \/ UNCHANGED vars BY <1>4 DEF BreakOff, vars, accountVars
<1> QED BY <1>1, <1>2, <1>3, <1>4, CalmSteps

(* When no request spans steps of the command and no run breaks off, the   *)
(* admissions of a run cost no citizen who met the bar the membership, nor *)
(* the first it admits.                                                    *)
THEOREM FirmAreAlwaysSpared ==
    (Overlapping = {}) /\ (MaxCrashes = 0) /\ Spec => FirmAreSpared
<1> SUFFICES ASSUME Overlapping = {}, MaxCrashes = 0 PROVE Spec => FirmAreSpared
  OBVIOUS
<1>1. TypeOK /\ Calm /\ [Next]_vars => Calm' BY CalmStep
<1>2. Init => Heard /\ Spared BY DEF Init, Heard, Spared
<1>3. TypeOK /\ Calm /\ Heard /\ [Next]_vars => Heard' BY HeardStep
<1>4. TypeOK /\ Calm /\ Heard /\ Spared /\ [Next]_vars => Spared' BY SparedStep
<1>5. ASSUME TypeOK, Calm, Spared, [Next]_vars
      PROVE  phase = "block" => \A p \in firm : p \in active => p \in active'
  BY <1>5, BlockedWhileBlocking DEF Spared
<1> QED BY <1>1, <1>2, <1>3, <1>4, <1>5, CalmInit, TypesHold, PTL DEF Spec, FirmAreSpared

=============================================================================
