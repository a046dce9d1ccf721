---------------------------- MODULE MotionProofs ----------------------------
(***************************************************************************)
(* Theorems about Motion, for any motions, people, parameters and bounds.  *)
(* Whatever requests overlap and whatever fails: every variable keeps its  *)
(* type, and the wording a vote is about does not change.  When no request *)
(* overlaps another step: the counter of signatures equals the number of   *)
(* their rows, the wording is fixed from the discussion on, the invariant  *)
(* of the motion holds, and stages are earned.  When no run fails, the     *)
(* latest decision about a parameter rules.                                *)
(***************************************************************************)
EXTENDS Motion, FiniteSetTheorems, SequenceTheorems, TLAPS

-----------------------------------------------------------------------------
(* The part of the types the theorems need                                 *)

Typed ==
    /\ exists \subseteq Motions
    /\ status \in [Motions -> Statuses]
    /\ text \in [Motions -> Int] /\ edits \in Int
    /\ abolishes \in [Motions -> SUBSET Motions]
    /\ signed \in [Motions -> SUBSET People]
    /\ count \in [Motions -> Int]
    /\ untilStart \in [Motions -> Nat]
    /\ \A r \in open : r.motion \in Motions /\ r.count \in Int

(* The names of the stages.                                                *)
LEMMA StageNames ==
    /\ NotYet \in Statuses /\ Deleted \in Statuses
    /\ "proposition" \in Statuses /\ "discussion" \in Statuses /\ "referendum" \in Statuses
    /\ "approved" \in Statuses /\ "rejected" \in Statuses
BY DEF Statuses, Running, Ended

(* What a motion may abolish is a set of motions.                          *)
LEMMA TargetsAreMotions ==
    ASSUME Typed, NEW m \in Motions
    PROVE  Targets(m) \subseteq SUBSET Motions
BY DEF Targets, Typed

(* Saving an edit and erasing a motion keep the types.                     *)
LEMMA SaveTyped ==
    ASSUME Typed, NEW r, r.motion \in Motions, r.count \in Int, Save(r)
    PROVE  /\ exists' \subseteq Motions
           /\ status' \in [Motions -> Statuses]
           /\ text' \in [Motions -> Int] /\ edits' \in Int
           /\ abolishes' \in [Motions -> SUBSET Motions]
           /\ signed' \in [Motions -> SUBSET People]
           /\ count' \in [Motions -> Int]
           /\ untilStart' \in [Motions -> Nat]
<1> DEFINE m == r.motion
<1>1. edits' \in Int /\ text' \in [Motions -> Int]
  <2>1. edits' = edits + 1 /\ text' = [text EXCEPT ![m] = edits'] BY DEF Save
  <2> QED BY <2>1 DEF Typed
<1>2. abolishes' \in [Motions -> SUBSET Motions]
  <2>1. PICK Z \in Targets(m) : abolishes' = [abolishes EXCEPT ![m] = Z] BY DEF Save
  <2> QED BY <2>1, TargetsAreMotions DEF Typed
<1>3. /\ exists' = exists \cup {m}
      /\ status' = [status EXCEPT ![m] = "proposition"]
      /\ count' = [count EXCEPT ![m] = r.count]
      /\ untilStart' = [untilStart EXCEPT ![m] = 0]
      /\ signed' = signed
  BY DEF Save
<1> QED BY <1>1, <1>2, <1>3, StageNames DEF Typed

LEMMA EraseTyped ==
    ASSUME Typed, NEW m \in Motions, Erase(m)
    PROVE  /\ exists' \subseteq Motions
           /\ status' \in [Motions -> Statuses]
           /\ text' \in [Motions -> Int] /\ edits' \in Int
           /\ abolishes' \in [Motions -> SUBSET Motions]
           /\ signed' \in [Motions -> SUBSET People]
           /\ count' \in [Motions -> Int]
           /\ untilStart' \in [Motions -> Nat]
<1>1. /\ exists' = exists \ {m}
      /\ status' = [status EXCEPT ![m] = Deleted]
      /\ text' = [text EXCEPT ![m] = 0]
      /\ abolishes' = [abolishes EXCEPT ![m] = {}]
      /\ signed' = [signed EXCEPT ![m] = {}]
      /\ count' = [count EXCEPT ![m] = 0]
      /\ untilStart' = untilStart /\ edits' = edits
  BY DEF Erase, dateVars, counters
<1> QED BY <1>1, StageNames DEF Typed

(* What one step of the command does to the motions.                       *)
LEMMA ProcessTyped ==
    ASSUME Typed, NEW m \in Motions, Process(m)
    PROVE  status' \in [Motions -> Statuses] /\ untilStart' \in [Motions -> Nat]
<1>1. CASE Discuss(m)
  BY <1>1, StageNames, ParametersAssumption DEF Discuss, Typed
<1>2. CASE GiveUp(m) BY <1>2, StageNames DEF GiveUp, Typed
<1>3. CASE OpenVoting(m) BY <1>3, StageNames DEF OpenVoting, Typed
<1>4. CASE Approve(m) BY <1>4, StageNames DEF Approve, Typed
<1>5. CASE Reject(m) BY <1>5, StageNames DEF Reject, Typed
<1>6. CASE Restart(m)
  <2>1. /\ untilStart' = [untilStart EXCEPT ![m] = 0] /\ status' = status
    BY <1>6 DEF Restart
  <2> QED BY <2>1 DEF Typed
<1>7. CASE Wait(m) \/ Fail(m) BY <1>7 DEF Wait, Fail, Typed
<1> QED BY <1>1, <1>2, <1>3, <1>4, <1>5, <1>6, <1>7 DEF Process

(* The steps that change no motion.                                        *)
Idle ==
    /\ UNCHANGED <<exists, status, text, edits, abolishes, signed, count, untilStart>>
    /\ open' \subseteq open

LEMMA IdleSteps ==
    ASSUME Typed, \/ StartRun \/ StartEffects \/ ApplyEffect \/ EndRun \/ BreakOff
                  \/ (\E p \in People : Leave(p)) \/ UNCHANGED vars
    PROVE  Idle
BY DEF StartRun, StartEffects, ApplyEffect, EndRun, BreakOff, Leave, Idle, vars, motionVars,
       signVars, dateVars, effectVars, counters

(* The steps of Next, by what they do to the motions.                      *)
LEMMA StepCases ==
    ASSUME Typed, [Next]_vars
    PROVE  \/ \E p \in People, m \in Motions :
                 \/ Propose(p, m) \/ Sign(p, m) \/ Withdraw(p, m) \/ Open(p, m)
                 \/ Edit(p, m) \/ Delete(p, m)
           \/ \E r \in open : Proceed(r)
           \/ \E m \in Motions : Process(m)
           \/ Tick
           \/ Idle
BY IdleSteps DEF Next, Web, Run

LEMMA TypedInit == Init => Typed
<1> SUFFICES ASSUME Init PROVE Typed
  OBVIOUS
<1>1. /\ exists = {} /\ edits = 0 /\ open = {}
      /\ status = [m \in Motions |-> NotYet]
      /\ text = [m \in Motions |-> 0]
      /\ abolishes = [m \in Motions |-> {}]
      /\ signed = [m \in Motions |-> {}]
      /\ count = [m \in Motions |-> 0]
      /\ untilStart = [m \in Motions |-> 0]
  BY DEF Init
<1> QED BY <1>1, StageNames DEF Typed

LEMMA TypedStep == Typed /\ [Next]_vars => Typed'
<1> SUFFICES ASSUME Typed, [Next]_vars PROVE Typed'
  OBVIOUS
<1>1. ASSUME NEW p \in People, NEW m \in Motions, Propose(p, m) PROVE Typed'
  <2>1. PICK Z \in Targets(m) : abolishes' = [abolishes EXCEPT ![m] = Z] BY <1>1 DEF Propose
  <2>2. abolishes' \in [Motions -> SUBSET Motions] BY <2>1, TargetsAreMotions DEF Typed
  <2>3. /\ exists' = exists \cup {m}
        /\ status' = [status EXCEPT ![m] = "proposition"]
        /\ UNCHANGED <<text, edits, signed, count, untilStart, open>>
    BY <1>1 DEF Propose, signVars, counters
  <2> QED BY <2>2, <2>3, StageNames DEF Typed
<1>2. ASSUME NEW p \in People, NEW m \in Motions, Sign(p, m) PROVE Typed'
  <2>1. /\ signed' = [signed EXCEPT ![m] = @ \cup {p}]
        /\ count' = [count EXCEPT ![m] = IF p \in signed[m] THEN @ ELSE @ + 1]
        /\ UNCHANGED <<exists, status, text, edits, abolishes, untilStart, open>>
    BY <1>2 DEF Sign, motionVars, dateVars, counters
  <2> QED BY <2>1 DEF Typed
<1>3. ASSUME NEW p \in People, NEW m \in Motions, Withdraw(p, m) PROVE Typed'
  <2>1. /\ signed' = [signed EXCEPT ![m] = @ \ {p}]
        /\ count' = [count EXCEPT ![m] = @ - 1]
        /\ UNCHANGED <<exists, status, text, edits, abolishes, untilStart, open>>
    BY <1>3 DEF Withdraw, motionVars, dateVars, counters
  <2> QED BY <2>1 DEF Typed
<1>4. ASSUME NEW p \in People, NEW m \in Motions, Open(p, m) PROVE Typed'
  <2>1. PICK kind \in Overlapping : open' = open \cup {Request(kind, p, m)}
    BY <1>4 DEF Open
  <2>2. Request(kind, p, m).motion \in Motions /\ Request(kind, p, m).count \in Int
    BY DEF Request, Typed
  <2>3. UNCHANGED <<exists, status, text, edits, abolishes, signed, count, untilStart>>
    BY <1>4 DEF Open, motionVars, signVars, dateVars
  <2> QED BY <2>1, <2>2, <2>3 DEF Typed
<1>5. ASSUME NEW p \in People, NEW m \in Motions, Edit(p, m) PROVE Typed'
  <2>1. /\ Request("edit", p, m).motion \in Motions
        /\ Request("edit", p, m).count \in Int BY DEF Request, Typed
  <2>2. Save(Request("edit", p, m)) /\ open' = open BY <1>5 DEF Edit
  <2> QED BY <2>1, <2>2, SaveTyped DEF Typed
<1>6. ASSUME NEW p \in People, NEW m \in Motions, Delete(p, m) PROVE Typed'
  <2>1. Erase(m) /\ open' = open BY <1>6 DEF Delete
  <2> QED BY <2>1, EraseTyped DEF Typed
<1>7. ASSUME NEW r \in open, Proceed(r) PROVE Typed'
  <2>1. r.motion \in Motions /\ r.count \in Int /\ open' \subseteq open
    BY <1>7 DEF Typed, Proceed
  <2>2. CASE Save(r) BY <2>1, <2>2, SaveTyped DEF Typed
  <2>3. CASE Erase(r.motion) BY <2>1, <2>3, EraseTyped DEF Typed
  <2>4. CASE UNCHANGED <<motionVars, status, signVars, dateVars, counters>>
    BY <2>1, <2>4 DEF Typed, motionVars, signVars, dateVars, counters
  <2> QED BY <1>7, <2>2, <2>3, <2>4 DEF Proceed
<1>8. ASSUME NEW m \in Motions, Process(m) PROVE Typed'
  <2>1. status' \in [Motions -> Statuses] /\ untilStart' \in [Motions -> Nat]
    BY <1>8, ProcessTyped
  <2> QED BY <1>8, <2>1 DEF Process, Typed, motionVars, signVars
<1>9. CASE Tick
  <2>1. /\ untilStart' = [m \in Motions |-> Lower(untilStart[m], 0)]
        /\ UNCHANGED <<exists, status, text, edits, abolishes, signed, count, open>>
    BY <1>9 DEF Tick, motionVars, signVars
  <2>2. \A m \in Motions : Lower(untilStart[m], 0) \in Nat
    BY DEF Typed, Lower
  <2> QED BY <2>1, <2>2 DEF Typed
<1>10. CASE Idle
  BY <1>10 DEF Idle, Typed
<1> QED BY <1>1, <1>2, <1>3, <1>4, <1>5, <1>6, <1>7, <1>8, <1>9, <1>10, StepCases
THEOREM MotionsAreTyped == Spec => []Typed
<1>1. Init => Typed BY TypedInit
<1>2. Typed /\ [Next]_vars => Typed' BY TypedStep
<1> QED BY <1>1, <1>2, PTL DEF Spec

-----------------------------------------------------------------------------
(* What is voted on does not change                                        *)

(* A request under way concerns no motion that is voted on, and none that  *)
(* may be put to the vote today: it began while the motion was a           *)
(* proposition, and requests end before the day does.                      *)
Early(m) ==
    /\ status[m] # "referendum" /\ status[m] # "approved"
    /\ status[m] = "discussion" => untilStart[m] > 0

RequestsAreEarly == \A r \in open : Early(r.motion)

(* A step that changes the stage of one motion only, and opens no request. *)
LEMMA OneStage ==
    ASSUME Typed, RequestsAreEarly, open' \subseteq open, NEW m,
           \A x \in Motions \ {m} :
               status'[x] = status[x] /\ untilStart'[x] = untilStart[x],
           m \in Motions /\ Early(m) => Early(m)'
    PROVE  RequestsAreEarly'
<1> SUFFICES ASSUME NEW r \in open' PROVE Early(r.motion)'
  BY DEF RequestsAreEarly
<1>1. r.motion \in Motions /\ Early(r.motion) BY DEF Typed, RequestsAreEarly
<1>2. CASE r.motion = m BY <1>1, <1>2
<1>3. CASE r.motion # m BY <1>1, <1>3 DEF Early
<1> QED BY <1>2, <1>3

LEMMA SaveIsEarly ==
    ASSUME Typed, RequestsAreEarly, open' \subseteq open, NEW r, r.motion \in Motions, Save(r)
    PROVE  RequestsAreEarly'
<1> DEFINE m == r.motion
<1>1. /\ status' = [status EXCEPT ![m] = "proposition"]
      /\ untilStart' = [untilStart EXCEPT ![m] = 0]
  BY DEF Save
<1>2. status'[m] = "proposition" BY <1>1 DEF Typed
<1>3. Early(m)' BY <1>2 DEF Early
<1>4. \A x \in Motions \ {m} : status'[x] = status[x] /\ untilStart'[x] = untilStart[x]
  BY <1>1 DEF Typed
<1> HIDE DEF m
<1> QED BY <1>3, <1>4, OneStage

LEMMA EraseIsEarly ==
    ASSUME Typed, RequestsAreEarly, open' \subseteq open, NEW m \in Motions, Erase(m)
    PROVE  RequestsAreEarly'
<1>1. status' = [status EXCEPT ![m] = Deleted] /\ untilStart' = untilStart
  BY DEF Erase, dateVars
<1>2. status'[m] = Deleted BY <1>1 DEF Typed
<1>3. Early(m)' BY <1>2 DEF Early, Deleted
<1>4. \A x \in Motions \ {m} : status'[x] = status[x] /\ untilStart'[x] = untilStart[x]
  BY <1>1 DEF Typed
<1> QED BY <1>3, <1>4, OneStage

LEMMA ProcessIsEarly ==
    ASSUME Typed, RequestsAreEarly, NEW m \in Motions, Process(m)
    PROVE  RequestsAreEarly'
<1>1. open' = open BY DEF Process
<1>2. CASE Discuss(m)
  <2>1. /\ status' = [status EXCEPT ![m] = "discussion"]
        /\ untilStart' = [untilStart EXCEPT ![m] = DiscussionDays]
    BY <1>2 DEF Discuss
  <2>2. status'[m] = "discussion" /\ untilStart'[m] = DiscussionDays BY <2>1 DEF Typed
  <2>3. Early(m)' BY <2>2, ParametersAssumption DEF Early
  <2>4. \A x \in Motions \ {m} : status'[x] = status[x] /\ untilStart'[x] = untilStart[x]
    BY <2>1 DEF Typed
  <2> QED BY <1>1, <2>3, <2>4, OneStage
<1>3. CASE GiveUp(m) \/ Reject(m)
  <2>1. status' = [status EXCEPT ![m] = "rejected"] /\ untilStart' = untilStart
    BY <1>3 DEF GiveUp, Reject
  <2>2. status'[m] = "rejected" BY <2>1 DEF Typed
  <2>3. Early(m)' BY <2>2 DEF Early
  <2>4. \A x \in Motions \ {m} : status'[x] = status[x] /\ untilStart'[x] = untilStart[x]
    BY <2>1 DEF Typed
  <2> QED BY <1>1, <2>3, <2>4, OneStage
<1>4. CASE OpenVoting(m)
  <2>1. status' = [status EXCEPT ![m] = "referendum"] /\ untilStart' = untilStart
    BY <1>4 DEF OpenVoting
  <2>2. ~Early(m) BY <1>4 DEF OpenVoting, MayVote, Early
  <2>3. \A x \in Motions \ {m} : status'[x] = status[x] /\ untilStart'[x] = untilStart[x]
    BY <2>1 DEF Typed
  <2> QED BY <1>1, <2>2, <2>3, OneStage
<1>5. CASE Approve(m)
  <2>1. /\ \A x \in Motions : status'[x] = IF x = m THEN "approved"
                                         ELSE IF x \in Abolished(m) THEN "rejected"
                                         ELSE status[x]
        /\ untilStart' = untilStart
    BY <1>5 DEF Approve
  <2>2. ~Early(m) BY <1>5 DEF Approve, Closing, Early
  <2> SUFFICES ASSUME NEW r \in open PROVE Early(r.motion)'
    BY <1>1 DEF RequestsAreEarly
  <2>3. r.motion \in Motions /\ Early(r.motion) BY DEF Typed, RequestsAreEarly
  <2>4. status'[r.motion] = "rejected" \/ status'[r.motion] = status[r.motion]
    BY <2>1, <2>2, <2>3
  <2> QED BY <2>1, <2>3, <2>4 DEF Early
<1>6. CASE Restart(m)
  <2>1. /\ status' = status
        /\ untilStart' = [untilStart EXCEPT ![m] = 0]
    BY <1>6 DEF Restart
  <2>2. ~Early(m) BY <1>6 DEF Restart, Closing, Early
  <2>3. \A x \in Motions \ {m} : status'[x] = status[x] /\ untilStart'[x] = untilStart[x]
    BY <2>1 DEF Typed
  <2> QED BY <1>1, <2>2, <2>3, OneStage
<1>7. CASE Wait(m) \/ Fail(m)
  <2>1. status' = status /\ untilStart' = untilStart BY <1>7 DEF Wait, Fail
  <2> QED BY <1>1, <2>1 DEF RequestsAreEarly, Early
<1> QED BY <1>2, <1>3, <1>4, <1>5, <1>6, <1>7 DEF Process

LEMMA EarlyStep == Typed /\ RequestsAreEarly /\ [Next]_vars => RequestsAreEarly'
<1> SUFFICES ASSUME Typed, RequestsAreEarly, [Next]_vars PROVE RequestsAreEarly'
  OBVIOUS
<1>1. ASSUME NEW p \in People, NEW m \in Motions, Propose(p, m) PROVE RequestsAreEarly'
  <2>1. /\ status' = [status EXCEPT ![m] = "proposition"] /\ untilStart' = untilStart
        /\ open' = open
    BY <1>1 DEF Propose
  <2>2. status'[m] = "proposition" BY <2>1 DEF Typed
  <2>3. Early(m)' BY <2>2 DEF Early
  <2>4. \A x \in Motions \ {m} : status'[x] = status[x] /\ untilStart'[x] = untilStart[x]
    BY <2>1 DEF Typed
  <2> QED BY <2>1, <2>3, <2>4, OneStage
<1>2. ASSUME NEW p \in People, NEW m \in Motions, Sign(p, m) \/ Withdraw(p, m)
      PROVE  RequestsAreEarly'
  <2>1. UNCHANGED <<status, untilStart, open>> BY <1>2 DEF Sign, Withdraw, dateVars
  <2> QED BY <2>1 DEF RequestsAreEarly, Early
<1>3. ASSUME NEW p \in People, NEW m \in Motions, Open(p, m) PROVE RequestsAreEarly'
  <2>1. PICK kind \in Overlapping : open' = open \cup {Request(kind, p, m)}
    BY <1>3 DEF Open
  <2>2. UNCHANGED <<status, untilStart>> /\ status[m] = "proposition"
    BY <1>3 DEF Open, MayChange, dateVars
  <2>3. Request(kind, p, m).motion = m BY DEF Request
  <2>4. Early(m) BY <2>2 DEF Early
  <2> QED BY <2>1, <2>2, <2>3, <2>4 DEF RequestsAreEarly, Early
<1>4. ASSUME NEW p \in People, NEW m \in Motions, Edit(p, m) PROVE RequestsAreEarly'
  <2>1. Save(Request("edit", p, m)) /\ open' = open BY <1>4 DEF Edit
  <2>2. Request("edit", p, m).motion \in Motions BY DEF Request
  <2> QED BY <2>1, <2>2, SaveIsEarly
<1>5. ASSUME NEW p \in People, NEW m \in Motions, Delete(p, m) PROVE RequestsAreEarly'
  <2>1. Erase(m) /\ open' = open BY <1>5 DEF Delete
  <2> QED BY <2>1, EraseIsEarly
<1>6. ASSUME NEW r \in open, Proceed(r) PROVE RequestsAreEarly'
  <2>1. r.motion \in Motions /\ open' \subseteq open BY <1>6 DEF Typed, Proceed
  <2>2. CASE Save(r) BY <2>1, <2>2, SaveIsEarly
  <2>3. CASE Erase(r.motion) BY <2>1, <2>3, EraseIsEarly
  <2>4. CASE UNCHANGED <<status, dateVars>>
    BY <2>1, <2>4 DEF RequestsAreEarly, Early, dateVars
  <2> QED BY <1>6, <2>2, <2>3, <2>4 DEF Proceed
<1>7. ASSUME NEW m \in Motions, Process(m) PROVE RequestsAreEarly'
  BY <1>7, ProcessIsEarly
<1>8. CASE Tick BY <1>8 DEF Tick, RequestsAreEarly
<1>9. CASE Idle BY <1>9 DEF Idle, RequestsAreEarly, Early
<1> QED BY <1>1, <1>2, <1>3, <1>4, <1>5, <1>6, <1>7, <1>8, <1>9, StepCases

(* Saves and deletions touch one motion only.                              *)
LEMMA SaveKeepsOthers ==
    ASSUME Typed, NEW r, Save(r), NEW m \in exists, m # r.motion
    PROVE  m \in exists' /\ text'[m] = text[m] /\ abolishes'[m] = abolishes[m]
<1>1. PICK Z \in Targets(r.motion) : abolishes' = [abolishes EXCEPT ![r.motion] = Z] BY DEF Save
<1>2. /\ exists' = exists \cup {r.motion}
      /\ text' = [text EXCEPT ![r.motion] = edits'] BY DEF Save
<1> QED BY <1>1, <1>2 DEF Typed

LEMMA EraseKeepsOthers ==
    ASSUME Typed, NEW x, Erase(x), NEW m \in exists, m # x
    PROVE  m \in exists' /\ text'[m] = text[m] /\ abolishes'[m] = abolishes[m]
<1>1. /\ exists' = exists \ {x}
      /\ text' = [text EXCEPT ![x] = 0]
      /\ abolishes' = [abolishes EXCEPT ![x] = {}] BY DEF Erase
<1> QED BY <1>1 DEF Typed
(* The wording of m stays, and m with it, in a step that is not a save or  *)
(* a deletion of m.                                                        *)
LEMMA TextStays ==
    ASSUME Typed, [Next]_vars, NEW m \in exists, m \in Motions,
           status[m] # NotYet, status[m] # "proposition",
           \A r \in open : r.motion # m
    PROVE  m \in exists' /\ text'[m] = text[m] /\ abolishes'[m] = abolishes[m]
<1> DEFINE Stays == m \in exists' /\ text'[m] = text[m] /\ abolishes'[m] = abolishes[m]
<1>1. ASSUME NEW p \in People, NEW x \in Motions, Propose(p, x) PROVE Stays
  <2>1. PICK Z \in Targets(x) : abolishes' = [abolishes EXCEPT ![x] = Z] BY <1>1 DEF Propose
  <2>2. exists' = exists \cup {x} /\ text' = text /\ x # m BY <1>1 DEF Propose
  <2> QED BY <2>1, <2>2 DEF Typed
<1>2. ASSUME NEW p \in People, NEW x \in Motions, Sign(p, x) \/ Withdraw(p, x) \/ Open(p, x)
      PROVE  Stays
  BY <1>2 DEF Sign, Withdraw, Open, motionVars
<1>3. ASSUME NEW p \in People, NEW x \in Motions, Edit(p, x) PROVE Stays
  <2>1. Save(Request("edit", p, x)) /\ x # m BY <1>3 DEF Edit, MayChange
  <2>2. Request("edit", p, x).motion = x BY DEF Request
  <2> QED BY <2>1, <2>2, SaveKeepsOthers
<1>4. ASSUME NEW p \in People, NEW x \in Motions, Delete(p, x) PROVE Stays
  <2>1. Erase(x) /\ x # m BY <1>4 DEF Delete, MayChange
  <2> QED BY <2>1, EraseKeepsOthers
<1>5. ASSUME NEW r \in open, Proceed(r) PROVE Stays
  <2>1. CASE Save(r) BY <2>1, SaveKeepsOthers
  <2>2. CASE Erase(r.motion) BY <2>2, EraseKeepsOthers
  <2>3. CASE UNCHANGED motionVars BY <2>3 DEF motionVars
  <2> QED BY <1>5, <2>1, <2>2, <2>3 DEF Proceed
<1>6. ASSUME NEW x \in Motions, Process(x) PROVE Stays
  BY <1>6 DEF Process, motionVars
<1>7. CASE Tick BY <1>7 DEF Tick, motionVars
<1>8. CASE Idle BY <1>8 DEF Idle
<1> QED BY <1>1, <1>2, <1>3, <1>4, <1>5, <1>6, <1>7, <1>8, StepCases

(* Whatever requests overlap one another and the command, neither the      *)
(* wording nor what it abolishes changes once the voting is open.          *)
THEOREM VotersAlwaysKnowTheText == Spec => VotersKnowTheText
<1>1. Init => RequestsAreEarly BY DEF Init, RequestsAreEarly
<1>2. ASSUME Typed, RequestsAreEarly, [Next]_vars
      PROVE  \A m \in exists :
                 status[m] \in {"referendum", "approved"} =>
                     m \in exists' /\ text'[m] = text[m] /\ abolishes'[m] = abolishes[m]
  <2> SUFFICES ASSUME NEW m \in exists, status[m] \in {"referendum", "approved"}
               PROVE  m \in exists' /\ text'[m] = text[m] /\ abolishes'[m] = abolishes[m]
    OBVIOUS
  <2>1. m \in Motions BY <1>2 DEF Typed
  <2>2. \A r \in open : r.motion # m BY <1>2 DEF RequestsAreEarly, Early
  <2>3. status[m] # NotYet /\ status[m] # "proposition" BY DEF NotYet
  <2> QED BY <1>2, <2>1, <2>2, <2>3, TextStays
<1> QED BY <1>1, <1>2, EarlyStep, MotionsAreTyped, PTL DEF Spec, VotersKnowTheText

-----------------------------------------------------------------------------
(* When no request overlaps another step                                   *)

(* The invariant: no request is under way, and the counter of a motion     *)
(* counts its signatures.  It speaks of all motions, proposed or not.      *)
Orderly ==
    /\ open = {}
    /\ \A m \in Motions : count[m] = Cardinality(signed[m])

LEMMA OrderlyInit == Init => Orderly
BY FS_EmptySet DEF Init, Orderly

LEMMA OrderlyStep ==
    ASSUME Overlapping = {}, Typed, Orderly, [Next]_vars
    PROVE  Orderly'
<1>1. ASSUME NEW p \in People, NEW m \in Motions, Propose(p, m) PROVE Orderly'
  BY <1>1 DEF Propose, signVars, Orderly
<1>2. ASSUME NEW p \in People, NEW m \in Motions, Sign(p, m) PROVE Orderly'
  <2>1. /\ signed' = [signed EXCEPT ![m] = @ \cup {p}]
        /\ count' = [count EXCEPT ![m] = IF p \in signed[m] THEN @ ELSE @ + 1]
        /\ open' = open
    BY <1>2 DEF Sign
  <2>2. IsFiniteSet(signed[m]) /\ count[m] = Cardinality(signed[m])
    BY SetsAssumption, FS_Subset DEF Typed, Orderly
  <2>3. Cardinality(signed[m] \cup {p}) =
            IF p \in signed[m] THEN Cardinality(signed[m]) ELSE Cardinality(signed[m]) + 1
    BY <2>2, FS_AddElement
  <2>4. count'[m] = Cardinality(signed'[m]) BY <2>1, <2>2, <2>3 DEF Typed
  <2>5. \A x \in Motions \ {m} : count'[x] = count[x] /\ signed'[x] = signed[x]
    BY <2>1 DEF Typed
  <2> QED BY <2>1, <2>4, <2>5 DEF Orderly
<1>3. ASSUME NEW p \in People, NEW m \in Motions, Withdraw(p, m) PROVE Orderly'
  <2>1. /\ signed' = [signed EXCEPT ![m] = @ \ {p}]
        /\ count' = [count EXCEPT ![m] = @ - 1]
        /\ p \in signed[m] /\ open' = open
    BY <1>3 DEF Withdraw
  <2>2. IsFiniteSet(signed[m]) /\ count[m] = Cardinality(signed[m])
    BY SetsAssumption, FS_Subset DEF Typed, Orderly
  <2>3. Cardinality(signed[m] \ {p}) = Cardinality(signed[m]) - 1
    BY <2>1, <2>2, FS_RemoveElement
  <2>4. count'[m] = Cardinality(signed'[m]) BY <2>1, <2>2, <2>3 DEF Typed
  <2>5. \A x \in Motions \ {m} : count'[x] = count[x] /\ signed'[x] = signed[x]
    BY <2>1 DEF Typed
  <2> QED BY <2>1, <2>4, <2>5 DEF Orderly
<1>4. ASSUME NEW p \in People, NEW m \in Motions, Open(p, m) PROVE FALSE
  BY <1>4 DEF Open
<1>5. ASSUME NEW p \in People, NEW m \in Motions, Edit(p, m) PROVE Orderly'
  <2>1. Save(Request("edit", p, m)) /\ open' = open BY <1>5 DEF Edit
  <2>2. Request("edit", p, m).motion = m /\ Request("edit", p, m).count = count[m]
    BY DEF Request
  <2>3. signed' = signed /\ count' = [count EXCEPT ![m] = count[m]]
    BY <2>1, <2>2 DEF Save
  <2>4. \A x \in Motions : count'[x] = count[x] BY <2>3 DEF Typed
  <2> QED BY <2>1, <2>3, <2>4 DEF Orderly
<1>6. ASSUME NEW p \in People, NEW m \in Motions, Delete(p, m) PROVE Orderly'
  <2>1. /\ signed' = [signed EXCEPT ![m] = {}]
        /\ count' = [count EXCEPT ![m] = 0]
        /\ open' = open
    BY <1>6 DEF Delete, Erase
  <2>2. count'[m] = Cardinality(signed'[m]) BY <2>1, FS_EmptySet DEF Typed
  <2>3. \A x \in Motions \ {m} : count'[x] = count[x] /\ signed'[x] = signed[x]
    BY <2>1 DEF Typed
  <2> QED BY <2>1, <2>2, <2>3 DEF Orderly
<1>7. ASSUME NEW r \in open, Proceed(r) PROVE FALSE
  BY DEF Orderly
<1>8. ASSUME NEW m \in Motions, Process(m) PROVE Orderly'
  BY <1>8 DEF Process, signVars, Orderly
<1>9. CASE Tick BY <1>9 DEF Tick, signVars, Orderly
<1>10. CASE Idle BY <1>10 DEF Idle, Orderly
<1> QED BY <1>1, <1>2, <1>3, <1>4, <1>5, <1>6, <1>7, <1>8, <1>9, <1>10, StepCases

(* With one request at a time the number that decides about the discussion *)
(* is the number of signatures.                                            *)
THEOREM CountIsRight == (Overlapping = {}) /\ Spec => []SignaturesAreCounted
<1> SUFFICES ASSUME Overlapping = {} PROVE Spec => []SignaturesAreCounted
  OBVIOUS
<1>1. Typed /\ Orderly /\ [Next]_vars => Orderly' BY OrderlyStep
<1>2. Typed /\ Orderly => SignaturesAreCounted BY DEF Typed, Orderly, SignaturesAreCounted
<1> QED BY <1>1, <1>2, OrderlyInit, MotionsAreTyped, PTL DEF Spec

(* A motion that exists has been proposed.                                 *)
Proposed == \A m \in exists : status[m] # NotYet
LEMMA ProposedStep == Typed /\ Proposed /\ [Next]_vars => Proposed'
<1> SUFFICES ASSUME Typed, Proposed, [Next]_vars PROVE Proposed'
  OBVIOUS
<1>1. ASSUME NEW m \in Motions, exists' = exists \cup {m},
             status' = [status EXCEPT ![m] = "proposition"]
      PROVE  Proposed'
  BY <1>1 DEF Proposed, Typed, NotYet
<1>2. ASSUME NEW m \in Motions, Erase(m) PROVE Proposed'
  <2>1. exists' = exists \ {m} /\ status' = [status EXCEPT ![m] = Deleted]
    BY <1>2 DEF Erase
  <2> QED BY <2>1 DEF Proposed, Typed
<1>3. ASSUME UNCHANGED <<exists, status>> PROVE Proposed'
  BY <1>3 DEF Proposed
<1>4. ASSUME NEW p \in People, NEW m \in Motions, Propose(p, m) PROVE Proposed'
  BY <1>1, <1>4 DEF Propose
<1>5. ASSUME NEW p \in People, NEW m \in Motions, Sign(p, m) \/ Withdraw(p, m) \/ Open(p, m)
      PROVE  Proposed'
  BY <1>3, <1>5 DEF Sign, Withdraw, Open, motionVars
<1>6. ASSUME NEW p \in People, NEW m \in Motions, Edit(p, m) PROVE Proposed'
  <2>1. exists' = exists /\ status' = [status EXCEPT ![m] = "proposition"]
    BY <1>6 DEF Edit, Save, Request
  <2> QED BY <2>1 DEF Proposed, Typed, NotYet
<1>7. ASSUME NEW p \in People, NEW m \in Motions, Delete(p, m) PROVE Proposed'
  BY <1>2, <1>7 DEF Delete
<1>8. ASSUME NEW r \in open, Proceed(r) PROVE Proposed'
  <2>1. r.motion \in Motions BY DEF Typed
  <2>2. CASE Save(r) BY <1>1, <2>1, <2>2 DEF Save
  <2>3. CASE Erase(r.motion) BY <1>2, <2>1, <2>3
  <2>4. CASE UNCHANGED <<motionVars, status>> BY <1>3, <2>4 DEF motionVars
  <2> QED BY <1>8, <2>2, <2>3, <2>4 DEF Proceed
<1>9. ASSUME NEW m \in Motions, Process(m) PROVE Proposed'
  <2>1. exists' = exists BY <1>9 DEF Process, motionVars
  <2>2. ASSUME NEW x \in exists PROVE status'[x] # NotYet
    <3>1. x \in Motions /\ status[x] # NotYet BY DEF Typed, Proposed
    <3>2. \/ status'[x] = status[x]
          \/ status'[x] \in {"discussion", "referendum", "approved", "rejected"}
      <4>1. CASE Discuss(m) BY <3>1, <4>1 DEF Discuss, Typed
      <4>2. CASE GiveUp(m) \/ Reject(m) BY <3>1, <4>2 DEF GiveUp, Reject, Typed
      <4>3. CASE OpenVoting(m) BY <3>1, <4>3 DEF OpenVoting, Typed
      <4>4. CASE Approve(m) BY <3>1, <4>4 DEF Approve
      <4>5. CASE Restart(m) \/ Wait(m) \/ Fail(m) BY <4>5 DEF Restart, Wait, Fail
      <4> QED BY <1>9, <4>1, <4>2, <4>3, <4>4, <4>5 DEF Process
    <3> QED BY <3>1, <3>2 DEF NotYet
  <2> QED BY <2>1, <2>2 DEF Proposed
<1>10. CASE Tick BY <1>3, <1>10 DEF Tick, motionVars
<1>11. CASE Idle BY <1>3, <1>11 DEF Idle
<1> QED BY <1>4, <1>5, <1>6, <1>7, <1>8, <1>9, <1>10, <1>11, StepCases

(* With one request at a time the wording is fixed from the discussion on. *)
THEOREM TextStaysFixed == (Overlapping = {}) /\ Spec => TextIsFixed
<1> SUFFICES ASSUME Overlapping = {} PROVE Spec => TextIsFixed
  OBVIOUS
<1>1. Typed /\ Orderly /\ [Next]_vars => Orderly' BY OrderlyStep
<1>2. Init => Proposed BY DEF Init, Proposed
<1>3. ASSUME Typed, Orderly, Proposed, [Next]_vars
      PROVE  \A m \in exists :
                 status[m] # "proposition" => text'[m] = text[m] /\ abolishes'[m] = abolishes[m]
  <2> SUFFICES ASSUME NEW m \in exists, status[m] # "proposition"
               PROVE  text'[m] = text[m] /\ abolishes'[m] = abolishes[m]
    OBVIOUS
  <2>1. m \in Motions /\ status[m] # NotYet BY <1>3 DEF Typed, Proposed
  <2>2. \A r \in open : r.motion # m BY <1>3 DEF Orderly
  <2> QED BY <1>3, <2>1, <2>2, TextStays
<1> QED BY <1>1, <1>2, <1>3, OrderlyInit, ProposedStep, MotionsAreTyped, PTL
        DEF Spec, TextIsFixed

-----------------------------------------------------------------------------
(* Types                                                                   *)

(* A sequence without one of its elements.                                 *)
LEMMA WithoutTyped ==
    ASSUME NEW s \in Seq(Motions), NEW m
    PROVE  Without(s, m) \in Seq(Motions)
<1> DEFINE i == CHOOSE i \in DOMAIN s : s[i] = m
           n == IF s = <<>> THEN 0 ELSE Len(s) - 1
<1>1. n \in Nat /\ 1..(Len(s) - 1) = 1..n
  <2>1. Len(s) \in Nat /\ (s # <<>> => Len(s) # 0) /\ (s = <<>> => Len(s) = 0)
    BY LenProperties, EmptySeq
  <2> QED BY <2>1
<1>2. ASSUME NEW j \in 1..n PROVE s[IF j < i THEN j ELSE j + 1] \in Motions
  <2>1. s # <<>> /\ Len(s) \in Nat BY <1>2
  <2>2. j \in 1..Len(s) /\ j + 1 \in 1..Len(s) BY <2>1, <1>2
  <2>3. s[j] \in Motions /\ s[j + 1] \in Motions BY <2>2, ElementOfSeq
  <2> QED BY <2>3
<1>3. Without(s, m) = [j \in 1..n |-> s[IF j < i THEN j ELSE j + 1]]
  BY <1>1 DEF Without
<1> HIDE DEF i, n
<1>4. Without(s, m) \in [1..n -> Motions] BY <1>2, <1>3
<1> QED BY <1>1, <1>4, SeqDef

(* TypeOK in parts, by the variables that change together.                 *)
MotionType ==
    /\ members \subseteq People /\ exists \subseteq Motions
    /\ author \in [Motions -> People \cup {NoOne}]
    /\ status \in [Motions -> Statuses]
    /\ text \in [Motions -> 0..MaxEdits]
    /\ abolishes \in [Motions -> SUBSET Motions]
    /\ archive \in [Motions -> SUBSET (0..MaxEdits)]
    /\ wordings \in [Motions -> SUBSET (0..MaxEdits)]
    /\ edits \in 0..MaxEdits /\ opens \in 0..MaxOpens

SignType ==
    /\ signed \in [Motions -> SUBSET People]
    /\ count \in [Motions -> Int] /\ gathered \in [Motions -> BOOLEAN]

DateType ==
    /\ age \in [Motions -> 0..SignatureDays]
    /\ sinceEdit \in [Motions -> 0..Freeze] /\ settled \in [Motions -> 0..Freeze]
    /\ untilStart \in [Motions -> 0..DiscussionDays]
    /\ untilStop \in [Motions -> -1..(DiscussionDays + ReferendumDays)]
    /\ openDays \in [Motions -> 0..ReferendumDays]

RunType ==
    /\ required \in Nat /\ latest \in Nat
    /\ pending \in Seq(Motions) /\ effects \in Seq(Motions)
    /\ phase \in {"idle", "process", "effects"} /\ todo \subseteq Motions
    /\ ranToday \in BOOLEAN
    /\ missed \in 0..MaxMissed /\ failures \in 0..MaxFailures

Requests == [kind : {"edit", "delete"}, person : People, motion : Motions,
             text : 0..MaxEdits, count : Int, gathered : BOOLEAN]

LEMMA TypeParts ==
    TypeOK <=> MotionType /\ SignType /\ DateType /\ RunType /\ open \subseteq Requests
BY DEF TypeOK, MotionType, SignType, DateType, RunType, Requests

LEMMA TypePartsNext ==
    TypeOK' <=> MotionType' /\ SignType' /\ DateType' /\ RunType' /\ (open \subseteq Requests)'
BY DEF TypeOK, MotionType, SignType, DateType, RunType, Requests

(* The values the assignments write.                                       *)
LEMMA Values ==
    /\ Freeze \in Nat /\ Freeze = 2 /\ Stamps \subseteq 0..Freeze
    /\ 0 \in 0..MaxEdits /\ 0 \in 0..DiscussionDays /\ 0 \in 0..ReferendumDays
    /\ DiscussionDays \in 0..DiscussionDays
    /\ DiscussionDays + ReferendumDays \in -1..(DiscussionDays + ReferendumDays)
    /\ ReferendumDays \in -1..(DiscussionDays + ReferendumDays)
    /\ 0 \in -1..(DiscussionDays + ReferendumDays)
BY ParametersAssumption DEF Freeze, Stamps

LEMMA RequestTyped ==
    ASSUME MotionType, SignType, NEW p \in People, NEW m \in Motions,
           NEW kind \in {"edit", "delete"}
    PROVE  Request(kind, p, m) \in Requests
BY DEF Request, Requests, MotionType, SignType

LEMMA SaveKeepsType ==
    ASSUME TypeOK, NEW r \in Requests, Save(r)
    PROVE  MotionType' /\ SignType' /\ DateType' /\ RunType'
<1> DEFINE m == r.motion
<1>1. MotionType /\ SignType /\ DateType /\ RunType BY TypeParts
<1>2. /\ r.motion \in Motions /\ r.person \in People /\ r.text \in 0..MaxEdits
      /\ r.count \in Int /\ r.gathered \in BOOLEAN
  BY DEF Requests
<1>3. MotionType'
  <2>1. PICK Z \in Targets(m) : abolishes' = [abolishes EXCEPT ![m] = Z] BY DEF Save
  <2>2. Z \subseteq Motions BY <1>1 DEF Targets, MotionType
  <2>3. edits' = edits + 1 /\ edits < MaxEdits BY DEF Save
  <2>4. edits' \in 0..MaxEdits BY <1>1, <2>3, ParametersAssumption DEF MotionType
  <2>5. /\ exists' = exists \cup {m} /\ author' = [author EXCEPT ![m] = r.person]
        /\ status' = [status EXCEPT ![m] = "proposition"]
        /\ archive' = [archive EXCEPT ![m] = @ \cup {r.text}]
        /\ text' = [text EXCEPT ![m] = edits']
        /\ wordings' = [wordings EXCEPT ![m] = @ \cup {edits'}]
        /\ UNCHANGED <<members, opens>>
    BY DEF Save, Snapshot
  <2>6. abolishes' \in [Motions -> SUBSET Motions] BY <1>1, <2>1, <2>2 DEF MotionType
  <2>7. /\ archive' \in [Motions -> SUBSET (0..MaxEdits)]
        /\ wordings' \in [Motions -> SUBSET (0..MaxEdits)]
        /\ text' \in [Motions -> 0..MaxEdits]
    BY <1>1, <1>2, <2>4, <2>5 DEF MotionType
  <2>8. status' \in [Motions -> Statuses] /\ author' \in [Motions -> People \cup {NoOne}]
    BY <1>1, <1>2, <2>5, StageNames DEF MotionType
  <2> QED BY <1>1, <1>2, <2>4, <2>5, <2>6, <2>7, <2>8 DEF MotionType
<1>4. SignType'
  <2>1. /\ count' = [count EXCEPT ![m] = r.count]
        /\ gathered' = [gathered EXCEPT ![m] = r.gathered] /\ signed' = signed
    BY DEF Save
  <2> QED BY <1>1, <1>2, <2>1 DEF SignType
<1>5. DateType'
  <2>1. PICK d \in Stamps : sinceEdit' = [sinceEdit EXCEPT ![m] = d] BY DEF Save
  <2>2. /\ settled' = [settled EXCEPT ![m] = 0]
        /\ untilStart' = [untilStart EXCEPT ![m] = 0]
        /\ untilStop' = [untilStop EXCEPT ![m] = 0]
        /\ UNCHANGED <<age, openDays>>
    BY DEF Save
  <2>3. 0 \in 0..Freeze /\ d \in 0..Freeze BY <2>1, Values
  <2> QED BY <1>1, <1>2, <2>1, <2>2, <2>3, Values DEF DateType
<1>6. RunType' BY <1>1 DEF Save, RunType, effectVars, runVars
<1> QED BY <1>3, <1>4, <1>5, <1>6

LEMMA EraseKeepsType ==
    ASSUME TypeOK, NEW m \in Motions, Erase(m)
    PROVE  MotionType' /\ SignType' /\ DateType' /\ RunType'
<1>1. MotionType /\ SignType /\ DateType /\ RunType BY TypeParts
<1>2. MotionType'
  <2>1. /\ exists' = exists \ {m} /\ author' = [author EXCEPT ![m] = NoOne]
        /\ status' = [status EXCEPT ![m] = Deleted]
        /\ text' = [text EXCEPT ![m] = 0] /\ abolishes' = [abolishes EXCEPT ![m] = {}]
        /\ archive' = [archive EXCEPT ![m] = {}] /\ wordings' = [wordings EXCEPT ![m] = {}]
        /\ UNCHANGED <<members, edits, opens>>
    BY DEF Erase, counters
  <2>2. status' \in [Motions -> Statuses] BY <1>1, <2>1, StageNames DEF MotionType
  <2> QED BY <1>1, <2>1, <2>2, Values DEF MotionType
<1>3. SignType'
  <2>1. /\ signed' = [signed EXCEPT ![m] = {}] /\ count' = [count EXCEPT ![m] = 0]
        /\ gathered' = [gathered EXCEPT ![m] = FALSE]
    BY DEF Erase
  <2> QED BY <1>1, <2>1 DEF SignType
<1>4. DateType' /\ RunType'
  BY <1>1 DEF Erase, DateType, RunType, dateVars, effectVars, runVars, counters
<1> QED BY <1>2, <1>3, <1>4

LEMMA ProcessKeepsType ==
    ASSUME TypeOK, NEW m \in Motions, Process(m)
    PROVE  TypeOK'
<1>1. MotionType /\ SignType /\ DateType /\ RunType /\ open \subseteq Requests BY TypeParts
<1>2. /\ todo' = todo \ {m}
      /\ UNCHANGED <<members, motionVars, signVars, age, sinceEdit, settled, required,
                     phase, effects, ranToday, open, wordings, edits, opens, missed>>
  BY DEF Process
<1>3. SignType' /\ (open \subseteq Requests)' BY <1>1, <1>2 DEF SignType, signVars
<1>4. SUFFICES /\ status' \in [Motions -> Statuses]
               /\ untilStart' \in [Motions -> 0..DiscussionDays]
               /\ untilStop' \in [Motions -> -1..(DiscussionDays + ReferendumDays)]
               /\ openDays' \in [Motions -> 0..ReferendumDays]
               /\ pending' \in Seq(Motions) /\ latest' \in Nat
               /\ failures' \in 0..MaxFailures
  <2>1. MotionType' BY <1>1, <1>2, <1>4 DEF MotionType, motionVars
  <2>2. DateType' BY <1>1, <1>2, <1>4 DEF DateType
  <2>3. RunType' BY <1>1, <1>2, <1>4 DEF RunType
  <2> QED BY <1>3, <2>1, <2>2, <2>3, TypePartsNext
<1>5. CASE Discuss(m) BY <1>1, <1>5, Values, StageNames DEF Discuss, MotionType, DateType, RunType
<1>6. CASE GiveUp(m) BY <1>1, <1>6, StageNames DEF GiveUp, MotionType, DateType, RunType
<1>7. CASE OpenVoting(m)
  BY <1>1, <1>7, Values, StageNames DEF OpenVoting, MotionType, DateType, RunType
<1>8. CASE Approve(m)
  <2>1. status' \in [Motions -> Statuses] BY <1>1, <1>8, StageNames DEF Approve, MotionType
  <2>2. pending' \in Seq(Motions) /\ latest' \in Nat
    <3>1. CASE Proposes[m] = 0 BY <1>1, <1>8, <3>1 DEF Approve, RunType
    <3>2. CASE Proposes[m] # 0
      <4>1. pending' = Append(pending, m) /\ latest' = Proposes[m] BY <1>8, <3>2 DEF Approve
      <4> QED BY <1>1, <4>1, AppendProperties, SetsAssumption DEF RunType
    <3> QED BY <3>1, <3>2
  <2>3. UNCHANGED <<untilStart, untilStop, openDays, failures>> BY <1>8 DEF Approve
  <2> QED BY <1>1, <2>1, <2>2, <2>3 DEF DateType, RunType
<1>9. CASE Reject(m) BY <1>1, <1>9, StageNames DEF Reject, MotionType, DateType, RunType
<1>10. CASE Restart(m)
  <2>1. failures' \in 0..MaxFailures
    BY <1>1, <1>10, ParametersAssumption DEF Restart, RunType
  <2> QED BY <1>1, <1>10, <2>1, Values DEF Restart, MotionType, DateType, RunType
<1>11. CASE Wait(m) BY <1>1, <1>11 DEF Wait, MotionType, DateType, RunType
<1>12. CASE Fail(m)
  <2>1. failures' \in 0..MaxFailures BY <1>1, <1>12, ParametersAssumption DEF Fail, RunType
  <2> QED BY <1>1, <1>12, <2>1 DEF Fail, MotionType, DateType, RunType
<1> QED BY <1>5, <1>6, <1>7, <1>8, <1>9, <1>10, <1>11, <1>12 DEF Process

LEMMA TickKeepsType == ASSUME TypeOK, Tick PROVE TypeOK'
<1>1. MotionType /\ SignType /\ DateType /\ RunType /\ open \subseteq Requests BY TypeParts
<1>2. MotionType' /\ SignType' /\ (open \subseteq Requests)'
  BY <1>1 DEF Tick, MotionType, SignType, motionVars, signVars
<1>3. RunType'
  <2>1. missed' \in 0..MaxMissed BY <1>1, ParametersAssumption DEF Tick, RunType
  <2> QED BY <1>1, <2>1 DEF Tick, RunType, effectVars
<1>4. DateType'
  <2>1. /\ \A n \in 0..SignatureDays : Raise(n, SignatureDays) \in 0..SignatureDays
        /\ \A n \in 0..Freeze : Raise(n, Freeze) \in 0..Freeze
        /\ \A n \in 0..ReferendumDays : Raise(n, ReferendumDays) \in 0..ReferendumDays
        /\ \A n \in 0..DiscussionDays : Lower(n, 0) \in 0..DiscussionDays
        /\ \A n \in -1..(DiscussionDays + ReferendumDays) :
              Lower(n, -1) \in -1..(DiscussionDays + ReferendumDays)
    BY Values, ParametersAssumption DEF Raise, Lower
  <2>2. /\ age' = [m \in Motions |-> IF m \in exists THEN Raise(age[m], SignatureDays) ELSE age[m]]
        /\ sinceEdit' = [m \in Motions |-> IF m \in exists THEN Raise(sinceEdit[m], Freeze)
                                                           ELSE sinceEdit[m]]
        /\ settled' = [m \in Motions |-> IF m \in exists THEN Raise(settled[m], Freeze)
                                                         ELSE settled[m]]
        /\ untilStart' = [m \in Motions |-> Lower(untilStart[m], 0)]
        /\ untilStop' = [m \in Motions |-> IF status[m] \in {"discussion", "referendum"}
                                              THEN Lower(untilStop[m], -1) ELSE untilStop[m]]
        /\ openDays' = [m \in Motions |-> IF status[m] = "referendum"
                                             THEN Raise(openDays[m], ReferendumDays)
                                             ELSE openDays[m]]
    BY DEF Tick
  <2> QED BY <1>1, <2>1, <2>2 DEF DateType
<1> QED BY <1>2, <1>3, <1>4, TypePartsNext

(* The steps that do not belong to a motion.                               *)
LEMMA CommandKeepsType ==
    ASSUME TypeOK, StartRun \/ StartEffects \/ ApplyEffect \/ EndRun \/ BreakOff
    PROVE  TypeOK'
<1>1. MotionType /\ SignType /\ DateType /\ RunType /\ open \subseteq Requests BY TypeParts
<1>2. UNCHANGED <<members, motionVars, status, signVars, dateVars, latest, open, wordings,
                  edits, opens, missed>>
  BY DEF StartRun, StartEffects, ApplyEffect, EndRun, BreakOff, counters, effectVars
<1>3. MotionType' /\ SignType' /\ DateType' /\ (open \subseteq Requests)'
  BY <1>1, <1>2 DEF MotionType, SignType, DateType, motionVars, signVars, dateVars
<1>4. RunType'
  <2>1. CASE StartRun BY <1>1, <2>1 DEF StartRun, RunType, MotionType, effectVars, counters
  <2>2. CASE StartEffects BY <1>1, <2>2 DEF StartEffects, Rows, RunType, effectVars, counters
  <2>3. CASE ApplyEffect
    <3>1. effects # <<>> /\ effects' = Tail(effects) BY <2>3 DEF ApplyEffect
    <3>2. Head(effects) \in Motions /\ effects' \in Seq(Motions)
      BY <1>1, <3>1, HeadTailProperties DEF RunType
    <3>3. pending' \in Seq(Motions)
      BY <1>1, <2>3, <3>2, WithoutTyped DEF ApplyEffect, RunType
    <3>4. required' \in Nat BY <1>1, <2>3, <3>2, SetsAssumption DEF ApplyEffect, RunType
    <3>5. failures' \in 0..MaxFailures
      BY <1>1, <2>3, ParametersAssumption DEF ApplyEffect, RunType
    <3> QED BY <1>1, <2>3, <3>2, <3>3, <3>4, <3>5 DEF ApplyEffect, RunType
  <2>4. CASE EndRun BY <1>1, <2>4 DEF EndRun, RunType, effectVars, counters
  <2>5. CASE BreakOff
    <3>1. required' \in Nat
      <4>1. CASE required' = required BY <1>1, <4>1 DEF RunType
      <4>2. CASE effects # <<>> /\ required' = Proposes[Head(effects)]
        BY <1>1, <4>2, HeadTailProperties, SetsAssumption DEF RunType
      <4> QED BY <2>5, <4>1, <4>2 DEF BreakOff
    <3>2. failures' \in 0..MaxFailures BY <1>1, <2>5, ParametersAssumption DEF BreakOff, RunType
    <3>3. <<>> \in Seq(Motions) BY EmptySeq
    <3> QED BY <1>1, <2>5, <3>1, <3>2, <3>3 DEF BreakOff, RunType
  <2> QED BY <2>1, <2>2, <2>3, <2>4, <2>5
<1> QED BY <1>3, <1>4, TypePartsNext

LEMMA TypeOKStep == TypeOK /\ [Next]_vars => TypeOK'
<1> SUFFICES ASSUME TypeOK, [Next]_vars PROVE TypeOK'
  OBVIOUS
<1>0. MotionType /\ SignType /\ DateType /\ RunType /\ open \subseteq Requests BY TypeParts
<1>1. ASSUME NEW p \in People, NEW m \in Motions, Propose(p, m) PROVE TypeOK'
  <2>1. PICK Z \in Targets(m) : abolishes' = [abolishes EXCEPT ![m] = Z] BY <1>1 DEF Propose
  <2>2. PICK d \in Stamps : sinceEdit' = [sinceEdit EXCEPT ![m] = d] BY <1>1 DEF Propose
  <2>3. abolishes' \in [Motions -> SUBSET Motions]
    BY <1>0, <2>1 DEF Targets, MotionType
  <2>4. sinceEdit' \in [Motions -> 0..Freeze]
    BY <1>0, <2>2, Values DEF DateType
  <2>5. MotionType'
    BY <1>0, <1>1, <2>3, StageNames, Values DEF Propose, MotionType, counters
  <2>6. SignType' /\ DateType' /\ RunType' /\ (open \subseteq Requests)'
    BY <1>0, <1>1, <2>4 DEF Propose, SignType, DateType, RunType, signVars, effectVars, runVars,
                            counters
  <2> QED BY <2>5, <2>6, TypePartsNext
<1>2. ASSUME NEW p \in People, NEW m \in Motions, Sign(p, m) \/ Withdraw(p, m) PROVE TypeOK'
  <2>1. UNCHANGED <<members, motionVars, status, dateVars, effectVars, runVars, open,
                    wordings, counters>>
    BY <1>2 DEF Sign, Withdraw
  <2>2. MotionType' /\ DateType' /\ RunType' /\ (open \subseteq Requests)'
    BY <1>0, <2>1 DEF MotionType, DateType, RunType, motionVars, dateVars, effectVars, runVars,
                      counters
  <2>3. signed' \in [Motions -> SUBSET People] /\ count' \in [Motions -> Int]
    BY <1>0, <1>2 DEF Sign, Withdraw, SignType
  <2>4. PICK b : gathered' = [gathered EXCEPT ![m] = b] /\ b \in BOOLEAN
    <3>1. CASE Sign(p, m) BY <1>0, <3>1 DEF Sign, Gathered, SignType
    <3>2. CASE Withdraw(p, m) BY <1>0, <3>2 DEF Withdraw, SignType
    <3> QED BY <1>2, <3>1, <3>2
  <2>5. gathered' \in [Motions -> BOOLEAN] BY <1>0, <2>4 DEF SignType
  <2> QED BY <2>2, <2>3, <2>5, TypePartsNext DEF SignType
<1>3. ASSUME NEW p \in People, NEW m \in Motions, Open(p, m) PROVE TypeOK'
  <2>1. PICK kind \in Overlapping : open' = open \cup {Request(kind, p, m)}
    BY <1>3 DEF Open
  <2>2. Request(kind, p, m) \in Requests BY <1>0, RequestTyped, SetsAssumption
  <2>3. opens' \in 0..MaxOpens BY <1>0, <1>3, ParametersAssumption DEF Open, MotionType
  <2>4. MotionType' /\ SignType' /\ DateType' /\ RunType'
    BY <1>0, <1>3, <2>3 DEF Open, MotionType, SignType, DateType, RunType, motionVars, signVars,
                            dateVars, effectVars, runVars
  <2> QED BY <1>0, <2>1, <2>2, <2>4, TypePartsNext
<1>4. ASSUME NEW p \in People, NEW m \in Motions, Edit(p, m) PROVE TypeOK'
  <2>1. Save(Request("edit", p, m)) /\ open' = open BY <1>4 DEF Edit
  <2>2. Request("edit", p, m) \in Requests BY <1>0, RequestTyped
  <2> QED BY <1>0, <2>1, <2>2, SaveKeepsType, TypePartsNext
<1>5. ASSUME NEW p \in People, NEW m \in Motions, Delete(p, m) PROVE TypeOK'
  <2>1. Erase(m) /\ open' = open BY <1>5 DEF Delete
  <2> QED BY <1>0, <2>1, EraseKeepsType, TypePartsNext
<1>6. ASSUME NEW r \in open, Proceed(r) PROVE TypeOK'
  <2>1. r \in Requests /\ r.motion \in Motions BY <1>0 DEF Requests
  <2>2. (open \subseteq Requests)' BY <1>0, <1>6 DEF Proceed
  <2>3. CASE Save(r) BY <2>1, <2>2, <2>3, SaveKeepsType, TypePartsNext
  <2>4. CASE Erase(r.motion) BY <2>1, <2>2, <2>4, EraseKeepsType, TypePartsNext
  <2>5. CASE UNCHANGED <<members, motionVars, status, signVars, dateVars, effectVars, runVars,
                         wordings, counters>>
    <3>1. MotionType' /\ SignType' /\ DateType' /\ RunType'
      BY <1>0, <2>5 DEF MotionType, SignType, DateType, RunType, motionVars, signVars,
                        dateVars, effectVars, runVars, counters
    <3> QED BY <2>2, <3>1, TypePartsNext
  <2> QED BY <1>6, <2>3, <2>4, <2>5 DEF Proceed
<1>7. ASSUME NEW p \in People, Leave(p) PROVE TypeOK'
  <2>1. /\ members' = members \ {p}
        /\ author' = [m \in Motions |-> IF author[m] = p THEN NoOne ELSE author[m]]
        /\ UNCHANGED <<exists, text, abolishes, archive, status, signVars, dateVars,
                       effectVars, runVars, open, wordings, counters>>
    BY <1>7 DEF Leave
  <2>2. MotionType' BY <1>0, <2>1 DEF MotionType, counters
  <2>3. SignType' /\ DateType' /\ RunType' /\ (open \subseteq Requests)'
    BY <1>0, <2>1 DEF SignType, DateType, RunType, signVars, dateVars, effectVars, runVars,
                      counters
  <2> QED BY <2>2, <2>3, TypePartsNext
<1>8. ASSUME NEW m \in Motions, Process(m) PROVE TypeOK' BY <1>8, ProcessKeepsType
<1>9. CASE Tick BY <1>9, TickKeepsType
<1>10. CASE StartRun \/ StartEffects \/ ApplyEffect \/ EndRun \/ BreakOff
  BY <1>10, CommandKeepsType
<1>11. CASE UNCHANGED vars
  BY <1>11 DEF vars, TypeOK, motionVars, signVars, dateVars, effectVars, runVars, counters
<1> QED BY <1>1, <1>2, <1>3, <1>4, <1>5, <1>6, <1>7, <1>8, <1>9, <1>10, <1>11
        DEF Next, Web, Run

LEMMA TypeOKInit == Init => TypeOK
<1> SUFFICES ASSUME Init PROVE TypeOK
  OBVIOUS
<1>1. MotionType BY StageNames, Values, ParametersAssumption DEF Init, MotionType
<1>2. SignType /\ DateType
  BY Values, ParametersAssumption DEF Init, SignType, DateType
<1>3. RunType
  <2>1. pending \in Seq(Motions) /\ effects \in Seq(Motions)
    <3>1. pending = <<>> /\ effects = <<>> BY DEF Init
    <3> QED BY <3>1, EmptySeq
  <2>2. required \in Nat /\ latest \in Nat BY ParametersAssumption DEF Init
  <2>3. missed \in 0..MaxMissed /\ failures \in 0..MaxFailures
    BY ParametersAssumption DEF Init
  <2>4. phase = "idle" /\ todo = {} /\ ranToday \in BOOLEAN BY DEF Init
  <2> QED BY <2>1, <2>2, <2>3, <2>4 DEF RunType
<1>4. open \subseteq Requests BY DEF Init
<1> QED BY <1>1, <1>2, <1>3, <1>4, TypeParts

(* Every variable keeps its type, whatever overlaps, fails or is missed.   *)
THEOREM TypesHold == Spec => []TypeOK
BY TypeOKInit, TypeOKStep, PTL DEF Spec

-----------------------------------------------------------------------------
(* One request at a time: the stages                                       *)

(* A motion that has a stage exists, and has been proposed.                *)
Alive == \A m \in Motions : m \in exists <=> status[m] \notin {NotYet, Deleted}

(* The steps when no request overlaps another step.                        *)
Alone == Overlapping = {} /\ open = {}

LEMMA AloneSteps ==
    ASSUME Alone, [Next]_vars
    PROVE  \/ \E p \in People, m \in Motions :
                 \/ Propose(p, m) \/ Sign(p, m) \/ Withdraw(p, m)
                 \/ MayChange(p, m) /\ Save(Request("edit", p, m)) /\ UNCHANGED open
                 \/ MayChange(p, m) /\ Erase(m) /\ UNCHANGED open
           \/ \E m \in Motions : Process(m)
           \/ \E p \in People : Leave(p)
           \/ Tick
           \/ StartRun \/ StartEffects \/ ApplyEffect \/ EndRun \/ BreakOff
           \/ UNCHANGED vars
BY DEF Alone, Next, Web, Run, Open, Edit, Delete

(* What a step may do to the stage of a motion.                            *)
Moved(m) ==
    \/ status'[m] = status[m]
    \/ status[m] = NotYet /\ status'[m] = "proposition"
    \/ status[m] = "proposition" /\ status'[m] \in {"discussion", Deleted}
    \/ status[m] = "proposition" /\ status'[m] = "rejected" /\ Overdue(m)
    \/ status[m] = "discussion" /\ status'[m] = "referendum"
    \/ status[m] = "referendum" /\ status'[m] \in Ended
    \/ /\ m \in exists /\ status'[m] = "rejected"
       /\ \E x \in exists : /\ m \in abolishes[x]
                            /\ status[x] = "referendum" /\ status'[x] = "approved"

LEMMA ProcessMoves ==
    ASSUME TypeOK, Alive, NEW y \in Motions, Process(y), NEW m \in Motions
    PROVE  Moved(m)
<1>1. status \in [Motions -> Statuses] BY DEF TypeOK
<1>2. CASE Discuss(y) BY <1>1, <1>2 DEF Discuss, MayDiscuss, Moved
<1>3. CASE GiveUp(y) BY <1>1, <1>3 DEF GiveUp, MayGiveUp, Moved
<1>4. CASE OpenVoting(y) BY <1>1, <1>4 DEF OpenVoting, MayVote, Moved
<1>5. CASE Approve(y)
  <2>1. /\ status[y] = "referendum" /\ Abolished(y) \subseteq exists
        /\ status'[y] = "approved"
        /\ \A x \in Motions \ {y} :
              status'[x] = IF x \in Abolished(y) THEN "rejected" ELSE status[x]
    BY <1>5 DEF Approve, Closing
  <2>2. y \in exists BY <2>1 DEF Alive, NotYet, Deleted
  <2>3. CASE m = y BY <2>1, <2>3 DEF Moved, Ended
  <2>4. CASE m # y /\ m \in Abolished(y)
    <3>1. m \in abolishes[y] /\ m \in exists BY <2>1, <2>4 DEF Abolished
    <3> QED BY <2>1, <2>2, <2>4, <3>1 DEF Moved
  <2>5. CASE m # y /\ m \notin Abolished(y) BY <2>1, <2>5 DEF Moved
  <2> QED BY <2>3, <2>4, <2>5
<1>6. CASE Reject(y) BY <1>1, <1>6 DEF Reject, Closing, Moved, Ended
<1>7. CASE Restart(y) \/ Wait(y) \/ Fail(y) BY <1>7 DEF Restart, Wait, Fail, Moved
<1> QED BY <1>2, <1>3, <1>4, <1>5, <1>6, <1>7 DEF Process

LEMMA Moves ==
    ASSUME TypeOK, Alive, Alone, [Next]_vars, NEW m \in Motions
    PROVE  Moved(m)
<1>1. status \in [Motions -> Statuses] BY DEF TypeOK
<1>2. ASSUME NEW p \in People, NEW y \in Motions, Propose(p, y) PROVE Moved(m)
  BY <1>1, <1>2 DEF Propose, Moved
<1>3. ASSUME NEW p \in People, NEW y \in Motions, MayChange(p, y), Save(Request("edit", p, y))
      PROVE  Moved(m)
  <2>1. status' = [status EXCEPT ![y] = "proposition"] /\ status[y] = "proposition"
    BY <1>3 DEF Save, MayChange, Request
  <2> QED BY <1>1, <2>1 DEF Moved
<1>4. ASSUME NEW p \in People, NEW y \in Motions, MayChange(p, y), Erase(y) PROVE Moved(m)
  <2>1. status' = [status EXCEPT ![y] = Deleted] /\ status[y] = "proposition"
    BY <1>4 DEF Erase, MayChange
  <2> QED BY <1>1, <2>1 DEF Moved
<1>5. ASSUME NEW y \in Motions, Process(y) PROVE Moved(m) BY <1>5, ProcessMoves
<1>6. CASE UNCHANGED status BY <1>6 DEF Moved
<1> QED BY <1>2, <1>3, <1>4, <1>5, <1>6, AloneSteps
        DEF Sign, Withdraw, Leave, Tick, StartRun, StartEffects, ApplyEffect, EndRun, BreakOff, vars

LEMMA AliveStep ==
    ASSUME TypeOK, Alive, Alone, [Next]_vars
    PROVE  Alive'
<1>1. status \in [Motions -> Statuses] BY DEF TypeOK
<1>2. ASSUME NEW p \in People, NEW y \in Motions, Propose(p, y) PROVE Alive'
  BY <1>1, <1>2 DEF Propose, Alive, NotYet, Deleted
<1>3. ASSUME NEW p \in People, NEW y \in Motions, MayChange(p, y), Save(Request("edit", p, y))
      PROVE  Alive'
  <2>1. status' = [status EXCEPT ![y] = "proposition"] /\ exists' = exists \cup {y}
    BY <1>3 DEF Save, Request
  <2> QED BY <1>1, <2>1 DEF Alive, NotYet, Deleted
<1>4. ASSUME NEW p \in People, NEW y \in Motions, MayChange(p, y), Erase(y) PROVE Alive'
  <2>1. status' = [status EXCEPT ![y] = Deleted] /\ exists' = exists \ {y}
    BY <1>4 DEF Erase
  <2> QED BY <1>1, <2>1 DEF Alive
<1>5. ASSUME NEW y \in Motions, Process(y) PROVE Alive'
  <2>1. exists' = exists BY <1>5 DEF Process, motionVars
  <2>2. ASSUME NEW m \in Motions PROVE m \in exists <=> status'[m] \notin {NotYet, Deleted}
    <3>1. /\ status'[m] = status[m]
          \/ /\ m \in exists
             /\ status'[m] \in {"discussion", "referendum", "approved", "rejected"}
      <4>1. CASE Discuss(y)
        BY <1>1, <4>1 DEF Discuss, MayDiscuss, Alive, NotYet, Deleted
      <4>2. CASE GiveUp(y) BY <1>1, <4>2 DEF GiveUp, MayGiveUp, Alive, NotYet, Deleted
      <4>3. CASE OpenVoting(y) BY <1>1, <4>3 DEF OpenVoting, MayVote, Alive, NotYet, Deleted
      <4>4. CASE Approve(y)
        <5>1. /\ status[y] = "referendum" /\ Abolished(y) \subseteq exists
              /\ status'[m] = IF m = y THEN "approved"
                              ELSE IF m \in Abolished(y) THEN "rejected" ELSE status[m]
          BY <4>4 DEF Approve, Closing
        <5> QED BY <5>1 DEF Alive, NotYet, Deleted
      <4>5. CASE Reject(y) BY <1>1, <4>5 DEF Reject, Closing, Alive, NotYet, Deleted
      <4>6. CASE Restart(y) \/ Wait(y) \/ Fail(y) BY <4>6 DEF Restart, Wait, Fail
      <4> QED BY <1>5, <4>1, <4>2, <4>3, <4>4, <4>5, <4>6 DEF Process
    <3> QED BY <3>1 DEF Alive, NotYet, Deleted
  <2> QED BY <2>1, <2>2 DEF Alive
<1>6. CASE UNCHANGED <<exists, status>> BY <1>6 DEF Alive
<1> QED BY <1>2, <1>3, <1>4, <1>5, <1>6, AloneSteps
        DEF Sign, Withdraw, Leave, Tick, StartRun, StartEffects, ApplyEffect, EndRun, BreakOff, vars,
            motionVars

LEMMA EndedStays ==
    ASSUME TypeOK, Alive, Alone, [Next]_vars, NEW m \in Motions, status[m] \in Ended
    PROVE  status'[m] \in Ended
<1>1. Moved(m) BY Moves
<1> QED BY <1>1 DEF Moved, Ended, NotYet

-----------------------------------------------------------------------------
(* One request at a time: the signatures and the wordings                  *)

(* A motion that is not proposed yet has no signature and no wording.      *)
Fresh == \A m \in Motions : status[m] = NotYet => count[m] = 0 /\ ~gathered[m] /\ text[m] = 0

LEMMA FreshStep ==
    ASSUME TypeOK, Alive, Alone, Fresh, [Next]_vars
    PROVE  Fresh'
<1> SUFFICES ASSUME NEW m \in Motions, status'[m] = NotYet
             PROVE  count'[m] = 0 /\ ~gathered'[m] /\ text'[m] = 0
  BY DEF Fresh
<1>1. status[m] = NotYet
  <2>1. Moved(m) BY Moves
  <2> QED BY <2>1 DEF Moved, NotYet, Deleted, Ended
<1>2. count[m] = 0 /\ ~gathered[m] /\ text[m] = 0 BY <1>1 DEF Fresh
<1>3. status \in [Motions -> Statuses] /\ count \in [Motions -> Int]
      /\ gathered \in [Motions -> BOOLEAN] /\ text \in [Motions -> 0..MaxEdits]
  BY DEF TypeOK
<1>4. ASSUME NEW p \in People, NEW y \in Motions, Propose(p, y)
      PROVE  count'[m] = 0 /\ ~gathered'[m] /\ text'[m] = 0
  BY <1>2, <1>4 DEF Propose, signVars
<1>5. ASSUME NEW p \in People, NEW y \in Motions, Sign(p, y) \/ Withdraw(p, y)
      PROVE  count'[m] = 0 /\ ~gathered'[m] /\ text'[m] = 0
  <2>1. y # m /\ text' = text BY <1>1, <1>5 DEF Sign, Withdraw, NotYet, motionVars
  <2>2. count'[m] = count[m] /\ gathered'[m] = gathered[m]
    BY <1>3, <1>5, <2>1 DEF Sign, Withdraw
  <2> QED BY <1>2, <2>1, <2>2
<1>6. ASSUME NEW p \in People, NEW y \in Motions, MayChange(p, y), Save(Request("edit", p, y))
      PROVE  count'[m] = 0 /\ ~gathered'[m] /\ text'[m] = 0
  <2>1. y # m BY <1>1, <1>6 DEF MayChange, NotYet
  <2>2. count'[m] = count[m] /\ gathered'[m] = gathered[m] /\ text'[m] = text[m]
    BY <1>3, <1>6, <2>1 DEF Save, Request
  <2> QED BY <1>2, <2>2
<1>7. ASSUME NEW p \in People, NEW y \in Motions, MayChange(p, y), Erase(y)
      PROVE  count'[m] = 0 /\ ~gathered'[m] /\ text'[m] = 0
  <2>1. y # m BY <1>1, <1>7 DEF MayChange, NotYet
  <2>2. count'[m] = count[m] /\ gathered'[m] = gathered[m] /\ text'[m] = text[m]
    BY <1>3, <1>7, <2>1 DEF Erase
  <2> QED BY <1>2, <2>2
<1>8. CASE UNCHANGED <<count, gathered, text>> BY <1>2, <1>8
<1> QED BY <1>4, <1>5, <1>6, <1>7, <1>8, AloneSteps
        DEF Process, Leave, Tick, StartRun, StartEffects, ApplyEffect, EndRun, BreakOff, vars,
            motionVars, signVars

(* The steps of the command touch the parameters and their effects; no     *)
(* other step does.                                                        *)
Untouched == UNCHANGED <<effectVars, phase, effects>>

LEMMA EffectSteps ==
    ASSUME [Next]_vars
    PROVE  \/ Untouched
           \/ \E y \in Motions : Process(y)
           \/ StartRun \/ StartEffects \/ ApplyEffect \/ EndRun \/ BreakOff
<1>1. ASSUME NEW p \in People, NEW m \in Motions, Web(p, m) PROVE Untouched
  <2>1. CASE Propose(p, m) BY <2>1 DEF Propose, Untouched, runVars
  <2>2. CASE Sign(p, m) BY <2>2 DEF Sign, Untouched, runVars
  <2>3. CASE Withdraw(p, m) BY <2>3 DEF Withdraw, Untouched, runVars
  <2>4. CASE Edit(p, m) BY <2>4 DEF Edit, Save, Untouched, runVars
  <2>5. CASE Delete(p, m) BY <2>5 DEF Delete, Erase, Untouched, runVars
  <2>6. CASE Open(p, m) BY <2>6 DEF Open, Untouched, runVars
  <2> QED BY <1>1, <2>1, <2>2, <2>3, <2>4, <2>5, <2>6 DEF Web
<1>2. ASSUME NEW r \in open, Proceed(r) PROVE Untouched
  <2>1. CASE Save(r) BY <2>1 DEF Save, Untouched, runVars
  <2>2. CASE Erase(r.motion) BY <2>2 DEF Erase, Untouched, runVars
  <2>3. CASE UNCHANGED <<effectVars, runVars>> BY <2>3 DEF Untouched, runVars
  <2> QED BY <1>2, <2>1, <2>2, <2>3 DEF Proceed
<1>3. ASSUME NEW p \in People, Leave(p) PROVE Untouched BY <1>3 DEF Leave, Untouched, runVars
<1>4. CASE Tick BY <1>4 DEF Tick, Untouched
<1>5. CASE UNCHANGED vars BY <1>5 DEF vars, Untouched, runVars
<1> QED BY <1>1, <1>2, <1>3, <1>4, <1>5 DEF Next, Run

(* The parameter motions whose effects wait have come to their end.        *)
Decided(s) == \A i \in DOMAIN s : Proposes[s[i]] # 0 /\ status[s[i]] \in Ended

AllDecided == Decided(pending) /\ Decided(effects)

(* What is left of a sequence without one of its elements was there.       *)
LEMMA WithoutElements ==
    ASSUME NEW s \in Seq(Motions), NEW m, NEW i \in DOMAIN Without(s, m)
    PROVE  \E j \in DOMAIN s : Without(s, m)[i] = s[j]
<1> DEFINE k == CHOOSE k \in DOMAIN s : s[k] = m
<1>1. Without(s, m) = [j \in 1..(Len(s) - 1) |-> s[IF j < k THEN j ELSE j + 1]]
  BY DEF Without
<1> HIDE DEF k
<1>2. Len(s) \in Nat /\ DOMAIN s = 1..Len(s) BY LenProperties
<1>3. i \in 1..(Len(s) - 1) BY <1>1
<1>4. i \in DOMAIN s /\ i + 1 \in DOMAIN s BY <1>2, <1>3
<1>5. Without(s, m)[i] = s[IF i < k THEN i ELSE i + 1] BY <1>1, <1>3
<1> QED BY <1>4, <1>5

LEMMA DecidedStep ==
    ASSUME TypeOK, Alive, Alone, AllDecided, [Next]_vars
    PROVE  AllDecided'
<1>1. pending \in Seq(Motions) /\ effects \in Seq(Motions) BY DEF TypeOK
<1>2. ASSUME NEW s \in Seq(Motions), Decided(s)
      PROVE  \A i \in DOMAIN s : Proposes[s[i]] # 0 /\ status'[s[i]] \in Ended
  <2> SUFFICES ASSUME NEW i \in DOMAIN s PROVE Proposes[s[i]] # 0 /\ status'[s[i]] \in Ended
    OBVIOUS
  <2>1. s[i] \in Motions BY ElementOfSeq, LenProperties
  <2> QED BY <1>2, <2>1, EndedStays DEF Decided
<1>3. /\ \A i \in DOMAIN pending : Proposes[pending[i]] # 0 /\ status'[pending[i]] \in Ended
      /\ \A i \in DOMAIN effects : Proposes[effects[i]] # 0 /\ status'[effects[i]] \in Ended
  BY <1>1, <1>2 DEF AllDecided
<1>4. CASE UNCHANGED <<pending, effects>> BY <1>3, <1>4 DEF AllDecided, Decided
<1>9. CASE Untouched BY <1>4, <1>9 DEF Untouched, effectVars
<1>10. CASE StartRun \/ EndRun BY <1>4, <1>10 DEF StartRun, EndRun, effectVars
<1>5. ASSUME NEW y \in Motions, Process(y), ~UNCHANGED <<pending, effects>> PROVE AllDecided'
  <2>1. Approve(y) /\ effects' = effects /\ Proposes[y] # 0
    BY <1>5 DEF Process, Discuss, GiveUp, OpenVoting, Approve, Reject, Restart, Wait, Fail
  <2>2. pending' = Append(pending, y) /\ status'[y] \in Ended
    BY <2>1 DEF Approve, Ended
  <2>3. Decided(pending)'
    <3> SUFFICES ASSUME NEW i \in DOMAIN pending'
                 PROVE  Proposes[pending'[i]] # 0 /\ status'[pending'[i]] \in Ended
      BY DEF Decided
    <3>1. \/ i \in DOMAIN pending /\ pending'[i] = pending[i]
          \/ pending'[i] = y
      BY <1>1, <2>2
    <3> QED BY <1>3, <2>1, <2>2, <3>1
  <2> QED BY <1>3, <2>1, <2>3 DEF AllDecided, Decided
<1>6. CASE StartEffects
  BY <1>3, <1>6 DEF StartEffects, Rows, AllDecided, Decided, effectVars
<1>7. CASE ApplyEffect
  <2>1. effects # <<>> /\ effects' = Tail(effects) BY <1>7 DEF ApplyEffect
  <2>2. Decided(effects)'
    <3> SUFFICES ASSUME NEW i \in DOMAIN effects'
                 PROVE  Proposes[effects'[i]] # 0 /\ status'[effects'[i]] \in Ended
      BY DEF Decided
    <3>1. i + 1 \in DOMAIN effects /\ effects'[i] = effects[i + 1]
      BY <1>1, <2>1
    <3> QED BY <1>3, <3>1
  <2>3. pending' = pending \/ \E m : pending' = Without(pending, m)
    BY <1>7 DEF ApplyEffect
  <2>4. Decided(pending)'
    <3>1. CASE pending' = pending BY <1>3, <3>1 DEF Decided
    <3>2. ASSUME NEW m, pending' = Without(pending, m) PROVE Decided(pending)'
      <4> SUFFICES ASSUME NEW i \in DOMAIN Without(pending, m)
                   PROVE  /\ Proposes[Without(pending, m)[i]] # 0
                          /\ status'[Without(pending, m)[i]] \in Ended
        BY <3>2 DEF Decided
      <4>1. PICK j \in DOMAIN pending : Without(pending, m)[i] = pending[j]
        BY <1>1, WithoutElements
      <4> QED BY <1>3, <4>1
    <3> QED BY <2>3, <3>1, <3>2
  <2> QED BY <2>2, <2>4 DEF AllDecided
<1>8. CASE BreakOff
  <2>1. effects' = <<>> /\ pending' = pending BY <1>8 DEF BreakOff
  <2> QED BY <1>3, <2>1 DEF AllDecided, Decided
<1> QED BY <1>4, <1>9, <1>10, <1>5, <1>6, <1>7, <1>8, EffectSteps

(* No parameter motion has come to its end.                                *)
NoneDecided == \A x \in Motions : Proposes[x] # 0 => status[x] \notin Ended

Gathering ==
    NoneDecided => /\ required = Required
                   /\ \A m \in exists : gathered[m] <=> count[m] >= required

LEMMA RequiredStays ==
    ASSUME TypeOK, Alive, Alone, AllDecided, NoneDecided, [Next]_vars
    PROVE  required' = required
<1>1. effects = <<>>
  <2>1. effects \in Seq(Motions) BY DEF TypeOK
  <2>2. SUFFICES ASSUME effects # <<>> PROVE FALSE
    OBVIOUS
  <2>3. 1 \in DOMAIN effects /\ effects[1] \in Motions
    BY <2>1, <2>2, LenProperties, EmptySeq, ElementOfSeq
  <2> QED BY <2>3 DEF AllDecided, Decided, NoneDecided
<1>2. CASE StartRun \/ StartEffects \/ ApplyEffect \/ EndRun \/ BreakOff
  BY <1>1, <1>2 DEF StartRun, StartEffects, ApplyEffect, EndRun, BreakOff, effectVars
<1>3. CASE \E y \in Motions : Process(y) BY <1>3 DEF Process
<1>4. CASE Untouched BY <1>4 DEF Untouched, effectVars
<1> QED BY <1>2, <1>3, <1>4, EffectSteps

LEMMA GatheringStep ==
    ASSUME TypeOK, Alive, Alone, Fresh, AllDecided, Gathering, [Next]_vars
    PROVE  Gathering'
<1> SUFFICES ASSUME NoneDecided'
             PROVE  /\ required' = Required
                    /\ \A m \in exists' : gathered'[m] <=> count'[m] >= required'
  BY DEF Gathering
<1>1. NoneDecided BY EndedStays DEF NoneDecided
<1>2. required' = required /\ required = Required BY <1>1, RequiredStays DEF Gathering
<1>3. \A m \in exists : gathered[m] <=> count[m] >= required BY <1>1 DEF Gathering
<1>4. /\ status \in [Motions -> Statuses] /\ count \in [Motions -> Int]
      /\ gathered \in [Motions -> BOOLEAN] /\ exists \subseteq Motions /\ required \in Nat \ {0}
  BY <1>2, ParametersAssumption DEF TypeOK
<1> DEFINE Right == \A m \in exists' : gathered'[m] <=> count'[m] >= required
<1>5. ASSUME NEW p \in People, NEW y \in Motions, Propose(p, y) PROVE Right
  <2>1. count[y] = 0 /\ ~gathered[y] BY <1>5 DEF Fresh, Propose
  <2>2. exists' = exists \cup {y} /\ UNCHANGED <<count, gathered>>
    BY <1>5 DEF Propose, signVars
  <2> QED BY <1>3, <1>4, <2>1, <2>2
<1>6. ASSUME NEW p \in People, NEW y \in Motions, Sign(p, y) PROVE Right
  <2>1. /\ exists' = exists /\ y \in exists
        /\ \A m \in Motions \ {y} : count'[m] = count[m] /\ gathered'[m] = gathered[m]
        /\ count'[y] = count[y] \/ count'[y] = count[y] + 1
        /\ gathered'[y] <=> (gathered[y] \/ count'[y] >= required)
    BY <1>4, <1>6 DEF Sign, Gathered, motionVars
  <2>2. gathered'[y] <=> count'[y] >= required BY <1>3, <1>4, <2>1
  <2>3. \A m \in exists \ {y} : gathered'[m] <=> count'[m] >= required BY <1>3, <1>4, <2>1
  <2> QED BY <2>1, <2>2, <2>3
<1>7. ASSUME NEW p \in People, NEW y \in Motions, Withdraw(p, y) PROVE Right
  <2>1. /\ exists' = exists /\ y \in exists
        /\ \A m \in Motions \ {y} : count'[m] = count[m] /\ gathered'[m] = gathered[m]
        /\ count'[y] = count[y] - 1
        /\ gathered'[y] <=> (gathered[y] /\ count'[y] >= required)
    BY <1>4, <1>7 DEF Withdraw, motionVars
  <2>2. gathered'[y] <=> count'[y] >= required BY <1>3, <1>4, <2>1
  <2>3. \A m \in exists \ {y} : gathered'[m] <=> count'[m] >= required BY <1>3, <1>4, <2>1
  <2> QED BY <2>1, <2>2, <2>3
<1>8. ASSUME NEW p \in People, NEW y \in Motions, MayChange(p, y), Save(Request("edit", p, y))
      PROVE  Right
  <2>1. /\ exists' = exists
        /\ \A m \in Motions : count'[m] = count[m] /\ gathered'[m] = gathered[m]
    BY <1>4, <1>8 DEF Save, Request, MayChange
  <2> QED BY <1>3, <1>4, <2>1
<1>9. ASSUME NEW p \in People, NEW y \in Motions, MayChange(p, y), Erase(y) PROVE Right
  <2>1. /\ exists' = exists \ {y}
        /\ \A m \in Motions \ {y} : count'[m] = count[m] /\ gathered'[m] = gathered[m]
    BY <1>4, <1>9 DEF Erase
  <2> QED BY <1>3, <1>4, <2>1
<1>10. ASSUME UNCHANGED <<exists, count, gathered>> PROVE Right
  <2> SUFFICES ASSUME NEW m \in exists' PROVE gathered'[m] <=> count'[m] >= required
    OBVIOUS
  <2>1. m \in exists /\ count'[m] = count[m] /\ gathered'[m] = gathered[m] BY <1>10
  <2>2. gathered[m] <=> count[m] >= required BY <1>3, <2>1
  <2> QED BY <2>1, <2>2
<1> HIDE DEF Right
<1>11. ASSUME ~UNCHANGED <<exists, count, gathered>> PROVE Right
  BY <1>5, <1>6, <1>7, <1>8, <1>9, <1>11, AloneSteps
     DEF Process, Leave, Tick, StartRun, StartEffects, ApplyEffect, EndRun, BreakOff, vars,
         motionVars, signVars
<1> QED BY <1>2, <1>10, <1>11 DEF Right

LEMMA HistoryStep ==
    ASSUME TypeOK, Alive, Alone, Fresh, HistoryIsComplete, [Next]_vars
    PROVE  HistoryIsComplete'
<1>1. /\ text \in [Motions -> 0..MaxEdits] /\ archive \in [Motions -> SUBSET (0..MaxEdits)]
      /\ wordings \in [Motions -> SUBSET (0..MaxEdits)] /\ exists \subseteq Motions
  BY DEF TypeOK
<1>2. ASSUME NEW p \in People, NEW y \in Motions, Propose(p, y) PROVE HistoryIsComplete'
  <2>1. text[y] = 0 BY <1>2 DEF Fresh, Propose
  <2>2. /\ exists' = exists \cup {y} /\ UNCHANGED <<text, archive>>
        /\ wordings' = [wordings EXCEPT ![y] = {0}]
    BY <1>2 DEF Propose
  <2> QED BY <1>1, <2>1, <2>2 DEF HistoryIsComplete
<1>3. ASSUME NEW p \in People, NEW y \in Motions, MayChange(p, y), Save(Request("edit", p, y))
      PROVE  HistoryIsComplete'
  <2>1. /\ exists' = exists \cup {y} /\ y \in exists
        /\ archive' = [archive EXCEPT ![y] = @ \cup {text[y]}]
        /\ text' = [text EXCEPT ![y] = edits']
        /\ wordings' = [wordings EXCEPT ![y] = @ \cup {edits'}]
    BY <1>3 DEF Save, Snapshot, Request, MayChange
  <2> QED BY <1>1, <2>1 DEF HistoryIsComplete
<1>4. ASSUME NEW p \in People, NEW y \in Motions, MayChange(p, y), Erase(y)
      PROVE  HistoryIsComplete'
  <2>1. /\ exists' = exists \ {y}
        /\ archive' = [archive EXCEPT ![y] = {}] /\ text' = [text EXCEPT ![y] = 0]
        /\ wordings' = [wordings EXCEPT ![y] = {}]
    BY <1>4 DEF Erase
  <2> QED BY <1>1, <2>1 DEF HistoryIsComplete
<1>5. CASE UNCHANGED <<exists, text, archive, wordings>> BY <1>5 DEF HistoryIsComplete
<1> QED BY <1>2, <1>3, <1>4, <1>5, AloneSteps
        DEF Sign, Withdraw, Process, Leave, Tick, StartRun, StartEffects, ApplyEffect, EndRun,
            BreakOff, vars, motionVars

(* The invariant of a motion when one request runs at a time.              *)
Life == Alive /\ Fresh /\ AllDecided /\ Gathering /\ HistoryIsComplete

LEMMA TypeOKIsTyped == TypeOK => Typed
<1> SUFFICES ASSUME TypeOK PROVE Typed
  OBVIOUS
<1>1. 0..MaxEdits \subseteq Int /\ 0..DiscussionDays \subseteq Nat
  BY ParametersAssumption
<1>2. text \in [Motions -> Int] /\ edits \in Int /\ untilStart \in [Motions -> Nat]
  BY <1>1 DEF TypeOK
<1>3. \A r \in open : r.motion \in Motions /\ r.count \in Int
  BY DEF TypeOK
<1> QED
  BY <1>2, <1>3 DEF TypeOK, Typed

LEMMA LifeInit == Init => Life
<1> SUFFICES ASSUME Init PROVE Life
  OBVIOUS
<1>1. Alive BY DEF Init, Alive
<1>2. Fresh BY DEF Init, Fresh
<1>3. AllDecided
  <2>1. pending = <<>> /\ effects = <<>> BY DEF Init
  <2> QED BY <2>1 DEF AllDecided, Decided
<1>4. Gathering /\ HistoryIsComplete BY DEF Init, Gathering, HistoryIsComplete
<1> QED BY <1>1, <1>2, <1>3, <1>4 DEF Life

LEMMA LifeStep ==
    ASSUME Overlapping = {}, TypeOK, Orderly, Life, [Next]_vars
    PROVE  Life'
<1>1. Alone BY DEF Alone, Orderly
<1> QED BY <1>1, AliveStep, FreshStep, DecidedStep, GatheringStep, HistoryStep DEF Life

(* When no request overlaps another step, a motion shows a date for its    *)
(* signatures exactly when it has enough, and no wording is ever lost; and *)
(* the types hold.                                                         *)
THEOREM MotionInvariantHolds == (Overlapping = {}) /\ Spec => []MotionInvariant
<1> SUFFICES ASSUME Overlapping = {} PROVE Spec => []MotionInvariant
  OBVIOUS
<1>1. TypeOK /\ Orderly /\ [Next]_vars => Orderly' BY OrderlyStep, TypeOKIsTyped
<1>2. TypeOK /\ Orderly /\ Life /\ [Next]_vars => Life' BY LifeStep
<1>3. TypeOK /\ Life => MotionInvariant
  BY DEF Life, Gathering, NoneDecided, GatheredIsRight, MotionInvariant
<1> QED BY <1>1, <1>2, <1>3, TypesHold, OrderlyInit, LifeInit, PTL DEF Spec

-----------------------------------------------------------------------------
(* One request at a time: the stages are earned                            *)

(* A motion moves one stage at a time, and is rejected out of its turn     *)
(* only by an approved motion that names it.                               *)
LEMMA StagesStep ==
    ASSUME TypeOK, Alive, Alone, [Next]_vars, NEW m \in exists
    PROVE  \/ status'[m] = status[m]
           \/ status[m] = "proposition" /\ status'[m] \in {"discussion", Deleted}
           \/ status[m] = "proposition" /\ status'[m] = "rejected" /\ Overdue(m)
           \/ status[m] = "discussion" /\ status'[m] = "referendum"
           \/ status[m] = "referendum" /\ status'[m] \in Ended
           \/ /\ status[m] \in Running \cup {"approved"} /\ status'[m] = "rejected"
              /\ \E x \in exists : /\ m \in abolishes[x]
                                   /\ status[x] = "referendum" /\ status'[x] = "approved"
<1>1. m \in Motions /\ status[m] \in Statuses BY DEF TypeOK
<1>2. status[m] # NotYet /\ status[m] # Deleted BY <1>1 DEF Alive
<1>3. Moved(m) BY <1>1, Moves
<1> QED BY <1>1, <1>2, <1>3 DEF Moved, Statuses, Ended, Running

(* The date of the wording is at most one day behind the calendar.         *)
Recent == \A m \in Motions : sinceEdit[m] <= settled[m] + 1

LEMMA RecentStep ==
    ASSUME TypeOK, Recent, [Next]_vars, Alone
    PROVE  Recent'
<1>1. sinceEdit \in [Motions -> 0..2] /\ settled \in [Motions -> 0..2] /\ exists \subseteq Motions
  BY DEF TypeOK, Freeze
<1>2. ASSUME NEW p \in People, NEW y \in Motions, Propose(p, y) PROVE Recent'
  <2>1. PICK d \in Stamps : sinceEdit' = [sinceEdit EXCEPT ![y] = d] BY <1>2 DEF Propose
  <2>2. settled' = settled BY <1>2 DEF Propose
  <2> QED BY <1>1, <2>1, <2>2 DEF Recent, Stamps
<1>3. ASSUME NEW p \in People, NEW y \in Motions, MayChange(p, y), Save(Request("edit", p, y))
      PROVE  Recent'
  <2>1. PICK d \in Stamps : sinceEdit' = [sinceEdit EXCEPT ![y] = d] BY <1>3 DEF Save, Request
  <2>2. settled' = [settled EXCEPT ![y] = 0] BY <1>3 DEF Save, Request
  <2> QED BY <1>1, <2>1, <2>2 DEF Recent, Stamps
<1>4. CASE Tick
  <2>1. /\ sinceEdit' = [m \in Motions |-> IF m \in exists THEN Raise(sinceEdit[m], Freeze)
                                                           ELSE sinceEdit[m]]
        /\ settled' = [m \in Motions |-> IF m \in exists THEN Raise(settled[m], Freeze)
                                                         ELSE settled[m]]
    BY <1>4 DEF Tick
  <2> QED BY <1>1, <2>1 DEF Recent, Raise, Freeze
<1>5. CASE UNCHANGED <<sinceEdit, settled>> BY <1>5 DEF Recent
<1> QED BY <1>2, <1>3, <1>4, <1>5, AloneSteps
        DEF Sign, Withdraw, Erase, Process, Leave, StartRun, StartEffects, ApplyEffect, EndRun,
            BreakOff, vars, dateVars

LEMMA DiscussionStep ==
    ASSUME TypeOK, Orderly, Recent, Alone, [Next]_vars, NEW m \in exists,
           status[m] = "proposition", status'[m] = "discussion"
    PROVE  /\ author[m] \in signed[m] /\ Cardinality(signed[m]) >= required
           /\ settled[m] >= Freeze - 1
<1>1. m \in Motions /\ status \in [Motions -> Statuses] BY DEF TypeOK
<1>2. ~UNCHANGED status BY <1>1
<1>3. ASSUME NEW p \in People, NEW y \in Motions, Propose(p, y) PROVE FALSE
  BY <1>1, <1>3 DEF Propose, NotYet
<1>4. ASSUME NEW p \in People, NEW y \in Motions, Save(Request("edit", p, y)) PROVE FALSE
  <2>1. status' = [status EXCEPT ![y] = "proposition"] BY <1>4 DEF Save, Request
  <2> QED BY <1>1, <2>1
<1>5. ASSUME NEW y \in Motions, Erase(y) PROVE FALSE
  <2>1. status' = [status EXCEPT ![y] = Deleted] BY <1>5 DEF Erase
  <2> QED BY <1>1, <2>1 DEF Deleted
<1>6. PICK y \in Motions : Process(y)
  BY <1>2, <1>3, <1>4, <1>5, AloneSteps
     DEF Sign, Withdraw, Leave, Tick, StartRun, StartEffects, ApplyEffect, EndRun, BreakOff, vars
<1>7. Discuss(y) /\ y = m
  <2>1. CASE Discuss(y) BY <1>1, <2>1 DEF Discuss
  <2>2. CASE GiveUp(y) \/ Reject(y) BY <1>1, <2>2 DEF GiveUp, Reject
  <2>3. CASE OpenVoting(y) BY <1>1, <2>3 DEF OpenVoting
  <2>4. CASE Approve(y) BY <1>1, <2>4 DEF Approve
  <2>5. CASE Restart(y) \/ Wait(y) \/ Fail(y) BY <1>2, <2>5 DEF Restart, Wait, Fail
  <2> QED BY <1>6, <2>1, <2>2, <2>3, <2>4, <2>5 DEF Process
<1>8. Ready(m) /\ ~Frozen(m) BY <1>7 DEF Discuss, MayDiscuss
<1>9. sinceEdit[m] \in 0..2 /\ settled[m] \in 0..2 BY <1>1 DEF TypeOK, Freeze
<1> QED BY <1>1, <1>8, <1>9 DEF Ready, Frozen, Freeze, Orderly, Recent

(* The days on which the command has not got to a motion.                  *)
Delays == missed + failures

LEMMA SumsOfDelays ==
    \A c, d, e, f \in Int :
        /\ e + f \in Int
        /\ e >= 0 /\ f >= 0 => e + f >= 0
        /\ (e = c \/ e = c + 1) /\ (f = d \/ f = d + 1) => e + f >= c + d
        /\ e = c /\ f = d + 1 => e + f = c + d + 1
        /\ e = c + 1 /\ f = d => e + f = c + d + 1
OBVIOUS

LEMMA DelaysGrow ==
    ASSUME TypeOK, TypeOK', missed' = missed \/ missed' = missed + 1,
           failures' = failures \/ failures' = failures + 1
    PROVE  /\ Delays \in Int /\ Delays' \in Int /\ Delays' >= 0 /\ Delays' >= Delays
           /\ missed' = missed /\ failures' = failures + 1 => Delays' = Delays + 1
           /\ missed' = missed + 1 /\ failures' = failures => Delays' = Delays + 1
<1>1. /\ missed \in Int /\ failures \in Int BY DEF TypeOK
<1>2. /\ missed' \in Int /\ failures' \in Int /\ missed' >= 0 /\ failures' >= 0 BY DEF TypeOK
<1>3. Delays = missed + failures /\ Delays' = missed' + failures' BY DEF Delays
<1>4. Delays \in Int /\ Delays' \in Int /\ Delays' >= 0 BY <1>1, <1>2, <1>3, SumsOfDelays
<1>5. Delays' >= Delays BY <1>1, <1>2, <1>3, SumsOfDelays
<1>6. ASSUME missed' = missed, failures' = failures + 1 PROVE Delays' = Delays + 1
  BY <1>1, <1>2, <1>3, <1>6, SumsOfDelays
<1>7. ASSUME missed' = missed + 1, failures' = failures PROVE Delays' = Delays + 1
  BY <1>1, <1>2, <1>3, <1>7, SumsOfDelays
<1> QED BY <1>4, <1>5, <1>6, <1>7

(* The command has had its turn with m today.                              *)
Passed(m) == ranToday /\ ~(phase = "process" /\ m \in todo)

(* A discussion that has lasted its days has cost the vote only days on    *)
(* which the command did not get to the motion, today included; and so has *)
(* a vote.                                                                 *)
DiscussionTerm(m) ==
    status[m] = "discussion" =>
        /\ untilStop[m] >= untilStart[m] + ReferendumDays - Delays
        /\ untilStart[m] = 0 /\ Passed(m) => untilStop[m] >= ReferendumDays - Delays + 1

VotingTerm(m) ==
    status[m] = "referendum" =>
        \/ openDays[m] >= ReferendumDays
        \/ openDays[m] + untilStop[m] >= ReferendumDays - Delays

Term ==
    /\ phase # "idle" => ranToday
    /\ \A m \in Motions : DiscussionTerm(m) /\ VotingTerm(m)

(* The dates and the stage of a motion stay, and it is not passed over.    *)
Resting(m) ==
    /\ status'[m] \in {"discussion", "referendum"} =>
          /\ status'[m] = status[m]
          /\ untilStart'[m] = untilStart[m] /\ untilStop'[m] = untilStop[m]
          /\ openDays'[m] = openDays[m]
          /\ Passed(m)' => Passed(m)
    /\ Delays' >= Delays

LEMMA RestingTerm ==
    ASSUME TypeOK, Term, NEW m \in Motions, Resting(m), Delays' \in Int
    PROVE  DiscussionTerm(m)' /\ VotingTerm(m)'
<1>1. /\ untilStart[m] \in Int /\ untilStop[m] \in Int /\ openDays[m] \in Int
      /\ ReferendumDays \in Int /\ Delays \in Int
  BY ParametersAssumption DEF TypeOK, Delays
<1>2. DiscussionTerm(m) /\ VotingTerm(m) BY DEF Term
<1>3. DiscussionTerm(m)'
  <2>1. SUFFICES ASSUME status'[m] = "discussion"
                 PROVE  /\ untilStop'[m] >= untilStart'[m] + ReferendumDays - Delays'
                        /\ untilStart'[m] = 0 /\ Passed(m)'
                              => untilStop'[m] >= ReferendumDays - Delays' + 1
    BY DEF DiscussionTerm
  <2>2. status[m] = "discussion" BY <2>1 DEF Resting
  <2> QED BY <1>1, <1>2, <2>1, <2>2 DEF Resting, DiscussionTerm
<1>4. VotingTerm(m)'
  <2>1. SUFFICES ASSUME status'[m] = "referendum"
                 PROVE  \/ openDays'[m] >= ReferendumDays
                        \/ openDays'[m] + untilStop'[m] >= ReferendumDays - Delays'
    BY DEF VotingTerm
  <2>2. status[m] = "referendum" BY <2>1 DEF Resting
  <2> QED BY <1>1, <1>2, <2>1, <2>2 DEF Resting, VotingTerm
<1> QED BY <1>3, <1>4

LEMMA ProcessTerm ==
    ASSUME TypeOK, TypeOK', Term, NEW y \in Motions, Process(y)
    PROVE  Term'
<1>1. /\ phase = "process" /\ phase' = phase /\ ranToday' = ranToday /\ missed' = missed
      /\ todo' = todo \ {y} /\ y \in todo /\ ranToday = TRUE
  BY DEF Process, Term
<1>2. /\ status \in [Motions -> Statuses]
      /\ untilStart \in [Motions -> Int] /\ untilStop \in [Motions -> Int]
      /\ openDays \in [Motions -> Int]
      /\ Delays \in Int /\ Delays' \in Int /\ Delays' >= 0 /\ Delays' >= Delays
  <2>1. failures' = failures \/ failures' = failures + 1
    BY DEF Process, Discuss, GiveUp, OpenVoting, Approve, Reject, Restart, Wait, Fail
  <2>2. status \in [Motions -> Statuses] BY DEF TypeOK
  <2>3. \A m \in Motions : untilStart[m] \in Int /\ untilStop[m] \in Int /\ openDays[m] \in Int
    BY DEF TypeOK
  <2>4. /\ untilStart \in [Motions -> Int] /\ untilStop \in [Motions -> Int]
        /\ openDays \in [Motions -> Int]
    BY <2>3 DEF TypeOK
  <2> QED BY <1>1, <2>1, <2>2, <2>4, DelaysGrow
<1>3. ReferendumDays \in Nat \ {0} /\ DiscussionDays \in Nat \ {0} BY ParametersAssumption
<1>4. ASSUME NEW m \in Motions, m # y PROVE DiscussionTerm(m)' /\ VotingTerm(m)'
  <2>1. Passed(m)' => Passed(m) BY <1>1, <1>4 DEF Passed
  <2>2. /\ status'[m] \in {"discussion", "referendum"} => status'[m] = status[m]
        /\ untilStart'[m] = untilStart[m] /\ untilStop'[m] = untilStop[m]
        /\ openDays'[m] = openDays[m]
    <3>1. CASE Discuss(y) BY <1>2, <1>4, <3>1 DEF Discuss
    <3>2. CASE GiveUp(y) \/ Reject(y) BY <1>2, <1>4, <3>2 DEF GiveUp, Reject
    <3>3. CASE OpenVoting(y) BY <1>2, <1>4, <3>3 DEF OpenVoting
    <3>4. CASE Approve(y) BY <1>2, <1>4, <3>4 DEF Approve
    <3>5. CASE Restart(y) BY <1>2, <1>4, <3>5 DEF Restart
    <3>6. CASE Wait(y) \/ Fail(y) BY <3>6 DEF Wait, Fail
    <3> QED BY <3>1, <3>2, <3>3, <3>4, <3>5, <3>6 DEF Process
  <2> QED BY <1>2, <1>4, <2>1, <2>2, RestingTerm DEF Resting
<1>5. DiscussionTerm(y)' /\ VotingTerm(y)'
  <2>0. DiscussionTerm(y) /\ VotingTerm(y) BY DEF Term
  <2>1. CASE Discuss(y)
    <3>1. /\ status'[y] = "discussion" /\ untilStart'[y] = DiscussionDays
          /\ untilStop'[y] = DiscussionDays + ReferendumDays
      BY <1>2, <2>1 DEF Discuss
    <3>2. \A c, d, e \in Int : e >= 0 => c + d >= c + d - e
      OBVIOUS
    <3>3. DiscussionDays \in Int /\ ReferendumDays \in Int /\ DiscussionDays # 0
      BY <1>3
    <3>4. Delays' \in Int /\ Delays' >= 0 BY <1>2
    <3>5. untilStop'[y] >= untilStart'[y] + ReferendumDays - Delays' BY <3>1, <3>2, <3>3, <3>4
    <3> QED BY <3>1, <3>3, <3>5 DEF DiscussionTerm, VotingTerm
  <2>2. CASE GiveUp(y) \/ Reject(y)
    <3>1. status'[y] = "rejected" BY <1>2, <2>2 DEF GiveUp, Reject
    <3> QED BY <3>1 DEF DiscussionTerm, VotingTerm
  <2>3. CASE OpenVoting(y)
    <3>1. /\ status[y] = "discussion" /\ untilStart[y] = 0
          /\ status'[y] = "referendum" /\ openDays'[y] = 0
          /\ untilStop'[y] = untilStop[y] /\ failures' = failures
      BY <1>2, <2>3 DEF OpenVoting, MayVote
    <3>2. untilStop[y] >= ReferendumDays - Delays BY <1>2, <1>3, <2>0, <3>1 DEF DiscussionTerm
    <3>3. Delays' = Delays BY <1>1, <3>1 DEF Delays
    <3> QED BY <1>2, <1>3, <3>1, <3>2, <3>3 DEF DiscussionTerm, VotingTerm
  <2>4. CASE Approve(y)
    <3>1. status'[y] = "approved" BY <1>2, <2>4 DEF Approve
    <3> QED BY <3>1 DEF DiscussionTerm, VotingTerm
  <2>5. CASE Restart(y)
    <3>1. /\ status'[y] = "referendum" /\ untilStop'[y] = ReferendumDays /\ openDays'[y] = 0
      BY <1>2, <2>5 DEF Restart, Closing
    <3>2. openDays'[y] + untilStop'[y] >= ReferendumDays - Delays' /\ status'[y] # "discussion"
      BY <1>2, <1>3, <3>1
    <3> QED BY <3>2 DEF DiscussionTerm, VotingTerm
  <2>6. CASE Wait(y)
    <3>1. /\ UNCHANGED <<status, untilStart, untilStop, openDays, failures>> /\ ~MayVote(y)
      BY <2>6 DEF Wait
    <3>2. status[y] = "discussion" => untilStart[y] # 0 BY <3>1 DEF MayVote
    <3>3. Delays' = Delays BY <1>1, <3>1 DEF Delays
    <3> QED BY <1>2, <2>0, <3>1, <3>2, <3>3 DEF DiscussionTerm, VotingTerm
  <2>7. CASE Fail(y)
    <3>1. UNCHANGED <<status, untilStart, untilStop, openDays>> /\ failures' = failures + 1
      BY <2>7 DEF Fail
    <3>2. Delays' = Delays + 1 BY <1>1, <3>1, DelaysGrow
    <3> QED BY <1>2, <1>3, <2>0, <3>1, <3>2 DEF DiscussionTerm, VotingTerm
  <2> QED BY <2>1, <2>2, <2>3, <2>4, <2>5, <2>6, <2>7 DEF Process
<1>6. \A m \in Motions : DiscussionTerm(m)' /\ VotingTerm(m)' BY <1>4, <1>5
<1> QED BY <1>1, <1>6 DEF Term

LEMMA TickTerm ==
    ASSUME TypeOK, TypeOK', Term, Tick
    PROVE  Term'
<1>1. /\ phase = "idle" /\ phase' = phase /\ ranToday' = FALSE /\ failures' = failures
      /\ status' = status
  BY DEF Tick
<1>2. /\ missed \in Int /\ failures \in Int /\ missed' \in Int /\ ranToday \in BOOLEAN
      /\ missed' = missed \/ missed' = missed + 1
      /\ ~ranToday => missed' = missed + 1
      /\ ReferendumDays \in Nat \ {0}
  BY ParametersAssumption DEF TypeOK, Tick
<1> SUFFICES ASSUME NEW m \in Motions PROVE DiscussionTerm(m)' /\ VotingTerm(m)'
  BY <1>1 DEF Term
<1>3. DiscussionTerm(m) /\ VotingTerm(m) BY DEF Term
<1>4. /\ untilStart[m] \in Nat /\ untilStop[m] \in Int /\ untilStop[m] >= -1
      /\ openDays[m] \in 0..ReferendumDays
  BY ParametersAssumption DEF TypeOK
<1>5. ~Passed(m)' BY <1>1 DEF Passed
<1>6. Delays \in Int /\ Delays' \in Int /\ Delays' >= Delays
      /\ (~ranToday => Delays' = Delays + 1)
  BY <1>1, <1>2, DelaysGrow
<1>7. ASSUME status[m] = "discussion"
      PROVE  untilStop'[m] >= untilStart'[m] + ReferendumDays - Delays'
  <2>1. /\ untilStart'[m] = Lower(untilStart[m], 0) /\ untilStop'[m] = Lower(untilStop[m], -1)
    BY <1>7 DEF Tick
  <2>2. untilStop'[m] \in Int /\ untilStop'[m] >= untilStop[m] - 1 BY <1>4, <2>1 DEF Lower
  <2>3. CASE untilStart[m] > 0
    <3>1. untilStart'[m] = untilStart[m] - 1 BY <2>1, <2>3 DEF Lower
    <3> QED BY <1>2, <1>3, <1>4, <1>6, <1>7, <2>2, <3>1 DEF DiscussionTerm
  <2>4. CASE untilStart[m] = 0
    <3>1. untilStart'[m] = 0 BY <2>1, <2>4 DEF Lower
    <3>2. CASE ranToday
      <4>1. Passed(m) BY <1>1, <3>2 DEF Passed
      <4> QED BY <1>2, <1>3, <1>4, <1>6, <1>7, <2>2, <2>4, <3>1, <4>1 DEF DiscussionTerm
    <3>3. CASE ~ranToday
      BY <1>2, <1>3, <1>4, <1>6, <1>7, <2>2, <2>4, <3>1, <3>3 DEF DiscussionTerm
    <3> QED BY <3>2, <3>3
  <2> QED BY <1>4, <2>3, <2>4
<1>8. ASSUME status[m] = "referendum"
      PROVE  \/ openDays'[m] >= ReferendumDays
             \/ openDays'[m] + untilStop'[m] >= ReferendumDays - Delays'
  <2>1. /\ openDays'[m] = Raise(openDays[m], ReferendumDays)
        /\ untilStop'[m] = Lower(untilStop[m], -1)
    BY <1>8 DEF Tick
  <2>2. untilStop'[m] \in Int /\ untilStop'[m] >= untilStop[m] - 1 BY <1>4, <2>1 DEF Lower
  <2>3. CASE openDays[m] < ReferendumDays
    <3>1. openDays'[m] = openDays[m] + 1 BY <2>1, <2>3 DEF Raise
    <3> QED BY <1>2, <1>3, <1>4, <1>6, <1>8, <2>2, <2>3, <3>1 DEF VotingTerm
  <2>4. CASE ~(openDays[m] < ReferendumDays)
    <3>1. openDays'[m] = ReferendumDays BY <2>1, <2>4 DEF Raise
    <3> QED BY <1>2, <3>1
  <2> QED BY <2>3, <2>4
<1> QED BY <1>1, <1>5, <1>7, <1>8 DEF DiscussionTerm, VotingTerm

(* The other steps: a motion rests, or its stage has no term.              *)
LEMMA TermStep ==
    ASSUME TypeOK, TypeOK', Alive, Alone, Term, [Next]_vars
    PROVE  Term'
<1> DEFINE Rest == /\ \A m \in Motions : Resting(m)
                   /\ phase' # "idle" => ranToday'
<1>0. ASSUME Rest, Delays' \in Int PROVE Term' BY <1>0, RestingTerm DEF Term
<1>1. status \in [Motions -> Statuses] BY DEF TypeOK
<1>2. ASSUME missed' = missed, failures' = failures
      PROVE  Delays' \in Int /\ Delays' = Delays /\ Delays' >= Delays
  BY <1>2, DelaysGrow DEF Delays
<1>3. ASSUME UNCHANGED <<runVars, missed, failures>>
      PROVE  /\ Delays' \in Int /\ Delays' >= Delays
             /\ \A m \in Motions : Passed(m)' => Passed(m)
             /\ phase' # "idle" => ranToday'
  BY <1>2, <1>3 DEF runVars, Passed, Term
<1>4. ASSUME NEW p \in People, NEW y \in Motions, Propose(p, y) PROVE Term'
  <2>1. /\ UNCHANGED <<runVars, missed, failures, untilStart, untilStop, openDays>>
        /\ status' = [status EXCEPT ![y] = "proposition"]
    BY <1>4 DEF Propose, counters
  <2> QED BY <1>0, <1>1, <1>3, <2>1 DEF Resting
<1>5. ASSUME NEW p \in People, NEW y \in Motions, Sign(p, y) \/ Withdraw(p, y) PROVE Term'
  <2>1. UNCHANGED <<runVars, missed, failures, untilStart, untilStop, openDays, status>>
    BY <1>5 DEF Sign, Withdraw, counters, dateVars
  <2> QED BY <1>0, <1>3, <2>1 DEF Resting
<1>6. ASSUME NEW p \in People, NEW y \in Motions, Save(Request("edit", p, y)) PROVE Term'
  <2>1. /\ UNCHANGED <<runVars, missed, failures, openDays>>
        /\ status' = [status EXCEPT ![y] = "proposition"]
        /\ untilStart' = [untilStart EXCEPT ![y] = 0]
        /\ untilStop' = [untilStop EXCEPT ![y] = 0]
    BY <1>6 DEF Save, Request
  <2>2. ASSUME NEW m \in Motions PROVE Resting(m)
    <3>1. CASE m = y
      <4>1. status'[m] = "proposition" BY <1>1, <2>1, <3>1
      <4> QED BY <1>3, <2>1, <4>1 DEF Resting
    <3>2. CASE m # y
      <4>1. status'[m] = status[m] /\ untilStart'[m] = untilStart[m] /\ untilStop'[m] = untilStop[m]
        BY <2>1, <3>2 DEF TypeOK
      <4> QED BY <1>3, <2>1, <4>1 DEF Resting
    <3> QED BY <3>1, <3>2
  <2> QED BY <1>0, <1>3, <2>1, <2>2
<1>7. ASSUME NEW y \in Motions, Erase(y) PROVE Term'
  <2>1. /\ UNCHANGED <<runVars, missed, failures, untilStart, untilStop, openDays>>
        /\ status' = [status EXCEPT ![y] = Deleted]
    BY <1>7 DEF Erase, dateVars, counters
  <2> QED BY <1>0, <1>1, <1>3, <2>1 DEF Resting, Deleted
<1>8. CASE (\E p \in People : Leave(p)) \/ UNCHANGED vars
  <2>1. UNCHANGED <<runVars, missed, failures, untilStart, untilStop, openDays, status>>
    BY <1>8 DEF Leave, vars, counters, dateVars
  <2> QED BY <1>0, <1>3, <2>1 DEF Resting
<1>9. CASE StartRun
  <2>1. /\ UNCHANGED <<missed, failures, untilStart, untilStop, openDays, status>>
        /\ phase' = "process" /\ ranToday' = TRUE
        /\ todo' = {m \in exists : status[m] \in Running}
    BY <1>9 DEF StartRun, counters, dateVars
  <2>2. ASSUME NEW m \in Motions, status[m] \in {"discussion", "referendum"} PROVE ~Passed(m)'
    <3>1. m \in todo' BY <2>1, <2>2 DEF Alive, Running, NotYet, Deleted
    <3> QED BY <2>1, <3>1 DEF Passed
  <2> QED BY <1>0, <1>2, <2>1, <2>2 DEF Resting
<1>10. CASE StartEffects \/ EndRun
  <2>1. /\ UNCHANGED <<missed, failures, untilStart, untilStop, openDays, status, ranToday, todo>>
        /\ phase # "idle"
        /\ \/ phase = "process" /\ todo = {} /\ phase' = "effects"
           \/ phase = "effects" /\ phase' = "idle"
    BY <1>10 DEF StartEffects, EndRun, counters, dateVars
  <2>2. \A m \in Motions : Passed(m)' => Passed(m) BY <2>1 DEF Passed
  <2> QED BY <1>0, <1>2, <2>1, <2>2 DEF Resting, Term
<1>11. CASE ApplyEffect
  <2>1. /\ UNCHANGED <<missed, untilStart, untilStop, openDays, status, ranToday, todo, phase>>
        /\ failures' = failures \/ failures' = failures + 1
    BY <1>11 DEF ApplyEffect, dateVars
  <2>2. Delays' \in Int /\ Delays' >= Delays BY <2>1, DelaysGrow
  <2> QED BY <1>0, <2>1, <2>2 DEF Resting, Term, Passed
<1>12. CASE BreakOff
  <2>1. /\ UNCHANGED <<missed, untilStart, untilStop, openDays, status>>
        /\ phase' = "idle" /\ failures' = failures + 1
    BY <1>12 DEF BreakOff, dateVars
  <2>2. Delays \in Int /\ Delays' = Delays + 1 BY <2>1, DelaysGrow
  <2>3. ASSUME NEW m \in Motions PROVE DiscussionTerm(m)' /\ VotingTerm(m)'
    <3>1. /\ untilStart[m] \in Int /\ untilStop[m] \in Int /\ openDays[m] \in Int
          /\ ReferendumDays \in Int
      BY ParametersAssumption DEF TypeOK
    <3>2. DiscussionTerm(m) /\ VotingTerm(m) BY DEF Term
    <3> QED BY <2>1, <2>2, <3>1, <3>2 DEF DiscussionTerm, VotingTerm
  <2> QED BY <2>1, <2>3 DEF Term
<1>13. ASSUME NEW y \in Motions, Process(y) PROVE Term' BY <1>13, ProcessTerm
<1>14. CASE Tick BY <1>14, TickTerm
<1> HIDE DEF Rest
<1> QED BY <1>4, <1>5, <1>6, <1>7, <1>8, <1>9, <1>10, <1>11, <1>12, <1>13, <1>14, AloneSteps

(* An approval closes a vote that has lasted its days, if the command has  *)
(* missed or failed at most once.                                          *)
LEMMA FullTermStep ==
    ASSUME MaxMissed + MaxFailures <= 1, TypeOK, Alive, Alone, Term, [Next]_vars,
           NEW m \in Motions, status[m] # "approved", status'[m] = "approved"
    PROVE  openDays[m] >= ReferendumDays
<1>1. status \in [Motions -> Statuses] BY DEF TypeOK
<1>2. ASSUME NEW p \in People, NEW y \in Motions, Propose(p, y) PROVE FALSE
  BY <1>1, <1>2 DEF Propose
<1>3. ASSUME NEW p \in People, NEW y \in Motions, Save(Request("edit", p, y)) PROVE FALSE
  <2>1. status' = [status EXCEPT ![y] = "proposition"] BY <1>3 DEF Save, Request
  <2> QED BY <1>1, <2>1
<1>4. ASSUME NEW y \in Motions, Erase(y) PROVE FALSE
  <2>1. status' = [status EXCEPT ![y] = Deleted] BY <1>4 DEF Erase
  <2> QED BY <1>1, <2>1 DEF Deleted
<1>5. PICK y \in Motions : Process(y)
  BY <1>2, <1>3, <1>4, AloneSteps
     DEF Sign, Withdraw, Leave, Tick, StartRun, StartEffects, ApplyEffect, EndRun, BreakOff, vars
<1>6. Closing(m)
  <2>1. CASE Discuss(y) BY <1>1, <2>1 DEF Discuss
  <2>2. CASE GiveUp(y) \/ Reject(y) BY <1>1, <2>2 DEF GiveUp, Reject
  <2>3. CASE OpenVoting(y) BY <1>1, <2>3 DEF OpenVoting
  <2>4. CASE Approve(y) BY <1>1, <2>4 DEF Approve
  <2>5. CASE Restart(y) \/ Wait(y) \/ Fail(y) BY <2>5 DEF Restart, Wait, Fail
  <2> QED BY <1>5, <2>1, <2>2, <2>3, <2>4, <2>5 DEF Process
<1>7. status[m] = "referendum" /\ untilStop[m] < 0 /\ untilStop[m] >= -1 /\ untilStop[m] \in Int
  BY <1>6 DEF Closing, TypeOK
<1>8. Delays \in Int /\ Delays <= 1 BY ParametersAssumption DEF Delays, TypeOK
<1>9. openDays[m] \in Int /\ ReferendumDays \in Int BY ParametersAssumption DEF TypeOK
<1> QED BY <1>7, <1>8, <1>9 DEF Term, VotingTerm

LEMMA EarnedInit == Init => Recent /\ Term
<1> SUFFICES ASSUME Init PROVE Recent /\ Term
  OBVIOUS
<1>1. /\ \A m \in Motions : sinceEdit[m] = 0 /\ settled[m] = 0
      /\ \A m \in Motions : status[m] = NotYet
      /\ phase = "idle"
  BY DEF Init
<1>2. Recent BY <1>1 DEF Recent
<1>3. Term
  <2>1. \A m \in Motions : status[m] # "discussion" /\ status[m] # "referendum"
    BY <1>1 DEF NotYet
  <2> QED BY <1>1, <2>1 DEF Term, DiscussionTerm, VotingTerm
<1> QED BY <1>2, <1>3

(* With one request at a time, and at most one day or one motion that the  *)
(* command misses, every stage is reached in its turn, with the signatures *)
(* and after the time it needs.                                            *)
THEOREM StagesAreAlwaysEarned ==
    (Overlapping = {}) /\ (MaxMissed + MaxFailures <= 1) /\ Spec => StagesAreEarned
<1> SUFFICES ASSUME Overlapping = {}, MaxMissed + MaxFailures <= 1
             PROVE  Spec => StagesAreEarned
  OBVIOUS
<1>1. TypeOK /\ Orderly /\ [Next]_vars => Orderly' BY OrderlyStep, TypeOKIsTyped
<1>2. ASSUME TypeOK, TypeOK', Orderly, Alive, Recent, Term, [Next]_vars
      PROVE  Alive' /\ Recent' /\ Term'
  <2>1. Alone BY <1>2 DEF Alone, Orderly
  <2> QED BY <1>2, <2>1, AliveStep, RecentStep, TermStep
<1> DEFINE Steps ==
      \A m \in exists :
         \/ status'[m] = status[m]
         \/ status[m] = "proposition" /\ status'[m] \in {"discussion", Deleted}
         \/ status[m] = "proposition" /\ status'[m] = "rejected" /\ Overdue(m)
         \/ status[m] = "discussion" /\ status'[m] = "referendum"
         \/ status[m] = "referendum" /\ status'[m] \in Ended
         \/ /\ status[m] \in Running \cup {"approved"} /\ status'[m] = "rejected"
            /\ \E x \in exists : /\ m \in abolishes[x]
                                 /\ status[x] = "referendum" /\ status'[x] = "approved"
   Discussed ==
      \A m \in exists :
         status[m] = "proposition" /\ status'[m] = "discussion" =>
             /\ author[m] \in signed[m]
             /\ Cardinality(signed[m]) >= required
             /\ settled[m] >= Freeze - 1
   Voted ==
      \A m \in exists :
         status[m] # "approved" /\ status'[m] = "approved" => openDays[m] >= ReferendumDays
<1>3. ASSUME TypeOK, Orderly, Alive, Recent, Term, [Next]_vars PROVE Steps /\ Discussed /\ Voted
  <2>1. Alone /\ exists \subseteq Motions BY <1>3 DEF Alone, Orderly, TypeOK
  <2>2. Steps BY <1>3, <2>1, StagesStep
  <2>3. Discussed BY <1>3, <2>1, DiscussionStep
  <2>4. Voted BY <1>3, <2>1, FullTermStep
  <2> QED BY <2>2, <2>3, <2>4
<1>4. Init => Alive BY LifeInit DEF Life
<1>5. Spec => [](TypeOK /\ Orderly /\ Alive /\ Recent /\ Term)
  BY <1>1, <1>2, <1>4, TypesHold, OrderlyInit, EarnedInit, PTL DEF Spec
<1> HIDE DEF Steps, Discussed, Voted
<1>6. Spec => [][Steps]_vars /\ [][Discussed]_vars /\ [][Voted]_vars
  BY <1>3, <1>5, PTL DEF Spec
<1> QED BY <1>6 DEF Steps, Discussed, Voted, StagesAreEarned, Stages, DiscussionIsEarned, FullTerm

-----------------------------------------------------------------------------
(* The effects of the parameter motions, whatever requests overlap         *)

(* The vote on m is over, and no request will write m.                     *)
Closed(m) == status[m] \in Ended /\ \A r \in open : r.motion # m

LEMMA ClosedStays ==
    ASSUME TypeOK, [Next]_vars, NEW m \in Motions, Closed(m)
    PROVE  Closed(m)'
<1>1. /\ status \in [Motions -> Statuses] /\ status[m] \in {"rejected", "approved"}
      /\ \A r \in open : r.motion # m
  BY DEF TypeOK, Closed, Ended
<1>2. ASSUME NEW p \in People, NEW y \in Motions,
             Propose(p, y) \/ Sign(p, y) \/ Withdraw(p, y)
      PROVE  Closed(m)'
  BY <1>1, <1>2 DEF Propose, Sign, Withdraw, Closed, Ended, NotYet
<1>3. ASSUME NEW p \in People, NEW y \in Motions, Open(p, y) PROVE Closed(m)'
  <2>1. PICK kind \in Overlapping : open' = open \cup {Request(kind, p, y)}
    BY <1>3 DEF Open
  <2>2. status' = status /\ y # m BY <1>1, <1>3 DEF Open, MayChange
  <2>3. Request(kind, p, y).motion = y BY DEF Request
  <2> QED BY <1>1, <2>1, <2>2, <2>3 DEF Closed, Ended
<1>4. ASSUME NEW p \in People, NEW y \in Motions, Edit(p, y) \/ Delete(p, y) PROVE Closed(m)'
  <2>1. y # m /\ open' = open BY <1>1, <1>4 DEF Edit, Delete, MayChange
  <2>2. CASE Edit(p, y)
    <3>1. status' = [status EXCEPT ![y] = "proposition"] BY <2>2 DEF Edit, Save, Request
    <3> QED BY <1>1, <2>1, <3>1 DEF Closed, Ended
  <2>3. CASE Delete(p, y)
    <3>1. status' = [status EXCEPT ![y] = Deleted] BY <2>3 DEF Delete, Erase
    <3> QED BY <1>1, <2>1, <3>1 DEF Closed, Ended
  <2> QED BY <1>4, <2>2, <2>3
<1>5. ASSUME NEW r \in open, Proceed(r) PROVE Closed(m)'
  <2>1. r.motion # m /\ open' \subseteq open BY <1>1, <1>5 DEF Proceed
  <2>2. CASE Save(r)
    <3>1. status' = [status EXCEPT ![r.motion] = "proposition"] BY <2>2 DEF Save
    <3> QED BY <1>1, <2>1, <3>1 DEF Closed, Ended
  <2>3. CASE Erase(r.motion)
    <3>1. status' = [status EXCEPT ![r.motion] = Deleted] BY <2>3 DEF Erase
    <3> QED BY <1>1, <2>1, <3>1 DEF Closed, Ended
  <2>4. CASE UNCHANGED status BY <1>1, <2>1, <2>4 DEF Closed, Ended
  <2> QED BY <1>5, <2>2, <2>3, <2>4 DEF Proceed
<1>6. ASSUME NEW y \in Motions, Process(y) PROVE Closed(m)'
  <2>1. open' = open BY <1>6 DEF Process
  <2>2. status'[m] \in {"rejected", "approved"}
    <3>1. CASE Discuss(y) BY <1>1, <3>1 DEF Discuss, MayDiscuss
    <3>2. CASE GiveUp(y) \/ Reject(y) BY <1>1, <3>2 DEF GiveUp, Reject
    <3>3. CASE OpenVoting(y) BY <1>1, <3>3 DEF OpenVoting, MayVote
    <3>4. CASE Approve(y) BY <1>1, <3>4 DEF Approve
    <3>5. CASE Restart(y) \/ Wait(y) \/ Fail(y) BY <1>1, <3>5 DEF Restart, Wait, Fail
    <3> QED BY <1>6, <3>1, <3>2, <3>3, <3>4, <3>5 DEF Process
  <2> QED BY <1>1, <2>1, <2>2 DEF Closed, Ended
<1>7. CASE Tick BY <1>1, <1>7 DEF Tick, Closed, Ended
<1>8. CASE Idle BY <1>1, <1>8 DEF Idle, Closed, Ended
<1> QED BY <1>2, <1>3, <1>4, <1>5, <1>6, <1>7, <1>8, StepCases, TypeOKIsTyped

(* The effect of m waits; none waits twice.                                *)
Waits(m) == \E i \in DOMAIN pending : pending[i] = m
Distinct(s) == \A i, j \in DOMAIN s : s[i] = s[j] => i = j

LEMMA WithoutHead ==
    ASSUME NEW s \in Seq(Motions), s # <<>>, Distinct(s)
    PROVE  Without(s, Head(s)) = Tail(s)
<1> DEFINE k == CHOOSE k \in DOMAIN s : s[k] = Head(s)
<1>1. Len(s) \in Nat /\ DOMAIN s = 1..Len(s) /\ Len(s) # 0 /\ Head(s) = s[1]
  BY LenProperties, EmptySeq, HeadTailProperties
<1>2. k = 1
  <2>1. 1 \in DOMAIN s /\ s[1] = Head(s) BY <1>1
  <2>2. k \in DOMAIN s /\ s[k] = Head(s) BY <2>1
  <2> QED BY <2>1, <2>2 DEF Distinct
<1>3. Without(s, Head(s)) = [j \in 1..(Len(s) - 1) |-> s[IF j < k THEN j ELSE j + 1]]
  BY DEF Without
<1> HIDE DEF k
<1>4. \A j \in 1..(Len(s) - 1) : (IF j < k THEN j ELSE j + 1) = j + 1 BY <1>1, <1>2
<1>5. Without(s, Head(s)) = [j \in 1..(Len(s) - 1) |-> s[j + 1]] BY <1>3, <1>4
<1> QED BY <1>5, <1>1

(* The effects that wait are those of closed votes, each once; a run that  *)
(* is not broken off applies them all; and the parameter the group has     *)
(* decided on is the last that waits, or the one in force.                 *)
Lawful ==
    /\ \A m \in Motions : Waits(m) => Closed(m)
    /\ Distinct(pending)
    /\ phase = "idle" => pending = <<>>
    /\ phase = "effects" => effects = pending
    /\ latest = IF pending = <<>> THEN required ELSE Proposes[pending[Len(pending)]]

LEMMA LawfulInit == Init => Lawful
BY DEF Init, Lawful, Distinct, Waits

(* The approval of m puts its effect behind the others.                    *)
LEMMA ApproveLawful ==
    ASSUME TypeOK, RequestsAreEarly, Lawful, NEW m \in Motions, Process(m), Approve(m),
           \A x \in Motions : Waits(x) => Closed(x)', Proposes[m] # 0
    PROVE  Lawful'
<1>1. /\ pending \in Seq(Motions) /\ Len(pending) \in Nat
      /\ DOMAIN pending = 1..Len(pending)
  BY LenProperties DEF TypeOK
<1>2. /\ pending' = Append(pending, m) /\ latest' = Proposes[m]
      /\ phase' = "process" /\ open' = open /\ status'[m] = "approved"
      /\ status[m] = "referendum"
  BY DEF Approve, Process, Closing
<1>3. \A r \in open : r.motion # m BY <1>2 DEF RequestsAreEarly, Early
<1>4. Closed(m)' BY <1>2, <1>3 DEF Closed, Ended
<1>5. \A i \in DOMAIN pending : pending[i] # m BY <1>2 DEF Lawful, Closed, Ended, Waits
<1>6. /\ Len(pending') = Len(pending) + 1 /\ DOMAIN pending' = 1..(Len(pending) + 1)
      /\ pending'[Len(pending) + 1] = m
      /\ \A i \in 1..Len(pending) : pending'[i] = pending[i]
  BY <1>1, <1>2
<1>7. ASSUME NEW x \in Motions, Waits(x)' PROVE Closed(x)'
  <2>1. PICK i \in DOMAIN pending' : pending'[i] = x BY <1>7 DEF Waits
  <2>2. CASE i \in 1..Len(pending)
    <3>1. Waits(x) BY <1>1, <1>6, <2>1, <2>2 DEF Waits
    <3> QED BY <1>7, <3>1
  <2>3. CASE i = Len(pending) + 1
    <3>1. x = m BY <1>6, <2>1, <2>3
    <3> QED BY <1>4, <3>1
  <2> QED BY <1>1, <1>6, <2>1, <2>2, <2>3
<1>8. Distinct(pending)'
  <2> SUFFICES ASSUME NEW i \in DOMAIN pending', NEW j \in DOMAIN pending',
                      pending'[i] = pending'[j]
               PROVE  i = j
    BY DEF Distinct
  <2>1. i \in 1..Len(pending) \/ i = Len(pending) + 1 BY <1>1, <1>6
  <2>2. j \in 1..Len(pending) \/ j = Len(pending) + 1 BY <1>1, <1>6
  <2>3. CASE i \in 1..Len(pending) /\ j \in 1..Len(pending)
    BY <1>1, <1>6, <2>3 DEF Lawful, Distinct
  <2>4. CASE i \in 1..Len(pending) /\ j = Len(pending) + 1 BY <1>1, <1>5, <1>6, <2>4
  <2>5. CASE i = Len(pending) + 1 /\ j \in 1..Len(pending) BY <1>1, <1>5, <1>6, <2>5
  <2> QED BY <2>1, <2>2, <2>3, <2>4, <2>5
<1>9. pending' # <<>> BY <1>1, <1>2
<1> QED BY <1>2, <1>6, <1>7, <1>8, <1>9 DEF Lawful

LEMMA LawfulStep ==
    ASSUME MaxFailures = 0, TypeOK, RequestsAreEarly, Lawful, [Next]_vars
    PROVE  Lawful'
<1>1. /\ pending \in Seq(Motions) /\ Len(pending) \in Nat
      /\ DOMAIN pending = 1..Len(pending) /\ ~(failures < MaxFailures)
  BY LenProperties DEF TypeOK
<1>2. \A m \in Motions : Waits(m) => Closed(m)' BY ClosedStays DEF Lawful
<1>3. ASSUME UNCHANGED <<pending, required, latest>>,
             phase' = "idle" => pending = <<>>, phase' = "effects" => effects' = pending
      PROVE  Lawful'
  BY <1>2, <1>3 DEF Lawful, Distinct, Waits
<1>4. CASE Untouched BY <1>3, <1>4 DEF Untouched, effectVars, Lawful
<1>5. CASE StartRun BY <1>3, <1>5 DEF StartRun, effectVars
<1>6. CASE StartEffects BY <1>3, <1>6 DEF StartEffects, Rows, effectVars
<1>7. CASE EndRun BY <1>3, <1>7 DEF EndRun, effectVars, Lawful
<1>8. CASE BreakOff BY <1>1, <1>8 DEF BreakOff
<1>9. ASSUME NEW y \in Motions, Process(y) PROVE Lawful'
  <2>1. phase' = "process" /\ required' = required BY <1>9 DEF Process
  <2>2. CASE UNCHANGED <<pending, latest>> BY <1>3, <2>1, <2>2
  <2>3. CASE Approve(y) /\ Proposes[y] # 0 BY <1>2, <1>9, <2>3, ApproveLawful
  <2> QED BY <1>9, <2>2, <2>3
          DEF Process, Discuss, GiveUp, OpenVoting, Approve, Reject, Restart, Wait, Fail
<1>10. CASE ApplyEffect
  <2>1. /\ phase = "effects" /\ phase' = "effects" /\ latest' = latest
        /\ effects # <<>> /\ effects' = Tail(effects) /\ effects = pending
        /\ required' = Proposes[Head(pending)] /\ pending' = Without(pending, Head(pending))
    BY <1>1, <1>10 DEF ApplyEffect, Lawful
  <2>2. pending' = Tail(pending) BY <1>1, <2>1, WithoutHead DEF Lawful
  <2>3. /\ Len(pending') = Len(pending) - 1 /\ DOMAIN pending' = 1..(Len(pending) - 1)
        /\ \A i \in 1..(Len(pending) - 1) : pending'[i] = pending[i + 1]
        /\ Len(pending) # 0
    <3>1. /\ Tail(pending) \in Seq(Motions) /\ Len(Tail(pending)) = Len(pending) - 1
          /\ \A i \in 1..Len(Tail(pending)) : Tail(pending)[i] = pending[i + 1]
      BY <1>1, <2>1, HeadTailProperties
    <3>2. DOMAIN Tail(pending) = 1..Len(Tail(pending)) BY <3>1, LenProperties
    <3>3. Len(pending) # 0 BY <1>1, <2>1, EmptySeq
    <3> QED BY <2>2, <3>1, <3>2, <3>3
  <2>4. ASSUME NEW x \in Motions, Waits(x)' PROVE Closed(x)'
    <3>1. PICK i \in DOMAIN pending' : pending'[i] = x BY <2>4 DEF Waits
    <3>2. i + 1 \in DOMAIN pending /\ pending[i + 1] = x BY <1>1, <2>3, <3>1
    <3>3. Waits(x) BY <3>2 DEF Waits
    <3> QED BY <1>2, <3>3
  <2>5. Distinct(pending)'
    <3> SUFFICES ASSUME NEW i \in DOMAIN pending', NEW j \in DOMAIN pending',
                        pending'[i] = pending'[j]
                 PROVE  i = j
      BY DEF Distinct
    <3>1. i + 1 \in DOMAIN pending /\ j + 1 \in DOMAIN pending BY <1>1, <2>3
    <3>2. pending[i + 1] = pending[j + 1] BY <2>3
    <3>3. i + 1 = j + 1 BY <3>1, <3>2 DEF Lawful, Distinct
    <3> QED BY <1>1, <2>3, <3>3
  <2>6. latest' = IF pending' = <<>> THEN required' ELSE Proposes[pending'[Len(pending')]]
    <3>1. latest = Proposes[pending[Len(pending)]] BY <2>1 DEF Lawful
    <3>2. CASE Len(pending) = 1
      <4>1. pending' = <<>> BY <2>3, <3>2, <1>1, <2>2
      <4> QED BY <2>1, <2>3, <3>1, <3>2, <4>1
    <3>3. CASE Len(pending) # 1
      <4>1. /\ Len(pending) - 1 \in 1..(Len(pending) - 1)
            /\ (Len(pending) - 1) + 1 = Len(pending) /\ Len(pending') # 0
        BY <1>1, <2>3, <3>3
      <4>2. pending' # <<>> /\ pending'[Len(pending')] = pending[Len(pending)] BY <2>3, <4>1
      <4> QED BY <2>1, <3>1, <4>2
    <3> QED BY <3>2, <3>3
  <2> QED BY <2>1, <2>4, <2>5, <2>6, <2>2 DEF Lawful
<1> QED BY <1>4, <1>5, <1>6, <1>7, <1>8, <1>9, <1>10, EffectSteps

(* Whatever requests overlap: as long as no step of the command fails, the *)
(* parameter is what the group decided last once every effect is applied.  *)
THEOREM LatestDecisionAlwaysRules == (MaxFailures = 0) /\ Spec => []LatestDecisionRules
<1> SUFFICES ASSUME MaxFailures = 0 PROVE Spec => []LatestDecisionRules
  OBVIOUS
<1>1. Init => RequestsAreEarly BY DEF Init, RequestsAreEarly
<1>2. TypeOK /\ RequestsAreEarly /\ [Next]_vars => RequestsAreEarly'
  BY EarlyStep, TypeOKIsTyped
<1>3. TypeOK /\ RequestsAreEarly /\ Lawful /\ [Next]_vars => Lawful' BY LawfulStep
<1>4. Lawful => LatestDecisionRules BY DEF Lawful, LatestDecisionRules
<1> QED BY <1>1, <1>2, <1>3, <1>4, TypesHold, LawfulInit, PTL DEF Spec

=============================================================================
