------------------------ MODULE NotificationQueueProofs ------------------------
(***************************************************************************)
(* Theorems about NotificationQueue, for any messages, openings, crashes,  *)
(* failures and slow workers.  For any workers: every variable has its     *)
(* type; whoever changes the state of a member and room has its lock; the  *)
(* member is disturbed once an hour at most while nothing fails; and what  *)
(* the opening of the room has dropped is not pushed.  For a single        *)
(* worker, which the deployment runs: no message is lost, and what is      *)
(* pushed when the hour is over is the newest message.                     *)
(***************************************************************************)
EXTENDS NotificationQueue, FiniteSetTheorems, SequenceTheorems, TLAPS

-----------------------------------------------------------------------------
(* The inductive invariant                                                 *)

Inside == InDue \cup InDispatch

(* The labels of the workers are a function over them.                     *)
Labelled == pc \in [Workers -> InDue \cup InDispatch \cup Outside]

(* A worker that is going to push has seen that the hour is over, and it   *)
(* stays over while the worker has the lock.                               *)
Cleared == {"drop", "announce", "unlist", "deliver"}

HourIsOver == \A w \in Workers : pc[w] \in Cleared => ~cooldown

(* Something was pushed: the hour has begun, or a worker that still has    *)
(* the lock is about to begin it.                                          *)
Cooling == {"markDue", "coolDue", "cool"}

HourHasBegun ==
    crashes = 0 /\ failures = 0 /\ quiet =>
        cooldown \/ \E w \in Workers : pc[w] \in Cooling

LockInvariant ==
    /\ Labelled
    /\ MutualExclusion
    /\ HourIsOver
    /\ HourHasBegun
    /\ crashes \in Nat /\ failures \in Nat
    /\ cooldown \in BOOLEAN /\ quiet \in BOOLEAN

(* It holds initially: no worker has begun.                                *)
LEMMA InitHolds == Init => LockInvariant
<1> SUFFICES ASSUME Init PROVE LockInvariant
  OBVIOUS
<1>1. Labelled
  BY DEF Init, Labelled, Outside
<1>2. \A w \in Workers : pc[w] = "start"
  BY DEF Init
<1>3. MutualExclusion
  BY <1>2 DEF Init, MutualExclusion, InDue, InDispatch
<1>4. HourIsOver /\ HourHasBegun
  BY <1>2 DEF Init, HourIsOver, HourHasBegun, Cleared
<1> QED
  BY <1>1, <1>3, <1>4 DEF Init, LockInvariant

-----------------------------------------------------------------------------
(* Every step keeps the invariant                                          *)

(* A worker that goes from one label to another is the only one that moves.*)
LEMMA GotoMoves ==
    ASSUME NEW w \in Workers, NEW from, NEW to, Labelled,
           to \in Inside \cup Outside, Goto(w, from, to)
    PROVE  /\ Labelled' /\ pc[w] = from /\ pc'[w] = to
           /\ \A v \in Workers \ {w} : pc'[v] = pc[v]
BY DEF Goto, Labelled, Inside

(* What a worker without the lock does keeps the invariant.                *)
LEMMA StepOutside ==
    ASSUME LockInvariant, NEW w \in Workers, NEW from \in Outside, NEW to \in Outside,
           Goto(w, from, to), UNCHANGED <<lock, rpc, cooldown, quiet, crashes, failures>>
    PROVE  LockInvariant'
<1>1. /\ Labelled' /\ pc[w] = from /\ pc'[w] = to
      /\ \A v \in Workers \ {w} : pc'[v] = pc[v]
  BY GotoMoves DEF LockInvariant
<1>2. from \notin Inside \cup Cleared \cup Cooling /\ to \notin Inside \cup Cleared \cup Cooling
  BY DEF Outside, Inside, InDue, InDispatch, Cleared, Cooling
<1>3. MutualExclusion'
  BY <1>1, <1>2 DEF LockInvariant, MutualExclusion, Inside
<1>4. HourIsOver'
  BY <1>1, <1>2 DEF LockInvariant, HourIsOver
<1>5. HourHasBegun'
  BY <1>1, <1>2 DEF LockInvariant, HourHasBegun
<1> QED
  BY <1>1, <1>3, <1>4, <1>5 DEF LockInvariant

(* A worker that takes the lock keeps it: nobody was inside.               *)
LEMMA StepInto ==
    ASSUME LockInvariant, NEW w \in Workers, NEW from \in Outside,
           NEW to \in Inside \ Cleared, Goto(w, from, to), Acquire(w),
           UNCHANGED <<rpc, cooldown, quiet, crashes, failures>>
    PROVE  LockInvariant'
<1>1. /\ Labelled' /\ pc[w] = from /\ pc'[w] = to
      /\ \A v \in Workers \ {w} : pc'[v] = pc[v]
  BY GotoMoves DEF LockInvariant
<1>2. from \notin Inside \cup Cooling
  BY DEF Outside, Inside, InDue, InDispatch, Cooling
<1>3. lock = Free /\ lock' = w /\ Free # Reader /\ \A v \in Workers : v # Free
  BY BoundsAssumption DEF Acquire, Free, Reader
<1>4. MutualExclusion'
  BY <1>1, <1>3 DEF LockInvariant, MutualExclusion, Inside
<1>5. HourIsOver'
  BY <1>1 DEF LockInvariant, HourIsOver
<1>6. HourHasBegun'
  BY <1>1, <1>2 DEF LockInvariant, HourHasBegun
<1> QED
  BY <1>1, <1>4, <1>5, <1>6 DEF LockInvariant

(* What a worker does with the lock keeps the invariant when it keeps its  *)
(* own part of it, for there is nobody else inside.                        *)
LEMMA StepInside ==
    ASSUME LockInvariant, NEW w \in Workers, NEW from \in Inside,
           NEW to \in Inside \cup Outside, Goto(w, from, to),
           to \in Inside => lock' = lock, UNCHANGED rpc,
           crashes' \in Nat, failures' \in Nat, cooldown' \in BOOLEAN, quiet' \in BOOLEAN,
           to \in Cleared => ~cooldown',
           crashes' = 0 /\ failures' = 0 /\ quiet' => cooldown' \/ to \in Cooling
    PROVE  LockInvariant'
<1>1. /\ Labelled' /\ pc[w] = from /\ pc'[w] = to
      /\ \A v \in Workers \ {w} : pc'[v] = pc[v]
  BY GotoMoves DEF LockInvariant
<1>2. lock = w /\ w # Reader /\ \A v \in Workers \ {w} : pc[v] \notin Inside
  BY <1>1, BoundsAssumption DEF LockInvariant, MutualExclusion, Inside
<1>3. Cleared \subseteq Inside
  BY DEF Cleared, Inside, InDue, InDispatch
<1>4. MutualExclusion'
  BY <1>1, <1>2 DEF LockInvariant, MutualExclusion, Inside
<1>5. HourIsOver'
  BY <1>1, <1>2, <1>3 DEF LockInvariant, HourIsOver
<1>6. HourHasBegun'
  BY <1>1 DEF HourHasBegun
<1> QED
  BY <1>1, <1>4, <1>5, <1>6 DEF LockInvariant

(* On which side of the lock each label is.                                *)
LEMMA LabelsInside ==
    /\ {"consider", "drop", "announce", "markDue", "coolDue", "clearDue", "unlistDue",
        "releaseDue", "decide", "list", "unlist", "deliver", "cool", "releaseDeferred",
        "releaseDelivered", "releaseFailed"} \subseteq Inside
    /\ {"start", "due", "fetch", "next", "lock", "markDeferred", "markDelivered", "ack"}
         \subseteq Outside
BY DEF Inside, InDue, InDispatch, Outside

(* A push leaves the worker that succeeded about to begin the hour; one    *)
(* that raises is counted.                                                 *)
LEMMA DeliverKeeps ==
    ASSUME LockInvariant, NEW w \in Workers, NEW from \in Inside \cap Cleared,
           NEW success \in Inside \cap Cooling, NEW failure \in Inside,
           failure \notin Cleared, success \notin Cleared, Deliver(w, from, success, failure),
           UNCHANGED <<lock, rpc, cooldown, crashes>>
    PROVE  LockInvariant'
<1>1. /\ quiet \in BOOLEAN /\ cooldown \in BOOLEAN /\ cooldown' = cooldown
      /\ crashes' \in Nat /\ failures \in Nat
  BY DEF LockInvariant
<1>2. pc[w] = from
  BY DEF Deliver, Goto
<1>3. ~cooldown'
  BY <1>1, <1>2 DEF LockInvariant, HourIsOver
<1>4. CASE Goto(w, from, success) /\ Reach /\ UNCHANGED failures
  <2>1. failures' \in Nat /\ quiet' \in BOOLEAN
    BY <1>1, <1>4 DEF Reach
  <2> QED
    BY <1>1, <1>3, <1>4, <2>1, StepInside
<1>5. CASE /\ Goto(w, from, failure) /\ failures' = failures + 1
           /\ Reach \/ UNCHANGED <<unheard, quiet>>
  <2>1. failures' \in Nat /\ failures' # 0
    BY <1>1, <1>5
  <2>2. quiet' \in BOOLEAN
    BY <1>1, <1>5 DEF Reach
  <2> QED
    BY <1>1, <1>3, <1>5, <2>1, <2>2, StepInside
<1> QED
  BY <1>4, <1>5 DEF Deliver

(* What follows with the lock from the invariant, for a worker that is     *)
(* inside and neither cleared to push nor about to begin the hour.         *)
LEMMA InsideFacts ==
    ASSUME LockInvariant, NEW w \in Workers, pc[w] \in Inside
    PROVE  /\ quiet \in BOOLEAN /\ cooldown \in BOOLEAN /\ crashes \in Nat /\ failures \in Nat
           /\ pc[w] \in Cleared => ~cooldown
           /\ pc[w] \notin Cooling /\ crashes = 0 /\ failures = 0 /\ quiet => cooldown
<1>1. Cooling \subseteq Inside
  BY DEF Cooling, Inside, InDue, InDispatch
<1>2. \A v \in Workers \ {w} : pc[v] \notin Inside
  BY DEF LockInvariant, MutualExclusion, Inside
<1> QED
  BY <1>1, <1>2 DEF LockInvariant, HourIsOver, HourHasBegun

(* The steps of deliver_due_chat_notifications keep the invariant.         *)
LEMMA DueSteps ==
    ASSUME LockInvariant, NEW w \in Workers, Due(w)
    PROVE  LockInvariant'
<1> USE DEF history, counters, pairVars
<1>1. CASE LookForDue(w)
  BY <1>1, StepOutside, LabelsInside DEF LookForDue
<1>2. CASE LockDue(w)
  <2>1. CASE Goto(w, "due", "consider") /\ Acquire(w)
    BY <1>2, <2>1, StepInto, LabelsInside DEF LockDue, Cleared
  <2>2. CASE Goto(w, "due", "fetch") /\ lock # Free /\ UNCHANGED lock
    BY <1>2, <2>2, StepOutside, LabelsInside DEF LockDue
  <2> QED
    BY <1>2, <2>1, <2>2 DEF LockDue
<1>3. CASE Consider(w)
  <2>1. pc[w] = "consider" /\ UNCHANGED <<lock, rpc, cooldown, quiet, crashes, failures>>
    BY <1>3 DEF Consider, Goto
  <2>2. PICK to \in {"unlistDue", "releaseDue", "drop", "announce"} :
            Goto(w, "consider", to) /\ (to \in Cleared => ~cooldown)
    BY <1>3 DEF Consider, Cleared
  <2>3. to \in Inside /\ "consider" \in Inside \ Cooling
    BY <2>2, LabelsInside DEF Cooling
  <2> QED
    BY InsideFacts, <2>1, <2>2, <2>3, StepInside
<1>4. CASE DropDuplicate(w)
  <2>1. ~cooldown /\ pc[w] \in Inside \ Cooling
    BY <1>4, InsideFacts, LabelsInside DEF DropDuplicate, Goto, Cleared, Cooling
  <2> QED
    BY <1>4, <2>1, InsideFacts, StepInside, LabelsInside DEF DropDuplicate, Cleared
<1>5. CASE Announce(w)
  BY <1>5, DeliverKeeps, LabelsInside DEF Announce, Cleared, Cooling
<1>6. CASE MarkDue(w)
  <2>1. pc[w] \in Inside
    BY <1>6, LabelsInside DEF MarkDue, Goto
  <2> QED
    BY <1>6, <2>1, InsideFacts, StepInside, LabelsInside DEF MarkDue, Cleared, Cooling
<1>7. CASE CoolDue(w)
  <2>1. pc[w] \in Inside
    BY <1>7, LabelsInside DEF CoolDue, Goto
  <2> QED
    BY <1>7, <2>1, InsideFacts, StepInside, LabelsInside DEF CoolDue, Cleared
<1>8. CASE ClearDue(w)
  <2>1. pc[w] \in Inside \ Cooling
    BY <1>8, LabelsInside DEF ClearDue, Goto, Cooling
  <2> QED
    BY <1>8, <2>1, InsideFacts, StepInside, LabelsInside DEF ClearDue, Cleared
<1>9. CASE UnlistDue(w)
  <2>1. pc[w] \in Inside \ Cooling
    BY <1>9, LabelsInside DEF UnlistDue, Goto, Cooling
  <2> QED
    BY <1>9, <2>1, InsideFacts, StepInside, LabelsInside DEF UnlistDue, Cleared
<1>10. CASE ReleaseDue(w)
  <2>1. pc[w] \in Inside \ Cooling /\ "fetch" \notin Inside \cup Cleared
    BY <1>10, LabelsInside
       DEF ReleaseDue, Goto, Cooling, Cleared, Inside, InDue, InDispatch
  <2> QED
    BY <1>10, <2>1, InsideFacts, StepInside, LabelsInside DEF ReleaseDue
<1> QED
  BY <1>1, <1>2, <1>3, <1>4, <1>5, <1>6, <1>7, <1>8, <1>9, <1>10 DEF Due

(* The steps of _process_job and of the command's loop keep the invariant. *)
LEMMA ProcessSteps ==
    ASSUME LockInvariant, NEW w \in Workers, Process(w)
    PROVE  LockInvariant'
<1> USE DEF history, counters, pairVars
<1>1. CASE Fetch(w)
  BY <1>1, StepOutside, LabelsInside DEF Fetch
<1>2. CASE EndBatch(w)
  BY <1>2, StepOutside, LabelsInside DEF EndBatch
<1>3. CASE Check(w)
  BY <1>3, StepOutside, LabelsInside DEF Check
<1>4. CASE Lock(w)
  <2>1. CASE Goto(w, "lock", "decide") /\ Acquire(w)
    BY <1>4, <2>1, StepInto, LabelsInside DEF Lock, Cleared
  <2>2. CASE Goto(w, "lock", "next") /\ UNCHANGED lock
    BY <1>4, <2>2, StepOutside, LabelsInside DEF Lock
  <2> QED
    BY <1>4, <2>1, <2>2 DEF Lock
<1>5. CASE Decide(w)
  <2>1. pc[w] \in Inside \ Cooling
    BY <1>5, LabelsInside DEF Decide, Goto, Cooling
  <2>2. CASE Goto(w, "decide", "list")
    BY <1>5, <2>1, <2>2, InsideFacts, StepInside, LabelsInside DEF Decide, Cleared
  <2>3. CASE Goto(w, "decide", "unlist") /\ ~cooldown
    BY <1>5, <2>1, <2>3, InsideFacts, StepInside, LabelsInside DEF Decide
  <2> QED
    BY <1>5, <2>2, <2>3 DEF Decide
<1>6. CASE List(w)
  <2>1. pc[w] \in Inside \ Cooling
    BY <1>6, LabelsInside DEF List, Goto, Cooling
  <2> QED
    BY <1>6, <2>1, InsideFacts, StepInside, LabelsInside DEF List, Cleared
<1>7. CASE Unlist(w)
  <2>1. pc[w] \in Inside \ Cooling /\ pc[w] \in Cleared
    BY <1>7, LabelsInside DEF Unlist, Goto, Cooling, Cleared
  <2> QED
    BY <1>7, <2>1, InsideFacts, StepInside, LabelsInside DEF Unlist
<1>8. CASE DeliverNow(w)
  BY <1>8, DeliverKeeps, LabelsInside DEF DeliverNow, Cleared, Cooling
<1>9. CASE Cool(w)
  <2>1. pc[w] \in Inside
    BY <1>9, LabelsInside DEF Cool, Goto
  <2> QED
    BY <1>9, <2>1, InsideFacts, StepInside, LabelsInside DEF Cool, Cleared
<1>10. CASE Release(w)
  <2>1. PICK from \in {"releaseDeferred", "releaseDelivered", "releaseFailed"} :
             \E to \in {"markDeferred", "markDelivered", "next"} : Goto(w, from, to)
    BY <1>10 DEF Release
  <2>2. PICK to \in {"markDeferred", "markDelivered", "next"} : Goto(w, from, to)
    BY <2>1
  <2>3. pc[w] \in Inside \ Cooling /\ from \in Inside
    BY <2>2, LabelsInside DEF Goto, Cooling
  <2>4. to \in Outside /\ to \notin Inside \cup Cleared
    BY LabelsInside DEF Cleared, Inside, InDue, InDispatch
  <2> QED
    BY <1>10, <2>2, <2>3, <2>4, InsideFacts, StepInside DEF Release
<1>11. CASE Mark(w)
  BY <1>11, StepOutside, LabelsInside DEF Mark
<1>12. CASE Acknowledge(w)
  BY <1>12, StepOutside, LabelsInside DEF Acknowledge
<1> QED
  BY <1>1, <1>2, <1>3, <1>4, <1>5, <1>6, <1>7, <1>8, <1>9, <1>10, <1>11, <1>12 DEF Process

(* What the web process does, time, and processes that stop keep it.       *)
LEMMA OtherSteps ==
    ASSUME LockInvariant,
           Web \/ Time \/ CrashWeb \/ \E w \in Workers : Crash(w)
    PROVE  LockInvariant'
<1> USE DEF history, counters, pairVars, workVars
<1>0. Free # Reader /\ Orphan # Free /\ Orphan # Reader
      /\ \A v \in Workers : v \notin {Free, Reader, Orphan}
  BY BoundsAssumption DEF Free, Reader, Orphan
<1>1. CASE \E j \in Jobs : Enqueue(j)
  BY <1>1 DEF Enqueue, LockInvariant, Labelled, MutualExclusion, HourIsOver, HourHasBegun
<1>2. CASE OpenRoom
  <2>1. MutualExclusion'
    BY <1>0, <1>2 DEF OpenRoom, Acquire, LockInvariant, MutualExclusion
  <2> QED
    BY <1>2, <2>1 DEF OpenRoom, LockInvariant, Labelled, HourIsOver, HourHasBegun
<1>3. CASE ClearState
  BY <1>3 DEF ClearState, LockInvariant, Labelled, MutualExclusion, HourIsOver, HourHasBegun
<1>4. CASE UnlistCleared
  BY <1>4 DEF UnlistCleared, LockInvariant, Labelled, MutualExclusion, HourIsOver, HourHasBegun
<1>5. CASE LeaveLock
  <2>1. MutualExclusion'
    BY <1>0, <1>5 DEF LeaveLock, LockInvariant, MutualExclusion
  <2> QED
    BY <1>5, <2>1 DEF LeaveLock, LockInvariant, Labelled, HourIsOver, HourHasBegun
<1>6. CASE HourPasses
  BY <1>6 DEF HourPasses, LockInvariant, Labelled, MutualExclusion, HourIsOver, HourHasBegun
<1>7. CASE RetryFallsDue
  BY <1>7 DEF RetryFallsDue, LockInvariant, Labelled, MutualExclusion, HourIsOver, HourHasBegun
<1>8. CASE LockExpires
  <2>1. MutualExclusion'
    BY <1>0, <1>8 DEF LockExpires, LockInvariant, MutualExclusion
  <2> QED
    BY <1>8, <2>1 DEF LockExpires, LockInvariant, Labelled, HourIsOver, HourHasBegun
<1>9. CASE \E j \in Jobs : FallIdle(j)
  BY <1>9 DEF FallIdle, LockInvariant, Labelled, MutualExclusion, HourIsOver, HourHasBegun
<1>10. CASE CrashWeb
  <2>1. MutualExclusion'
    BY <1>0, <1>10 DEF CrashWeb, Abandon, LockInvariant, MutualExclusion
  <2>2. crashes' \in Nat /\ crashes' # 0
    BY <1>10 DEF CrashWeb, LockInvariant
  <2> QED
    BY <1>10, <2>1, <2>2 DEF CrashWeb, LockInvariant, Labelled, HourIsOver, HourHasBegun
<1>11. ASSUME NEW w \in Workers, Crash(w)
       PROVE  LockInvariant'
  <2>1. /\ Labelled' /\ pc'[w] = "start" /\ \A v \in Workers \ {w} : pc'[v] = pc[v]
    BY <1>11 DEF Crash, LockInvariant, Labelled, Outside
  <2>2. "start" \notin Inside \cup Cleared
    BY DEF Inside, InDue, InDispatch, Cleared
  <2>3. MutualExclusion'
    BY <1>0, <1>11, <2>1, <2>2 DEF Crash, Abandon, LockInvariant, MutualExclusion, Inside
  <2>4. HourIsOver'
    BY <1>11, <2>1, <2>2 DEF Crash, LockInvariant, HourIsOver
  <2>5. crashes' \in Nat /\ crashes' # 0
    BY <1>11 DEF Crash, LockInvariant
  <2> QED
    BY <1>11, <2>1, <2>3, <2>4, <2>5 DEF Crash, LockInvariant, HourHasBegun
<1> QED
  BY <1>1, <1>2, <1>3, <1>4, <1>5, <1>6, <1>7, <1>8, <1>9, <1>10, <1>11 DEF Web, Time

(* Every step keeps the invariant.                                         *)
LEMMA StepKeeps == LockInvariant /\ [Next]_vars => LockInvariant'
<1> SUFFICES ASSUME LockInvariant, [Next]_vars PROVE LockInvariant'
  OBVIOUS
<1>1. CASE Next
  BY <1>1, DueSteps, ProcessSteps, OtherSteps DEF Next, Work
<1>2. CASE UNCHANGED vars
  BY <1>2 DEF vars, history, counters, pairVars, workVars, LockInvariant, Labelled,
              MutualExclusion, HourIsOver, HourHasBegun
<1> QED
  BY <1>1, <1>2

-----------------------------------------------------------------------------
(* The theorems                                                            *)

(* The invariant holds in every reachable state.                           *)
THEOREM AlwaysLockInvariant == Spec => []LockInvariant
BY InitHolds, StepKeeps, PTL DEF Spec

(* Whoever changes the cooldown, the pending job or the delayed set of a   *)
(* member and room has its lock, workers and the web process alike,        *)
(* whichever of them has stopped.                                          *)
THEOREM MutualExclusionHolds == Spec => []MutualExclusion
BY AlwaysLockInvariant, PTL DEF LockInvariant

(* Faults are counted and never forgotten.                                 *)
LEMMA FaultsGrow ==
    ASSUME LockInvariant, [Next]_vars
    PROVE  (crashes' = 0 => crashes = 0) /\ (failures' = 0 => failures = 0)
<1> USE DEF LockInvariant, counters
<1>1. CASE Web \/ Time
  BY <1>1 DEF Web, OpenRoom, ClearState, UnlistCleared, LeaveLock, Enqueue, Time, HourPasses,
              RetryFallsDue, LockExpires, FallIdle
<1>2. CASE CrashWeb \/ \E w \in Workers : Crash(w)
  BY <1>2 DEF CrashWeb, Crash
<1>3. CASE \E w \in Workers : Due(w)
  BY <1>3 DEF Due, LookForDue, LockDue, Consider, DropDuplicate, Announce, Deliver, MarkDue,
              CoolDue, ClearDue, UnlistDue, ReleaseDue
<1>4. CASE \E w \in Workers : Process(w)
  BY <1>4 DEF Process, Fetch, EndBatch, Check, Lock, Decide, List, Unlist, DeliverNow, Deliver,
              Cool, Release, Mark, Acknowledge
<1>5. CASE UNCHANGED vars
  BY <1>5 DEF vars
<1> QED
  BY <1>1, <1>2, <1>3, <1>4, <1>5 DEF Next, Work

(* A worker that pushes has the lock and saw that the hour was over; so no *)
(* other one is about to begin the hour, and nothing was pushed within it. *)
LEMMA PushIsAllowed ==
    ASSUME LockInvariant, [Next]_vars, crashes' = 0, failures' = 0, quiet,
           NEW w \in Workers
    PROVE  ~Pushing(w)
<1> SUFFICES ASSUME Pushing(w) PROVE FALSE
  OBVIOUS
<1>1. crashes = 0 /\ failures = 0
  BY FaultsGrow
<1>2. pc[w] \in Inside /\ pc[w] \in Cleared /\ pc[w] \notin Cooling
  BY LabelsInside DEF Pushing, Cleared, Cooling
<1> QED
  BY <1>1, <1>2, InsideFacts

(* The member is disturbed once an hour at most, unless the room has been  *)
(* opened in between, as long as no process stops and no delivery raises.  *)
THEOREM OncePerHourHolds == Spec => OncePerHour
<1>1. LockInvariant /\ [Next]_vars =>
          [crashes' = 0 /\ failures' = 0 /\ quiet => \A w \in Workers : ~Pushing(w)]_vars
  BY PushIsAllowed
<1> QED
  BY <1>1, AlwaysLockInvariant, PTL DEF Spec, OncePerHour

-----------------------------------------------------------------------------
(* The batch of a worker                                                   *)

Ascending(s) == \A i, k \in DOMAIN s : i < k => s[i] < s[k]

(* Sets of jobs are finite.                                                *)
LEMMA JobsAreFinite ==
    \A T \in SUBSET Jobs : IsFiniteSet(T) /\ Cardinality(T) \in Nat /\ T \subseteq Nat
<1>1. IsFiniteSet(1..MaxJobs)
  BY FS_Interval, BoundsAssumption
<1>2. ASSUME NEW T \in SUBSET Jobs PROVE IsFiniteSet(T) /\ Cardinality(T) \in Nat
  BY <1>1, <1>2, FS_Subset, FS_CardinalityType DEF Jobs
<1>3. Jobs \subseteq Nat
  BY BoundsAssumption DEF Jobs
<1> QED
  BY <1>2, <1>3

(* Among the sets of jobs that cannot be put in order there is no smallest *)
(* one, so there is none.                                                  *)
LEMMA OrderExists ==
    ASSUME NEW S \in SUBSET Jobs
    PROVE  \E s \in [1..Cardinality(S) -> S] : Ascending(s)
<1> DEFINE Orderly(T) == \E s \in [1..Cardinality(T) -> T] : Ascending(s)
           Bad == {n \in Nat : \E T \in SUBSET Jobs : Cardinality(T) = n /\ ~Orderly(T)}
<1>1. \A T \in SUBSET Jobs : IsFiniteSet(T) /\ Cardinality(T) \in Nat /\ T \subseteq Nat
  BY JobsAreFinite
<1>2. SUFFICES ASSUME Bad # {} PROVE FALSE
  BY <1>1
<1> HIDE DEF Orderly
<1>3. PICK n \in Bad : \A m \in Bad : ~(<<m, n>> \in OpToRel(<, Nat))
  BY <1>2, NatLessThanWellFounded, WFMin, Bad \subseteq Nat
<1>4. \A m \in Bad : ~(m < n)
  BY <1>3 DEF OpToRel
<1>5. PICK T \in SUBSET Jobs : Cardinality(T) = n /\ ~Orderly(T)
  BY <1>3
<1>6. T # {}
  <2> SUFFICES ASSUME T = {} PROVE Orderly({})
    BY <1>5
  <2>1. Cardinality({}) = 0
    BY FS_EmptySet
  <2>2. [i \in 1..0 |-> i] \in [1..0 -> {}] /\ Ascending([i \in 1..0 |-> i])
    BY DEF Ascending
  <2> QED
    BY <2>1, <2>2 DEF Orderly
<1>7. PICK x \in T : \A y \in T : ~(<<y, x>> \in OpToRel(<, Nat))
  <2>1. T \subseteq Nat BY <1>1
  <2> QED BY <1>6, <2>1, NatLessThanWellFounded, WFMin
<1>8. x \in Nat /\ \A y \in T : y \in Nat /\ x <= y
  <2>1. x \in Nat /\ \A y \in T : y \in Nat
    BY <1>1, <1>7
  <2>2. \A y \in T : ~(y < x)
    BY <1>7, <2>1 DEF OpToRel
  <2> QED
    BY <2>1, <2>2
<1> DEFINE U == T \ {x}
<1>9. U \in SUBSET Jobs /\ Cardinality(U) = n - 1 /\ n \in Nat /\ n # 0
  BY <1>1, <1>5, <1>6, <1>7, FS_RemoveElement, FS_EmptySet
<1>10. Orderly(U)
  BY <1>4, <1>9
<1>11. PICK t \in [1..(n - 1) -> U] : Ascending(t)
  BY <1>9, <1>10 DEF Orderly
<1> DEFINE s == [i \in 1..n |-> IF i = 1 THEN x ELSE t[i - 1]]
<1>12. \A i \in 1..n : i = 1 \/ (i - 1 \in 1..(n - 1) /\ s[i] = t[i - 1] /\ t[i - 1] \in U)
  BY <1>9, <1>11
<1>13. s \in [1..n -> T]
  BY <1>7, <1>12
<1>14. Ascending(s)
  <2> SUFFICES ASSUME NEW i \in 1..n, NEW k \in 1..n, i < k PROVE s[i] < s[k]
    BY DEF Ascending
  <2>1. k # 1 /\ k - 1 \in 1..(n - 1) /\ s[k] = t[k - 1] /\ t[k - 1] \in U
    BY <1>9, <1>12
  <2>2. CASE i = 1
    <3>1. s[i] = x /\ t[k - 1] \in Nat /\ t[k - 1] # x /\ x <= t[k - 1]
      BY <1>8, <1>9, <2>1, <2>2
    <3> QED
      BY <1>8, <2>1, <3>1
  <2>3. CASE i # 1
    <3>1. i - 1 \in 1..(n - 1) /\ s[i] = t[i - 1] /\ i - 1 < k - 1
      BY <1>9, <1>12, <2>3
    <3> QED
      BY <1>11, <2>1, <3>1 DEF Ascending
  <2> QED
    BY <2>2, <2>3
<1> QED
  BY <1>5, <1>13, <1>14 DEF Orderly

(* InOrder lists the jobs of a set, each once, in ascending order.         *)
LEMMA InOrderFacts ==
    ASSUME NEW S \in SUBSET Jobs
    PROVE  /\ InOrder(S) \in Seq(S) /\ InOrder(S) \in Seq(Jobs)
           /\ Ascending(InOrder(S))
           /\ \A j \in S : \E i \in DOMAIN InOrder(S) : InOrder(S)[i] = j
           /\ \A i \in DOMAIN InOrder(S) : InOrder(S)[i] \in S
<1> DEFINE n == Cardinality(S)
           s == InOrder(S)
<1>1. IsFiniteSet(S) /\ n \in Nat
  BY JobsAreFinite
<1>2. s \in [1..n -> S] /\ Ascending(s)
  BY OrderExists DEF InOrder, Ascending
<1>3. s \in Seq(S) /\ s \in Seq(Jobs)
  BY <1>1, <1>2
<1>4. s \in Injection(1..n, S)
  <2>1. \A j \in S : j \in Int
    BY DEF Jobs
  <2>2. \A i, k \in 1..n : s[i] = s[k] => i = k
    BY <1>1, <1>2, <2>1 DEF Ascending
  <2> QED
    BY <1>2, <2>2 DEF Injection, IsInjective
<1>5. Cardinality(1..n) = n /\ IsFiniteSet(1..n)
  BY <1>1, FS_Interval
<1>6. s \in Surjection(1..n, S)
  BY <1>1, <1>4, <1>5, FS_Injection
<1> QED
  BY <1>2, <1>3, <1>6 DEF Surjection

(* What is left of a batch without its first job.                          *)
LEMMA TailFacts ==
    ASSUME NEW b \in Seq(Jobs), b # <<>>
    PROVE  /\ Tail(b) \in Seq(Jobs) /\ Head(b) \in Jobs /\ 1 \in DOMAIN b /\ b[1] = Head(b)
           /\ \A i \in DOMAIN Tail(b) : i + 1 \in DOMAIN b /\ Tail(b)[i] = b[i + 1]
           /\ \A i \in DOMAIN b : i = 1 \/ (i - 1 \in DOMAIN Tail(b) /\ Tail(b)[i - 1] = b[i])
<1>1. Len(b) \in Nat /\ Len(b) # 0 /\ DOMAIN b = 1..Len(b)
  OBVIOUS
<1>2. /\ Head(b) \in Jobs /\ Tail(b) \in Seq(Jobs) /\ Len(Tail(b)) = Len(b) - 1
      /\ \A i \in 1..Len(Tail(b)) : Tail(b)[i] = b[i + 1]
  BY HeadTailProperties
<1>3. Head(b) = b[1] /\ DOMAIN Tail(b) = 1..(Len(b) - 1)
  BY <1>1, <1>2
<1> QED
  BY <1>1, <1>2, <1>3

(* The jobs of two lists in a row.                                         *)
LEMMA ConcatFacts ==
    ASSUME NEW r \in Seq(Jobs), NEW s \in Seq(Jobs)
    PROVE  /\ r \o s \in Seq(Jobs)
           /\ \A i \in DOMAIN (r \o s) :
                 \/ i \in DOMAIN r /\ (r \o s)[i] = r[i]
                 \/ i - Len(r) \in DOMAIN s /\ (r \o s)[i] = s[i - Len(r)] /\ i > Len(r)
           /\ \A i \in DOMAIN r : i \in DOMAIN (r \o s) /\ (r \o s)[i] = r[i]
           /\ \A i \in DOMAIN s : i + Len(r) \in DOMAIN (r \o s) /\ (r \o s)[i + Len(r)] = s[i]
<1>1. Len(r) \in Nat /\ Len(s) \in Nat /\ DOMAIN r = 1..Len(r) /\ DOMAIN s = 1..Len(s)
  OBVIOUS
<1>2. /\ r \o s \in Seq(Jobs) /\ DOMAIN (r \o s) = 1..(Len(r) + Len(s))
      /\ \A i \in 1..(Len(r) + Len(s)) :
            (r \o s)[i] = IF i <= Len(r) THEN r[i] ELSE s[i - Len(r)]
  BY ConcatProperties, <1>1
<1> QED
  BY <1>1, <1>2

-----------------------------------------------------------------------------
(* Types                                                                   *)

(* Where a worker has a job in hand, and where it pushes a deferred one.   *)
Handling == {"lock", "decide", "list", "unlist", "deliver", "cool", "releaseDeferred",
             "releaseDelivered", "releaseFailed", "markDeferred", "markDelivered", "ack"}
Repeating == {"announce", "markDue"}

Engaged ==
    /\ \A w \in Workers : pc[w] \in Handling => batch[w] # <<>>
    /\ \A w \in Workers : pc[w] \in Repeating => job[w] \in Jobs

Sound == TypeOK /\ Engaged

(* It holds initially: no worker has anything.                             *)
LEMMA SoundInit == Init => Sound
<1> SUFFICES ASSUME Init PROVE Sound
  OBVIOUS
<1>1. \A w \in Workers : pc[w] = "start" /\ "start" \notin Handling \cup Repeating
  BY DEF Init, Handling, Repeating
<1>2. pc \in [Workers -> InDue \cup InDispatch \cup Outside]
  BY DEF Init, Outside
<1>3. 0 \in 0..MaxOpenings /\ 0 \in 0..MaxCrashes /\ 0 \in 0..MaxFailures /\ 0 \in 0..MaxSlow
  BY BoundsAssumption
<1>4. batch \in [Workers -> Seq(Jobs)] /\ job \in [Workers -> Jobs \cup {None}]
  BY DEF Init
<1> QED
  BY <1>1, <1>2, <1>3, <1>4 DEF Init, Sound, TypeOK, Engaged

(* A worker that goes from one label to another stays engaged when it has  *)
(* what it needs there.                                                    *)
LEMMA GotoEngages ==
    ASSUME Sound, NEW w \in Workers, NEW from, NEW to \in Inside \cup Outside, Goto(w, from, to),
           \A v \in Workers \ {w} : batch'[v] = batch[v] /\ job'[v] = job[v],
           to \in Handling => batch'[w] # <<>>,
           to \in Repeating => job'[w] \in Jobs
    PROVE  Engaged' /\ pc' \in [Workers -> InDue \cup InDispatch \cup Outside]
<1>1. /\ Labelled' /\ pc[w] = from /\ pc'[w] = to
      /\ \A v \in Workers \ {w} : pc'[v] = pc[v]
  BY GotoMoves DEF Sound, TypeOK, Labelled
<1> QED
  BY <1>1 DEF Sound, Engaged, Labelled

(* The steps of deliver_due_chat_notifications keep the types.             *)
LEMMA SoundDue ==
    ASSUME Sound, NEW w \in Workers, Due(w)
    PROVE  Sound'
<1> USE DEF history, counters, pairVars, streamVars
<1>t. TypeOK BY DEF Sound
<1>e. (pc[w] \in Handling => batch[w] # <<>>) /\ (pc[w] \in Repeating => job[w] \in Jobs)
  BY DEF Sound, Engaged
<1>1. CASE LookForDue(w)
  <2>1. Engaged' /\ pc' \in [Workers -> InDue \cup InDispatch \cup Outside]
    BY <1>1, GotoEngages, LabelsInside DEF LookForDue, Handling, Repeating
  <2> QED
    BY <1>t, <1>1, <2>1 DEF LookForDue, Sound, TypeOK
<1>2. CASE LockDue(w)
  <2>1. Engaged' /\ pc' \in [Workers -> InDue \cup InDispatch \cup Outside]
    BY <1>2, GotoEngages, LabelsInside DEF LockDue, Handling, Repeating
  <2>2. lock' \in Workers \cup {Free, Reader, Orphan}
    BY <1>t, <1>2 DEF LockDue, Acquire, TypeOK
  <2> QED
    BY <1>t, <1>2, <2>1, <2>2 DEF LockDue, Sound, TypeOK
<1>3. CASE Consider(w)
  <2>1. job' \in [Workers -> Jobs \cup {None}] /\ job'[w] = pendingJob
        /\ \A v \in Workers \ {w} : job'[v] = job[v]
    BY <1>t, <1>3 DEF Consider, TypeOK
  <2>2. PICK to \in {"unlistDue", "releaseDue", "drop", "announce"} :
            Goto(w, "consider", to) /\ (to = "announce" => pendingJob \in Jobs)
    BY <1>3 DEF Consider
  <2>3. Engaged' /\ pc' \in [Workers -> InDue \cup InDispatch \cup Outside]
    BY <1>3, <2>1, <2>2, GotoEngages, LabelsInside DEF Consider, Handling, Repeating
  <2>4. delayed' \in {"none", "waiting", "due"}
    BY <1>t, <1>3 DEF Consider, TypeOK
  <2> QED
    BY <1>t, <1>3, <2>1, <2>3, <2>4 DEF Consider, Sound, TypeOK
<1>4. CASE DropDuplicate(w)
  <2>1. Engaged' /\ pc' \in [Workers -> InDue \cup InDispatch \cup Outside]
    BY <1>4, GotoEngages, LabelsInside DEF DropDuplicate, Handling, Repeating
  <2> QED
    BY <1>t, <1>4, <2>1 DEF DropDuplicate, Sound, TypeOK
<1>5. CASE Announce(w)
  <2>1. PICK to \in {"markDue", "releaseDue"} : Goto(w, "announce", to)
    BY <1>5 DEF Announce, Deliver
  <2>2. job[w] \in Jobs
    BY <1>e, <2>1 DEF Goto, Repeating
  <2>3. Engaged' /\ pc' \in [Workers -> InDue \cup InDispatch \cup Outside]
    BY <1>5, <2>1, <2>2, GotoEngages, LabelsInside DEF Announce, Handling, Repeating
  <2>4. failures' \in 0..MaxFailures
    BY <1>t, <1>5, BoundsAssumption DEF Announce, Deliver, TypeOK
  <2>5. unheard' \subseteq Jobs /\ quiet' \in BOOLEAN
    BY <1>t, <1>5 DEF Announce, Deliver, Reach, TypeOK
  <2>6. delayed' \in {"none", "waiting", "due"}
    BY <1>t, <1>5 DEF Announce, TypeOK
  <2> QED
    BY <1>t, <1>5, <2>3, <2>4, <2>5, <2>6 DEF Announce, Sound, TypeOK
<1>6. CASE MarkDue(w)
  <2>1. job[w] \in Jobs
    BY <1>e, <1>6 DEF MarkDue, Goto, Repeating
  <2>2. Engaged' /\ pc' \in [Workers -> InDue \cup InDispatch \cup Outside]
    BY <1>6, GotoEngages, LabelsInside DEF MarkDue, Handling, Repeating
  <2> QED
    BY <1>t, <1>6, <2>1, <2>2 DEF MarkDue, Sound, TypeOK
<1>7. CASE CoolDue(w)
  <2>1. Engaged' /\ pc' \in [Workers -> InDue \cup InDispatch \cup Outside]
    BY <1>7, GotoEngages, LabelsInside DEF CoolDue, Handling, Repeating
  <2> QED
    BY <1>t, <1>7, <2>1 DEF CoolDue, Sound, TypeOK
<1>8. CASE ClearDue(w)
  <2>1. Engaged' /\ pc' \in [Workers -> InDue \cup InDispatch \cup Outside]
    BY <1>8, GotoEngages, LabelsInside DEF ClearDue, Handling, Repeating
  <2> QED
    BY <1>t, <1>8, <2>1 DEF ClearDue, Sound, TypeOK
<1>9. CASE UnlistDue(w)
  <2>1. Engaged' /\ pc' \in [Workers -> InDue \cup InDispatch \cup Outside]
    BY <1>9, GotoEngages, LabelsInside DEF UnlistDue, Handling, Repeating
  <2> QED
    BY <1>t, <1>9, <2>1 DEF UnlistDue, Sound, TypeOK
<1>10. CASE ReleaseDue(w)
  <2>1. job' \in [Workers -> Jobs \cup {None}] /\ \A v \in Workers \ {w} : job'[v] = job[v]
    BY <1>t, <1>10 DEF ReleaseDue, TypeOK
  <2>2. Engaged' /\ pc' \in [Workers -> InDue \cup InDispatch \cup Outside]
    BY <1>10, <2>1, GotoEngages, LabelsInside DEF ReleaseDue, Handling, Repeating
  <2> QED
    BY <1>t, <1>10, <2>1, <2>2 DEF ReleaseDue, ReleasedBy, Sound, TypeOK
<1> QED
  BY <1>1, <1>2, <1>3, <1>4, <1>5, <1>6, <1>7, <1>8, <1>9, <1>10 DEF Due

(* What is left of the batch of a worker that is done with its first job.  *)
LEMMA RestFacts ==
    ASSUME TypeOK, NEW w \in Workers, batch[w] # <<>>, Rest(w)
    PROVE  /\ batch' \in [Workers -> Seq(Jobs)] /\ Current(w) \in Jobs
           /\ batch'[w] = Tail(batch[w])
           /\ \A v \in Workers \ {w} : batch'[v] = batch[v]
<1>1. batch \in [Workers -> Seq(Jobs)]
  BY DEF TypeOK
<1>2. batch' = [batch EXCEPT ![w] = Tail(batch[w])]
  BY DEF Rest
<1> QED
  BY <1>1, <1>2, TailFacts DEF Current

(* What a worker fetches: the idle jobs and the new ones.                  *)
NewJobs == {j \in Jobs : stream[j] = "new"}

LEMMA FetchFacts ==
    ASSUME TypeOK, NEW w \in Workers, Fetch(w)
    PROVE  /\ batch' \in [Workers -> Seq(Jobs)]
           /\ batch'[w] = InOrder(idle) \o InOrder(NewJobs)
           /\ \A v \in Workers \ {w} : batch'[v] = batch[v]
           /\ idle \in SUBSET Jobs /\ NewJobs \in SUBSET Jobs
           /\ \A i \in DOMAIN batch'[w] : batch'[w][i] \in idle \cup NewJobs
           /\ \A j \in Jobs : stream'[j] = IF stream[j] = "new" THEN "pending" ELSE stream[j]
           /\ stream' \in [Jobs -> {"unsent", "new", "pending", "acked"}]
<1> DEFINE b == InOrder(idle) \o InOrder(NewJobs)
<1>1. idle \in SUBSET Jobs /\ NewJobs \in SUBSET Jobs
  BY DEF TypeOK, NewJobs
<1>2. InOrder(idle) \in Seq(Jobs) /\ InOrder(NewJobs) \in Seq(Jobs)
  BY <1>1, InOrderFacts
<1>3. b \in Seq(Jobs)
  BY <1>2, ConcatFacts
<1>4. \A i \in DOMAIN b : b[i] \in idle \cup NewJobs
  <2>1. /\ \A i \in DOMAIN InOrder(idle) : InOrder(idle)[i] \in idle
        /\ \A i \in DOMAIN InOrder(NewJobs) : InOrder(NewJobs)[i] \in NewJobs
    BY <1>1, InOrderFacts
  <2> QED
    BY <1>2, <2>1, ConcatFacts
<1>5. batch' = [batch EXCEPT ![w] = b] /\ batch \in [Workers -> Seq(Jobs)]
  BY DEF Fetch, NewJobs, TypeOK
<1>6. stream' = [j \in Jobs |-> IF stream[j] = "new" THEN "pending" ELSE stream[j]]
  BY DEF Fetch
<1> HIDE DEF b
<1>7. batch'[w] = b
  BY <1>5
<1>8. stream' \in [Jobs -> {"unsent", "new", "pending", "acked"}]
  BY <1>6 DEF TypeOK
<1> QED
  BY <1>1, <1>3, <1>4, <1>5, <1>6, <1>7, <1>8 DEF b

(* The steps of _process_job and of the command's loop keep the types.     *)
LEMMA SoundProcess ==
    ASSUME Sound, NEW w \in Workers, Process(w)
    PROVE  Sound'
<1> USE DEF history, counters, pairVars, streamVars
<1>t. TypeOK BY DEF Sound
<1>e. pc[w] \in Handling => batch[w] # <<>> /\ Current(w) \in Jobs
  <2>1. batch[w] \in Seq(Jobs) BY <1>t DEF TypeOK
  <2> QED BY <2>1, TailFacts DEF Sound, Engaged, Current
<1>1. CASE Fetch(w)
  <2>1. Engaged' /\ pc' \in [Workers -> InDue \cup InDispatch \cup Outside]
    BY <1>t, <1>1, FetchFacts, GotoEngages, LabelsInside DEF Fetch, Handling, Repeating
  <2>2. idle' \subseteq {j \in Jobs : stream'[j] = "pending"}
    BY <1>1 DEF Fetch
  <2>3. batch' \in [Workers -> Seq(Jobs)] /\ stream' \in [Jobs -> {"unsent", "new", "pending", "acked"}]
    BY <1>t, <1>1, FetchFacts
  <2> QED
    BY <1>t, <1>1, <2>1, <2>2, <2>3 DEF Fetch, Sound, TypeOK
<1>2. CASE EndBatch(w)
  <2>1. Engaged' /\ pc' \in [Workers -> InDue \cup InDispatch \cup Outside]
    BY <1>2, GotoEngages, LabelsInside DEF EndBatch, Handling, Repeating
  <2> QED
    BY <1>t, <1>2, <2>1 DEF EndBatch, Sound, TypeOK
<1>3. CASE Check(w)
  <2>1. Engaged' /\ pc' \in [Workers -> InDue \cup InDispatch \cup Outside]
    BY <1>3, GotoEngages, LabelsInside DEF Check, Handling, Repeating
  <2> QED
    BY <1>t, <1>3, <2>1 DEF Check, Sound, TypeOK
<1>4. CASE Lock(w)
  <2>1. pc[w] = "lock" /\ batch[w] # <<>>
    BY <1>e, <1>4 DEF Lock, Goto, Handling
  <2>2. CASE Goto(w, "lock", "decide") /\ Acquire(w) /\ UNCHANGED batch
    <3>1. Engaged' /\ pc' \in [Workers -> InDue \cup InDispatch \cup Outside]
      BY <1>4, <2>1, <2>2, GotoEngages, LabelsInside DEF Lock, Handling, Repeating
    <3> QED
      BY <1>t, <1>4, <2>2, <3>1 DEF Lock, Acquire, Sound, TypeOK
  <2>3. CASE Goto(w, "lock", "next") /\ UNCHANGED lock /\ Rest(w)
    <3>1. batch' \in [Workers -> Seq(Jobs)] /\ \A v \in Workers \ {w} : batch'[v] = batch[v]
      BY <1>t, <2>1, <2>3, RestFacts
    <3>2. Engaged' /\ pc' \in [Workers -> InDue \cup InDispatch \cup Outside]
      BY <1>4, <2>3, <3>1, GotoEngages, LabelsInside DEF Lock, Handling, Repeating
    <3> QED
      BY <1>t, <1>4, <2>3, <3>1, <3>2 DEF Lock, Sound, TypeOK
  <2> QED
    BY <1>4, <2>2, <2>3 DEF Lock
<1>5. CASE Decide(w)
  <2>1. batch[w] # <<>> /\ Current(w) \in Jobs
    BY <1>e, <1>5 DEF Decide, Goto, Handling
  <2>2. Engaged' /\ pc' \in [Workers -> InDue \cup InDispatch \cup Outside]
    BY <1>5, <2>1, GotoEngages, LabelsInside DEF Decide, Handling, Repeating
  <2>3. pendingJob' \in Jobs \cup {None}
    BY <1>5, <2>1 DEF Decide
  <2> QED
    BY <1>t, <1>5, <2>2, <2>3 DEF Decide, Sound, TypeOK
<1>6. CASE List(w)
  <2>1. batch[w] # <<>>
    BY <1>e, <1>6 DEF List, Goto, Handling
  <2>2. Engaged' /\ pc' \in [Workers -> InDue \cup InDispatch \cup Outside]
    BY <1>6, <2>1, GotoEngages, LabelsInside DEF List, Handling, Repeating
  <2> QED
    BY <1>t, <1>6, <2>2 DEF List, Sound, TypeOK
<1>7. CASE Unlist(w)
  <2>1. batch[w] # <<>>
    BY <1>e, <1>7 DEF Unlist, Goto, Handling
  <2>2. Engaged' /\ pc' \in [Workers -> InDue \cup InDispatch \cup Outside]
    BY <1>7, <2>1, GotoEngages, LabelsInside DEF Unlist, Handling, Repeating
  <2> QED
    BY <1>t, <1>7, <2>2 DEF Unlist, Sound, TypeOK
<1>8. CASE DeliverNow(w)
  <2>1. PICK to \in {"cool", "releaseFailed"} : Goto(w, "deliver", to)
    BY <1>8 DEF DeliverNow, Deliver
  <2>2. batch[w] # <<>>
    BY <1>e, <2>1 DEF Goto, Handling
  <2>3. Engaged' /\ pc' \in [Workers -> InDue \cup InDispatch \cup Outside]
    BY <1>8, <2>1, <2>2, GotoEngages, LabelsInside DEF DeliverNow, Handling, Repeating
  <2>4. failures' \in 0..MaxFailures
    BY <1>t, <1>8, BoundsAssumption DEF DeliverNow, Deliver, TypeOK
  <2>5. unheard' \subseteq Jobs /\ quiet' \in BOOLEAN
    BY <1>t, <1>8 DEF DeliverNow, Deliver, Reach, TypeOK
  <2> QED
    BY <1>t, <1>8, <2>3, <2>4, <2>5 DEF DeliverNow, Sound, TypeOK
<1>9. CASE Cool(w)
  <2>1. batch[w] # <<>>
    BY <1>e, <1>9 DEF Cool, Goto, Handling
  <2>2. Engaged' /\ pc' \in [Workers -> InDue \cup InDispatch \cup Outside]
    BY <1>9, <2>1, GotoEngages, LabelsInside DEF Cool, Handling, Repeating
  <2> QED
    BY <1>t, <1>9, <2>2 DEF Cool, Sound, TypeOK
<1>10. CASE Release(w)
  <2>1. lock' \in Workers \cup {Free, Reader, Orphan}
    BY <1>t, <1>10 DEF Release, ReleasedBy, TypeOK
  <2>2. CASE Goto(w, "releaseFailed", "next") /\ Rest(w)
    <3>1. batch[w] # <<>>
      BY <1>e, <2>2 DEF Goto, Handling
    <3>2. batch' \in [Workers -> Seq(Jobs)] /\ \A v \in Workers \ {w} : batch'[v] = batch[v]
      BY <1>t, <2>2, <3>1, RestFacts
    <3>3. Engaged' /\ pc' \in [Workers -> InDue \cup InDispatch \cup Outside]
      BY <1>10, <2>2, <3>2, GotoEngages, LabelsInside DEF Release, Handling, Repeating
    <3> QED
      BY <1>t, <1>10, <2>1, <3>2, <3>3 DEF Release, Sound, TypeOK
  <2>3. ASSUME NEW to \in {"markDeferred", "markDelivered"},
               NEW from \in {"releaseDeferred", "releaseDelivered"},
               Goto(w, from, to), UNCHANGED batch
        PROVE  Sound'
    <3>1. batch[w] # <<>>
      BY <1>e, <2>3 DEF Goto, Handling
    <3>2. Engaged' /\ pc' \in [Workers -> InDue \cup InDispatch \cup Outside]
      BY <1>10, <2>3, <3>1, GotoEngages, LabelsInside DEF Release, Handling, Repeating
    <3> QED
      BY <1>t, <1>10, <2>1, <2>3, <3>2 DEF Release, Sound, TypeOK
  <2> QED
    BY <1>10, <2>2, <2>3 DEF Release
<1>11. CASE Mark(w)
  <2>1. PICK from \in {"markDeferred", "markDelivered"} : Goto(w, from, "ack")
    BY <1>11 DEF Mark
  <2>2. batch[w] # <<>> /\ Current(w) \in Jobs
    BY <1>e, <2>1 DEF Goto, Handling
  <2>3. Engaged' /\ pc' \in [Workers -> InDue \cup InDispatch \cup Outside]
    BY <1>11, <2>1, <2>2, GotoEngages, LabelsInside DEF Mark, Handling, Repeating
  <2>4. delivered' \subseteq Jobs /\ deferred' \subseteq Jobs
    BY <1>t, <1>11, <2>2 DEF Mark, TypeOK
  <2> QED
    BY <1>t, <1>11, <2>3, <2>4 DEF Mark, Sound, TypeOK
<1>12. CASE Acknowledge(w)
  <2>1. batch[w] # <<>>
    BY <1>e, <1>12 DEF Acknowledge, Goto, Handling
  <2>2. batch' \in [Workers -> Seq(Jobs)] /\ \A v \in Workers \ {w} : batch'[v] = batch[v]
    BY <1>t, <1>12, <2>1, RestFacts DEF Acknowledge
  <2>3. Engaged' /\ pc' \in [Workers -> InDue \cup InDispatch \cup Outside]
    BY <1>12, <2>2, GotoEngages, LabelsInside DEF Acknowledge, Handling, Repeating
  <2>4. /\ stream' \in [Jobs -> {"unsent", "new", "pending", "acked"}]
        /\ idle' \subseteq {j \in Jobs : stream'[j] = "pending"}
    BY <1>t, <1>12 DEF Acknowledge, TypeOK
  <2> QED
    BY <1>t, <1>12, <2>2, <2>3, <2>4 DEF Acknowledge, Sound, TypeOK
<1> QED
  BY <1>1, <1>2, <1>3, <1>4, <1>5, <1>6, <1>7, <1>8, <1>9, <1>10, <1>11, <1>12 DEF Process

(* What the web process does, time, and processes that stop keep them.     *)
LEMMA SoundOther ==
    ASSUME Sound,
           Web \/ Time \/ CrashWeb \/ \E w \in Workers : Crash(w)
    PROVE  Sound'
<1> USE DEF history, counters, pairVars, streamVars, workVars
<1>t. TypeOK BY DEF Sound
<1>e. UNCHANGED <<pc, batch, job>> => Engaged'
  BY DEF Sound, Engaged
<1>1. CASE \E j \in Jobs : Enqueue(j)
  BY <1>1, <1>e, <1>t DEF Enqueue, Sound, TypeOK
<1>2. CASE OpenRoom
  <2>1. openings' \in 0..MaxOpenings
    BY <1>2, <1>t, BoundsAssumption DEF OpenRoom, TypeOK
  <2>2. lock' \in Workers \cup {Free, Reader, Orphan} /\ rpc' \in {"away", "clear", "unlist", "release"}
    BY <1>2, <1>t DEF OpenRoom, Acquire, TypeOK
  <2> QED
    BY <1>2, <1>e, <1>t, <2>1, <2>2 DEF OpenRoom, Sound, TypeOK
<1>3. CASE ClearState
  BY <1>3, <1>e, <1>t DEF ClearState, Sound, TypeOK
<1>4. CASE UnlistCleared
  BY <1>4, <1>e, <1>t DEF UnlistCleared, Sound, TypeOK
<1>5. CASE LeaveLock
  BY <1>5, <1>e, <1>t DEF LeaveLock, ReleasedBy, Sound, TypeOK
<1>6. CASE HourPasses
  BY <1>6, <1>e, <1>t DEF HourPasses, Sound, TypeOK
<1>7. CASE RetryFallsDue
  BY <1>7, <1>e, <1>t DEF RetryFallsDue, Sound, TypeOK
<1>8. CASE LockExpires
  BY <1>8, <1>e, <1>t DEF LockExpires, Sound, TypeOK
<1>9. CASE \E j \in Jobs : FallIdle(j)
  <2>1. slow' \in 0..MaxSlow
    BY <1>9, <1>t, BoundsAssumption DEF FallIdle, TypeOK
  <2> QED
    BY <1>9, <1>e, <1>t, <2>1 DEF FallIdle, Sound, TypeOK
<1>10. CASE CrashWeb
  <2>1. crashes' \in 0..MaxCrashes
    BY <1>10, <1>t, BoundsAssumption DEF CrashWeb, TypeOK
  <2> QED
    BY <1>10, <1>e, <1>t, <2>1 DEF CrashWeb, Abandon, Sound, TypeOK
<1>11. ASSUME NEW w \in Workers, Crash(w)
       PROVE  Sound'
  <2>1. crashes' \in 0..MaxCrashes
    BY <1>11, <1>t, BoundsAssumption DEF Crash, TypeOK
  <2>2. /\ pc'[w] = "start" /\ \A v \in Workers \ {w} :
              pc'[v] = pc[v] /\ batch'[v] = batch[v] /\ job'[v] = job[v]
        /\ pc' \in [Workers -> InDue \cup InDispatch \cup Outside]
        /\ batch' \in [Workers -> Seq(Jobs)] /\ job' \in [Workers -> Jobs \cup {None}]
    BY <1>11, <1>t DEF Crash, TypeOK, Outside
  <2>3. Engaged'
    BY <2>2 DEF Sound, Engaged, Handling, Repeating
  <2> QED
    BY <1>11, <1>t, <2>1, <2>2, <2>3 DEF Crash, Abandon, Sound, TypeOK
<1> QED
  BY <1>1, <1>2, <1>3, <1>4, <1>5, <1>6, <1>7, <1>8, <1>9, <1>10, <1>11 DEF Web, Time

LEMMA SoundStep == Sound /\ [Next]_vars => Sound'
<1> SUFFICES ASSUME Sound, [Next]_vars PROVE Sound'
  OBVIOUS
<1>1. CASE Next
  BY <1>1, SoundDue, SoundProcess, SoundOther DEF Next, Work
<1>2. CASE UNCHANGED vars
  BY <1>2 DEF vars, streamVars, history, counters, pairVars, workVars, Sound, TypeOK, Engaged
<1> QED
  BY <1>1, <1>2

LEMMA AlwaysSound == Spec => []Sound
BY SoundInit, SoundStep, PTL DEF Spec

(* Every variable has its type in every reachable state, whatever stops or *)
(* fails and however many workers there are.                               *)
THEOREM TypesHold == Spec => []TypeOK
BY AlwaysSound, PTL DEF Sound

-----------------------------------------------------------------------------
(* What has been sent                                                      *)

(* Whatever is marked, deferred or held by a worker has been sent, and     *)
(* what is acknowledged has its marker.                                    *)
MarkedAreSent == \A j \in delivered \cup deferred : stream[j] # "unsent"
DeferredIsSent == pendingJob # None => stream[pendingJob] # "unsent"
RepeatedAreSent == \A w \in Workers : job[w] # None => stream[job[w]] # "unsent"
BatchesAreSent ==
    \A w \in Workers : \A i \in DOMAIN batch[w] : stream[batch[w][i]] \in {"pending", "acked"}
AckedAreMarked == \A j \in Jobs : stream[j] = "acked" => j \in delivered \cup deferred
AckingIsMarked == \A w \in Workers : pc[w] = "ack" => Known(w)

Sent ==
    /\ MarkedAreSent /\ DeferredIsSent /\ RepeatedAreSent /\ BatchesAreSent
    /\ AckedAreMarked /\ AckingIsMarked

LEMMA SentInit == Init => Sent
<1> SUFFICES ASSUME Init PROVE Sent
  OBVIOUS
<1>1. \A w \in Workers : pc[w] = "start" /\ batch[w] = <<>> /\ job[w] = None
  BY DEF Init
<1>2. BatchesAreSent
  BY <1>1 DEF BatchesAreSent
<1> QED
  BY <1>1, <1>2 DEF Init, Sent, MarkedAreSent, DeferredIsSent, RepeatedAreSent, AckedAreMarked,
                    AckingIsMarked

(* A step that leaves the stream, the markers and the batches alone.       *)
LEMMA SentRests ==
    ASSUME Sent, UNCHANGED <<stream, delivered, deferred, batch>>,
           pendingJob' \in {None, pendingJob},
           \A v \in Workers : job'[v] \in {None, job[v], pendingJob},
           \A v \in Workers : pc'[v] = "ack" => pc[v] = "ack"
    PROVE  Sent'
<1>1. MarkedAreSent' /\ AckedAreMarked'
  BY DEF Sent, MarkedAreSent, AckedAreMarked
<1>2. DeferredIsSent' /\ RepeatedAreSent'
  BY DEF Sent, DeferredIsSent, RepeatedAreSent
<1>3. BatchesAreSent'
  BY DEF Sent, BatchesAreSent
<1>4. AckingIsMarked'
  BY DEF Sent, AckingIsMarked, Known, Current
<1> QED
  BY <1>1, <1>2, <1>3, <1>4 DEF Sent

(* A worker that leaves its first job.                                     *)
LEMMA BatchesShrink ==
    ASSUME TypeOK, BatchesAreSent, NEW w \in Workers, batch[w] # <<>>, Rest(w),
           \A j \in Jobs : stream[j] \in {"pending", "acked"} => stream'[j] \in {"pending", "acked"}
    PROVE  BatchesAreSent'
<1>0. batch \in [Workers -> Seq(Jobs)] BY DEF TypeOK
<1>1. batch'[w] = Tail(batch[w]) /\ \A v \in Workers \ {w} : batch'[v] = batch[v]
  BY RestFacts
<1>2. ASSUME NEW i \in DOMAIN batch'[w]
      PROVE  stream'[batch'[w][i]] \in {"pending", "acked"}
  <2>1. i + 1 \in DOMAIN batch[w] /\ batch'[w][i] = batch[w][i + 1] /\ batch[w][i + 1] \in Jobs
    BY <1>0, <1>1, <1>2, TailFacts
  <2> QED
    BY <2>1 DEF BatchesAreSent
<1>3. ASSUME NEW v \in Workers \ {w}, NEW i \in DOMAIN batch'[v]
      PROVE  stream'[batch'[v][i]] \in {"pending", "acked"}
  <2>1. batch[v][i] \in Jobs /\ i \in DOMAIN batch[v] /\ batch'[v] = batch[v]
    BY <1>0, <1>1, <1>3
  <2> QED
    BY <2>1 DEF BatchesAreSent
<1> QED
  BY <1>2, <1>3 DEF BatchesAreSent

(* The steps of deliver_due_chat_notifications.                            *)
LEMMA SentDue ==
    ASSUME Sound, Sent, NEW w \in Workers, Due(w)
    PROVE  Sent'
<1> USE DEF history, counters, pairVars, streamVars
<1>t. TypeOK /\ Labelled BY DEF Sound, TypeOK, Labelled
<1>g. ASSUME NEW from, NEW to \in Inside \cup Outside, to # "ack", Goto(w, from, to)
      PROVE  \A v \in Workers : pc'[v] = "ack" => pc[v] = "ack"
  BY <1>t, <1>g, GotoMoves
<1>1. CASE LookForDue(w) \/ LockDue(w)
  BY <1>1, <1>g, SentRests, LabelsInside DEF LookForDue, LockDue
<1>2. CASE Consider(w)
  <2>1. \A v \in Workers : job'[v] \in {None, job[v], pendingJob}
    BY <1>2, <1>t DEF Consider, TypeOK
  <2>2. \A v \in Workers : pc'[v] = "ack" => pc[v] = "ack"
    BY <1>2, <1>g, LabelsInside DEF Consider
  <2> QED
    BY <1>2, <2>1, <2>2, SentRests DEF Consider
<1>3. CASE DropDuplicate(w) \/ CoolDue(w) \/ ClearDue(w) \/ UnlistDue(w)
  <2>1. \A v \in Workers : pc'[v] = "ack" => pc[v] = "ack"
    BY <1>3, <1>g, LabelsInside DEF DropDuplicate, CoolDue, ClearDue, UnlistDue
  <2> QED
    BY <1>3, <2>1, SentRests DEF DropDuplicate, CoolDue, ClearDue, UnlistDue
<1>4. CASE Announce(w)
  <2>1. \A v \in Workers : pc'[v] = "ack" => pc[v] = "ack"
    BY <1>4, <1>g, LabelsInside DEF Announce, Deliver
  <2> QED
    BY <1>4, <2>1, SentRests DEF Announce
<1>5. CASE MarkDue(w)
  <2>1. \A v \in Workers : pc'[v] = "ack" => pc[v] = "ack"
    BY <1>5, <1>g, LabelsInside DEF MarkDue
  <2>2. job[w] \in Jobs
    BY <1>5 DEF MarkDue, Goto, Sound, Engaged, Repeating
  <2>3. stream[job[w]] # "unsent"
    BY <2>2 DEF Sent, RepeatedAreSent, Jobs, None
  <2>4. MarkedAreSent' /\ AckedAreMarked'
    BY <1>5, <2>3 DEF MarkDue, Sent, MarkedAreSent, AckedAreMarked
  <2>5. DeferredIsSent' /\ RepeatedAreSent' /\ BatchesAreSent'
    BY <1>5 DEF MarkDue, Sent, DeferredIsSent, RepeatedAreSent, BatchesAreSent
  <2>6. AckingIsMarked'
    BY <1>5, <2>1 DEF MarkDue, Sent, AckingIsMarked, Known, Current
  <2> QED
    BY <2>4, <2>5, <2>6 DEF Sent
<1>6. CASE ReleaseDue(w)
  <2>1. \A v \in Workers : pc'[v] = "ack" => pc[v] = "ack"
    BY <1>6, <1>g, LabelsInside DEF ReleaseDue
  <2>2. \A v \in Workers : job'[v] \in {None, job[v], pendingJob}
    BY <1>6, <1>t DEF ReleaseDue, TypeOK
  <2> QED
    BY <1>6, <2>1, <2>2, SentRests DEF ReleaseDue
<1> QED
  BY <1>1, <1>2, <1>3, <1>4, <1>5, <1>6 DEF Due

(* The steps of _process_job and of the command's loop.                    *)
LEMMA SentProcess ==
    ASSUME Sound, Sent, NEW w \in Workers, Process(w)
    PROVE  Sent'
<1> USE DEF history, counters, pairVars, streamVars
<1>t. TypeOK /\ Labelled BY DEF Sound, TypeOK, Labelled
<1>g. ASSUME NEW from, NEW to \in Inside \cup Outside, to # "ack", Goto(w, from, to)
      PROVE  \A v \in Workers : pc'[v] = "ack" => pc[v] = "ack" /\ v # w
  BY <1>t, <1>g, GotoMoves
<1>h. pc[w] \in Handling => /\ batch[w] # <<>> /\ Current(w) \in Jobs
                            /\ stream[Current(w)] \in {"pending", "acked"}
  <2> SUFFICES ASSUME pc[w] \in Handling
               PROVE  /\ batch[w] # <<>> /\ Current(w) \in Jobs
                      /\ stream[Current(w)] \in {"pending", "acked"}
    OBVIOUS
  <2>1. batch[w] \in Seq(Jobs) /\ batch[w] # <<>>
    BY <1>t DEF Sound, Engaged, TypeOK
  <2>2. Current(w) \in Jobs /\ 1 \in DOMAIN batch[w] /\ batch[w][1] = Current(w)
    BY <2>1, TailFacts DEF Current
  <2> QED
    BY <2>1, <2>2 DEF Sent, BatchesAreSent
<1>l. ASSUME pc[w] \in Handling, Rest(w), UNCHANGED <<stream, delivered, deferred, pendingJob, job>>,
             \A v \in Workers : pc'[v] = "ack" => pc[v] = "ack" /\ v # w
      PROVE  Sent'
  <2>1. BatchesAreSent'
    BY <1>t, <1>h, <1>l, BatchesShrink DEF Sent
  <2>2. \A v \in Workers \ {w} : batch'[v] = batch[v]
    BY <1>t, <1>h, <1>l, RestFacts
  <2>3. AckingIsMarked'
    BY <1>l, <2>2 DEF Sent, AckingIsMarked, Known, Current
  <2> QED
    BY <1>l, <2>1, <2>3
       DEF Sent, MarkedAreSent, DeferredIsSent, RepeatedAreSent, AckedAreMarked
<1>1. CASE Fetch(w)
  <2>1. /\ \A v \in Workers \ {w} : batch'[v] = batch[v]
        /\ idle \in SUBSET Jobs
        /\ \A i \in DOMAIN batch'[w] : batch'[w][i] \in idle \cup NewJobs
        /\ \A j \in Jobs : stream'[j] = IF stream[j] = "new" THEN "pending" ELSE stream[j]
    BY <1>t, <1>1, FetchFacts
  <2>2. \A j \in idle \cup NewJobs : stream'[j] = "pending"
    BY <1>t, <2>1 DEF TypeOK, NewJobs
  <2>3. ASSUME NEW v \in Workers, NEW i \in DOMAIN batch'[v]
        PROVE  stream'[batch'[v][i]] \in {"pending", "acked"}
    <3>1. CASE v = w BY <2>1, <2>2, <2>3, <3>1
    <3>2. CASE v # w
      <4>1. batch'[v] = batch[v] /\ batch[v][i] \in Jobs
        BY <1>t, <2>1, <2>3, <3>2 DEF TypeOK
      <4> QED
        BY <2>1, <2>3, <4>1 DEF Sent, BatchesAreSent
    <3> QED BY <3>1, <3>2
  <2>4. BatchesAreSent'
    BY <2>3 DEF BatchesAreSent
  <2>5. \A v \in Workers : pc'[v] = "ack" => pc[v] = "ack" /\ v # w
    BY <1>1, <1>g, LabelsInside DEF Fetch
  <2>6. AckingIsMarked'
    BY <1>1, <2>1, <2>5 DEF Fetch, Sent, AckingIsMarked, Known, Current
  <2>7. MarkedAreSent' /\ DeferredIsSent' /\ RepeatedAreSent' /\ AckedAreMarked'
    BY <1>1, <1>t, <2>1 DEF Fetch, TypeOK, Sent, MarkedAreSent, DeferredIsSent, RepeatedAreSent, AckedAreMarked
  <2> QED
    BY <2>4, <2>6, <2>7 DEF Sent
<1>2. CASE EndBatch(w)
  <2>1. \A v \in Workers : pc'[v] = "ack" => pc[v] = "ack"
    BY <1>2, <1>g, LabelsInside DEF EndBatch
  <2> QED
    BY <1>2, <2>1, SentRests DEF EndBatch
<1>3. CASE Check(w)
  <2>1. CASE Known(w)
    <3>1. pc'[w] = "ack" /\ \A v \in Workers \ {w} : pc'[v] = pc[v]
      BY <1>3, <1>t, <2>1, GotoMoves, LabelsInside DEF Check
    <3>2. AckingIsMarked'
      BY <1>3, <2>1, <3>1 DEF Check, Sent, AckingIsMarked, Known, Current
    <3> QED
      BY <1>3, <3>2 DEF Check, Sent, MarkedAreSent, DeferredIsSent, RepeatedAreSent,
                        BatchesAreSent, AckedAreMarked
  <2>2. CASE ~Known(w)
    <3>1. \A v \in Workers : pc'[v] = "ack" => pc[v] = "ack"
      BY <1>3, <1>g, <2>2, LabelsInside DEF Check
    <3> QED
      BY <1>3, <3>1, SentRests DEF Check
  <2> QED
    BY <2>1, <2>2
<1>4. CASE Lock(w)
  <2>1. \A v \in Workers : pc'[v] = "ack" => pc[v] = "ack" /\ v # w
    BY <1>4, <1>g, LabelsInside DEF Lock
  <2>2. pc[w] \in Handling
    BY <1>4 DEF Lock, Goto, Handling
  <2> QED
    BY <1>4, <1>l, <2>1, <2>2, SentRests DEF Lock
<1>5. CASE Decide(w)
  <2>1. \A v \in Workers : pc'[v] = "ack" => pc[v] = "ack" /\ v # w
    BY <1>5, <1>g, LabelsInside DEF Decide
  <2>2. pc[w] \in Handling
    BY <1>5 DEF Decide, Goto, Handling
  <2>3. DeferredIsSent'
    BY <1>5, <1>h, <2>2 DEF Decide, DeferredIsSent
  <2>4. AckingIsMarked'
    BY <1>5, <2>1 DEF Decide, Sent, AckingIsMarked, Known, Current
  <2> QED
    BY <1>5, <2>3, <2>4 DEF Decide, Sent, MarkedAreSent, RepeatedAreSent, BatchesAreSent, AckedAreMarked
<1>6. CASE List(w) \/ Unlist(w) \/ Cool(w)
  <2>1. \A v \in Workers : pc'[v] = "ack" => pc[v] = "ack"
    BY <1>6, <1>g, LabelsInside DEF List, Unlist, Cool
  <2> QED
    BY <1>6, <2>1, SentRests DEF List, Unlist, Cool
<1>7. CASE DeliverNow(w)
  <2>1. \A v \in Workers : pc'[v] = "ack" => pc[v] = "ack"
    BY <1>7, <1>g, LabelsInside DEF DeliverNow, Deliver
  <2> QED
    BY <1>7, <2>1, SentRests DEF DeliverNow
<1>8. CASE Release(w)
  <2>1. \A v \in Workers : pc'[v] = "ack" => pc[v] = "ack" /\ v # w
    BY <1>8, <1>g, LabelsInside DEF Release
  <2>2. pc[w] \in Handling
    BY <1>8 DEF Release, Goto, Handling
  <2> QED
    BY <1>8, <1>l, <2>1, <2>2, SentRests DEF Release
<1>9. CASE Mark(w)
  <2>1. PICK from \in {"markDeferred", "markDelivered"} : Goto(w, from, "ack")
    BY <1>9 DEF Mark
  <2>2. pc[w] \in Handling /\ \A v \in Workers \ {w} : pc'[v] = pc[v]
    BY <1>t, <2>1, GotoMoves, LabelsInside DEF Handling
  <2>3. delivered' \cup deferred' = delivered \cup deferred \cup {Current(w)}
    BY <1>9 DEF Mark
  <2>4. MarkedAreSent' /\ AckedAreMarked'
    BY <1>9, <1>h, <2>2, <2>3 DEF Mark, Sent, MarkedAreSent, AckedAreMarked
  <2>5. AckingIsMarked'
    BY <1>9, <2>2, <2>3 DEF Mark, Sent, AckingIsMarked, Known, Current
  <2> QED
    BY <1>9, <2>4, <2>5 DEF Mark, Sent, DeferredIsSent, RepeatedAreSent, BatchesAreSent
<1>10. CASE Acknowledge(w)
  <2>1. pc[w] \in Handling /\ pc[w] = "ack" /\ Known(w)
    BY <1>10 DEF Acknowledge, Goto, Handling, Sent, AckingIsMarked
  <2>2. \A j \in Jobs : stream'[j] = IF j = Current(w) THEN "acked" ELSE stream[j]
    BY <1>t, <1>10 DEF Acknowledge, TypeOK
  <2>3. BatchesAreSent'
    BY <1>t, <1>h, <1>10, <2>1, <2>2, BatchesShrink DEF Acknowledge, Sent
  <2>4. \A v \in Workers \ {w} : batch'[v] = batch[v]
    BY <1>t, <1>h, <1>10, <2>1, RestFacts DEF Acknowledge
  <2>5. \A v \in Workers : pc'[v] = "ack" => pc[v] = "ack" /\ v # w
    BY <1>10, <1>g, LabelsInside DEF Acknowledge
  <2>6. AckingIsMarked'
    BY <1>10, <2>4, <2>5 DEF Acknowledge, Sent, AckingIsMarked, Known, Current
  <2>7. AckedAreMarked'
    BY <1>10, <2>1, <2>2 DEF Acknowledge, Sent, AckedAreMarked, Known
  <2>8. MarkedAreSent' /\ DeferredIsSent' /\ RepeatedAreSent'
    BY <1>10, <1>t, <2>2 DEF Acknowledge, TypeOK, Sent, MarkedAreSent, DeferredIsSent, RepeatedAreSent
  <2> QED
    BY <2>3, <2>6, <2>7, <2>8 DEF Sent
<1> QED
  BY <1>1, <1>2, <1>3, <1>4, <1>5, <1>6, <1>7, <1>8, <1>9, <1>10 DEF Process

(* What the web process does, time, and processes that stop.               *)
LEMMA SentOther ==
    ASSUME Sound, Sent,
           Web \/ Time \/ CrashWeb \/ \E w \in Workers : Crash(w)
    PROVE  Sent'
<1> USE DEF history, counters, pairVars, streamVars, workVars
<1>t. TypeOK BY DEF Sound
<1>1. ASSUME NEW j \in Jobs, Enqueue(j)
      PROVE  Sent'
  <2>1. \A i \in Jobs : stream'[i] = IF i = j THEN "new" ELSE stream[i]
    BY <1>t, <1>1 DEF Enqueue, TypeOK
  <2>2. stream[j] = "unsent"
    BY <1>1 DEF Enqueue
  <2>3. BatchesAreSent'
    <3>1. \A w \in Workers : \A i \in DOMAIN batch[w] : batch[w][i] \in Jobs
      BY <1>t DEF TypeOK
    <3> QED
      BY <1>1, <2>1, <2>2, <3>1 DEF Enqueue, Sent, BatchesAreSent
  <2>4. AckingIsMarked' /\ AckedAreMarked'
    BY <1>1, <2>1 DEF Enqueue, Sent, AckingIsMarked, AckedAreMarked, Known, Current
  <2>5. MarkedAreSent' /\ DeferredIsSent' /\ RepeatedAreSent'
    BY <1>1, <1>t, <2>1 DEF Enqueue, TypeOK, Sent, MarkedAreSent, DeferredIsSent, RepeatedAreSent
  <2> QED
    BY <2>3, <2>4, <2>5 DEF Sent
<1>2. CASE OpenRoom \/ ClearState \/ UnlistCleared \/ LeaveLock
  BY <1>2, SentRests DEF OpenRoom, ClearState, UnlistCleared, LeaveLock
<1>3. CASE Time
  BY <1>3, SentRests DEF Time, HourPasses, RetryFallsDue, LockExpires, FallIdle
<1>4. CASE CrashWeb
  BY <1>4, SentRests DEF CrashWeb
<1>5. ASSUME NEW w \in Workers, Crash(w)
      PROVE  Sent'
  <2>1. /\ pc'[w] = "start" /\ batch'[w] = <<>> /\ job'[w] = None
        /\ \A v \in Workers \ {w} : pc'[v] = pc[v] /\ batch'[v] = batch[v] /\ job'[v] = job[v]
    BY <1>5, <1>t DEF Crash, TypeOK
  <2>2. BatchesAreSent'
    BY <1>5, <2>1 DEF Crash, Sent, BatchesAreSent
  <2>3. RepeatedAreSent' /\ AckingIsMarked'
    BY <1>5, <2>1 DEF Crash, Sent, RepeatedAreSent, AckingIsMarked, Known, Current
  <2> QED
    BY <1>5, <2>2, <2>3 DEF Crash, Sent, MarkedAreSent, DeferredIsSent, AckedAreMarked
<1> QED
  BY <1>1, <1>2, <1>3, <1>4, <1>5 DEF Web

LEMMA SentStep == Sound /\ Sent /\ [Next]_vars => Sent'
<1> SUFFICES ASSUME Sound, Sent, [Next]_vars PROVE Sent'
  OBVIOUS
<1>1. CASE Next
  BY <1>1, SentDue, SentProcess, SentOther DEF Next, Work
<1>2. CASE UNCHANGED vars
  BY <1>2, SentRests DEF vars, streamVars, pairVars, workVars
<1> QED
  BY <1>1, <1>2

-----------------------------------------------------------------------------
(* One worker: nothing is lost                                             *)

(* A job that will be processed as if nobody had seen it.                  *)
Fresh(j) == stream[j] \in {"new", "pending"} /\ j \notin delivered \cup deferred
Elsewhere(x) == \E j \in Jobs \ {x} : Fresh(j)

(* The deferred job will be pushed when it falls due.                      *)
StillDeferred == pendingJob # None /\ pendingJob \notin delivered /\ delayed # "none"

(* The job that a worker is about to mark.                                 *)
Marking(w) ==
    IF pc[w] \in {"cool", "releaseDelivered", "markDelivered", "releaseDeferred", "markDeferred"}
    THEN Current(w)
    ELSE IF pc[w] = "markDue" THEN job[w] ELSE None

(* The deferred job is being given up: it cannot be counted on.            *)
Giving(w) ==
    \/ pc[w] \in {"cool", "releaseDelivered", "markDelivered", "markDue", "drop", "coolDue",
                  "clearDue", "unlistDue", "unlist"}
    \/ rpc \in {"clear", "unlist"}

(* From its check to its push a job has no marker; a job that is being     *)
(* listed is the deferred one.                                             *)
Untouched == {"lock", "decide", "list", "unlist", "deliver"}
Untaken(w) ==
    /\ pc[w] \in Untouched => ~Known(w)
    /\ pc[w] = "list" => pendingJob = Current(w)

(* As long as the member has not heard of a message, another job than the  *)
(* one that is about to be marked is fresh, or the deferred one remains.   *)
Covered(w) == unheard # {} => Elsewhere(Marking(w)) \/ (~Giving(w) /\ StillDeferred)

Kept == \A w \in Workers : Untaken(w) /\ Covered(w)

LEMMA KeptInit == Init => Kept
BY DEF Init, Kept, Untaken, Covered, Untouched

(* What a worker has in hand, with what follows for the web process.       *)
LEMMA InHand ==
    ASSUME LockInvariant, Sound, Sent, Kept, NEW w \in Workers
    PROVE  /\ pc[w] \in Handling => Current(w) \in Jobs /\ stream[Current(w)] \in {"pending", "acked"}
           /\ pc[w] \in Untouched => Fresh(Current(w)) /\ Current(w) \in Jobs
           /\ pc[w] = "markDue" => job[w] \in Jobs /\ stream[job[w]] # "unsent"
           /\ pc[w] \in Inside => rpc = "away"
<1>1. ASSUME pc[w] \in Handling
      PROVE  Current(w) \in Jobs /\ stream[Current(w)] \in {"pending", "acked"}
  <2>1. batch[w] \in Seq(Jobs) /\ batch[w] # <<>>
    BY <1>1 DEF Sound, Engaged, TypeOK
  <2>2. Current(w) \in Jobs /\ 1 \in DOMAIN batch[w] /\ batch[w][1] = Current(w)
    BY <2>1, TailFacts DEF Current
  <2> QED
    BY <2>2 DEF Sent, BatchesAreSent
<1>2. Untouched \subseteq Handling
  BY DEF Untouched, Handling
<1>3. pc[w] \in Untouched => Fresh(Current(w))
  BY <1>1, <1>2 DEF Kept, Untaken, Known, Fresh, Sent, AckedAreMarked
<1>4. pc[w] = "markDue" => job[w] \in Jobs /\ stream[job[w]] # "unsent"
  BY DEF Sound, Engaged, Repeating, Sent, RepeatedAreSent, Jobs, None
<1>5. pc[w] \in Inside => rpc = "away"
  BY BoundsAssumption DEF LockInvariant, MutualExclusion, Inside
<1> QED
  BY <1>1, <1>2, <1>3, <1>4, <1>5

(* No job is called None.                                                  *)
LEMMA NoneIsNoJob == None \notin Jobs
BY BoundsAssumption DEF None, Jobs

(* The steps of deliver_due_chat_notifications.                            *)
LEMMA KeptDue ==
    ASSUME LockInvariant, Sound, Sent, Kept, NEW w, Workers = {w}, Due(w)
    PROVE  Kept'
<1> USE DEF history, counters, pairVars, streamVars
<1>0. w \in Workers OBVIOUS
<1>t. TypeOK /\ Labelled BY DEF Sound, TypeOK, Labelled
<1>h. /\ pc[w] = "markDue" => job[w] \in Jobs /\ stream[job[w]] # "unsent"
      /\ pc[w] \in Inside => rpc = "away"
  BY InHand, <1>0
<1>k. Untaken(w) /\ Covered(w) BY <1>0 DEF Kept
<1>g. ASSUME NEW from, NEW to \in Inside \cup Outside, Goto(w, from, to)
      PROVE  pc[w] = from /\ pc'[w] = to
  BY <1>0, <1>t, <1>g, GotoMoves
<1>s. SUFFICES Untaken(w)' /\ Covered(w)'
  BY DEF Kept
<1>1. CASE LookForDue(w) \/ LockDue(w)
  <2>1. pc[w] \in {"start", "due"} /\ pc'[w] \in {"due", "fetch", "consider"}
    BY <1>1, <1>g, LabelsInside DEF LookForDue, LockDue
  <2>2. Untaken(w)'
    BY <2>1 DEF Untaken, Untouched
  <2>3. Covered(w)'
    BY <1>1, <1>k, <2>1 DEF LookForDue, LockDue, Covered, Marking, Giving, Elsewhere, Fresh, StillDeferred
  <2> QED BY <2>2, <2>3
<1>2. CASE Consider(w)
  <2>1. pc[w] = "consider" /\ pc'[w] \in {"unlistDue", "releaseDue", "drop", "announce"}
    BY <1>2, <1>g, LabelsInside DEF Consider
  <2>2. Untaken(w)'
    BY <2>1 DEF Untaken, Untouched
  <2>3. Marking(w) = None /\ Marking(w)' = None
    BY <2>1 DEF Marking
  <2>4. pc'[w] \in {"unlistDue", "drop"} => ~StillDeferred
    BY <1>2, <1>g, LabelsInside DEF Consider, StillDeferred
  <2>5. StillDeferred => StillDeferred'
    BY <1>2 DEF Consider, StillDeferred
  <2>6. Elsewhere(None) => Elsewhere(None)'
    BY <1>2 DEF Consider, Elsewhere, Fresh
  <2>7. pc'[w] \in {"releaseDue", "announce"} => (Giving(w)' <=> rpc \in {"clear", "unlist"})
    BY <1>2 DEF Consider, Giving
  <2> QED
    BY <1>2, <1>k, <2>1, <2>2, <2>3, <2>4, <2>5, <2>6, <2>7 DEF Consider, Covered, Giving, Elsewhere
<1>3. CASE DropDuplicate(w) \/ CoolDue(w) \/ ClearDue(w) \/ UnlistDue(w)
  <2>1. pc[w] \in {"drop", "coolDue", "clearDue", "unlistDue"}
        /\ pc'[w] \in {"clearDue", "unlistDue", "releaseDue"}
    BY <1>3, <1>g, LabelsInside DEF DropDuplicate, CoolDue, ClearDue, UnlistDue
  <2>2. Untaken(w)'
    BY <2>1 DEF Untaken, Untouched
  <2>3. Covered(w)'
    BY <1>3, <1>k, <2>1 DEF DropDuplicate, CoolDue, ClearDue, UnlistDue, Covered, Marking, Giving,
                            Elsewhere, Fresh
  <2> QED BY <2>2, <2>3
<1>4. CASE Announce(w)
  <2>1. pc[w] = "announce" /\ pc'[w] \in {"markDue", "releaseDue"}
    BY <1>4, <1>g, LabelsInside DEF Announce, Deliver
  <2>2. Untaken(w)'
    BY <2>1 DEF Untaken, Untouched
  <2>3. CASE unheard' = {}
    BY <2>2, <2>3 DEF Covered
  <2>4. CASE unheard' # {}
    <3>1. pc'[w] = "releaseDue" /\ failures' = failures + 1 /\ unheard' = unheard
      BY <1>4, <1>g, <2>4, LabelsInside DEF Announce, Deliver, Reach
    <3>2. delayed' = "waiting"
      BY <1>4, <1>t, <3>1 DEF Announce, TypeOK
    <3>3. Covered(w)'
      BY <1>4, <1>k, <2>1, <3>1, <3>2
         DEF Announce, Covered, Marking, Giving, Elsewhere, Fresh, StillDeferred
    <3> QED BY <2>2, <3>3
  <2> QED BY <2>3, <2>4
<1>5. CASE MarkDue(w)
  <2>1. pc[w] = "markDue" /\ pc'[w] = "coolDue"
    BY <1>5, <1>g, LabelsInside DEF MarkDue
  <2>2. Untaken(w)'
    BY <2>1 DEF Untaken, Untouched
  <2>3. Elsewhere(job[w]) => Elsewhere(None)'
    BY <1>5, NoneIsNoJob DEF MarkDue, Elsewhere, Fresh
  <2>4. Covered(w)'
    BY <1>5, <1>k, <2>1, <2>3 DEF MarkDue, Covered, Marking, Giving, Elsewhere
  <2> QED BY <2>2, <2>4
<1>6. CASE ReleaseDue(w)
  <2>1. pc[w] = "releaseDue" /\ pc'[w] = "fetch"
    BY <1>6, <1>g, LabelsInside DEF ReleaseDue
  <2>2. Untaken(w)'
    BY <2>1 DEF Untaken, Untouched
  <2>3. Covered(w)'
    BY <1>6, <1>k, <2>1 DEF ReleaseDue, Covered, Marking, Giving, Elsewhere, Fresh, StillDeferred
  <2> QED BY <2>2, <2>3
<1> QED
  BY <1>1, <1>2, <1>3, <1>4, <1>5, <1>6 DEF Due

(* The steps of _process_job and of the command's loop.                    *)
LEMMA KeptProcess ==
    ASSUME LockInvariant, Sound, Sent, Kept, NEW w, Workers = {w}, Process(w)
    PROVE  Kept'
<1> USE DEF history, counters, pairVars, streamVars
<1>0. w \in Workers OBVIOUS
<1>t. TypeOK /\ Labelled BY DEF Sound, TypeOK, Labelled
<1>h. /\ pc[w] \in Handling => Current(w) \in Jobs /\ stream[Current(w)] \in {"pending", "acked"}
      /\ pc[w] \in Untouched => Fresh(Current(w)) /\ Current(w) \in Jobs
      /\ pc[w] \in Inside => rpc = "away"
  BY InHand, <1>0
<1>k. Untaken(w) /\ Covered(w) BY <1>0 DEF Kept
<1>g. ASSUME NEW from, NEW to \in Inside \cup Outside, Goto(w, from, to)
      PROVE  pc[w] = from /\ pc'[w] = to
  BY <1>0, <1>t, <1>g, GotoMoves
<1>s. SUFFICES Untaken(w)' /\ Covered(w)'
  BY DEF Kept
<1>1. CASE Fetch(w)
  <2>1. pc[w] = "fetch" /\ pc'[w] = "next"
    BY <1>1, <1>g, LabelsInside DEF Fetch
  <2>2. \A j \in Jobs : Fresh(j) => Fresh(j)'
    BY <1>1 DEF Fetch, Fresh
  <2>3. Covered(w)'
    BY <1>1, <1>k, <2>1, <2>2 DEF Fetch, Covered, Marking, Giving, Elsewhere, StillDeferred
  <2> QED BY <2>1, <2>3 DEF Untaken, Untouched
<1>2. CASE EndBatch(w) \/ Check(w)
  <2>1. pc[w] = "next" /\ pc'[w] \in {"start", "ack", "lock"}
    BY <1>2, <1>g, LabelsInside DEF EndBatch, Check
  <2>2. pc'[w] = "lock" => ~Known(w)
    BY <1>2, <1>g, LabelsInside DEF EndBatch, Check
  <2>3. Untaken(w)'
    BY <1>2, <2>1, <2>2 DEF EndBatch, Check, Untaken, Untouched, Known, Current
  <2>4. Covered(w)'
    BY <1>2, <1>k, <2>1 DEF EndBatch, Check, Covered, Marking, Giving, Elsewhere, Fresh, StillDeferred
  <2> QED BY <2>3, <2>4
<1>3. CASE Lock(w)
  <2>1. pc[w] = "lock" /\ pc'[w] \in {"decide", "next"} /\ (pc'[w] = "decide" => batch' = batch)
    BY <1>3, <1>g, LabelsInside DEF Lock
  <2>2. Untaken(w)'
    BY <1>3, <1>k, <2>1 DEF Lock, Untaken, Untouched, Known, Current
  <2>3. Covered(w)'
    BY <1>3, <1>k, <2>1 DEF Lock, Covered, Marking, Giving, Elsewhere, Fresh, StillDeferred
  <2> QED BY <2>2, <2>3
<1>4. CASE Decide(w)
  <2>1. /\ pc[w] = "decide" /\ pc'[w] \in {"list", "unlist"}
        /\ pc'[w] = "list" => pendingJob' = Current(w)
    BY <1>4, <1>g, LabelsInside DEF Decide
  <2>2. Untaken(w)'
    BY <1>4, <1>k, <2>1 DEF Decide, Untaken, Untouched, Known, Current
  <2>3. Elsewhere(None)'
    BY <1>4, <1>h, <2>1, NoneIsNoJob DEF Decide, Untouched, Elsewhere, Fresh
  <2>4. Covered(w)'
    BY <1>4, <2>1, <2>3 DEF Decide, Covered, Marking, Elsewhere
  <2> QED BY <2>2, <2>4
<1>5. CASE List(w)
  <2>1. pc[w] = "list" /\ pc'[w] = "releaseDeferred" /\ rpc = "away"
    BY <1>5, <1>g, <1>h, LabelsInside DEF List
  <2>2. StillDeferred'
    BY <1>5, <1>k, <1>h, <2>1, NoneIsNoJob DEF List, Untaken, Untouched, Known, StillDeferred
  <2>3. Covered(w)'
    BY <1>5, <2>1, <2>2 DEF List, Covered, Giving
  <2> QED BY <2>1, <2>3 DEF Untaken, Untouched
<1>6. CASE Unlist(w)
  <2>1. pc[w] = "unlist" /\ pc'[w] = "deliver"
    BY <1>6, <1>g, LabelsInside DEF Unlist
  <2>2. Untaken(w)'
    BY <1>6, <1>k, <2>1 DEF Unlist, Untaken, Untouched, Known, Current
  <2>3. Elsewhere(None)'
    BY <1>6, <1>h, <2>1, NoneIsNoJob DEF Unlist, Untouched, Elsewhere, Fresh
  <2>4. Covered(w)'
    BY <2>1, <2>3 DEF Covered, Marking, Elsewhere
  <2> QED BY <2>2, <2>4
<1>7. CASE DeliverNow(w)
  <2>1. pc[w] = "deliver" /\ pc'[w] \in {"cool", "releaseFailed"}
    BY <1>7, <1>g, LabelsInside DEF DeliverNow, Deliver
  <2>2. pc'[w] = "cool" => unheard' = {}
    BY <1>7, <1>g, LabelsInside DEF DeliverNow, Deliver, Reach
  <2>3. Elsewhere(None)'
    BY <1>7, <1>h, <2>1, NoneIsNoJob DEF DeliverNow, Untouched, Elsewhere, Fresh
  <2>4. Covered(w)'
    BY <2>1, <2>2, <2>3 DEF Covered, Marking, Elsewhere
  <2> QED BY <2>1, <2>4 DEF Untaken, Untouched
<1>8. CASE Cool(w)
  <2>1. pc[w] = "cool" /\ pc'[w] = "releaseDelivered"
    BY <1>8, <1>g, LabelsInside DEF Cool
  <2>2. Covered(w)'
    BY <1>8, <1>k, <2>1 DEF Cool, Covered, Marking, Giving, Elsewhere, Fresh, Current
  <2> QED BY <2>1, <2>2 DEF Untaken, Untouched
<1>9. CASE Release(w)
  <2>1. \/ pc[w] = "releaseDeferred" /\ pc'[w] = "markDeferred" /\ batch' = batch
        \/ pc[w] = "releaseDelivered" /\ pc'[w] = "markDelivered" /\ batch' = batch
        \/ pc[w] = "releaseFailed" /\ pc'[w] = "next"
    BY <1>9, <1>g, LabelsInside DEF Release
  <2>2. Covered(w)'
    BY <1>9, <1>k, <2>1
       DEF Release, Covered, Marking, Giving, Elsewhere, Fresh, StillDeferred, Current
  <2> QED BY <2>1, <2>2 DEF Untaken, Untouched
<1>10. CASE Mark(w)
  <2>1. pc[w] \in {"markDeferred", "markDelivered"} /\ pc'[w] = "ack"
    BY <1>10, <1>g, LabelsInside DEF Mark
  <2>2. delivered' \cup deferred' = delivered \cup deferred \cup {Current(w)}
    BY <1>10 DEF Mark
  <2>3. Elsewhere(Current(w)) => Elsewhere(None)'
    BY <1>10, <2>2, NoneIsNoJob DEF Mark, Elsewhere, Fresh
  <2>4. pc[w] = "markDeferred" => delivered' = delivered
    BY <1>10, <1>g, LabelsInside DEF Mark
  <2>5. Covered(w)'
    BY <1>10, <1>k, <2>1, <2>3, <2>4 DEF Mark, Covered, Marking, Giving, Elsewhere, StillDeferred
  <2> QED BY <2>1, <2>5 DEF Untaken, Untouched
<1>11. CASE Acknowledge(w)
  <2>1. pc[w] = "ack" /\ pc'[w] = "next" /\ Known(w)
    BY <1>0, <1>11, <1>g, LabelsInside DEF Acknowledge, Sent, AckingIsMarked
  <2>2. \A j \in Jobs : Fresh(j) => Fresh(j)'
    BY <1>t, <1>11, <2>1 DEF Acknowledge, Fresh, Known, TypeOK
  <2>3. Covered(w)'
    BY <1>11, <1>k, <2>1, <2>2 DEF Acknowledge, Covered, Marking, Giving, Elsewhere, StillDeferred
  <2> QED BY <2>1, <2>3 DEF Untaken, Untouched
<1> QED
  BY <1>1, <1>2, <1>3, <1>4, <1>5, <1>6, <1>7, <1>8, <1>9, <1>10, <1>11 DEF Process

(* What the web process does, time, and processes that stop.               *)
LEMMA KeptOther ==
    ASSUME LockInvariant, Sound, Sent, Kept, NEW w, Workers = {w},
           Web \/ Time \/ CrashWeb \/ Crash(w)
    PROVE  Kept'
<1> USE DEF history, counters, pairVars, streamVars, workVars
<1>0. w \in Workers OBVIOUS
<1>t. TypeOK BY DEF Sound
<1>h. /\ pc[w] \in Handling => Current(w) \in Jobs /\ stream[Current(w)] \in {"pending", "acked"}
      /\ pc[w] = "markDue" => job[w] \in Jobs /\ stream[job[w]] # "unsent"
      /\ pc[w] \in Inside => rpc = "away"
  BY InHand, <1>0
<1>k. Untaken(w) /\ Covered(w) BY <1>0 DEF Kept
<1>s. SUFFICES Untaken(w)' /\ Covered(w)'
  BY DEF Kept
<1>1. ASSUME NEW j \in Jobs, Enqueue(j)
      PROVE  Untaken(w)' /\ Covered(w)'
  <2>1. Untaken(w)'
    BY <1>1, <1>k DEF Enqueue, Untaken, Known, Current
  <2>2. stream[j] = "unsent" /\ stream'[j] = "new"
    BY <1>1, <1>t DEF Enqueue, TypeOK
  <2>3. Fresh(j)'
    BY <1>1, <2>2 DEF Enqueue, Fresh, Sent, MarkedAreSent
  <2>4. Marking(w) # j
    BY <1>h, <2>2, NoneIsNoJob DEF Marking, Handling
  <2>5. Marking(w)' = Marking(w)
    BY <1>1 DEF Enqueue, Marking, Current
  <2> QED
    BY <2>1, <2>3, <2>4, <2>5 DEF Covered, Elsewhere
<1>2. CASE OpenRoom
  BY <1>2, <1>k DEF OpenRoom, Untaken, Known, Current, Covered
<1>3. CASE ClearState
  <2>1. pc[w] # "list"
    BY <1>3, <1>h, LabelsInside DEF ClearState
  <2>2. Untaken(w)'
    BY <1>3, <1>k, <2>1 DEF ClearState, Untaken, Known, Current
  <2>3. Covered(w)'
    BY <1>3, <1>k DEF ClearState, Covered, Marking, Giving, Elsewhere, Fresh, Current
  <2> QED BY <2>2, <2>3
<1>4. CASE UnlistCleared \/ LeaveLock \/ CrashWeb
  <2>1. Untaken(w)'
    BY <1>4, <1>k DEF UnlistCleared, LeaveLock, CrashWeb, Untaken, Known, Current
  <2>2. Covered(w)'
    BY <1>4, <1>k DEF UnlistCleared, LeaveLock, CrashWeb, Covered, Marking, Giving, Elsewhere,
                      Fresh, StillDeferred, Current
  <2> QED BY <2>1, <2>2
<1>5. CASE Time
  <2>1. UNCHANGED <<pc, batch, job, rpc, stream, delivered, deferred, pendingJob, unheard>>
    BY <1>5 DEF Time, HourPasses, RetryFallsDue, LockExpires, FallIdle
  <2>2. delayed # "none" => delayed' # "none"
    BY <1>5 DEF Time, HourPasses, RetryFallsDue, LockExpires, FallIdle
  <2>3. Untaken(w)'
    BY <1>k, <2>1 DEF Untaken, Known, Current
  <2>4. Covered(w)'
    BY <1>k, <2>1, <2>2 DEF Covered, Marking, Giving, Elsewhere, Fresh, StillDeferred, Current
  <2> QED BY <2>3, <2>4
<1>6. CASE Crash(w)
  <2>1. pc'[w] = "start"
    BY <1>0, <1>t, <1>6 DEF Crash, TypeOK
  <2>2. Elsewhere(Marking(w)) => Elsewhere(None)'
    BY <1>6, NoneIsNoJob DEF Crash, Elsewhere, Fresh
  <2>3. Covered(w)'
    BY <1>6, <1>k, <2>1, <2>2 DEF Crash, Covered, Marking, Giving, Elsewhere, StillDeferred
  <2> QED BY <2>1, <2>3 DEF Untaken, Untouched
<1> QED
  BY <1>1, <1>2, <1>3, <1>4, <1>5, <1>6 DEF Web

LEMMA KeptStep ==
    ASSUME NEW w, Workers = {w}, LockInvariant, Sound, Sent, Kept, [Next]_vars
    PROVE  Kept'
<1>1. CASE Next
  BY <1>1, KeptDue, KeptProcess, KeptOther DEF Next, Work
<1>2. CASE UNCHANGED vars
  BY <1>2 DEF vars, streamVars, history, pairVars, workVars, Kept, Untaken, Covered, Known, Current,
              Marking, Giving, Elsewhere, Fresh, StillDeferred
<1> QED
  BY <1>1, <1>2

(* Of a single worker, which the deployment runs, no message is lost:      *)
(* whatever stops, fails or is slow, as long as the member has not heard   *)
(* of a message, a job that will be pushed is left.                        *)
THEOREM QueueInvariantHolds ==
    ASSUME NEW w, Workers = {w}
    PROVE  Spec => []QueueInvariant
<1>1. LockInvariant /\ Sound /\ Sent /\ Kept /\ [Next]_vars => Kept'
  BY KeptStep
<1>2. Sound /\ Kept => QueueInvariant
  <2> SUFFICES ASSUME Sound, Kept PROVE QueueInvariant
    OBVIOUS
  <2>1. unheard # {} => (\E j \in Jobs : Fresh(j)) \/ StillDeferred
    BY DEF Kept, Covered, Elsewhere
  <2> QED
    BY <2>1 DEF Sound, QueueInvariant, NothingIsLost, Fresh, StillDeferred
<1> QED
  BY <1>1, <1>2, AlwaysLockInvariant, AlwaysSound, SentInit, SentStep, KeptInit, PTL DEF Spec

-----------------------------------------------------------------------------
(* What the opening of the room has dropped is not pushed                  *)

(* A job is with one worker at most, once, and nobody else may claim it.   *)
HeldOnce ==
    /\ \A w \in Workers : \A i \in DOMAIN batch[w] :
          stream[batch[w][i]] = "pending" /\ batch[w][i] \notin idle
    /\ \A v, w \in Workers : \A i \in DOMAIN batch[v], k \in DOMAIN batch[w] :
          batch[v][i] = batch[w][k] => v = w /\ i = k

(* A job that was deferred, and is not decided on again.                   *)
Spending == {"list", "releaseDeferred", "markDeferred", "ack"}
Spent(j) == \/ stream[j] = "acked"
            \/ \E w \in Workers : pc[w] \in Spending /\ Current(w) = j

(* The deferred job is spent and was not dropped, what was dropped is      *)
(* spent, and who repeats a job repeats the deferred one.                  *)
DroppedIsSpent == \A j \in silenced : Spent(j)
DeferredIsSpent == pendingJob # None => Spent(pendingJob) /\ pendingJob \notin silenced
RepeatsDeferred == \A w \in Workers : pc[w] \in Repeating => job[w] = pendingJob

Silent == HeldOnce /\ DroppedIsSpent /\ DeferredIsSpent /\ RepeatsDeferred

LEMMA SilentInit == Init => Silent
<1> SUFFICES ASSUME Init PROVE Silent
  OBVIOUS
<1>1. \A w \in Workers : pc[w] = "start" /\ DOMAIN batch[w] = {}
  BY DEF Init
<1> QED
  BY <1>1 DEF Init, Silent, HeldOnce, DroppedIsSpent, DeferredIsSpent, RepeatsDeferred, Repeating

(* Faults are never forgotten.                                             *)
LEMMA FaultlessBefore ==
    ASSUME LockInvariant, Sound, [Next]_vars, Faultless'
    PROVE  Faultless
<1> USE DEF counters
<1>0. slow \in Nat /\ crashes' = 0 /\ failures' = 0 /\ slow' = 0
  BY BoundsAssumption DEF Sound, TypeOK, Faultless
<1>1. CASE Web \/ Time
  BY <1>0, <1>1 DEF Web, OpenRoom, ClearState, UnlistCleared, LeaveLock, Enqueue, Time, HourPasses,
              RetryFallsDue, LockExpires, FallIdle, Faultless
<1>2. ASSUME CrashWeb \/ \E w \in Workers : Crash(w) PROVE slow = 0
  BY <1>0, <1>2 DEF CrashWeb, Crash
<1>3. ASSUME \E w \in Workers : Due(w) PROVE slow = 0
  BY <1>0, <1>3 DEF Due, LookForDue, LockDue, Consider, DropDuplicate, Announce, MarkDue,
              CoolDue, ClearDue, UnlistDue, ReleaseDue
<1>4. ASSUME \E w \in Workers : Process(w) PROVE slow = 0
  BY <1>0, <1>4 DEF Process, Fetch, EndBatch, Check, Lock, Decide, List, Unlist, DeliverNow,
              Cool, Release, Mark, Acknowledge
<1>5. ASSUME UNCHANGED vars PROVE slow = 0
  BY <1>0, <1>5 DEF vars
<1> QED
  BY <1>0, <1>1, <1>2, <1>3, <1>4, <1>5, FaultsGrow DEF Next, Work, Faultless

(* A job that a worker is going to decide on or to push is not spent.      *)
LEMMA UndecidedIsUnspent ==
    ASSUME Sound, HeldOnce, NEW w \in Workers, pc[w] \in Handling \ Spending
    PROVE  Current(w) \in Jobs /\ ~Spent(Current(w))
<1>1. \A v \in Workers : pc[v] \in Handling =>
         Current(v) \in Jobs /\ 1 \in DOMAIN batch[v] /\ batch[v][1] = Current(v)
  <2> SUFFICES ASSUME NEW v \in Workers, pc[v] \in Handling
               PROVE  Current(v) \in Jobs /\ 1 \in DOMAIN batch[v] /\ batch[v][1] = Current(v)
    OBVIOUS
  <2>1. batch[v] \in Seq(Jobs) /\ batch[v] # <<>>
    BY DEF Sound, Engaged, TypeOK
  <2> QED
    BY <2>1, TailFacts DEF Current
<1>2. Spending \subseteq Handling
  BY DEF Spending, Handling
<1>3. stream[Current(w)] = "pending"
  BY <1>1 DEF HeldOnce
<1>4. ASSUME NEW v \in Workers, pc[v] \in Spending, Current(v) = Current(w) PROVE FALSE
  <2>1. v = w
    BY <1>1, <1>2, <1>4 DEF HeldOnce
  <2> QED
    BY <1>4, <2>1
<1> QED
  BY <1>1, <1>3, <1>4 DEF Spent

(* The same jobs in the same hands.                                        *)
LEMMA HeldOnceRests ==
    ASSUME HeldOnce, UNCHANGED <<stream, idle, batch>>
    PROVE  HeldOnce'
BY DEF HeldOnce

(* A worker leaves its first job, which alone may be acknowledged.         *)
LEMMA HeldOnceShrinks ==
    ASSUME TypeOK, HeldOnce, NEW w \in Workers, batch[w] # <<>>, Rest(w), idle' \subseteq idle,
           \A j \in Jobs : j # Current(w) => stream'[j] = stream[j]
    PROVE  HeldOnce'
<1>0. batch \in [Workers -> Seq(Jobs)] BY DEF TypeOK
<1>1. batch'[w] = Tail(batch[w]) /\ \A v \in Workers \ {w} : batch'[v] = batch[v]
  BY RestFacts
<1>2. /\ \A i \in DOMAIN batch'[w] : i + 1 \in DOMAIN batch[w] /\ batch'[w][i] = batch[w][i + 1]
      /\ 1 \in DOMAIN batch[w] /\ batch[w][1] = Current(w)
      /\ DOMAIN batch'[w] \subseteq Nat \ {0}
  <2>1. Tail(batch[w]) \in Seq(Jobs)
    BY <1>0, TailFacts
  <2>2. DOMAIN Tail(batch[w]) \subseteq Nat \ {0}
    BY <2>1
  <2> QED
    BY <1>0, <1>1, <2>2, TailFacts DEF Current
<1> DEFINE At(v, i) == IF v = w THEN i + 1 ELSE i
<1>3. ASSUME NEW v \in Workers, NEW i \in DOMAIN batch'[v]
      PROVE  /\ At(v, i) \in DOMAIN batch[v] /\ batch'[v][i] = batch[v][At(v, i)]
             /\ batch'[v][i] \in Jobs /\ batch'[v][i] # Current(w)
  <2>1. At(v, i) \in DOMAIN batch[v] /\ batch'[v][i] = batch[v][At(v, i)]
    BY <1>1, <1>2, <1>3
  <2>2. batch[v][At(v, i)] \in Jobs
    BY <1>0, <2>1
  <2>3. v = w => i + 1 # 1
    BY <1>2, <1>3
  <2>4. batch[v][At(v, i)] # Current(w)
    BY <1>2, <2>1, <2>3 DEF HeldOnce
  <2> QED
    BY <2>1, <2>2, <2>4
<1>4. ASSUME NEW v \in Workers, NEW i \in DOMAIN batch'[v]
      PROVE  stream'[batch'[v][i]] = "pending" /\ batch'[v][i] \notin idle'
  <2>1. stream[batch'[v][i]] = "pending" /\ batch'[v][i] \notin idle
    BY <1>3, <1>4 DEF HeldOnce
  <2> QED
    BY <1>3, <1>4, <2>1
<1>5. ASSUME NEW u \in Workers, NEW v \in Workers, NEW i \in DOMAIN batch'[u], NEW k \in DOMAIN batch'[v],
             batch'[u][i] = batch'[v][k]
      PROVE  u = v /\ i = k
  <2>1. u = v /\ At(u, i) = At(v, k)
    BY <1>3, <1>5 DEF HeldOnce
  <2>2. u # w => i = k
    BY <2>1
  <2>3. u = w => i \in Nat /\ k \in Nat /\ i + 1 = k + 1
    BY <1>2, <1>5, <2>1
  <2> QED
    BY <2>1, <2>2, <2>3
<1> QED
  BY <1>4, <1>5 DEF HeldOnce

(* A worker fetches what is idle or new, which nobody has.                 *)
LEMMA HeldOnceFetched ==
    ASSUME TypeOK, HeldOnce, NEW w \in Workers, Fetch(w)
    PROVE  HeldOnce'
<1> DEFINE a == InOrder(idle)
           b == InOrder(NewJobs)
<1>0. batch \in [Workers -> Seq(Jobs)] /\ \A j \in idle : stream[j] = "pending"
  BY DEF TypeOK
<1>1. /\ batch'[w] = a \o b /\ \A v \in Workers \ {w} : batch'[v] = batch[v]
      /\ idle \in SUBSET Jobs /\ NewJobs \in SUBSET Jobs
      /\ \A i \in DOMAIN batch'[w] : batch'[w][i] \in idle \cup NewJobs
      /\ \A j \in Jobs : stream'[j] = IF stream[j] = "new" THEN "pending" ELSE stream[j]
  BY FetchFacts
<1>2. idle' = {} BY DEF Fetch
<1>3. \A j \in idle \cup NewJobs : j \in Jobs /\ stream'[j] = "pending"
  BY <1>0, <1>1 DEF NewJobs
<1>4. ASSUME NEW v \in Workers \ {w}, NEW i \in DOMAIN batch'[v]
      PROVE  /\ i \in DOMAIN batch[v] /\ batch'[v][i] = batch[v][i] /\ batch[v][i] \in Jobs
             /\ stream[batch[v][i]] = "pending" /\ batch'[v][i] \notin idle \cup NewJobs
  <2>1. i \in DOMAIN batch[v] /\ batch'[v] = batch[v]
    BY <1>1, <1>4
  <2>2. batch[v][i] \in Jobs
    BY <1>0, <2>1
  <2> QED
    BY <2>1, <2>2 DEF HeldOnce, NewJobs
<1>5. ASSUME NEW v \in Workers, NEW i \in DOMAIN batch'[v]
      PROVE  stream'[batch'[v][i]] = "pending" /\ batch'[v][i] \notin idle'
  <2>1. CASE v = w BY <1>1, <1>2, <1>3, <1>5, <2>1
  <2>2. CASE v # w BY <1>1, <1>2, <1>4, <1>5, <2>2
  <2> QED BY <2>1, <2>2
<1>6. ASSUME NEW i \in DOMAIN batch'[w], NEW k \in DOMAIN batch'[w], batch'[w][i] = batch'[w][k]
      PROVE  i = k
  <2>1. /\ a \in Seq(Jobs) /\ Ascending(a) /\ \A m \in DOMAIN a : a[m] \in idle
        /\ b \in Seq(Jobs) /\ Ascending(b) /\ \A m \in DOMAIN b : b[m] \in NewJobs
    BY <1>1, InOrderFacts
  <2>2. Len(a) \in Nat /\ DOMAIN a \subseteq Int /\ DOMAIN b \subseteq Int
    BY <2>1
  <2>3. \A j \in Jobs : j \in Int
    BY DEF Jobs
  <2> HIDE DEF a, b
  <2>4. \A m, n \in DOMAIN a : a[m] = a[n] => m = n
    <3> SUFFICES ASSUME NEW m \in DOMAIN a, NEW n \in DOMAIN a, a[m] = a[n], m # n
                 PROVE  FALSE
      OBVIOUS
    <3>1. m < n \/ n < m
      BY <2>2
    <3>2. a[m] < a[n] \/ a[n] < a[m]
      BY <2>1, <3>1 DEF Ascending
    <3>3. a[m] \in Int
      BY <2>1, <2>3 DEF NewJobs
    <3> QED BY <3>2, <3>3
  <2>5. \A m, n \in DOMAIN b : b[m] = b[n] => m = n
    <3> SUFFICES ASSUME NEW m \in DOMAIN b, NEW n \in DOMAIN b, b[m] = b[n], m # n
                 PROVE  FALSE
      OBVIOUS
    <3>1. m < n \/ n < m
      BY <2>2
    <3>2. b[m] < b[n] \/ b[n] < b[m]
      BY <2>1, <3>1 DEF Ascending
    <3>3. b[m] \in Int
      BY <2>1, <2>3 DEF NewJobs
    <3> QED BY <3>2, <3>3
  <2>6. idle \cap NewJobs = {}
    BY <1>0 DEF NewJobs
  <2>7. \A m \in DOMAIN (a \o b) :
           \/ m \in DOMAIN a /\ (a \o b)[m] = a[m]
           \/ m - Len(a) \in DOMAIN b /\ (a \o b)[m] = b[m - Len(a)] /\ m \in Int
    <3>1. a \o b \in Seq(Jobs)
      BY <2>1, ConcatFacts
    <3>2. DOMAIN (a \o b) \subseteq Int
      BY <3>1
    <3> QED
      BY <2>1, <3>2, ConcatFacts
  <2>8. CASE i \in DOMAIN a /\ k \in DOMAIN a /\ batch'[w][i] = a[i] /\ batch'[w][k] = a[k]
    BY <1>6, <2>4, <2>8
  <2>9. CASE /\ i - Len(a) \in DOMAIN b /\ k - Len(a) \in DOMAIN b /\ i \in Int /\ k \in Int
             /\ batch'[w][i] = b[i - Len(a)] /\ batch'[w][k] = b[k - Len(a)]
    <3>1. i - Len(a) = k - Len(a)
      BY <1>6, <2>5, <2>9
    <3> QED
      BY <2>2, <2>9, <3>1
  <2>10. CASE \/ /\ i \in DOMAIN a /\ k - Len(a) \in DOMAIN b
                 /\ batch'[w][i] = a[i] /\ batch'[w][k] = b[k - Len(a)]
              \/ /\ k \in DOMAIN a /\ i - Len(a) \in DOMAIN b
                 /\ batch'[w][k] = a[k] /\ batch'[w][i] = b[i - Len(a)]
    BY <1>6, <2>1, <2>6, <2>10
  <2> QED
    BY <1>1, <1>6, <2>7, <2>8, <2>9, <2>10 DEF a, b
<1>7. ASSUME NEW u \in Workers, NEW v \in Workers, NEW i \in DOMAIN batch'[u], NEW k \in DOMAIN batch'[v],
             batch'[u][i] = batch'[v][k]
      PROVE  u = v /\ i = k
  <2>1. CASE u = w /\ v = w BY <1>6, <1>7, <2>1
  <2>2. CASE u = w /\ v # w
    <3>1. batch'[v][k] \notin idle \cup NewJobs BY <1>4, <1>7, <2>2
    <3> QED BY <1>1, <1>7, <2>2, <3>1
  <2>3. CASE u # w /\ v = w
    <3>1. batch'[u][i] \notin idle \cup NewJobs BY <1>4, <1>7, <2>3
    <3> QED BY <1>1, <1>7, <2>3, <3>1
  <2>4. CASE u # w /\ v # w
    BY <1>1, <1>7, <2>4 DEF HeldOnce
  <2> QED BY <2>1, <2>2, <2>3, <2>4
<1> QED
  BY <1>5, <1>7 DEF HeldOnce

(* While nothing fails, every step leaves each job with one worker.        *)
LEMMA HeldOnceStep ==
    ASSUME LockInvariant, Sound, HeldOnce, [Next]_vars, Faultless'
    PROVE  HeldOnce'
<1> USE DEF history, counters, pairVars, streamVars, workVars
<1>t. TypeOK BY DEF Sound
<1>h. \A w \in Workers : pc[w] \in Handling => batch[w] # <<>>
  BY DEF Sound, Engaged
<1>1. ASSUME NEW w \in Workers, Due(w) PROVE HeldOnce'
  BY <1>1, HeldOnceRests
     DEF Due, LookForDue, LockDue, Consider, DropDuplicate, Announce, MarkDue, CoolDue, ClearDue,
         UnlistDue, ReleaseDue
<1>2. ASSUME NEW w \in Workers, Fetch(w) PROVE HeldOnce'
  BY <1>t, <1>2, HeldOnceFetched
<1>3. ASSUME NEW w \in Workers,
             EndBatch(w) \/ Check(w) \/ Decide(w) \/ List(w) \/ Unlist(w) \/ DeliverNow(w) \/ Cool(w) \/ Mark(w)
      PROVE  HeldOnce'
  BY <1>3, HeldOnceRests DEF EndBatch, Check, Decide, List, Unlist, DeliverNow, Cool, Mark
<1>4. ASSUME NEW w \in Workers, Lock(w) \/ Release(w) PROVE HeldOnce'
  <2>1. UNCHANGED <<stream, idle>> /\ (UNCHANGED batch \/ (Rest(w) /\ pc[w] \in {"lock", "releaseFailed"}))
    BY <1>4 DEF Lock, Release, Goto
  <2> QED
    BY <1>t, <1>h, <1>4, <2>1, HeldOnceRests, HeldOnceShrinks DEF Handling
<1>5. ASSUME NEW w \in Workers, Acknowledge(w) PROVE HeldOnce'
  <2>1. pc[w] = "ack" /\ Rest(w) /\ idle' \subseteq idle
        /\ \A j \in Jobs : j # Current(w) => stream'[j] = stream[j]
    BY <1>t, <1>5 DEF Acknowledge, Goto, TypeOK
  <2> QED
    BY <1>t, <1>h, <1>5, <2>1, HeldOnceShrinks DEF Handling
<1>6. ASSUME NEW j \in Jobs, Enqueue(j) PROVE HeldOnce'
  <2>1. \A i \in Jobs : stream[i] = "pending" => stream'[i] = "pending"
    BY <1>t, <1>6 DEF Enqueue, TypeOK
  <2>2. \A w \in Workers : \A i \in DOMAIN batch[w] : batch[w][i] \in Jobs
    BY <1>t DEF TypeOK
  <2> QED
    BY <1>6, <2>1, <2>2 DEF Enqueue, HeldOnce
<1>7. ASSUME NEW j \in Jobs, FallIdle(j) PROVE HeldOnce'
  <2>1. slow \in Nat /\ slow' = 0
    BY <1>t, BoundsAssumption DEF TypeOK, Faultless
  <2>2. ~Held(j)
    BY <1>7, <2>1 DEF FallIdle
  <2> QED
    BY <1>7, <2>2 DEF FallIdle, HeldOnce, Held
<1>8. CASE OpenRoom \/ ClearState \/ UnlistCleared \/ LeaveLock \/ HourPasses \/ RetryFallsDue \/ LockExpires
  BY <1>8, HeldOnceRests
     DEF OpenRoom, ClearState, UnlistCleared, LeaveLock, HourPasses, RetryFallsDue, LockExpires
<1>9. CASE CrashWeb \/ \E w \in Workers : Crash(w)
  <2>1. crashes \in Nat /\ crashes' = 0
    BY <1>t, BoundsAssumption DEF TypeOK, Faultless
  <2> QED
    BY <1>9, <2>1 DEF CrashWeb, Crash
<1>10. CASE UNCHANGED vars
  BY <1>10, HeldOnceRests DEF vars
<1> QED
  BY <1>1, <1>2, <1>3, <1>4, <1>5, <1>6, <1>7, <1>8, <1>9, <1>10 DEF Next, Web, Time, Work, Process

(* A worker moves alone; one that has spent its first job goes on with it  *)
(* or acknowledges it.                                                     *)
LEMMA WorkerAlone ==
    ASSUME Sound, NEW w \in Workers, Work(w)
    PROVE  /\ \A v \in Workers \ {w} : pc'[v] = pc[v] /\ batch'[v] = batch[v] /\ job'[v] = job[v]
           /\ pc[w] \in Spending =>
                \/ pc'[w] \in Spending /\ batch' = batch
                \/ stream' = [stream EXCEPT ![Current(w)] = "acked"]
<1> USE DEF history, counters, pairVars, streamVars
<1>t. TypeOK /\ Labelled BY DEF Sound, TypeOK, Labelled
<1>g. ASSUME NEW from, NEW to \in Inside \cup Outside, Goto(w, from, to)
      PROVE  pc[w] = from /\ pc'[w] = to /\ \A v \in Workers \ {w} : pc'[v] = pc[v]
  BY <1>t, <1>g, GotoMoves
<1>1. CASE Due(w)
  <2>1. pc[w] \notin Spending /\ \A v \in Workers \ {w} : pc'[v] = pc[v]
    BY <1>1, <1>g, LabelsInside
       DEF Due, LookForDue, LockDue, Consider, DropDuplicate, Announce, Deliver, MarkDue, CoolDue,
           ClearDue, UnlistDue, ReleaseDue, Spending
  <2>2. UNCHANGED batch /\ \A v \in Workers \ {w} : job'[v] = job[v]
    BY <1>1, <1>t
       DEF Due, LookForDue, LockDue, Consider, DropDuplicate, Announce, MarkDue, CoolDue,
           ClearDue, UnlistDue, ReleaseDue, TypeOK
  <2> QED BY <2>1, <2>2
<1>2. CASE Process(w)
  <2>1. UNCHANGED job /\ \A v \in Workers \ {w} : pc'[v] = pc[v]
    BY <1>2, <1>g, LabelsInside
       DEF Process, Fetch, EndBatch, Check, Lock, Decide, List, Unlist, DeliverNow, Deliver, Cool,
           Release, Mark, Acknowledge
  <2>2. \A v \in Workers \ {w} : batch'[v] = batch[v]
    BY <1>2, <1>t
       DEF Process, Fetch, EndBatch, Check, Lock, Decide, List, Unlist, DeliverNow, Cool,
           Release, Mark, Acknowledge, Rest, TypeOK
  <2>3. CASE List(w) \/ Mark(w)
    BY <1>g, <2>1, <2>2, <2>3, LabelsInside DEF List, Mark, Spending
  <2>4. CASE Release(w)
    BY <1>g, <2>1, <2>2, <2>4, LabelsInside DEF Release, Spending
  <2>5. CASE Acknowledge(w)
    BY <2>1, <2>2, <2>5 DEF Acknowledge
  <2>6. CASE Fetch(w) \/ EndBatch(w) \/ Check(w) \/ Lock(w) \/ Decide(w) \/ Unlist(w) \/ DeliverNow(w) \/ Cool(w)
    <3>1. pc[w] \notin Spending
      BY <2>6 DEF Fetch, EndBatch, Check, Lock, Decide, Unlist, DeliverNow, Deliver, Cool, Goto, Spending
    <3> QED BY <2>1, <2>2, <3>1
  <2> QED
    BY <1>2, <2>3, <2>4, <2>5, <2>6 DEF Process
<1> QED
  BY <1>1, <1>2 DEF Work

(* What is acknowledged stays so.                                          *)
LEMMA AckedStays ==
    ASSUME TypeOK, [Next]_vars, NEW j \in Jobs, stream[j] = "acked"
    PROVE  stream'[j] = "acked"
<1> USE DEF history, counters, pairVars, streamVars, workVars
<1>1. ASSUME NEW w \in Workers, Due(w) PROVE stream' = stream
  BY <1>1 DEF Due, LookForDue, LockDue, Consider, DropDuplicate, Announce, MarkDue, CoolDue,
              ClearDue, UnlistDue, ReleaseDue
<1>2. ASSUME NEW w \in Workers, Process(w) PROVE stream'[j] = "acked"
  <2>1. CASE Fetch(w) BY <2>1, FetchFacts
  <2>2. CASE Acknowledge(w) BY <2>2 DEF Acknowledge, TypeOK
  <2> QED
    BY <1>2, <2>1, <2>2
       DEF Process, EndBatch, Check, Lock, Decide, List, Unlist, DeliverNow, Cool, Release, Mark
<1>3. ASSUME NEW i \in Jobs, Enqueue(i) PROVE stream'[j] = "acked"
  BY <1>3 DEF Enqueue, TypeOK
<1>4. ASSUME \/ OpenRoom \/ ClearState \/ UnlistCleared \/ LeaveLock \/ Time \/ CrashWeb
             \/ \E w \in Workers : Crash(w)
      PROVE  stream' = stream
  BY <1>4 DEF OpenRoom, ClearState, UnlistCleared, LeaveLock, Time, HourPasses, RetryFallsDue,
              LockExpires, FallIdle, CrashWeb, Crash
<1> QED
  BY <1>1, <1>2, <1>3, <1>4 DEF Next, Work, Web, vars

(* While nothing fails, a spent job stays spent.                           *)
LEMMA SpentStays ==
    ASSUME LockInvariant, Sound, [Next]_vars, Faultless', NEW j \in Jobs, Spent(j)
    PROVE  Spent(j)'
<1> USE DEF history, counters, pairVars, streamVars, workVars
<1>t. TypeOK BY DEF Sound
<1>1. CASE stream[j] = "acked"
  BY <1>t, <1>1, AckedStays DEF Spent
<1>2. ASSUME NEW v \in Workers, pc[v] \in Spending, Current(v) = j
      PROVE  Spent(j)'
  <2>1. ASSUME NEW w \in Workers, Work(w) PROVE Spent(j)'
    <3>1. CASE v # w
      BY <1>2, <2>1, <3>1, WorkerAlone DEF Spent, Current
    <3>2. CASE v = w /\ pc'[w] \in Spending /\ batch' = batch
      BY <1>2, <3>2 DEF Spent, Current
    <3>3. CASE v = w /\ stream' = [stream EXCEPT ![Current(w)] = "acked"]
      BY <1>t, <1>2, <3>3 DEF Spent, TypeOK
    <3> QED BY <1>2, <2>1, <3>1, <3>2, <3>3, WorkerAlone
  <2>2. CASE Web \/ Time \/ UNCHANGED vars
    <3>1. UNCHANGED <<pc, batch>>
      BY <2>2 DEF Web, OpenRoom, ClearState, UnlistCleared, LeaveLock, Enqueue, Time, HourPasses,
                  RetryFallsDue, LockExpires, FallIdle, vars
    <3> QED BY <1>2, <3>1 DEF Spent, Current
  <2>3. CASE CrashWeb \/ \E w \in Workers : Crash(w)
    <3>1. crashes \in Nat /\ crashes' = 0
      BY <1>t, BoundsAssumption DEF TypeOK, Faultless
    <3> QED
      BY <2>3, <3>1 DEF CrashWeb, Crash
  <2> QED BY <2>1, <2>2, <2>3 DEF Next
<1> QED
  BY <1>1, <1>2 DEF Spent

(* Who changes the deferred job: the web process, or the worker that has   *)
(* the lock; and only the web process drops one.                           *)
LEMMA DeferredChanges ==
    ASSUME Sound, [Next]_vars
    PROVE  \/ UNCHANGED <<pendingJob, silenced>>
           \/ ClearState
           \/ \E w \in Workers :
                /\ pc[w] \in {"drop", "clearDue", "decide"} /\ UNCHANGED <<silenced, job>>
                /\ \/ pendingJob' = None
                   \/ /\ pc[w] = "decide" /\ pendingJob' = Current(w)
                      /\ pc'[w] = "list" /\ batch' = batch
<1> USE DEF history, counters, pairVars, streamVars, workVars
<1>t. Labelled BY DEF Sound, TypeOK, Labelled
<1>1. ASSUME NEW w \in Workers, DropDuplicate(w) \/ ClearDue(w)
      PROVE  pc[w] \in {"drop", "clearDue"} /\ UNCHANGED <<silenced, job>> /\ pendingJob' = None
  BY <1>1 DEF DropDuplicate, ClearDue, Goto
<1>2. ASSUME NEW w \in Workers, Decide(w)
      PROVE  /\ pc[w] = "decide" /\ UNCHANGED <<silenced, job, batch>>
             /\ pendingJob' = None \/ (pendingJob' = Current(w) /\ pc'[w] = "list")
  BY <1>t, <1>2, GotoMoves, LabelsInside DEF Decide, Goto
<1>3. ASSUME NEW w \in Workers,
             \/ LookForDue(w) \/ LockDue(w) \/ Consider(w) \/ Announce(w) \/ MarkDue(w)
             \/ CoolDue(w) \/ UnlistDue(w) \/ ReleaseDue(w)
             \/ Fetch(w) \/ EndBatch(w) \/ Check(w) \/ Lock(w) \/ List(w) \/ Unlist(w)
             \/ DeliverNow(w) \/ Cool(w) \/ Release(w) \/ Mark(w) \/ Acknowledge(w) \/ Crash(w)
      PROVE  UNCHANGED <<pendingJob, silenced>>
  BY <1>3 DEF LookForDue, LockDue, Consider, Announce, MarkDue, CoolDue, UnlistDue, ReleaseDue,
              Fetch, EndBatch, Check, Lock, List, Unlist, DeliverNow, Cool, Release, Mark,
              Acknowledge, Crash
<1>4. ASSUME OpenRoom \/ UnlistCleared \/ LeaveLock \/ (\E j \in Jobs : Enqueue(j)) \/ Time \/ CrashWeb
             \/ UNCHANGED vars
      PROVE  UNCHANGED <<pendingJob, silenced>>
  BY <1>4 DEF OpenRoom, UnlistCleared, LeaveLock, Enqueue, Time, HourPasses, RetryFallsDue,
              LockExpires, FallIdle, CrashWeb, vars
<1> QED
  BY <1>1, <1>2, <1>3, <1>4 DEF Next, Web, Work, Due, Process

(* Nobody drops or replaces the deferred job while a worker repeats it.    *)
LEMMA RepeatedIsKept ==
    ASSUME LockInvariant, Sound, [Next]_vars, NEW v \in Workers, pc[v] \in Repeating
    PROVE  pendingJob' = pendingJob
<1>1. lock = v /\ v # Reader
  BY BoundsAssumption DEF LockInvariant, MutualExclusion, Repeating, InDue
<1>2. ~ClearState
  BY <1>1 DEF ClearState, LockInvariant, MutualExclusion
<1>3. ASSUME NEW w \in Workers, pc[w] \in {"drop", "clearDue", "decide"} PROVE FALSE
  <2>1. lock = w
    BY <1>3 DEF LockInvariant, MutualExclusion, InDue, InDispatch
  <2> QED BY <1>1, <1>3, <2>1 DEF Repeating
<1> QED
  BY <1>2, <1>3, DeferredChanges

(* Who begins to repeat a job has just read the deferred one.              *)
LEMMA RepeatingBegins ==
    ASSUME Sound, [Next]_vars, NEW v \in Workers, pc'[v] \in Repeating
    PROVE  \/ pc[v] \in Repeating /\ job'[v] = job[v]
           \/ job'[v] = pendingJob /\ UNCHANGED pendingJob
<1> USE DEF history, counters, pairVars, streamVars, workVars
<1>t. TypeOK /\ Labelled BY DEF Sound, TypeOK, Labelled
<1>1. ASSUME NEW w \in Workers \ {v}, Work(w) PROVE pc[v] \in Repeating /\ job'[v] = job[v]
  BY <1>1, WorkerAlone
<1>2. CASE Consider(v)
  BY <1>t, <1>2 DEF Consider, TypeOK
<1>3. CASE Announce(v)
  <2>1. pc[v] = "announce" /\ job' = job
    BY <1>3 DEF Announce, Deliver, Goto
  <2> QED BY <2>1 DEF Repeating
<1>4. ASSUME \/ LookForDue(v) \/ LockDue(v) \/ DropDuplicate(v) \/ MarkDue(v) \/ CoolDue(v) \/ ClearDue(v)
             \/ UnlistDue(v) \/ ReleaseDue(v) \/ Process(v)
      PROVE  FALSE
  <2>1. PICK to \in (Inside \cup Outside) \ Repeating : \E from : Goto(v, from, to)
    BY <1>4, LabelsInside
       DEF LookForDue, LockDue, DropDuplicate, MarkDue, CoolDue, ClearDue, UnlistDue, ReleaseDue,
           Process, Fetch, EndBatch, Check, Lock, Decide, List, Unlist, DeliverNow, Deliver, Cool,
           Release, Mark, Acknowledge, Repeating
  <2> QED BY <1>t, <2>1, GotoMoves
<1>5. CASE Web \/ Time \/ CrashWeb \/ UNCHANGED vars
  BY <1>5 DEF Web, OpenRoom, ClearState, UnlistCleared, LeaveLock, Enqueue, Time, HourPasses,
              RetryFallsDue, LockExpires, FallIdle, CrashWeb, vars
<1>6. ASSUME NEW w \in Workers, Crash(w) PROVE pc[v] \in Repeating /\ job'[v] = job[v]
  <2>1. pc'[w] = "start" /\ (v # w => pc'[v] = pc[v] /\ job'[v] = job[v])
    BY <1>t, <1>6 DEF Crash, TypeOK
  <2> QED BY <2>1 DEF Repeating
<1> QED
  BY <1>1, <1>2, <1>3, <1>4, <1>5, <1>6 DEF Next, Work, Due

LEMMA SilentStep ==
    ASSUME LockInvariant, Sound, Silent, [Next]_vars, Faultless'
    PROVE  Silent'
<1>1. HeldOnce'
  BY HeldOnceStep DEF Silent
<1>2. \A j \in Jobs : Spent(j) => Spent(j)'
  BY SpentStays
<1>3. silenced \subseteq Jobs /\ pendingJob \in Jobs \cup {None}
  BY DEF Sound, TypeOK
<1>4. ASSUME NEW w \in Workers, pc[w] = "decide", pendingJob' = Current(w), pc'[w] = "list",
             batch' = batch, silenced' = silenced
      PROVE  Spent(pendingJob)' /\ pendingJob' \notin silenced'
  <2>1. Current(w) \in Jobs /\ ~Spent(Current(w))
    BY <1>4, UndecidedIsUnspent DEF Silent, Handling, Spending
  <2>2. Current(w) \notin silenced
    BY <2>1 DEF Silent, DroppedIsSpent
  <2>3. Spent(pendingJob)'
    BY <1>4 DEF Spent, Spending, Current
  <2> QED BY <1>4, <2>2, <2>3
<1>5. DroppedIsSpent'
  <2>1. ASSUME NEW j \in silenced' PROVE j \in Jobs /\ Spent(j)
    <3>1. CASE ClearState
      BY <1>3, <2>1, <3>1 DEF ClearState, Silent, DroppedIsSpent, DeferredIsSpent
    <3>2. CASE silenced' = silenced
      BY <1>3, <2>1, <3>2 DEF Silent, DroppedIsSpent
    <3> QED BY <3>1, <3>2, DeferredChanges
  <2> QED BY <1>2, <2>1 DEF DroppedIsSpent
<1>6. DeferredIsSpent'
  <2>1. CASE UNCHANGED <<pendingJob, silenced>>
    <3>1. ASSUME pendingJob # None PROVE Spent(pendingJob)' /\ pendingJob' \notin silenced'
      <4>1. Spent(pendingJob) /\ pendingJob \notin silenced /\ pendingJob \in Jobs
        BY <1>3, <3>1 DEF Silent, DeferredIsSpent
      <4>2. PICK j \in Jobs : j = pendingJob /\ Spent(j)'
        BY <1>2, <4>1
      <4> QED BY <2>1, <4>1, <4>2 DEF Spent
    <3> QED BY <2>1, <3>1 DEF DeferredIsSpent
  <2>2. CASE pendingJob' = None
    BY <2>2 DEF DeferredIsSpent
  <2>3. CASE ClearState
    BY <2>3 DEF ClearState, DeferredIsSpent
  <2> QED BY <1>4, <2>1, <2>2, <2>3, DeferredChanges DEF DeferredIsSpent
<1>7. RepeatsDeferred'
  BY RepeatingBegins, RepeatedIsKept DEF Silent, RepeatsDeferred
<1> QED BY <1>1, <1>5, <1>6, <1>7 DEF Silent

(* The deferred job is repeated only as long as the room is not opened,    *)
(* and what was dropped is not decided on again.                           *)
LEMMA PushedWasNotDropped ==
    ASSUME Sound, Silent, NEW w \in Workers, Pushing(w)
    PROVE  (IF pc[w] = "announce" THEN job[w] ELSE Current(w)) \notin silenced
<1>1. CASE pc[w] = "announce"
  <2>1. job[w] = pendingJob /\ job[w] # None
    BY <1>1 DEF Silent, RepeatsDeferred, Repeating, Sound, Engaged, Jobs, None
  <2> QED BY <1>1, <2>1 DEF Silent, DeferredIsSpent
<1>2. CASE pc[w] = "deliver"
  BY <1>2, UndecidedIsUnspent DEF Silent, DroppedIsSpent, Handling, Spending
<1> QED BY <1>1, <1>2 DEF Pushing

(* While nothing fails, what was deferred and dropped is never pushed.     *)
THEOREM OpeningAlwaysSilences == Spec => OpeningSilences
<1> DEFINE Inv == Faultless => Silent
<1>1. Init => Inv
  BY SilentInit
<1>2. ASSUME LockInvariant, Sound, Inv, [Next]_vars PROVE Inv'
  BY <1>2, FaultlessBefore, SilentStep
<1>3. ASSUME LockInvariant, Sound, Inv, [Next]_vars
      PROVE  [Faultless' => \A w \in Workers : Pushing(w) =>
                (IF pc[w] = "announce" THEN job[w] ELSE Current(w)) \notin silenced]_vars
  BY <1>3, FaultlessBefore, PushedWasNotDropped
<1>4. Spec => []Inv
  BY <1>1, <1>2, AlwaysLockInvariant, AlwaysSound, PTL DEF Spec
<1> QED
  BY <1>3, <1>4, AlwaysLockInvariant, AlwaysSound, PTL DEF Spec, OpeningSilences

-----------------------------------------------------------------------------
(* What is pushed when the hour is over is the newest message              *)

(* A single worker, as long as nothing fails and nobody opens the room.    *)
(* Only the worker takes the lock, and no push raises.                     *)
Alone(w) ==
    /\ rpc = "away" /\ lock \in {Free, w}
    /\ lock = w => pc[w] \in Inside
    /\ pc[w] # "releaseFailed"

(* What is pending is in its batch, which is in the order of the stream.   *)
Taken(w) ==
    /\ idle = {}
    /\ \A j \in Jobs : stream[j] = "pending" => \E i \in DOMAIN batch[w] : batch[w][i] = j
    /\ Ascending(batch[w])

(* The stream goes from the acknowledged jobs to those to come.            *)
InTurn(w) ==
    /\ \A j \in Jobs : stream[j] = "acked" => \A i \in DOMAIN batch[w] : j < batch[w][i]
    /\ \A j, k \in Jobs : stream[j] \in {"acked", "pending"} /\ stream[k] \in {"new", "unsent"} => j < k
    /\ \A j, k \in Jobs : stream[j] # "unsent" /\ stream[k] = "unsent" => j < k

(* A job with a marker is acknowledged, or is just going to be.            *)
MarkedAreDone(w) ==
    \A j \in delivered \cup deferred : stream[j] = "acked" \/ (pc[w] = "ack" /\ Current(w) = j)

(* The deferred job is the newest of the acknowledged ones.                *)
NewestDeferred ==
    pendingJob # None => \A j \in Jobs : stream[j] = "acked" => j <= pendingJob

(* While the worker processes a job, it is the deferred one or there is    *)
(* none; while it looks for what is due, it has no job to process.         *)
AsDeferred  == {"list", "releaseDeferred", "markDeferred"}
AsDelivered == {"unlist", "deliver", "cool", "releaseDelivered", "markDelivered"}
Looking     == InDue \cup {"start", "due", "fetch"}

AtHand(w) ==
    /\ pc[w] \in AsDeferred => pendingJob = Current(w)
    /\ pc[w] \in AsDelivered => pendingJob = None
    /\ pc[w] = "ack" => pendingJob \in {None, Current(w)}
    /\ pc[w] \in Looking => batch[w] = <<>>

Newest(w) ==
    Alone(w) /\ Taken(w) /\ InTurn(w) /\ MarkedAreDone(w) /\ NewestDeferred /\ AtHand(w)

LEMMA NewestInit == ASSUME NEW w \in Workers, Init PROVE Newest(w)
<1>1. pc[w] = "start" /\ batch[w] = <<>> /\ \A j \in Jobs : stream[j] = "unsent"
  BY DEF Init
<1>2. Alone(w) /\ MarkedAreDone(w) /\ NewestDeferred
  BY <1>1, BoundsAssumption DEF Init, Alone, MarkedAreDone, NewestDeferred, Free
<1>3. Taken(w) /\ InTurn(w)
  BY <1>1 DEF Init, Taken, InTurn, Ascending
<1>4. AtHand(w)
  BY <1>1 DEF AtHand, AsDeferred, AsDelivered
<1> QED BY <1>2, <1>3, <1>4 DEF Newest

(* That the room was opened is never forgotten.                            *)
LEMMA UnopenedBefore ==
    ASSUME Sound, [Next]_vars, openings' = 0
    PROVE  openings = 0 /\ ~OpenRoom
<1> USE DEF counters
<1>0. openings \in Nat
  BY BoundsAssumption DEF Sound, TypeOK
<1>1. ~OpenRoom
  BY <1>0 DEF OpenRoom
<1>2. CASE Web \/ Time
  BY <1>0, <1>1, <1>2 DEF Web, ClearState, UnlistCleared, LeaveLock, Enqueue, Time, HourPasses,
              RetryFallsDue, LockExpires, FallIdle
<1>3. CASE CrashWeb \/ \E w \in Workers : Crash(w)
  BY <1>1, <1>3 DEF CrashWeb, Crash
<1>4. CASE \E w \in Workers : Due(w)
  BY <1>1, <1>4 DEF Due, LookForDue, LockDue, Consider, DropDuplicate, Announce, MarkDue,
              CoolDue, ClearDue, UnlistDue, ReleaseDue
<1>5. CASE \E w \in Workers : Process(w)
  BY <1>1, <1>5 DEF Process, Fetch, EndBatch, Check, Lock, Decide, List, Unlist, DeliverNow,
              Cool, Release, Mark, Acknowledge
<1>6. CASE UNCHANGED vars
  BY <1>1, <1>6 DEF vars
<1> QED
  BY <1>2, <1>3, <1>4, <1>5, <1>6 DEF Next, Work

(* A step that leaves the stream and its markers alone keeps the order.    *)
LEMMA NewestMoves ==
    ASSUME NEW w \in Workers, Newest(w), UNCHANGED <<stream, idle, batch, delivered, deferred>>,
           pc[w] # "ack", pendingJob' \in {None, pendingJob}, Alone(w)', AtHand(w)'
    PROVE  Newest(w)'
<1>1. Taken(w)' /\ InTurn(w)'
  BY DEF Newest, Taken, InTurn
<1>2. MarkedAreDone(w)'
  BY DEF Newest, MarkedAreDone
<1>3. NewestDeferred'
  BY DEF Newest, NewestDeferred
<1> QED BY <1>1, <1>2, <1>3 DEF Newest

(* How the worker moves between the two halves of its loop.                *)
LEMMA LabelsOfHalves ==
    /\ Looking \cap (AsDeferred \cup AsDelivered \cup {"ack", "releaseFailed"}) = {}
    /\ {"consider", "drop", "announce", "markDue", "coolDue", "clearDue", "unlistDue", "releaseDue",
        "start", "due", "fetch"} \subseteq Looking
    /\ \A l \in {"next", "lock", "decide", "ack"} : l \notin Looking \cup AsDeferred \cup AsDelivered
BY DEF Looking, InDue, AsDeferred, AsDelivered

(* deliver_due_chat_notifications takes the deferred job away or leaves it.*)
LEMMA NewestDue ==
    ASSUME NEW w, Workers = {w}, Sound, Silent, Newest(w), Due(w)
    PROVE  Newest(w)'
<1> USE DEF history, counters, pairVars, streamVars
<1>w. w \in Workers /\ w # Free
  BY BoundsAssumption
<1>t. TypeOK /\ Labelled BY DEF Sound, TypeOK, Labelled
<1>g. ASSUME NEW from, NEW to \in Inside \cup Outside, Goto(w, from, to)
      PROVE  pc[w] = from /\ pc'[w] = to
  BY <1>t, <1>w, <1>g, GotoMoves
<1>1. UNCHANGED <<stream, idle, batch, deferred, rpc>>
  BY DEF Due, LookForDue, LockDue, Consider, DropDuplicate, Announce, MarkDue, CoolDue,
              ClearDue, UnlistDue, ReleaseDue
<1>2. pc[w] \in Looking /\ pc'[w] \in Looking
  BY <1>g, LabelsInside, LabelsOfHalves
     DEF Due, LookForDue, LockDue, Consider, DropDuplicate, Announce, Deliver, MarkDue, CoolDue,
         ClearDue, UnlistDue, ReleaseDue
<1>3. pendingJob' \in {None, pendingJob}
  BY DEF Due, LookForDue, LockDue, Consider, DropDuplicate, Announce, MarkDue, CoolDue,
         ClearDue, UnlistDue, ReleaseDue
<1>4. batch[w] = <<>> /\ pc[w] # "ack"
  BY <1>2, LabelsOfHalves DEF Newest, AtHand
<1>5. AtHand(w)'
  BY <1>1, <1>2, <1>4, LabelsOfHalves DEF AtHand
<1>6. Alone(w)'
  <2>a. rpc = "away" /\ lock \in {Free, w} /\ (lock = w => pc[w] \in Inside)
    BY DEF Newest, Alone
  <2>b. pc'[w] # "releaseFailed"
    BY <1>2, LabelsOfHalves
  <2>1. CASE LookForDue(w)
    <3>1. pc[w] = "start" /\ lock' = lock
      BY <2>1 DEF LookForDue, Goto
    <3>2. lock = Free
      BY <2>a, <3>1 DEF Inside, InDue, InDispatch
    <3> QED BY <1>1, <1>w, <2>a, <2>b, <3>1, <3>2 DEF Alone
  <2>2. CASE LockDue(w)
    <3>1. pc[w] = "due"
      BY <2>2 DEF LockDue, Goto
    <3>2. lock = Free
      BY <2>a, <3>1 DEF Inside, InDue, InDispatch
    <3>3. lock' = w /\ pc'[w] = "consider"
      BY <1>g, <2>2, <3>2, LabelsInside DEF LockDue, Acquire
    <3> QED BY <1>1, <1>w, <2>a, <2>b, <3>3, LabelsInside DEF Alone
  <2>3. CASE ReleaseDue(w)
    <3>1. lock' = Free
      BY <2>3, <2>a DEF ReleaseDue, ReleasedBy
    <3> QED BY <1>1, <1>w, <2>a, <2>b, <3>1 DEF Alone
  <2>4. CASE \/ Consider(w) \/ DropDuplicate(w) \/ Announce(w) \/ MarkDue(w) \/ CoolDue(w)
             \/ ClearDue(w) \/ UnlistDue(w)
    <3>1. pc'[w] \in Inside /\ lock' = lock
      BY <1>g, <2>4, LabelsInside
         DEF Consider, DropDuplicate, Announce, Deliver, MarkDue, CoolDue, ClearDue, UnlistDue
    <3> QED BY <1>1, <2>a, <2>b, <3>1 DEF Alone
  <2> QED BY <2>1, <2>2, <2>3, <2>4 DEF Due
<1>7. CASE delivered' = delivered
  BY <1>w, <1>1, <1>3, <1>4, <1>5, <1>6, <1>7, NewestMoves
<1>8. CASE MarkDue(w)
  <2>1. pc[w] = "markDue" /\ delivered' = delivered \cup {job[w]}
    BY <1>8 DEF MarkDue, Goto
  <2>2. job[w] \in Jobs /\ Spent(job[w])
    BY <1>w, <2>1 DEF Silent, RepeatsDeferred, DeferredIsSpent, Repeating, Sound, Engaged, Jobs, None
  <2>3. stream[job[w]] = "acked"
    BY <2>1, <2>2 DEF Spent, Spending
  <2>4. MarkedAreDone(w)'
    BY <1>1, <1>4, <2>1, <2>3 DEF Newest, MarkedAreDone
  <2>5. Taken(w)' /\ InTurn(w)'
    BY <1>1 DEF Newest, Taken, InTurn
  <2>6. NewestDeferred'
    BY <1>1, <1>3 DEF Newest, NewestDeferred
  <2> QED BY <1>5, <1>6, <2>4, <2>5, <2>6 DEF Newest
<1>9. delivered' = delivered \/ MarkDue(w)
  BY DEF Due, LookForDue, LockDue, Consider, DropDuplicate, Announce, CoolDue, ClearDue, UnlistDue, ReleaseDue
<1> QED BY <1>7, <1>8, <1>9

(* The first job of a batch that is not empty.                             *)
LEMMA FirstFacts ==
    ASSUME TypeOK, NEW w \in Workers, batch[w] # <<>>
    PROVE  /\ Current(w) \in Jobs /\ 1 \in DOMAIN batch[w] /\ batch[w][1] = Current(w)
           /\ DOMAIN batch[w] \subseteq Int
           /\ \A i \in DOMAIN batch[w] : batch[w][i] \in Jobs /\ (i # 1 => 1 < i)
<1>1. batch[w] \in Seq(Jobs) BY DEF TypeOK
<1>2. \A i \in DOMAIN batch[w] : batch[w][i] \in Jobs /\ i \in Int /\ 1 <= i
  BY <1>1
<1> QED BY <1>1, <1>2, TailFacts DEF Current

(* A worker that takes the new jobs has none, and they are the next ones.  *)
LEMMA NewestFetch ==
    ASSUME NEW w, Workers = {w}, Sound, Newest(w), Fetch(w)
    PROVE  Newest(w)'
<1>w. w \in Workers /\ w # Free
  BY BoundsAssumption
<1>t. TypeOK /\ Labelled BY DEF Sound, TypeOK, Labelled
<1>1. pc[w] = "fetch" /\ pc'[w] = "next"
  BY <1>t, <1>w, GotoMoves, LabelsInside DEF Fetch, Goto
<1>2. UNCHANGED <<delivered, deferred, pendingJob, lock, rpc>> /\ idle' = {}
  BY DEF Fetch, pairVars
<1>3. batch[w] = <<>> /\ idle = {} /\ \A j \in Jobs : stream[j] # "pending"
  BY <1>1, LabelsOfHalves DEF Newest, AtHand, Taken
<1>4. /\ batch'[w] = InOrder(idle) \o InOrder(NewJobs) /\ NewJobs \in SUBSET Jobs
      /\ \A j \in Jobs : stream'[j] = IF stream[j] = "new" THEN "pending" ELSE stream[j]
  BY <1>t, <1>w, FetchFacts
<1>5. batch'[w] = InOrder(NewJobs) /\ InOrder(NewJobs) \in Seq(Jobs)
  <2>1. InOrder(idle) \in Seq({})
    BY <1>3, InOrderFacts
  <2>2. InOrder(idle) = <<>>
    BY <2>1
  <2>3. InOrder(NewJobs) \in Seq(Jobs)
    BY <1>4, InOrderFacts
  <2> QED BY <1>4, <2>2, <2>3
<1>6. Taken(w)'
  <2>1. \A j \in Jobs : stream'[j] = "pending" => j \in NewJobs
    BY <1>3, <1>4 DEF NewJobs
  <2> QED BY <1>2, <1>4, <1>5, <2>1, InOrderFacts DEF Taken
<1>7. InTurn(w)'
  <2>1. \A i \in DOMAIN batch'[w] : batch'[w][i] \in NewJobs
    BY <1>4, <1>5, InOrderFacts
  <2>2. \A j, k \in Jobs : stream[j] = "acked" /\ k \in NewJobs => j < k
    BY DEF Newest, InTurn, NewJobs
  <2>3. \A j \in Jobs : stream'[j] = "acked" => stream[j] = "acked"
    BY <1>4
  <2>4. \A i \in DOMAIN batch'[w] : batch'[w][i] \in Jobs
    BY <1>4, <2>1
  <2>5. \A j \in Jobs : stream'[j] = "acked" => \A i \in DOMAIN batch'[w] : j < batch'[w][i]
    BY <2>1, <2>2, <2>3, <2>4
  <2>6. \A j, k \in Jobs : stream'[j] # "unsent" /\ stream'[k] \in {"new", "unsent"} => j < k
    BY <1>4 DEF Newest, InTurn
  <2> QED BY <2>5, <2>6 DEF InTurn
<1>8. MarkedAreDone(w)'
  BY <1>1, <1>2, <1>4, <1>t DEF Newest, MarkedAreDone, TypeOK
<1>9. NewestDeferred'
  BY <1>2, <1>4 DEF Newest, NewestDeferred
<1>10. AtHand(w)'
  BY <1>1, LabelsOfHalves DEF AtHand
<1>11. Alone(w)'
  <2>1. "fetch" \notin Inside BY DEF Inside, InDue, InDispatch
  <2> QED BY <1>1, <1>2, <1>w, <2>1 DEF Newest, Alone
<1> QED BY <1>6, <1>7, <1>8, <1>9, <1>10, <1>11 DEF Newest

(* The job it acknowledges is the oldest of its batch.                     *)
LEMMA NewestAcknowledge ==
    ASSUME NEW w, Workers = {w}, Sound, HeldOnce, Newest(w), Acknowledge(w)
    PROVE  Newest(w)'
<1>w. w \in Workers /\ w # Free
  BY BoundsAssumption
<1>t. TypeOK /\ Labelled BY DEF Sound, TypeOK, Labelled
<1>1. pc[w] = "ack" /\ pc'[w] = "next"
  BY <1>t, <1>w, GotoMoves, LabelsInside DEF Acknowledge, Goto
<1>2. UNCHANGED <<delivered, deferred, pendingJob, lock, rpc>> /\ idle' \subseteq idle /\ Rest(w)
  BY DEF Acknowledge, pairVars
<1>3. batch[w] # <<>>
  BY <1>1, <1>w DEF Sound, Engaged, Handling
<1>4. /\ Current(w) \in Jobs /\ 1 \in DOMAIN batch[w] /\ batch[w][1] = Current(w)
      /\ \A i \in DOMAIN batch[w] : i \in Int /\ batch[w][i] \in Jobs /\ (i # 1 => 1 < i)
  BY <1>3, <1>t, <1>w, FirstFacts
<1>5. /\ batch'[w] = Tail(batch[w]) /\ batch[w] \in Seq(Jobs) /\ Tail(batch[w]) \in Seq(Jobs)
      /\ \A i \in DOMAIN batch'[w] : i \in Int /\ 1 <= i /\ i + 1 \in DOMAIN batch[w] /\ batch'[w][i] = batch[w][i + 1]
      /\ \A i \in DOMAIN batch[w] : i # 1 => i - 1 \in DOMAIN batch'[w] /\ batch'[w][i - 1] = batch[w][i]
  <2>1. batch'[w] = Tail(batch[w]) /\ batch[w] \in Seq(Jobs)
    BY <1>2, <1>3, <1>t, <1>w, RestFacts DEF TypeOK
  <2>2. Tail(batch[w]) \in Seq(Jobs)
    BY <1>3, <2>1, TailFacts
  <2>3. \A i \in DOMAIN Tail(batch[w]) : i \in Int /\ 1 <= i
    BY <2>2
  <2> QED BY <1>3, <2>1, <2>2, <2>3, TailFacts
<1>6. /\ stream'[Current(w)] = "acked" /\ stream[Current(w)] = "pending"
      /\ \A j \in Jobs : j # Current(w) => stream'[j] = stream[j]
  <2>1. stream'[Current(w)] = "acked" /\ \A j \in Jobs : j # Current(w) => stream'[j] = stream[j]
    BY <1>t, <1>4 DEF Acknowledge, TypeOK
  <2>2. stream[Current(w)] = "pending"
    BY <1>w, <1>4 DEF HeldOnce
  <2> QED BY <2>1, <2>2
<1>7. \A i, k \in DOMAIN batch[w] : i < k => batch[w][i] < batch[w][k]
  BY DEF Newest, Taken, Ascending
<1>8. Taken(w)'
  <2>1. idle' = {} BY <1>2 DEF Newest, Taken
  <2>2. ASSUME NEW j \in Jobs, stream'[j] = "pending"
        PROVE  \E i \in DOMAIN batch'[w] : batch'[w][i] = j
    <3>1. PICK i \in DOMAIN batch[w] : batch[w][i] = j
      BY <1>6, <2>2 DEF Newest, Taken
    <3>2. i # 1
      BY <1>4, <1>6, <2>2, <3>1
    <3> QED BY <1>5, <3>1, <3>2
  <2>3. ASSUME NEW i \in DOMAIN batch'[w], NEW k \in DOMAIN batch'[w], i < k
        PROVE  batch'[w][i] < batch'[w][k]
    <3>1. i + 1 < k + 1
      BY <1>5, <2>3
    <3> QED BY <1>5, <1>7, <2>3, <3>1
  <2> QED BY <2>1, <2>2, <2>3 DEF Taken, Ascending
<1>9. InTurn(w)'
  <2>1. ASSUME NEW j \in Jobs, stream'[j] = "acked", NEW i \in DOMAIN batch'[w]
        PROVE  j < batch'[w][i]
    <3>1. CASE j = Current(w)
      <4>1. 1 < i + 1 BY <1>5, <2>1
      <4> QED BY <1>4, <1>5, <1>7, <2>1, <3>1, <4>1
    <3>2. CASE j # Current(w)
      BY <1>5, <1>6, <2>1, <3>2 DEF Newest, InTurn
    <3> QED BY <3>1, <3>2
  <2>2. \A j \in Jobs : /\ stream'[j] \in {"acked", "pending"} => stream[j] \in {"acked", "pending"}
                        /\ stream'[j] # "unsent" => stream[j] # "unsent"
                        /\ stream'[j] \in {"new", "unsent"} => stream[j] = stream'[j]
    BY <1>6
  <2> QED BY <2>1, <2>2 DEF Newest, InTurn
<1>10. MarkedAreDone(w)'
  BY <1>1, <1>2, <1>6, <1>t DEF Newest, MarkedAreDone, TypeOK
<1>11. NewestDeferred'
  <2>1. ASSUME pendingJob # None, NEW j \in Jobs, stream'[j] = "acked"
        PROVE  j <= pendingJob
    <3>1. pendingJob = Current(w)
      BY <1>1, <2>1 DEF Newest, AtHand
    <3>2. CASE j = Current(w)
      BY <3>1, <3>2, <1>4 DEF Jobs
    <3>3. CASE j # Current(w)
      <4>1. stream[j] = "acked"
        BY <1>6, <2>1, <3>3
      <4>2. j < Current(w)
        BY <1>4, <4>1 DEF Newest, InTurn
      <4> QED BY <1>4, <3>1, <4>2 DEF Jobs
    <3> QED BY <3>2, <3>3
  <2> QED BY <1>2, <2>1 DEF NewestDeferred
<1>12. AtHand(w)'
  BY <1>1, LabelsOfHalves DEF AtHand
<1>13. Alone(w)'
  <2>1. "ack" \notin Inside BY DEF Inside, InDue, InDispatch
  <2> QED BY <1>1, <1>2, <1>w, <2>1 DEF Newest, Alone
<1> QED BY <1>8, <1>9, <1>10, <1>11, <1>12, <1>13 DEF Newest

(* The other steps of _process_job: a job is decided on once, and becomes  *)
(* the deferred one or leaves none behind.                                 *)
LEMMA NewestProcess ==
    ASSUME NEW w, Workers = {w}, Sound, HeldOnce, Newest(w), failures' = 0, Process(w)
    PROVE  Newest(w)'
<1> USE DEF history, counters, pairVars, streamVars
<1>w. w \in Workers /\ w # Free
  BY BoundsAssumption
<1>t. TypeOK /\ Labelled BY DEF Sound, TypeOK, Labelled
<1>g. ASSUME NEW from, NEW to \in Inside \cup Outside, Goto(w, from, to)
      PROVE  pc[w] = from /\ pc'[w] = to
  BY <1>t, <1>w, <1>g, GotoMoves
<1>a. rpc = "away" /\ lock \in {Free, w} /\ (lock = w => pc[w] \in Inside) /\ pc[w] # "releaseFailed"
  BY DEF Newest, Alone
<1>o. \A l \in {"next", "lock", "markDeferred", "markDelivered"} : l \notin Inside
  BY DEF Inside, InDue, InDispatch
<1>h. pc[w] \in Handling => batch[w] # <<>>
  BY <1>w DEF Sound, Engaged
<1>1. CASE Fetch(w)
  BY <1>1, NewestFetch
<1>2. CASE EndBatch(w)
  <2>1. pc[w] = "next" /\ pc'[w] = "start" /\ batch[w] = <<>>
    BY <1>2, <1>g, LabelsInside DEF EndBatch
  <2>2. AtHand(w)' /\ Alone(w)'
    BY <1>2, <1>a, <1>o, <1>w, <2>1, LabelsOfHalves DEF EndBatch, AtHand, Alone
  <2> QED BY <1>2, <1>w, <2>1, <2>2, NewestMoves DEF EndBatch
<1>3. CASE Check(w)
  <2>1. pc[w] = "next" /\ batch[w] # <<>>
    BY <1>3 DEF Check, Goto
  <2>2. stream[Current(w)] = "pending"
    BY <1>t, <1>w, <2>1, FirstFacts DEF HeldOnce
  <2>3. ~Known(w)
    BY <2>1, <2>2 DEF Newest, MarkedAreDone, Known
  <2>4. pc'[w] = "lock"
    BY <1>3, <1>g, <2>3, LabelsInside DEF Check
  <2>5. AtHand(w)' /\ Alone(w)'
    BY <1>3, <1>a, <1>o, <1>w, <2>1, <2>4, LabelsOfHalves DEF Check, AtHand, Alone
  <2> QED BY <1>3, <1>w, <2>1, <2>5, NewestMoves DEF Check
<1>4. CASE Lock(w)
  <2>1. pc[w] = "lock" /\ lock = Free
    BY <1>4, <1>a, <1>o DEF Lock, Goto
  <2>2. pc'[w] = "decide" /\ lock' = w /\ UNCHANGED batch
    BY <1>4, <1>g, <2>1, LabelsInside DEF Lock, Acquire
  <2>3. AtHand(w)' /\ Alone(w)'
    BY <1>4, <1>a, <1>w, <2>2, LabelsOfHalves, LabelsInside DEF Lock, AtHand, Alone
  <2> QED BY <1>4, <1>w, <2>1, <2>2, <2>3, NewestMoves DEF Lock
<1>5. CASE Decide(w)
  <2>1. /\ pc[w] = "decide" /\ UNCHANGED <<streamVars, lock, batch, rpc>>
        /\ \/ pc'[w] = "list" /\ pendingJob' = Current(w)
           \/ pc'[w] = "unlist" /\ pendingJob' = None
    BY <1>5, <1>g, LabelsInside DEF Decide, Goto
  <2>2. /\ Current(w) \in Jobs /\ 1 \in DOMAIN batch[w] /\ batch[w][1] = Current(w)
    BY <1>h, <1>t, <1>w, <2>1, FirstFacts DEF Handling
  <2>3. AtHand(w)'
    BY <2>1, LabelsOfHalves DEF AtHand, AsDeferred, AsDelivered, Looking, InDue, Current
  <2>4. Alone(w)'
    BY <1>a, <2>1, LabelsInside DEF Alone
  <2>5. Taken(w)' /\ InTurn(w)' /\ MarkedAreDone(w)'
    BY <2>1 DEF Newest, Taken, InTurn, MarkedAreDone
  <2>6. \A j \in Jobs : stream[j] = "acked" => j <= Current(w)
    BY <2>2 DEF Newest, InTurn, Jobs
  <2>7. NewestDeferred'
    BY <2>1, <2>6 DEF NewestDeferred
  <2> QED BY <2>3, <2>4, <2>5, <2>7 DEF Newest
<1>6. CASE List(w) \/ Unlist(w) \/ DeliverNow(w) \/ Cool(w)
  <2>0. failures \in Nat
    BY <1>t, BoundsAssumption DEF TypeOK
  <2>1. \/ pc[w] = "list" /\ pc'[w] = "releaseDeferred"
        \/ pc[w] = "unlist" /\ pc'[w] = "deliver"
        \/ pc[w] = "deliver" /\ pc'[w] = "cool"
        \/ pc[w] = "cool" /\ pc'[w] = "releaseDelivered"
    BY <1>6, <1>g, <2>0, LabelsInside DEF List, Unlist, DeliverNow, Deliver, Cool
  <2>2. UNCHANGED <<streamVars, pendingJob, lock, batch, rpc>>
    BY <1>6 DEF List, Unlist, DeliverNow, Cool
  <2>3. AtHand(w)'
    BY <2>1, <2>2 DEF Newest, AtHand, AsDeferred, AsDelivered, Looking, InDue, Current
  <2>4. Alone(w)'
    BY <1>a, <2>1, <2>2, LabelsInside DEF Alone
  <2> QED BY <1>w, <2>1, <2>2, <2>3, <2>4, NewestMoves
<1>7. CASE Release(w)
  <2>1. /\ UNCHANGED <<streamVars, pendingJob, batch, rpc>>
        /\ \/ pc[w] = "releaseDeferred" /\ pc'[w] = "markDeferred"
           \/ pc[w] = "releaseDelivered" /\ pc'[w] = "markDelivered"
    BY <1>7, <1>a, <1>g, LabelsInside DEF Release, Goto
  <2>2. lock' = Free
    BY <1>7, <1>a DEF Release, ReleasedBy
  <2>3. AtHand(w)'
    BY <2>1 DEF Newest, AtHand, AsDeferred, AsDelivered, Looking, InDue, Current
  <2>4. Alone(w)'
    BY <1>a, <1>w, <2>1, <2>2 DEF Alone
  <2> QED BY <1>w, <2>1, <2>3, <2>4, NewestMoves
<1>8. CASE Mark(w)
  <2>1. /\ UNCHANGED <<stream, idle, pendingJob, lock, batch, rpc>>
        /\ pc[w] \in {"markDeferred", "markDelivered"} /\ pc'[w] = "ack"
        /\ delivered' \cup deferred' \subseteq delivered \cup deferred \cup {Current(w)}
    BY <1>8, <1>g, LabelsInside DEF Mark, Goto
  <2>2. AtHand(w)'
    BY <2>1 DEF Newest, AtHand, AsDeferred, AsDelivered, Looking, InDue, Current
  <2>3. Alone(w)'
    BY <1>a, <1>o, <1>w, <2>1 DEF Alone
  <2>4. Taken(w)' /\ InTurn(w)' /\ NewestDeferred'
    BY <2>1 DEF Newest, Taken, InTurn, NewestDeferred
  <2>5. MarkedAreDone(w)'
    BY <2>1 DEF Newest, MarkedAreDone, Current
  <2> QED BY <2>2, <2>3, <2>4, <2>5 DEF Newest
<1>9. CASE Acknowledge(w)
  BY <1>9, NewestAcknowledge
<1> QED
  BY <1>1, <1>2, <1>3, <1>4, <1>5, <1>6, <1>7, <1>8, <1>9 DEF Process

(* New messages come last, and time passes.                                *)
LEMMA NewestOther ==
    ASSUME NEW w, Workers = {w}, Sound, Newest(w), Faultless', ~OpenRoom,
           Web \/ Time \/ CrashWeb \/ Crash(w)
    PROVE  Newest(w)'
<1> USE DEF history, counters, pairVars, streamVars, workVars
<1>w. w \in Workers /\ w # Orphan /\ Orphan # Free
  BY BoundsAssumption DEF Free, Orphan
<1>t. TypeOK BY DEF Sound
<1>0. /\ rpc = "away" /\ lock # Orphan
      /\ crashes \in Nat /\ slow \in Nat /\ crashes' = 0 /\ slow' = 0
  BY <1>t, <1>w, BoundsAssumption DEF Newest, Alone, TypeOK, Faultless
<1>1. CASE \E j \in Jobs : Enqueue(j)
  <2>1. PICK j \in Jobs : Enqueue(j) BY <1>1
  <2>2. UNCHANGED <<idle, delivered, deferred, pendingJob, lock, pc, batch, rpc>>
    BY <2>1 DEF Enqueue
  <2>3. /\ stream[j] = "unsent" /\ stream'[j] = "new"
        /\ \A i \in Jobs : i # j => stream'[i] = stream[i]
        /\ \A i \in Jobs : i < j => stream[i] # "unsent"
    BY <1>t, <2>1, BoundsAssumption DEF Enqueue, TypeOK, Jobs
  <2>4. Taken(w)'
    BY <2>2, <2>3 DEF Newest, Taken
  <2>5. InTurn(w)'
    <3>1. \A i, k \in Jobs : /\ stream'[i] \in {"acked", "pending"} => stream[i] = stream'[i]
                             /\ stream'[k] \in {"new", "unsent"} => stream[k] \in {"new", "unsent"}
      BY <2>3
    <3>2. \A i \in Jobs : stream'[i] = "acked" => \A k \in DOMAIN batch'[w] : i < batch'[w][k]
      BY <2>2, <3>1 DEF Newest, InTurn
    <3>3. \A i, k \in Jobs : stream'[i] \in {"acked", "pending"} /\ stream'[k] \in {"new", "unsent"} => i < k
      BY <3>1 DEF Newest, InTurn
    <3>4. \A i, k \in Jobs : stream'[i] # "unsent" /\ stream'[k] = "unsent" => i < k
      <4>1. ASSUME NEW i \in Jobs, NEW k \in Jobs, stream'[i] # "unsent", stream'[k] = "unsent"
            PROVE  i < k
        <5>1. stream[k] = "unsent" /\ k # j
          BY <2>3, <4>1
        <5>2. CASE i = j
          BY <2>3, <5>1, <5>2 DEF Jobs
        <5>3. CASE i # j
          BY <2>3, <4>1, <5>1, <5>3 DEF Newest, InTurn
        <5> QED BY <5>2, <5>3
      <4> QED BY <4>1
    <3> QED BY <3>2, <3>3, <3>4 DEF InTurn
  <2>6. MarkedAreDone(w)'
    BY <1>t, <2>2, <2>3 DEF Newest, MarkedAreDone, Current, TypeOK
  <2>7. NewestDeferred'
    BY <2>2, <2>3 DEF Newest, NewestDeferred
  <2>8. Alone(w)' /\ AtHand(w)'
    BY <2>2 DEF Newest, Alone, AtHand, Current
  <2> QED BY <2>4, <2>5, <2>6, <2>7, <2>8 DEF Newest
<1>2. CASE HourPasses \/ RetryFallsDue
  <2>1. UNCHANGED <<stream, idle, delivered, deferred, pendingJob, lock, pc, batch, rpc>>
    BY <1>2 DEF HourPasses, RetryFallsDue
  <2> QED
    BY <2>1 DEF Newest, Alone, Taken, InTurn, MarkedAreDone, NewestDeferred, AtHand, Current
<1>3. CASE ClearState \/ UnlistCleared \/ LeaveLock \/ LockExpires
  BY <1>0, <1>3 DEF ClearState, UnlistCleared, LeaveLock, LockExpires
<1>4. CASE \E j \in Jobs : FallIdle(j)
  <2>1. PICK j \in Jobs : FallIdle(j) BY <1>4
  <2>2. Held(j)
    BY <1>w, <2>1 DEF FallIdle, Held, Newest, Taken
  <2> QED BY <1>0, <2>1, <2>2 DEF FallIdle
<1>5. CASE CrashWeb \/ Crash(w)
  BY <1>0, <1>5 DEF CrashWeb, Crash
<1> QED
  BY <1>1, <1>2, <1>3, <1>4, <1>5 DEF Web, Time

LEMMA NewestStep ==
    ASSUME NEW w, Workers = {w}, LockInvariant, Sound, Silent, Newest(w), [Next]_vars,
           Faultless', openings' = 0
    PROVE  Newest(w)'
<1> USE DEF history, counters, pairVars, streamVars, workVars
<1>0. failures' = 0
  BY DEF Faultless
<1>1. ~OpenRoom
  BY UnopenedBefore
<1>2. CASE Due(w)
  BY <1>2, NewestDue
<1>3. CASE Process(w)
  BY <1>0, <1>3, NewestProcess DEF Silent
<1>4. CASE Web \/ Time \/ CrashWeb \/ Crash(w)
  BY <1>1, <1>4, NewestOther
<1>5. CASE UNCHANGED vars
  BY <1>5 DEF vars, Newest, Alone, Taken, InTurn, MarkedAreDone, NewestDeferred, AtHand, Current
<1> QED
  BY <1>2, <1>3, <1>4, <1>5 DEF Next, Work

(* A set of cardinality one is a singleton.                                *)
LEMMA OneWorker ==
    ASSUME IsFiniteSet(Workers), Cardinality(Workers) = 1
    PROVE  \E w : Workers = {w}
BY FS_Singleton

(* What is pushed when the hour is over is the newest message that the     *)
(* worker has acknowledged.                                                *)
LEMMA NewestAlwaysPushed ==
    ASSUME NEW u, Workers = {u}
    PROVE  Spec => NewestIsPushed
<1> DEFINE Quietly == Faultless => Silent
           Inv == Faultless /\ openings = 0 => Newest(u)
<1>1. Init => Inv
  BY NewestInit
<1>2. Init => Quietly
  BY SilentInit
<1>3. ASSUME LockInvariant, Sound, Quietly, [Next]_vars PROVE Quietly'
  BY <1>3, FaultlessBefore, SilentStep
<1>4. ASSUME LockInvariant, Sound, Quietly, Inv, [Next]_vars PROVE Inv'
  BY <1>4, FaultlessBefore, UnopenedBefore, NewestStep
<1>5. ASSUME LockInvariant, Sound, Quietly, Inv, [Next]_vars
      PROVE  [PushesNewest]_vars
  <2> SUFFICES ASSUME Faultless', openings = 0, pc[u] = "announce", NEW j \in Jobs, stream[j] = "acked"
               PROVE  j <= job[u]
    BY DEF PushesNewest
  <2>1. Silent /\ Newest(u)
    BY <1>5, FaultlessBefore
  <2>2. job[u] = pendingJob /\ job[u] # None
    BY <1>5, <2>1 DEF Silent, RepeatsDeferred, Repeating, Sound, Engaged, Jobs, None
  <2> QED BY <2>1, <2>2 DEF Newest, NewestDeferred
<1>6. Spec => []Inv
  BY <1>1, <1>2, <1>3, <1>4, AlwaysLockInvariant, AlwaysSound, PTL DEF Spec
<1>7. Spec => []Quietly
  BY <1>2, <1>3, AlwaysLockInvariant, AlwaysSound, PTL DEF Spec
<1> QED
  BY <1>5, <1>6, <1>7, AlwaysLockInvariant, AlwaysSound, PTL DEF Spec, NewestIsPushed

(* What an hour has deferred is pushed in time or not at all.  NewestIs-   *)
(* Pushed is about a single worker and says nothing of several.            *)
THEOREM PushesAreAlwaysTimely ==
    ASSUME IsFiniteSet(Workers)
    PROVE  Spec => PushesAreTimely
<1>1. CASE \E w : Workers = {w}
  BY <1>1, OpeningAlwaysSilences, NewestAlwaysPushed DEF PushesAreTimely
<1>2. CASE Cardinality(Workers) # 1
  <2>1. [Next]_vars => [PushesNewest]_vars
    BY <1>2 DEF PushesNewest
  <2>2. Spec => NewestIsPushed
    BY <2>1, PTL DEF Spec, NewestIsPushed
  <2> QED BY <2>2, OpeningAlwaysSilences DEF PushesAreTimely
<1> QED BY <1>1, <1>2, OneWorker

=============================================================================
