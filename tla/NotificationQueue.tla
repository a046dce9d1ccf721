--------------------------- MODULE NotificationQueue ---------------------------
(***************************************************************************)
(* The announcements of new chat messages to one member of one room        *)
(* (chat/notification_queue.py): the web process appends a job per message *)
(* to a Redis stream, a worker (run_chat_notifications_worker) pushes it   *)
(* or, within an hour of the last push, defers it; the newest deferred job *)
(* is pushed when the hour is over.  Opening the room resets the hour and  *)
(* drops what is deferred.                                                 *)
(*                                                                         *)
(* One step per Redis command that writes.  What a holder of the lock of   *)
(* the pair reads in a row is one step, for others write under the lock    *)
(* only.  Jobs of other members matter only as delay.                      *)
(***************************************************************************)
EXTENDS Integers, Sequences, FiniteSets

CONSTANTS
    Workers,      \* processes that run the command
    MaxJobs,      \* bound: messages sent to the room
    MaxOpenings,  \* bound: how often the member opens the room
    MaxCrashes,   \* bound: processes that stop
    MaxFailures,  \* bound: deliveries that raise
    MaxSlow       \* bound: jobs a worker holds longer than CLAIM_IDLE_MS

Jobs   == 1..MaxJobs
None   == 0
Free   == "free"        \* nobody has the lock
Reader == "reader"      \* the web process in which the member opens the room
Orphan == "orphan"      \* the holder of the lock has stopped

ASSUME BoundsAssumption ==
    /\ MaxJobs \in Nat /\ MaxOpenings \in Nat /\ MaxCrashes \in Nat
    /\ MaxFailures \in Nat /\ MaxSlow \in Nat
    /\ Workers \cap {Free, Reader, Orphan} = {}

VARIABLES
    \* Redis
    stream,      \* of each job: "unsent", "new", "pending" (with a worker) or "acked"
    idle,        \* pending jobs nobody has touched for CLAIM_IDLE_MS
    delivered,   \* jobs with a notification-delivered marker
    deferred,    \* jobs with a notification-deferred marker
    cooldown,    \* does the cooldown key name a time to come?
    pendingJob,  \* the deferred job, or None
    delayed,     \* its entry in the delayed set: "none", "waiting" or "due"
    lock,        \* the holder of the lock
    \* processes
    pc, batch,   \* where a worker is, and the jobs it has still to process
    job,         \* the deferred job a worker is pushing
    rpc,         \* where the web process is that opens the room
    \* history, for the properties
    unheard,     \* messages since which nothing was pushed and the room not opened
    quiet,       \* was something pushed less than an hour ago, the room not opened since?
    silenced,    \* deferred jobs dropped because the room was opened
    \* counters for the bounds
    openings, crashes, failures, slow

streamVars == <<stream, idle, delivered, deferred>>
pairVars   == <<cooldown, pendingJob, delayed>>
workVars   == <<pc, batch, job>>
history    == <<unheard, quiet, silenced>>
counters   == <<openings, crashes, failures, slow>>
vars == <<streamVars, pairVars, lock, workVars, rpc, history, counters>>

Init ==
    /\ stream = [j \in Jobs |-> "unsent"] /\ idle = {}
    /\ delivered = {} /\ deferred = {}
    /\ cooldown = FALSE /\ pendingJob = None /\ delayed = "none"
    /\ lock = Free
    /\ pc = [w \in Workers |-> "start"] /\ batch = [w \in Workers |-> <<>>]
    /\ job = [w \in Workers |-> None]
    /\ rpc = "away"
    /\ unheard = {} /\ quiet = FALSE /\ silenced = {}
    /\ openings = 0 /\ crashes = 0 /\ failures = 0 /\ slow = 0

-----------------------------------------------------------------------------
(* The lock of the pair                                                    *)

MutantAcquire(p) == lock' = p
Acquire(p) == lock = Free /\ lock' = p

(* _release_lock: only the holder's own lock is released.                  *)
ReleasedBy(p) == IF lock = p THEN Free ELSE lock

-----------------------------------------------------------------------------
(* The web process                                                         *)

(* enqueue_notification: a job for the next message.                       *)
Enqueue(j) ==
    /\ stream[j] = "unsent" /\ \A i \in 1..(j - 1) : stream[i] # "unsent"
    /\ stream' = [stream EXCEPT ![j] = "new"]
    /\ unheard' = unheard \cup {j}
    /\ UNCHANGED <<idle, delivered, deferred, pairVars, lock, workVars, rpc, quiet,
                   silenced, counters>>

(* clear_room_notification_state, called when the member joins the room or *)
(* marks it as seen; it waits one second for the lock.                     *)
OpenRoom ==
    /\ rpc = "away" /\ openings < MaxOpenings /\ openings' = openings + 1
    /\ unheard' = {}
    /\ \/ Acquire(Reader) /\ rpc' = "clear"
       \/ lock # Free /\ UNCHANGED <<lock, rpc>>
    /\ UNCHANGED <<streamVars, pairVars, workVars, quiet, silenced, crashes, failures, slow>>

ClearState ==
    /\ rpc = "clear" /\ rpc' = "unlist"
    /\ cooldown' = FALSE /\ pendingJob' = None
    /\ quiet' = FALSE
    /\ silenced' = silenced \cup ({pendingJob} \ {None})
    /\ UNCHANGED <<streamVars, delayed, lock, workVars, unheard, counters>>

UnlistCleared ==
    /\ rpc = "unlist" /\ rpc' = "release"
    /\ delayed' = "none"
    /\ UNCHANGED <<streamVars, cooldown, pendingJob, lock, workVars, history, counters>>

LeaveLock ==
    /\ rpc = "release" /\ rpc' = "away"
    /\ lock' = ReleasedBy(Reader)
    /\ UNCHANGED <<streamVars, pairVars, workVars, history, counters>>

-----------------------------------------------------------------------------
(* The worker                                                              *)

Goto(w, from, to) == pc[w] = from /\ pc' = [pc EXCEPT ![w] = to]

(* A delivery arrives and returns, or raises, before or after it reached   *)
(* some device.                                                            *)
Reach == unheard' = {} /\ quiet' = TRUE

Deliver(w, from, success, failure) ==
    \/ Goto(w, from, success) /\ Reach /\ UNCHANGED failures
    \/ /\ Goto(w, from, failure)
       /\ failures < MaxFailures /\ failures' = failures + 1
       /\ Reach \/ UNCHANGED <<unheard, quiet>>

(* deliver_due_chat_notifications                                          *)

LookForDue(w) ==
    /\ Goto(w, "start", IF delayed = "due" THEN "due" ELSE "fetch")
    /\ UNCHANGED <<streamVars, pairVars, lock, batch, job, rpc, history, counters>>

LockDue(w) ==
    /\ \/ Goto(w, "due", "consider") /\ Acquire(w)
       \/ Goto(w, "due", "fetch") /\ lock # Free /\ UNCHANGED lock
    /\ UNCHANGED <<streamVars, pairVars, batch, job, rpc, history, counters>>

(* Nothing is deferred any more; or a push has begun a new hour; or the    *)
(* job has been pushed already; or it is pushed now.                       *)
Consider(w) ==
    /\ \/ Goto(w, "consider", "unlistDue") /\ pendingJob = None /\ UNCHANGED delayed
       \/ Goto(w, "consider", "releaseDue") /\ pendingJob # None /\ cooldown
             /\ delayed' = "waiting"
       \/ Goto(w, "consider", "drop") /\ pendingJob \in delivered /\ ~cooldown
             /\ UNCHANGED delayed
       \/ Goto(w, "consider", "announce") /\ pendingJob \in Jobs \ delivered /\ ~cooldown
             /\ UNCHANGED delayed
    /\ job' = [job EXCEPT ![w] = pendingJob]
    /\ UNCHANGED <<streamVars, cooldown, pendingJob, lock, batch, rpc, history, counters>>

DropDuplicate(w) ==
    /\ Goto(w, "drop", "unlistDue")
    /\ pendingJob' = None /\ cooldown' = FALSE
    /\ UNCHANGED <<streamVars, delayed, lock, batch, job, rpc, history, counters>>

(* After a failure the job is tried again in fifteen seconds.              *)
Announce(w) ==
    /\ Deliver(w, "announce", "markDue", "releaseDue")
    /\ delayed' = IF failures' > failures THEN "waiting" ELSE delayed
    /\ UNCHANGED <<streamVars, cooldown, pendingJob, lock, batch, job, rpc, silenced,
                   openings, crashes, slow>>

MarkDue(w) ==
    /\ Goto(w, "markDue", "coolDue")
    /\ delivered' = delivered \cup {job[w]}
    /\ UNCHANGED <<stream, idle, deferred, pairVars, lock, batch, job, rpc, history, counters>>

CoolDue(w) ==
    /\ Goto(w, "coolDue", "clearDue")
    /\ cooldown' = TRUE
    /\ UNCHANGED <<streamVars, pendingJob, delayed, lock, batch, job, rpc, history, counters>>

ClearDue(w) ==
    /\ Goto(w, "clearDue", "unlistDue")
    /\ pendingJob' = None
    /\ UNCHANGED <<streamVars, cooldown, delayed, lock, batch, job, rpc, history, counters>>

UnlistDue(w) ==
    /\ Goto(w, "unlistDue", "releaseDue")
    /\ delayed' = "none"
    /\ UNCHANGED <<streamVars, cooldown, pendingJob, lock, batch, job, rpc, history, counters>>

ReleaseDue(w) ==
    /\ Goto(w, "releaseDue", "fetch")
    /\ lock' = ReleasedBy(w) /\ job' = [job EXCEPT ![w] = None]
    /\ UNCHANGED <<streamVars, pairVars, batch, rpc, history, counters>>

InOrder(S) == CHOOSE s \in [1..Cardinality(S) -> S] :
                  \A i, k \in DOMAIN s : i < k => s[i] < s[k]

(* claim_notifications, then read_notifications.                           *)
Fetch(w) ==
    LET new == {j \in Jobs : stream[j] = "new"} IN
    /\ Goto(w, "fetch", "next")
    /\ batch' = [batch EXCEPT ![w] = InOrder(idle) \o InOrder(new)]
    /\ stream' = [j \in Jobs |-> IF j \in new THEN "pending" ELSE stream[j]]
    /\ idle' = {}
    /\ UNCHANGED <<delivered, deferred, pairVars, lock, job, rpc, history, counters>>

(* _process_job                                                            *)

Current(w) == Head(batch[w])
Rest(w) == batch' = [batch EXCEPT ![w] = Tail(@)]

Known(w) == Current(w) \in delivered \cup deferred

EndBatch(w) ==
    /\ batch[w] = <<>> /\ Goto(w, "next", "start")
    /\ UNCHANGED <<streamVars, pairVars, lock, batch, job, rpc, history, counters>>

Check(w) ==
    /\ batch[w] # <<>>
    /\ Goto(w, "next", IF Known(w) THEN "ack" ELSE "lock")
    /\ UNCHANGED <<streamVars, pairVars, lock, batch, job, rpc, history, counters>>

(* dispatch_or_defer_chat_notification; a job that finds the lock taken    *)
(* stays pending.                                                          *)
Lock(w) ==
    /\ \/ Goto(w, "lock", "decide") /\ Acquire(w) /\ UNCHANGED batch
       \/ Goto(w, "lock", "next") /\ lock # Free /\ UNCHANGED lock /\ Rest(w)
    /\ UNCHANGED <<streamVars, pairVars, job, rpc, history, counters>>

MutantForgetful(w) ==
    /\ \/ Goto(w, "decide", "list") /\ cooldown /\ pendingJob' = Current(w)
       \/ Goto(w, "decide", "unlist") /\ pendingJob' = None
    /\ UNCHANGED <<streamVars, cooldown, delayed, lock, batch, job, rpc, history, counters>>

MutantFirstOnly(w) ==
    /\ \/ Goto(w, "decide", "list") /\ cooldown
             /\ pendingJob' = IF pendingJob = None THEN Current(w) ELSE pendingJob
       \/ Goto(w, "decide", "unlist") /\ ~cooldown /\ pendingJob' = None
    /\ UNCHANGED <<streamVars, cooldown, delayed, lock, batch, job, rpc, history, counters>>

Decide(w) ==
    /\ \/ Goto(w, "decide", "list") /\ cooldown /\ pendingJob' = Current(w)
       \/ Goto(w, "decide", "unlist") /\ ~cooldown /\ pendingJob' = None
    /\ UNCHANGED <<streamVars, cooldown, delayed, lock, batch, job, rpc, history, counters>>

MutantList(w) ==
    /\ Goto(w, "list", "releaseDeferred")
    /\ UNCHANGED <<streamVars, pairVars, lock, batch, job, rpc, history, counters>>

(* The score is the end of the cooldown.                                   *)
List(w) ==
    /\ Goto(w, "list", "releaseDeferred")
    /\ delayed' = IF cooldown THEN "waiting" ELSE "due"
    /\ UNCHANGED <<streamVars, cooldown, pendingJob, lock, batch, job, rpc, history, counters>>

Unlist(w) ==
    /\ Goto(w, "unlist", "deliver")
    /\ delayed' = "none"
    /\ UNCHANGED <<streamVars, cooldown, pendingJob, lock, batch, job, rpc, history, counters>>

DeliverNow(w) ==
    /\ Deliver(w, "deliver", "cool", "releaseFailed")
    /\ UNCHANGED <<streamVars, pairVars, lock, batch, job, rpc, silenced, openings,
                   crashes, slow>>

Cool(w) ==
    /\ Goto(w, "cool", "releaseDelivered")
    /\ cooldown' = TRUE
    /\ UNCHANGED <<streamVars, pendingJob, delayed, lock, batch, job, rpc, history, counters>>

Release(w) ==
    /\ \/ Goto(w, "releaseDeferred", "markDeferred") /\ UNCHANGED batch
       \/ Goto(w, "releaseDelivered", "markDelivered") /\ UNCHANGED batch
       \/ Goto(w, "releaseFailed", "next") /\ Rest(w)
    /\ lock' = ReleasedBy(w)
    /\ UNCHANGED <<streamVars, pairVars, job, rpc, history, counters>>

Mark(w) ==
    /\ \/ /\ Goto(w, "markDeferred", "ack") /\ deferred' = deferred \cup {Current(w)}
          /\ UNCHANGED delivered
       \/ /\ Goto(w, "markDelivered", "ack") /\ delivered' = delivered \cup {Current(w)}
          /\ UNCHANGED deferred
    /\ UNCHANGED <<stream, idle, pairVars, lock, batch, job, rpc, history, counters>>

Acknowledge(w) ==
    /\ Goto(w, "ack", "next") /\ Rest(w)
    /\ stream' = [stream EXCEPT ![Current(w)] = "acked"]
    /\ idle' = idle \ {Current(w)}
    /\ UNCHANGED <<delivered, deferred, pairVars, lock, job, rpc, history, counters>>

Due(w) ==
    \/ LookForDue(w) \/ LockDue(w) \/ Consider(w) \/ DropDuplicate(w) \/ Announce(w)
    \/ MarkDue(w) \/ CoolDue(w) \/ ClearDue(w) \/ UnlistDue(w) \/ ReleaseDue(w)

Process(w) ==
    \/ Fetch(w) \/ EndBatch(w) \/ Check(w) \/ Lock(w) \/ Decide(w) \/ List(w) \/ Unlist(w)
    \/ DeliverNow(w) \/ Cool(w) \/ Release(w) \/ Mark(w) \/ Acknowledge(w)

Work(w) == Due(w) \/ Process(w)

-----------------------------------------------------------------------------
(* Time and faults                                                         *)

Sending == {"deliver", "cool", "announce", "markDue", "coolDue"}

(* The hour is over.  No push takes an hour.                               *)
HourPasses ==
    /\ cooldown /\ \A w \in Workers : pc[w] \notin Sending
    /\ cooldown' = FALSE /\ quiet' = FALSE
    /\ delayed' = IF delayed = "waiting" THEN "due" ELSE delayed
    /\ UNCHANGED <<streamVars, pendingJob, lock, workVars, rpc, unheard, silenced, counters>>

(* The fifteen seconds after a failed push.                                *)
RetryFallsDue ==
    /\ delayed = "waiting" /\ ~cooldown
    /\ delayed' = "due"
    /\ UNCHANGED <<streamVars, cooldown, pendingJob, lock, workVars, rpc, history, counters>>

Held(j) == \E w \in Workers : \E i \in DOMAIN batch[w] : batch[w][i] = j

(* A pending job may be claimed; that of a living worker when it is slow.  *)
FallIdle(j) ==
    /\ stream[j] = "pending" /\ j \notin idle
    /\ IF Held(j) THEN slow < MaxSlow /\ slow' = slow + 1 ELSE UNCHANGED slow
    /\ idle' = idle \cup {j}
    /\ UNCHANGED <<stream, delivered, deferred, pairVars, lock, workVars, rpc, history,
                   openings, crashes, failures>>

Abandon(p) == lock' = IF lock = p THEN Orphan ELSE lock

(* A process stops and is started again.                                   *)
Crash(w) ==
    /\ crashes < MaxCrashes /\ crashes' = crashes + 1
    /\ Abandon(w)
    /\ pc' = [pc EXCEPT ![w] = "start"] /\ batch' = [batch EXCEPT ![w] = <<>>]
    /\ job' = [job EXCEPT ![w] = None]
    /\ UNCHANGED <<streamVars, pairVars, rpc, history, openings, failures, slow>>

CrashWeb ==
    /\ rpc # "away"
    /\ crashes < MaxCrashes /\ crashes' = crashes + 1
    /\ Abandon(Reader) /\ rpc' = "away"
    /\ UNCHANGED <<streamVars, pairVars, workVars, history, openings, failures, slow>>

MutantLockExpires == FALSE /\ UNCHANGED vars

(* CHAT_PUSH_LOCK_SECONDS: no living process holds the lock that long.     *)
LockExpires ==
    /\ lock = Orphan /\ lock' = Free
    /\ UNCHANGED <<streamVars, pairVars, workVars, rpc, history, counters>>

Web  == OpenRoom \/ ClearState \/ UnlistCleared \/ LeaveLock \/ \E j \in Jobs : Enqueue(j)
Time == HourPasses \/ RetryFallsDue \/ LockExpires \/ \E j \in Jobs : FallIdle(j)

Next == Web \/ Time \/ CrashWeb \/ \E w \in Workers : Work(w) \/ Crash(w)

Spec == Init /\ [][Next]_vars

(* Workers go on, time passes, and a request that has the lock goes on.    *)
Fairness ==
    /\ \A w \in Workers : WF_vars(Work(w))
    /\ WF_vars(ClearState \/ UnlistCleared \/ LeaveLock)
    /\ WF_vars(HourPasses) /\ WF_vars(RetryFallsDue) /\ WF_vars(LockExpires)
    /\ \A j \in Jobs : WF_vars(FallIdle(j) /\ ~Held(j))

FairSpec == Spec /\ Fairness

-----------------------------------------------------------------------------
(* Properties                                                              *)

InDue == {"consider", "drop", "announce", "markDue", "coolDue", "clearDue", "unlistDue", "releaseDue"}
InDispatch == {"decide", "list", "unlist", "deliver", "cool", "releaseDeferred",
               "releaseDelivered", "releaseFailed"}
Outside == {"start", "due", "fetch", "next", "lock", "markDeferred", "markDelivered", "ack"}

(* Every variable has its type.                                            *)
TypeOK ==
    /\ stream \in [Jobs -> {"unsent", "new", "pending", "acked"}]
    /\ idle \subseteq {j \in Jobs : stream[j] = "pending"}
    /\ delivered \subseteq Jobs /\ deferred \subseteq Jobs
    /\ cooldown \in BOOLEAN /\ pendingJob \in Jobs \cup {None}
    /\ delayed \in {"none", "waiting", "due"}
    /\ lock \in Workers \cup {Free, Reader, Orphan}
    /\ pc \in [Workers -> InDue \cup InDispatch \cup Outside]
    /\ batch \in [Workers -> Seq(Jobs)] /\ job \in [Workers -> Jobs \cup {None}]
    /\ rpc \in {"away", "clear", "unlist", "release"}
    /\ unheard \subseteq Jobs /\ quiet \in BOOLEAN /\ silenced \subseteq Jobs
    /\ openings \in 0..MaxOpenings /\ crashes \in 0..MaxCrashes
    /\ failures \in 0..MaxFailures /\ slow \in 0..MaxSlow

Pushing(w) == pc[w] \in {"deliver", "announce"} /\ pc'[w] # pc[w]

Faultless == crashes = 0 /\ failures = 0 /\ slow = 0

(* Whoever changes the state of the pair has its lock, workers and the web *)
(* process alike, whichever of them has stopped.                           *)
MutualExclusion ==
    /\ \A w \in Workers : pc[w] \in InDue \cup InDispatch => lock = w
    /\ rpc # "away" => lock = Reader

(* The member is disturbed once an hour at most, unless the room has been  *)
(* opened in between: whatever workers and requests do at the same time,   *)
(* as long as no process stops and no delivery raises half-way.            *)
OncePerHour ==
    [][crashes' = 0 /\ failures' = 0 /\ quiet => \A w \in Workers : ~Pushing(w)]_vars

(* A deferred notification that the opening of the room has dropped is not *)
(* pushed later.                                                           *)
OpeningSilences ==
    [][Faultless' => \A w \in Workers : Pushing(w) =>
         (IF pc[w] = "announce" THEN job[w] ELSE Current(w)) \notin silenced]_vars

(* What is pushed when the hour is over is the newest message the worker   *)
(* has taken from the stream: "Deliver the latest coalesced job".          *)
PushesNewest ==
    Faultless' /\ openings = 0 /\ Cardinality(Workers) = 1 =>
        \A w \in Workers : pc[w] = "announce" /\ Pushing(w) =>
            \A j \in Jobs : stream[j] = "acked" => j <= job[w]

NewestIsPushed == [][PushesNewest]_vars

(* What an hour has deferred is pushed in time or not at all.              *)
PushesAreTimely == OpeningSilences /\ NewestIsPushed

(* Nothing is lost: as long as the member has not heard of a message, the  *)
(* stream or the delayed set still holds something that will be pushed,    *)
(* though jobs are acknowledged when they are deferred and the deferred    *)
(* one is deleted before its successor is pushed.                          *)
NothingIsLost ==
    unheard # {} =>
        \/ \E j \in Jobs : stream[j] \in {"new", "pending"}
        \/ pendingJob # None /\ delayed # "none"

QueueInvariant == TypeOK /\ NothingIsLost

(* Whatever stops or fails, the member hears of every message: something   *)
(* is pushed after it, or the room is opened.                              *)
Heard == unheard # {} ~> unheard = {}
=============================================================================
