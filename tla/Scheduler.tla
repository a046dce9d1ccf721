----------------------------- MODULE Scheduler -----------------------------
(***************************************************************************)
(* The scheduler (zzz/scheduler.py, run_scheduler.py, zzz/apps.py): which  *)
(* process may have one, the lock file that keeps it to one process, the   *)
(* jobs it starts when they are due, each in a thread of its own, and the  *)
(* lock that lets one command at a time at the database.                   *)
(*                                                                         *)
(* Of the six commands two stand for all, one due at every tick, one once  *)
(* in a few.  What a command does is the matter of other modules, as is    *)
(* the job that announces events, which takes no lock (Events).            *)
(***************************************************************************)
EXTENDS Integers, FiniteSets

CONSTANTS Processes, LastTick, Budgets

VARIABLES
    now,
    process,    \* its state
    kind,       \* what it was launched as
    holder,     \* of the lock file, 0: nobody
    job,        \* of each process, by command: the tick it was due at and where it is
    _db_lock,   \* of each process: the command that has it
    begun,      \* history: how often a command was begun for each tick
    misses,     \* history: ticks at which a command was due and nobody there to start it
    skipped,    \* history: ... and the scheduler let it pass
    killed,     \* history: ... and it was killed while it waited
    left

vars == <<now, process, kind, holder, job, _db_lock, begun, misses, skipped, killed, left>>

Spend(what) == left[what] > 0 /\ left' = [left EXCEPT ![what] = @ - 1]

Every == [chat_rooms |-> 1, vote |-> 2]
Commands == DOMAIN Every
Due(c, t) == t % Every[c] = 0
None == "none"
NoJob == [due |-> 0, at |-> None]

Scheduling(p) == process[p] = "scheduling"
Busy(p) == {c \in Commands : job[p][c] # NoJob}

-----------------------------------------------------------------------------
(* Processes                                                               *)

\* The dedicated command, the server of the development, and any other command.
Kinds == {"run_scheduler", "runserver", "migrate"}

should_start_scheduler(k, enabled) == enabled /\ k \in {"run_scheduler", "runserver"}

(* The dedicated command updates the site first, outside of any lock;      *)
(* others come to the scheduler when their apps are ready.                 *)
Launch(p) ==
    /\ process[p] = "off" /\ Spend("launches")
    /\ \E k \in Kinds :
          /\ kind' = [kind EXCEPT ![p] = k]
          /\ process' = [process EXCEPT ![p] = IF k = "run_scheduler" THEN "updating" ELSE "starting"]
    /\ UNCHANGED <<now, holder, job, _db_lock, begun, misses, skipped, killed>>

\* An update that fails is the end of the process.
Updated(p) ==
    /\ process[p] = "updating"
    /\ \/ process' = [process EXCEPT ![p] = "starting"] /\ UNCHANGED left
       \/ Spend("faults") /\ process' = [process EXCEPT ![p] = "off"]
    /\ UNCHANGED <<now, kind, holder, job, _db_lock, begun, misses, skipped, killed>>

\* As if the lock could be taken from a process that holds it.
MutantAcquire(p) == holder' = p

\* The lock is taken at once or not at all.
_acquire_scheduler_lock(p) == holder = 0 /\ holder' = p

\* Without a scheduler the dedicated command ends, another process goes on and never asks again.
start_scheduler(p) ==
    /\ process[p] = "starting"
    /\ \E enabled \in BOOLEAN :
          \/ /\ should_start_scheduler(kind[p], enabled) /\ _acquire_scheduler_lock(p)
             /\ process' = [process EXCEPT ![p] = "scheduling"]
          \/ /\ ~should_start_scheduler(kind[p], enabled) \/ holder # 0
             /\ process' = [process EXCEPT ![p] = IF kind[p] = "run_scheduler" THEN "off" ELSE "without"]
             /\ UNCHANGED holder
    /\ UNCHANGED <<now, kind, job, _db_lock, begun, misses, skipped, killed, left>>

(* Interrupted: the scheduler does not wait for its jobs, and gives the    *)
(* lock file back.  The jobs go on, those too that still wait.             *)
stop_scheduler(p) ==
    /\ Scheduling(p) /\ Spend("stops")
    /\ process' = [process EXCEPT ![p] = "stopping"] /\ holder' = 0
    /\ UNCHANGED <<now, kind, job, _db_lock, begun, misses, skipped, killed>>

\* A process ends with its last thread.
Exit(p) ==
    /\ process[p] \in {"stopping", "without"} /\ Busy(p) = {}
    /\ process' = [process EXCEPT ![p] = "off"]
    /\ UNCHANGED <<now, kind, holder, job, _db_lock, begun, misses, skipped, killed, left>>

\* Killed, which is what stopping its container comes to: its locks go with it.
Kill(p) ==
    /\ process[p] \notin {"off", "without"} /\ Spend("faults")
    /\ process' = [process EXCEPT ![p] = "off"]
    /\ holder' = IF holder = p THEN 0 ELSE holder
    /\ killed' = killed \cup {<<c, job[p][c].due>> : c \in {d \in Commands : job[p][d].at = "waiting"}}
    /\ job' = [job EXCEPT ![p] = [c \in Commands |-> NoJob]] /\ _db_lock' = [_db_lock EXCEPT ![p] = None]
    /\ UNCHANGED <<now, kind, begun, misses, skipped>>

-----------------------------------------------------------------------------
(* Jobs                                                                    *)

(* Time passes, and the scheduler starts what is due, but a job whose last *)
(* run is not over is let pass.                                            *)
Tick ==
    LET due == {c \in Commands : Due(c, now + 1)}
        starts(p) == {c \in due : Scheduling(p) /\ c \notin Busy(p)}
    IN /\ now < LastTick /\ now' = now + 1
       /\ job' = [p \in Processes |-> [c \in Commands |->
                     IF c \in starts(p) THEN [due |-> now + 1, at |-> "waiting"] ELSE job[p][c]]]
       /\ misses' = IF \E p \in Processes : Scheduling(p) THEN misses ELSE misses \cup (due \X {now + 1})
       /\ skipped' = skipped \cup {<<c, now + 1>> : c \in {d \in due : \E p \in Processes : Scheduling(p) /\ d \in Busy(p)}}
       /\ UNCHANGED <<process, kind, holder, _db_lock, begun, killed, left>>

\* run_vote, run_chat_rooms, ...: the lock of the process, then the command
Begin(p, c) ==
    /\ job[p][c].at = "waiting" /\ _db_lock[p] = None
    /\ job' = [job EXCEPT ![p][c].at = "running"] /\ _db_lock' = [_db_lock EXCEPT ![p] = c]
    /\ begun' = [begun EXCEPT ![<<c, job[p][c].due>>] = @ + 1]
    /\ UNCHANGED <<now, process, kind, holder, misses, skipped, killed, left>>

Release(p, failed) == _db_lock' = [_db_lock EXCEPT ![p] = None]

\* A command that fails is over, too; the failure is logged.
_run_command(p, c) ==
    /\ job[p][c].at = "running"
    /\ \E failed \in BOOLEAN : Release(p, failed)
    /\ job' = [job EXCEPT ![p][c] = NoJob]
    /\ UNCHANGED <<now, process, kind, holder, begun, misses, skipped, killed, left>>

Init ==
    /\ now = 0 /\ process = [p \in Processes |-> "off"] /\ kind = [p \in Processes |-> "migrate"] /\ holder = 0
    /\ job = [p \in Processes |-> [c \in Commands |-> NoJob]] /\ _db_lock = [p \in Processes |-> None]
    /\ begun = [ct \in Commands \X (1..LastTick) |-> 0] /\ misses = {} /\ skipped = {} /\ killed = {}
    /\ left \in Budgets

Next ==
    \/ Tick
    \/ \E p \in Processes : \/ Launch(p) \/ Updated(p) \/ start_scheduler(p) \/ stop_scheduler(p) \/ Exit(p) \/ Kill(p)
                            \/ \E c \in Commands : Begin(p, c) \/ _run_command(p, c)

-----------------------------------------------------------------------------
(* Properties                                                              *)

TypeOK ==
    /\ now \in 0..LastTick /\ holder \in Processes \cup {0}
    /\ process \in [Processes -> {"off", "updating", "starting", "scheduling", "stopping", "without"}]
    /\ job \in [Processes -> [Commands -> [due : 0..LastTick, at : {None, "waiting", "running"}]]]
    /\ _db_lock \in [Processes -> Commands \cup {None}]

(* Whatever processes are launched, killed and launched again, at most one *)
(* schedules, and only of a kind that may.                                 *)
OneScheduler ==
    \A p \in Processes : Scheduling(p) => holder = p /\ kind[p] \in {"run_scheduler", "runserver"}

(* Commands run one at a time, also those of two processes, unless the one *)
(* was told to stop while its commands ran or waited.                      *)
OneAtATime ==
    LET running == {a \in Processes \X Commands : job[a[1]][a[2]].at = "running"}
    IN \A a, b \in running : a # b => a[1] # b[1] /\ (process[a[1]] = "stopping" \/ process[b[1]] = "stopping")

\* A command is begun once at most for the time it was due, by any process.
OnceADue == \A ct \in DOMAIN begun : begun[ct] <= 1

(* A due command is begun, or about to be, but for the reasons there are:  *)
(* nobody scheduled, its last run was not over, it was killed.             *)
NoneIsForgotten ==
    \A ct \in Commands \X (1..now) :
        Due(ct[1], ct[2]) => \/ begun[ct] = 1 \/ ct \in misses \cup skipped \cup killed
                             \/ \E p \in Processes : job[p][ct[1]] = [due |-> ct[2], at |-> "waiting"]

\* The lock is a running command's: no command waits for one that is over.
NobodyWaitsInVain ==
    \A p \in Processes : _db_lock[p] # None => job[p][_db_lock[p]].at = "running"

SchedulerInvariant == TypeOK /\ OneScheduler /\ OneAtATime /\ OnceADue /\ NoneIsForgotten /\ NobodyWaitsInVain
=============================================================================
