------------------------------ MODULE VotingProofs ------------------------------
(***************************************************************************)
(* Theorems about what surrounds the voting and the members: the           *)
(* scheduler, one member's presence, the accounts and the map, for any     *)
(* processes, people, places and budgets.  The parts share no state, so a  *)
(* step of the whole is a step of one of them and leaves the others as     *)
(* they are; each section has the inductive invariant of one part.         *)
(***************************************************************************)
EXTENDS MCVoting, FiniteSetTheorems, SequenceTheorems, WellFoundedInduction, TLAPS

-----------------------------------------------------------------------------
(* The scheduler                                                           *)

(* The number of nobody is not that of a process, as with those of the     *)
(* operating system.                                                       *)
Numbered == 0 \notin Processes /\ LastDue \in Nat

LEMMA CommandFacts == L!None \notin L!Commands /\ L!NoJob.at = L!None /\ L!NoJob.due = 0
BY DEF L!Commands, L!Every, L!None, L!NoJob

-----------------------------------------------------------------------------
(* The inductive invariant                                                 *)

ProcessStates == {"off", "updating", "starting", "scheduling", "stopping", "without"}
Jobs   == [due : 0..LastDue, at : {L!None, "waiting", "running"}]

ScheduleTyped ==
    /\ now \in 0..LastDue /\ holder \in Processes \cup {0}
    /\ process \in [Processes -> ProcessStates] /\ kind \in [Processes -> L!Kinds]
    /\ job \in [Processes -> [L!Commands -> Jobs]]
    /\ _db_lock \in [Processes -> L!Commands \cup {L!None}]
    /\ begun \in [L!Commands \X (1..LastDue) -> Nat]

(* Jobs are those of a process that schedules or has been told to stop.    *)
JobsOwned == \A p \in Processes, c \in L!Commands : job[p][c] # L!NoJob => process[p] \in {"scheduling", "stopping"}

(* A command runs with the lock of its process.                            *)
JobsLocked == \A p \in Processes, c \in L!Commands : job[p][c].at = "running" => _db_lock[p] = c

(* What waits was due, has not been begun, and waits in one process;       *)
(* nothing is begun before it is due.                                      *)
JobsFresh ==
    /\ \A p \in Processes, c \in L!Commands :
         job[p][c].at = "waiting" => job[p][c].due \in 1..now /\ begun[<<c, job[p][c].due>>] = 0
    /\ \A p, q \in Processes, c \in L!Commands :
         job[p][c].at = "waiting" /\ job[q][c].at = "waiting" /\ job[p][c].due = job[q][c].due => p = q
    /\ \A c \in L!Commands, t \in 1..LastDue : t > now => begun[<<c, t>>] = 0

ScheduleSound ==
    /\ ScheduleTyped /\ L!OneScheduler /\ JobsOwned /\ JobsLocked /\ JobsFresh
    /\ L!OnceADue /\ L!NoneIsForgotten /\ L!NobodyWaitsInVain

LEMMA JobFacts ==
    ASSUME ScheduleTyped, NEW p \in Processes, NEW c \in L!Commands
    PROVE  /\ job[p] \in [L!Commands -> Jobs] /\ job[p][c] \in Jobs
           /\ job[p][c].due \in 0..LastDue /\ job[p][c].at \in {L!None, "waiting", "running"}
           /\ job[p][c].at # L!None => job[p][c] # L!NoJob
<1>1. job[p] \in [L!Commands -> Jobs] /\ job[p][c] \in Jobs
  BY DEF ScheduleTyped
<1> QED BY <1>1, CommandFacts DEF Jobs

LEMMA ScheduleInitSound == ASSUME Numbered, L!Init PROVE ScheduleSound
<1>1. L!NoJob \in Jobs
  BY DEF L!NoJob, Jobs, Numbered
<1>2. \A p \in Processes, c \in L!Commands : job[p][c] = L!NoJob /\ L!NoJob.at = "none"
  BY DEF L!Init, L!NoJob, L!None
<1>3. ScheduleTyped
  <2>1. job \in [Processes -> [L!Commands -> Jobs]]
    BY <1>1 DEF L!Init
  <2> QED BY <2>1 DEF L!Init, ScheduleTyped, Numbered, ProcessStates, L!Kinds
<1>4. L!OneScheduler /\ JobsOwned /\ JobsLocked /\ L!NobodyWaitsInVain
  BY <1>2 DEF L!Init, L!OneScheduler, L!Scheduling, JobsOwned, JobsLocked, L!NobodyWaitsInVain, L!None
<1>5. JobsFresh
  BY <1>2 DEF L!Init, JobsFresh
<1>6. L!OnceADue
  BY DEF L!Init, L!OnceADue
<1>7. L!NoneIsForgotten
  BY DEF L!Init, L!NoneIsForgotten
<1> QED BY <1>3, <1>4, <1>5, <1>6, <1>7 DEF ScheduleSound

-----------------------------------------------------------------------------
(* The steps of the processes                                              *)

LEMMA ProcessStep ==
    ASSUME Numbered, ScheduleSound, NEW p \in Processes,
           L!Launch(p) \/ L!Updated(p) \/ L!start_scheduler(p) \/ L!stop_scheduler(p) \/ L!Exit(p)
    PROVE  ScheduleSound'
<1>0. ScheduleTyped /\ L!OneScheduler /\ JobsOwned BY DEF ScheduleSound
<1>1. UNCHANGED <<now, job, _db_lock, begun, misses, skipped, killed>>
  BY DEF L!Launch, L!Updated, L!start_scheduler, L!stop_scheduler, L!Exit
<1>2. JobsLocked' /\ JobsFresh' /\ L!OnceADue' /\ L!NoneIsForgotten' /\ L!NobodyWaitsInVain'
  BY <1>1 DEF ScheduleSound, JobsLocked, JobsFresh, L!OnceADue, L!NoneIsForgotten, L!NobodyWaitsInVain
<1>3. PICK state \in ProcessStates : process' = [process EXCEPT ![p] = state]
  BY DEF L!Launch, L!Updated, L!start_scheduler, L!stop_scheduler, L!Exit, ProcessStates
<1>4. ScheduleTyped'
  <2>1. process' \in [Processes -> ProcessStates]
    BY <1>0, <1>3 DEF ScheduleTyped
  <2>2. kind' \in [Processes -> L!Kinds]
    BY <1>0 DEF ScheduleTyped, L!Launch, L!Updated, L!start_scheduler, L!stop_scheduler, L!Exit
  <2>3. holder' \in Processes \cup {0}
    BY <1>0 DEF ScheduleTyped, L!Launch, L!Updated, L!start_scheduler, L!stop_scheduler, L!Exit, L!_acquire_scheduler_lock
  <2> QED BY <1>0, <1>1, <2>1, <2>2, <2>3 DEF ScheduleTyped
<1>5. process'[p] = state /\ \A q \in Processes \ {p} : process'[q] = process[q]
  BY <1>0, <1>3 DEF ScheduleTyped
<1>6. JobsOwned'
  <2>1. CASE process[p] \in {"scheduling", "stopping"} /\ state \in {"scheduling", "stopping"}
    BY <1>0, <1>1, <1>5, <2>1 DEF JobsOwned
  <2>2. CASE \A c \in L!Commands : job[p][c] = L!NoJob
    BY <1>0, <1>1, <1>5, <2>2 DEF JobsOwned
  <2>3. CASE process[p] \in {"off", "updating", "starting"}
    BY <1>0, <2>2, <2>3 DEF JobsOwned
  <2>4. CASE L!Exit(p)
    BY <2>2, <2>4 DEF L!Exit, L!Busy
  <2>5. CASE L!stop_scheduler(p)
    BY <1>0, <1>5, <2>1, <2>5 DEF L!stop_scheduler, L!Scheduling, ScheduleTyped
  <2> QED BY <2>3, <2>4, <2>5 DEF L!Launch, L!Updated, L!start_scheduler
<1>7. L!OneScheduler'
  <2>1. CASE L!Launch(p) \/ L!Updated(p) \/ L!Exit(p)
    <3>1. /\ UNCHANGED holder /\ state # "scheduling"
          /\ \A q \in Processes \ {p} : kind'[q] = kind[q]
      BY <1>0, <1>5, <2>1 DEF L!Launch, L!Updated, L!Exit, ScheduleTyped
    <3> QED BY <1>0, <1>5, <3>1 DEF L!OneScheduler, L!Scheduling
  <2>2. CASE L!start_scheduler(p)
    <3>1. UNCHANGED kind BY <2>2 DEF L!start_scheduler
    <3>2. CASE holder # 0 \/ UNCHANGED holder
      <4>1. UNCHANGED holder /\ state # "scheduling"
        BY <1>0, <1>5, <2>2, <3>2 DEF L!start_scheduler, L!_acquire_scheduler_lock, ScheduleTyped, Numbered
      <4> QED BY <1>0, <1>5, <3>1, <4>1 DEF L!OneScheduler, L!Scheduling
    <3>3. CASE holder = 0 /\ holder' # holder
      <4>1. holder' = p /\ kind[p] \in {"run_scheduler", "runserver"}
        BY <2>2, <3>3 DEF L!start_scheduler, L!_acquire_scheduler_lock, L!should_start_scheduler
      <4>2. \A q \in Processes : process[q] # "scheduling"
        BY <1>0, <3>3 DEF L!OneScheduler, L!Scheduling, Numbered
      <4> QED BY <1>5, <3>1, <4>1, <4>2 DEF L!OneScheduler, L!Scheduling
    <3> QED BY <3>2, <3>3
  <2>3. CASE L!stop_scheduler(p)
    <3>1. state # "scheduling" /\ UNCHANGED kind /\ holder = p
      BY <1>0, <1>5, <2>3 DEF L!stop_scheduler, ScheduleTyped, L!OneScheduler
    <3> QED BY <1>0, <1>5, <3>1 DEF L!OneScheduler, L!Scheduling
  <2> QED BY <2>1, <2>2, <2>3
<1> QED BY <1>2, <1>4, <1>6, <1>7 DEF ScheduleSound

LEMMA KillStep ==
    ASSUME Numbered, ScheduleSound, NEW p \in Processes, L!Kill(p)
    PROVE  ScheduleSound'
<1>0. /\ ScheduleTyped /\ L!OneScheduler /\ JobsOwned /\ JobsLocked /\ JobsFresh
      /\ L!OnceADue /\ L!NoneIsForgotten /\ L!NobodyWaitsInVain
  BY DEF ScheduleSound
<1>1. /\ UNCHANGED <<now, kind, begun, misses, skipped>>
      /\ process' = [process EXCEPT ![p] = "off"]
      /\ holder' = IF holder = p THEN 0 ELSE holder
      /\ killed' = killed \cup {<<c, job[p][c].due>> : c \in {d \in L!Commands : job[p][d].at = "waiting"}}
      /\ job' = [job EXCEPT ![p] = [c \in L!Commands |-> L!NoJob]]
      /\ _db_lock' = [_db_lock EXCEPT ![p] = L!None]
  BY DEF L!Kill
<1>2. /\ process'[p] = "off" /\ _db_lock'[p] = L!None /\ \A c \in L!Commands : job'[p][c] = L!NoJob
      /\ \A q \in Processes \ {p} : /\ process'[q] = process[q] /\ job'[q] = job[q]
                                   /\ _db_lock'[q] = _db_lock[q]
  BY <1>0, <1>1 DEF ScheduleTyped
<1>3. L!NoJob.at = "none"
  BY DEF L!NoJob, L!None
<1>4. ScheduleTyped'
  <2>1. L!NoJob \in Jobs
    BY DEF L!NoJob, Jobs, Numbered
  <2>2. job' \in [Processes -> [L!Commands -> Jobs]]
    BY <1>0, <1>1, <2>1 DEF ScheduleTyped
  <2>3. process' \in [Processes -> ProcessStates]
    BY <1>0, <1>1 DEF ScheduleTyped, ProcessStates
  <2>4. _db_lock' \in [Processes -> L!Commands \cup {L!None}]
    BY <1>0, <1>1 DEF ScheduleTyped
  <2> QED BY <1>0, <1>1, <2>2, <2>3, <2>4 DEF ScheduleTyped
<1>5. L!OneScheduler'
  BY <1>0, <1>1, <1>2 DEF L!OneScheduler, L!Scheduling
<1>6. JobsOwned' /\ JobsLocked' /\ L!NobodyWaitsInVain'
  BY <1>0, <1>2, <1>3 DEF JobsOwned, JobsLocked, L!NobodyWaitsInVain
<1>7. JobsFresh' /\ L!OnceADue'
  BY <1>0, <1>1, <1>2, <1>3 DEF JobsFresh, L!OnceADue
<1>8. L!NoneIsForgotten'
  <2> SUFFICES ASSUME NEW ct \in L!Commands \X (1..now), L!Due(ct[1], ct[2])
               PROVE  \/ begun[ct] = 1 \/ ct \in misses \cup skipped \cup killed'
                      \/ \E q \in Processes : job'[q][ct[1]] = [due |-> ct[2], at |-> "waiting"]
    BY <1>1 DEF L!NoneIsForgotten
  <2>1. CASE \E q \in Processes \ {p} : job[q][ct[1]] = [due |-> ct[2], at |-> "waiting"]
    BY <1>2, <2>1
  <2>2. CASE job[p][ct[1]] = [due |-> ct[2], at |-> "waiting"]
    <3>1. ct[1] \in L!Commands /\ ct = <<ct[1], ct[2]>> OBVIOUS
    <3>2. <<ct[1], job[p][ct[1]].due>> \in killed' BY <1>1, <2>2, <3>1
    <3> QED BY <2>2, <3>1, <3>2
  <2> QED BY <1>0, <1>1, <2>1, <2>2 DEF L!NoneIsForgotten
<1> QED BY <1>4, <1>5, <1>6, <1>7, <1>8 DEF ScheduleSound

-----------------------------------------------------------------------------
(* The steps of the jobs                                                   *)

(* A job of process p for command c is put to the state new, everything    *)
(* else about jobs left alone.                                             *)
PutJob(p, c, new) ==
    /\ job'[p][c] = new
    /\ \A q \in Processes, d \in L!Commands : q # p \/ d # c => job'[q][d] = job[q][d]

LEMMA PutFacts ==
    ASSUME ScheduleTyped, NEW p \in Processes, NEW c \in L!Commands, NEW new \in Jobs,
           job' = [job EXCEPT ![p] = [job[p] EXCEPT ![c] = new]]
    PROVE  PutJob(p, c, new) /\ job' \in [Processes -> [L!Commands -> Jobs]]
<1>1. job \in [Processes -> [L!Commands -> Jobs]] /\ job[p] \in [L!Commands -> Jobs]
  BY DEF ScheduleTyped
<1>2. [job[p] EXCEPT ![c] = new] \in [L!Commands -> Jobs]
  BY <1>1
<1>3. job' \in [Processes -> [L!Commands -> Jobs]]
  BY <1>1, <1>2
<1>4. job'[p] = [job[p] EXCEPT ![c] = new] /\ \A q \in Processes : q # p => job'[q] = job[q]
  BY <1>1
<1>5. job'[p][c] = new /\ \A d \in L!Commands : d # c => job'[p][d] = job[p][d]
  BY <1>1, <1>4
<1> QED BY <1>3, <1>4, <1>5 DEF PutJob

LEMMA BeginStep ==
    ASSUME Numbered, ScheduleSound, NEW p \in Processes, NEW c \in L!Commands, L!Begin(p, c)
    PROVE  ScheduleSound'
<1> DEFINE t   == job[p][c].due
           new == [due |-> t, at |-> "running"]
<1>0. /\ ScheduleTyped /\ L!OneScheduler /\ JobsOwned /\ JobsLocked /\ JobsFresh
      /\ L!OnceADue /\ L!NoneIsForgotten /\ L!NobodyWaitsInVain
  BY DEF ScheduleSound
<1>1. /\ job[p][c].at = "waiting" /\ _db_lock[p] = L!None
      /\ job' = [job EXCEPT ![p][c].at = "running"]
      /\ _db_lock' = [_db_lock EXCEPT ![p] = c]
      /\ begun' = [begun EXCEPT ![<<c, t>>] = @ + 1]
      /\ UNCHANGED <<now, process, kind, holder, misses, skipped, killed>>
  BY DEF L!Begin
<1>2. /\ t \in 1..now /\ now \in 0..LastDue /\ begun[<<c, t>>] = 0
      /\ <<c, t>> \in L!Commands \X (1..LastDue)
  <2>1. t \in 1..now /\ begun[<<c, t>>] = 0
    BY <1>0, <1>1 DEF JobsFresh
  <2>2. now \in 0..LastDue
    BY <1>0 DEF ScheduleTyped
  <2>3. t \in 1..LastDue
    BY <2>1, <2>2 DEF Numbered
  <2> QED BY <2>1, <2>2, <2>3
<1>3. new \in Jobs /\ job[p] \in [L!Commands -> Jobs] /\ job[p][c] \in Jobs
  BY <1>0, <1>2, JobFacts DEF Jobs, Numbered
<1>4. job' = [job EXCEPT ![p] = [job[p] EXCEPT ![c] = new]]
  <2>1. [job[p][c] EXCEPT !.at = "running"] = new
    BY <1>3 DEF Jobs
  <2> QED BY <1>1, <2>1
<1>5. PutJob(p, c, new) /\ job' \in [Processes -> [L!Commands -> Jobs]]
  BY <1>0, <1>3, <1>4, PutFacts
<1>6. new.at = "running" /\ new.due = t /\ new # L!NoJob
  BY CommandFacts DEF L!NoJob, L!None
<1>7. begun' \in [L!Commands \X (1..LastDue) -> Nat] /\ begun'[<<c, t>>] = 1
      /\ \A ct \in L!Commands \X (1..LastDue) : ct # <<c, t>> => begun'[ct] = begun[ct]
  BY <1>0, <1>1, <1>2 DEF ScheduleTyped
<1>8. /\ _db_lock' \in [Processes -> L!Commands \cup {L!None}] /\ _db_lock'[p] = c
      /\ \A q \in Processes : q # p => _db_lock'[q] = _db_lock[q]
  BY <1>0, <1>1 DEF ScheduleTyped
<1> HIDE DEF t, new
<1>9. ScheduleTyped'
  BY <1>0, <1>1, <1>5, <1>7, <1>8 DEF ScheduleTyped
<1>10. L!OneScheduler'
  BY <1>0, <1>1 DEF L!OneScheduler, L!Scheduling
<1>11. JobsOwned'
  <2>1. job[p][c] # L!NoJob
    BY <1>1, CommandFacts DEF L!None
  <2> QED BY <1>0, <1>1, <1>5, <2>1 DEF JobsOwned, PutJob
<1>12. JobsLocked'
  <2> SUFFICES ASSUME NEW q \in Processes, NEW d \in L!Commands, job'[q][d].at = "running"
               PROVE  _db_lock'[q] = d
    BY DEF JobsLocked
  <2>1. CASE q = p /\ d = c BY <1>8, <2>1
  <2>2. CASE q = p /\ d # c
    <3>1. _db_lock[p] = d BY <1>0, <1>5, <2>2 DEF JobsLocked, PutJob
    <3> QED BY <1>1, <3>1, CommandFacts
  <2>3. CASE q # p
    BY <1>0, <1>5, <1>8, <2>3 DEF JobsLocked, PutJob
  <2> QED BY <2>1, <2>2, <2>3
<1>13. JobsFresh'
  <2>1. ASSUME NEW q \in Processes, NEW d \in L!Commands, job'[q][d].at = "waiting"
        PROVE  /\ job'[q][d] = job[q][d] /\ job[q][d].due \in 1..now
               /\ begun'[<<d, job[q][d].due>>] = 0
    <3>1. job'[q][d] = job[q][d] /\ (q # p \/ d # c)
      BY <1>5, <1>6, <2>1 DEF PutJob
    <3>2. job[q][d].due \in 1..now /\ begun[<<d, job[q][d].due>>] = 0
      BY <1>0, <2>1, <3>1 DEF JobsFresh
    <3>3. <<d, job[q][d].due>> \in L!Commands \X (1..LastDue)
      BY <1>2, <3>2 DEF Numbered
    <3>4. <<d, job[q][d].due>> # <<c, t>>
      BY <1>0, <1>1, <2>1, <3>1 DEF JobsFresh, t
    <3> QED BY <1>7, <3>1, <3>2, <3>3, <3>4
  <2>2. \A q \in Processes, d \in L!Commands :
          job'[q][d].at = "waiting" => job'[q][d].due \in 1..now' /\ begun'[<<d, job'[q][d].due>>] = 0
    BY <1>1, <2>1
  <2>3. \A q, s \in Processes, d \in L!Commands :
          job'[q][d].at = "waiting" /\ job'[s][d].at = "waiting" /\ job'[q][d].due = job'[s][d].due => q = s
    <3> SUFFICES ASSUME NEW q \in Processes, NEW s \in Processes, NEW d \in L!Commands,
                        job'[q][d].at = "waiting", job'[s][d].at = "waiting", job'[q][d].due = job'[s][d].due
                 PROVE  q = s
      OBVIOUS
    <3>1. job'[q][d] = job[q][d] /\ job'[s][d] = job[s][d]
      BY <2>1
    <3> QED BY <1>0, <3>1 DEF JobsFresh
  <2>4. \A d \in L!Commands, u \in 1..LastDue : u > now' => begun'[<<d, u>>] = 0
    <3> SUFFICES ASSUME NEW d \in L!Commands, NEW u \in 1..LastDue, u > now
                 PROVE  begun'[<<d, u>>] = 0
      BY <1>1
    <3>1. u # t BY <1>2
    <3>2. begun[<<d, u>>] = 0 BY <1>0 DEF JobsFresh
    <3> QED BY <1>7, <3>1, <3>2
  <2> QED BY <2>2, <2>3, <2>4 DEF JobsFresh
<1>14. L!OnceADue'
  <2>1. \A ct \in L!Commands \X (1..LastDue) : begun[ct] <= 1
    BY <1>0 DEF L!OnceADue, ScheduleTyped
  <2>2. \A ct \in L!Commands \X (1..LastDue) : begun'[ct] <= 1
    BY <1>7, <2>1
  <2>3. DOMAIN begun' = L!Commands \X (1..LastDue)
    BY <1>7
  <2> QED BY <2>2, <2>3 DEF L!OnceADue
<1>15. L!NoneIsForgotten'
  <2> SUFFICES ASSUME NEW ct \in L!Commands \X (1..now), L!Due(ct[1], ct[2])
               PROVE  \/ begun'[ct] = 1 \/ ct \in misses \cup skipped \cup killed
                      \/ \E q \in Processes : job'[q][ct[1]] = [due |-> ct[2], at |-> "waiting"]
    BY <1>1 DEF L!NoneIsForgotten
  <2>1. CASE ct = <<c, t>> BY <1>7, <2>1
  <2>2. CASE ct # <<c, t>>
    <3>1. ct \in L!Commands \X (1..LastDue)
      BY <1>2 DEF Numbered
    <3>2. ASSUME NEW q \in Processes, job[q][ct[1]] = [due |-> ct[2], at |-> "waiting"]
          PROVE  job'[q][ct[1]] = job[q][ct[1]]
      <4>1. ct[1] \in L!Commands /\ ct = <<ct[1], ct[2]>> OBVIOUS
      <4>2. q # p \/ ct[1] # c
        BY <2>2, <3>2, <4>1 DEF t
      <4> QED BY <1>5, <4>1, <4>2 DEF PutJob
    <3> QED BY <1>0, <1>7, <2>2, <3>1, <3>2 DEF L!NoneIsForgotten
  <2> QED BY <2>1, <2>2
<1>16. L!NobodyWaitsInVain'
  <2> SUFFICES ASSUME NEW q \in Processes, _db_lock'[q] # L!None
               PROVE  job'[q][_db_lock'[q]].at = "running"
    BY DEF L!NobodyWaitsInVain
  <2>1. CASE q = p BY <1>5, <1>6, <1>8, <2>1 DEF PutJob
  <2>2. CASE q # p
    <3>1. _db_lock[q] \in L!Commands /\ job[q][_db_lock[q]].at = "running" /\ _db_lock'[q] = _db_lock[q]
      BY <1>0, <1>8, <2>2 DEF L!NobodyWaitsInVain, ScheduleTyped
    <3> QED BY <1>5, <2>2, <3>1 DEF PutJob
  <2> QED BY <2>1, <2>2
<1> QED BY <1>9, <1>10, <1>11, <1>12, <1>13, <1>14, <1>15, <1>16 DEF ScheduleSound

LEMMA RunStep ==
    ASSUME Numbered, ScheduleSound, NEW p \in Processes, NEW c \in L!Commands, L!_run_command(p, c)
    PROVE  ScheduleSound'
<1>0. /\ ScheduleTyped /\ L!OneScheduler /\ JobsOwned /\ JobsLocked /\ JobsFresh
      /\ L!OnceADue /\ L!NoneIsForgotten /\ L!NobodyWaitsInVain
  BY DEF ScheduleSound
<1>1. /\ job[p][c].at = "running" /\ job' = [job EXCEPT ![p][c] = L!NoJob]
      /\ _db_lock' = [_db_lock EXCEPT ![p] = L!None]
      /\ UNCHANGED <<now, process, kind, holder, begun, misses, skipped, killed>>
  BY DEF L!_run_command, L!Release
<1>2. L!NoJob \in Jobs /\ L!NoJob.at = L!None
  BY DEF L!NoJob, Jobs, Numbered
<1>3. job' = [job EXCEPT ![p] = [job[p] EXCEPT ![c] = L!NoJob]]
  BY <1>1
<1>4. PutJob(p, c, L!NoJob) /\ job' \in [Processes -> [L!Commands -> Jobs]]
  BY <1>0, <1>2, <1>3, PutFacts
<1>5. /\ _db_lock' \in [Processes -> L!Commands \cup {L!None}] /\ _db_lock'[p] = L!None
      /\ \A q \in Processes : q # p => _db_lock'[q] = _db_lock[q]
  BY <1>0, <1>1 DEF ScheduleTyped
<1>6. L!None # "running" /\ L!None # "waiting"
  BY DEF L!None
<1>7. ScheduleTyped' /\ L!OneScheduler'
  BY <1>0, <1>1, <1>4, <1>5 DEF ScheduleTyped, L!OneScheduler, L!Scheduling
<1>8. JobsOwned'
  BY <1>0, <1>1, <1>4 DEF JobsOwned, PutJob
<1>9. JobsLocked'
  <2> SUFFICES ASSUME NEW q \in Processes, NEW d \in L!Commands, job'[q][d].at = "running"
               PROVE  _db_lock'[q] = d
    BY DEF JobsLocked
  <2>1. (q # p \/ d # c) /\ job'[q][d] = job[q][d]
    BY <1>2, <1>4, <1>6 DEF PutJob
  <2>2. _db_lock[q] = d /\ _db_lock[p] = c
    BY <1>0, <1>1, <2>1 DEF JobsLocked
  <2> QED BY <1>5, <2>1, <2>2
<1>10. JobsFresh'
  <2>1. \A q \in Processes, d \in L!Commands : job'[q][d].at = "waiting" => job'[q][d] = job[q][d]
    BY <1>2, <1>4, <1>6 DEF PutJob
  <2> QED BY <1>0, <1>1, <2>1 DEF JobsFresh
<1>11. L!OnceADue'
  BY <1>0, <1>1 DEF L!OnceADue
<1>12. L!NoneIsForgotten'
  <2>1. \A q \in Processes, d \in L!Commands : job[q][d].at = "waiting" => job'[q][d] = job[q][d]
    BY <1>1, <1>4 DEF PutJob
  <2> SUFFICES ASSUME NEW ct \in L!Commands \X (1..now), L!Due(ct[1], ct[2])
               PROVE  \/ begun[ct] = 1 \/ ct \in misses \cup skipped \cup killed
                      \/ \E q \in Processes : job'[q][ct[1]] = [due |-> ct[2], at |-> "waiting"]
    BY <1>1 DEF L!NoneIsForgotten
  <2>2. ASSUME NEW q \in Processes, job[q][ct[1]] = [due |-> ct[2], at |-> "waiting"]
        PROVE  job'[q][ct[1]] = [due |-> ct[2], at |-> "waiting"]
    BY <2>1, <2>2
  <2> QED BY <1>0, <2>2 DEF L!NoneIsForgotten
<1>13. L!NobodyWaitsInVain'
  <2> SUFFICES ASSUME NEW q \in Processes, _db_lock'[q] # L!None
               PROVE  job'[q][_db_lock'[q]].at = "running"
    BY DEF L!NobodyWaitsInVain
  <2>1. q # p BY <1>5
  <2>2. _db_lock[q] \in L!Commands /\ job[q][_db_lock[q]].at = "running" /\ _db_lock'[q] = _db_lock[q]
    BY <1>0, <1>5, <2>1 DEF L!NobodyWaitsInVain, ScheduleTyped
  <2> QED BY <1>4, <2>1, <2>2 DEF PutJob
<1> QED BY <1>7, <1>8, <1>9, <1>10, <1>11, <1>12, <1>13 DEF ScheduleSound

(* Time passes.                                                            *)
LEMMA TickStep ==
    ASSUME Numbered, ScheduleSound, L!Tick
    PROVE  ScheduleSound'
<1> DEFINE due == {c \in L!Commands : L!Due(c, now + 1)}
           starts(p) == {c \in due : L!Scheduling(p) /\ c \notin L!Busy(p)}
           new == [due |-> now + 1, at |-> "waiting"]
<1>0. /\ ScheduleTyped /\ L!OneScheduler /\ JobsOwned /\ JobsLocked /\ JobsFresh
      /\ L!OnceADue /\ L!NoneIsForgotten /\ L!NobodyWaitsInVain
  BY DEF ScheduleSound
<1>1. /\ now < LastDue /\ now' = now + 1
      /\ job' = [p \in Processes |-> [c \in L!Commands |-> IF c \in starts(p) THEN new ELSE job[p][c]]]
      /\ misses' = IF \E p \in Processes : L!Scheduling(p) THEN misses ELSE misses \cup (due \X {now + 1})
      /\ skipped' = skipped \cup
           {<<c, now + 1>> : c \in {d \in due : \E p \in Processes : L!Scheduling(p) /\ d \in L!Busy(p)}}
      /\ UNCHANGED <<process, kind, holder, _db_lock, begun, killed>>
  BY DEF L!Tick
<1>2. now \in Nat /\ now' \in 0..LastDue /\ now + 1 \in 1..LastDue /\ now \in 0..LastDue
  BY <1>0, <1>1 DEF ScheduleTyped, Numbered
<1>3. ASSUME NEW p \in Processes, NEW c \in L!Commands
      PROVE  \/ job'[p][c] = job[p][c]
             \/ job'[p][c] = new /\ L!Scheduling(p) /\ job[p][c] = L!NoJob /\ L!Due(c, now + 1)
  <2>1. job'[p][c] = IF c \in starts(p) THEN new ELSE job[p][c]
    BY <1>1
  <2>2. c \in starts(p) => L!Scheduling(p) /\ job[p][c] = L!NoJob /\ L!Due(c, now + 1)
    BY DEF L!Busy
  <2> HIDE DEF starts, new
  <2> QED BY <2>1, <2>2
<1>4. ASSUME NEW p \in Processes, NEW c \in L!Commands, L!Scheduling(p), L!Due(c, now + 1), job[p][c] = L!NoJob
      PROVE  job'[p][c] = new
  BY <1>1, <1>4 DEF L!Busy
<1>5. new.at = "waiting" /\ new.due = now + 1 /\ L!NoJob.at = "none"
  BY DEF L!NoJob, L!None
<1>6. new \in Jobs
  BY <1>2 DEF Jobs
<1>7. ScheduleTyped'
  <2>1. \A p \in Processes, c \in L!Commands : job'[p][c] \in Jobs
    BY <1>0, <1>3, <1>6, JobFacts
  <2>2. job' \in [Processes -> [L!Commands -> Jobs]]
    <3> HIDE DEF new, starts
    <3>1. \A p \in Processes, c \in L!Commands : (IF c \in starts(p) THEN new ELSE job[p][c]) \in Jobs
      BY <1>0, <1>6, JobFacts
    <3> QED BY <1>1, <3>1
  <2> QED BY <1>0, <1>1, <1>2, <2>2 DEF ScheduleTyped
<1> HIDE DEF new, starts, due
<1>8. L!OneScheduler'
  BY <1>0, <1>1 DEF L!OneScheduler, L!Scheduling
<1>9. JobsOwned'
  <2> SUFFICES ASSUME NEW p \in Processes, NEW c \in L!Commands, job'[p][c] # L!NoJob
               PROVE  process[p] \in {"scheduling", "stopping"}
    BY <1>1 DEF JobsOwned
  <2> QED BY <1>0, <1>3 DEF JobsOwned, L!Scheduling
<1>10. \A p \in Processes, c \in L!Commands : job'[p][c].at = "running" <=> job[p][c].at = "running"
  BY <1>3, <1>5
<1>11. JobsLocked'
  BY <1>0, <1>1, <1>10 DEF JobsLocked
<1>12. L!NobodyWaitsInVain'
  <2> SUFFICES ASSUME NEW p \in Processes, _db_lock[p] # L!None
               PROVE  job'[p][_db_lock[p]].at = "running"
    BY <1>1 DEF L!NobodyWaitsInVain
  <2>1. _db_lock[p] \in L!Commands /\ job[p][_db_lock[p]].at = "running"
    BY <1>0 DEF L!NobodyWaitsInVain, ScheduleTyped
  <2> QED BY <1>10, <2>1
<1>13. L!OnceADue'
  BY <1>0, <1>1 DEF L!OnceADue
<1>14. JobsFresh'
  <2>1. \A c \in L!Commands, t \in 1..LastDue : t > now' => begun'[<<c, t>>] = 0
    BY <1>0, <1>1, <1>2 DEF JobsFresh
  <2>2. ASSUME NEW p \in Processes, NEW c \in L!Commands, job'[p][c].at = "waiting"
        PROVE  job'[p][c].due \in 1..now' /\ begun'[<<c, job'[p][c].due>>] = 0
    <3>1. CASE job'[p][c] = job[p][c]
      <4>1. job[p][c].due \in 1..now /\ begun[<<c, job[p][c].due>>] = 0
        BY <1>0, <2>2, <3>1 DEF JobsFresh
      <4> QED BY <1>1, <1>2, <3>1, <4>1
    <3>2. CASE job'[p][c] = new
      <4>1. begun[<<c, now + 1>>] = 0
        BY <1>0, <1>2 DEF JobsFresh
      <4> QED BY <1>1, <1>2, <1>5, <3>2, <4>1
    <3> QED BY <1>3, <3>1, <3>2
  <2>3. ASSUME NEW p \in Processes, NEW q \in Processes, NEW c \in L!Commands,
               job'[p][c].at = "waiting", job'[q][c].at = "waiting", job'[p][c].due = job'[q][c].due
        PROVE  p = q
    <3>1. ASSUME NEW r \in Processes, job[r][c].at = "waiting" PROVE job[r][c].due # now + 1
      <4>1. job[r][c].due \in 1..now BY <1>0, <3>1 DEF JobsFresh
      <4> QED BY <1>2, <4>1
    <3>2. CASE job'[p][c] = job[p][c] /\ job'[q][c] = job[q][c]
      BY <1>0, <2>3, <3>2 DEF JobsFresh
    <3>3. CASE job'[p][c] = new /\ job'[q][c] = new /\ L!Scheduling(p) /\ L!Scheduling(q)
      BY <1>0, <3>3 DEF L!OneScheduler
    <3>4. CASE job'[p][c] = new /\ job'[q][c] = job[q][c]
      BY <1>5, <2>3, <3>1, <3>4
    <3>5. CASE job'[p][c] = job[p][c] /\ job'[q][c] = new
      BY <1>5, <2>3, <3>1, <3>5
    <3> QED BY <1>3, <3>2, <3>3, <3>4, <3>5
  <2> QED BY <2>1, <2>2, <2>3 DEF JobsFresh
<1>15. L!NoneIsForgotten'
  <2> SUFFICES ASSUME NEW c \in L!Commands, NEW t \in 1..(now + 1), L!Due(c, t)
               PROVE  \/ begun[<<c, t>>] = 1 \/ <<c, t>> \in misses' \cup skipped' \cup killed
                      \/ \E p \in Processes : job'[p][c] = [due |-> t, at |-> "waiting"]
    <3>1. \A ct \in L!Commands \X (1..(now + 1)) :
             ct[1] \in L!Commands /\ ct[2] \in 1..(now + 1) /\ ct = <<ct[1], ct[2]>>
      OBVIOUS
    <3> QED BY <1>1, <3>1 DEF L!NoneIsForgotten
  <2>1. CASE t = now + 1
    <3>1. c \in due BY <2>1 DEF due
    <3>2. CASE \A p \in Processes : ~L!Scheduling(p)
      BY <1>1, <2>1, <3>1, <3>2
    <3>3. ASSUME NEW p \in Processes, L!Scheduling(p), c \in L!Busy(p) PROVE <<c, t>> \in skipped'
      BY <1>1, <2>1, <3>1, <3>3
    <3>4. ASSUME NEW p \in Processes, L!Scheduling(p), c \notin L!Busy(p)
          PROVE  job'[p][c] = [due |-> t, at |-> "waiting"]
      <4>1. job[p][c] = L!NoJob BY <3>4 DEF L!Busy
      <4> QED BY <1>4, <2>1, <3>4, <4>1 DEF new
    <3> QED BY <3>2, <3>3, <3>4
  <2>2. CASE t \in 1..now
    <3>1. \/ begun[<<c, t>>] = 1 \/ <<c, t>> \in misses \cup skipped \cup killed
          \/ \E p \in Processes : job[p][c] = [due |-> t, at |-> "waiting"]
      <4>1. <<c, t>> \in L!Commands \X (1..now) /\ <<c, t>>[1] = c /\ <<c, t>>[2] = t
        BY <2>2
      <4> QED BY <1>0, <4>1 DEF L!NoneIsForgotten
    <3>2. misses \subseteq misses' /\ skipped \subseteq skipped'
      BY <1>1
    <3>3. ASSUME NEW p \in Processes, job[p][c] = [due |-> t, at |-> "waiting"]
          PROVE  job'[p][c] = job[p][c]
      <4>1. job[p][c].at = "waiting" BY <3>3
      <4> QED BY <1>3, <1>5, <4>1
    <3> QED BY <3>1, <3>2, <3>3
  <2> QED BY <1>2, <2>1, <2>2
<1> QED BY <1>7, <1>8, <1>9, <1>11, <1>12, <1>13, <1>14, <1>15 DEF ScheduleSound

-----------------------------------------------------------------------------

LEMMA ScheduleStep == ASSUME Numbered, ScheduleSound, L!Next \/ UNCHANGED L!vars PROVE ScheduleSound'
<1>1. CASE UNCHANGED L!vars
  BY <1>1 DEF L!vars, ScheduleSound, ScheduleTyped, L!OneScheduler, L!Scheduling, JobsOwned, JobsLocked, JobsFresh,
              L!OnceADue, L!NoneIsForgotten, L!NobodyWaitsInVain
<1> QED BY <1>1, ProcessStep, KillStep, TickStep, BeginStep, RunStep DEF L!Next

(* Commands of one process run with its one lock; those of two run at a    *)
(* time only if one of the processes does not schedule any more.           *)
LEMMA ScheduleSuffices == ASSUME Numbered, ScheduleSound PROVE L!OneAtATime
<1> DEFINE running == {a \in Processes \X L!Commands : job[a[1]][a[2]].at = "running"}
<1>0. ScheduleTyped /\ L!OneScheduler /\ JobsOwned /\ JobsLocked BY DEF ScheduleSound
<1>1. ASSUME NEW a \in running
      PROVE  /\ a = <<a[1], a[2]>> /\ a[1] \in Processes /\ a[2] \in L!Commands
             /\ _db_lock[a[1]] = a[2] /\ process[a[1]] \in {"scheduling", "stopping"}
  <2>1. a = <<a[1], a[2]>> /\ a[1] \in Processes /\ a[2] \in L!Commands /\ job[a[1]][a[2]].at = "running"
    OBVIOUS
  <2>2. job[a[1]][a[2]] # L!NoJob
    BY <2>1 DEF L!NoJob, L!None
  <2> QED BY <1>0, <2>1, <2>2 DEF JobsLocked, JobsOwned
<1>2. ASSUME NEW a \in running, NEW b \in running, a # b
      PROVE  a[1] # b[1] /\ (process[a[1]] = "stopping" \/ process[b[1]] = "stopping")
  <2>1. a[1] # b[1] BY <1>1, <1>2
  <2> QED BY <1>0, <1>1, <2>1 DEF L!OneScheduler, L!Scheduling
<1> QED BY <1>2 DEF L!OneAtATime

(* Whatever processes are launched, stopped and killed: one at most        *)
(* schedules, commands run one at a time but for those of a process told   *)
(* to stop, no due command is begun twice or forgotten without a reason,   *)
(* and none waits for one that is over.                                    *)
THEOREM SchedulerInvariantHolds ==
    ASSUME Numbered
    PROVE  VotingSpec => [](part = "schedule" => L!SchedulerInvariant)
<1>1. VotingInit => ScheduleSound BY ScheduleInitSound DEF VotingInit, ScheduleInit
<1>2. [VotingNext]_all => L!Next \/ UNCHANGED L!vars
  BY DEF VotingNext, ReferendumNext, TalkNext, SettingsNext, ScheduleNext, RoomsNext, NoticesNext, AccountNext,
         SignsNext, MapNext, all, voting, schedule, L!vars
<1>3. ScheduleSound /\ [VotingNext]_all => ScheduleSound' BY <1>2, ScheduleStep
<1>4. ScheduleSound => L!SchedulerInvariant
  BY ScheduleSuffices DEF ScheduleSound, ScheduleTyped, Jobs, ProcessStates, L!TypeOK, L!SchedulerInvariant
<1> QED BY <1>1, <1>3, <1>4, PTL DEF VotingSpec

-----------------------------------------------------------------------------
(* One member's presence                                                   *)

SignStates ==
    [at : {"idle", "write", "tell"}, kind : {"none", "connect", "heartbeat", "login", "push"},
     time : O!Times, tries : {0, 1}, status : O!Statuses]
News == [time : O!Times, status : O!Statuses]
Pages ==
    [open : BOOLEAN, joined : BOOLEAN, time : O!Times, status : O!Statuses,
     missed : BOOLEAN, overtaken : BOOLEAN]

Visiting == [at : {"idle", "check", "update"}, active : BOOLEAN]
Copies == [row : {"none", "user", "profile"}, value : O!Times, active : BOOLEAN]

PresenceTyped ==
    /\ tick \in Nat /\ tick <= LastSign /\ key \in 0..(tick + O!Throttle)
    /\ presence \in O!Times /\ last_login \in O!Times /\ newest \in O!Times /\ lastRequest \in O!Times
    /\ sign \in [Signs -> SignStates]
    /\ inbox \in Seq(News)
    /\ page \in Pages
    /\ request \in [Visits -> Visiting]
    /\ active \in BOOLEAN /\ farewell \in Nat /\ farewell <= tick
    /\ copy \in Copies /\ (copy.row = "none" => copy = O!NoCopy)

(* What is stored, or was loaded to be stored again, is no newer than the  *)
(* newest sign that was dealt with.                                        *)
NothingNewer ==
    /\ presence <= newest /\ (copy.row = "profile" => copy.value <= newest)
    /\ \A s \in Signs : sign[s].at = "tell" => sign[s].time <= newest
    /\ \A i \in DOMAIN inbox : inbox[i].time <= newest

(* An open page shows the newest sign, or news of it is on the way, or     *)
(* there is a reason why not.                                              *)
Told ==
    \/ page.time = newest
    \/ \E s \in Signs : sign[s].at = "tell" /\ sign[s].time = newest
    \/ \E i \in DOMAIN inbox : inbox[i].time = newest
NewsArrives == page.open => page.missed \/ page.overtaken \/ restored \/ Told

(* The key in the cache is newer than the last request; whoever has set it *)
(* has written last_login, or is about to, or could not.                   *)
Throttled ==
    /\ lastRequest < key /\ (key = 0 => lastRequest = O!Never)
    /\ \/ key = 0 \/ last_login >= key - O!Throttle \/ unseen \/ takenBack
       \/ \E r \in Visits : request[r].at = "update"

(* Whoever is about to write last_login found the account active, and the  *)
(* last time somebody did is known; what was written, or loaded to be      *)
(* written again, is from before.                                          *)
SeenWhileThere ==
    /\ last_login <= farewell /\ (copy.row = "user" => copy.value <= farewell)
    /\ active => farewell = tick
    /\ \A r \in Visits : request[r].active => farewell = tick
    /\ \A r \in Visits : request[r].at = "update" => request[r].active

PresenceSound ==
    PresenceTyped /\ NothingNewer /\ O!NewestStays /\ NewsArrives /\ Throttled /\ SeenWhileThere

LEMMA TimesAre == O!Never = -9 /\ \A t \in O!Times : t \in Int /\ t >= -9 /\ (t = -9 \/ t \in Nat)
BY DEF O!Never, O!Times

LEMMA StatusIs == \A t : O!get_presence_status(t) \in O!Statuses
BY DEF O!get_presence_status, O!Statuses

LEMMA InboxIs == ASSUME PresenceTyped PROVE \A i \in DOMAIN inbox : inbox[i] \in News /\ inbox[i].time \in O!Times
<1>1. \A i \in DOMAIN inbox : inbox[i] \in News BY DEF PresenceTyped
<1> QED BY <1>1 DEF News

LEMMA PresenceInitSound == ASSUME LastSign \in Nat, O!Init PROVE PresenceSound
<1> USE DEF O!Init
<1>1. inbox = <<>> /\ inbox \in Seq(News) /\ DOMAIN inbox = {}
  OBVIOUS
<1>2. O!Never \in O!Times /\ "red" \in O!Statuses BY DEF O!Times, O!Statuses
<1>3. PresenceTyped
  BY <1>1, <1>2 DEF PresenceTyped, SignStates, Visiting, Copies, Pages, O!NoSign, O!NoPage, O!NoRequest, O!NoCopy, O!Throttle
<1>4. NothingNewer BY <1>1, TimesAre DEF NothingNewer, O!NoSign, O!NoCopy
<1>5. Throttled BY TimesAre DEF Throttled
<1>6. SeenWhileThere BY TimesAre DEF SeenWhileThere, O!NoRequest, O!NoCopy
<1> QED BY <1>3, <1>4, <1>5, <1>6 DEF PresenceSound, O!NewestStays, NewsArrives, O!NoPage

-----------------------------------------------------------------------------
(* The steps of a sign                                                     *)

LEMMA SignalKeeps ==
    ASSUME PresenceSound, NEW s \in Signs, NEW kind_ \in {"connect", "heartbeat", "login", "push"},
           O!Signal(s, kind_)
    PROVE  PresenceSound'
<1> USE DEF O!Signal, O!watcher, O!lastSeen, O!saves
<1>1. tick \in O!Times BY DEF PresenceSound, PresenceTyped, SignStates, O!Times
<1>2. PresenceTyped' BY <1>1 DEF PresenceSound, PresenceTyped, SignStates, O!Statuses
<1>3. \A q \in Signs : sign'[q].at = "tell" => sign'[q] = sign[q]
  BY DEF PresenceSound, PresenceTyped, SignStates
<1>4. NothingNewer' BY <1>3 DEF PresenceSound, NothingNewer
<1>5. NewsArrives'
  <2>1. \A q \in Signs : sign[q].at = "tell" => sign'[q] = sign[q]
    BY DEF PresenceSound, PresenceTyped, SignStates, O!NoSign
  <2> QED BY <2>1 DEF PresenceSound, NewsArrives, Told
<1>6. Throttled' BY DEF PresenceSound, Throttled
<1> QED BY <1>2, <1>4, <1>5, <1>6 DEF PresenceSound, O!NewestStays, SeenWhileThere

LEMMA UpdateSignKeeps ==
    ASSUME PresenceSound, NEW s \in Signs, O!update_presence(s)
    PROVE  PresenceSound'
<1> USE DEF O!update_presence, O!watcher, O!lastSeen, O!saves
<1>0. /\ sign[s].time \in O!Times /\ newest \in O!Times /\ presence \in O!Times
      /\ newest' = IF newest > sign[s].time THEN newest ELSE sign[s].time
      /\ newest' \in O!Times /\ newest <= newest' /\ sign[s].time <= newest'
  BY TimesAre DEF PresenceSound, PresenceTyped, SignStates, O!Larger
<1>1. sign' \in [Signs -> SignStates]
  <2>1. CASE O!Newer(s)
    <3>1. sign' = [sign EXCEPT ![s] = [sign[s] EXCEPT !.at = "tell", !.status = O!get_presence_status(sign[s].time)]]
      BY <2>1 DEF PresenceSound, PresenceTyped, SignStates
    <3>2. [sign[s] EXCEPT !.at = "tell", !.status = O!get_presence_status(sign[s].time)] \in SignStates
      BY <1>0, StatusIs DEF PresenceSound, PresenceTyped, SignStates
    <3> QED BY <3>1, <3>2 DEF PresenceSound, PresenceTyped
  <2>2. CASE ~O!Newer(s)
    <3>1. O!NoSign \in SignStates
      BY DEF O!NoSign, O!Times, O!Statuses, SignStates
    <3> QED BY <2>2, <3>1 DEF PresenceSound, PresenceTyped, SignStates
  <2> QED BY <2>1, <2>2
<1>2. presence' \in O!Times BY <1>0
<1>3. PresenceTyped' BY <1>0, <1>1, <1>2 DEF PresenceSound, PresenceTyped, SignStates
<1>4. \A q \in Signs : q # s => sign'[q] = sign[q]
  BY DEF PresenceSound, PresenceTyped, SignStates
<1>5. IF O!Newer(s) THEN sign'[s].at = "tell" /\ sign'[s].time = sign[s].time ELSE sign'[s].at = "idle"
  BY DEF PresenceSound, PresenceTyped, SignStates, O!NoSign
<1>6. NothingNewer'
  <2>1. presence' <= newest' BY <1>0, TimesAre DEF PresenceSound, NothingNewer
  <2>2. \A q \in Signs : sign'[q].at = "tell" => sign'[q].time <= newest'
    <3> SUFFICES ASSUME NEW q \in Signs, sign'[q].at = "tell" PROVE sign'[q].time <= newest'
      OBVIOUS
    <3>1. CASE q = s BY <1>0, <1>5, <3>1
    <3>2. CASE q # s
      <4>1. sign[q].time <= newest /\ sign[q].time \in O!Times
        BY <1>4, <3>2 DEF PresenceSound, PresenceTyped, SignStates, NothingNewer
      <4> QED BY <1>0, <1>4, <3>2, <4>1, TimesAre
    <3> QED BY <3>1, <3>2
  <2>3. \A i \in DOMAIN inbox : inbox[i].time <= newest'
    <3> SUFFICES ASSUME NEW i \in DOMAIN inbox PROVE inbox[i].time <= newest'
      OBVIOUS
    <3>1. inbox[i].time \in O!Times /\ inbox[i].time <= newest
      BY InboxIs DEF PresenceSound, NothingNewer
    <3> QED BY <1>0, <3>1, TimesAre
  <2>4. copy.row = "profile" => copy.value <= newest'
    <3>1. copy.value \in O!Times BY DEF PresenceSound, PresenceTyped, Copies
    <3> QED BY <1>0, <3>1, TimesAre DEF PresenceSound, NothingNewer
  <2> QED BY <2>1, <2>2, <2>3, <2>4 DEF NothingNewer
<1>7. O!NewestStays'
  BY <1>0, TimesAre DEF PresenceSound, O!NewestStays, O!Newer
<1>8. NewsArrives'
  <2> SUFFICES ASSUME page.open, ~page.missed, ~page.overtaken, ~restored PROVE Told'
    BY DEF NewsArrives
  <2>1. presence = newest BY DEF PresenceSound, O!NewestStays
  <2>2. CASE O!Newer(s)
    <3>1. sign'[s].time = newest' BY <1>0, <1>5, <2>1, <2>2, TimesAre DEF O!Newer
    <3> QED BY <1>5, <2>2, <3>1 DEF Told
  <2>3. CASE ~O!Newer(s)
    <3>1. newest' = newest BY <1>0, <2>1, <2>3, TimesAre DEF O!Newer
    <3>2. \A q \in Signs : sign[q].at = "tell" => sign'[q] = sign[q] BY <1>4
    <3> QED BY <3>1, <3>2 DEF PresenceSound, NewsArrives, Told
  <2> QED BY <2>2, <2>3
<1>9. Throttled' BY DEF PresenceSound, Throttled
<1> QED BY <1>3, <1>6, <1>7, <1>8, <1>9 DEF PresenceSound, SeenWhileThere

LEMMA LockedKeeps ==
    ASSUME PresenceSound, NEW s \in Signs, O!Locked(s)
    PROVE  PresenceSound'
<1> USE DEF O!Locked, O!watcher, O!lastSeen, O!saves
<1>0. sign \in [Signs -> SignStates] BY DEF PresenceSound, PresenceTyped
<1>1. sign[s].tries \in {0, 1} BY DEF PresenceSound, PresenceTyped, SignStates
<1>2. sign' \in [Signs -> SignStates]
  <2>1. CASE sign[s].tries = O!Attempts - 1
    <3>1. O!NoSign \in SignStates
      BY DEF O!NoSign, O!Times, O!Statuses, SignStates
    <3> QED BY <2>1, <3>1 DEF PresenceSound, PresenceTyped, SignStates
  <2>2. CASE sign[s].tries # O!Attempts - 1
    <3>1. sign[s].tries + 1 \in {0, 1} BY <1>1, <2>2 DEF O!Attempts
    <3>2. sign' = [sign EXCEPT ![s].tries = sign[s].tries + 1]
      BY <2>2
    <3> QED BY <3>1, <3>2 DEF PresenceSound, PresenceTyped, SignStates
  <2> QED BY <2>1, <2>2
<1>3. PresenceTyped' BY <1>2 DEF PresenceSound, PresenceTyped, SignStates
<1>4. \A q \in Signs : sign[q].at = "tell" \/ sign'[q].at = "tell" => sign'[q] = sign[q]
  <2>1. \A q \in Signs : q # s => sign'[q] = sign[q] BY DEF PresenceSound, PresenceTyped, SignStates
  <2>2. sign'[s].at # "tell" BY DEF PresenceSound, PresenceTyped, SignStates, O!NoSign
  <2> QED BY <2>1, <2>2
<1>5. NothingNewer' BY <1>4 DEF PresenceSound, NothingNewer
<1>6. NewsArrives' BY <1>4 DEF PresenceSound, NewsArrives, Told
<1>7. Throttled' BY DEF PresenceSound, Throttled
<1> QED BY <1>3, <1>5, <1>6, <1>7 DEF PresenceSound, O!NewestStays, SeenWhileThere

LEMMA PublishKeeps ==
    ASSUME PresenceSound, NEW s \in Signs, O!publish_presence(s)
    PROVE  PresenceSound'
<1> USE DEF O!publish_presence, O!lastSeen, O!saves
<1> DEFINE sent == [time |-> sign[s].time, status |-> O!Fresh(s)]
<1>0. /\ sign \in [Signs -> SignStates]
      /\ inbox \in Seq(News)
      /\ page \in Pages
  BY DEF PresenceSound, PresenceTyped, SignStates
<1>1. sent \in News
  BY <1>0, StatusIs DEF O!Fresh, SignStates, News
<1>2. sign[s].time <= newest BY DEF PresenceSound, NothingNewer
<1>3. /\ sign' \in [Signs -> SignStates]
      /\ sign'[s].at = "idle" /\ \A q \in Signs : q # s => sign'[q] = sign[q]
  BY <1>0 DEF O!NoSign, O!Times, O!Statuses, SignStates
<1>4. CASE page.joined
  <2>1. inbox' = Append(inbox, sent) /\ page' = page BY <1>4
  <2> HIDE DEF sent
  <2>2. /\ inbox' \in Seq(News)
        /\ DOMAIN inbox' = DOMAIN inbox \cup {Len(inbox) + 1}
        /\ \A i \in DOMAIN inbox : inbox'[i] = inbox[i]
        /\ inbox'[Len(inbox) + 1] = sent
    BY <1>0, <1>1, <2>1, AppendProperties
  <2>3. sent.time = sign[s].time BY DEF sent
  <2>4. PresenceTyped' BY <1>3, <2>1, <2>2 DEF PresenceSound, PresenceTyped, SignStates
  <2>5. NothingNewer' BY <1>2, <1>3, <2>2, <2>3 DEF PresenceSound, NothingNewer
  <2>6. NewsArrives'
    <3> SUFFICES ASSUME page.open, ~page.missed, ~page.overtaken, ~restored PROVE Told'
      BY <2>1 DEF NewsArrives
    <3>1. Told BY DEF PresenceSound, NewsArrives
    <3>2. CASE page.time = newest BY <2>1, <3>2 DEF Told
    <3>3. CASE \E q \in Signs : sign[q].at = "tell" /\ sign[q].time = newest
      <4>1. PICK q \in Signs : sign[q].at = "tell" /\ sign[q].time = newest BY <3>3
      <4> QED BY <1>3, <2>2, <2>3, <4>1 DEF Told
    <3>4. CASE \E i \in DOMAIN inbox : inbox[i].time = newest BY <2>2, <3>4 DEF Told
    <3> QED BY <3>1, <3>2, <3>3, <3>4 DEF Told
  <2>7. Throttled' BY DEF PresenceSound, Throttled
  <2> QED BY <2>4, <2>5, <2>6, <2>7 DEF PresenceSound, O!NewestStays, SeenWhileThere
<1>5. CASE ~page.joined
  <2>1. inbox' = inbox /\ page' = [page EXCEPT !.missed = page.open] BY <1>5
  <2>2. PresenceTyped' BY <1>0, <1>3, <2>1 DEF PresenceSound, PresenceTyped, Pages
  <2>3. NothingNewer' BY <1>3, <2>1 DEF PresenceSound, NothingNewer
  <2>4. NewsArrives' BY <1>0, <2>1 DEF NewsArrives, Pages
  <2>5. Throttled' BY DEF PresenceSound, Throttled
  <2> QED BY <2>2, <2>3, <2>4, <2>5 DEF PresenceSound, O!NewestStays, SeenWhileThere
<1> QED BY <1>4, <1>5

-----------------------------------------------------------------------------
(* The watcher                                                             *)

LEMMA WatcherKeeps ==
    ASSUME PresenceSound, UNCHANGED <<tick, O!citizen, O!lastSeen, O!saves>>,
           page' \in Pages, inbox' \in Seq(News), \A i \in DOMAIN inbox' : inbox'[i].time <= newest,
           page'.open => page'.missed \/ page'.overtaken \/ restored \/ page'.time = newest
                           \/ (\E s \in Signs : sign[s].at = "tell" /\ sign[s].time = newest)
                           \/ (\E i \in DOMAIN inbox' : inbox'[i].time = newest)
    PROVE  PresenceSound'
<1> USE DEF O!citizen, O!lastSeen, O!saves
<1>1. PresenceTyped' BY DEF PresenceSound, PresenceTyped
<1>2. NothingNewer' BY DEF PresenceSound, NothingNewer
<1>3. NewsArrives' BY DEF NewsArrives, Told
<1>4. Throttled' BY DEF PresenceSound, Throttled
<1> QED BY <1>1, <1>2, <1>3, <1>4 DEF PresenceSound, O!NewestStays, SeenWhileThere

LEMMA PageKeeps ==
    ASSUME PresenceSound, O!OpenPage \/ O!JoinGroup \/ O!LeaveGroup \/ O!refreshPresenceStatuses
    PROVE  PresenceSound'
<1>0. /\ page \in Pages /\ inbox \in Seq(News) /\ presence \in O!Times
      /\ \A i \in DOMAIN inbox : inbox[i].time <= newest
      /\ page.open => page.missed \/ page.overtaken \/ restored \/ page.time = newest
                           \/ (\E s \in Signs : sign[s].at = "tell" /\ sign[s].time = newest)
                           \/ (\E i \in DOMAIN inbox : inbox[i].time = newest)
  BY DEF PresenceSound, PresenceTyped, NothingNewer, NewsArrives, Told
<1>1. CASE O!OpenPage
  <2>1. /\ page' = [O!NoPage EXCEPT !.open = TRUE, !.time = presence, !.status = O!get_presence_status(presence)]
        /\ inbox' = inbox /\ UNCHANGED <<tick, O!citizen, O!lastSeen, O!saves>>
    BY <1>1 DEF O!OpenPage, O!presence_data
  <2>2. page' \in Pages /\ page'.time = presence
    BY <1>0, <2>1, StatusIs DEF O!NoPage, Pages
  <2>3. restored \/ page'.time = newest BY <2>2 DEF PresenceSound, O!NewestStays
  <2> QED BY <1>0, <2>1, <2>2, <2>3, WatcherKeeps
<1>2. CASE O!JoinGroup
  <2>1. page' = [page EXCEPT !.joined = TRUE] /\ inbox' = inbox /\ UNCHANGED <<tick, O!citizen, O!lastSeen, O!saves>>
    BY <1>2 DEF O!JoinGroup
  <2>2. /\ page' \in Pages /\ page'.time = page.time /\ page'.open = page.open
        /\ page'.missed = page.missed /\ page'.overtaken = page.overtaken
    BY <1>0, <2>1 DEF Pages
  <2> QED BY <1>0, <2>1, <2>2, WatcherKeeps
<1>3. CASE O!LeaveGroup
  <2>1. /\ page' = [page EXCEPT !.joined = FALSE, !.missed = page.missed \/ inbox # <<>>]
        /\ inbox' = <<>> /\ UNCHANGED <<tick, O!citizen, O!lastSeen, O!saves>>
    BY <1>0, <1>3 DEF O!LeaveGroup, Pages
  <2>2. /\ page' \in Pages /\ page'.time = page.time /\ page'.open = page.open
        /\ page'.missed = (page.missed \/ inbox # <<>>) /\ page'.overtaken = page.overtaken
    BY <1>0, <2>1 DEF Pages
  <2>3. inbox' \in Seq(News) /\ DOMAIN inbox' = {} BY <2>1
  <2>4. inbox = <<>> => DOMAIN inbox = {} OBVIOUS
  <2> QED BY <1>0, <2>1, <2>2, <2>3, <2>4, WatcherKeeps
<1>4. CASE O!refreshPresenceStatuses
  <2>1. /\ page' = [page EXCEPT !.status = O!get_presence_status(page.time)]
        /\ inbox' = inbox /\ UNCHANGED <<tick, O!citizen, O!lastSeen, O!saves>>
    BY <1>4 DEF O!refreshPresenceStatuses
  <2>2. /\ page' \in Pages /\ page'.time = page.time /\ page'.open = page.open
        /\ page'.missed = page.missed /\ page'.overtaken = page.overtaken
    BY <1>0, <2>1, StatusIs DEF Pages
  <2> QED BY <1>0, <2>1, <2>2, WatcherKeeps
<1> QED BY <1>1, <1>2, <1>3, <1>4

LEMMA MessageShown ==
    ASSUME PresenceSound, O!handlePresenceMessage
    PROVE  PresenceSound'
<1> DEFINE n == Head(inbox)
<1>0. page \in Pages /\ inbox \in Seq(News) /\ inbox # <<>> /\ newest \in O!Times
  BY DEF PresenceSound, PresenceTyped, O!handlePresenceMessage
<1>1. /\ n = inbox[1] /\ 1 \in DOMAIN inbox /\ inbox' = Tail(inbox) /\ inbox' \in Seq(News)
      /\ DOMAIN inbox' = 1..(Len(inbox) - 1) /\ Len(inbox) \in Nat /\ DOMAIN inbox = 1..Len(inbox)
      /\ \A i \in 1..(Len(inbox) - 1) : i + 1 \in DOMAIN inbox /\ inbox'[i] = inbox[i + 1]
  BY <1>0, HeadTailProperties DEF O!handlePresenceMessage
<1>2. n \in News /\ n.time \in O!Times /\ n.time <= newest
  BY <1>1, InboxIs DEF PresenceSound, NothingNewer
<1>3. /\ page' = [page EXCEPT !.time = n.time, !.status = n.status, !.missed = page.missed /\ n.time < newest,
                              !.overtaken = n.time < page.time \/ (page.overtaken /\ n.time < newest)]
      /\ UNCHANGED <<tick, O!citizen, O!lastSeen, O!saves>>
  BY <1>0 DEF O!handlePresenceMessage, Pages
<1> HIDE DEF n
<1>4. /\ page' \in Pages /\ page'.time = n.time /\ page'.open = page.open
      /\ page'.missed = (page.missed /\ n.time < newest)
      /\ page'.overtaken = (n.time < page.time \/ (page.overtaken /\ n.time < newest))
  BY <1>0, <1>2, <1>3 DEF Pages, News
<1>5. \A i \in DOMAIN inbox' : inbox'[i].time <= newest
  BY <1>1 DEF PresenceSound, NothingNewer
<1>6. ASSUME page.open
      PROVE  page'.missed \/ page'.overtaken \/ restored \/ page'.time = newest
                           \/ (\E s \in Signs : sign[s].at = "tell" /\ sign[s].time = newest)
                           \/ (\E i \in DOMAIN inbox' : inbox'[i].time = newest)
  <2>1. CASE n.time = newest BY <1>4, <2>1
  <2>2. CASE n.time # newest
    <3>0. n.time < newest BY <1>0, <1>2, <2>2, TimesAre
    <3>1. page.missed \/ page.overtaken \/ restored \/ Told BY <1>6 DEF PresenceSound, NewsArrives
    <3>2. CASE page.missed \/ page.overtaken BY <1>4, <3>0, <3>2
    <3>3. CASE page.time = newest BY <1>4, <3>0, <3>3
    <3>4. CASE \E i \in DOMAIN inbox : inbox[i].time = newest
      <4>1. PICK i \in DOMAIN inbox : inbox[i].time = newest BY <3>4
      <4>2. i # 1 BY <1>1, <2>2, <4>1
      <4>3. i - 1 \in 1..(Len(inbox) - 1) /\ (i - 1) + 1 = i BY <1>1, <4>2
      <4>4. i - 1 \in DOMAIN inbox' /\ inbox'[i - 1] = inbox[i] BY <1>1, <4>3
      <4> QED BY <4>1, <4>4
    <3> QED BY <3>1, <3>2, <3>3, <3>4 DEF Told
  <2> QED BY <2>1, <2>2
<1> QED BY <1>1, <1>3, <1>4, <1>5, <1>6, WatcherKeeps

-----------------------------------------------------------------------------
(* Requests, whole saves, and time                                         *)

LEMMA SeenKeeps ==
    ASSUME PresenceSound, NEW r \in Visits, O!Seen(r)
    PROVE  PresenceSound'
<1> USE DEF O!citizen, O!watcher
<1>0. /\ request \in [Visits -> Visiting]
      /\ tick \in Nat /\ key \in 0..(tick + 2) /\ last_login \in O!Times /\ lastRequest \in O!Times
      /\ active \in BOOLEAN
  BY DEF PresenceSound, PresenceTyped, O!Throttle
<1>a. tick \in O!Times BY DEF PresenceSound, PresenceTyped, O!Times
<1>1. UNCHANGED <<tick, active, presence, sign, newest, inbox, page, copy, restored, farewell>>
  BY DEF O!Seen, O!AuthenticationMiddleware, O!UpdateLastSeenMiddleware, O!UpdateLastLogin, O!UpdateFails, O!saves
<1>b. /\ copy.row = "user" => copy.value <= farewell
      /\ last_login <= farewell /\ (active => farewell = tick)
      /\ \A q \in Visits : request[q].active => farewell = tick
      /\ \A q \in Visits : request[q].at = "update" => request[q].active
  BY DEF PresenceSound, SeenWhileThere
<1>2. CASE O!AuthenticationMiddleware(r)
  <2> USE <1>2 DEF O!AuthenticationMiddleware, O!saves
  <2>1. /\ request' \in [Visits -> Visiting]
        /\ request'[r].at = "check" /\ request'[r].active = active
        /\ \A q \in Visits : q # r => request'[q] = request[q]
    BY <1>0 DEF Visiting
  <2>2. PresenceTyped' BY <1>1, <2>1 DEF PresenceSound, PresenceTyped
  <2>3. Throttled'
    <3>1. \A q \in Visits : request[q].at = "update" => request'[q].at = "update" BY <2>1 DEF O!NoRequest
    <3> QED BY <3>1 DEF PresenceSound, Throttled
  <2>4. SeenWhileThere' BY <1>1, <1>b, <2>1 DEF SeenWhileThere
  <2> QED BY <1>1, <2>2, <2>3, <2>4 DEF PresenceSound, NothingNewer, O!NewestStays, NewsArrives, Told
<1>3. CASE O!UpdateLastSeenMiddleware(r)
  <2> USE <1>3 DEF O!UpdateLastSeenMiddleware, O!saves
  <2>1. CASE request[r].active /\ tick >= key
    <3>1. /\ request' \in [Visits -> Visiting]
          /\ request'[r].at = "update" /\ request'[r].active
          /\ \A q \in Visits : q # r => request'[q] = request[q]
      BY <1>0, <2>1 DEF Visiting
    <3>2. key' = tick + 2 /\ lastRequest' = tick BY <2>1 DEF O!Throttle
    <3>3. PresenceTyped' BY <1>a, <1>1, <3>1, <3>2 DEF PresenceSound, PresenceTyped, O!Throttle
    <3>4. Throttled' BY <1>0, <3>1, <3>2 DEF Throttled
    <3>5. SeenWhileThere' BY <1>1, <1>b, <2>1, <3>1 DEF SeenWhileThere
    <3> QED BY <1>1, <3>3, <3>4, <3>5 DEF PresenceSound, NothingNewer, O!NewestStays, NewsArrives, Told
  <2>2. CASE ~(request[r].active /\ tick >= key)
    <3>0. request' = [request EXCEPT ![r] = O!NoRequest] BY <2>2
    <3>1. /\ request' \in [Visits -> Visiting]
          /\ request'[r].at = "idle" /\ ~request'[r].active
          /\ \A q \in Visits : q # r => request'[q] = request[q]
      <4>1. O!NoRequest \in Visiting /\ O!NoRequest.at = "idle" /\ ~O!NoRequest.active
        BY DEF O!NoRequest, Visiting
      <4> HIDE DEF O!UpdateLastSeenMiddleware
      <4> QED BY <1>0, <3>0, <4>1
    <3>2. key' = key /\ lastRequest' = IF request[r].active THEN tick ELSE lastRequest BY <2>2
    <3>3. PresenceTyped' BY <1>0, <1>a, <1>1, <3>1, <3>2 DEF PresenceSound, PresenceTyped
    <3>4. Throttled'
      <4>1. lastRequest' < key' /\ (key' = 0 => lastRequest' = O!Never)
        <5>1. CASE request[r].active BY <1>0, <2>2, <3>2, <5>1
        <5>2. CASE ~request[r].active BY <3>2, <5>2 DEF PresenceSound, Throttled
        <5> QED BY <5>1, <5>2
      <4>2. \A q \in Visits : request[q].at = "update" => request'[q].at = "update" BY <3>1
      <4> QED BY <3>2, <4>1, <4>2 DEF PresenceSound, Throttled
    <3>5. SeenWhileThere' BY <1>1, <1>b, <3>1 DEF SeenWhileThere
    <3> QED BY <1>1, <3>3, <3>4, <3>5 DEF PresenceSound, NothingNewer, O!NewestStays, NewsArrives, Told
  <2> QED BY <2>1, <2>2
<1>4. ASSUME request[r].at = "update", request' = [request EXCEPT ![r] = O!NoRequest]
      PROVE  /\ request' \in [Visits -> Visiting]
             /\ \A q \in Visits : request'[q] = request[q] \/ request'[q] = O!NoRequest
             /\ farewell = tick
  BY <1>0, <1>b, <1>4 DEF O!NoRequest, Visiting
<1>5. CASE O!UpdateLastLogin(r)
  <2> USE <1>5 DEF O!UpdateLastLogin
  <2>2. PresenceTyped' BY <1>0, <1>a, <1>1, <1>4 DEF PresenceSound, PresenceTyped
  <2>3. Throttled'
    <3>1. last_login' >= key - 2 BY <1>0
    <3> QED BY <3>1 DEF PresenceSound, Throttled, O!Throttle
  <2>4. SeenWhileThere' BY <1>0, <1>1, <1>b, <1>4 DEF SeenWhileThere, O!NoRequest
  <2> QED BY <1>1, <2>2, <2>3, <2>4 DEF PresenceSound, NothingNewer, O!NewestStays, NewsArrives, Told
<1>6. CASE O!UpdateFails(r)
  <2> USE <1>6 DEF O!UpdateFails, O!saves
  <2>2. PresenceTyped' BY <1>0, <1>1, <1>4 DEF PresenceSound, PresenceTyped
  <2>3. Throttled' BY DEF PresenceSound, Throttled
  <2>4. SeenWhileThere' BY <1>1, <1>b, <1>4 DEF SeenWhileThere, O!NoRequest
  <2> QED BY <1>1, <2>2, <2>3, <2>4 DEF PresenceSound, NothingNewer, O!NewestStays, NewsArrives, Told
<1> QED BY <1>2, <1>3, <1>5, <1>6 DEF O!Seen

LEMMA RestOfPresenceKeeps ==
    ASSUME LastSign \in Nat, PresenceSound, O!LoadRow \/ O!SaveRow \/ O!Deactivate \/ O!Tick
    PROVE  PresenceSound'
<1> USE DEF O!citizen, O!watcher, O!lastSeen, O!saves
<1>0. /\ presence \in O!Times /\ last_login \in O!Times /\ newest \in O!Times
      /\ copy \in Copies /\ copy.value \in O!Times /\ active \in BOOLEAN /\ copy.active \in BOOLEAN
      /\ farewell \in Nat /\ farewell <= tick /\ tick \in Nat /\ key \in 0..(tick + 2)
  BY DEF PresenceSound, PresenceTyped, Copies, O!Throttle
<1>1. CASE O!LoadRow
  <2> USE <1>1 DEF O!LoadRow
  <2>1. PICK what \in {"user", "profile"} :
          copy' = [row |-> what, value |-> IF what = "user" THEN last_login ELSE presence, active |-> active]
    OBVIOUS
  <2>2. copy' \in Copies /\ copy'.row # "none" BY <1>0, <2>1 DEF Copies
  <2>3. copy'.row = "profile" => copy'.value = presence BY <2>1
  <2>6. copy'.row = "user" => copy'.value = last_login BY <2>1
  <2>7. SeenWhileThere' BY <2>6 DEF PresenceSound, SeenWhileThere
  <2>4. PresenceTyped' BY <2>2 DEF PresenceSound, PresenceTyped
  <2>5. NothingNewer' BY <2>3 DEF PresenceSound, NothingNewer
  <2> QED BY <2>4, <2>5, <2>7 DEF PresenceSound, O!NewestStays, NewsArrives, Told, Throttled
<1>2. CASE O!SaveRow
  <2> USE <1>2 DEF O!SaveRow
  <2>0. copy' \in Copies /\ copy'.row = "none" /\ copy' = O!NoCopy
    BY DEF O!NoCopy, O!Times, Copies
  <2>a. active' \in BOOLEAN /\ farewell' \in Nat /\ farewell' <= tick BY <1>0
  <2>1. PresenceTyped' BY <1>0, <2>0, <2>a DEF PresenceSound, PresenceTyped
  <2>2. CASE copy.row = "user"
    <3>1. last_login' = copy.value /\ takenBack' = (takenBack \/ last_login > copy.value)
          /\ active' = copy.active /\ farewell' = (IF copy.active THEN tick ELSE farewell)
          /\ UNCHANGED <<presence, restored, newest, sign, inbox, page, key, request, lastRequest, unseen, tick>>
      BY <2>2
    <3>2. copy.value >= key - 2 \/ last_login > copy.value \/ ~(last_login >= key - 2)
      <4>1. copy.value \in Int /\ last_login \in Int /\ key \in Int BY <1>0, TimesAre
      <4> QED BY ONLY <4>1
    <3>4. Throttled'
      <4>1. Throttled BY DEF PresenceSound
      <4> QED BY ONLY <3>1, <3>2, <4>1 DEF Throttled, O!Throttle
    <3>3. NothingNewer' BY <2>0, <3>1 DEF PresenceSound, NothingNewer
    <3>5. SeenWhileThere'
      <4>1. copy.value <= farewell /\ (\A r \in Visits : request[r].active => farewell = tick)
            /\ (\A r \in Visits : request[r].at = "update" => request[r].active)
        BY <2>2 DEF PresenceSound, SeenWhileThere
      <4>2. copy.value <= tick /\ farewell \in Int /\ tick \in Int BY <1>0, <4>1, TimesAre
      <4>3. last_login' <= farewell' /\ (active' => farewell' = tick) BY <1>0, <3>1, <4>1, <4>2
      <4> QED BY <2>0, <3>1, <4>1, <4>3 DEF SeenWhileThere
    <3> QED BY <2>1, <3>1, <3>4, <3>3, <3>5 DEF PresenceSound, O!NewestStays, NewsArrives, Told
  <2>3. CASE copy.row # "user"
    <3>1. /\ presence' = copy.value /\ restored' = (restored \/ presence > copy.value)
          /\ UNCHANGED <<active, farewell, last_login, takenBack, newest, sign, inbox, page, key, request, lastRequest, unseen, tick>>
      BY <2>3
    <3>0. copy.row \in {"none", "user", "profile"} BY DEF PresenceSound, PresenceTyped, Copies
    <3>2. copy.row = "profile"
      <4>1. copy # O!NoCopy OBVIOUS
      <4>2. copy.row = "none" => copy = O!NoCopy BY DEF PresenceSound, PresenceTyped
      <4> QED BY <2>3, <3>0, <4>1, <4>2
    <3>3. copy.value <= newest BY <3>2 DEF PresenceSound, NothingNewer
    <3>4. NothingNewer' BY <2>0, <3>1, <3>3 DEF PresenceSound, NothingNewer
    <3>5. O!NewestStays'
      <4>1. restored \/ presence = newest BY DEF PresenceSound, O!NewestStays
      <4>2. presence > copy.value \/ (presence = newest => copy.value = newest)
        BY <1>0, <3>3, TimesAre
      <4> QED BY <3>1, <4>1, <4>2 DEF O!NewestStays
    <3>6. Throttled' BY <3>1 DEF PresenceSound, Throttled
    <3>7. NewsArrives' BY <3>1 DEF PresenceSound, NewsArrives, Told
    <3>8. SeenWhileThere' BY <2>0, <3>1 DEF PresenceSound, SeenWhileThere
    <3> QED BY <2>1, <3>4, <3>5, <3>6, <3>7, <3>8 DEF PresenceSound
  <2> QED BY <2>2, <2>3
<1>3. CASE O!Deactivate
  BY <1>3 DEF O!Deactivate, PresenceSound, PresenceTyped, NothingNewer, O!NewestStays, NewsArrives, Told, Throttled,
              SeenWhileThere
<1>4. CASE O!Tick
  <2> USE <1>4 DEF O!Tick
  <2>0. tick' = tick + 1 /\ key' = key /\ tick < LastSign OBVIOUS
  <2>1. tick' \in Nat /\ tick' <= LastSign /\ key' \in 0..(tick' + O!Throttle)
    BY ONLY <1>0, <2>0, LastSign \in Nat DEF O!Throttle
  <2>2. farewell' \in Nat /\ farewell' <= tick' /\ farewell <= farewell'
    BY <1>0, <2>0
  <2>3. PresenceTyped' BY <2>1, <2>2 DEF PresenceSound, PresenceTyped
  <2>4. SeenWhileThere'
    <3>1. last_login <= farewell' /\ (copy.row = "user" => copy.value <= farewell')
      BY <1>0, <2>2, TimesAre DEF PresenceSound, SeenWhileThere
    <3>2. (active => farewell' = tick') /\ (\A r \in Visits : request[r].active => farewell' = tick')
      BY <2>0
    <3> QED BY <3>1, <3>2 DEF PresenceSound, SeenWhileThere
  <2> QED BY <2>3, <2>4 DEF PresenceSound, NothingNewer, O!NewestStays, NewsArrives, Told, Throttled
<1> QED BY <1>1, <1>2, <1>3, <1>4

-----------------------------------------------------------------------------
(* The invariant is kept, and says what was meant                          *)

LEMMA PresenceStep ==
    ASSUME LastSign \in Nat, PresenceSound, O!Next \/ UNCHANGED O!vars
    PROVE  PresenceSound'
<1>1. CASE UNCHANGED O!vars
  BY <1>1 DEF O!vars, PresenceSound, PresenceTyped, NothingNewer, O!NewestStays, NewsArrives, Told, Throttled,
              SeenWhileThere
<1>2. ASSUME NEW s \in Signs, O!Sign(s) PROVE PresenceSound'
  <2>1. CASE O!connect(s) BY <2>1, SignalKeeps DEF O!connect
  <2>2. CASE O!presence_heartbeat(s) BY <2>2, SignalKeeps DEF O!presence_heartbeat
  <2>3. CASE O!record_login_presence(s) BY <2>3, SignalKeeps DEF O!record_login_presence
  <2>4. CASE O!PushNotificationAckView(s)
    <3>1. O!Signal(s, "push") \/ UNCHANGED O!vars BY <2>4 DEF O!PushNotificationAckView
    <3> QED BY <1>1, <3>1, SignalKeeps
  <2> QED BY <1>2, <2>1, <2>2, <2>3, <2>4, UpdateSignKeeps, LockedKeeps, PublishKeeps DEF O!Sign
<1>3. ASSUME NEW r \in Visits, O!Seen(r) PROVE PresenceSound'
  BY <1>3, SeenKeeps
<1>4. CASE O!Watch BY <1>4, PageKeeps, MessageShown DEF O!Watch
<1>5. CASE O!LoadRow \/ O!SaveRow \/ O!Deactivate \/ O!Tick BY <1>5, RestOfPresenceKeeps
<1> QED BY <1>1, <1>2, <1>3, <1>4, <1>5 DEF O!Next

(* The directory and the dashboard compare times where the status counts    *)
(* differences: they agree at the boundaries too.                          *)
LEMMA ListsFollow ==
    ASSUME presence \in O!Times, tick \in Nat
    PROVE  O!ListsAgree
<1> DEFINE st == O!get_presence_status(presence)
<1>1. presence \in Int /\ tick \in Int BY TimesAre
<1>2. st = IF presence = -9 THEN "red" ELSE IF tick - presence <= 1 THEN "green"
           ELSE IF tick - presence <= 2 THEN "yellow" ELSE "red"
  BY <1>1 DEF O!get_presence_status, O!Never, O!Green, O!Yellow
<1>3. \A f : f \in O!presence_filters <=>
           \/ f = "online" /\ presence # -9 /\ presence >= tick - 1
           \/ f = "7d" /\ presence # -9 /\ presence < tick - 1 /\ presence >= tick - 2
           \/ f = "nieaktywni" /\ (presence = -9 \/ presence < tick - 2)
  BY DEF O!presence_filters, O!green_since, O!yellow_since, O!Never, O!Green, O!Yellow
<1>4. \A c : c \in O!active_counters <=>
           /\ active /\ presence # -9
           /\ \/ c = "green" /\ presence >= tick - 1
              \/ c = "yellow" /\ presence < tick - 1 /\ presence >= tick - 2
              \/ c = "recent" /\ presence < tick - 2 /\ presence >= tick - 3
  BY DEF O!active_counters, O!green_since, O!yellow_since, O!thirty_days_ago, O!Never, O!Green, O!Yellow, O!Month
<1> HIDE DEF st
<1>5. O!presence_filters = {CASE st = "green" -> "online" [] st = "yellow" -> "7d" [] st = "red" -> "nieaktywni"}
  <2>1. CASE st = "green"
    <3>1. presence # -9 /\ presence >= tick - 1 BY ONLY <1>1, <1>2, <2>1
    <3>2. \A f : f \in O!presence_filters <=> f = "online" BY ONLY <1>1, <1>3, <3>1
    <3> QED BY <2>1, <3>2
  <2>2. CASE st = "yellow"
    <3>1. presence # -9 /\ presence < tick - 1 /\ presence >= tick - 2 BY ONLY <1>1, <1>2, <2>2
    <3>2. \A f : f \in O!presence_filters <=> f = "7d" BY ONLY <1>1, <1>3, <3>1
    <3> QED BY <2>2, <3>2
  <2>3. CASE st = "red"
    <3>1. presence = -9 \/ presence < tick - 2 BY ONLY <1>1, <1>2, <2>3
    <3>2. \A f : f \in O!presence_filters <=> f = "nieaktywni" BY ONLY <1>1, <1>3, <3>1
    <3> QED BY <2>3, <3>2
  <2> QED BY <1>2, <2>1, <2>2, <2>3
<1>6. active => O!active_counters \cap {"green", "yellow"} = {st} \ {"red"}
  <2> SUFFICES ASSUME active PROVE O!active_counters \cap {"green", "yellow"} = {st} \ {"red"}
    OBVIOUS
  <2>1. "green" \in O!active_counters <=> st = "green" BY ONLY active, <1>1, <1>2, <1>4
  <2>2. "yellow" \in O!active_counters <=> st = "yellow" BY ONLY active, <1>1, <1>2, <1>4
  <2>3. st \in {"green", "yellow", "red"} BY ONLY <1>2
  <2> QED BY ONLY <2>1, <2>2, <2>3
<1>7. "recent" \in O!active_counters => st = "red" BY ONLY <1>1, <1>2, <1>4
<1> QED BY <1>5, <1>6, <1>7 DEF O!ListsAgree, st

LEMMA PresenceSuffices == ASSUME LastSign \in Nat, PresenceSound PROVE O!PresenceInvariant
<1>0. /\ tick \in Nat /\ tick <= LastSign /\ key \in 0..(tick + 2)
      /\ presence \in O!Times /\ last_login \in O!Times /\ newest \in O!Times /\ lastRequest \in O!Times
      /\ sign \in [Signs -> SignStates] /\ page \in Pages /\ farewell \in Nat /\ farewell <= tick
      /\ request \in [Visits -> Visiting]
  BY DEF PresenceSound, PresenceTyped, O!Throttle
<1>1. O!TypeOK
  <2>1. tick \in 0..LastSign /\ key \in 0..(LastSign + O!Throttle) BY <1>0, LastSign \in Nat DEF O!Throttle
  <2>2. \A s \in Signs : sign[s].time \in O!Times /\ sign[s].tries \in 0..(O!Attempts - 1) /\ sign[s].status \in O!Statuses
    BY <1>0 DEF SignStates, O!Attempts
  <2>3. page.time \in O!Times /\ page.status \in O!Statuses BY <1>0 DEF Pages
  <2>4. farewell \in 0..tick BY <1>0
  <2> QED BY <1>0, <2>1, <2>2, <2>3, <2>4 DEF O!TypeOK
<1>2. O!ListsAgree BY <1>0, ListsFollow
<1>3. O!WatcherIsRight
  <2> SUFFICES ASSUME page.open, O!Quiet, ~page.missed, ~page.overtaken, ~restored PROVE page.time = presence
    BY DEF O!WatcherIsRight
  <2>1. Told /\ presence = newest BY DEF PresenceSound, NewsArrives, O!NewestStays
  <2>2. inbox = <<>> /\ DOMAIN inbox = {} BY DEF O!Quiet
  <2> QED BY <2>1, <2>2 DEF Told, O!Quiet
<1>4. O!LastSeenIsRecent
  <2> SUFFICES ASSUME \A r \in Visits : request[r].at # "update", ~unseen, ~takenBack
               PROVE  lastRequest - last_login < O!Throttle
    BY DEF O!LastSeenIsRecent
  <2>1. key = 0 \/ last_login >= key - 2 BY DEF PresenceSound, Throttled, O!Throttle
  <2>2. lastRequest < key /\ (key = 0 => lastRequest = -9) BY DEF PresenceSound, Throttled, O!Never
  <2>3. last_login \in Int /\ last_login >= -9 /\ lastRequest \in Int /\ key \in Int BY <1>0, TimesAre
  <2> QED BY ONLY <2>1, <2>2, <2>3 DEF O!Throttle
<1>5. O!NobodyGoneIsSeen BY DEF PresenceSound, SeenWhileThere, O!NobodyGoneIsSeen
<1> QED BY <1>1, <1>2, <1>3, <1>4, <1>5 DEF PresenceSound, O!PresenceInvariant

(* However the signs of a member, the pages that watch him, his requests    *)
(* and the whole saves of his rows overlap, the newest sign stays, every   *)
(* list calls him the same, an open page shows what is stored once the     *)
(* news has arrived, last_login follows the requests, and a deactivated    *)
(* account is not seen later than by whoever found it active.              *)
THEOREM PresenceInvariantHolds ==
    ASSUME LastSign \in Nat
    PROVE  VotingSpec => [](part = "signs" => O!PresenceInvariant)
<1>1. VotingInit => PresenceSound BY PresenceInitSound DEF VotingInit, SignsInit
<1>2. [VotingNext]_all => O!Next \/ UNCHANGED O!vars
  BY DEF VotingNext, ReferendumNext, TalkNext, SettingsNext, ScheduleNext, RoomsNext, NoticesNext, AccountNext,
         SignsNext, MapNext, all, members, signs, O!vars
<1>3. PresenceSound /\ [VotingNext]_all => PresenceSound' BY <1>2, PresenceStep
<1>4. PresenceSound => O!PresenceInvariant BY PresenceSuffices
<1> QED BY <1>1, <1>3, <1>4, PTL DEF VotingSpec

-----------------------------------------------------------------------------
(* The accounts                                                            *)

Users == [state : {"none", "active", "candidate", "citizen"}, mail : Addresses \cup {""}, vouched : BOOLEAN]
Profiles == [status : {"email_entered", "email_confirmed", "form_completed"}, form : Nat,
             polecajacy : BOOLEAN]
Rows == [of : AccountIds, address : Addresses, upper : BOOLEAN, verified : BOOLEAN, primary : BOOLEAN]
Given == [form : Nat, own : BOOLEAN]

Starts == [do : {"signup", "propose"}, address : Addresses, at : Nat]
Mailings == [do : {"mail", "signed up"}, id : AccountIds]
Proposings == [do : {"proposed", "vouching", "entering"}, id : AccountIds, address : Addresses]
Confirmings == [do : {"confirmed"}, id : AccountIds, loaded : Profiles]
Loads == {"form", "account", "status", "name", "edit"}
Fillings == [do : Loads, id : AccountIds, loaded : Profiles, user : Users, form : Nat]
Submissions == {U!Rest} \cup Starts \cup Mailings \cup Proposings \cup Confirmings \cup Fillings

Spendable == {"requests", "forms", "accepts", "changes", "commands", "faults"}

(* There is a first citizen, and budgets are counts.                       *)
Populated == 1 \in AccountIds /\ AccountBudgets \subseteq [Spendable -> Nat]

AccountsTyped ==
    /\ user \in [AccountIds -> Users] /\ profile \in [AccountIds -> Profiles] /\ answered \in [AccountIds -> Given]
    /\ addresses \subseteq Rows /\ IsFiniteSet(addresses)
    /\ submission \in [Addresses -> Submissions]
    /\ changes \in Nat /\ since \in [AccountIds -> Nat] /\ checked \in [AccountIds -> [Addresses -> Nat]]
    /\ accepted \subseteq AccountIds
    /\ accountsLeft \in [Spendable -> Nat]

Starting(p) == submission[p].do \in {"signup", "propose"}
Entering(p) == submission[p].do \in {"mail", "signed up", "proposed"}
Proposing(p) == submission[p].do \in {"proposed", "vouching", "entering"}
Filling(p)  == submission[p].do \in Loads

(* Whoever has an address, has been let in or is being saved has an        *)
(* account; that a citizen vouches for somebody never changes.             *)
AccountsExist ==
    /\ \A r \in addresses : U!Exists(r.of)
    /\ \A id \in accepted : U!Exists(id)
    /\ \A id \in AccountIds : U!Exists(id) => user[id].mail \in Addresses
    /\ \A p \in Addresses : Filling(p) =>
          LET id == submission[p].id
              old == submission[p].user
          IN U!Exists(id) /\ old.state # "none" /\ old.mail \in Addresses /\ old.vouched = user[id].vouched

(* Whoever has an address came by it after others have looked for it.      *)
LookedBefore ==
    /\ \A i \in AccountIds, a \in Addresses : checked[i][a] <= changes
    /\ \A i, j \in AccountIds : i # j /\ U!Exists(j) => checked[i][user[j].mail] < since[j]
    /\ \A p \in Addresses : Starting(p) =>
          /\ submission[p].at <= changes
          /\ \A j \in AccountIds : U!Holds(j, submission[p].address) => submission[p].at < since[j]

(* A verified address has been confirmed, and is the account's.            *)
VerifiedRows ==
    \A r \in addresses : r.verified =>
        /\ user[r.of].vouched \/ <<r.of, r.address>> \in opened
        /\ r.of \in overwritten \/ r.address = user[r.of].mail

(* Who signs up or is proposed is active until it is done, has one request *)
(* that does it, and nobody has loaded anything else.                      *)
SigningUp ==
    \A p \in Addresses : Entering(p) =>
        /\ user[submission[p].id].state = "active" /\ submission[p].id \notin accepted
        /\ \A q \in Addresses \ {p} : Entering(q) => submission[q].id # submission[p].id
        /\ \A q \in Addresses : Filling(q) /\ submission[q].id = submission[p].id => submission[q].user.state = "active"

(* As NobodyIsStuck, of those too who are signing up, whose mail may still *)
(* have to be sent.                                                        *)
HasRow(id) == \E r \in addresses : r.of = id /\ r.address = user[id].mail /\ ~r.upper
MailIsDue(id) == \E p \in Addresses : submission[p].do = "mail" /\ submission[p].id = id
CanConfirm ==
    \A id \in AccountIds \ (unsent \cup overwritten) : user[id].state \in {"active", "candidate"} /\ ~user[id].vouched =>
        \/ U!Verified(id, user[id].mail)
        \/ (<<"confirm", id, user[id].mail>> \in links \/ MailIsDue(id)) /\ HasRow(id)

LetIn == \A id \in accepted \ overwritten : user[id].state = "citizen"

(* The answers of the candidate are stored when they are given; the form   *)
(* counts as filled in as soon as the request is through.                  *)
FormIsDue(id) == \E p \in Addresses : submission[p].do \in {"account", "status"} /\ submission[p].id = id
FormsStored ==
    /\ \A id \in AccountIds \ overwritten :
          /\ profile[id].form = answered[id].form
          /\ answered[id].own => profile[id].status = "form_completed" \/ FormIsDue(id)
    /\ \A p \in Addresses : submission[p].do = "confirmed" => submission[p].loaded.status = "email_entered"

(* Whom a citizen has proposed the profile names a proposer of, or will,   *)
(* and nobody else; and a proposed address is the account's when it is     *)
(* entered, or there is another one that keeps it out.                     *)
VouchingIsDue(id) == \E p \in Addresses : submission[p].do \in {"proposed", "vouching"} /\ submission[p].id = id
HasPrimary(id) == \E r \in addresses : r.of = id /\ r.verified /\ r.primary
Vouched(id) == U!Exists(id) /\ user[id].vouched
VouchedFor ==
    /\ \A id \in AccountIds : profile[id].polecajacy => Vouched(id)
    /\ \A p \in Addresses : (submission[p].do = "confirmed" \/ Filling(p)) /\ submission[p].loaded.polecajacy
          => Vouched(submission[p].id)
    /\ \A p \in Addresses : Proposing(p) =>
          LET id == submission[p].id
          IN Vouched(id) /\ (id \in overwritten \/ user[id].mail = submission[p].address \/ HasPrimary(id))
    /\ \A id \in AccountIds \ overwritten : Vouched(id) => profile[id].polecajacy \/ VouchingIsDue(id)

AccountsSound ==
    /\ AccountsTyped /\ AccountsExist /\ LookedBefore /\ VerifiedRows
    /\ SigningUp /\ CanConfirm /\ LetIn /\ FormsStored

LEMMA SubmissionIs ==
    ASSUME AccountsTyped, NEW p \in Addresses
    PROVE  /\ submission[p] \in Submissions
           /\ Starting(p) => submission[p] \in Starts
           /\ Entering(p) => submission[p].id \in AccountIds
           /\ Proposing(p) => submission[p] \in Proposings
           /\ submission[p].do = "confirmed" => submission[p] \in Confirmings
           /\ Filling(p) => submission[p] \in Fillings
           /\ submission[p] = U!Rest => submission[p].do = "rest"
<1>1. submission[p] \in Submissions BY DEF AccountsTyped
<1>2. submission[p] = U!Rest => submission[p].do = "rest" BY DEF U!Rest
<1>3. submission[p] \in Starts => submission[p].do \in {"signup", "propose"} BY DEF Starts
<1>4. submission[p] \in Mailings => submission[p].do \in {"mail", "signed up"} /\ submission[p].id \in AccountIds
  BY DEF Mailings
<1>5. submission[p] \in Proposings =>
        submission[p].do \in {"proposed", "vouching", "entering"} /\ submission[p].id \in AccountIds
  BY DEF Proposings
<1>6. submission[p] \in Confirmings => submission[p].do = "confirmed" BY DEF Confirmings
<1>7. submission[p] \in Fillings => submission[p].do \in Loads BY DEF Fillings
<1>8. submission[p] = U!Rest \/ submission[p] \in Starts \/ submission[p] \in Mailings \/ submission[p] \in Proposings
      \/ submission[p] \in Confirmings \/ submission[p] \in Fillings
  BY <1>1 DEF Submissions
<1> QED BY ONLY <1>1, <1>2, <1>3, <1>4, <1>5, <1>6, <1>7, <1>8 DEF Loads, Starting, Entering, Proposing, Filling

LEMMA AccountsInitSound == ASSUME Populated, U!Init PROVE AccountsSound /\ VouchedFor
<1> USE DEF U!Init
<1>1. PICK a \in Addresses :
        /\ user = [id \in AccountIds |-> IF id = 1 THEN [U!NoUser EXCEPT !.state = "citizen", !.mail = a] ELSE U!NoUser]
        /\ addresses \in {{[U!Row(1, a, TRUE, TRUE) EXCEPT !.upper = TRUE]} \cup anew :
                        anew \in {{}, {U!Row(1, a, FALSE, FALSE)}, {U!Row(1, a, FALSE, TRUE)}}}
        /\ opened = {<<1, a>>}
  OBVIOUS
<1>2. /\ user \in [AccountIds -> Users] /\ user[1].state = "citizen" /\ user[1].mail = a
      /\ \A id \in AccountIds : ~user[id].vouched
      /\ \A id \in AccountIds \ {1} : user[id].state = "none"
  BY <1>1 DEF Populated, U!NoUser, Users
<1>3. /\ addresses \subseteq Rows /\ IsFiniteSet(addresses)
      /\ \A r \in addresses : r.of = 1 /\ r.address = a
  <2> DEFINE x == [U!Row(1, a, TRUE, TRUE) EXCEPT !.upper = TRUE]
             y == U!Row(1, a, FALSE, FALSE)
             z == U!Row(1, a, FALSE, TRUE)
  <2>1. x \in Rows /\ y \in Rows /\ z \in Rows BY DEF U!Row, Rows, Populated
  <2>2. x.of = 1 /\ x.address = a /\ y.of = 1 /\ y.address = a /\ z.of = 1 /\ z.address = a BY DEF U!Row
  <2>3. \/ addresses = {x} \cup {} \/ addresses = {x} \cup {y} \/ addresses = {x} \cup {z}
    BY <1>1
  <2> HIDE DEF x, y, z
  <2>4. IsFiniteSet({x}) BY FS_Singleton
  <2>5. IsFiniteSet({x} \cup {}) /\ IsFiniteSet({x} \cup {y}) /\ IsFiniteSet({x} \cup {z})
    <3>1. {x} \cup {} = {x} OBVIOUS
    <3> QED BY <2>4, <3>1, FS_AddElement
  <2> QED BY <2>1, <2>2, <2>3, <2>5
<1>4. /\ \A p \in Addresses : submission[p] = U!Rest /\ submission[p].do = "rest"
      /\ submission \in [Addresses -> Submissions]
  BY DEF U!Rest, Submissions
<1>5. /\ profile \in [AccountIds -> Profiles] /\ answered \in [AccountIds -> Given]
      /\ \A id \in AccountIds : profile[id].form = answered[id].form /\ ~answered[id].own
  BY DEF U!NoProfile, Profiles, Given
<1>6. AccountsTyped BY <1>2, <1>3, <1>4, <1>5 DEF AccountsTyped, Populated
<1>7. AccountsExist BY <1>2, <1>3, <1>4 DEF AccountsExist, U!Exists, Filling, Loads, Populated
<1>8. LookedBefore BY <1>2, <1>4 DEF LookedBefore, Starting, U!Exists
<1>9. VerifiedRows BY <1>1, <1>2, <1>3 DEF VerifiedRows
<1>10. SigningUp /\ CanConfirm /\ LetIn /\ FormsStored
  BY <1>2, <1>4, <1>5 DEF SigningUp, CanConfirm, LetIn, FormsStored, Entering
<1>11. VouchedFor
  <2>1. \A id \in AccountIds : ~profile[id].polecajacy /\ ~Vouched(id) BY <1>2 DEF U!NoProfile, Vouched
  <2> QED BY <1>4, <2>1 DEF VouchedFor, Filling, Proposing, Loads
<1> QED BY <1>6, <1>7, <1>8, <1>9, <1>10, <1>11 DEF AccountsSound

-----------------------------------------------------------------------------
(* Steps of a request that store nothing of the account                    *)

LEMMA Spending ==
    ASSUME accountsLeft \in [Spendable -> Nat], NEW what \in Spendable, U!Spend(what)
    PROVE  accountsLeft' \in [Spendable -> Nat]
BY DEF U!Spend

(* Whatever a request does that leaves the accounts and their addresses as *)
(* they are.                                                               *)
LEMMA RequestKeeps ==
    ASSUME AccountsSound, NEW p \in Addresses, NEW new \in Submissions,
           submission' = [submission EXCEPT ![p] = new],
           UNCHANGED <<user, addresses, changes, since, checked, opened, accepted>>,
           profile' \in [AccountIds -> Profiles], answered' \in [AccountIds -> Given], accountsLeft' \in [Spendable -> Nat],
           links \subseteq links', unsent \subseteq unsent', overwritten \subseteq overwritten',
           new.do \in {"signup", "propose"} =>
              new.at <= changes /\ \A j \in AccountIds : U!Holds(j, new.address) => new.at < since[j],
           new.do \in {"mail", "signed up", "proposed"} => Entering(p) /\ new.id = submission[p].id,
           new.do \in Loads => \/ new.id \in AccountIds /\ U!Exists(new.id) /\ new.user = user[new.id]
                               \/ Filling(p) /\ new.id = submission[p].id /\ new.user = submission[p].user,
           submission[p].do = "mail" =>
              submission[p].id \in unsent' \/ <<"confirm", submission[p].id, user[submission[p].id].mail>> \in links'
    PROVE  /\ AccountsTyped' /\ AccountsExist' /\ LookedBefore' /\ VerifiedRows'
           /\ SigningUp' /\ CanConfirm' /\ LetIn'
<1>1. AccountsTyped' BY DEF AccountsSound, AccountsTyped
<1>2. \A q \in Addresses : submission'[q] = IF q = p THEN new ELSE submission[q]
  BY DEF AccountsSound, AccountsTyped
<1>3. \A id \in AccountIds : U!Exists(id)' <=> U!Exists(id) BY DEF U!Exists
<1>4. \A id \in AccountIds : user[id].mail \in Addresses \/ ~U!Exists(id) BY DEF AccountsSound, AccountsExist
<1>5. AccountsExist'
  <2>1. \A q \in Addresses : Filling(q)' =>
          /\ U!Exists(submission'[q].id) /\ submission'[q].user.state # "none"
          /\ submission'[q].user.mail \in Addresses /\ submission'[q].user.vouched = user[submission'[q].id].vouched
    <3> SUFFICES ASSUME NEW q \in Addresses, Filling(q)'
                 PROVE  /\ U!Exists(submission'[q].id) /\ submission'[q].user.state # "none"
                        /\ submission'[q].user.mail \in Addresses
                        /\ submission'[q].user.vouched = user[submission'[q].id].vouched
      OBVIOUS
    <3>1. CASE q = p
      <4>1. new.do \in Loads /\ submission'[q] = new BY <1>2, <3>1 DEF Filling
      <4>2. CASE new.id \in AccountIds /\ U!Exists(new.id) /\ new.user = user[new.id] BY <1>4, <4>1, <4>2 DEF U!Exists
      <4>3. CASE Filling(p) /\ new.id = submission[p].id /\ new.user = submission[p].user
        BY <4>1, <4>3 DEF AccountsSound, AccountsExist
      <4> QED BY <4>1, <4>2, <4>3
    <3>2. CASE q # p
      <4>1. Filling(q) /\ submission'[q] = submission[q] BY <1>2, <3>2 DEF Filling
      <4> QED BY <4>1 DEF AccountsSound, AccountsExist
    <3> QED BY <3>1, <3>2
  <2> QED BY <2>1 DEF AccountsSound, AccountsExist, U!Exists
<1>6. LookedBefore'
  <2>1. \A q \in Addresses : Starting(q)' =>
          /\ submission'[q].at <= changes
          /\ \A j \in AccountIds : U!Holds(j, submission'[q].address) => submission'[q].at < since[j]
    BY <1>2 DEF AccountsSound, LookedBefore, Starting
  <2> QED BY <2>1 DEF AccountsSound, LookedBefore, U!Exists, U!Holds
<1>7. VerifiedRows' BY DEF AccountsSound, VerifiedRows
<1>8. SigningUp'
  <2>1. \A q \in Addresses : Entering(q)' => Entering(q) /\ submission'[q].id = submission[q].id
    BY <1>2 DEF Entering
  <2>2. \A q \in Addresses : Filling(q)' => \/ Filling(q) /\ submission'[q].id = submission[q].id
                                               /\ submission'[q].user = submission[q].user
                                            \/ submission'[q].id \in AccountIds /\ submission'[q].user = user[submission'[q].id]
    BY <1>2 DEF Filling
  <2>3. ASSUME NEW q \in Addresses, Entering(q)'
        PROVE  /\ user[submission'[q].id].state = "active" /\ submission'[q].id \notin accepted
               /\ \A x \in Addresses \ {q} : Entering(x)' => submission'[x].id # submission'[q].id
               /\ \A x \in Addresses : Filling(x)' /\ submission'[x].id = submission'[q].id
                                        => submission'[x].user.state = "active"
    <3>1. Entering(q) /\ submission'[q].id = submission[q].id BY <2>1, <2>3
    <3>2. user[submission[q].id].state = "active" /\ submission[q].id \notin accepted
      BY <3>1 DEF AccountsSound, SigningUp
    <3>3. \A x \in Addresses \ {q} : Entering(x) => submission[x].id # submission[q].id
      BY <3>1 DEF AccountsSound, SigningUp
    <3>4. \A x \in Addresses : Filling(x) /\ submission[x].id = submission[q].id => submission[x].user.state = "active"
      BY <3>1 DEF AccountsSound, SigningUp
    <3>5. \A x \in Addresses \ {q} : Entering(x)' => submission'[x].id # submission'[q].id
      BY <2>1, <3>1, <3>3
    <3>6. ASSUME NEW x \in Addresses, Filling(x)', submission'[x].id = submission'[q].id
          PROVE  submission'[x].user.state = "active"
      <4>1. CASE Filling(x) /\ submission'[x].id = submission[x].id /\ submission'[x].user = submission[x].user
        BY <3>1, <3>4, <3>6, <4>1
      <4>2. CASE submission'[x].id \in AccountIds /\ submission'[x].user = user[submission'[x].id]
        BY <3>1, <3>2, <3>6, <4>2
      <4> QED BY <2>2, <3>6, <4>1, <4>2
    <3> QED BY <3>1, <3>2, <3>5, <3>6
  <2> QED BY <2>3 DEF SigningUp
<1>9. CanConfirm'
  <2>1. \A id \in AccountIds \ unsent' : MailIsDue(id) => MailIsDue(id)' \/ <<"confirm", id, user[id].mail>> \in links'
    BY <1>2 DEF MailIsDue
  <2>2. \A id : HasRow(id)' <=> HasRow(id) BY DEF HasRow
  <2>3. \A id : U!Verified(id, user[id].mail)' <=> U!Verified(id, user[id].mail) BY DEF U!Verified
  <2> SUFFICES ASSUME NEW id \in AccountIds \ (unsent' \cup overwritten'), user[id].state \in {"active", "candidate"},
                      ~user[id].vouched, ~U!Verified(id, user[id].mail)
               PROVE  (<<"confirm", id, user[id].mail>> \in links' \/ MailIsDue(id)') /\ HasRow(id)
    BY <2>2, <2>3 DEF CanConfirm
  <2>4. (<<"confirm", id, user[id].mail>> \in links \/ MailIsDue(id)) /\ HasRow(id)
    BY DEF AccountsSound, CanConfirm
  <2> QED BY <2>1, <2>4
<1>10. LetIn' BY DEF AccountsSound, LetIn
<1> QED BY <1>1, <1>5, <1>6, <1>7, <1>8, <1>9, <1>10

LEMMA FormsUntouched ==
    ASSUME AccountsSound, NEW p \in Addresses, NEW new, submission' = [submission EXCEPT ![p] = new],
           UNCHANGED <<profile, answered>>, overwritten \subseteq overwritten',
           submission[p].do \in {"account", "status"} =>
              new.do \in {"account", "status"} /\ new.id = submission[p].id,
           new.do # "confirmed"
    PROVE  FormsStored'
<1>1. \A q \in Addresses : submission'[q] = IF q = p THEN new ELSE submission[q]
  BY DEF AccountsSound, AccountsTyped
<1>2. \A id : FormIsDue(id) => FormIsDue(id)' BY <1>1 DEF FormIsDue
<1>3. \A q \in Addresses : submission'[q].do = "confirmed" => submission'[q] = submission[q]
  BY <1>1
<1> QED BY <1>2, <1>3 DEF AccountsSound, FormsStored

LEMMA ResubmissionKeeps ==
    ASSUME AccountsSound, NEW p \in Addresses, NEW new \in Submissions,
           submission' = [submission EXCEPT ![p] = new],
           UNCHANGED <<user, profile, addresses, changes, since, checked, answered, opened, overwritten, accepted>>,
           accountsLeft' \in [Spendable -> Nat], links \subseteq links', unsent \subseteq unsent',
           submission[p].do \notin {"account", "status"}, new.do # "confirmed",
           new.do \in {"signup", "propose"} =>
              new.at <= changes /\ \A j \in AccountIds : U!Holds(j, new.address) => new.at < since[j],
           new.do \in {"mail", "signed up", "proposed"} => Entering(p) /\ new.id = submission[p].id,
           new.do \in Loads => new.id \in AccountIds /\ U!Exists(new.id) /\ new.user = user[new.id],
           submission[p].do = "mail" =>
              submission[p].id \in unsent' \/ <<"confirm", submission[p].id, user[submission[p].id].mail>> \in links'
    PROVE  AccountsSound'
<1>1. profile' \in [AccountIds -> Profiles] /\ answered' \in [AccountIds -> Given] BY DEF AccountsSound, AccountsTyped
<1>2. FormsStored' BY FormsUntouched
<1>3. /\ AccountsTyped' /\ AccountsExist' /\ LookedBefore' /\ VerifiedRows'
      /\ SigningUp' /\ CanConfirm' /\ LetIn'
  BY <1>1, RequestKeeps
<1> QED BY <1>2, <1>3 DEF AccountsSound

LEMMA AskingKeeps ==
    ASSUME AccountsSound, NEW p \in Addresses, U!SignUp(p) \/ U!dodaj(p)
    PROVE  AccountsSound'
<1>0. accountsLeft' \in [Spendable -> Nat]
  BY Spending DEF U!SignUp, U!dodaj, AccountsSound, AccountsTyped, Spendable
<1>1. PICK address \in Addresses, do \in {"signup", "propose"} :
        /\ \A id \in AccountIds : ~U!Holds(id, address)
        /\ submission' = [submission EXCEPT ![p] = [do |-> do, address |-> address, at |-> changes]]
  BY DEF U!SignUp, U!dodaj, U!clean_email, U!Becomes
<1>2. /\ submission[p].do = "rest"
      /\ UNCHANGED <<user, profile, addresses, links, changes, since, checked, answered, opened, overwritten, accepted, unsent>>
  BY DEF U!SignUp, U!dodaj, U!Rest, U!times
<1> DEFINE new == [do |-> do, address |-> address, at |-> changes]
<1>3. new \in Submissions /\ new.do \in {"signup", "propose"} /\ new.address = address /\ new.at = changes
  BY DEF Submissions, Starts, AccountsSound, AccountsTyped
<1>4. new.at <= changes BY <1>3 DEF AccountsSound, AccountsTyped
<1>5. new.do \notin {"confirmed", "mail", "signed up", "proposed"} \cup Loads BY <1>3 DEF Loads
<1> HIDE DEF new
<1> QED BY <1>0, <1>1, <1>2, <1>3, <1>4, <1>5, ResubmissionKeeps DEF new

LEMMA LoadingKeeps ==
    ASSUME AccountsSound, NEW p \in Addresses,
           U!onboarding_details(p) \/ U!change_username(p) \/ U!candidate_edit(p)
    PROVE  AccountsSound'
<1>0. accountsLeft' \in [Spendable -> Nat]
  BY Spending DEF U!onboarding_details, U!change_username, U!candidate_edit, AccountsSound, AccountsTyped, Spendable
<1>1. PICK id \in AccountIds, do \in Loads :
        /\ U!Exists(id)
        /\ submission' = [submission EXCEPT ![p] = [do |-> do, id |-> id, loaded |-> profile[id], user |-> user[id],
                                                     form |-> accountsLeft.forms]]
  BY DEF U!onboarding_details, U!change_username, U!candidate_edit, U!get_onboarding_user_from_request, U!Load, U!Becomes,
         U!Exists, Loads
<1>2. /\ submission[p].do = "rest"
      /\ UNCHANGED <<user, profile, addresses, links, changes, since, checked, answered, opened, overwritten, accepted, unsent>>
  BY DEF U!onboarding_details, U!change_username, U!candidate_edit, U!Rest, U!times
<1> DEFINE new == [do |-> do, id |-> id, loaded |-> profile[id], user |-> user[id], form |-> accountsLeft.forms]
<1>3. new \in Submissions /\ new.do = do /\ new.id = id /\ new.user = user[id]
  BY DEF Submissions, Fillings, AccountsSound, AccountsTyped, Spendable
<1>5. new.do \notin {"confirmed", "mail", "signed up", "proposed", "signup", "propose"} BY <1>3 DEF Loads
<1> HIDE DEF new
<1> QED BY <1>0, <1>1, <1>2, <1>3, <1>5, ResubmissionKeeps DEF new

LEMMA MailKeeps ==
    ASSUME AccountsSound, NEW p \in Addresses, U!send_confirmation_mail(p)
    PROVE  AccountsSound'
<1> DEFINE id == submission[p].id
           new == [do |-> "signed up", id |-> id]
<1>0. accountsLeft' \in [Spendable -> Nat]
  BY Spending DEF U!send_confirmation_mail, AccountsSound, AccountsTyped, Spendable
<1>1. /\ submission[p].do = "mail" /\ submission' = [submission EXCEPT ![p] = new]
      /\ links \subseteq links' /\ unsent \subseteq unsent'
      /\ id \in unsent' \/ <<"confirm", id, user[id].mail>> \in links'
      /\ UNCHANGED <<user, profile, addresses, changes, since, checked, answered, opened, overwritten, accepted>>
  BY DEF U!send_confirmation_mail, U!Becomes, U!times
<1>2. Entering(p) /\ id \in AccountIds BY <1>1, SubmissionIs DEF Entering, AccountsSound, Mailings
<1>3. new \in Submissions /\ new.do = "signed up" /\ new.id = id BY <1>2 DEF Submissions, Mailings
<1>4. new.do \notin {"confirmed", "signup", "propose"} \cup Loads BY <1>3 DEF Loads
<1> HIDE DEF new
<1> QED BY <1>0, <1>1, <1>2, <1>3, <1>4, ResubmissionKeeps

-----------------------------------------------------------------------------
(* An account is stored, leaves the signing up, is let in                  *)

LEMMA CreatingKeeps ==
    ASSUME AccountsSound, NEW p \in Addresses, U!CustomSignupForm_save(p) \/ U!SaveCandidate(p)
    PROVE  AccountsSound'
<1> DEFINE a == submission[p].address
           t == submission[p].at
<1>1. PICK id \in AccountIds, vouched \in BOOLEAN, new \in Submissions :
        /\ ~U!Exists(id)
        /\ user' = [user EXCEPT ![id] = [state |-> "active", mail |-> a, vouched |-> vouched]]
        /\ changes' = changes + 1 /\ since' = [since EXCEPT ![id] = changes + 1]
        /\ checked' = [checked EXCEPT ![id][a] = t]
        /\ submission' = [submission EXCEPT ![p] = new]
        /\ \/ new = [do |-> "mail", id |-> id] /\ ~vouched
              /\ addresses' = addresses \cup {U!Row(id, a, FALSE, TRUE)}
           \/ new = [do |-> "proposed", id |-> id, address |-> a] /\ vouched /\ addresses' = addresses
  <2>1. CASE U!CustomSignupForm_save(p)
    <3>1. PICK id \in U!Next_id : /\ U!Created(id, "active", a, FALSE, t)
                                  /\ addresses' = addresses \cup {U!Row(id, a, FALSE, TRUE)}
                                  /\ U!Becomes(p, [do |-> "mail", id |-> id])
      BY <2>1 DEF U!CustomSignupForm_save
    <3>2. id \in AccountIds /\ ~U!Exists(id) BY DEF U!Next_id
    <3>3. [do |-> "mail", id |-> id] \in Submissions BY <3>2 DEF Submissions, Mailings
    <3> QED BY <3>1, <3>2, <3>3 DEF U!Created, U!Moved, U!Becomes
  <2>2. CASE U!SaveCandidate(p)
    <3>1. PICK id \in U!Next_id : /\ U!Created(id, "active", a, TRUE, t) /\ addresses' = addresses
                                  /\ U!Becomes(p, [do |-> "proposed", id |-> id, address |-> a])
      BY <2>2 DEF U!SaveCandidate
    <3>2. id \in AccountIds /\ ~U!Exists(id) BY DEF U!Next_id
    <3>3. Starting(p) BY <2>2 DEF U!SaveCandidate, Starting
    <3>4. a \in Addresses BY <3>3, SubmissionIs DEF AccountsSound, Starts
    <3>5. [do |-> "proposed", id |-> id, address |-> a] \in Submissions BY <3>2, <3>4 DEF Submissions, Proposings
    <3> QED BY <3>1, <3>2, <3>5 DEF U!Created, U!Moved, U!Becomes
  <2> QED BY <2>1, <2>2
<1>2. /\ Starting(p)
      /\ UNCHANGED <<profile, links, answered, opened, overwritten, accepted, unsent, accountsLeft>>
  BY DEF U!CustomSignupForm_save, U!SaveCandidate, Starting
<1>3. /\ a \in Addresses /\ t \in Nat /\ t <= changes /\ changes \in Nat
      /\ \A j \in AccountIds : U!Holds(j, a) => t < since[j]
  BY <1>2, SubmissionIs DEF AccountsSound, AccountsTyped, Starts, LookedBefore
<1> HIDE DEF a, t
<1>4. /\ user'[id].state = "active" /\ user'[id].mail = a /\ user'[id].vouched = vouched
      /\ \A j \in AccountIds \ {id} : user'[j] = user[j]
      /\ user' \in [AccountIds -> Users]
  BY <1>1, <1>3 DEF AccountsSound, AccountsTyped, Users
<1>5. /\ \A q \in Addresses \ {p} : submission'[q] = submission[q]
      /\ submission'[p] = new /\ submission' \in [Addresses -> Submissions]
  BY <1>1 DEF AccountsSound, AccountsTyped
<1>6. /\ since'[id] = changes + 1 /\ \A j \in AccountIds \ {id} : since'[j] = since[j]
      /\ since' \in [AccountIds -> Nat]
  BY <1>1, <1>3 DEF AccountsSound, AccountsTyped
<1>7. /\ checked'[id][a] = t /\ \A i \in AccountIds, b \in Addresses : i # id \/ b # a => checked'[i][b] = checked[i][b]
      /\ checked' \in [AccountIds -> [Addresses -> Nat]]
  BY <1>1, <1>3 DEF AccountsSound, AccountsTyped
<1>8. /\ addresses \subseteq addresses' /\ addresses' \subseteq Rows /\ IsFiniteSet(addresses')
      /\ \A r \in addresses' \ addresses : r.of = id /\ r.address = a /\ (r.verified => vouched) /\ ~r.upper
  <2>1. \A v \in BOOLEAN : /\ U!Row(id, a, v, TRUE) \in Rows /\ U!Row(id, a, v, TRUE).of = id /\ ~U!Row(id, a, v, TRUE).upper
                           /\ U!Row(id, a, v, TRUE).address = a /\ U!Row(id, a, v, TRUE).verified = v
    BY <1>3 DEF U!Row, Rows
  <2>2. IsFiniteSet(addresses) /\ addresses \subseteq Rows BY DEF AccountsSound, AccountsTyped
  <2>3. IsFiniteSet(addresses') BY <1>1, <2>2, FS_AddElement
  <2> QED BY <1>1, <2>1, <2>2, <2>3
<1>9. /\ \A j \in AccountIds : U!Exists(j)' <=> (U!Exists(j) \/ j = id)
      /\ \A r \in addresses : r.of # id
      /\ id \notin accepted
      /\ \A q \in Addresses : Filling(q) => submission[q].id # id
      /\ \A q \in Addresses : Entering(q) => submission[q].id # id
  <2>1. \A j \in AccountIds : U!Exists(j)' <=> (U!Exists(j) \/ j = id)
    BY <1>1, <1>4 DEF U!Exists
  <2>2. (\A r \in addresses : r.of # id) /\ id \notin accepted /\ (\A q \in Addresses : Filling(q) => submission[q].id # id)
    BY <1>1 DEF AccountsSound, AccountsExist
  <2>3. \A q \in Addresses : Entering(q) => submission[q].id # id
    BY <1>1 DEF AccountsSound, SigningUp, U!Exists
  <2> QED BY <2>1, <2>2, <2>3
<1>10. /\ new.do \in {"mail", "proposed"} /\ new.id = id /\ new.do \notin Loads
       /\ ~vouched => new.do = "mail" /\ \E r \in addresses' : r.of = id /\ r.address = a /\ ~r.upper
  <2>1. U!Row(id, a, FALSE, TRUE).of = id /\ U!Row(id, a, FALSE, TRUE).address = a /\ ~U!Row(id, a, FALSE, TRUE).upper
    BY DEF U!Row
  <2>2. CASE vouched BY <1>1, <2>2 DEF Loads
  <2>3. CASE ~vouched
    <3>1. new = [do |-> "mail", id |-> id] /\ U!Row(id, a, FALSE, TRUE) \in addresses' BY <1>1, <2>3
    <3> QED BY <2>1, <3>1 DEF Loads
  <2> QED BY <2>2, <2>3
<1>11. AccountsTyped' BY <1>2, <1>3, <1>4, <1>5, <1>6, <1>7, <1>8, <1>1 DEF AccountsSound, AccountsTyped
<1>12. AccountsExist'
  <2>1. \A r \in addresses' : U!Exists(r.of)'
    BY <1>8, <1>9 DEF AccountsSound, AccountsExist, AccountsTyped, Rows
  <2>2. \A j \in accepted' : U!Exists(j)' BY <1>2, <1>9 DEF AccountsSound, AccountsExist, AccountsTyped
  <2>3. \A j \in AccountIds : U!Exists(j)' => user'[j].mail \in Addresses
    BY <1>3, <1>4, <1>9 DEF AccountsSound, AccountsExist
  <2>4. ASSUME NEW q \in Addresses, Filling(q)'
        PROVE  /\ user'[submission'[q].id].state # "none" /\ submission'[q].user.state # "none"
               /\ submission'[q].user.mail \in Addresses /\ submission'[q].user.vouched = user'[submission'[q].id].vouched
    <3>1. q # p /\ Filling(q) /\ submission'[q] = submission[q] BY <1>5, <1>10, <2>4 DEF Filling
    <3>2. submission[q].id \in AccountIds \ {id} BY <1>9, <3>1, SubmissionIs DEF AccountsSound, Fillings
    <3> QED BY <1>4, <3>1, <3>2 DEF AccountsSound, AccountsExist, U!Exists
  <2> QED BY <2>1, <2>2, <2>3, <2>4 DEF AccountsExist, U!Exists
<1>13. LookedBefore'
  <2>1. \A i \in AccountIds, b \in Addresses : checked'[i][b] <= changes'
    <3> TAKE i \in AccountIds, b \in Addresses
    <3>1. checked[i][b] <= changes /\ checked[i][b] \in Nat BY DEF AccountsSound, AccountsTyped, LookedBefore
    <3> QED BY <1>1, <1>3, <1>7, <3>1
  <2>2. ASSUME NEW i \in AccountIds, NEW j \in AccountIds, i # j, U!Exists(j)'
        PROVE  checked'[i][user'[j].mail] < since'[j]
    <3>1. CASE j = id
      <4>1. checked'[i][a] = checked[i][a] /\ checked[i][a] \in Nat /\ checked[i][a] <= changes
        BY <1>3, <1>7, <2>2, <3>1 DEF AccountsSound, AccountsTyped, LookedBefore
      <4> QED BY <1>3, <1>4, <1>6, <3>1, <4>1
    <3>2. CASE j # id
      <4>1. U!Exists(j) /\ user'[j] = user[j] /\ since'[j] = since[j] BY <1>4, <1>6, <1>9, <2>2, <3>2
      <4>2. checked[i][user[j].mail] < since[j] /\ user[j].mail \in Addresses
        BY <2>2, <4>1 DEF AccountsSound, LookedBefore, AccountsExist
      <4>3. CASE i = id /\ user[j].mail = a
        <5>1. t < since[j] BY <1>3, <4>1, <4>3 DEF U!Holds
        <5> QED BY <1>7, <4>1, <4>3, <5>1
      <4> QED BY <1>7, <4>1, <4>2, <4>3
    <3> QED BY <3>1, <3>2
  <2>3. ASSUME NEW q \in Addresses, Starting(q)'
        PROVE  /\ submission'[q].at <= changes'
               /\ \A j \in AccountIds : U!Exists(j)' /\ user'[j].mail = submission'[q].address => submission'[q].at < since'[j]
    <3>1. q # p /\ Starting(q) /\ submission'[q] = submission[q] BY <1>5, <1>10, <2>3 DEF Starting
    <3>2. /\ submission[q].at \in Nat /\ submission[q].at <= changes
          /\ \A j \in AccountIds : U!Exists(j) /\ user[j].mail = submission[q].address => submission[q].at < since[j]
      BY <3>1, SubmissionIs DEF AccountsSound, LookedBefore, Starts, U!Holds
    <3>3. ASSUME NEW j \in AccountIds, U!Exists(j)', user'[j].mail = submission'[q].address
          PROVE  submission'[q].at < since'[j]
      <4>1. CASE j = id BY <1>3, <1>6, <3>1, <3>2, <4>1
      <4>2. CASE j # id BY <1>4, <1>6, <1>9, <3>1, <3>2, <3>3, <4>2
      <4> QED BY <4>1, <4>2
    <3> QED BY <1>1, <1>3, <3>1, <3>2, <3>3
  <2> QED BY <2>1, <2>2, <2>3 DEF LookedBefore, U!Holds
<1>14. VerifiedRows'
  <2> SUFFICES ASSUME NEW r \in addresses', r.verified
               PROVE  /\ user'[r.of].vouched \/ <<r.of, r.address>> \in opened
                      /\ r.of \in overwritten \/ r.address = user'[r.of].mail
    BY <1>2 DEF VerifiedRows
  <2>1. CASE r \in addresses
    <3>1. r.of \in AccountIds \ {id} BY <1>9, <2>1 DEF AccountsSound, AccountsTyped, Rows
    <3> QED BY <1>4, <2>1, <3>1 DEF AccountsSound, VerifiedRows
  <2>2. CASE r \notin addresses BY <1>4, <1>8, <2>2
  <2> QED BY <2>1, <2>2
<1>15. SigningUp'
  <2> SUFFICES ASSUME NEW q \in Addresses, Entering(q)'
               PROVE  /\ user'[submission'[q].id].state = "active" /\ submission'[q].id \notin accepted'
                      /\ \A x \in Addresses \ {q} : Entering(x)' => submission'[x].id # submission'[q].id
                      /\ \A x \in Addresses : Filling(x)' /\ submission'[x].id = submission'[q].id
                                        => submission'[x].user.state = "active"
    BY DEF SigningUp
  <2>0. /\ \A x \in Addresses \ {p} : Entering(x)' <=> Entering(x)
        /\ \A x \in Addresses : Filling(x)' => x # p /\ Filling(x)
    BY <1>5, <1>10 DEF Entering, Filling
  <2>1. CASE q = p
    <3>1. submission'[q].id = id /\ user'[id].state = "active" BY <1>4, <1>5, <1>10, <2>0, <2>1
    <3> QED BY <1>2, <1>5, <1>9, <2>0, <2>1, <3>1
  <2>2. CASE q # p
    <3>1. Entering(q) /\ submission'[q] = submission[q] BY <1>5, <2>0, <2>2
    <3>2. submission[q].id \in AccountIds \ {id} BY <1>9, <3>1, SubmissionIs DEF AccountsSound, Mailings
    <3>3. user'[submission[q].id].state = "active" /\ submission[q].id \notin accepted
      BY <1>4, <3>1, <3>2 DEF AccountsSound, SigningUp
    <3>4. \A x \in Addresses \ {q} : Entering(x)' => submission'[x].id # submission'[q].id
      <4> TAKE x \in Addresses \ {q}
      <4>1. CASE x = p BY <1>5, <1>10, <2>0, <3>1, <3>2, <4>1
      <4>2. CASE x # p BY <1>5, <2>0, <3>1, <4>2 DEF AccountsSound, SigningUp
      <4> QED BY <4>1, <4>2
    <3>5. \A x \in Addresses : Filling(x)' /\ submission'[x].id = submission'[q].id => submission'[x].user.state = "active"
      BY <1>5, <2>0, <3>1 DEF AccountsSound, SigningUp
    <3> QED BY <1>2, <3>1, <3>3, <3>4, <3>5
  <2> QED BY <2>1, <2>2
<1>16. CanConfirm'
  <2> SUFFICES ASSUME NEW j \in AccountIds \ (unsent \cup overwritten), user'[j].state \in {"active", "candidate"}, ~user'[j].vouched
               PROVE  \/ U!Verified(j, user[j].mail)'
                      \/ (<<"confirm", j, user'[j].mail>> \in links' \/ MailIsDue(j)') /\ HasRow(j)'
    BY <1>2 DEF CanConfirm
  <2>1. CASE j = id
    <3>1. ~vouched /\ new.do = "mail" /\ new.id = id BY <1>4, <1>10, <2>1
    <3>2. MailIsDue(id)' BY <1>5, <3>1 DEF MailIsDue
    <3>3. HasRow(id)' BY <1>4, <1>10, <3>1 DEF HasRow
    <3> QED BY <2>1, <3>2, <3>3
  <2>2. CASE j # id
    <3>1. user'[j] = user[j] BY <1>4, <2>2
    <3>2. U!Verified(j, user[j].mail) \/ ((<<"confirm", j, user[j].mail>> \in links \/ MailIsDue(j)) /\ HasRow(j))
      BY <3>1 DEF AccountsSound, CanConfirm
    <3>3. U!Verified(j, user[j].mail) => U!Verified(j, user[j].mail)' BY <1>8, <3>1 DEF U!Verified
    <3>4. HasRow(j) => HasRow(j)' BY <1>8, <3>1 DEF HasRow
    <3>5. MailIsDue(j) => MailIsDue(j)'
      <4>1. submission[p].do # "mail" BY <1>2 DEF Starting
      <4> QED BY <1>5, <4>1 DEF MailIsDue
    <3> QED BY <1>2, <3>1, <3>2, <3>3, <3>4, <3>5
  <2> QED BY <2>1, <2>2
<1>17. LetIn' BY <1>2, <1>4, <1>9 DEF AccountsSound, LetIn, AccountsTyped
<1>18. FormsStored'
  <2>1. \A j \in AccountIds : FormIsDue(j) => FormIsDue(j)'
    <3>1. submission[p].do \notin {"account", "status"} BY <1>2 DEF Starting
    <3> QED BY <1>5, <3>1 DEF FormIsDue
  <2>2. \A q \in Addresses : submission'[q].do = "confirmed" => submission'[q] = submission[q]
    BY <1>5, <1>10
  <2> QED BY <1>2, <2>1, <2>2 DEF AccountsSound, FormsStored
<1> QED BY <1>11, <1>12, <1>13, <1>14, <1>15, <1>16, <1>17, <1>18 DEF AccountsSound

LEMMA StateKeeps ==
    ASSUME AccountsSound,
           \/ \E p \in Addresses : U!DeactivateNewUser(p) \/ U!DeactivateCandidate(p)
           \/ (\E id \in AccountIds : U!Accept(id))
    PROVE  AccountsSound'
<1>1. PICK id \in AccountIds, state \in {"candidate", "citizen"} :
        /\ user' = [user EXCEPT ![id].state = state]
        /\ \/ /\ state = "candidate" /\ accepted' = accepted /\ accountsLeft' = accountsLeft
              /\ \E p \in Addresses : \E new \in Submissions :
                    /\ submission[p].do \in {"signed up", "proposed"} /\ submission[p].id = id
                    /\ new.do \in {"rest", "vouching"} /\ submission' = [submission EXCEPT ![p] = new]
           \/ /\ state = "citizen" /\ user[id].state = "candidate" /\ accepted' = accepted \cup {id}
              /\ accountsLeft' \in [Spendable -> Nat] /\ submission' = submission
  <2>1. ASSUME NEW p \in Addresses, U!DeactivateNewUser(p) \/ U!DeactivateCandidate(p)
        PROVE  /\ submission[p].id \in AccountIds /\ user' = [user EXCEPT ![submission[p].id].state = "candidate"]
               /\ accepted' = accepted /\ accountsLeft' = accountsLeft
               /\ submission[p].do \in {"signed up", "proposed"}
               /\ \E new \in Submissions : /\ new.do \in {"rest", "vouching"}
                                          /\ submission' = [submission EXCEPT ![p] = new]
    <3>1. submission[p].do \in {"signed up", "proposed"} BY <2>1 DEF U!DeactivateNewUser, U!DeactivateCandidate
    <3>2. submission[p].id \in AccountIds BY <3>1, SubmissionIs DEF Entering, AccountsSound
    <3>3. /\ user' = [user EXCEPT ![submission[p].id].state = "candidate"]
          /\ accepted' = accepted /\ accountsLeft' = accountsLeft
      BY <2>1 DEF U!DeactivateNewUser, U!DeactivateCandidate
    <3>4. CASE U!DeactivateNewUser(p)
      <4>1. U!Rest \in Submissions /\ U!Rest.do = "rest" BY DEF Submissions, U!Rest
      <4> QED BY <3>1, <3>2, <3>3, <3>4, <4>1 DEF U!DeactivateNewUser, U!Becomes
    <3>5. CASE U!DeactivateCandidate(p)
      <4> DEFINE new == [submission[p] EXCEPT !.do = "vouching"]
      <4>1. submission[p] \in Proposings BY <3>5, SubmissionIs DEF Proposing, AccountsSound, U!DeactivateCandidate
      <4>2. new \in Proposings /\ new.do = "vouching" BY <4>1 DEF Proposings
      <4>3. new \in Submissions BY <4>2 DEF Submissions
      <4>4. submission' = [submission EXCEPT ![p] = new] BY <3>5 DEF U!DeactivateCandidate, U!Becomes
      <4> HIDE DEF new
      <4> QED BY <3>1, <3>2, <3>3, <4>2, <4>3, <4>4
    <3> QED BY <2>1, <3>4, <3>5
  <2>2. ASSUME NEW id \in AccountIds, U!Accept(id)
        PROVE  /\ user' = [user EXCEPT ![id].state = "citizen"] /\ user[id].state = "candidate"
               /\ accepted' = accepted \cup {id} /\ accountsLeft' \in [Spendable -> Nat] /\ submission' = submission
    BY <2>2, Spending DEF U!Accept, AccountsSound, AccountsTyped, Spendable
  <2>3. CASE \E p \in Addresses : U!DeactivateNewUser(p) \/ U!DeactivateCandidate(p)
    <3>1. PICK p \in Addresses : U!DeactivateNewUser(p) \/ U!DeactivateCandidate(p) BY <2>3
    <3>2. PICK new \in Submissions : new.do \in {"rest", "vouching"} /\ submission' = [submission EXCEPT ![p] = new]
      BY <2>1, <3>1
    <3>3. /\ submission[p].id \in AccountIds /\ user' = [user EXCEPT ![submission[p].id].state = "candidate"]
          /\ accepted' = accepted /\ accountsLeft' = accountsLeft /\ submission[p].do \in {"signed up", "proposed"}
      BY <2>1, <3>1
    <3> QED BY <3>2, <3>3
  <2>4. CASE \E id \in AccountIds : U!Accept(id) BY <2>2, <2>4
  <2> QED BY <2>3, <2>4
<1>2. UNCHANGED <<profile, addresses, links, changes, since, checked, answered, opened, overwritten, unsent>>
  BY DEF U!DeactivateNewUser, U!DeactivateCandidate, U!Accept, U!times
<1>3. /\ user' \in [AccountIds -> Users] /\ \A j \in AccountIds \ {id} : user'[j] = user[j]
      /\ user'[id].state = state /\ user'[id].mail = user[id].mail /\ user'[id].vouched = user[id].vouched
  BY <1>1 DEF AccountsSound, AccountsTyped, Users
<1>4. /\ submission' \in [Addresses -> Submissions]
      /\ \A q \in Addresses : submission'[q] = submission[q] \/ submission'[q].do \in {"rest", "vouching"}
  BY <1>1 DEF AccountsSound, AccountsTyped
<1>5. U!Exists(id)
  <2>1. CASE state = "citizen" BY <1>1, <2>1 DEF U!Exists
  <2>2. CASE state = "candidate"
    <3>1. PICK p \in Addresses : submission[p].do \in {"signed up", "proposed"} /\ submission[p].id = id BY <1>1, <2>2
    <3> QED BY <3>1 DEF AccountsSound, SigningUp, Entering, U!Exists
  <2> QED BY <2>1, <2>2
<1>6. \A j \in AccountIds : U!Exists(j)' <=> U!Exists(j) BY <1>1, <1>3, <1>5 DEF U!Exists
<1>7. \A j \in AccountIds : user'[j].mail = user[j].mail /\ user'[j].vouched = user[j].vouched BY <1>3
<1>8. /\ \A q \in Addresses : Filling(q)' => Filling(q) /\ submission'[q] = submission[q]
      /\ \A q \in Addresses : Starting(q)' => Starting(q) /\ submission'[q] = submission[q]
      /\ \A q \in Addresses : submission[q].do \notin {"signed up", "proposed"} => submission'[q] = submission[q]
  BY <1>1, <1>4 DEF Filling, Starting, Loads, AccountsSound, AccountsTyped
<1>9. \A q \in Addresses : Entering(q)' => Entering(q) /\ submission'[q] = submission[q] /\ submission[q].id # id
  <2> SUFFICES ASSUME NEW q \in Addresses, Entering(q)' PROVE Entering(q) /\ submission'[q] = submission[q] /\ submission[q].id # id
    OBVIOUS
  <2>1. submission'[q] = submission[q] /\ Entering(q) BY <1>4 DEF Entering
  <2>2. CASE state = "citizen" BY <1>1, <2>1, <2>2 DEF AccountsSound, SigningUp
  <2>3. CASE state = "candidate"
    <3>1. PICK p \in Addresses, new \in Submissions :
                 /\ submission[p].do \in {"signed up", "proposed"} /\ submission[p].id = id
                 /\ new.do \in {"rest", "vouching"} /\ submission' = [submission EXCEPT ![p] = new]
      BY <1>1, <2>3
    <3>2. q # p BY <3>1 DEF Entering, AccountsSound, AccountsTyped
    <3>3. Entering(p) BY <3>1 DEF Entering
    <3> QED BY <2>1, <3>1, <3>2, <3>3 DEF AccountsSound, SigningUp
  <2> QED BY <2>2, <2>3
<1>10. accepted' \subseteq AccountIds /\ accountsLeft' \in [Spendable -> Nat] BY <1>1 DEF AccountsSound, AccountsTyped
<1>11. AccountsTyped' BY <1>2, <1>3, <1>4, <1>10 DEF AccountsSound, AccountsTyped
<1>12. AccountsExist'
  <2>1. \A q \in Addresses : Filling(q)' =>
          /\ user'[submission'[q].id].state # "none" /\ submission'[q].user.state # "none"
          /\ submission'[q].user.mail \in Addresses /\ submission'[q].user.vouched = user'[submission'[q].id].vouched
    <3> SUFFICES ASSUME NEW q \in Addresses, Filling(q)'
                 PROVE  /\ user'[submission'[q].id].state # "none" /\ submission'[q].user.state # "none"
                        /\ submission'[q].user.mail \in Addresses
                        /\ submission'[q].user.vouched = user'[submission'[q].id].vouched
      OBVIOUS
    <3>1. Filling(q) /\ submission'[q] = submission[q] BY <1>8
    <3>2. submission[q].id \in AccountIds BY <3>1, SubmissionIs DEF AccountsSound, Fillings
    <3> QED BY <1>6, <1>7, <3>1, <3>2 DEF AccountsSound, AccountsExist, U!Exists
  <2>2. \A j \in accepted' : U!Exists(j)' BY <1>1, <1>5, <1>6 DEF AccountsSound, AccountsExist, AccountsTyped
  <2>3. \A r \in addresses' : U!Exists(r.of)' BY <1>2, <1>6 DEF AccountsSound, AccountsExist, AccountsTyped, Rows
  <2> QED BY <1>6, <1>7, <2>1, <2>2, <2>3 DEF AccountsSound, AccountsExist, U!Exists
<1>13. LookedBefore'
  BY <1>2, <1>6, <1>7, <1>8 DEF AccountsSound, LookedBefore, U!Holds, U!Exists
<1>14. VerifiedRows' BY <1>2, <1>7 DEF AccountsSound, VerifiedRows, AccountsTyped, Rows
<1>15. SigningUp'
  <2> SUFFICES ASSUME NEW q \in Addresses, Entering(q)'
               PROVE  /\ user'[submission'[q].id].state = "active" /\ submission'[q].id \notin accepted'
                      /\ \A x \in Addresses \ {q} : Entering(x)' => submission'[x].id # submission'[q].id
                      /\ \A x \in Addresses : Filling(x)' /\ submission'[x].id = submission'[q].id
                                        => submission'[x].user.state = "active"
    BY DEF SigningUp
  <2>1. Entering(q) /\ submission'[q] = submission[q] /\ submission[q].id # id BY <1>9
  <2>2. submission[q].id \in AccountIds BY <2>1, SubmissionIs DEF AccountsSound, Mailings
  <2>3. user'[submission[q].id].state = "active" /\ submission[q].id \notin accepted'
    BY <1>1, <1>3, <2>1, <2>2 DEF AccountsSound, SigningUp
  <2>4. \A x \in Addresses \ {q} : Entering(x)' => submission'[x].id # submission'[q].id
    BY <1>9, <2>1 DEF AccountsSound, SigningUp
  <2>5. \A x \in Addresses : Filling(x)' /\ submission'[x].id = submission'[q].id => submission'[x].user.state = "active"
    BY <1>8, <2>1 DEF AccountsSound, SigningUp
  <2> QED BY <2>1, <2>3, <2>4, <2>5
<1>16. CanConfirm'
  <2> SUFFICES ASSUME NEW j \in AccountIds \ (unsent \cup overwritten), user'[j].state \in {"active", "candidate"}, ~user'[j].vouched
               PROVE  \/ U!Verified(j, user[j].mail)'
                      \/ (<<"confirm", j, user'[j].mail>> \in links' \/ MailIsDue(j)') /\ HasRow(j)'
    BY <1>2 DEF CanConfirm
  <2>1. user[j].state \in {"active", "candidate"}
    <3>1. CASE j # id BY <1>3, <3>1
    <3>2. CASE j = id
      <4>1. state = "candidate" BY <1>3, <3>2
      <4>2. PICK p \in Addresses : submission[p].do \in {"signed up", "proposed"} /\ submission[p].id = id BY <1>1, <4>1
      <4> QED BY <3>2, <4>2 DEF AccountsSound, SigningUp, Entering
    <3> QED BY <3>1, <3>2
  <2>2. U!Verified(j, user[j].mail) \/ ((<<"confirm", j, user[j].mail>> \in links \/ MailIsDue(j)) /\ HasRow(j))
    BY <1>7, <2>1 DEF AccountsSound, CanConfirm
  <2>3. U!Verified(j, user[j].mail) => U!Verified(j, user[j].mail)' BY <1>2, <1>7 DEF U!Verified
  <2>4. HasRow(j) => HasRow(j)' BY <1>2, <1>7 DEF HasRow
  <2>5. MailIsDue(j) => MailIsDue(j)' BY <1>8 DEF MailIsDue
  <2> QED BY <1>2, <1>7, <2>2, <2>3, <2>4, <2>5
<1>17. LetIn'
  <2>1. state = "candidate" => id \notin accepted
    <3> SUFFICES ASSUME state = "candidate" PROVE id \notin accepted OBVIOUS
    <3>1. PICK p \in Addresses : submission[p].do \in {"signed up", "proposed"} /\ submission[p].id = id BY <1>1
    <3> QED BY <3>1 DEF AccountsSound, SigningUp, Entering
  <2> QED BY <1>1, <1>2, <1>3, <2>1 DEF AccountsSound, LetIn, AccountsTyped
<1>18. FormsStored'
  <2>1. \A j \in AccountIds : FormIsDue(j) => FormIsDue(j)' BY <1>8 DEF FormIsDue
  <2>2. \A q \in Addresses : submission'[q].do = "confirmed" => submission'[q] = submission[q] BY <1>4
  <2> QED BY <1>2, <2>1, <2>2 DEF AccountsSound, FormsStored
<1> QED BY <1>11, <1>12, <1>13, <1>14, <1>15, <1>16, <1>17, <1>18 DEF AccountsSound

-----------------------------------------------------------------------------
(* Confirming an address                                                   *)

LEMMA OpenLinkKeeps ==
    ASSUME AccountsSound, NEW p \in Addresses, U!OpenLink(p)
    PROVE  AccountsSound'
<1>1. PICK id \in AccountIds :
        /\ \E r \in addresses : r.of = id /\ r.address = p /\ ~r.verified /\ ~r.upper
        /\ U!Confirmed(id, p)
        /\ submission' = [submission EXCEPT ![p] = IF profile[id].status # "email_entered" THEN U!Rest
                             ELSE [do |-> "confirmed", id |-> id, loaded |-> profile[id]]]
  BY DEF U!OpenLink, U!Becomes
<1>2. /\ submission[p] = U!Rest /\ submission[p].do = "rest"
      /\ UNCHANGED <<profile, links, answered, overwritten, accepted, unsent, accountsLeft>>
  BY DEF U!OpenLink, U!Rest
<1>3. U!Exists(id) BY <1>1 DEF AccountsSound, AccountsExist
<1> DEFINE new == IF profile[id].status # "email_entered" THEN U!Rest ELSE [do |-> "confirmed", id |-> id, loaded |-> profile[id]]
<1>4. /\ new \in Submissions /\ new.do \in {"rest", "confirmed"}
      /\ new.do = "confirmed" => new.loaded.status = "email_entered"
  <2>1. CASE profile[id].status # "email_entered" BY <2>1 DEF Submissions, U!Rest
  <2>2. CASE profile[id].status = "email_entered"
    <3>1. new = [do |-> "confirmed", id |-> id, loaded |-> profile[id]] BY <2>2
    <3>2. profile[id] \in Profiles BY DEF AccountsSound, AccountsTyped
    <3> QED BY <2>2, <3>1, <3>2 DEF Submissions, Confirmings
  <2> QED BY <2>1, <2>2
<1>5. submission' = [submission EXCEPT ![p] = new] BY <1>1
<1> HIDE DEF new
<1>6. /\ submission' \in [Addresses -> Submissions]
      /\ \A q \in Addresses : submission'[q] = IF q = p THEN new ELSE submission[q]
  BY <1>4, <1>5 DEF AccountsSound, AccountsTyped
<1>7. /\ \A q \in Addresses : Filling(q)' <=> Filling(q)
      /\ \A q \in Addresses : Entering(q)' <=> Entering(q)
      /\ \A q \in Addresses : Starting(q)' <=> Starting(q)
      /\ \A q \in Addresses : Filling(q) \/ Entering(q) \/ Starting(q) => submission'[q] = submission[q]
  BY <1>2, <1>4, <1>6 DEF Filling, Entering, Starting, Loads
<1>8. /\ user' \in [AccountIds -> Users] /\ \A j \in AccountIds \ {id} : user'[j] = user[j]
      /\ user'[id].mail = p /\ user'[id].state = user[id].state /\ user'[id].vouched = user[id].vouched
  <2>1. CASE user[id].mail = p BY <1>1, <2>1 DEF U!Confirmed, AccountsSound, AccountsTyped
  <2>2. CASE user[id].mail # p
    <3>1. user' = [user EXCEPT ![id].mail = p] BY <1>1, <2>2 DEF U!Confirmed
    <3> QED BY <3>1 DEF AccountsSound, AccountsTyped, Users
  <2> QED BY <2>1, <2>2
<1>9. /\ changes' \in Nat /\ changes <= changes' /\ since' \in [AccountIds -> Nat]
      /\ \A j \in AccountIds \ {id} : since'[j] = since[j]
      /\ IF user[id].mail = p THEN since'[id] = since[id] ELSE since'[id] = changes + 1
  BY <1>1 DEF U!Confirmed, U!Moved, AccountsSound, AccountsTyped
<1>10. /\ checked' = checked /\ opened' = opened \cup {<<id, p>>}
       /\ addresses' = {r \in addresses : r.of # id} \cup {U!Row(id, p, TRUE, TRUE)}
  BY <1>1 DEF U!Confirmed
<1>11. /\ addresses' \subseteq Rows /\ IsFiniteSet(addresses')
       /\ \A r \in addresses' : (r \in addresses /\ r.of # id) \/ r = U!Row(id, p, TRUE, TRUE)
       /\ \A r \in addresses : r.of # id => r \in addresses'
       /\ U!Row(id, p, TRUE, TRUE) \in addresses'
       /\ LET r == U!Row(id, p, TRUE, TRUE) IN r.of = id /\ r.address = p /\ r.verified /\ ~r.upper
  <2>1. IsFiniteSet({r \in addresses : r.of # id})
    BY FS_Subset DEF AccountsSound, AccountsTyped
  <2>2. U!Row(id, p, TRUE, TRUE) \in Rows BY DEF U!Row, Rows
  <2> QED BY <1>10, <2>1, <2>2, FS_AddElement DEF AccountsSound, AccountsTyped, U!Row
<1>12. \A j \in AccountIds : U!Exists(j)' <=> U!Exists(j) BY <1>8 DEF U!Exists
<1>13. AccountsTyped' BY <1>2, <1>6, <1>8, <1>9, <1>10, <1>11 DEF AccountsSound, AccountsTyped
<1>14. AccountsExist'
  <2>1. \A q \in Addresses : Filling(q)' =>
          /\ user'[submission'[q].id].state # "none" /\ submission'[q].user.state # "none"
          /\ submission'[q].user.mail \in Addresses /\ submission'[q].user.vouched = user'[submission'[q].id].vouched
    <3> SUFFICES ASSUME NEW q \in Addresses, Filling(q)
                 PROVE  /\ user'[submission[q].id].state # "none" /\ submission[q].user.state # "none"
                        /\ submission[q].user.mail \in Addresses
                        /\ submission[q].user.vouched = user'[submission[q].id].vouched
      BY <1>7
    <3>2. submission[q].id \in AccountIds BY SubmissionIs DEF AccountsSound, Fillings
    <3> QED BY <1>8, <3>2 DEF AccountsSound, AccountsExist, U!Exists
  <2>2. \A j \in accepted' : U!Exists(j)' BY <1>2, <1>12 DEF AccountsSound, AccountsExist, AccountsTyped
  <2>3. \A r \in addresses' : U!Exists(r.of)' BY <1>3, <1>11, <1>12 DEF AccountsSound, AccountsExist, AccountsTyped, Rows
  <2>4. \A j \in AccountIds : U!Exists(j)' => user'[j].mail \in Addresses BY <1>8, <1>12 DEF AccountsSound, AccountsExist
  <2> QED BY <2>1, <2>2, <2>3, <2>4 DEF AccountsExist, U!Exists
<1>15. LookedBefore'
  <2>0. \A i \in AccountIds, a \in Addresses : checked[i][a] \in Nat /\ checked[i][a] <= changes
    BY DEF AccountsSound, LookedBefore, AccountsTyped
  <2>1. \A i \in AccountIds, a \in Addresses : checked'[i][a] <= changes'
    BY <1>9, <1>10, <2>0 DEF AccountsSound, AccountsTyped
  <2>2. ASSUME NEW i \in AccountIds, NEW j \in AccountIds, i # j, U!Exists(j)'
        PROVE  checked'[i][user'[j].mail] < since'[j]
    <3>1. checked[i][user[j].mail] < since[j] BY <1>12, <2>2 DEF AccountsSound, LookedBefore
    <3>2. CASE j = id /\ user[id].mail # p
      <4>1. since'[j] = changes + 1 /\ user'[j].mail = p BY <1>8, <1>9, <3>2
      <4> QED BY <1>10, <2>0, <4>1 DEF AccountsSound, AccountsTyped
    <3>3. CASE ~(j = id /\ user[id].mail # p)
      <4>1. since'[j] = since[j] /\ user'[j].mail = user[j].mail BY <1>8, <1>9, <3>3
      <4> QED BY <1>10, <3>1, <4>1
    <3> QED BY <3>2, <3>3
  <2>3. ASSUME NEW q \in Addresses, Starting(q)'
        PROVE  /\ submission'[q].at <= changes'
               /\ \A j \in AccountIds : U!Exists(j)' /\ user'[j].mail = submission'[q].address => submission'[q].at < since'[j]
    <3>1. Starting(q) /\ submission'[q] = submission[q] BY <1>7, <2>3
    <3>2. /\ submission[q].at \in Nat /\ submission[q].at <= changes /\ changes \in Nat
          /\ \A j \in AccountIds : U!Exists(j) /\ user[j].mail = submission[q].address => submission[q].at < since[j]
      BY <3>1, SubmissionIs DEF AccountsSound, AccountsTyped, LookedBefore, Starts, U!Holds
    <3>3. ASSUME NEW j \in AccountIds, U!Exists(j)', user'[j].mail = submission[q].address
          PROVE  submission[q].at < since'[j]
      <4>1. CASE j = id /\ user[id].mail # p BY <1>9, <3>2, <4>1
      <4>2. CASE ~(j = id /\ user[id].mail # p) BY <1>8, <1>9, <1>12, <3>2, <3>3, <4>2
      <4> QED BY <4>1, <4>2
    <3> QED BY <1>9, <3>1, <3>2, <3>3
  <2> QED BY <2>1, <2>2, <2>3 DEF LookedBefore, U!Holds
<1>16. VerifiedRows'
  <2> SUFFICES ASSUME NEW r \in addresses', r.verified
               PROVE  /\ user'[r.of].vouched \/ <<r.of, r.address>> \in opened'
                      /\ r.of \in overwritten \/ r.address = user'[r.of].mail
    BY <1>2 DEF VerifiedRows
  <2>1. CASE r \in addresses /\ r.of # id
    <3>1. r.of \in AccountIds \ {id} BY <2>1 DEF AccountsSound, AccountsTyped, Rows
    <3> QED BY <1>8, <1>10, <2>1, <3>1 DEF AccountsSound, VerifiedRows
  <2>2. CASE r = U!Row(id, p, TRUE, TRUE) BY <1>8, <1>10, <1>11, <2>2
  <2> QED BY <1>11, <2>1, <2>2
<1>17. SigningUp'
  <2>1. \A j \in AccountIds : user'[j].state = user[j].state BY <1>8
  <2>2. \A q \in Addresses : Entering(q) => submission[q].id \in AccountIds BY SubmissionIs DEF AccountsSound, Mailings
  <2> SUFFICES ASSUME NEW q \in Addresses, Entering(q)'
               PROVE  /\ user'[submission'[q].id].state = "active" /\ submission'[q].id \notin accepted'
                      /\ \A x \in Addresses \ {q} : Entering(x)' => submission'[x].id # submission'[q].id
                      /\ \A x \in Addresses : Filling(x)' /\ submission'[x].id = submission'[q].id
                                        => submission'[x].user.state = "active"
    BY DEF SigningUp
  <2>3. Entering(q) /\ submission'[q] = submission[q] BY <1>7
  <2>4. user[submission[q].id].state = "active" /\ submission[q].id \notin accepted BY <2>3 DEF AccountsSound, SigningUp
  <2>5. \A x \in Addresses \ {q} : Entering(x)' => submission'[x].id # submission'[q].id
    BY <1>7, <2>3 DEF AccountsSound, SigningUp
  <2>6. \A x \in Addresses : Filling(x)' /\ submission'[x].id = submission'[q].id => submission'[x].user.state = "active"
    BY <1>7, <2>3 DEF AccountsSound, SigningUp
  <2> QED BY <1>2, <2>1, <2>2, <2>3, <2>4, <2>5, <2>6
<1>18. CanConfirm'
  <2> SUFFICES ASSUME NEW j \in AccountIds \ (unsent \cup overwritten), user'[j].state \in {"active", "candidate"}, ~user'[j].vouched
               PROVE  \/ U!Verified(j, user[j].mail)'
                      \/ (<<"confirm", j, user'[j].mail>> \in links' \/ MailIsDue(j)') /\ HasRow(j)'
    BY <1>2 DEF CanConfirm
  <2>1. CASE j = id BY <1>8, <1>11, <2>1 DEF U!Verified
  <2>2. CASE j # id
    <3>1. user'[j] = user[j] BY <1>8, <2>2
    <3>2. U!Verified(j, user[j].mail) \/ ((<<"confirm", j, user[j].mail>> \in links \/ MailIsDue(j)) /\ HasRow(j))
      BY <3>1 DEF AccountsSound, CanConfirm
    <3>3. U!Verified(j, user[j].mail) => U!Verified(j, user[j].mail)' BY <1>11, <2>2, <3>1 DEF U!Verified
    <3>4. HasRow(j) => HasRow(j)' BY <1>11, <2>2, <3>1 DEF HasRow
    <3>5. MailIsDue(j) => MailIsDue(j)' BY <1>2, <1>6 DEF MailIsDue
    <3> QED BY <1>2, <3>1, <3>2, <3>3, <3>4, <3>5
  <2> QED BY <2>1, <2>2
<1>19. LetIn' BY <1>2, <1>8 DEF AccountsSound, LetIn, AccountsTyped
<1>20. FormsStored'
  <2>1. \A j \in AccountIds : FormIsDue(j) => FormIsDue(j)' BY <1>2, <1>6 DEF FormIsDue
  <2>2. \A q \in Addresses : submission'[q].do = "confirmed" => submission'[q].loaded.status = "email_entered"
    BY <1>4, <1>6 DEF AccountsSound, FormsStored
  <2> QED BY <1>2, <2>1, <2>2 DEF AccountsSound, FormsStored
<1> QED BY <1>13, <1>14, <1>15, <1>16, <1>17, <1>18, <1>19, <1>20 DEF AccountsSound

-----------------------------------------------------------------------------
(* Saving the profile and the account                                      *)

LEMMA ProfileSaved ==
    ASSUME AccountsSound, NEW id \in AccountIds, NEW old \in Profiles, NEW stored \in Profiles, U!Save(id, old, stored)
    PROVE  /\ profile' \in [AccountIds -> Profiles] /\ overwritten \subseteq overwritten'
           /\ profile'[id] = stored /\ \A j \in AccountIds \ {id} : profile'[j] = profile[j]
           /\ id \notin overwritten' => profile[id] = old
BY DEF U!Save, AccountsSound, AccountsTyped

LEMMA ConfirmingKeeps ==
    ASSUME AccountsSound, NEW p \in Addresses, U!set_onboarding_email_confirmed(p)
    PROVE  AccountsSound'
<1> DEFINE id == submission[p].id
           old == submission[p].loaded
           stored == [old EXCEPT !.status = "email_confirmed"]
<1>1. /\ submission[p].do = "confirmed" /\ U!Save(id, old, stored)
      /\ submission' = [submission EXCEPT ![p] = U!Rest] /\ links \subseteq links'
      /\ UNCHANGED <<user, addresses, changes, since, checked, answered, opened, accepted, unsent, accountsLeft>>
  BY DEF U!set_onboarding_email_confirmed, U!Becomes, U!times
<1>2. id \in AccountIds /\ old \in Profiles BY <1>1, SubmissionIs DEF AccountsSound, Confirmings
<1>3. stored \in Profiles /\ stored.form = old.form BY <1>2 DEF Profiles
<1> HIDE DEF stored
<1>4. /\ profile' \in [AccountIds -> Profiles] /\ overwritten \subseteq overwritten'
      /\ profile'[id] = stored /\ \A j \in AccountIds \ {id} : profile'[j] = profile[j]
      /\ id \notin overwritten' => profile[id] = old
  BY <1>1, <1>2, <1>3, ProfileSaved
<1> HIDE DEF id, old
<1>5. U!Rest \in Submissions /\ U!Rest.do = "rest" BY DEF Submissions, U!Rest
<1>6. /\ AccountsTyped' /\ AccountsExist' /\ LookedBefore' /\ VerifiedRows'
      /\ SigningUp' /\ CanConfirm' /\ LetIn'
  <2>1. answered' \in [AccountIds -> Given] /\ accountsLeft' \in [Spendable -> Nat] BY <1>1 DEF AccountsSound, AccountsTyped
  <2>2. U!Rest.do \notin Loads BY <1>5 DEF Loads
  <2> QED BY <1>1, <1>4, <1>5, <2>1, <2>2, RequestKeeps
<1>7. FormsStored'
  <2>1. \A q \in Addresses : submission'[q] = IF q = p THEN U!Rest ELSE submission[q]
    BY <1>1 DEF AccountsSound, AccountsTyped
  <2>2. \A j \in AccountIds : FormIsDue(j) => FormIsDue(j)' BY <1>1, <2>1 DEF FormIsDue
  <2>3. old.status = "email_entered" BY <1>1 DEF AccountsSound, FormsStored, old
  <2>4. \A j \in AccountIds \ overwritten : /\ profile[j].form = answered[j].form
                                     /\ answered[j].own => profile[j].status = "form_completed" \/ FormIsDue(j)
    BY DEF AccountsSound, FormsStored
  <2>5. ASSUME NEW j \in AccountIds \ overwritten'
        PROVE  /\ profile'[j].form = answered'[j].form
               /\ answered'[j].own => profile'[j].status = "form_completed" \/ FormIsDue(j)'
    <3>1. j \in AccountIds \ overwritten BY <1>4, <2>5
    <3>2. /\ profile[j].form = answered[j].form
          /\ answered[j].own => profile[j].status = "form_completed" \/ FormIsDue(j)
      BY <3>1 DEF AccountsSound, FormsStored
    <3>3. FormIsDue(j) => FormIsDue(j)' BY <2>2, <3>1
    <3>4. answered'[j] = answered[j] BY <1>1
    <3>5. CASE j = id
      <4>1. profile'[j] = stored /\ profile[j] = old BY <1>4, <2>5, <3>5
      <4> QED BY <1>3, <2>3, <3>2, <3>3, <3>4, <4>1
    <3>6. CASE j # id
      <4>1. profile'[j] = profile[j] BY <1>4, <3>1, <3>6
      <4> QED BY <3>2, <3>3, <3>4, <4>1
    <3> QED BY <3>5, <3>6
  <2>6. \A q \in Addresses : submission'[q].do = "confirmed" => submission'[q].loaded.status = "email_entered"
    BY <1>5, <2>1 DEF AccountsSound, FormsStored
  <2> QED BY <2>5, <2>6 DEF FormsStored
<1> QED BY <1>6, <1>7 DEF AccountsSound

LEMMA VouchingKeeps ==
    ASSUME AccountsSound, NEW p \in Addresses, U!SaveCandidateProfile(p)
    PROVE  AccountsSound'
<1> DEFINE id == submission[p].id
           stored == [U!NoProfile EXCEPT !.polecajacy = TRUE]
           new == [submission[p] EXCEPT !.do = "entering"]
<1>1. /\ submission[p].do = "vouching" /\ U!Save(id, U!NoProfile, stored)
      /\ submission' = [submission EXCEPT ![p] = new] /\ answered' = [answered EXCEPT ![id].form = 0]
      /\ UNCHANGED <<user, addresses, links, changes, since, checked, opened, accepted, unsent, accountsLeft>>
  BY DEF U!SaveCandidateProfile, U!Becomes, U!times, U!NoProfile
<1>2. submission[p] \in Proposings /\ id \in AccountIds
  <2>1. submission[p] \in Proposings BY <1>1, SubmissionIs DEF AccountsSound, Proposing
  <2> QED BY <2>1 DEF Proposings
<1>3. /\ U!NoProfile \in Profiles /\ stored \in Profiles /\ stored.form = 0
      /\ U!NoProfile.status = "email_entered"
  BY DEF Profiles, U!NoProfile
<1>4. new \in Proposings /\ new.do = "entering" BY <1>2 DEF Proposings
<1>5. new \in Submissions BY <1>4 DEF Submissions
<1> HIDE DEF stored, new
<1>6. /\ profile' \in [AccountIds -> Profiles] /\ overwritten \subseteq overwritten'
      /\ profile'[id] = stored /\ \A j \in AccountIds \ {id} : profile'[j] = profile[j]
      /\ id \notin overwritten' => profile[id] = U!NoProfile
  BY <1>1, <1>2, <1>3, ProfileSaved
<1> HIDE DEF id
<1>7. /\ answered' \in [AccountIds -> Given] /\ \A j \in AccountIds \ {id} : answered'[j] = answered[j]
      /\ answered'[id].form = 0 /\ answered'[id].own = answered[id].own
  <2>1. answered \in [AccountIds -> Given] /\ answered[id] \in Given BY <1>2 DEF AccountsSound, AccountsTyped
  <2>2. [answered[id] EXCEPT !.form = 0] \in Given BY <2>1 DEF Given
  <2>3. answered'[id] = [answered[id] EXCEPT !.form = 0] BY <1>1, <1>2, <2>1
  <2>4. answered'[id].form = 0 /\ answered'[id].own = answered[id].own BY <2>1, <2>3 DEF Given
  <2> QED BY <1>1, <1>2, <2>1, <2>2, <2>4
<1>8. /\ AccountsTyped' /\ AccountsExist' /\ LookedBefore' /\ VerifiedRows'
      /\ SigningUp' /\ CanConfirm' /\ LetIn'
  <2>1. accountsLeft' \in [Spendable -> Nat] BY <1>1 DEF AccountsSound, AccountsTyped
  <2>2. new.do \notin Loads \cup {"confirmed", "signup", "propose", "mail", "signed up", "proposed"} BY <1>4 DEF Loads
  <2> QED BY <1>1, <1>5, <1>6, <1>7, <2>1, <2>2, RequestKeeps
<1>9. FormsStored'
  <2>1. \A q \in Addresses : submission'[q] = IF q = p THEN new ELSE submission[q]
    BY <1>1 DEF AccountsSound, AccountsTyped
  <2>2. \A j \in AccountIds : FormIsDue(j) => FormIsDue(j)' BY <1>1, <2>1 DEF FormIsDue
  <2>3. ASSUME NEW j \in AccountIds \ overwritten'
        PROVE  /\ profile'[j].form = answered'[j].form
               /\ answered'[j].own => profile'[j].status = "form_completed" \/ FormIsDue(j)'
    <3>1. /\ profile[j].form = answered[j].form
          /\ answered[j].own => profile[j].status = "form_completed" \/ FormIsDue(j)
      BY <1>6, <2>3 DEF AccountsSound, FormsStored
    <3>2. CASE j = id BY <1>3, <1>6, <1>7, <2>2, <2>3, <3>1, <3>2
    <3>3. CASE j # id
      <4>1. profile'[j] = profile[j] /\ answered'[j] = answered[j] BY <1>6, <1>7, <3>3
      <4> QED BY <2>2, <3>1, <4>1
    <3> QED BY <3>2, <3>3
  <2>4. \A q \in Addresses : submission'[q].do = "confirmed" => submission'[q].loaded.status = "email_entered"
    BY <1>4, <2>1 DEF AccountsSound, FormsStored
  <2> QED BY <2>3, <2>4 DEF FormsStored
<1> QED BY <1>8, <1>9 DEF AccountsSound

LEMMA EnteringKeeps ==
    ASSUME AccountsSound, VouchedFor, NEW p \in Addresses, U!EnterAddress(p)
    PROVE  AccountsSound'
<1> DEFINE id == submission[p].id
           a == submission[p].address
           new == U!Row(id, a, TRUE, TRUE)
<1>1. /\ submission[p].do = "entering" /\ submission' = [submission EXCEPT ![p] = U!Rest]
      /\ addresses' = addresses \/ (~U!Refused(id, a) /\ addresses' = addresses \cup {new})
      /\ UNCHANGED <<user, profile, links, changes, since, checked, answered, opened, overwritten, accepted, unsent, accountsLeft>>
  BY DEF U!EnterAddress, U!Becomes, U!times
<1>2. Proposing(p) /\ id \in AccountIds /\ a \in Addresses
  <2>1. Proposing(p) BY <1>1 DEF Proposing
  <2>2. submission[p] \in Proposings BY <2>1, SubmissionIs DEF AccountsSound
  <2> QED BY <2>1, <2>2 DEF Proposings
<1>3. Vouched(id) /\ (id \in overwritten \/ user[id].mail = a \/ HasPrimary(id)) BY <1>2 DEF VouchedFor
<1>4. new \in Rows /\ new.of = id /\ new.address = a BY <1>2 DEF U!Row, Rows
<1> HIDE DEF new, a, id
<1>5. /\ addresses \subseteq addresses' /\ addresses' \subseteq Rows /\ IsFiniteSet(addresses')
      /\ \A r \in addresses' \ addresses : r.of = id /\ (id \in overwritten \/ r.address = user[id].mail)
  <2>0. IsFiniteSet(addresses) BY DEF AccountsSound, AccountsTyped
  <2>1. IsFiniteSet(addresses')
    <3>1. IsFiniteSet(addresses \cup {new}) BY <2>0, FS_AddElement
    <3> QED BY <1>1, <2>0, <3>1
  <2>2. ~U!Refused(id, a) => ~HasPrimary(id) BY DEF U!Refused, HasPrimary
  <2>3. addresses \subseteq Rows BY DEF AccountsSound, AccountsTyped
  <2>4. CASE addresses' = addresses BY <2>1, <2>3, <2>4
  <2>5. CASE ~U!Refused(id, a) /\ addresses' = addresses \cup {new}
    <3>1. id \in overwritten \/ user[id].mail = a BY <1>3, <2>2, <2>5
    <3> QED BY <1>4, <2>1, <2>3, <2>5, <3>1
  <2> QED BY <1>1, <2>4, <2>5
<1>6. /\ submission' \in [Addresses -> Submissions]
      /\ \A q \in Addresses : submission'[q] = submission[q] \/ (q = p /\ submission'[q].do = "rest")
  <2>1. U!Rest \in Submissions /\ U!Rest.do = "rest" BY DEF Submissions, U!Rest
  <2> QED BY <1>1, <2>1 DEF AccountsSound, AccountsTyped
<1>7. /\ \A q \in Addresses : Filling(q)' => Filling(q) /\ submission'[q] = submission[q]
      /\ \A q \in Addresses : Starting(q)' => Starting(q) /\ submission'[q] = submission[q]
      /\ \A q \in Addresses : Entering(q)' => Entering(q) /\ submission'[q] = submission[q]
  BY <1>6 DEF Filling, Starting, Entering, Loads
<1>8. AccountsTyped' BY <1>1, <1>5, <1>6 DEF AccountsSound, AccountsTyped
<1>9. AccountsExist'
  <2>1. \A r \in addresses' : user'[r.of].state # "none"
    BY <1>1, <1>3, <1>5 DEF AccountsSound, AccountsExist, U!Exists, Vouched
  <2> QED BY <1>1, <1>7, <2>1 DEF AccountsSound, AccountsExist, U!Exists
<1>10. LookedBefore' BY <1>1, <1>7 DEF AccountsSound, LookedBefore, U!Exists, U!Holds
<1>11. VerifiedRows' BY <1>1, <1>3, <1>5 DEF AccountsSound, VerifiedRows, Vouched
<1>12. SigningUp' BY <1>1, <1>7 DEF AccountsSound, SigningUp
<1>13. CanConfirm'
  <2> SUFFICES ASSUME NEW j \in AccountIds \ (unsent \cup overwritten), user[j].state \in {"active", "candidate"}, ~user[j].vouched
               PROVE  \/ U!Verified(j, user[j].mail)'
                      \/ (<<"confirm", j, user[j].mail>> \in links \/ MailIsDue(j)') /\ HasRow(j)'
    BY <1>1 DEF CanConfirm
  <2>1. U!Verified(j, user[j].mail) \/ ((<<"confirm", j, user[j].mail>> \in links \/ MailIsDue(j)) /\ HasRow(j))
    BY DEF AccountsSound, CanConfirm
  <2>2. U!Verified(j, user[j].mail) => U!Verified(j, user[j].mail)' BY <1>1, <1>5 DEF U!Verified
  <2>3. HasRow(j) => HasRow(j)' BY <1>1, <1>5 DEF HasRow
  <2>4. MailIsDue(j) => MailIsDue(j)' BY <1>1, <1>6 DEF MailIsDue
  <2> QED BY <2>1, <2>2, <2>3, <2>4
<1>14. LetIn' BY <1>1 DEF AccountsSound, LetIn
<1>15. FormsStored'
  <2>1. \A j \in AccountIds : FormIsDue(j) => FormIsDue(j)' BY <1>1, <1>6 DEF FormIsDue
  <2>2. \A q \in Addresses : submission'[q].do = "confirmed" => submission'[q] = submission[q] BY <1>6
  <2> QED BY <1>1, <2>1, <2>2 DEF AccountsSound, FormsStored
<1> QED BY <1>8, <1>9, <1>10, <1>11, <1>12, <1>13, <1>14, <1>15 DEF AccountsSound

LEMMA FillingInKeeps ==
    ASSUME AccountsSound, NEW p \in Addresses, U!SaveForm(p) \/ U!SaveStatus(p) \/ U!SaveEdit(p)
    PROVE  AccountsSound'
<1>0. PICK r, id : r = submission[p] /\ id = r.id OBVIOUS
<1>1. r.do \in {"form", "status", "edit"} BY <1>0 DEF U!SaveForm, U!SaveStatus, U!SaveEdit
<1>2. r \in Fillings /\ id \in AccountIds /\ r.loaded \in Profiles /\ r.form \in Nat /\ r.user \in Users /\ Filling(p)
  <2>1. Filling(p) BY <1>0, <1>1 DEF Filling, Loads
  <2>2. r \in Fillings BY <1>0, <2>1, SubmissionIs DEF AccountsSound
  <2> QED BY <1>0, <2>1, <2>2 DEF Fillings
<1>3. /\ UNCHANGED <<user, addresses, links, changes, since, checked, opened, accepted, unsent, accountsLeft>>
  BY DEF U!SaveForm, U!SaveStatus, U!SaveEdit, U!times
<1>4. PICK stored \in Profiles, new \in Submissions :
        /\ U!Save(id, r.loaded, stored) /\ submission' = [submission EXCEPT ![p] = new]
        /\ new = U!Rest \/ (new.do = "account" /\ new.id = id /\ new.user = r.user)
        /\ \/ r.do = "form" /\ new.do = "account" /\ stored.form = r.form
              /\ answered' = [answered EXCEPT ![id] = [form |-> r.form, own |-> TRUE]]
           \/ r.do = "status" /\ stored.form = r.loaded.form /\ stored.status = "form_completed" /\ answered' = answered
           \/ r.do = "edit" /\ stored.form = r.form /\ stored.status = r.loaded.status
              /\ answered' = [answered EXCEPT ![id].form = r.form]
  <2>0. U!Rest \in Submissions BY DEF Submissions
  <2>1. CASE U!SaveForm(p)
    <3> DEFINE stored == [r.loaded EXCEPT !.form = r.form]
               new == [r EXCEPT !.do = "account", !.loaded = stored]
    <3>1. r.do = "form" /\ U!Save(id, r.loaded, stored) /\ submission' = [submission EXCEPT ![p] = new]
          /\ answered' = [answered EXCEPT ![id] = [form |-> r.form, own |-> TRUE]]
      BY <1>0, <2>1 DEF U!SaveForm, U!Becomes
    <3>2. stored \in Profiles /\ stored.form = r.form BY <1>2 DEF Profiles
    <3> HIDE DEF stored
    <3>3. new \in Fillings /\ new.do = "account" /\ new.id = id /\ new.user = r.user
      BY <1>0, <1>2, <3>2 DEF Fillings, Loads
    <3>4. new \in Submissions BY <3>3 DEF Submissions
    <3> HIDE DEF new
    <3> QED BY <3>1, <3>2, <3>3, <3>4
  <2>2. CASE U!SaveStatus(p)
    <3> DEFINE stored == [r.loaded EXCEPT !.status = "form_completed"]
    <3>1. r.do = "status" /\ U!Save(id, r.loaded, stored) /\ submission' = [submission EXCEPT ![p] = U!Rest] /\ answered' = answered
      BY <1>0, <2>2 DEF U!SaveStatus, U!Becomes
    <3>2. stored \in Profiles /\ stored.form = r.loaded.form /\ stored.status = "form_completed" BY <1>2 DEF Profiles
    <3> HIDE DEF stored
    <3> QED BY <2>0, <3>1, <3>2
  <2>3. CASE U!SaveEdit(p)
    <3> DEFINE stored == [r.loaded EXCEPT !.form = r.form]
    <3>1. r.do = "edit" /\ U!Save(id, r.loaded, stored) /\ submission' = [submission EXCEPT ![p] = U!Rest]
          /\ answered' = [answered EXCEPT ![id].form = r.form]
      BY <1>0, <2>3 DEF U!SaveEdit, U!Becomes
    <3>2. stored \in Profiles /\ stored.form = r.form /\ stored.status = r.loaded.status BY <1>2 DEF Profiles
    <3> HIDE DEF stored
    <3> QED BY <2>0, <3>1, <3>2
  <2> QED BY <2>1, <2>2, <2>3
<1>5. /\ profile' \in [AccountIds -> Profiles] /\ overwritten \subseteq overwritten'
      /\ profile'[id] = stored /\ \A j \in AccountIds \ {id} : profile'[j] = profile[j]
      /\ id \notin overwritten' => profile[id] = r.loaded
  BY <1>2, <1>4, ProfileSaved
<1>6. /\ answered' \in [AccountIds -> Given] /\ \A j \in AccountIds \ {id} : answered'[j] = answered[j]
      /\ r.do = "form" => answered'[id].form = r.form
      /\ r.do = "status" => answered' = answered
      /\ r.do = "edit" => answered'[id].form = r.form /\ answered'[id].own = answered[id].own
  <2>1. answered \in [AccountIds -> Given] /\ answered[id] \in Given BY <1>2 DEF AccountsSound, AccountsTyped
  <2>2. CASE r.do = "form"
    <3>1. [form |-> r.form, own |-> TRUE] \in Given BY <1>2 DEF Given
    <3>2. answered' = [answered EXCEPT ![id] = [form |-> r.form, own |-> TRUE]] BY <1>4, <2>2
    <3> QED BY <1>2, <2>1, <2>2, <3>1, <3>2
  <2>3. CASE r.do = "status" BY <1>4, <2>1, <2>3
  <2>4. CASE r.do = "edit"
    <3>1. [answered[id] EXCEPT !.form = r.form] \in Given BY <1>2, <2>1 DEF Given
    <3>2. answered' = [answered EXCEPT ![id].form = r.form] BY <1>4, <2>4
    <3>3. answered'[id] = [answered[id] EXCEPT !.form = r.form] BY <1>2, <2>1, <3>2
    <3>4. answered'[id].form = r.form /\ answered'[id].own = answered[id].own BY <2>1, <3>3 DEF Given
    <3> QED BY <1>2, <2>1, <2>4, <3>1, <3>2, <3>4
  <2> QED BY <1>1, <2>2, <2>3, <2>4
<1>7. new.do \in {"rest", "account"}
  BY <1>4 DEF U!Rest
<1>8. /\ AccountsTyped' /\ AccountsExist' /\ LookedBefore' /\ VerifiedRows'
      /\ SigningUp' /\ CanConfirm' /\ LetIn'
  <2>1. accountsLeft' \in [Spendable -> Nat] BY <1>3 DEF AccountsSound, AccountsTyped
  <2>2. new.do \in Loads => Filling(p) /\ new.id = submission[p].id /\ new.user = submission[p].user
    BY <1>0, <1>2, <1>4 DEF Loads, U!Rest
  <2>3. r.do # "mail" /\ new.do \notin {"confirmed", "signup", "propose", "mail", "signed up", "proposed"} BY <1>1, <1>7
  <2> QED BY <1>0, <1>3, <1>4, <1>5, <1>6, <2>1, <2>2, <2>3, RequestKeeps
<1>9. FormsStored'
  <2>1. \A q \in Addresses : submission'[q] = IF q = p THEN new ELSE submission[q]
    BY <1>4 DEF AccountsSound, AccountsTyped
  <2>2. \A j \in AccountIds \ {id} : FormIsDue(j) => FormIsDue(j)' BY <1>0, <2>1 DEF FormIsDue
  <2>3. r.do = "form" => FormIsDue(id)'
    <3>1. r.do = "form" => new.do = "account" /\ new.id = id BY <1>4 DEF U!Rest
    <3> QED BY <2>1, <3>1 DEF FormIsDue
  <2>4. r.do = "edit" /\ FormIsDue(id) => FormIsDue(id)' BY <1>0, <2>1 DEF FormIsDue
  <2>5. \A j \in AccountIds \ overwritten : /\ profile[j].form = answered[j].form
                                     /\ answered[j].own => profile[j].status = "form_completed" \/ FormIsDue(j)
    BY DEF AccountsSound, FormsStored
  <2>6. ASSUME NEW j \in AccountIds \ overwritten'
        PROVE  /\ profile'[j].form = answered'[j].form
               /\ answered'[j].own => profile'[j].status = "form_completed" \/ FormIsDue(j)'
    <3>0. j \notin overwritten BY <1>5, <2>6
    <3>1. /\ profile[j].form = answered[j].form
          /\ answered[j].own => profile[j].status = "form_completed" \/ FormIsDue(j)
      BY <3>0 DEF AccountsSound, FormsStored
    <3>2. CASE j # id
      <4>1. profile'[j] = profile[j] /\ answered'[j] = answered[j] BY <1>5, <1>6, <3>2
      <4>2. FormIsDue(j) => FormIsDue(j)' BY <2>2, <3>2
      <4> QED BY <3>1, <4>1, <4>2
    <3>3. CASE j = id
      <4>1. profile'[j] = stored /\ profile[j] = r.loaded BY <1>5, <2>6, <3>3
      <4>2. CASE r.do = "form"
        <5>1. stored.form = r.form BY <1>4, <4>2
        <5>2. answered'[j].form = r.form BY <1>6, <3>3, <4>2
        <5>3. FormIsDue(j)' BY <2>3, <3>3, <4>2
        <5> QED BY <4>1, <5>1, <5>2, <5>3
      <4>3. CASE r.do = "status"
        <5>1. stored.form = r.loaded.form /\ stored.status = "form_completed" BY <1>4, <4>3
        <5>2. answered'[j] = answered[j] BY <1>6, <4>3
        <5> QED BY <3>1, <4>1, <5>1, <5>2
      <4>4. CASE r.do = "edit"
        <5>1. stored.form = r.form /\ stored.status = r.loaded.status BY <1>4, <4>4
        <5>2. answered'[j].form = r.form /\ answered'[j].own = answered[j].own BY <1>6, <3>3, <4>4
        <5>3. FormIsDue(j) => FormIsDue(j)' BY <2>4, <3>3, <4>4
        <5> QED BY <3>1, <4>1, <5>1, <5>2, <5>3
      <4> QED BY <1>1, <4>2, <4>3, <4>4
    <3> QED BY <3>2, <3>3
  <2>7. \A q \in Addresses : submission'[q].do = "confirmed" => submission'[q].loaded.status = "email_entered"
    BY <1>7, <2>1 DEF AccountsSound, FormsStored
  <2> QED BY <2>6, <2>7 DEF FormsStored
<1> QED BY <1>8, <1>9 DEF AccountsSound

LEMMA SaveAccountKeeps ==
    ASSUME AccountsSound, NEW p \in Addresses, U!SaveAccount(p)
    PROVE  AccountsSound'
<1>0. PICK r, id : r = submission[p] /\ id = r.id OBVIOUS
<1>1. r.do \in {"account", "name"} BY <1>0 DEF U!SaveAccount
<1>2. r \in Fillings /\ id \in AccountIds /\ r.user \in Users /\ Filling(p)
  <2>1. Filling(p) BY <1>0, <1>1 DEF Filling, Loads
  <2>2. r \in Fillings BY <1>0, <2>1, SubmissionIs DEF AccountsSound
  <2> QED BY <1>0, <2>1, <2>2 DEF Fillings
<1>3. PICK new \in Submissions :
        /\ submission' = [submission EXCEPT ![p] = new]
        /\ \/ r.do = "name" /\ new = U!Rest
           \/ r.do = "account" /\ new.do = "status" /\ new.id = id /\ new.user = r.user
  <2>1. CASE r.do = "name"
    <3>1. submission' = [submission EXCEPT ![p] = U!Rest] BY <1>0, <2>1 DEF U!SaveAccount, U!Becomes
    <3> QED BY <2>1, <3>1 DEF Submissions
  <2>2. CASE r.do = "account"
    <3> DEFINE new == [r EXCEPT !.do = "status"]
    <3>1. submission' = [submission EXCEPT ![p] = new] BY <1>0, <2>2 DEF U!SaveAccount, U!Becomes
    <3>2. new \in Fillings /\ new.do = "status" /\ new.id = id /\ new.user = r.user BY <1>0, <1>2 DEF Fillings, Loads
    <3>3. new \in Submissions BY <3>2 DEF Submissions
    <3> HIDE DEF new
    <3> QED BY <2>2, <3>1, <3>2, <3>3
  <2> QED BY <1>1, <2>1, <2>2
<1>4. new.do \in {"rest", "status"} /\ (new.do = "status" => new.id = id /\ new.user = r.user /\ r.do = "account")
  BY <1>3 DEF U!Rest
<1>5. /\ user' = [user EXCEPT ![id] = r.user] /\ U!SaveUser(id, r.user)
      /\ overwritten' = IF user[id] # r.user THEN overwritten \cup {id} ELSE overwritten
      /\ UNCHANGED <<profile, addresses, links, checked, answered, opened, accepted, unsent, accountsLeft>>
  BY <1>0 DEF U!SaveAccount, U!SaveUser
<1>6. overwritten \subseteq overwritten' BY <1>5
<1>7. \A q \in Addresses : submission'[q] = IF q = p THEN new ELSE submission[q]
  BY <1>3 DEF AccountsSound, AccountsTyped
<1>8. \A j : FormIsDue(j) => FormIsDue(j)'
  <2>1. FormIsDue(id) /\ submission[p].do = "account" => submission'[p].do = "status" /\ submission'[p].id = id
    BY <1>0, <1>3, <1>7 DEF U!Rest
  <2> QED BY <1>0, <1>1, <1>7, <2>1 DEF FormIsDue
<1>9. FormsStored'
  <2>1. \A q \in Addresses : submission'[q].do = "confirmed" => submission'[q].loaded.status = "email_entered"
    BY <1>4, <1>7 DEF AccountsSound, FormsStored
  <2> QED BY <1>5, <1>6, <1>8, <2>1 DEF AccountsSound, FormsStored
<1>10. CASE user[id] = r.user
  <2>1. user' = user BY <1>2, <1>5, <1>10 DEF AccountsSound, AccountsTyped
  <2>2. UNCHANGED <<changes, since>> BY <1>5, <1>10 DEF U!SaveUser
  <2>3. profile' \in [AccountIds -> Profiles] /\ answered' \in [AccountIds -> Given] /\ accountsLeft' \in [Spendable -> Nat]
    BY <1>5 DEF AccountsSound, AccountsTyped
  <2>4. new.do \notin {"mail", "signed up", "proposed", "signup", "propose"} /\ submission[p].do # "mail" BY <1>0, <1>1, <1>4
  <2>5. new.do \in Loads => Filling(p) /\ new.id = submission[p].id /\ new.user = submission[p].user
    BY <1>0, <1>2, <1>4 DEF Loads
  <2>6. /\ AccountsTyped' /\ AccountsExist' /\ LookedBefore' /\ VerifiedRows'
        /\ SigningUp' /\ CanConfirm' /\ LetIn'
    BY <1>3, <1>5, <1>6, <2>1, <2>2, <2>3, <2>4, <2>5, RequestKeeps
  <2> QED BY <1>9, <2>6 DEF AccountsSound
<1>11. CASE user[id] # r.user
  <2>1. id \in overwritten' BY <1>5, <1>11
  <2>2. /\ user'[id] = r.user /\ \A j \in AccountIds \ {id} : user'[j] = user[j]
        /\ user' \in [AccountIds -> Users]
    BY <1>2, <1>5 DEF AccountsSound, AccountsTyped
  <2>3. /\ U!Exists(id) /\ r.user.state # "none" /\ r.user.mail \in Addresses /\ r.user.vouched = user[id].vouched
    BY <1>0, <1>2 DEF AccountsSound, AccountsExist
  <2>4. \A j \in AccountIds : (user'[j].state # "none") <=> U!Exists(j) BY <2>2, <2>3 DEF U!Exists
  <2>5. /\ since' \in [AccountIds -> Nat] /\ changes' \in Nat /\ changes <= changes'
        /\ \A j \in AccountIds : (since[j] = since'[j] /\ user'[j].mail = user[j].mail) \/ since'[j] = changes + 1
        /\ \A j \in AccountIds : since'[j] # since[j] => changes' = changes + 1
    <3>0. changes \in Nat /\ since \in [AccountIds -> Nat] BY DEF AccountsSound, AccountsTyped
    <3>1. CASE r.user.mail = user[id].mail BY <1>5, <2>2, <3>0, <3>1 DEF U!SaveUser
    <3>2. CASE r.user.mail # user[id].mail
      <4>1. changes' = changes + 1 /\ since' = [since EXCEPT ![id] = changes + 1] BY <1>5, <3>2 DEF U!SaveUser, U!Moved
      <4> QED BY <1>2, <2>2, <3>0, <4>1
    <3> QED BY <3>1, <3>2
  <2>6. /\ \A q \in Addresses : Filling(q)' => /\ submission'[q].id = submission[q].id /\ submission'[q].user = submission[q].user
                                               /\ Filling(q)
        /\ \A q \in Addresses : Entering(q)' => Entering(q) /\ submission'[q] = submission[q]
        /\ \A q \in Addresses : Starting(q)' => Starting(q) /\ submission'[q] = submission[q]
    <3>1. \A q \in Addresses \ {p} : submission'[q] = submission[q] BY <1>7
    <3>2. submission'[p] = new BY <1>7
    <3>3. ~Entering(p)' /\ ~Starting(p)' BY <1>4, <3>2 DEF Entering, Starting
    <3>4. Filling(p)' => submission'[p].id = submission[p].id /\ submission'[p].user = submission[p].user
      BY <1>0, <1>4, <3>2 DEF Filling, Loads
    <3> QED BY <1>2, <3>1, <3>3, <3>4 DEF Entering, Starting, Filling
  <2>7. AccountsTyped' BY <1>3, <1>5, <2>2, <2>5 DEF AccountsSound, AccountsTyped
  <2>8. AccountsExist'
    <3>1. ASSUME NEW q \in Addresses, Filling(q)'
          PROVE  /\ user'[submission'[q].id].state # "none" /\ submission'[q].user.state # "none"
                 /\ submission'[q].user.mail \in Addresses
                 /\ submission'[q].user.vouched = user'[submission'[q].id].vouched
      <4>1. Filling(q) /\ submission'[q].id = submission[q].id /\ submission'[q].user = submission[q].user BY <2>6, <3>1
      <4>2. submission[q].id \in AccountIds BY <4>1, SubmissionIs DEF AccountsSound, Fillings
      <4>3. /\ U!Exists(submission[q].id) /\ submission[q].user.state # "none" /\ submission[q].user.mail \in Addresses
            /\ submission[q].user.vouched = user[submission[q].id].vouched
        BY <4>1 DEF AccountsSound, AccountsExist
      <4>4. user'[submission[q].id].vouched = user[submission[q].id].vouched BY <2>2, <2>3, <4>2
      <4> QED BY <2>4, <4>1, <4>2, <4>3, <4>4
    <3>2. \A x \in addresses' : user'[x.of].state # "none"
      BY <1>5, <2>4 DEF AccountsSound, AccountsExist, AccountsTyped, Rows
    <3>3. \A j \in accepted' : user'[j].state # "none" BY <1>5, <2>4 DEF AccountsSound, AccountsExist, AccountsTyped
    <3>4. \A j \in AccountIds : user'[j].state # "none" => user'[j].mail \in Addresses
      BY <2>2, <2>3, <2>4 DEF AccountsSound, AccountsExist
    <3> QED BY <3>1, <3>2, <3>3, <3>4 DEF AccountsExist, U!Exists
  <2>9. LookedBefore'
    <3>0. \A i \in AccountIds, a \in Addresses : checked[i][a] \in Nat /\ checked[i][a] <= changes /\ changes \in Nat
      BY DEF AccountsSound, LookedBefore, AccountsTyped
    <3>1. \A i \in AccountIds, a \in Addresses : checked'[i][a] <= changes' BY <1>5, <2>5, <3>0
    <3>2. ASSUME NEW i \in AccountIds, NEW j \in AccountIds, i # j, user'[j].state # "none"
          PROVE  checked'[i][user'[j].mail] < since'[j]
      <4>1. U!Exists(j) /\ user'[j].mail \in Addresses BY <2>2, <2>3, <2>4, <3>2 DEF AccountsSound, AccountsExist
      <4>2. checked[i][user[j].mail] < since[j] BY <3>2, <4>1 DEF AccountsSound, LookedBefore
      <4> QED BY <1>5, <2>5, <3>0, <4>1, <4>2
    <3>3. ASSUME NEW q \in Addresses, Starting(q)'
          PROVE  /\ submission'[q].at <= changes'
                 /\ \A j \in AccountIds : user'[j].state # "none" /\ user'[j].mail = submission'[q].address
                                     => submission'[q].at < since'[j]
      <4>1. Starting(q) /\ submission'[q] = submission[q] BY <2>6, <3>3
      <4>2. /\ submission[q].at \in Nat /\ submission[q].at <= changes /\ changes \in Nat
            /\ \A j \in AccountIds : U!Exists(j) /\ user[j].mail = submission[q].address => submission[q].at < since[j]
        BY <4>1, SubmissionIs DEF AccountsSound, AccountsTyped, LookedBefore, Starts, U!Holds
      <4> QED BY <2>4, <2>5, <4>1, <4>2
    <3> QED BY <3>1, <3>2, <3>3 DEF LookedBefore, U!Holds, U!Exists
  <2>10. VerifiedRows'
    <3> SUFFICES ASSUME NEW x \in addresses, x.verified
                 PROVE  /\ user'[x.of].vouched \/ <<x.of, x.address>> \in opened
                        /\ x.of \in overwritten' \/ x.address = user'[x.of].mail
      BY <1>5 DEF VerifiedRows
    <3>1. x.of \in AccountIds BY DEF AccountsSound, AccountsTyped, Rows
    <3>2. /\ user[x.of].vouched \/ <<x.of, x.address>> \in opened
          /\ x.of \in overwritten \/ x.address = user[x.of].mail
      BY DEF AccountsSound, VerifiedRows
    <3> QED BY <1>6, <2>1, <2>2, <2>3, <3>1, <3>2
  <2>11. SigningUp'
    <3> SUFFICES ASSUME NEW q \in Addresses, Entering(q)'
                 PROVE  /\ user'[submission'[q].id].state = "active" /\ submission'[q].id \notin accepted'
                        /\ \A x \in Addresses \ {q} : Entering(x)' => submission'[x].id # submission'[q].id
                        /\ \A x \in Addresses : Filling(x)' /\ submission'[x].id = submission'[q].id
                                          => submission'[x].user.state = "active"
      BY DEF SigningUp
    <3>1. Entering(q) /\ submission'[q] = submission[q] BY <2>6
    <3>2. submission[q].id \in AccountIds BY <3>1, SubmissionIs DEF AccountsSound, Mailings
    <3>3. user[submission[q].id].state = "active" /\ submission[q].id \notin accepted BY <3>1 DEF AccountsSound, SigningUp
    <3>4. \A x \in Addresses : Filling(x) /\ submission[x].id = submission[q].id => submission[x].user.state = "active"
      BY <3>1 DEF AccountsSound, SigningUp
    <3>5. \A x \in Addresses \ {q} : Entering(x) => submission[x].id # submission[q].id
      BY <3>1 DEF AccountsSound, SigningUp
    <3>6. \A x \in Addresses \ {q} : Entering(x)' => submission'[x].id # submission'[q].id BY <2>6, <3>1, <3>5
    <3>7. \A x \in Addresses : Filling(x)' /\ submission'[x].id = submission'[q].id => submission'[x].user.state = "active"
      BY <2>6, <3>1, <3>4
    <3>8. user'[submission[q].id].state = "active"
      <4>1. submission[q].id = id => r.user.state = "active" BY <1>0, <1>2, <3>4
      <4> QED BY <2>2, <3>2, <3>3, <4>1
    <3> QED BY <1>5, <3>1, <3>3, <3>6, <3>7, <3>8
  <2>12. CanConfirm'
    <3> SUFFICES ASSUME NEW j \in AccountIds \ (unsent \cup overwritten'), user'[j].state \in {"active", "candidate"}, ~user'[j].vouched
                 PROVE  \/ U!Verified(j, user[j].mail)'
                        \/ (<<"confirm", j, user'[j].mail>> \in links' \/ MailIsDue(j)') /\ HasRow(j)'
      BY <1>5 DEF CanConfirm
    <3>1. j # id /\ j \notin overwritten BY <1>6, <2>1
    <3>2. user'[j] = user[j] BY <2>2, <3>1
    <3>3. U!Verified(j, user[j].mail) \/ ((<<"confirm", j, user[j].mail>> \in links \/ MailIsDue(j)) /\ HasRow(j))
      BY <3>1, <3>2 DEF AccountsSound, CanConfirm
    <3>4. U!Verified(j, user[j].mail) => U!Verified(j, user[j].mail)' BY <1>5, <3>2 DEF U!Verified
    <3>5. HasRow(j) => HasRow(j)' BY <1>5, <3>2 DEF HasRow
    <3>6. MailIsDue(j) => MailIsDue(j)' BY <1>0, <1>1, <1>7 DEF MailIsDue
    <3> QED BY <1>5, <3>2, <3>3, <3>4, <3>5, <3>6
  <2>13. LetIn'
    <3> SUFFICES ASSUME NEW j \in accepted \ overwritten' PROVE user'[j].state = "citizen"
      BY <1>5 DEF LetIn
    <3>1. j \in AccountIds \ {id} /\ j \notin overwritten BY <1>6, <2>1 DEF AccountsSound, AccountsTyped
    <3> QED BY <2>2, <3>1 DEF AccountsSound, LetIn
  <2> QED BY <1>9, <2>7, <2>8, <2>9, <2>10, <2>11, <2>12, <2>13 DEF AccountsSound
<1> QED BY <1>10, <1>11

-----------------------------------------------------------------------------
(* A citizen asks for another address; old addresses in small letters      *)

LEMMA ChangingKeeps ==
    ASSUME AccountsSound, NEW id \in AccountIds, U!change_email(id)
    PROVE  AccountsSound'
<1>1. PICK address \in Addresses :
        /\ U!EmailChangeForm_valid(id, address)
        /\ addresses' = {r \in addresses : r.of # id \/ r.verified} \cup {U!Row(id, address, FALSE, FALSE)}
        /\ links' = links \cup {<<"confirm", id, address>>}
        /\ checked' = [checked EXCEPT ![id][address] = changes]
  BY DEF U!change_email
<1>2. /\ user[id].state = "citizen" /\ U!Exists(id) /\ accountsLeft' \in [Spendable -> Nat]
      /\ UNCHANGED <<user, profile, submission, changes, since, answered, opened, overwritten, accepted, unsent>>
  BY Spending DEF U!change_email, AccountsSound, AccountsTyped, Spendable, U!Exists
<1> DEFINE new == U!Row(id, address, FALSE, FALSE)
           staying == {r \in addresses : r.of # id \/ r.verified}
<1>3. new \in Rows /\ new.of = id /\ ~new.verified BY DEF U!Row, Rows
<1> HIDE DEF new
<1>4. /\ addresses' \subseteq Rows /\ IsFiniteSet(addresses')
      /\ \A r \in addresses' : r = new \/ r \in addresses
      /\ \A r \in addresses : r.of # id => r \in addresses'
  <2>1. IsFiniteSet(staying) BY FS_Subset DEF AccountsSound, AccountsTyped
  <2>2. addresses' = staying \cup {new} BY <1>1 DEF new
  <2>3. IsFiniteSet(addresses') BY <2>1, <2>2, FS_AddElement
  <2> QED BY <1>3, <2>2, <2>3 DEF AccountsSound, AccountsTyped
<1>5. /\ checked' \in [AccountIds -> [Addresses -> Nat]] /\ checked'[id][address] = changes
      /\ \A i \in AccountIds, a \in Addresses : checked'[i][a] = checked[i][a] \/ (i = id /\ a = address /\ checked'[i][a] = changes)
  BY <1>1 DEF AccountsSound, AccountsTyped
<1>6. \A q \in Addresses : submission'[q] = submission[q] BY <1>2
<1>7. AccountsTyped' BY <1>2, <1>4, <1>5 DEF AccountsSound, AccountsTyped
<1>8. AccountsExist'
  <2>1. \A r \in addresses' : user'[r.of].state # "none" BY <1>2, <1>3, <1>4 DEF AccountsSound, AccountsExist, U!Exists
  <2> QED BY <1>2, <2>1 DEF AccountsSound, AccountsExist, U!Exists, Filling
<1>9. LookedBefore'
  <2>0. changes \in Nat /\ \A i \in AccountIds, a \in Addresses : checked[i][a] <= changes
    BY DEF AccountsSound, LookedBefore, AccountsTyped
  <2>1. \A i \in AccountIds, a \in Addresses : checked'[i][a] <= changes' BY <1>2, <1>5, <2>0
  <2>2. ASSUME NEW i \in AccountIds, NEW j \in AccountIds, i # j, user'[j].state # "none"
        PROVE  checked'[i][user'[j].mail] < since'[j]
    <3>1. U!Exists(j) /\ user[j].mail \in Addresses BY <1>2, <2>2 DEF U!Exists, AccountsSound, AccountsExist
    <3>2. ~(i = id /\ user[j].mail = address) BY <1>1, <2>2, <3>1 DEF U!EmailChangeForm_valid, U!Holds
    <3>3. checked'[i][user[j].mail] = checked[i][user[j].mail] BY <1>5, <3>1, <3>2
    <3> QED BY <1>2, <2>2, <3>1, <3>3 DEF AccountsSound, LookedBefore
  <2> QED BY <1>2, <2>1, <2>2 DEF AccountsSound, LookedBefore, U!Holds, U!Exists, Starting
<1>10. VerifiedRows' BY <1>2, <1>3, <1>4 DEF AccountsSound, VerifiedRows
<1>11. SigningUp' BY <1>2 DEF AccountsSound, SigningUp, Entering, Filling
<1>12. CanConfirm'
  <2> SUFFICES ASSUME NEW j \in AccountIds \ (unsent \cup overwritten), user[j].state \in {"active", "candidate"}, ~user[j].vouched
               PROVE  \/ \E r \in addresses' : r.of = j /\ r.address = user[j].mail /\ r.verified
                      \/ /\ <<"confirm", j, user[j].mail>> \in links' \/ MailIsDue(j)
                         /\ \E r \in addresses' : r.of = j /\ r.address = user[j].mail /\ ~r.upper
    BY <1>2 DEF CanConfirm, U!Verified, HasRow, MailIsDue
  <2>1. j # id BY <1>2
  <2>2. U!Verified(j, user[j].mail) \/ ((<<"confirm", j, user[j].mail>> \in links \/ MailIsDue(j)) /\ HasRow(j))
    BY DEF AccountsSound, CanConfirm
  <2> QED BY <1>1, <1>4, <2>1, <2>2 DEF U!Verified, HasRow
<1>13. LetIn' BY <1>2 DEF AccountsSound, LetIn
<1>14. FormsStored' BY <1>2 DEF AccountsSound, FormsStored, FormIsDue
<1> QED BY <1>7, <1>8, <1>9, <1>10, <1>11, <1>12, <1>13, <1>14 DEF AccountsSound

(* The accounts count what they hold as the theorems about finite sets do. *)
LEMMA Counting == ASSUME NEW S PROVE U!Cardinality(S) = Cardinality(S)
BY DEF U!Cardinality, Cardinality

(* Of rows that may become one, the one that stands for all is written,    *)
(* the only verified and the only primary one.                             *)
LEMMA OneIsWritten ==
    ASSUME AccountsTyped, ~U!Conflict
    PROVE  /\ \A r, s \in U!Normalized : r.of = s.of /\ r.address = s.address => r = s
           /\ \A r \in addresses : r.verified \/ r.primary => r \in U!Normalized
           /\ \A r \in addresses \ U!Normalized : \E s \in U!Normalized : s.of = r.of /\ s.address = r.address /\ s.verified
<1>1. \A r \in addresses : U!Mergeable(U!Group(r)) BY DEF U!Conflict
<1>2. ASSUME NEW r \in addresses, Cardinality(U!Group(r)) = 1 PROVE U!Group(r) = {r}
  <2>1. IsFiniteSet(U!Group(r)) BY FS_Subset DEF U!Group, AccountsTyped
  <2>2. PICK x : U!Group(r) = {x} BY <1>2, <2>1, FS_Singleton
  <2>3. r \in U!Group(r) BY DEF U!Group
  <2> QED BY <2>2, <2>3
<1>3. ASSUME NEW r \in addresses, Cardinality(U!Group(r)) # 1
      PROVE  \E t \in U!Group(r) : U!Stands(t) /\ \A s \in U!Group(r) \ {t} : U!Redundant(s)
  BY <1>1, <1>3, Counting DEF U!Mergeable
<1>4. ASSUME NEW r \in U!Normalized, NEW s \in U!Normalized, r.of = s.of, r.address = s.address PROVE r = s
  <2>1. /\ r \in addresses /\ s \in addresses /\ s \in U!Group(r) /\ r \in U!Group(r) /\ U!Group(r) = U!Group(s)
    BY <1>4 DEF U!Normalized, U!Group
  <2>2. CASE Cardinality(U!Group(r)) = 1 BY <1>2, <2>1, <2>2
  <2>3. CASE Cardinality(U!Group(r)) # 1
    <3>1. U!Stands(r) /\ U!Stands(s) BY <2>1, <2>3, Counting DEF U!Normalized
    <3>2. PICK t \in U!Group(r) : \A x \in U!Group(r) \ {t} : U!Redundant(x) BY <1>3, <2>1, <2>3
    <3> QED BY <2>1, <3>1, <3>2 DEF U!Stands, U!Redundant
  <2> QED BY <2>2, <2>3
<1>5. ASSUME NEW r \in addresses, r.verified \/ r.primary PROVE r \in U!Normalized
  <2>1. CASE Cardinality(U!Group(r)) = 1 BY <1>5, <2>1, Counting DEF U!Normalized
  <2>2. CASE Cardinality(U!Group(r)) # 1
    <3>1. PICK t \in U!Group(r) : U!Stands(t) /\ \A s \in U!Group(r) \ {t} : U!Redundant(s) BY <1>3, <2>2
    <3>2. r \in U!Group(r) BY DEF U!Group
    <3>3. r = t BY <1>5, <3>1, <3>2 DEF U!Redundant
    <3> QED BY <3>1, <3>3 DEF U!Normalized
  <2> QED BY <2>1, <2>2
<1>6. ASSUME NEW r \in addresses \ U!Normalized
      PROVE  \E s \in U!Normalized : s.of = r.of /\ s.address = r.address /\ s.verified
  <2>1. Cardinality(U!Group(r)) # 1 BY <1>6, Counting DEF U!Normalized
  <2>2. PICK t \in U!Group(r) : U!Stands(t) BY <1>3, <2>1
  <2>3. t \in addresses /\ t.of = r.of /\ t.address = r.address BY <2>2 DEF U!Group
  <2> QED BY <2>2, <2>3 DEF U!Normalized, U!Stands
<1> QED BY <1>4, <1>5, <1>6

(* What is written differs from what was there in nothing but case.        *)
LEMMA WrittenIs ==
    ASSUME AccountsTyped
    PROVE  /\ U!Written \subseteq Rows /\ IsFiniteSet(U!Written)
           /\ \A w \in U!Written : /\ ~w.upper
                                   /\ \E r \in U!Normalized : /\ r.of = w.of /\ r.address = w.address
                                                              /\ r.verified = w.verified /\ r.primary = w.primary
                                                              /\ w = [r EXCEPT !.upper = FALSE]
           /\ \A r \in U!Normalized : \E w \in U!Written : /\ r.of = w.of /\ r.address = w.address
                                                           /\ r.verified = w.verified /\ r.primary = w.primary
                                                           /\ ~w.upper
<1>1. U!Normalized \subseteq Rows /\ U!Normalized \subseteq addresses BY DEF U!Normalized, AccountsTyped
<1>2. \A r \in Rows : LET w == [r EXCEPT !.upper = FALSE]
                      IN /\ w \in Rows /\ ~w.upper /\ r.of = w.of /\ r.address = w.address
                         /\ r.verified = w.verified /\ r.primary = w.primary
  BY DEF Rows
<1>3. IsFiniteSet(U!Written)
  <2> DEFINE f == [r \in U!Normalized |-> [r EXCEPT !.upper = FALSE]]
  <2>1. IsFiniteSet(U!Normalized) BY <1>1, FS_Subset DEF AccountsTyped
  <2>2. f \in Surjection(U!Normalized, U!Written) BY DEF Surjection, U!Written
  <2> HIDE DEF f
  <2> QED BY <2>1, <2>2, FS_Surjection
<1>4. \A r \in U!Normalized : [r EXCEPT !.upper = FALSE] \in U!Written BY DEF U!Written
<1>5. \A w \in U!Written : \E r \in U!Normalized : w = [r EXCEPT !.upper = FALSE] BY DEF U!Written
<1>6. \A w \in U!Written : /\ w \in Rows /\ ~w.upper
                           /\ \E r \in U!Normalized : /\ r.of = w.of /\ r.address = w.address
                                                      /\ r.verified = w.verified /\ r.primary = w.primary
                                                      /\ w = [r EXCEPT !.upper = FALSE]
  <2> TAKE w \in U!Written
  <2>1. PICK r \in U!Normalized : w = [r EXCEPT !.upper = FALSE] BY <1>5
  <2>2. r \in Rows BY <1>1
  <2>3. w \in Rows /\ ~w.upper /\ r.of = w.of /\ r.address = w.address /\ r.verified = w.verified /\ r.primary = w.primary
    BY <1>2, <2>1, <2>2
  <2> QED BY <2>1, <2>3
<1>7. \A r \in U!Normalized : \E w \in U!Written : /\ r.of = w.of /\ r.address = w.address
                                                   /\ r.verified = w.verified /\ r.primary = w.primary
                                                   /\ ~w.upper
  BY <1>1, <1>2, <1>4
<1> QED BY <1>3, <1>6, <1>7

LEMMA NormalizingKeeps ==
    ASSUME AccountsSound, U!normalize_email_case
    PROVE  AccountsSound'
<1>1. /\ ~U!Conflict /\ addresses' = U!Written /\ accountsLeft' \in [Spendable -> Nat]
      /\ UNCHANGED <<user, profile, links, submission, changes, since, checked, answered, opened, overwritten, accepted, unsent>>
  BY Spending DEF U!normalize_email_case, U!times, AccountsSound, AccountsTyped, Spendable
<1>2. AccountsTyped BY DEF AccountsSound
<1>3. /\ U!Written \subseteq Rows /\ IsFiniteSet(U!Written)
      /\ \A w \in U!Written : /\ ~w.upper
                              /\ \E r \in addresses : r.of = w.of /\ r.address = w.address /\ r.verified = w.verified
      /\ \A r \in addresses : \/ \E w \in U!Written : r.of = w.of /\ r.address = w.address /\ r.verified = w.verified /\ ~w.upper
                              \/ \E w \in U!Written : r.of = w.of /\ r.address = w.address /\ w.verified
      /\ \A r \in addresses : r.verified => \E w \in U!Written : r.of = w.of /\ r.address = w.address /\ w.verified
  <2>1. U!Normalized \subseteq addresses BY DEF U!Normalized
  <2> QED BY <1>1, <1>2, <2>1, OneIsWritten, WrittenIs
<1>4. AccountsTyped' BY <1>1, <1>2, <1>3 DEF AccountsTyped
<1>5. AccountsExist'
  <2>1. \A r \in addresses' : user'[r.of].state # "none" BY <1>1, <1>3 DEF AccountsSound, AccountsExist, U!Exists
  <2> QED BY <1>1, <2>1 DEF AccountsSound, AccountsExist, U!Exists, Filling
<1>6. LookedBefore' BY <1>1 DEF AccountsSound, LookedBefore, U!Holds, U!Exists, Starting
<1>7. VerifiedRows' BY <1>1, <1>3 DEF AccountsSound, VerifiedRows
<1>8. SigningUp' BY <1>1 DEF AccountsSound, SigningUp, Entering, Filling
<1>9. CanConfirm'
  <2> SUFFICES ASSUME NEW j \in AccountIds \ (unsent \cup overwritten), user[j].state \in {"active", "candidate"}, ~user[j].vouched
               PROVE  \/ \E r \in U!Written : r.of = j /\ r.address = user[j].mail /\ r.verified
                      \/ /\ <<"confirm", j, user[j].mail>> \in links \/ MailIsDue(j)
                         /\ \E r \in U!Written : r.of = j /\ r.address = user[j].mail /\ ~r.upper
    BY <1>1 DEF CanConfirm, U!Verified, HasRow, MailIsDue
  <2>1. U!Verified(j, user[j].mail) \/ ((<<"confirm", j, user[j].mail>> \in links \/ MailIsDue(j)) /\ HasRow(j))
    BY DEF AccountsSound, CanConfirm
  <2>2. CASE U!Verified(j, user[j].mail) BY <1>3, <2>2 DEF U!Verified
  <2>3. CASE HasRow(j)
    <3>1. PICK r \in addresses : r.of = j /\ r.address = user[j].mail BY <2>3 DEF HasRow
    <3>2. \/ \E w \in U!Written : r.of = w.of /\ r.address = w.address /\ r.verified = w.verified /\ ~w.upper
          \/ \E w \in U!Written : r.of = w.of /\ r.address = w.address /\ w.verified
      BY <1>3
    <3> QED BY <2>1, <2>2, <3>1, <3>2
  <2> QED BY <2>1, <2>2, <2>3
<1>10. LetIn' BY <1>1 DEF AccountsSound, LetIn
<1>11. FormsStored' BY <1>1 DEF AccountsSound, FormsStored, FormIsDue
<1> QED BY <1>4, <1>5, <1>6, <1>7, <1>8, <1>9, <1>10, <1>11 DEF AccountsSound

-----------------------------------------------------------------------------
(* Whom a citizen has proposed                                             *)

Holding(p) == submission[p].do = "confirmed" \/ Filling(p)

(* What a step may do with the proposed, whichever it is.                  *)
LEMMA VouchedKept ==
    ASSUME AccountsSound, VouchedFor, overwritten \subseteq overwritten',
           \A id \in AccountIds : Vouched(id) => Vouched(id)',
           \A id \in AccountIds \ overwritten' : Vouched(id)' => Vouched(id) \/ VouchingIsDue(id)',
           \A id \in AccountIds : profile'[id].polecajacy => Vouched(id),
           \A id \in AccountIds \ overwritten' :
              profile[id].polecajacy \/ VouchingIsDue(id) => profile'[id].polecajacy \/ VouchingIsDue(id)',
           \A q \in Addresses : Holding(q)' /\ submission'[q].loaded.polecajacy =>
              submission'[q].id \in AccountIds /\ Vouched(submission'[q].id),
           \A q \in Addresses : Proposing(q)' =>
              \/ Proposing(q) /\ submission'[q].id = submission[q].id /\ submission'[q].address = submission[q].address
              \/ Vouched(submission[q].id)' /\ user'[submission'[q].id].mail = submission'[q].address,
           \A id \in AccountIds \ overwritten' : U!Exists(id) => user'[id].mail = user[id].mail \/ HasPrimary(id)',
           \A id \in AccountIds : HasPrimary(id) => HasPrimary(id)'
    PROVE  VouchedFor'
<1>1. \A id \in AccountIds : profile'[id].polecajacy => Vouched(id)' OBVIOUS
<1>2. \A q \in Addresses : Holding(q)' /\ submission'[q].loaded.polecajacy => Vouched(submission[q].id)'
  BY DEF Vouched, U!Exists
<1>3. ASSUME NEW q \in Addresses, Proposing(q)'
      PROVE  /\ Vouched(submission[q].id)'
             /\ \/ submission'[q].id \in overwritten' \/ user'[submission'[q].id].mail = submission'[q].address
                \/ HasPrimary(submission[q].id)'
  <2> SUFFICES ASSUME Proposing(q), submission'[q].id = submission[q].id, submission'[q].address = submission[q].address
               PROVE  /\ Vouched(submission[q].id)'
                      /\ \/ submission'[q].id \in overwritten' \/ user'[submission'[q].id].mail = submission'[q].address
                         \/ HasPrimary(submission[q].id)'
    BY <1>3
  <2>1. PICK id \in AccountIds : id = submission[q].id BY SubmissionIs DEF AccountsSound, Proposings
  <2>2. Vouched(id) /\ (id \in overwritten \/ user[id].mail = submission[q].address \/ HasPrimary(id))
    BY <2>1 DEF VouchedFor
  <2>3. Vouched(id)' /\ U!Exists(id) BY <2>2 DEF Vouched
  <2>4. id \in overwritten' \/ user'[id].mail = submission'[q].address \/ HasPrimary(id)' BY <2>1, <2>2, <2>3
  <2> QED BY <2>1, <2>3, <2>4 DEF Vouched, U!Exists, HasPrimary
<1>4. \A id \in AccountIds \ overwritten' : Vouched(id)' => profile'[id].polecajacy \/ VouchingIsDue(id)'
  BY DEF VouchedFor
<1> QED BY <1>1, <1>2, <1>3, <1>4 DEF VouchedFor, Holding, Vouched, U!Exists, HasPrimary

(* A step of a request that leaves the accounts as they are.               *)
LEMMA RequestVouches ==
    ASSUME AccountsSound, VouchedFor, overwritten \subseteq overwritten', UNCHANGED <<user, addresses>>,
           NEW p \in Addresses, NEW new, submission' = [submission EXCEPT ![p] = new],
           \/ ~Proposing(p) /\ new.do \notin {"proposed", "vouching", "entering"}
           \/ submission[p].do = "vouching" /\ new.do = "entering" /\ new.id = submission[p].id
              /\ new.address = submission[p].address /\ profile'[new.id].polecajacy
           \/ submission[p].do = "entering" /\ new.do = "rest",
           \A id \in AccountIds : profile'[id].polecajacy => Vouched(id),
           \A id \in AccountIds \ overwritten' : profile[id].polecajacy => profile'[id].polecajacy,
           new.do \in {"confirmed"} \cup Loads /\ new.loaded.polecajacy => new.id \in AccountIds /\ Vouched(new.id)
    PROVE  VouchedFor'
<1>1. \A q \in Addresses : submission'[q] = IF q = p THEN new ELSE submission[q]
  BY DEF AccountsSound, AccountsTyped
<1>2. \A id \in AccountIds : (Vouched(id)' <=> Vouched(id)) /\ (HasPrimary(id)' <=> HasPrimary(id))
  BY DEF Vouched, HasPrimary, U!Exists
<1>3. \A id \in AccountIds : VouchingIsDue(id) => VouchingIsDue(id)' \/ profile'[id].polecajacy
  BY <1>1 DEF VouchingIsDue, Proposing
<1>4. \A q \in Addresses : Holding(q)' /\ submission'[q].loaded.polecajacy =>
        submission'[q].id \in AccountIds /\ Vouched(submission'[q].id)
  <2> SUFFICES ASSUME NEW q \in Addresses, Holding(q)', submission'[q].loaded.polecajacy
               PROVE  submission'[q].id \in AccountIds /\ Vouched(submission'[q].id)
    OBVIOUS
  <2>1. CASE q = p BY <1>1, <2>1 DEF Holding, Filling
  <2>2. CASE q # p
    <3>1. Holding(q) /\ submission'[q] = submission[q] BY <1>1, <2>2 DEF Holding, Filling
    <3>2. submission[q].id \in AccountIds
      BY <3>1, SubmissionIs DEF AccountsSound, Holding, Confirmings, Fillings
    <3> QED BY <3>1, <3>2 DEF VouchedFor, Holding
  <2> QED BY <2>1, <2>2
<1>5. \A q \in Addresses : Proposing(q)' =>
        Proposing(q) /\ submission'[q].id = submission[q].id /\ submission'[q].address = submission[q].address
  BY <1>1 DEF Proposing
<1> QED BY <1>2, <1>3, <1>4, <1>5, VouchedKept

(* What a step does not change of the requests.                            *)
LEMMA RequestsStay ==
    ASSUME AccountsSound, VouchedFor, UNCHANGED <<submission, profile>>
    PROVE  /\ \A id : VouchingIsDue(id) => VouchingIsDue(id)'
           /\ \A id \in AccountIds : profile'[id].polecajacy => Vouched(id)
           /\ \A q \in Addresses : Holding(q)' /\ submission'[q].loaded.polecajacy =>
                 submission'[q].id \in AccountIds /\ Vouched(submission'[q].id)
           /\ \A q \in Addresses : Proposing(q)' =>
                 Proposing(q) /\ submission'[q].id = submission[q].id /\ submission'[q].address = submission[q].address
<1>1. \A q \in Addresses : Holding(q) => submission[q].id \in AccountIds
  BY SubmissionIs DEF AccountsSound, Holding, Confirmings, Fillings
<1> QED BY <1>1 DEF VouchedFor, VouchingIsDue, Holding, Filling, Proposing

LEMMA AskingVouches ==
    ASSUME AccountsSound, VouchedFor, NEW p \in Addresses,
           \/ U!SignUp(p) \/ U!dodaj(p) \/ U!send_confirmation_mail(p)
           \/ U!onboarding_details(p) \/ U!change_username(p) \/ U!candidate_edit(p)
    PROVE  VouchedFor'
<1> DEFINE Asked(new) ==
             /\ submission' = [submission EXCEPT ![p] = new]
             /\ \/ new.do \in {"signup", "propose", "signed up"}
                \/ new.do \in Loads /\ new.id \in AccountIds /\ new.loaded = profile[new.id]
<1>0. \E new : Asked(new)
  <2>1. CASE U!SignUp(p) \/ U!dodaj(p)
    <3>1. PICK do \in {"signup", "propose"}, address \in Addresses :
             submission' = [submission EXCEPT ![p] = [do |-> do, address |-> address, at |-> changes]]
      BY <2>1 DEF U!SignUp, U!dodaj, U!Becomes
    <3>2. [do |-> do, address |-> address, at |-> changes].do = do OBVIOUS
    <3> QED BY <3>1, <3>2
  <2>2. CASE U!send_confirmation_mail(p)
    <3>1. submission' = [submission EXCEPT ![p] = [do |-> "signed up", id |-> submission[p].id]]
      BY <2>2 DEF U!send_confirmation_mail, U!Becomes
    <3>2. [do |-> "signed up", id |-> submission[p].id].do = "signed up" OBVIOUS
    <3> QED BY <3>1, <3>2
  <2>3. CASE U!onboarding_details(p) \/ U!change_username(p) \/ U!candidate_edit(p)
    <3>1. PICK do \in Loads, id \in AccountIds :
             submission' = [submission EXCEPT ![p] = [do |-> do, id |-> id, loaded |-> profile[id], user |-> user[id],
                                                      form |-> accountsLeft.forms]]
      BY <2>3 DEF U!onboarding_details, U!change_username, U!candidate_edit, U!get_onboarding_user_from_request,
                  U!Load, U!Becomes, Loads
    <3> DEFINE current == [do |-> do, id |-> id, loaded |-> profile[id], user |-> user[id], form |-> accountsLeft.forms]
    <3>2. current.do = do /\ current.id = id /\ current.loaded = profile[id] OBVIOUS
    <3> HIDE DEF current
    <3> QED BY <3>1, <3>2 DEF current
  <2> HIDE DEF Asked
  <2> QED BY <2>1, <2>2, <2>3
<1>1. PICK new : Asked(new) BY <1>0
<1>2. ~Proposing(p) /\ UNCHANGED <<user, profile, addresses, overwritten>>
  <2>1. submission[p] = U!Rest \/ submission[p].do = "mail"
    BY DEF U!SignUp, U!dodaj, U!send_confirmation_mail, U!onboarding_details, U!change_username, U!candidate_edit
  <2>2. ~Proposing(p) BY <2>1 DEF Proposing, U!Rest
  <2>3. UNCHANGED <<user, profile, addresses, overwritten>>
    BY DEF U!SignUp, U!dodaj, U!send_confirmation_mail, U!onboarding_details, U!change_username, U!candidate_edit
  <2> QED BY <2>2, <2>3
<1>3. new.do \notin {"proposed", "vouching", "entering"} BY <1>1 DEF Loads
<1>4. new.do \in {"confirmed"} \cup Loads /\ new.loaded.polecajacy => new.id \in AccountIds /\ Vouched(new.id)
  <2>1. new.do \in {"signup", "propose", "signed up"} => new.do \notin {"confirmed"} \cup Loads BY DEF Loads
  <2> QED BY <1>1, <2>1 DEF VouchedFor
<1>5. \A id \in AccountIds : profile'[id].polecajacy => Vouched(id) BY <1>2 DEF VouchedFor
<1>6. \A id \in AccountIds : profile[id].polecajacy => profile'[id].polecajacy BY <1>2
<1> QED BY <1>1, <1>2, <1>3, <1>4, <1>5, <1>6, RequestVouches

LEMMA CreatingVouches ==
    ASSUME AccountsSound, VouchedFor, NEW p \in Addresses, U!CustomSignupForm_save(p) \/ U!SaveCandidate(p)
    PROVE  VouchedFor'
<1> DEFINE a == submission[p].address
           t == submission[p].at
<1>1. PICK id, vouched, new :
        /\ id \in AccountIds /\ vouched \in BOOLEAN /\ ~U!Exists(id)
        /\ user' = [user EXCEPT ![id] = [state |-> "active", mail |-> a, vouched |-> vouched]]
        /\ submission' = [submission EXCEPT ![p] = new]
        /\ IF vouched THEN new = [do |-> "proposed", id |-> id, address |-> a] ELSE new.do = "mail"
  <2>1. CASE U!CustomSignupForm_save(p)
    <3>1. PICK id \in U!Next_id : U!Created(id, "active", a, FALSE, t) /\ U!Becomes(p, [do |-> "mail", id |-> id])
      BY <2>1 DEF U!CustomSignupForm_save
    <3>2. id \in AccountIds /\ ~U!Exists(id) BY DEF U!Next_id
    <3>3. [do |-> "mail", id |-> id].do = "mail" OBVIOUS
    <3> QED BY <3>1, <3>2, <3>3 DEF U!Created, U!Becomes
  <2>2. CASE U!SaveCandidate(p)
    <3>1. PICK id \in U!Next_id : /\ U!Created(id, "active", a, TRUE, t)
                                  /\ U!Becomes(p, [do |-> "proposed", id |-> id, address |-> a])
      BY <2>2 DEF U!SaveCandidate
    <3>2. id \in AccountIds /\ ~U!Exists(id) BY DEF U!Next_id
    <3> QED BY <3>1, <3>2 DEF U!Created, U!Becomes
  <2> QED BY <2>1, <2>2
<1>2. /\ Starting(p) /\ addresses \subseteq addresses'
      /\ UNCHANGED <<profile, overwritten>>
  BY DEF U!CustomSignupForm_save, U!SaveCandidate, Starting
<1> HIDE DEF a, t
<1>3. /\ \A q \in Addresses \ {p} : submission'[q] = submission[q]
      /\ submission'[p] = new /\ submission[p].do \in {"signup", "propose"}
      /\ new.do \notin {"confirmed"} \cup Loads
      /\ vouched => new.do = "proposed" /\ new.id = id /\ new.address = a
      /\ ~vouched => new.do = "mail"
  <2>1. new.do \in {"mail", "proposed"} BY <1>1
  <2> QED BY <1>1, <1>2, <2>1 DEF AccountsSound, AccountsTyped, Starting, Loads
<1>4. /\ user'[id].state = "active" /\ user'[id].mail = a /\ user'[id].vouched = vouched
      /\ \A j \in AccountIds \ {id} : user'[j] = user[j]
  BY <1>1 DEF AccountsSound, AccountsTyped
<1>5. /\ \A j \in AccountIds : Vouched(j) => j # id /\ Vouched(j)'
      /\ \A j \in AccountIds : Vouched(j)' => Vouched(j) \/ (j = id /\ vouched)
      /\ \A j \in AccountIds : U!Exists(j) => user'[j].mail = user[j].mail
      /\ Vouched(id)' <=> vouched
  BY <1>1, <1>4 DEF Vouched, U!Exists
<1>6. \A j \in AccountIds : VouchingIsDue(j) => VouchingIsDue(j)' BY <1>3 DEF VouchingIsDue
<1>7. vouched => VouchingIsDue(id)' BY <1>3 DEF VouchingIsDue
<1>8. \A q \in Addresses : Holding(q)' /\ submission'[q].loaded.polecajacy =>
        submission'[q].id \in AccountIds /\ Vouched(submission'[q].id)
  <2> SUFFICES ASSUME NEW q \in Addresses, Holding(q)', submission'[q].loaded.polecajacy
               PROVE  submission'[q].id \in AccountIds /\ Vouched(submission'[q].id)
    OBVIOUS
  <2>1. q # p BY <1>3 DEF Holding, Filling
  <2>2. Holding(q) /\ submission'[q] = submission[q] BY <1>3, <2>1 DEF Holding, Filling
  <2>3. submission[q].id \in AccountIds
    BY <2>2, SubmissionIs DEF AccountsSound, Holding, Confirmings, Fillings
  <2> QED BY <2>2, <2>3 DEF VouchedFor, Holding
<1>9. \A q \in Addresses : Proposing(q)' =>
        \/ Proposing(q) /\ submission'[q].id = submission[q].id /\ submission'[q].address = submission[q].address
        \/ Vouched(submission[q].id)' /\ user'[submission'[q].id].mail = submission'[q].address
  <2> SUFFICES ASSUME NEW q \in Addresses, Proposing(q)', q = p
               PROVE  Vouched(submission[q].id)' /\ user'[submission'[q].id].mail = submission'[q].address
    BY <1>3 DEF Proposing
  <2>1. vouched /\ submission'[q].id = id /\ submission'[q].address = a BY <1>3 DEF Proposing
  <2> QED BY <1>4, <2>1 DEF Vouched, U!Exists
<1>10. \A j \in AccountIds : HasPrimary(j) => HasPrimary(j)' BY <1>2 DEF HasPrimary
<1>11. \A j \in AccountIds : profile'[j].polecajacy => Vouched(j) BY <1>2 DEF VouchedFor
<1> QED BY <1>2, <1>5, <1>6, <1>7, <1>8, <1>9, <1>10, <1>11, VouchedKept

LEMMA StateVouches ==
    ASSUME AccountsSound, VouchedFor,
           \/ \E p \in Addresses : U!DeactivateNewUser(p) \/ U!DeactivateCandidate(p)
           \/ \E id \in AccountIds : U!Accept(id)
    PROVE  VouchedFor'
<1>1. PICK id \in AccountIds, state \in {"candidate", "citizen"} :
        /\ user' = [user EXCEPT ![id].state = state] /\ U!Exists(id)
        /\ \A q \in Addresses : \/ submission'[q] = submission[q]
                                \/ submission[q].do = "signed up" /\ submission'[q].do = "rest"
                                \/ /\ submission[q].do = "proposed" /\ submission'[q].do = "vouching"
                                   /\ submission'[q].id = submission[q].id /\ submission'[q].address = submission[q].address
  <2>1. ASSUME NEW p \in Addresses, U!DeactivateNewUser(p)
        PROVE  /\ submission[p].id \in AccountIds /\ U!Exists(submission[p].id)
               /\ user' = [user EXCEPT ![submission[p].id].state = "candidate"]
               /\ \A q \in Addresses : \/ submission'[q] = submission[q]
                                       \/ submission[q].do = "signed up" /\ submission'[q].do = "rest"
    <3>1. Entering(p) BY <2>1 DEF U!DeactivateNewUser, Entering
    <3>2. submission[p].id \in AccountIds /\ U!Exists(submission[p].id)
      BY <3>1, SubmissionIs DEF AccountsSound, SigningUp, U!Exists
    <3>3. U!Rest.do = "rest" BY DEF U!Rest
    <3> QED BY <2>1, <3>2, <3>3 DEF U!DeactivateNewUser, U!Becomes, AccountsSound, AccountsTyped
  <2>2. ASSUME NEW p \in Addresses, U!DeactivateCandidate(p)
        PROVE  /\ submission[p].id \in AccountIds /\ U!Exists(submission[p].id)
               /\ user' = [user EXCEPT ![submission[p].id].state = "candidate"]
               /\ \A q \in Addresses : \/ submission'[q] = submission[q]
                                       \/ /\ submission[q].do = "proposed" /\ submission'[q].do = "vouching"
                                          /\ submission'[q].id = submission[q].id
                                          /\ submission'[q].address = submission[q].address
    <3>1. Entering(p) /\ Proposing(p) BY <2>2 DEF U!DeactivateCandidate, Entering, Proposing
    <3>2. submission[p].id \in AccountIds /\ U!Exists(submission[p].id)
      BY <3>1, SubmissionIs DEF AccountsSound, SigningUp, U!Exists
    <3> DEFINE new == [submission[p] EXCEPT !.do = "vouching"]
    <3>3. submission[p] \in Proposings BY <3>1, SubmissionIs DEF AccountsSound
    <3>4. new.do = "vouching" /\ new.id = submission[p].id /\ new.address = submission[p].address
      BY <3>3 DEF Proposings
    <3>5. submission' = [submission EXCEPT ![p] = new] /\ submission[p].do = "proposed"
      BY <2>2 DEF U!DeactivateCandidate, U!Becomes
    <3> HIDE DEF new
    <3> QED BY <2>2, <3>2, <3>4, <3>5 DEF U!DeactivateCandidate, AccountsSound, AccountsTyped
  <2>3. ASSUME NEW id \in AccountIds, U!Accept(id)
        PROVE  U!Exists(id) /\ user' = [user EXCEPT ![id].state = "citizen"] /\ submission' = submission
    BY <2>3 DEF U!Accept, U!Exists
  <2> QED BY <2>1, <2>2, <2>3
<1>2. UNCHANGED <<profile, addresses, overwritten>>
  BY DEF U!DeactivateNewUser, U!DeactivateCandidate, U!Accept
<1>3. \A j \in AccountIds : user'[j].mail = user[j].mail /\ (Vouched(j)' <=> Vouched(j))
  BY <1>1 DEF AccountsSound, AccountsTyped, Users, Vouched, U!Exists
<1>4. \A j \in AccountIds : VouchingIsDue(j) => VouchingIsDue(j)' BY <1>1 DEF VouchingIsDue
<1>5. \A q \in Addresses : Holding(q)' /\ submission'[q].loaded.polecajacy =>
        submission'[q].id \in AccountIds /\ Vouched(submission'[q].id)
  <2> SUFFICES ASSUME NEW q \in Addresses, Holding(q)', submission'[q].loaded.polecajacy
               PROVE  submission'[q].id \in AccountIds /\ Vouched(submission'[q].id)
    OBVIOUS
  <2>1. submission'[q] = submission[q] /\ Holding(q) BY <1>1 DEF Holding, Filling, Loads
  <2>2. submission[q].id \in AccountIds
    BY <2>1, SubmissionIs DEF AccountsSound, Holding, Confirmings, Fillings
  <2> QED BY <2>1, <2>2 DEF VouchedFor, Holding
<1>6. \A q \in Addresses : Proposing(q)' =>
        Proposing(q) /\ submission'[q].id = submission[q].id /\ submission'[q].address = submission[q].address
  BY <1>1 DEF Proposing
<1>7. \A j \in AccountIds : HasPrimary(j) => HasPrimary(j)' BY <1>2 DEF HasPrimary
<1>8. \A j \in AccountIds : profile'[j].polecajacy => Vouched(j) BY <1>2 DEF VouchedFor
<1> QED BY <1>2, <1>3, <1>4, <1>5, <1>6, <1>7, <1>8, VouchedKept

LEMMA OpenLinkVouches ==
    ASSUME AccountsSound, VouchedFor, NEW p \in Addresses, U!OpenLink(p)
    PROVE  VouchedFor'
<1>1. PICK id, new :
        /\ id \in AccountIds /\ \E r \in addresses : r.of = id
        /\ U!Confirmed(id, p)
        /\ submission' = [submission EXCEPT ![p] = new]
        /\ new.do = "rest" \/ (new.do = "confirmed" /\ new.id = id /\ new.loaded = profile[id])
  <2>1. PICK id \in AccountIds :
          /\ \E r \in addresses : r.of = id
          /\ U!Confirmed(id, p)
          /\ submission' = [submission EXCEPT ![p] = IF profile[id].status # "email_entered" THEN U!Rest
                               ELSE [do |-> "confirmed", id |-> id, loaded |-> profile[id]]]
    BY DEF U!OpenLink, U!Becomes
  <2>2. U!Rest.do = "rest" BY DEF U!Rest
  <2>3. CASE profile[id].status # "email_entered" BY <2>1, <2>2, <2>3
  <2>4. CASE profile[id].status = "email_entered"
    <3> DEFINE current == [do |-> "confirmed", id |-> id, loaded |-> profile[id]]
    <3>1. current.do = "confirmed" /\ current.id = id /\ current.loaded = profile[id] OBVIOUS
    <3>2. submission' = [submission EXCEPT ![p] = current] BY <2>1, <2>4
    <3> HIDE DEF current
    <3> QED BY <2>1, <3>1, <3>2
  <2> QED BY <2>3, <2>4
<1>2. /\ submission[p].do = "rest" /\ UNCHANGED <<profile, overwritten>>
      /\ \A q \in Addresses : submission'[q] = IF q = p THEN new ELSE submission[q]
  BY <1>1 DEF U!OpenLink, U!Rest, AccountsSound, AccountsTyped
<1>3. /\ \A j \in AccountIds \ {id} : user'[j] = user[j]
      /\ user'[id].state = user[id].state /\ user'[id].vouched = user[id].vouched
  <2>1. CASE user[id].mail = p BY <1>1, <2>1 DEF U!Confirmed
  <2>2. CASE user[id].mail # p
    <3>1. user' = [user EXCEPT ![id].mail = p] BY <1>1, <2>2 DEF U!Confirmed
    <3> QED BY <3>1 DEF AccountsSound, AccountsTyped, Users
  <2> QED BY <2>1, <2>2
<1>4. \A j \in AccountIds : Vouched(j)' <=> Vouched(j) BY <1>3 DEF Vouched, U!Exists
<1>5. HasPrimary(id)' /\ \A j \in AccountIds : HasPrimary(j) => HasPrimary(j)'
  <2>1. addresses' = {r \in addresses : r.of # id} \cup {U!Row(id, p, TRUE, TRUE)} BY <1>1 DEF U!Confirmed
  <2>2. LET r == U!Row(id, p, TRUE, TRUE) IN r.of = id /\ r.verified /\ r.primary BY DEF U!Row
  <2> QED BY <2>1, <2>2 DEF HasPrimary
<1>6. \A j \in AccountIds : VouchingIsDue(j) => VouchingIsDue(j)' BY <1>2 DEF VouchingIsDue
<1>7. \A q \in Addresses : Holding(q)' /\ submission'[q].loaded.polecajacy =>
        submission'[q].id \in AccountIds /\ Vouched(submission'[q].id)
  <2> SUFFICES ASSUME NEW q \in Addresses, Holding(q)', submission'[q].loaded.polecajacy
               PROVE  submission'[q].id \in AccountIds /\ Vouched(submission'[q].id)
    OBVIOUS
  <2>1. CASE q = p
    <3>1. new.do \in {"confirmed"} \cup Loads BY <1>2, <2>1 DEF Holding, Filling
    <3>2. new.id = id /\ new.loaded = profile[id] BY <1>1, <3>1 DEF Loads
    <3>3. submission'[q] = new /\ id \in AccountIds BY <1>1, <1>2, <2>1
    <3> QED BY <3>2, <3>3 DEF VouchedFor
  <2>2. CASE q # p
    <3>1. Holding(q) /\ submission'[q] = submission[q] BY <1>2, <2>2 DEF Holding, Filling
    <3>2. submission[q].id \in AccountIds
      BY <3>1, SubmissionIs DEF AccountsSound, Holding, Confirmings, Fillings
    <3> QED BY <3>1, <3>2 DEF VouchedFor, Holding
  <2> QED BY <2>1, <2>2
<1>8. \A q \in Addresses : Proposing(q)' =>
        Proposing(q) /\ submission'[q].id = submission[q].id /\ submission'[q].address = submission[q].address
  BY <1>1, <1>2 DEF Proposing
<1>9. \A j \in AccountIds : profile'[j].polecajacy => Vouched(j) BY <1>2 DEF VouchedFor
<1>10. \A j \in AccountIds : user'[j].mail = user[j].mail \/ HasPrimary(j)' BY <1>3, <1>5
<1> QED BY <1>2, <1>4, <1>5, <1>6, <1>7, <1>8, <1>9, <1>10, VouchedKept

(* Saving the profile as it was loaded.                                    *)
LEMMA SavingVouches ==
    ASSUME AccountsSound, VouchedFor, NEW p \in Addresses,
           U!set_onboarding_email_confirmed(p) \/ U!SaveForm(p) \/ U!SaveStatus(p) \/ U!SaveEdit(p)
    PROVE  VouchedFor'
<1> DEFINE id == submission[p].id
           old == submission[p].loaded
<1>1. submission[p].do \in {"confirmed", "form", "status", "edit"}
  BY DEF U!set_onboarding_email_confirmed, U!SaveForm, U!SaveStatus, U!SaveEdit
<1>2. Holding(p) /\ id \in AccountIds /\ old \in Profiles /\ ~Proposing(p)
  <2>1. Holding(p) /\ ~Proposing(p) BY <1>1 DEF Holding, Filling, Proposing, Loads
  <2>2. submission[p] \in Confirmings \cup Fillings BY <2>1, SubmissionIs DEF AccountsSound, Holding
  <2> QED BY <2>1, <2>2 DEF Confirmings, Fillings
<1>3. PICK stored, new :
        /\ stored \in Profiles /\ U!Save(id, old, stored) /\ stored.polecajacy = old.polecajacy
        /\ submission' = [submission EXCEPT ![p] = new]
        /\ new.do = "rest" \/ (new.do = "account" /\ new.id = id /\ new.loaded = stored)
  <2>0. U!Rest.do = "rest" BY DEF U!Rest
  <2>1. CASE U!set_onboarding_email_confirmed(p)
    <3>1. [old EXCEPT !.status = "email_confirmed"] \in Profiles
          /\ [old EXCEPT !.status = "email_confirmed"].polecajacy = old.polecajacy
      BY <1>2 DEF Profiles
    <3> QED BY <2>0, <2>1, <3>1 DEF U!set_onboarding_email_confirmed, U!Becomes
  <2>2. CASE U!SaveStatus(p)
    <3>1. [old EXCEPT !.status = "form_completed"] \in Profiles
          /\ [old EXCEPT !.status = "form_completed"].polecajacy = old.polecajacy
      BY <1>2 DEF Profiles
    <3> QED BY <2>0, <2>2, <3>1 DEF U!SaveStatus, U!Becomes
  <2>3. CASE U!SaveForm(p) \/ U!SaveEdit(p)
    <3> DEFINE stored == [old EXCEPT !.form = submission[p].form]
               later == [submission[p] EXCEPT !.do = "account", !.loaded = stored]
    <3>1. submission[p] \in Fillings
      <4>1. Filling(p) BY <2>3 DEF U!SaveForm, U!SaveEdit, Filling, Loads
      <4> QED BY <4>1, SubmissionIs DEF AccountsSound
    <3>2. stored \in Profiles /\ stored.polecajacy = old.polecajacy BY <1>2, <3>1 DEF Profiles, Fillings
    <3>3. U!Save(id, old, stored) BY <2>3 DEF U!SaveForm, U!SaveEdit
    <3>4. submission' = [submission EXCEPT ![p] = later] \/ submission' = [submission EXCEPT ![p] = U!Rest]
      BY <2>3 DEF U!SaveForm, U!SaveEdit, U!Becomes
    <3> HIDE DEF stored
    <3>5. later.do = "account" /\ later.id = id /\ later.loaded = stored BY <3>1 DEF Fillings
    <3> HIDE DEF later
    <3> QED BY <2>0, <3>2, <3>3, <3>4, <3>5
  <2> QED BY <2>1, <2>2, <2>3
<1>4. UNCHANGED <<user, addresses>>
  BY DEF U!set_onboarding_email_confirmed, U!SaveForm, U!SaveStatus, U!SaveEdit
<1>5. old.polecajacy => Vouched(id) BY <1>2 DEF VouchedFor, Holding
<1> HIDE DEF id, old
<1>6. /\ overwritten \subseteq overwritten' /\ profile'[id] = stored
      /\ \A j \in AccountIds \ {id} : profile'[j] = profile[j]
      /\ id \notin overwritten' => profile[id] = old
  BY <1>2, <1>3, ProfileSaved
<1>7. \A j \in AccountIds : profile'[j].polecajacy => Vouched(j) BY <1>3, <1>5, <1>6 DEF VouchedFor
<1>8. \A j \in AccountIds \ overwritten' : profile[j].polecajacy => profile'[j].polecajacy BY <1>3, <1>6
<1>9. new.do \notin {"proposed", "vouching", "entering"} BY <1>3
<1>10. new.do \in {"confirmed"} \cup Loads /\ new.loaded.polecajacy => new.id \in AccountIds /\ Vouched(new.id)
  BY <1>2, <1>3, <1>5 DEF Loads
<1> QED BY <1>2, <1>3, <1>4, <1>6, <1>7, <1>8, <1>9, <1>10, RequestVouches

(* The profile that names the proposer, and the address.                   *)
LEMMA ProposingVouches ==
    ASSUME AccountsSound, VouchedFor, NEW p \in Addresses, U!SaveCandidateProfile(p) \/ U!EnterAddress(p)
    PROVE  VouchedFor'
<1> DEFINE id == submission[p].id
           stored == [U!NoProfile EXCEPT !.polecajacy = TRUE]
           new == [submission[p] EXCEPT !.do = "entering"]
<1>1. submission[p] \in Proposings /\ id \in AccountIds /\ Vouched(id) /\ Proposing(p)
  <2>1. Proposing(p) BY DEF U!SaveCandidateProfile, U!EnterAddress, Proposing
  <2>2. submission[p] \in Proposings BY <2>1, SubmissionIs DEF AccountsSound
  <2> QED BY <2>1, <2>2 DEF VouchedFor, Proposings
<1>2. CASE U!SaveCandidateProfile(p)
  <2>1. /\ submission[p].do = "vouching" /\ U!Save(id, U!NoProfile, stored)
        /\ submission' = [submission EXCEPT ![p] = new] /\ UNCHANGED <<user, addresses>>
    BY <1>2 DEF U!SaveCandidateProfile, U!Becomes
  <2>2. U!NoProfile \in Profiles /\ stored \in Profiles /\ stored.polecajacy BY DEF Profiles, U!NoProfile
  <2>3. new.do = "entering" /\ new.id = id /\ new.address = submission[p].address BY <1>1 DEF Proposings
  <2> HIDE DEF stored, new
  <2>4. /\ overwritten \subseteq overwritten' /\ profile'[id] = stored
        /\ \A j \in AccountIds \ {id} : profile'[j] = profile[j]
    BY <1>1, <2>1, <2>2, ProfileSaved
  <2>5. \A j \in AccountIds : profile'[j].polecajacy => Vouched(j) BY <1>1, <2>4 DEF VouchedFor
  <2>6. \A j \in AccountIds : profile[j].polecajacy => profile'[j].polecajacy BY <2>2, <2>4
  <2>7. new.do \notin {"confirmed"} \cup Loads BY <2>3 DEF Loads
  <2> QED BY <2>1, <2>2, <2>3, <2>4, <2>5, <2>6, <2>7, RequestVouches
<1>3. CASE U!EnterAddress(p)
  <2>1. /\ submission[p].do = "entering" /\ submission' = [submission EXCEPT ![p] = U!Rest]
        /\ addresses \subseteq addresses' /\ UNCHANGED <<user, profile, overwritten>>
    BY <1>3 DEF U!EnterAddress, U!Becomes
  <2>2. U!Rest.do = "rest" BY DEF U!Rest
  <2>3. \A q \in Addresses : submission'[q] = IF q = p THEN U!Rest ELSE submission[q]
    BY <2>1 DEF AccountsSound, AccountsTyped
  <2>4. \A j \in AccountIds : VouchingIsDue(j) => VouchingIsDue(j)' BY <2>1, <2>3 DEF VouchingIsDue
  <2>5. \A q \in Addresses : Holding(q)' /\ submission'[q].loaded.polecajacy =>
          submission'[q].id \in AccountIds /\ Vouched(submission'[q].id)
    <3> SUFFICES ASSUME NEW q \in Addresses, Holding(q)', submission'[q].loaded.polecajacy
                 PROVE  submission'[q].id \in AccountIds /\ Vouched(submission'[q].id)
      OBVIOUS
    <3>1. Holding(q) /\ submission'[q] = submission[q] BY <2>2, <2>3 DEF Holding, Filling, Loads
    <3>2. submission[q].id \in AccountIds
      BY <3>1, SubmissionIs DEF AccountsSound, Holding, Confirmings, Fillings
    <3> QED BY <3>1, <3>2 DEF VouchedFor, Holding
  <2>6. \A q \in Addresses : Proposing(q)' => Proposing(q) /\ submission'[q] = submission[q]
    BY <2>2, <2>3 DEF Proposing
  <2>7. \A j \in AccountIds : (HasPrimary(j) => HasPrimary(j)') /\ (Vouched(j)' <=> Vouched(j))
    BY <2>1 DEF HasPrimary, Vouched, U!Exists
  <2>8. \A j \in AccountIds : profile'[j].polecajacy => Vouched(j) BY <2>1 DEF VouchedFor
  <2> QED BY <2>1, <2>4, <2>5, <2>6, <2>7, <2>8, VouchedKept
<1> QED BY <1>2, <1>3

LEMMA SaveAccountVouches ==
    ASSUME AccountsSound, VouchedFor, NEW p \in Addresses, U!SaveAccount(p)
    PROVE  VouchedFor'
<1> DEFINE r == submission[p]
           id == r.id
           later == [r EXCEPT !.do = "status"]
<1>1. r.do \in {"account", "name"} /\ r \in Fillings /\ Filling(p)
  <2>1. r.do \in {"account", "name"} BY DEF U!SaveAccount
  <2>2. Filling(p) BY <2>1 DEF Filling, Loads
  <2> QED BY <2>1, <2>2, SubmissionIs DEF AccountsSound
<1>2. id \in AccountIds /\ later.do = "status" /\ later.id = id /\ later.loaded = r.loaded BY <1>1 DEF Fillings
<1>3. /\ user' = [user EXCEPT ![id] = r.user]
      /\ overwritten' = IF user[id] # r.user THEN overwritten \cup {id} ELSE overwritten
      /\ UNCHANGED <<profile, addresses>>
      /\ submission' = [submission EXCEPT ![p] = U!Rest] \/ submission' = [submission EXCEPT ![p] = later]
  BY DEF U!SaveAccount, U!SaveUser, U!Becomes
<1> HIDE DEF later
<1>4. /\ \A q \in Addresses \ {p} : submission'[q] = submission[q]
      /\ submission'[p].do = "rest" \/ submission'[p] = later
  <2>1. U!Rest.do = "rest" BY DEF U!Rest
  <2> QED BY <1>3, <2>1 DEF AccountsSound, AccountsTyped
<1>5. U!Exists(id) /\ r.user.state # "none" /\ r.user.vouched = user[id].vouched
  BY <1>1 DEF AccountsSound, AccountsExist
<1>6. /\ user'[id] = r.user /\ \A j \in AccountIds \ {id} : user'[j] = user[j]
      /\ overwritten \subseteq overwritten' /\ (id \notin overwritten' => user'[id] = user[id])
  BY <1>2, <1>3 DEF AccountsSound, AccountsTyped
<1> HIDE DEF id
<1>7. \A j \in AccountIds : Vouched(j)' <=> Vouched(j) BY <1>5, <1>6 DEF Vouched, U!Exists
<1>8. \A j \in AccountIds : VouchingIsDue(j) => VouchingIsDue(j)' BY <1>1, <1>4 DEF VouchingIsDue
<1>9. \A q \in Addresses : Holding(q)' /\ submission'[q].loaded.polecajacy =>
        submission'[q].id \in AccountIds /\ Vouched(submission'[q].id)
  <2> SUFFICES ASSUME NEW q \in Addresses, Holding(q)', submission'[q].loaded.polecajacy
               PROVE  submission'[q].id \in AccountIds /\ Vouched(submission'[q].id)
    OBVIOUS
  <2>1. Holding(q) /\ submission'[q].id = submission[q].id /\ submission'[q].loaded = submission[q].loaded
    <3>1. CASE q = p
      <4>1. submission'[p] = later BY <1>4, <3>1 DEF Holding, Filling, Loads
      <4> QED BY <1>1, <1>2, <3>1, <4>1 DEF Holding, id
    <3>2. CASE q # p BY <1>4, <3>2 DEF Holding, Filling
    <3> QED BY <3>1, <3>2
  <2>2. submission[q].id \in AccountIds
    BY <2>1, SubmissionIs DEF AccountsSound, Holding, Confirmings, Fillings
  <2> QED BY <2>1, <2>2 DEF VouchedFor, Holding
<1>10. \A q \in Addresses : Proposing(q)' => Proposing(q) /\ submission'[q] = submission[q]
  BY <1>2, <1>4 DEF Proposing
<1>11. \A j \in AccountIds : HasPrimary(j)' <=> HasPrimary(j) BY <1>3 DEF HasPrimary
<1>12. \A j \in AccountIds : profile'[j].polecajacy => Vouched(j) BY <1>3 DEF VouchedFor
<1> QED BY <1>3, <1>6, <1>7, <1>8, <1>9, <1>10, <1>11, <1>12, VouchedKept

(* What an account has of addresses, verified and first, it keeps.         *)
LEMMA TableVouches ==
    ASSUME AccountsSound, VouchedFor,
           (\E id \in AccountIds : U!change_email(id)) \/ U!normalize_email_case \/ UNCHANGED U!vars
    PROVE  VouchedFor'
<1>1. UNCHANGED <<user, profile, submission, overwritten>>
  BY DEF U!change_email, U!normalize_email_case, U!vars
<1>2. \A j \in AccountIds : HasPrimary(j) => HasPrimary(j)'
  <2>1. ASSUME NEW id \in AccountIds, U!change_email(id) PROVE \A j \in AccountIds : HasPrimary(j) => HasPrimary(j)'
    BY <2>1 DEF U!change_email, HasPrimary
  <2>2. CASE U!normalize_email_case
    <3>1. ~U!Conflict /\ addresses' = U!Written BY <2>2 DEF U!normalize_email_case
    <3>2. AccountsTyped BY DEF AccountsSound
    <3> QED BY <3>1, <3>2, OneIsWritten, WrittenIs DEF HasPrimary
  <2>3. CASE UNCHANGED U!vars BY <2>3 DEF U!vars, HasPrimary
  <2> QED BY <2>1, <2>2, <2>3
<1>3. \A j \in AccountIds : Vouched(j)' <=> Vouched(j) BY <1>1 DEF Vouched, U!Exists
<1>4. /\ \A id : VouchingIsDue(id) => VouchingIsDue(id)'
      /\ \A id \in AccountIds : profile'[id].polecajacy => Vouched(id)
      /\ \A q \in Addresses : Holding(q)' /\ submission'[q].loaded.polecajacy =>
            submission'[q].id \in AccountIds /\ Vouched(submission'[q].id)
      /\ \A q \in Addresses : Proposing(q)' =>
            Proposing(q) /\ submission'[q].id = submission[q].id /\ submission'[q].address = submission[q].address
  BY <1>1, RequestsStay
<1> QED BY <1>1, <1>2, <1>3, <1>4, VouchedKept

-----------------------------------------------------------------------------

LEMMA AccountsStep ==
    ASSUME AccountsSound, VouchedFor, U!Next \/ UNCHANGED U!vars
    PROVE  AccountsSound' /\ VouchedFor'
<1>1. ASSUME NEW p \in Addresses,
             \/ U!SignUp(p) \/ U!CustomSignupForm_save(p) \/ U!send_confirmation_mail(p) \/ U!DeactivateNewUser(p)
             \/ U!dodaj(p) \/ U!SaveCandidate(p) \/ U!DeactivateCandidate(p) \/ U!SaveCandidateProfile(p) \/ U!EnterAddress(p)
             \/ U!OpenLink(p) \/ U!set_onboarding_email_confirmed(p)
             \/ U!onboarding_details(p) \/ U!SaveForm(p) \/ U!SaveAccount(p) \/ U!SaveStatus(p)
             \/ U!change_username(p) \/ U!candidate_edit(p) \/ U!SaveEdit(p)
      PROVE  AccountsSound' /\ VouchedFor'
  <2>1. CASE U!SignUp(p) \/ U!dodaj(p) BY <2>1, AskingKeeps, AskingVouches
  <2>2. CASE U!CustomSignupForm_save(p) \/ U!SaveCandidate(p) BY <2>2, CreatingKeeps, CreatingVouches
  <2>3. CASE U!send_confirmation_mail(p) BY <2>3, MailKeeps, AskingVouches
  <2>4. CASE U!DeactivateNewUser(p) \/ U!DeactivateCandidate(p) BY <2>4, StateKeeps, StateVouches
  <2>5. CASE U!OpenLink(p) BY <2>5, OpenLinkKeeps, OpenLinkVouches
  <2>6. CASE U!set_onboarding_email_confirmed(p) BY <2>6, ConfirmingKeeps, SavingVouches
  <2>7. CASE U!onboarding_details(p) \/ U!change_username(p) \/ U!candidate_edit(p) BY <2>7, LoadingKeeps, AskingVouches
  <2>8. CASE U!SaveForm(p) \/ U!SaveStatus(p) \/ U!SaveEdit(p) BY <2>8, FillingInKeeps, SavingVouches
  <2>9. CASE U!SaveAccount(p) BY <2>9, SaveAccountKeeps, SaveAccountVouches
  <2>10. CASE U!SaveCandidateProfile(p) BY <2>10, VouchingKeeps, ProposingVouches
  <2>11. CASE U!EnterAddress(p) BY <2>11, EnteringKeeps, ProposingVouches
  <2> QED BY <1>1, <2>1, <2>2, <2>3, <2>4, <2>5, <2>6, <2>7, <2>8, <2>9, <2>10, <2>11
<1>2. ASSUME NEW id \in AccountIds, U!Accept(id) PROVE AccountsSound' /\ VouchedFor' BY <1>2, StateKeeps, StateVouches
<1>3. ASSUME NEW id \in AccountIds, U!change_email(id) PROVE AccountsSound' /\ VouchedFor'
  BY <1>3, ChangingKeeps, TableVouches
<1>4. CASE U!normalize_email_case BY <1>4, NormalizingKeeps, TableVouches
<1>5. CASE UNCHANGED U!vars
  <2>1. UNCHANGED <<user, profile, addresses, links, submission, changes, since, checked, answered, opened, overwritten,
                    accepted, unsent, accountsLeft>>
    BY <1>5 DEF U!vars
  <2>2. AccountsTyped' /\ AccountsExist' BY <2>1 DEF AccountsSound, AccountsTyped, AccountsExist, U!Exists, Filling
  <2>3. LookedBefore' BY <2>1 DEF AccountsSound, LookedBefore, U!Exists, U!Holds, Starting
  <2>4. VerifiedRows' /\ SigningUp' BY <2>1 DEF AccountsSound, VerifiedRows, SigningUp, Entering, Filling
  <2>5. CanConfirm' BY <2>1 DEF AccountsSound, CanConfirm, U!Verified, MailIsDue, HasRow
  <2>6. LetIn' /\ FormsStored' BY <2>1 DEF AccountsSound, LetIn, FormsStored, FormIsDue
  <2>7. VouchedFor' BY <1>5, TableVouches
  <2> QED BY <2>2, <2>3, <2>4, <2>5, <2>6, <2>7 DEF AccountsSound
<1> QED BY <1>1, <1>2, <1>3, <1>4, <1>5 DEF U!Next

(* Whoever has an address alone among the active is logged in by it.       *)
LEMMA LoggedIn ==
    ASSUME NEW id \in AccountIds, user[id].state = "citizen",
           \A j \in AccountIds \ {id} : ~(user[j].state \in {"active", "citizen"} /\ user[j].mail = user[id].mail),
           \A j \in AccountIds : user[j].state \in {"none", "active", "candidate", "citizen"}
    PROVE  U!authenticate(user[id].mail) = {id}
<1> DEFINE found == {j \in AccountIds : U!Holds(j, user[id].mail)}
           actives == {j \in found : user[j].state # "candidate"}
<1>1. actives = {id} BY DEF U!Holds, U!Exists
<1>2. U!Cardinality(actives) = 1 BY <1>1, FS_Singleton, Counting
<1>3. U!authenticate(user[id].mail) = IF U!Cardinality(found) = 1 \/ U!Cardinality(actives) = 1 THEN actives ELSE {}
  BY DEF U!authenticate
<1> HIDE DEF actives, found
<1> QED BY <1>1, <1>2, <1>3

LEMMA NormalizingSuffices == ASSUME AccountsTyped PROVE U!NormalizingIsSafe
<1> SUFFICES ASSUME ~U!Conflict
             PROVE  /\ \A id \in AccountIds, address \in Addresses :
                          /\ (\E r \in U!Written : r.of = id /\ r.address = address /\ r.verified) <=> U!Verified(id, address)
                          /\ {r.address : r \in {s \in U!Written : s.of = id /\ s.primary}}
                               = {r.address : r \in {s \in addresses : s.of = id /\ s.primary}}
                    /\ \A r, s \in U!Written : r.of = s.of /\ r.address = s.address => r = s
  BY DEF U!NormalizingIsSafe
<1>1. \A w \in U!Written : \E r \in U!Normalized : /\ r.of = w.of /\ r.address = w.address /\ r.verified = w.verified
                                                   /\ r.primary = w.primary /\ w = [r EXCEPT !.upper = FALSE]
  BY WrittenIs
<1>2. \A r \in addresses : r.verified \/ r.primary =>
         \E w \in U!Written : r.of = w.of /\ r.address = w.address /\ r.verified = w.verified /\ r.primary = w.primary
  BY WrittenIs, OneIsWritten
<1>3. U!Normalized \subseteq addresses BY DEF U!Normalized
<1>4. ASSUME NEW id \in AccountIds, NEW address \in Addresses
      PROVE  (\E r \in U!Written : r.of = id /\ r.address = address /\ r.verified) <=> U!Verified(id, address)
  BY <1>1, <1>2, <1>3 DEF U!Verified
<1>5. ASSUME NEW id \in AccountIds
      PROVE  {r.address : r \in {s \in U!Written : s.of = id /\ s.primary}}
               = {r.address : r \in {s \in addresses : s.of = id /\ s.primary}}
  BY <1>1, <1>2, <1>3
<1>6. ASSUME NEW r \in U!Written, NEW s \in U!Written, r.of = s.of, r.address = s.address PROVE r = s
  <2>1. PICK x \in U!Normalized : x.of = r.of /\ x.address = r.address /\ r = [x EXCEPT !.upper = FALSE] BY <1>1
  <2>2. PICK y \in U!Normalized : y.of = s.of /\ y.address = s.address /\ s = [y EXCEPT !.upper = FALSE] BY <1>1
  <2>3. x = y BY <1>6, <2>1, <2>2, OneIsWritten
  <2> QED BY <2>1, <2>2, <2>3
<1> QED BY <1>4, <1>5, <1>6

LEMMA AccountsSuffices == ASSUME AccountsSound, VouchedFor PROVE U!AccountsInvariant
<1>0. user \in [AccountIds -> Users] /\ AccountsTyped /\ \A id \in AccountIds : user[id].state \in {"none", "active", "candidate", "citizen"}
  BY DEF AccountsSound, AccountsTyped, Users
<1>1. U!TypeOK BY <1>0 DEF AccountsSound, AccountsExist, U!TypeOK, Users
<1>2. U!OneAccountEach BY DEF AccountsSound, LookedBefore, U!OneAccountEach
<1>3. U!CitizensGetIn BY <1>0, LoggedIn DEF U!CitizensGetIn
<1>4. U!ConfirmedIsTrue
  <2> SUFFICES ASSUME NEW id \in AccountIds, ~user[id].vouched, profile[id].polecajacy \/ U!Verified(id, user[id].mail)
               PROVE  <<id, user[id].mail>> \in opened
    BY DEF U!ConfirmedIsTrue, U!is_email_confirmed_for_candidate
  <2>1. ~profile[id].polecajacy BY DEF VouchedFor, Vouched
  <2>2. PICK r \in addresses : r.of = id /\ r.address = user[id].mail /\ r.verified BY <2>1 DEF U!Verified
  <2>3. user[r.of].vouched \/ <<r.of, r.address>> \in opened BY <2>2 DEF AccountsSound, VerifiedRows
  <2> QED BY <2>2, <2>3
<1>5. U!NobodyIsStuck
  <2> SUFFICES ASSUME NEW id \in AccountIds \ (unsent \cup overwritten), user[id].state = "candidate",
                      ~profile[id].polecajacy, ~U!Verified(id, user[id].mail)
               PROVE  \/ <<"confirm", id, user[id].mail>> \in links /\ HasRow(id)
                      \/ \E p \in Addresses : submission[p].do = "vouching" /\ submission[p].id = id
    BY DEF U!NobodyIsStuck, HasRow, U!is_email_confirmed_for_candidate
  <2>1. \A p \in Addresses : Entering(p) => submission[p].id # id BY DEF AccountsSound, SigningUp
  <2>2. CASE user[id].vouched
    <3>1. VouchingIsDue(id) BY <2>2 DEF VouchedFor, Vouched, U!Exists
    <3> QED BY <2>1, <3>1 DEF VouchingIsDue, Entering
  <2>3. CASE ~user[id].vouched
    <3>1. ~MailIsDue(id) BY <2>1 DEF MailIsDue, Entering
    <3> QED BY <2>3, <3>1 DEF AccountsSound, CanConfirm
  <2> QED BY <2>2, <2>3
<1>6. U!AcceptedStay
  <2> SUFFICES ASSUME NEW id \in accepted \ overwritten
               PROVE  /\ user[id].state = "citizen"
                      /\ U!Verified(id, user[id].mail) \/ \A r \in addresses : r.of = id => ~r.verified
    BY DEF U!AcceptedStay
  <2> QED BY DEF AccountsSound, LetIn, VerifiedRows, U!Verified
<1>7. U!FormIsKept
  <2> SUFFICES ASSUME NEW id \in AccountIds \ overwritten, \A p \in Addresses : submission[p].do \notin {"form", "account", "status", "edit"}
               PROVE  /\ profile[id].form = answered[id].form
                      /\ answered[id].own => profile[id].status = "form_completed"
    BY DEF U!FormIsKept
  <2>1. ~FormIsDue(id) BY DEF FormIsDue
  <2> QED BY <2>1 DEF AccountsSound, FormsStored
<1>8. U!NormalizingIsSafe BY <1>0, NormalizingSuffices
<1> QED BY <1>1, <1>2, <1>3, <1>4, <1>5, <1>6, <1>7, <1>8 DEF U!AccountsInvariant

(* However the requests by which people sign up, are proposed, confirm an  *)
(* address, fill in the form and change what was stored overlap: two       *)
(* accounts share an address only if each was looked for before the other  *)
(* had it, an address is called confirmed only if it was, nobody is left   *)
(* without a way to confirm, answers and admissions stay, and the command  *)
(* that writes addresses in small letters loses none.                      *)
THEOREM AccountsInvariantHolds ==
    ASSUME Populated
    PROVE  VotingSpec => [](part = "account" => U!AccountsInvariant)
<1>1. VotingInit => AccountsSound /\ VouchedFor BY AccountsInitSound DEF VotingInit, AccountInit
<1>2. [VotingNext]_all => U!Next \/ UNCHANGED U!vars
  BY DEF VotingNext, ReferendumNext, TalkNext, SettingsNext, ScheduleNext, RoomsNext, NoticesNext, AccountNext,
         SignsNext, MapNext, all, members, account, U!vars
<1>3. AccountsSound /\ VouchedFor /\ [VotingNext]_all => AccountsSound' /\ VouchedFor' BY <1>2, AccountsStep
<1>4. AccountsSound /\ VouchedFor => U!AccountsInvariant BY AccountsSuffices
<1> QED BY <1>1, <1>3, <1>4, PTL DEF VotingSpec

-----------------------------------------------------------------------------
(* The map                                                                 *)

PlaceRecords == [type : {"citizen", "partner", "resource"}, city : Cities \cup {"none"}, house : 0..2,
                 active : BOOLEAN, open : BOOLEAN, community : BOOLEAN]
Entries == [fits : BOOLEAN, centre : BOOLEAN, exact : BOOLEAN, point : Nat]
Locations == [city : Cities, house : 0..2]
Listings == UNION {[Dom -> PlaceRecords] : Dom \in SUBSET Nat}
Resolutions == UNION {[Dom -> Nat] : Dom \in SUBSET Locations}
Outcomes == [point : Nat, of : Seq(Entries)]
Queries == [at : M!Ats, member : BOOLEAN, todo : Listings, resolved : Resolutions, key : M!Keys \cup {M!Idle.key},
            deadline : Nat, until : Nat, ours : BOOLEAN, found : Nat]

(* People enter places in cities, the geocoder answers with entries, and   *)
(* 0 is nobody's name.                                                     *)
Surveyed ==
    /\ 0 \notin Lookups /\ LastSecond \in Nat
    /\ Places \subseteq Seq(PlaceRecords) /\ Replies \subseteq Seq(Entries)

MapTyped ==
    /\ second \in 0..LastSecond /\ places \in Places
    /\ cache \in [M!Keys -> [value : Nat, until : 0..(LastSecond + 5)]]
    /\ lock \in [owner : Lookups \cup {0}, until : Nat]
    /\ next \in Nat /\ last \in Int
    /\ query \in [Lookups -> Queries]
    /\ geocoded \in [M!Keys -> SUBSET Outcomes]

(* Who holds the lock and is not late is its owner, and has it to himself  *)
(* from reading when the next slot may be given to giving it, unless       *)
(* somebody outlived his.                                                  *)
Held == {"held", "free", "granted", "refused", "delete_granted", "delete_refused"}
OneHolds ==
    /\ next = last + 1 /\ ~crowded
    /\ \A r \in Lookups : query[r].at \in Held =>
          /\ lock.owner = r => lock.until = query[r].until
          /\ query[r].at \in {"delete_granted", "delete_refused"} => query[r].ours
    /\ ~outlived => \A r \in Lookups : query[r].at \in Held /\ second < query[r].until =>
          lock.owner = r /\ (query[r].at = "free" => next <= second)

(* An answer about a house has that house and no other place for it.       *)
Exact(results) == {results[i].point : i \in {j \in DOMAIN results : results[j].fits /\ results[j].exact}}
AnswersAreExact ==
    \A k \in M!Keys : k.kind = "address" => \A a \in geocoded[k] : a.point # 0 => Exact(a.of) = {a.point}

(* A request looks for the first location it has not resolved, and what it *)
(* has resolved an answer has said.                                        *)
Said(location, point, answers) ==
    \/ \E a \in answers[[kind |-> "city", city |-> location.city, house |-> 0]] : a.point = point
    \/ location.house # 0 /\ \E a \in answers[[kind |-> "address", city |-> location.city, house |-> location.house]] :
                               a.point = point
Asked(q) == LET f == M!First(M!Foremost(q.todo, q.resolved)) IN q.key \in {f, M!CityOf(f)}
GoesBy(q, answers) ==
    /\ q.at = "done" => M!Unresolved(q.todo, q.resolved) = {}
    /\ q.at \notin {"idle", "done"} => M!Unresolved(q.todo, q.resolved) # {} /\ Asked(q)
    /\ \A l \in DOMAIN q.resolved : q.resolved[l] # 0 => Said(l, q.resolved[l], answers)
    /\ q.at = "store" => \E a \in answers[q.key] : a.point = q.found
    /\ q.at \notin {"idle", "look", "done"} => q.member /\ geocoder # "off"
    /\ q.at \notin {"idle", "look", "store", "done"} => geocoder = "on"

MapSound ==
    /\ MapTyped /\ OneHolds /\ AnswersAreExact /\ M!OnlyAnswersAreRemembered
    /\ \A r \in Lookups : GoesBy(query[r], geocoded)

-----------------------------------------------------------------------------
(* The first location to be looked for                                     *)

LEMMA Least == ASSUME NEW T, T \subseteq Nat, T # {} PROVE \E x \in T : \A y \in T : x <= y
<1> DEFINE R == OpToRel(<, Nat)
<1>1. IsWellFoundedOn(R, Nat) BY Zenon, NatLessThanWellFounded
<1>3. \A y \in Nat, z \in Nat : y < z => <<y, z>> \in R BY DEF R, OpToRel
<1> HIDE DEF R
<1>2. PICK x \in T : \A y \in T : ~(<<y, x>> \in R) BY <1>1, WFMin
<1>4. ASSUME NEW y \in T PROVE x <= y
  <2>1. ~(<<y, x>> \in R) BY <1>2
  <2>2. y \in Nat /\ x \in Nat OBVIOUS
  <2>3. ~(y < x) BY <1>3, <2>1, <2>2
  <2> QED BY <2>2, <2>3
<1> QED BY <1>4

LEMMA MinIs == ASSUME NEW T, T \subseteq Nat, T # {} PROVE M!Min(T) \in T
BY Least DEF M!Min

LEMMA ListingsAre ==
    /\ \A todo \in Listings : DOMAIN todo \subseteq Nat /\ \A i \in DOMAIN todo : todo[i] \in PlaceRecords
    /\ \A resolved \in Resolutions : DOMAIN resolved \subseteq Locations /\ \A l \in DOMAIN resolved : resolved[l] \in Nat
    /\ <<>> \in Listings /\ <<>> \in Resolutions /\ DOMAIN <<>> = {}
<1>1. <<>> \in [{} -> PlaceRecords] /\ <<>> \in [{} -> Nat] /\ DOMAIN <<>> = {} OBVIOUS
<1>2. <<>> \in Listings BY <1>1 DEF Listings
<1>3. <<>> \in Resolutions BY <1>1 DEF Resolutions
<1>4. ASSUME NEW todo \in Listings
      PROVE  DOMAIN todo \subseteq Nat /\ \A i \in DOMAIN todo : todo[i] \in PlaceRecords
  <2>1. PICK Dom \in SUBSET Nat : todo \in [Dom -> PlaceRecords] BY DEF Listings
  <2> QED BY <2>1
<1>5. ASSUME NEW resolved \in Resolutions
      PROVE  DOMAIN resolved \subseteq Locations /\ \A l \in DOMAIN resolved : resolved[l] \in Nat
  <2>1. PICK Dom \in SUBSET Locations : resolved \in [Dom -> Nat] BY DEF Resolutions
  <2> QED BY <2>1
<1> QED BY <1>1, <1>2, <1>3, <1>4, <1>5

LEMMA LocationIs == ASSUME NEW rec \in PlaceRecords PROVE M!location_key(rec) \in Locations \cup {M!Nowhere}
BY DEF PlaceRecords, Locations, M!location_key, M!NoCity

LEMMA KeysAre ==
    ASSUME NEW l \in Locations
    PROVE  /\ M!First(l) \in M!Keys /\ M!CityOf(M!First(l)) \in M!Keys
           /\ M!CityOf(M!First(l)) = [kind |-> "city", city |-> l.city, house |-> 0]
           /\ M!First(l).kind = "city" => M!First(l) = [kind |-> "city", city |-> l.city, house |-> 0]
           /\ M!First(l).kind # "city" => /\ l.house # 0 /\ M!First(l).kind = "address"
                                          /\ M!First(l) = [kind |-> "address", city |-> l.city, house |-> l.house]
BY DEF Locations, M!First, M!CityOf, M!Keys

LEMMA ForemostIs ==
    ASSUME NEW todo \in Listings, NEW resolved \in Resolutions, M!Unresolved(todo, resolved) # {}
    PROVE  M!Foremost(todo, resolved) \in Locations
<1>1. M!Unresolved(todo, resolved) \subseteq Nat BY ListingsAre DEF M!Unresolved
<1>2. M!Min(M!Unresolved(todo, resolved)) \in M!Unresolved(todo, resolved) BY <1>1, MinIs
<1>3. PICK i \in DOMAIN todo : M!Foremost(todo, resolved) = M!location_key(todo[i]) /\ M!location_key(todo[i]) # M!Nowhere
  BY <1>2 DEF M!Foremost, M!Unresolved
<1>4. todo[i] \in PlaceRecords BY ListingsAre
<1> QED BY <1>3, <1>4, LocationIs

-----------------------------------------------------------------------------
(* A request goes on to the next location                                  *)

LEMMA IdleIs ==
    /\ M!Idle \in Queries /\ M!Idle.at = "idle" /\ M!Idle.todo = <<>> /\ M!Idle.resolved = <<>>
    /\ M!Idle.deadline = 0 /\ M!Idle.until = 0 /\ M!Idle.found = 0
BY ListingsAre DEF M!Idle, Queries, M!Ats

LEMMA ProceedIs ==
    ASSUME MapTyped, NEW r \in Lookups, NEW todo \in Listings, NEW resolved \in Resolutions, M!Proceed(r, todo, resolved),
           \A l \in DOMAIN resolved : resolved[l] # 0 => Said(l, resolved[l], geocoded)
    PROVE  \E new \in Queries :
              /\ query' = [query EXCEPT ![r] = new] /\ new.at \in {"look", "done"}
              /\ GoesBy(new, geocoded)
<1> DEFINE over == M!Unresolved(todo, resolved) = {}
           at == IF over THEN "done" ELSE "look"
           sought == IF over THEN M!Idle.key ELSE M!First(M!Foremost(todo, resolved))
           new == [query[r] EXCEPT !.todo = todo, !.resolved = resolved, !.deadline = 0, !.found = 0, !.at = at, !.key = sought]
<1>1. query \in [Lookups -> Queries] /\ query[r] \in Queries BY DEF MapTyped
<1>2. query' = [query EXCEPT ![r].todo = todo, ![r].resolved = resolved, ![r].deadline = 0, ![r].found = 0,
                             ![r].at = at, ![r].key = sought]
  BY DEF M!Proceed
<1>3. at \in {"look", "done"} /\ at \in M!Ats /\ (at = "done" <=> over) BY DEF M!Ats
<1>4. sought \in M!Keys \cup {M!Idle.key} /\ (~over => sought = M!First(M!Foremost(todo, resolved)))
  BY ForemostIs, KeysAre
<1> HIDE DEF at, sought
<1>5. query' = [query EXCEPT ![r] = new] BY <1>1, <1>2 DEF Queries
<1>6. new \in Queries BY <1>1, <1>3, <1>4 DEF Queries
<1>7. new.at = at /\ new.todo = todo /\ new.resolved = resolved /\ new.key = sought BY <1>1 DEF Queries
<1> HIDE DEF new
<1>8. GoesBy(new, geocoded) BY <1>3, <1>4, <1>7 DEF GoesBy, Asked
<1> QED BY <1>3, <1>5, <1>6, <1>7, <1>8

LEMMA ResolveIs ==
    ASSUME MapSound, NEW r \in Lookups, NEW point \in Nat, M!Resolve(r, point), query[r].at \notin {"idle", "done"},
           point # 0 => \E a \in geocoded[query[r].key] : a.point = point
    PROVE  \E new \in Queries :
              /\ query' = [query EXCEPT ![r] = new] /\ new.at \in {"look", "done"}
              /\ GoesBy(new, geocoded)
<1> DEFINE todo == query[r].todo
           old == query[r].resolved
           location == M!Foremost(todo, old)
           resolved == [l \in DOMAIN old \cup {location} |-> IF l = location THEN point ELSE old[l]]
<1>1. query[r] \in Queries /\ todo \in Listings /\ old \in Resolutions BY DEF MapSound, MapTyped, Queries
<1>2. /\ M!Unresolved(todo, old) # {} /\ query[r].key \in {M!First(location), M!CityOf(M!First(location))}
      /\ \A l \in DOMAIN old : old[l] # 0 => Said(l, old[l], geocoded)
  BY DEF MapSound, GoesBy, Asked
<1>3. location \in Locations BY <1>1, <1>2, ForemostIs
<1>4. point # 0 => Said(location, point, geocoded) BY <1>2, <1>3, KeysAre DEF Said
<1>5. M!Proceed(r, todo, resolved) BY DEF M!Resolve
<1> HIDE DEF todo, old, location
<1>6. resolved \in Resolutions
  <2>1. DOMAIN old \subseteq Locations /\ \A l \in DOMAIN old : old[l] \in Nat BY <1>1, ListingsAre
  <2>2. resolved \in [DOMAIN old \cup {location} -> Nat] BY <2>1
  <2> HIDE DEF resolved
  <2>3. DOMAIN old \cup {location} \in SUBSET Locations BY <1>3, <2>1
  <2> QED BY <2>2, <2>3 DEF Resolutions
<1>7. \A l \in DOMAIN resolved : resolved[l] # 0 => Said(l, resolved[l], geocoded) BY <1>2, <1>4
<1> HIDE DEF resolved
<1> QED BY <1>1, <1>5, <1>6, <1>7, ProceedIs DEF MapSound

LEMMA SettleIs ==
    ASSUME MapSound, NEW r \in Lookups, NEW point \in Nat, M!Settle(r, point), query[r].at \notin {"idle", "done"},
           point # 0 => \E a \in geocoded[query[r].key] : a.point = point
    PROVE  \E new \in Queries :
              /\ query' = [query EXCEPT ![r] = new] /\ new.at \in {"look", "done"}
              /\ GoesBy(new, geocoded)
<1>1. CASE ~(point = 0 /\ query[r].key.kind = "address") BY <1>1, ResolveIs DEF M!Settle
<1>2. CASE point = 0 /\ query[r].key.kind = "address"
  <2> DEFINE sought == M!CityOf(query[r].key)
             location == M!Foremost(query[r].todo, query[r].resolved)
             new == [query[r] EXCEPT !.at = "look", !.key = sought, !.deadline = 0, !.found = 0]
  <2>1. query[r] \in Queries /\ query \in [Lookups -> Queries] BY DEF MapSound, MapTyped
  <2>2. /\ M!Unresolved(query[r].todo, query[r].resolved) # {}
        /\ query[r].key \in {M!First(location), M!CityOf(M!First(location))}
        /\ \A l \in DOMAIN query[r].resolved : query[r].resolved[l] # 0 => Said(l, query[r].resolved[l], geocoded)
    BY DEF MapSound, GoesBy, Asked
  <2>3. location \in Locations BY <2>1, <2>2, ForemostIs DEF Queries
  <2>4. query[r].key = M!First(location) BY <1>2, <2>2 DEF M!CityOf
  <2>5. sought = M!CityOf(M!First(location)) /\ sought \in M!Keys BY <2>3, <2>4, KeysAre
  <2>6. query' = [query EXCEPT ![r].at = "look", ![r].key = sought, ![r].deadline = 0, ![r].found = 0]
    BY <1>2 DEF M!Settle
  <2> HIDE DEF sought, location
  <2>7. query' = [query EXCEPT ![r] = new] BY <2>1, <2>6 DEF Queries
  <2>8. new \in Queries BY <2>1, <2>5 DEF Queries, M!Ats
  <2>9. new.at = "look" /\ new.todo = query[r].todo /\ new.resolved = query[r].resolved /\ new.key = sought BY <2>1 DEF Queries
  <2> HIDE DEF new
  <2>10. GoesBy(new, geocoded) BY <2>2, <2>5, <2>9 DEF GoesBy, Asked, location
  <2> QED BY <2>7, <2>8, <2>9, <2>10
<1> QED BY <1>1, <1>2

-----------------------------------------------------------------------------
(* What a request does to the rest                                         *)

LEMMA GoesByMore ==
    ASSUME NEW q \in Queries, GoesBy(q, geocoded), q.at \notin {"idle", "done"} => q.key \in M!Keys,
           NEW answers, \A k \in M!Keys : geocoded[k] \subseteq answers[k]
    PROVE  GoesBy(q, answers)
<1>1. \A l \in Locations : \A p : Said(l, p, geocoded) => Said(l, p, answers)
  BY DEF Said, Locations, M!Keys
<1>2. \A l \in DOMAIN q.resolved : l \in Locations BY ListingsAre DEF Queries
<1> QED BY <1>1, <1>2 DEF GoesBy

LEMMA KeyIs == ASSUME NEW q \in Queries, GoesBy(q, geocoded), q.at \notin {"idle", "done"} PROVE q.key \in M!Keys
<1>1. q.todo \in Listings /\ q.resolved \in Resolutions BY DEF Queries
<1> QED BY <1>1, ForemostIs, KeysAre DEF GoesBy, Asked

(* Whatever a request does, if the state it goes to goes by the answers.   *)
LEMMA QueryKeeps ==
    ASSUME MapSound, NEW r \in Lookups, NEW new \in Queries, query' = [query EXCEPT ![r] = new],
           geocoded' \in [M!Keys -> SUBSET Outcomes], \A k \in M!Keys : geocoded[k] \subseteq geocoded'[k],
           GoesBy(new, geocoded'), geocoder' = geocoder
    PROVE  query' \in [Lookups -> Queries] /\ (\A s \in Lookups : GoesBy(query[s], geocoded))'
<1>1. query \in [Lookups -> Queries] BY DEF MapSound, MapTyped
<1>2. \A s \in Lookups : query'[s] = IF s = r THEN new ELSE query[s] BY <1>1
<1>3. \A s \in Lookups : GoesBy(query[s], geocoded') BY <1>1, GoesByMore, KeyIs DEF MapSound
<1>4. \A s \in Lookups : GoesBy(query'[s], geocoded') BY <1>2, <1>3
<1> QED BY <1>1, <1>4 DEF GoesBy, Said, Asked

(* A request that does not hold the lock, and does not take it.            *)
LEMMA AsideKeeps ==
    ASSUME MapSound, NEW r \in Lookups, NEW new \in Queries, query' = [query EXCEPT ![r] = new],
           new.at \notin Held, UNCHANGED <<second, lock, next, last, crowded, outlived>>
    PROVE  OneHolds'
<1>1. query \in [Lookups -> Queries] BY DEF MapSound, MapTyped
<1>2. \A s \in Lookups : query'[s] = IF s = r THEN new ELSE query[s] BY <1>1
<1>3. \A s \in Lookups : query'[s].at \in Held => query'[s] = query[s] /\ query[s].at \in Held BY <1>2
<1> QED BY <1>3 DEF MapSound, OneHolds

LEMMA StartKeeps ==
    ASSUME Surveyed, MapSound, NEW r \in Lookups, M!community_map_data(r)
    PROVE  MapSound'
<1> DEFINE todo == M!get_map_location_records
           over == M!Unresolved(todo, <<>>) = {}
           at == IF over THEN "done" ELSE "look"
           sought == IF over THEN M!Idle.key ELSE M!First(M!Foremost(todo, <<>>))
<1>1. PICK member \in BOOLEAN :
        query' = [query EXCEPT ![r] = [M!Idle EXCEPT !.member = member, !.todo = todo, !.at = at, !.key = sought]]
  BY DEF M!community_map_data
<1>2. UNCHANGED <<second, places, geocoder, cache, lock, next, last, crowded, outlived, geocoded>>
  BY DEF M!community_map_data, M!slots
<1>3. todo \in Listings
  <2>1. places \in Seq(PlaceRecords) BY DEF MapSound, MapTyped, Surveyed
  <2>2. DOMAIN places \subseteq Nat /\ \A i \in DOMAIN places : places[i] \in PlaceRecords BY <2>1
  <2>3. DOMAIN todo \in SUBSET Nat /\ todo \in [DOMAIN todo -> PlaceRecords] BY <2>2 DEF M!get_map_location_records
  <2> HIDE DEF todo
  <2> QED BY <2>3 DEF Listings
<1>4. <<>> \in Resolutions /\ DOMAIN <<>> = {} BY ListingsAre
<1> HIDE DEF todo
<1>5. at \in {"look", "done"} /\ at \in M!Ats /\ (at = "done" <=> over) BY DEF M!Ats
<1>6. sought \in M!Keys \cup {M!Idle.key} /\ (~over => sought = M!First(M!Foremost(todo, <<>>)))
  BY <1>3, <1>4, ForemostIs, KeysAre
<1> HIDE DEF at, sought
<1> DEFINE new == [M!Idle EXCEPT !.member = member, !.todo = todo, !.at = at, !.key = sought]
<1>7. new \in Queries BY <1>3, <1>5, <1>6, IdleIs DEF Queries
<1>8. new.at = at /\ new.todo = todo /\ new.key = sought /\ new.resolved = <<>> BY IdleIs DEF M!Idle
<1>9. query' = [query EXCEPT ![r] = new] BY <1>1
<1> HIDE DEF new
<1>10. GoesBy(new, geocoded) BY <1>4, <1>5, <1>6, <1>8 DEF GoesBy, Asked
<1>11. geocoded' \in [M!Keys -> SUBSET Outcomes] /\ GoesBy(new, geocoded') BY <1>2, <1>10 DEF MapSound, MapTyped
<1>12. query' \in [Lookups -> Queries] /\ (\A s \in Lookups : GoesBy(query[s], geocoded))'
  BY <1>2, <1>7, <1>9, <1>11, QueryKeeps
<1>13. OneHolds'
  <2>1. new.at \notin Held BY <1>5, <1>8 DEF Held
  <2> QED BY <1>2, <1>7, <1>9, <2>1, AsideKeeps
<1> QED BY <1>2, <1>12, <1>13 DEF MapSound, MapTyped, AnswersAreExact, M!OnlyAnswersAreRemembered, M!Hit

(* What stores no answer and takes no lock.                                *)
LEMMA MovingKeeps ==
    ASSUME MapSound, NEW r \in Lookups, NEW new \in Queries, query' = [query EXCEPT ![r] = new],
           new.at \notin Held, GoesBy(new, geocoded),
           UNCHANGED <<second, places, geocoder, cache, lock, next, last, crowded, outlived, geocoded>>
    PROVE  MapSound'
<1>1. geocoded' \in [M!Keys -> SUBSET Outcomes] /\ GoesBy(new, geocoded') BY DEF MapSound, MapTyped
<1>2. query' \in [Lookups -> Queries] /\ (\A s \in Lookups : GoesBy(query[s], geocoded))'
  BY <1>1, QueryKeeps
<1>3. OneHolds' BY AsideKeeps
<1> QED BY <1>2, <1>3 DEF MapSound, MapTyped, AnswersAreExact, M!OnlyAnswersAreRemembered, M!Hit

LEMMA LookKeeps ==
    ASSUME Surveyed, MapSound, NEW r \in Lookups,
           M!Look(r) \/ M!LookFails(r) \/ M!RateLimited(r) \/ M!StoreFails(r)
    PROVE  MapSound'
<1>1. query[r] \in Queries /\ query \in [Lookups -> Queries] /\ GoesBy(query[r], geocoded) BY DEF MapSound, MapTyped
<1>2. query[r].at \in {"look", "slot", "store"} BY DEF M!Look, M!LookFails, M!RateLimited, M!StoreFails
<1>3. query[r].key \in M!Keys BY <1>1, <1>2, KeyIs
<1>4. UNCHANGED <<second, places, geocoder, cache, lock, next, last, crowded, outlived, geocoded>>
  BY DEF M!Look, M!LookFails, M!RateLimited, M!StoreFails, M!slots
<1>5. PICK new \in Queries :
        query' = [query EXCEPT ![r] = new] /\ new.at \in {"look", "done", "slot"} /\ GoesBy(new, geocoded)
  <2>1. CASE M!LookFails(r) \/ M!StoreFails(r)
    <3>1. M!Settle(r, 0) BY <2>1 DEF M!LookFails, M!StoreFails
    <3> QED BY <1>2, <3>1, SettleIs
  <2>2. CASE M!RateLimited(r)
    <3>1. M!Resolve(r, 0) BY <2>2 DEF M!RateLimited
    <3> QED BY <1>2, <3>1, ResolveIs
  <2>3. CASE M!Look(r) /\ ~M!Hit(query[r].key) /\ M!Answerer(r)
    <3> DEFINE new == [query[r] EXCEPT !.at = "slot", !.deadline = second + 3]
    <3>1. /\ query[r].at = "look" /\ geocoder = "on"
          /\ query' = [query EXCEPT ![r].at = "slot", ![r].deadline = second + 3]
      BY <2>3 DEF M!Look, M!DEADLINE
    <3>2. query' = [query EXCEPT ![r] = new] BY <1>1, <3>1 DEF Queries
    <3>3. second \in Nat /\ second + 3 \in Nat BY DEF MapSound, MapTyped, Surveyed
    <3>4. new \in Queries BY <1>1, <3>3 DEF Queries, M!Ats
    <3>5. /\ new.at = "slot" /\ new.todo = query[r].todo /\ new.resolved = query[r].resolved /\ new.key = query[r].key
          /\ new.member = query[r].member
      BY <1>1 DEF Queries
    <3> HIDE DEF new
    <3>6. GoesBy(new, geocoded) BY <1>1, <2>3, <3>1, <3>5 DEF GoesBy, Asked, M!Answerer
    <3> QED BY <3>2, <3>4, <3>5, <3>6
  <2>4. CASE M!Look(r) /\ ~(~M!Hit(query[r].key) /\ M!Answerer(r))
    <3> DEFINE point == IF M!Hit(query[r].key) THEN cache[query[r].key].value ELSE 0
    <3>1. M!Settle(r, point) BY <2>4 DEF M!Look
    <3>2. point \in Nat BY <1>3 DEF MapSound, MapTyped
    <3>3. point # 0 => \E a \in geocoded[query[r].key] : a.point = point
      BY <1>3 DEF MapSound, M!OnlyAnswersAreRemembered
    <3> HIDE DEF point
    <3> QED BY <1>2, <3>1, <3>2, <3>3, SettleIs
  <2> QED BY <2>1, <2>2, <2>3, <2>4
<1>6. new.at \notin Held BY <1>5 DEF Held
<1> QED BY <1>4, <1>5, <1>6, MovingKeeps

-----------------------------------------------------------------------------
(* The answers                                                             *)

LEMMA CountingOnMap == ASSUME NEW S PROVE M!Cardinality(S) = Cardinality(S)
BY DEF M!Cardinality, Cardinality

LEMMA SelectIs ==
    ASSUME NEW results \in Seq(Entries), NEW k \in M!Keys
    PROVE  /\ M!_select_result(results, k) \in Nat
           /\ k.kind = "address" /\ M!_select_result(results, k) # 0 => Exact(results) = {M!_select_result(results, k)}
<1> DEFINE fitting == {i \in DOMAIN results : results[i].fits}
           exact == {results[i].point : i \in {j \in fitting : results[j].exact}}
           centres == {i \in fitting : results[i].centre}
<1>1. DOMAIN results = 1..Len(results) /\ Len(results) \in Nat /\ \A i \in DOMAIN results : results[i] \in Entries
  OBVIOUS
<1>2. fitting \subseteq Nat /\ centres \subseteq fitting /\ IsFiniteSet(fitting)
      /\ \A i \in fitting : results[i].point \in Nat
  <2>1. IsFiniteSet(DOMAIN results) BY <1>1, FS_Interval
  <2>2. IsFiniteSet(fitting) BY <2>1, FS_Subset
  <2> QED BY <1>1, <2>2 DEF Entries
<1>3. exact = Exact(results) BY DEF Exact
<1>4. IsFiniteSet(exact) /\ exact \subseteq Nat
  <2> DEFINE Dom == {j \in fitting : results[j].exact}
             f == [i \in Dom |-> results[i].point]
  <2>1. IsFiniteSet(Dom) BY <1>2, FS_Subset
  <2>2. f \in Surjection(Dom, exact) BY DEF Surjection
  <2> HIDE DEF f
  <2>3. IsFiniteSet(exact) BY <2>1, <2>2, FS_Surjection
  <2> QED BY <1>2, <2>3
<1>5. M!_select_result(results, k) =
        CASE k.kind = "address" -> IF M!Cardinality(exact) = 1 THEN CHOOSE p \in exact : TRUE ELSE 0
          [] k.kind = "city" /\ centres # {} -> results[M!Min(centres)].point
          [] k.kind = "city" /\ centres = {} -> IF M!Cardinality(fitting) = 1 THEN results[M!Min(fitting)].point ELSE 0
  BY DEF M!_select_result
<1>6. k.kind \in {"address", "city"} BY DEF M!Keys
<1> HIDE DEF fitting, exact, centres
<1>7. CASE k.kind = "address"
  <2>1. M!_select_result(results, k) = IF M!Cardinality(exact) = 1 THEN CHOOSE p \in exact : TRUE ELSE 0 BY <1>5, <1>7
  <2>2. CASE M!Cardinality(exact) = 1
    <3>1. PICK x : exact = {x} BY <1>4, <2>2, FS_Singleton, CountingOnMap
    <3>2. (CHOOSE p \in exact : TRUE) = x BY <3>1
    <3> QED BY <1>3, <1>4, <2>1, <2>2, <3>1, <3>2
  <2>3. CASE M!Cardinality(exact) # 1 BY <2>1, <2>3
  <2> QED BY <2>2, <2>3
<1>8. CASE k.kind = "city" /\ centres # {}
  <2>1. M!_select_result(results, k) = results[M!Min(centres)].point BY <1>5, <1>8
  <2>2. centres \subseteq Nat BY <1>2
  <2>3. M!Min(centres) \in centres BY <1>8, <2>2, MinIs
  <2> QED BY <1>2, <1>8, <2>1, <2>3
<1>9. CASE k.kind = "city" /\ centres = {}
  <2>1. M!_select_result(results, k) = IF M!Cardinality(fitting) = 1 THEN results[M!Min(fitting)].point ELSE 0
    BY <1>5, <1>9
  <2>2. CASE M!Cardinality(fitting) = 1
    <3>1. fitting # {} BY <1>2, <2>2, FS_Singleton, CountingOnMap
    <3>2. M!Min(fitting) \in fitting BY <1>2, <3>1, MinIs
    <3> QED BY <1>2, <1>9, <2>1, <2>2, <3>2
  <2>3. CASE M!Cardinality(fitting) # 1 BY <1>9, <2>1, <2>3
  <2> QED BY <2>2, <2>3
<1> QED BY <1>6, <1>7, <1>8, <1>9

LEMMA AnsweredKeeps ==
    ASSUME Surveyed, MapSound, NEW r \in Lookups, NEW results \in Replies \cup {<<>>}, M!Answered(r, results),
           query[r].at \in {"look", "ask"}, query[r].member, geocoder # "off"
    PROVE  MapSound'
<1> DEFINE k == query[r].key
<1>1. /\ query' = [query EXCEPT ![r].at = "store", ![r].found = M!_select_result(results, k)]
      /\ geocoded' = [geocoded EXCEPT ![k] = @ \cup {[point |-> M!_select_result(results, k), of |-> results]}]
  BY DEF M!Answered
<1>2. UNCHANGED <<second, places, geocoder, cache, lock, next, last, crowded, outlived>>
  BY DEF M!Answered, M!slots
<1>3. query[r] \in Queries /\ query \in [Lookups -> Queries] /\ GoesBy(query[r], geocoded) BY DEF MapSound, MapTyped
<1>4. k \in M!Keys BY <1>1, <1>3, KeyIs
<1>5. results \in Seq(Entries)
  <2>1. <<>> \in Seq(Entries) OBVIOUS
  <2> QED BY <2>1 DEF Surveyed
<1>6. PICK point \in Nat : /\ point = M!_select_result(results, k)
                           /\ k.kind = "address" /\ point # 0 => Exact(results) = {point}
  BY <1>4, <1>5, SelectIs
<1> DEFINE outcome == [point |-> point, of |-> results]
           new == [query[r] EXCEPT !.at = "store", !.found = point]
<1>7. outcome \in Outcomes /\ outcome.point = point /\ outcome.of = results BY <1>5 DEF Outcomes
<1>8. query' = [query EXCEPT ![r] = new] BY <1>1, <1>3, <1>6 DEF Queries
<1>9. new \in Queries BY <1>3 DEF Queries, M!Ats
<1>10. /\ new.at = "store" /\ new.todo = query[r].todo /\ new.resolved = query[r].resolved /\ new.key = k
       /\ new.member = query[r].member /\ new.found = point
  BY <1>3 DEF Queries
<1> HIDE DEF outcome, new, k
<1>11. /\ geocoded' = [geocoded EXCEPT ![k] = @ \cup {outcome}] /\ geocoded \in [M!Keys -> SUBSET Outcomes]
  BY <1>1, <1>6 DEF outcome, MapSound, MapTyped
<1>12. /\ geocoded' \in [M!Keys -> SUBSET Outcomes] /\ \A x \in M!Keys : geocoded[x] \subseteq geocoded'[x]
       /\ outcome \in geocoded'[k] /\ \A x \in M!Keys : \A a \in geocoded'[x] : a \in geocoded[x] \/ (x = k /\ a = outcome)
  BY <1>4, <1>7, <1>11
<1>13. GoesBy(new, geocoded')
  <2>1. GoesBy(query[r], geocoded') BY <1>3, <1>4, <1>12, GoesByMore DEF k
  <2> QED BY <1>1, <1>7, <1>10, <1>12, <2>1 DEF GoesBy, Asked, k
<1>14. query' \in [Lookups -> Queries] /\ (\A s \in Lookups : GoesBy(query[s], geocoded))'
  BY <1>2, <1>8, <1>9, <1>12, <1>13, QueryKeeps
<1>15. OneHolds'
  <2>1. new.at \notin Held BY <1>10 DEF Held
  <2> QED BY <1>2, <1>8, <1>9, <2>1, AsideKeeps
<1>16. AnswersAreExact'
  <2> SUFFICES ASSUME NEW x \in M!Keys, x.kind = "address", NEW a \in geocoded'[x], a.point # 0
               PROVE  Exact(a.of) = {a.point}
    BY DEF AnswersAreExact, M!Keys, Exact
  <2> QED BY <1>6, <1>7, <1>12 DEF MapSound, AnswersAreExact
<1>17. M!OnlyAnswersAreRemembered'
  <2> SUFFICES ASSUME NEW x \in M!Keys, second < cache[x].until
               PROVE  \E a \in geocoded'[x] : a.point = cache[x].value
    BY <1>2 DEF M!OnlyAnswersAreRemembered, M!Hit, M!Keys
  <2> QED BY <1>12 DEF MapSound, M!OnlyAnswersAreRemembered, M!Hit
<1> QED BY <1>2, <1>12, <1>14, <1>15, <1>16, <1>17 DEF MapSound, MapTyped

LEMMA SearchKeeps ==
    ASSUME Surveyed, MapSound, NEW r \in Lookups, M!_search_nominatim(r) \/ M!Misconfigured(r)
    PROVE  MapSound'
<1>1. CASE M!_search_nominatim(r)
  <2>1. PICK results \in Replies \cup {<<>>} : query[r].at = "ask" /\ M!Answered(r, results)
    BY <1>1 DEF M!_search_nominatim
  <2>2. query[r].member /\ geocoder # "off" BY <2>1 DEF MapSound, GoesBy
  <2> QED BY <2>1, <2>2, AnsweredKeeps
<1>2. CASE M!Misconfigured(r)
  <2>1. query[r].at = "look" /\ query[r].member /\ geocoder # "off" /\ M!Answered(r, <<>>)
    BY <1>2 DEF M!Misconfigured, M!Answerer
  <2> QED BY <2>1, AnsweredKeeps
<1> QED BY <1>1, <1>2

LEMMA StoreKeeps ==
    ASSUME Surveyed, MapSound, NEW r \in Lookups, M!Store(r)
    PROVE  MapSound'
<1>0. PICK k, found, ttl : k = query[r].key /\ found = query[r].found /\ ttl = IF found = 0 THEN 4 ELSE 5
  OBVIOUS
<1>1. /\ query[r].at = "store" /\ M!Settle(r, found)
      /\ cache' = [cache EXCEPT ![k] = [value |-> found, until |-> second + ttl]]
  BY <1>0 DEF M!Store, M!FAILURE_TTL, M!SUCCESS_TTL
<1>2. UNCHANGED <<second, places, geocoder, lock, next, last, crowded, outlived, geocoded>>
  BY DEF M!Store, M!slots
<1>3. query[r] \in Queries /\ query \in [Lookups -> Queries] /\ GoesBy(query[r], geocoded) BY DEF MapSound, MapTyped
<1>4. k \in M!Keys /\ found \in Nat BY <1>0, <1>1, <1>3, KeyIs DEF Queries
<1>5. \E a \in geocoded[k] : a.point = found BY <1>0, <1>1, <1>3 DEF GoesBy
<1>6. PICK new \in Queries :
        query' = [query EXCEPT ![r] = new] /\ new.at \in {"look", "done"} /\ GoesBy(new, geocoded)
  BY <1>0, <1>1, <1>4, <1>5, SettleIs
<1>7. geocoded' \in [M!Keys -> SUBSET Outcomes] /\ GoesBy(new, geocoded') BY <1>2, <1>6 DEF MapSound, MapTyped
<1>8. query' \in [Lookups -> Queries] /\ (\A s \in Lookups : GoesBy(query[s], geocoded))'
  BY <1>2, <1>6, <1>7, QueryKeeps
<1>9. OneHolds'
  <2>1. new.at \notin Held BY <1>6 DEF Held
  <2> QED BY <1>2, <1>6, <2>1, AsideKeeps
<1>10. /\ cache' \in [M!Keys -> [value : Nat, until : 0..(LastSecond + 5)]]
       /\ cache'[k].value = found /\ \A x \in M!Keys \ {k} : cache'[x] = cache[x]
  <2>1. second + ttl \in 0..(LastSecond + 5) BY <1>0 DEF MapSound, MapTyped, Surveyed
  <2>2. [value |-> found, until |-> second + ttl] \in [value : Nat, until : 0..(LastSecond + 5)] BY <1>4, <2>1
  <2> QED BY <1>1, <1>4, <2>2 DEF MapSound, MapTyped
<1>11. M!OnlyAnswersAreRemembered'
  <2> SUFFICES ASSUME NEW x \in M!Keys, second < cache'[x].until
               PROVE  \E a \in geocoded[x] : a.point = cache'[x].value
    BY <1>2 DEF M!OnlyAnswersAreRemembered, M!Hit, M!Keys
  <2> QED BY <1>5, <1>10 DEF MapSound, M!OnlyAnswersAreRemembered, M!Hit
<1>12. AnswersAreExact' BY <1>2 DEF MapSound, AnswersAreExact
<1> QED BY <1>2, <1>7, <1>8, <1>9, <1>10, <1>11, <1>12 DEF MapSound, MapTyped

-----------------------------------------------------------------------------
(* The lock                                                                *)

Asking == Held \cup {"slot", "ask"}

(* What goes on with the lock touches nothing of what the request goes by. *)
LEMMA LockKeeps ==
    ASSUME MapSound, NEW r \in Lookups, NEW new \in Queries, query' = [query EXCEPT ![r] = new],
           query[r].at \in Asking, new.at \in Asking,
           new.todo = query[r].todo, new.resolved = query[r].resolved, new.key = query[r].key,
           new.member = query[r].member,
           UNCHANGED <<second, places, geocoder, cache, geocoded>>,
           lock' \in [owner : Lookups \cup {0}, until : Nat], next' \in Nat, last' \in Int, OneHolds'
    PROVE  MapSound'
<1>1. GoesBy(query[r], geocoded) BY DEF MapSound
<1>2. query[r].at \notin {"idle", "look", "done", "store"} /\ new.at \notin {"idle", "look", "done", "store"}
  BY DEF Asking, Held
<1>3. GoesBy(new, geocoded) BY <1>1, <1>2 DEF GoesBy, Asked
<1>4. geocoded' \in [M!Keys -> SUBSET Outcomes] /\ GoesBy(new, geocoded') BY <1>3 DEF MapSound, MapTyped
<1>5. query' \in [Lookups -> Queries] /\ (\A s \in Lookups : GoesBy(query[s], geocoded))'
  BY <1>4, QueryKeeps
<1> QED BY <1>5 DEF MapSound, MapTyped, AnswersAreExact, M!OnlyAnswersAreRemembered, M!Hit

LEMMA AcquireKeeps ==
    ASSUME Surveyed, MapSound, NEW r \in Lookups, M!Acquire(r)
    PROVE  MapSound'
<1> DEFINE until == second + 2
           new == [query[r] EXCEPT !.at = "held", !.until = until]
<1>1. /\ query[r].at = "slot" /\ second >= lock.until
      /\ lock' = [owner |-> r, until |-> until]
      /\ query' = [query EXCEPT ![r].at = "held", ![r].until = until]
      /\ UNCHANGED <<second, places, geocoder, cache, next, last, crowded, outlived, geocoded>>
  BY DEF M!Acquire, M!LOCK_TIMEOUT
<1>2. query[r] \in Queries /\ query \in [Lookups -> Queries] /\ second \in Nat /\ until \in Nat
  BY DEF MapSound, MapTyped, Surveyed
<1>3. query' = [query EXCEPT ![r] = new] BY <1>1, <1>2 DEF Queries
<1>4. new \in Queries BY <1>2 DEF Queries, M!Ats
<1>5. /\ new.at = "held" /\ new.todo = query[r].todo /\ new.resolved = query[r].resolved /\ new.key = query[r].key
      /\ new.member = query[r].member /\ new.until = until
  BY <1>2 DEF Queries
<1> HIDE DEF new
<1>6. \A s \in Lookups : query'[s] = IF s = r THEN new ELSE query[s] BY <1>2, <1>3
<1>7. lock' \in [owner : Lookups \cup {0}, until : Nat] /\ lock'.owner = r /\ lock'.until = until BY <1>1, <1>2
<1>8. OneHolds'
  <2>1. next' = last' + 1 /\ ~crowded' BY <1>1 DEF MapSound, OneHolds
  <2>2. ASSUME NEW s \in Lookups, query'[s].at \in Held
        PROVE  /\ lock'.owner = s => lock'.until = query'[s].until
               /\ query'[s].at \in {"delete_granted", "delete_refused"} => query'[s].ours
    <3>1. CASE s = r BY <1>5, <1>6, <1>7, <3>1
    <3>2. CASE s # r BY <1>6, <1>7, <2>2, <3>2 DEF MapSound, OneHolds
    <3> QED BY <3>1, <3>2
  <2>3. ASSUME ~outlived', NEW s \in Lookups, query'[s].at \in Held, second' < query'[s].until
        PROVE  lock'.owner = s /\ (query'[s].at = "free" => next' <= second')
    <3>1. CASE s = r BY <1>5, <1>6, <1>7, <3>1
    <3>2. CASE s # r
      <4>1. lock.owner = s /\ lock.until = query[s].until /\ second < query[s].until
        BY <1>1, <1>6, <2>3, <3>2 DEF MapSound, OneHolds
      <4>2. query[s].until \in Nat BY DEF MapSound, MapTyped, Queries
      <4> QED BY <1>1, <1>2, <4>1, <4>2
    <3> QED BY <3>1, <3>2
  <2> QED BY <2>1, <2>2, <2>3 DEF OneHolds
<1>9. query[r].at \in Asking /\ new.at \in Asking BY <1>1, <1>5 DEF Asking, Held
<1>10. next' \in Nat /\ last' \in Int BY <1>1 DEF MapSound, MapTyped
<1> QED BY <1>1, <1>3, <1>4, <1>5, <1>7, <1>8, <1>9, <1>10, LockKeeps

(* Steps of the holder that leave the lock and the times as they are.      *)
LEMMA HolderKeeps ==
    ASSUME Surveyed, MapSound, NEW r \in Lookups, M!ReadNext(r) \/ M!Compare(r) \/ M!NotOurs(r)
    PROVE  MapSound'
<1>1. /\ query[r].at \in Held
      /\ UNCHANGED <<second, places, geocoder, cache, lock, next, last, crowded, outlived, geocoded>>
  BY DEF M!ReadNext, M!Compare, M!NotOurs, M!slots, Held
<1>2. query[r] \in Queries /\ query \in [Lookups -> Queries] /\ second \in Nat BY DEF MapSound, MapTyped, Surveyed
<1>3. PICK at \in Asking, until \in Nat, ours \in BOOLEAN :
        /\ query' = [query EXCEPT ![r].at = at, ![r].until = until, ![r].ours = ours]
        /\ at \in Held => until = query[r].until
        /\ at \in {"delete_granted", "delete_refused"} => ours
        /\ at = "free" => next <= second
  <2>1. CASE M!ReadNext(r)
    <3> DEFINE at == IF next <= second THEN "free" ELSE "refused"
    <3>1. query' = [query EXCEPT ![r].at = at] BY <2>1 DEF M!ReadNext
    <3>2. query' = [query EXCEPT ![r].at = at, ![r].until = query[r].until, ![r].ours = query[r].ours]
      BY <1>2, <3>1 DEF Queries
    <3>3. at \in Asking /\ (at = "free" => next <= second) /\ at \notin {"delete_granted", "delete_refused"}
      BY DEF Asking, Held
    <3> HIDE DEF at
    <3> QED BY <1>2, <3>2, <3>3 DEF Queries
  <2>2. CASE M!Compare(r)
    <3> DEFINE at == IF query[r].at = "granted" THEN "delete_granted" ELSE "delete_refused"
               ours == ~M!Late(r)
    <3>1. query' = [query EXCEPT ![r].at = at, ![r].ours = ours] /\ M!Owned(r) BY <2>2 DEF M!Compare
    <3>2. lock.until = query[r].until BY <1>1, <3>1 DEF MapSound, OneHolds, M!Owned
    <3>3. ours
      <4>1. lock.until \in Nat /\ second < lock.until BY <3>1 DEF M!Owned, MapSound, MapTyped
      <4> QED BY <1>2, <3>2, <4>1 DEF M!Late
    <3>4. query' = [query EXCEPT ![r].at = at, ![r].until = query[r].until, ![r].ours = TRUE]
      BY <1>2, <3>1, <3>3 DEF Queries
    <3>5. at \in Asking /\ at # "free" BY DEF Asking, Held
    <3> HIDE DEF at
    <3> QED BY <1>2, <3>4, <3>5 DEF Queries
  <2>3. CASE M!NotOurs(r)
    <3> DEFINE at == IF query[r].at \in {"granted", "delete_granted"} THEN "ask" ELSE "slot"
    <3>1. query' = [query EXCEPT ![r].at = at, ![r].until = 0, ![r].ours = FALSE] BY <2>3 DEF M!NotOurs, M!GoOn
    <3>2. at \in Asking /\ at \notin Held /\ at # "free" /\ at \notin {"delete_granted", "delete_refused"}
      BY DEF Asking, Held
    <3> HIDE DEF at
    <3> QED BY <3>1, <3>2
  <2> QED BY <2>1, <2>2, <2>3
<1> DEFINE new == [query[r] EXCEPT !.at = at, !.until = until, !.ours = ours]
<1>4. query' = [query EXCEPT ![r] = new] BY <1>2, <1>3 DEF Queries
<1>5. new \in Queries
  <2>1. at \in M!Ats BY DEF Asking, Held, M!Ats
  <2> QED BY <1>2, <2>1 DEF Queries
<1>6. /\ new.at = at /\ new.todo = query[r].todo /\ new.resolved = query[r].resolved /\ new.key = query[r].key
      /\ new.member = query[r].member /\ new.until = until /\ new.ours = ours
  BY <1>2 DEF Queries
<1> HIDE DEF new
<1>7. \A s \in Lookups : query'[s] = IF s = r THEN new ELSE query[s] BY <1>2, <1>4
<1>8. OneHolds'
  <2>1. next' = last' + 1 /\ ~crowded' BY <1>1 DEF MapSound, OneHolds
  <2>2. ASSUME NEW s \in Lookups, query'[s].at \in Held
        PROVE  /\ lock'.owner = s => lock'.until = query'[s].until
               /\ query'[s].at \in {"delete_granted", "delete_refused"} => query'[s].ours
    <3>1. CASE s = r BY <1>1, <1>3, <1>6, <1>7, <2>2, <3>1 DEF MapSound, OneHolds
    <3>2. CASE s # r BY <1>1, <1>7, <2>2, <3>2 DEF MapSound, OneHolds
    <3> QED BY <3>1, <3>2
  <2>3. ASSUME ~outlived', NEW s \in Lookups, query'[s].at \in Held, second' < query'[s].until
        PROVE  lock'.owner = s /\ (query'[s].at = "free" => next' <= second')
    <3>1. CASE s = r BY <1>1, <1>3, <1>6, <1>7, <2>3, <3>1 DEF MapSound, OneHolds
    <3>2. CASE s # r BY <1>1, <1>7, <2>3, <3>2 DEF MapSound, OneHolds
    <3> QED BY <3>1, <3>2
  <2> QED BY <2>1, <2>2, <2>3 DEF OneHolds
<1>9. query[r].at \in Asking /\ new.at \in Asking BY <1>1, <1>6 DEF Asking
<1>10. lock' \in [owner : Lookups \cup {0}, until : Nat] /\ next' \in Nat /\ last' \in Int
  BY <1>1 DEF MapSound, MapTyped
<1> QED BY <1>1, <1>4, <1>5, <1>6, <1>8, <1>9, <1>10, LockKeeps

LEMMA SetNextKeeps ==
    ASSUME Surveyed, MapSound, NEW r \in Lookups, M!SetNext(r)
    PROVE  MapSound'
<1> DEFINE new == [query[r] EXCEPT !.at = "granted"]
<1>1. /\ query[r].at = "free" /\ next' = second + 1 /\ last' = second
      /\ outlived' = (outlived \/ M!Late(r))
      /\ crowded' = (crowded \/ (second < last + 1 /\ ~outlived'))
      /\ query' = [query EXCEPT ![r].at = "granted"]
      /\ UNCHANGED <<second, places, geocoder, cache, lock, geocoded>>
  BY DEF M!SetNext, M!INTERVAL
<1>2. query[r] \in Queries /\ query \in [Lookups -> Queries] /\ second \in Nat /\ last \in Int
  BY DEF MapSound, MapTyped, Surveyed
<1>3. query' = [query EXCEPT ![r] = new] BY <1>1, <1>2 DEF Queries
<1>4. new \in Queries BY <1>2 DEF Queries, M!Ats
<1>5. /\ new.at = "granted" /\ new.todo = query[r].todo /\ new.resolved = query[r].resolved /\ new.key = query[r].key
      /\ new.member = query[r].member /\ new.until = query[r].until
  BY <1>2 DEF Queries
<1> HIDE DEF new
<1>6. \A s \in Lookups : query'[s] = IF s = r THEN new ELSE query[s] BY <1>2, <1>3
<1>7. query[r].at \in Held /\ query[r].until \in Nat BY <1>1, <1>2 DEF Held, Queries
<1>8. ~outlived' => ~outlived /\ second < query[r].until /\ lock.owner = r /\ next <= second
  <2>0. ~M!Late(r) => second < query[r].until BY <1>2, <1>7 DEF M!Late
  <2>1. ~outlived' => ~outlived /\ ~M!Late(r) BY <1>1
  <2> QED BY <1>1, <1>7, <2>0, <2>1 DEF MapSound, OneHolds
<1>9. OneHolds'
  <2>1. next' = last' + 1 BY <1>1
  <2>2. ~crowded'
    <3>1. ~crowded /\ next = last + 1 BY DEF MapSound, OneHolds
    <3>2. ~(second < last + 1 /\ ~outlived') BY <1>2, <1>8, <3>1
    <3> QED BY <1>1, <3>1, <3>2
  <2>3. ASSUME NEW s \in Lookups, query'[s].at \in Held
        PROVE  /\ lock'.owner = s => lock'.until = query'[s].until
               /\ query'[s].at \in {"delete_granted", "delete_refused"} => query'[s].ours
    <3>1. CASE s = r BY <1>1, <1>5, <1>6, <1>7, <2>3, <3>1 DEF MapSound, OneHolds
    <3>2. CASE s # r BY <1>1, <1>6, <2>3, <3>2 DEF MapSound, OneHolds
    <3> QED BY <3>1, <3>2
  <2>4. ASSUME ~outlived', NEW s \in Lookups, query'[s].at \in Held, second' < query'[s].until
        PROVE  lock'.owner = s /\ (query'[s].at = "free" => next' <= second')
    <3>1. CASE s = r BY <1>1, <1>5, <1>6, <1>8, <2>4, <3>1
    <3>2. CASE s # r
      <4>1. lock.owner = s BY <1>1, <1>6, <1>8, <2>4, <3>2 DEF MapSound, OneHolds
      <4> QED BY <1>8, <2>4, <3>2, <4>1
    <3> QED BY <3>1, <3>2
  <2> QED BY <2>1, <2>2, <2>3, <2>4 DEF OneHolds
<1>10. query[r].at \in Asking /\ new.at \in Asking BY <1>7, <1>5 DEF Asking, Held
<1>11. lock' \in [owner : Lookups \cup {0}, until : Nat] /\ next' \in Nat /\ last' \in Int
  BY <1>1, <1>2 DEF MapSound, MapTyped
<1> QED BY <1>1, <1>3, <1>4, <1>5, <1>9, <1>10, <1>11, LockKeeps

LEMMA DeleteKeeps ==
    ASSUME Surveyed, MapSound, NEW r \in Lookups, M!Delete(r)
    PROVE  MapSound'
<1>0. PICK at : at = IF query[r].at \in {"granted", "delete_granted"} THEN "ask" ELSE "slot" OBVIOUS
<1> DEFINE new == [query[r] EXCEPT !.at = at, !.until = 0, !.ours = FALSE]
<1>1. /\ query[r].at \in {"delete_granted", "delete_refused"} /\ lock' = [owner |-> 0, until |-> 0]
      /\ outlived' = (outlived \/ (query[r].ours /\ M!Late(r)))
      /\ query' = [query EXCEPT ![r].at = at, ![r].until = 0, ![r].ours = FALSE]
      /\ UNCHANGED <<second, places, geocoder, cache, next, last, crowded, geocoded>>
  BY <1>0 DEF M!Delete, M!GoOn, M!NoLock
<1>2. query[r] \in Queries /\ query \in [Lookups -> Queries] /\ second \in Nat BY DEF MapSound, MapTyped, Surveyed
<1>3. query' = [query EXCEPT ![r] = new] BY <1>1, <1>2 DEF Queries
<1>4. new \in Queries BY <1>0, <1>2 DEF Queries, M!Ats
<1>5. /\ new.at = at /\ new.todo = query[r].todo /\ new.resolved = query[r].resolved /\ new.key = query[r].key
      /\ new.member = query[r].member
  BY <1>2 DEF Queries
<1> HIDE DEF new
<1>6. \A s \in Lookups : query'[s] = IF s = r THEN new ELSE query[s] BY <1>2, <1>3
<1>7. query[r].at \in Held /\ query[r].until \in Nat /\ query[r].ours
  BY <1>1, <1>2 DEF Held, Queries, MapSound, OneHolds
<1>8. ~outlived' => ~outlived /\ lock.owner = r
  <2>0. ~M!Late(r) => second < query[r].until BY <1>2, <1>7 DEF M!Late
  <2>1. ~outlived' => ~outlived /\ ~M!Late(r) BY <1>1, <1>7
  <2> QED BY <1>7, <2>0, <2>1 DEF MapSound, OneHolds
<1>9. at \in {"ask", "slot"} /\ at \notin Held BY <1>0 DEF Held
<1>10. OneHolds'
  <2>1. \A s \in Lookups : query'[s].at \in Held => s # r /\ query'[s] = query[s] BY <1>5, <1>6, <1>9
  <2>2. \A s \in Lookups : lock'.owner # s BY <1>1 DEF Surveyed
  <2>3. ASSUME ~outlived', NEW s \in Lookups, query'[s].at \in Held, second' < query'[s].until
        PROVE  FALSE
    <3>1. lock.owner = s BY <1>1, <1>8, <2>1, <2>3 DEF MapSound, OneHolds
    <3> QED BY <1>8, <2>1, <2>3, <3>1
  <2> QED BY <1>1, <2>1, <2>2, <2>3 DEF MapSound, OneHolds
<1>11. query[r].at \in Asking /\ new.at \in Asking BY <1>5, <1>7, <1>9 DEF Asking
<1>12. lock' \in [owner : Lookups \cup {0}, until : Nat] /\ next' \in Nat /\ last' \in Int
  BY <1>1 DEF MapSound, MapTyped
<1> QED BY <1>1, <1>3, <1>4, <1>5, <1>10, <1>11, <1>12, LockKeeps

-----------------------------------------------------------------------------

LEMMA MapInitSound == ASSUME Surveyed, M!Init PROVE MapSound
<1> USE DEF M!Init
<1>1. \A r \in Lookups : query[r] = M!Idle BY DEF M!Init
<1>2. MapTyped
  <2>1. query \in [Lookups -> Queries] BY IdleIs
  <2>2. cache \in [M!Keys -> [value : Nat, until : 0..(LastSecond + 5)]] BY DEF M!NoEntry, Surveyed
  <2>3. geocoded \in [M!Keys -> SUBSET Outcomes] OBVIOUS
  <2>4. lock \in [owner : Lookups \cup {0}, until : Nat] /\ next \in Nat /\ last \in Int BY DEF M!NoLock, M!INTERVAL
  <2>5. second \in 0..LastSecond /\ places \in Places BY DEF Surveyed
  <2> QED BY <2>1, <2>2, <2>3, <2>4, <2>5 DEF MapTyped
<1>3. OneHolds BY <1>1, IdleIs DEF OneHolds, Held, M!INTERVAL
<1>4. AnswersAreExact /\ M!OnlyAnswersAreRemembered
  BY DEF AnswersAreExact, M!OnlyAnswersAreRemembered, M!Hit, M!NoEntry
<1>5. \A r \in Lookups : GoesBy(query[r], geocoded) BY <1>1, IdleIs, ListingsAre DEF GoesBy
<1> QED BY <1>2, <1>3, <1>4, <1>5 DEF MapSound

LEMMA MapStep == ASSUME Surveyed, MapSound, M!Next \/ UNCHANGED M!vars PROVE MapSound'
<1>1. ASSUME NEW r \in Lookups, M!Request(r) PROVE MapSound'
  <2>1. CASE M!community_map_data(r) BY <2>1, StartKeeps
  <2>2. CASE M!Look(r) \/ M!LookFails(r) \/ M!RateLimited(r) \/ M!StoreFails(r) BY <2>2, LookKeeps
  <2>3. CASE M!Acquire(r) BY <2>3, AcquireKeeps
  <2>4. CASE M!ReadNext(r) \/ M!Compare(r) \/ M!NotOurs(r) BY <2>4, HolderKeeps
  <2>5. CASE M!SetNext(r) BY <2>5, SetNextKeeps
  <2>6. CASE M!Delete(r) BY <2>6, DeleteKeeps
  <2>7. CASE M!_search_nominatim(r) \/ M!Misconfigured(r) BY <2>7, SearchKeeps
  <2>8. CASE M!Store(r) BY <2>8, StoreKeeps
  <2> QED BY <1>1, <2>1, <2>2, <2>3, <2>4, <2>5, <2>6, <2>7, <2>8 DEF M!Request
<1>2. ASSUME UNCHANGED <<geocoder, cache, lock, next, query, last, crowded, outlived, geocoded>>,
             places' \in Places, second' \in 0..LastSecond, second <= second'
      PROVE  MapSound'
  <2>1. MapTyped' /\ AnswersAreExact' BY <1>2 DEF MapSound, MapTyped, AnswersAreExact
  <2>2. second \in Nat /\ second' \in Nat BY <1>2 DEF MapSound, MapTyped, Surveyed
  <2>3. OneHolds'
    <3>1. \A r \in Lookups : query[r].until \in Nat BY DEF MapSound, MapTyped, Queries
    <3>2. next \in Nat BY DEF MapSound, MapTyped
    <3>3. \A r \in Lookups : second' < query[r].until => second < query[r].until BY <1>2, <2>2, <3>1
    <3>4. next <= second => next <= second' BY <1>2, <2>2, <3>2
    <3> QED BY <1>2, <3>3, <3>4 DEF MapSound, OneHolds
  <2>4. M!OnlyAnswersAreRemembered'
    <3> SUFFICES ASSUME NEW k \in M!Keys, second' < cache[k].until
                 PROVE  \E a \in geocoded[k] : a.point = cache[k].value
      BY <1>2 DEF M!OnlyAnswersAreRemembered, M!Hit, M!Keys
    <3>1. cache[k].until \in Nat BY DEF MapSound, MapTyped, Surveyed
    <3>2. M!Hit(k) BY <1>2, <2>2, <3>1 DEF M!Hit
    <3> QED BY <3>2 DEF MapSound, M!OnlyAnswersAreRemembered
  <2>5. (\A r \in Lookups : GoesBy(query[r], geocoded))' BY <1>2 DEF MapSound, GoesBy, Asked, Said
  <2> QED BY <2>1, <2>3, <2>4, <2>5 DEF MapSound
<1>3. CASE M!Edit
  <2>1. places' \in Places BY <1>3 DEF M!Edit
  <2>2. UNCHANGED <<second, geocoder, cache, lock, next, query, last, crowded, outlived, geocoded>> BY <1>3 DEF M!Edit, M!slots
  <2>3. second' \in 0..LastSecond /\ second <= second' BY <2>2 DEF MapSound, MapTyped, Surveyed
  <2> QED BY <1>2, <2>1, <2>2, <2>3
<1>4. CASE M!Tick
  <2>1. UNCHANGED <<places, geocoder, cache, lock, next, query, last, crowded, outlived, geocoded>> BY <1>4 DEF M!Tick, M!slots
  <2>2. second' \in 0..LastSecond /\ second <= second' BY <1>4 DEF M!Tick, MapSound, MapTyped, Surveyed
  <2>3. places' \in Places BY <2>1 DEF MapSound, MapTyped
  <2> QED BY <1>2, <2>1, <2>2, <2>3
<1>5. CASE UNCHANGED M!vars
  <2>1. UNCHANGED <<second, places, geocoder, cache, lock, next, query, last, crowded, outlived, geocoded>> BY <1>5 DEF M!vars
  <2>2. places' \in Places /\ second' \in 0..LastSecond /\ second <= second' BY <2>1 DEF MapSound, MapTyped, Surveyed
  <2> QED BY <1>2, <2>1, <2>2
<1> QED BY <1>1, <1>3, <1>4, <1>5 DEF M!Next

LEMMA PointIs ==
    ASSUME MapSound, NEW r \in Lookups, query[r].at = "done", NEW i \in DOMAIN query[r].todo
    PROVE  LET location == M!location_key(query[r].todo[i])
           IN M!PointOf(r, query[r].todo[i]) # 0 =>
                 location \in Locations /\ Said(location, M!PointOf(r, query[r].todo[i]), geocoded)
<1> DEFINE rec == query[r].todo[i]
           location == M!location_key(rec)
<1>1. query[r].todo \in Listings /\ query[r].resolved \in Resolutions BY DEF MapSound, MapTyped, Queries
<1>2. rec \in PlaceRecords BY <1>1, ListingsAre
<1>3. GoesBy(query[r], geocoded) BY DEF MapSound
<1>4. CASE location = M!Nowhere BY <1>4 DEF M!PointOf
<1>5. CASE location # M!Nowhere
  <2>1. location \in DOMAIN query[r].resolved BY <1>3, <1>5 DEF GoesBy, M!Unresolved
  <2>2. location \in Locations BY <1>2, <1>5, LocationIs
  <2>3. M!PointOf(r, rec) = query[r].resolved[location] BY <1>5 DEF M!PointOf
  <2> QED BY <1>3, <2>1, <2>2, <2>3 DEF GoesBy
<1> QED BY <1>4, <1>5

LEMMA PayloadsSuffice == ASSUME MapSound PROVE M!PayloadsAreComplete
<1> SUFFICES ASSUME NEW r \in Lookups, query[r].at = "done"
             PROVE  LET payload == M!build_map_payload(r)
                        placed == {mark.rec : mark \in payload.markers} IN
                    /\ ~query[r].member => placed \cup payload.unmapped = {}
                    /\ query[r].member => /\ placed \cup payload.unmapped = M!Range(query[r].todo)
                                          /\ placed \cap payload.unmapped = {}
                    /\ \A m, n \in payload.markers : M!location_key(m.rec) = M!location_key(n.rec) => m.point = n.point
  BY DEF M!PayloadsAreComplete
<1> DEFINE payload == M!build_map_payload(r)
           todo == query[r].todo
           placed == {mark.rec : mark \in payload.markers}
<1>1. ~query[r].member => payload.markers = {} /\ payload.unmapped = {} BY DEF M!build_map_payload
<1>2. query[r].member =>
        /\ payload.markers = {[rec |-> todo[i], point |-> M!PointOf(r, todo[i])] :
                                i \in {j \in DOMAIN todo : M!PointOf(r, todo[j]) # 0}}
        /\ payload.unmapped = {todo[i] : i \in {j \in DOMAIN todo : M!PointOf(r, todo[j]) = 0}}
  BY DEF M!build_map_payload
<1> HIDE DEF payload
<1>3. query[r].member => /\ \A m \in payload.markers : \E i \in DOMAIN todo : m.rec = todo[i] /\ m.point = M!PointOf(r, todo[i]) /\ m.point # 0
                         /\ \A i \in DOMAIN todo : M!PointOf(r, todo[i]) # 0 => \E m \in payload.markers : m.rec = todo[i]
                         /\ \A u \in payload.unmapped : \E i \in DOMAIN todo : u = todo[i] /\ M!PointOf(r, todo[i]) = 0
                         /\ \A i \in DOMAIN todo : M!PointOf(r, todo[i]) = 0 => todo[i] \in payload.unmapped
  <2> SUFFICES ASSUME query[r].member
               PROVE  /\ \A m \in payload.markers : \E i \in DOMAIN todo : m.rec = todo[i] /\ m.point = M!PointOf(r, todo[i]) /\ m.point # 0
                      /\ \A i \in DOMAIN todo : M!PointOf(r, todo[i]) # 0 => \E m \in payload.markers : m.rec = todo[i]
                      /\ \A u \in payload.unmapped : \E i \in DOMAIN todo : u = todo[i] /\ M!PointOf(r, todo[i]) = 0
                      /\ \A i \in DOMAIN todo : M!PointOf(r, todo[i]) = 0 => todo[i] \in payload.unmapped
    OBVIOUS
  <2> HIDE DEF todo
  <2>1. ASSUME NEW m \in payload.markers
        PROVE  \E i \in DOMAIN todo : m.rec = todo[i] /\ m.point = M!PointOf(r, todo[i]) /\ m.point # 0
    <3>1. PICK i \in DOMAIN todo : M!PointOf(r, todo[i]) # 0 /\ m = [rec |-> todo[i], point |-> M!PointOf(r, todo[i])]
      BY <1>2 DEF todo
    <3> QED BY <3>1
  <2>2. ASSUME NEW i \in DOMAIN todo, M!PointOf(r, todo[i]) # 0
        PROVE  \E m \in payload.markers : m.rec = todo[i]
    <3>1. [rec |-> todo[i], point |-> M!PointOf(r, todo[i])] \in payload.markers BY <1>2, <2>2 DEF todo
    <3> QED BY <3>1
  <2>3. ASSUME NEW u \in payload.unmapped PROVE \E i \in DOMAIN todo : u = todo[i] /\ M!PointOf(r, todo[i]) = 0
    BY <1>2 DEF todo
  <2>4. ASSUME NEW i \in DOMAIN todo, M!PointOf(r, todo[i]) = 0 PROVE todo[i] \in payload.unmapped
    BY <1>2, <2>4 DEF todo
  <2> QED BY <2>1, <2>2, <2>3, <2>4
<1>4. \A x, y : M!location_key(x) = M!location_key(y) => M!PointOf(r, x) = M!PointOf(r, y) BY DEF M!PointOf
<1>5. M!Range(todo) = {todo[i] : i \in DOMAIN todo} BY DEF M!Range
<1>6. \A m \in payload.markers : query[r].member BY <1>1
<1>7. ~query[r].member => placed \cup payload.unmapped = {} BY <1>1
<1>8. query[r].member => placed \cup payload.unmapped = M!Range(todo)
  <2> SUFFICES ASSUME query[r].member PROVE placed \cup payload.unmapped = {todo[i] : i \in DOMAIN todo} BY <1>5
  <2>1. \A x \in placed : \E i \in DOMAIN todo : x = todo[i] BY <1>3
  <2>2. \A i \in DOMAIN todo : todo[i] \in placed \/ todo[i] \in payload.unmapped BY <1>3
  <2>3. \A x \in payload.unmapped : \E i \in DOMAIN todo : x = todo[i] BY <1>3
  <2> HIDE DEF placed
  <2> QED BY <2>1, <2>2, <2>3
<1>9. query[r].member => placed \cap payload.unmapped = {} BY <1>3
<1>10. \A m, n \in payload.markers : M!location_key(m.rec) = M!location_key(n.rec) => m.point = n.point
  BY <1>3, <1>4, <1>6
<1> QED BY <1>7, <1>8, <1>9, <1>10 DEF payload

LEMMA HousesSuffice == ASSUME MapSound PROVE M!HousesAreConfirmed
<1> SUFFICES ASSUME NEW r \in Lookups, query[r].at = "done", NEW i \in DOMAIN query[r].todo
             PROVE  LET location == M!location_key(query[r].todo[i])
                        point == M!PointOf(r, query[r].todo[i])
                        Known(sort, house) ==
                           {a \in geocoded[[kind |-> sort, city |-> location.city, house |-> house]] : a.point = point} IN
                    point # 0 =>
                        \/ Known("city", 0) # {}
                        \/ location.house # 0 /\ \E a \in Known("address", location.house) :
                              {a.of[j].point : j \in {n \in DOMAIN a.of : a.of[n].fits /\ a.of[n].exact}} = {point}
  BY DEF M!HousesAreConfirmed
<1> DEFINE location == M!location_key(query[r].todo[i])
           point == M!PointOf(r, query[r].todo[i])
<1>1. point # 0 => location \in Locations /\ Said(location, point, geocoded) BY PointIs
<1> HIDE DEF location, point
<1> SUFFICES ASSUME point # 0
             PROVE  \/ {a \in geocoded[[kind |-> "city", city |-> location.city, house |-> 0]] : a.point = point} # {}
                    \/ /\ location.house # 0
                       /\ \E a \in {b \in geocoded[[kind |-> "address", city |-> location.city, house |-> location.house]] :
                                      b.point = point} : Exact(a.of) = {point}
  BY DEF location, point, Exact
<1>2. CASE \E a \in geocoded[[kind |-> "city", city |-> location.city, house |-> 0]] : a.point = point BY <1>2
<1>3. CASE location.house # 0 /\ \E a \in geocoded[[kind |-> "address", city |-> location.city, house |-> location.house]] :
                                     a.point = point
  <2> DEFINE k == [kind |-> "address", city |-> location.city, house |-> location.house]
  <2>1. k \in M!Keys /\ k.kind = "address" BY <1>1, <1>3 DEF Locations, M!Keys
  <2>2. PICK a \in geocoded[k] : a.point = point BY <1>3
  <2> HIDE DEF k
  <2>3. Exact(a.of) = {point} BY <2>1, <2>2 DEF MapSound, AnswersAreExact
  <2> QED BY <1>3, <2>2, <2>3 DEF k
<1> QED BY <1>1, <1>2, <1>3 DEF Said

LEMMA MapSuffices == ASSUME Surveyed, MapSound PROVE M!MapInvariant
<1>1. M!TypeOK BY DEF MapSound, MapTyped, Queries, M!TypeOK, M!SUCCESS_TTL
<1>2. M!SlotsAreSpaced BY DEF MapSound, OneHolds, M!SlotsAreSpaced
<1>3. M!GuestsNeverAsk BY DEF MapSound, GoesBy, M!GuestsNeverAsk
<1>4. M!OnlyAnswersAreRemembered BY DEF MapSound
<1>5. M!HousesAreConfirmed /\ M!PayloadsAreComplete BY HousesSuffice, PayloadsSuffice
<1> QED BY <1>1, <1>2, <1>3, <1>4, <1>5 DEF M!MapInvariant

(* However the requests for the map overlap: the geocoder is asked no      *)
(* sooner than the interval allows unless somebody outlived his lock, and  *)
(* only for members, the cache remembers nothing but answers, a house is   *)
(* shown only where an answer has it, and every place is on the map once.  *)
THEOREM MapInvariantHolds ==
    ASSUME Surveyed
    PROVE  VotingSpec => [](part = "map" => M!MapInvariant)
<1>1. VotingInit => MapSound BY MapInitSound DEF VotingInit, MapInit
<1>2. [VotingNext]_all => M!Next \/ UNCHANGED M!vars
  BY DEF VotingNext, ReferendumNext, TalkNext, SettingsNext, ScheduleNext, RoomsNext, NoticesNext, AccountNext,
         SignsNext, MapNext, all, members, map, M!vars
<1>3. MapSound /\ [VotingNext]_all => MapSound' BY <1>2, MapStep
<1>4. MapSound => M!MapInvariant BY MapSuffices
<1> QED BY <1>1, <1>3, <1>4, PTL DEF VotingSpec

(* All that surrounds the members, whatever the constants.                 *)
THEOREM MembersInvariantHolds ==
    ASSUME Populated, LastSign \in Nat, Surveyed
    PROVE  VotingSpec => []MembersInvariant
<1>1. VotingSpec => [](part = "account" => U!AccountsInvariant) BY AccountsInvariantHolds
<1>2. VotingSpec => [](part = "signs" => O!PresenceInvariant) BY PresenceInvariantHolds
<1>3. VotingSpec => [](part = "map" => M!MapInvariant) BY MapInvariantHolds
<1>4. /\ part = "account" => U!AccountsInvariant
      /\ part = "signs" => O!PresenceInvariant
      /\ part = "map" => M!MapInvariant
      => MembersInvariant
  BY DEF MembersInvariant
<1> QED BY <1>1, <1>2, <1>3, <1>4, PTL
=============================================================================
