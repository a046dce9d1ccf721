-------------------------- MODULE ReferendumProofs --------------------------
(***************************************************************************)
(* What TLAPS proves about Referendum, for every number of citizens,       *)
(* requests, attempts, faults and windows.                                 *)
(***************************************************************************)
EXTENDS Referendum, FiniteSetTheorems, TLAPS

USE DEF Command, Nobody, Running, Answers, Decided, Store, faults

-----------------------------------------------------------------------------
(* Type correctness                                                        *)

(* The sums over a set of votes are numbers.                               *)
LEMMA SumsAreNumbers ==
    ASSUME NEW votes \in SUBSET Requests
    PROVE  /\ Cardinality(votes) \in Nat
           /\ Cardinality(InFavour(votes)) \in Nat
           /\ Cardinality(Against(votes)) \in Nat
<1>1. /\ IsFiniteSet(votes)
      /\ IsFiniteSet(InFavour(votes))
      /\ IsFiniteSet(Against(votes))
  <2>1. InFavour(votes) \subseteq Requests /\ Against(votes) \subseteq Requests
    BY DEF InFavour, Against
  <2> QED BY <2>1, FS_Subset, RequestsAssumption
<1> QED BY <1>1, FS_CardinalityType

(* The bounded counters stay within their bounds.                          *)
LEMMA CountersInRange ==
    ASSUME TypeOK
    PROVE  /\ RequestFault => requestFaults' \in 0..MaxRequestFaults
           /\ CommandFault => commandFaults' \in 0..MaxCommandFaults
           /\ RedisRestart => redisRestarts' \in 0..MaxRedisRestarts
           /\ DayPasses => windows' \in 0..MaxWindows
           /\ \A r \in Requests : CanRetry(r) => NextAttempt(r) \in 1..MaxAttempts
<1>1. RequestFault => requestFaults' \in 0..MaxRequestFaults
  <2>1. requestFaults \in 0..MaxRequestFaults BY DEF TypeOK
  <2>2. RequestFault => requestFaults < MaxRequestFaults /\ requestFaults' = requestFaults + 1 BY DEF RequestFault
  <2> QED BY <2>1, <2>2, BoundsAssumption
<1>2. CommandFault => commandFaults' \in 0..MaxCommandFaults
  <2>1. commandFaults \in 0..MaxCommandFaults BY DEF TypeOK
  <2>2. CommandFault => commandFaults < MaxCommandFaults /\ commandFaults' = commandFaults + 1 BY DEF CommandFault
  <2> QED BY <2>1, <2>2, BoundsAssumption
<1>3. RedisRestart => redisRestarts' \in 0..MaxRedisRestarts
  <2>1. redisRestarts \in 0..MaxRedisRestarts BY DEF TypeOK
  <2>2. RedisRestart => redisRestarts < MaxRedisRestarts /\ redisRestarts' = redisRestarts + 1 BY DEF RedisRestart
  <2> QED BY <2>1, <2>2, BoundsAssumption
<1>4. DayPasses => windows' \in 0..MaxWindows
  <2>1. windows \in 0..MaxWindows BY DEF TypeOK
  <2>2. DayPasses => windows < MaxWindows /\ windows' = windows + 1 BY DEF DayPasses
  <2> QED BY <2>1, <2>2, BoundsAssumption
<1>5. \A r \in Requests : CanRetry(r) => NextAttempt(r) \in 1..MaxAttempts
  <2> SUFFICES ASSUME NEW r \in Requests, CanRetry(r)
               PROVE  NextAttempt(r) \in 1..MaxAttempts
    OBVIOUS
  <2>1. attempt[r] \in 1..MaxAttempts BY DEF TypeOK
  <2>2. attempt[r] < MaxAttempts BY DEF CanRetry
  <2> QED BY <2>1, <2>2, BoundsAssumption DEF NextAttempt
<1> QED BY <1>1, <1>2, <1>3, <1>4, <1>5

LEMMA TypeInit == Init => TypeOK
<1> SUFFICES ASSUME Init PROVE TypeOK
  OBVIOUS
<1>1. /\ 1 \in 1..MaxAttempts /\ 0 \in 0..MaxWindows /\ 0 \in 0..MaxRequestFaults
      /\ 0 \in 0..MaxCommandFaults /\ 0 \in 0..MaxRedisRestarts
  BY BoundsAssumption
<1> QED BY <1>1, RequestsAssumption, EarlyAssumption DEF Init, TypeOK

LEMMA TypeRequest ==
    ASSUME TypeOK, NEW r \in Requests, Request(r)
    PROVE  TypeOK'
<1> USE RequestsAssumption
        DEF TypeOK, sqlVars, lockVars, redisVars, commandVars, Goto
<1>0. /\ RequestFault => requestFaults' \in 0..MaxRequestFaults
      /\ CanRetry(r) => NextAttempt(r) \in 1..MaxAttempts
  BY CountersInRange
<1>1. CASE Begin(r) BY <1>1 DEF Begin
<1>2. CASE Insert(r) BY <1>2 DEF Insert, Rollback
<1>3. CASE Locked(r)
  <2>1. pc' \in [Requests -> {"idle"} \cup Running \cup Answers]
    BY <1>3 DEF Locked, LockedAnswer
  <2>2. attempt' \in [Requests -> 1..MaxAttempts]
    <3>1. attempt \in [Requests -> 1..MaxAttempts]
      OBVIOUS
    <3>2. \/ attempt' = attempt
          \/ CanRetry(r) /\ attempt' = [attempt EXCEPT ![r] = NextAttempt(r)]
      BY <1>3 DEF Locked
    <3> HIDE DEF TypeOK
    <3> QED BY <1>0, <3>1, <3>2
  <2> QED BY <1>3, <2>1, <2>2 DEF Locked, Rollback
<1>4. CASE Push(r) BY <1>4 DEF Push
<1>5. CASE PushFails(r) BY <1>0, <1>5 DEF PushFails, RequestFault, Rollback
<1>6. CASE Commit(r) BY <1>6 DEF Commit, Rollback, Committed
<1>7. CASE Discard(r) BY <1>7 DEF Discard, Without
<1>8. CASE DiscardFails(r) BY <1>0, <1>8 DEF DiscardFails, Without, RequestFault
<1>9. CASE Crash(r) BY <1>0, <1>9 DEF Crash, RequestFault, Rollback
<1> QED BY <1>1, <1>2, <1>3, <1>4, <1>5, <1>6, <1>7, <1>8, <1>9 DEF Request

LEMMA TypeCommand ==
    ASSUME TypeOK, CommandNext
    PROVE  TypeOK'
<1> USE RequestsAssumption
        DEF TypeOK, sqlVars, lockVars, redisVars, requestVars, CommandGoto
<1>0. CommandFault => commandFaults' \in 0..MaxCommandFaults
  BY CountersInRange
<1>1. CASE BeginClose
  <2>1. expected' \in Nat BY <1>1, SumsAreNumbers DEF BeginClose
  <2> QED BY <1>1, <2>1 DEF BeginClose
<1>2. CASE Claim BY <1>2 DEF Claim, Claimed, AfterMismatch
<1>3. CASE Clear BY <1>3 DEF Clear
<1>4. CASE Restart BY <1>4 DEF Restart, Committed
<1>5. CASE Tally
  <2>1. za' \in Nat /\ przeciw' \in Nat BY <1>5, SumsAreNumbers DEF Tally
  <2> QED BY <1>5, <2>1 DEF Tally, Effect, Committed
<1>6. CASE CommandLocked BY <1>6 DEF CommandLocked, Rollback
<1>7. CASE CommandFails BY <1>0, <1>7 DEF CommandFails, CommandFault, Rollback
<1>8. CASE Acknowledge BY <1>8 DEF Acknowledge
<1>9. CASE MarkApplied BY <1>9 DEF MarkApplied, Committed
<1>10. CASE MarkFails BY <1>0, <1>10 DEF MarkFails, CommandFault
<1> QED BY <1>1, <1>2, <1>3, <1>4, <1>5, <1>6, <1>7, <1>8, <1>9, <1>10 DEF CommandNext

LEMMA TypeStep == TypeOK /\ [Next]_vars => TypeOK'
<1> SUFFICES ASSUME TypeOK, [Next]_vars PROVE TypeOK'
  OBVIOUS
<1> USE DEF TypeOK, sqlVars, lockVars, redisVars, requestVars, commandVars
<1>1. CASE \E r \in Requests : Request(r) BY <1>1, TypeRequest
<1>2. CASE CommandNext BY <1>2, TypeCommand
<1>3. CASE DayPasses BY <1>3, CountersInRange DEF DayPasses
<1>4. CASE \E v \in Voters : DeleteVoter(v) BY <1>4 DEF DeleteVoter, Committed
<1>5. CASE Abolish BY <1>5 DEF Abolish, Committed
<1>6. CASE RedisRestart
  <2>1. redisRestarts' \in 0..MaxRedisRestarts
    BY <1>6, CountersInRange DEF RedisRestart
  <2> QED BY <1>6, <2>1 DEF RedisRestart
<1>7. CASE UNCHANGED vars BY <1>7 DEF vars
<1> QED BY <1>1, <1>2, <1>3, <1>4, <1>5, <1>6, <1>7 DEF Next

(* Every variable keeps its type: among others no request makes more than  *)
(* MaxAttempts attempts, and only a request ever holds the write lock      *)
(* while another process runs.                                             *)
THEOREM TypeCorrect == Spec => []TypeOK
BY TypeInit, TypeStep, PTL DEF Spec

-----------------------------------------------------------------------------
(* The inductive invariant, under durable Redis and the schedule           *)

(* The part of the type invariant the steps below use.                     *)
LEMMA Shapes ==
    ASSUME TypeOK
    PROVE  /\ pc \in [Requests -> {"idle"} \cup Running \cup Answers]
           /\ recorded \subseteq Requests /\ pending \subseteq Requests
           /\ Store \subseteq Requests
           /\ Command \notin Requests /\ Nobody \notin Requests
           /\ writer \in Requests \cup {Nobody}
           /\ ack \in {"none", "pending", "applied"}
BY RequestsAssumption DEF TypeOK

(* The lock and the schedule are kept whatever becomes of Redis.           *)
LEMMA LockRequest ==
    ASSUME TypeOK, LockInv, ClosingInv, NEW r \in Requests, Request(r)
    PROVE  LockInv' /\ ClosingInv'
<1>t. /\ pc \in [Requests -> {"idle"} \cup Running \cup Answers]
      /\ recorded \subseteq Requests
      /\ Command \notin Requests /\ Nobody \notin Requests
      /\ writer \in Requests \cup {Nobody}
  BY Shapes
<1>i. LockInv /\ ClosingInv
  OBVIOUS
<1> USE DEF sqlVars, lockVars, redisVars, commandVars, Goto, Closing, Idle, HasVoted
<1>1. CASE Begin(r)
  <2>1. LockInv' BY <1>t, <1>i, <1>1 DEF Begin, LockInv
  <2>2. ClosingInv' BY <1>t, <1>i, <1>1 DEF Begin, ClosingInv
  <2> QED BY <2>1, <2>2
<1>2. CASE Insert(r)
  <2>1. LockInv'
    <3>1. writer = Nobody /\ r \in fresh /\ pc[r] = "insert" BY <1>2 DEF Insert
    <3>2. ~HasVoted(VoterOf[r]) BY <1>i, <3>1 DEF LockInv
    <3>3. pc' = [pc EXCEPT ![r] = "push"] /\ writer' = r /\ UNCHANGED <<sqlVars, fresh, commandVars>>
      BY <1>2, <3>2 DEF Insert
    <3>4. \A q \in Requests : pc[q] \notin {"push", "commit"}
      BY <1>t, <1>i, <3>1 DEF LockInv
    <3> QED BY <1>t, <1>i, <3>1, <3>2, <3>3, <3>4 DEF LockInv
  <2>2. ClosingInv' BY <1>t, <1>i, <1>2 DEF Insert, Rollback, ClosingInv
  <2> QED BY <2>1, <2>2
<1>3. CASE Locked(r)
  <2>1. LockInv' BY <1>t, <1>i, <1>3 DEF Locked, LockedAnswer, Rollback, LockInv
  <2>2. ClosingInv' BY <1>t, <1>i, <1>3 DEF Locked, LockedAnswer, Rollback, ClosingInv
  <2> QED BY <2>1, <2>2
<1>4. CASE Push(r)
  <2>1. LockInv' BY <1>t, <1>i, <1>4 DEF Push, LockInv
  <2>2. ClosingInv' BY <1>t, <1>i, <1>4 DEF Push, ClosingInv
  <2> QED BY <2>1, <2>2
<1>5. CASE PushFails(r)
  <2>1. LockInv' BY <1>t, <1>i, <1>5 DEF PushFails, Rollback, LockInv
  <2>2. ClosingInv' BY <1>t, <1>i, <1>5 DEF PushFails, Rollback, ClosingInv
  <2> QED BY <2>1, <2>2
<1>6. CASE Commit(r)
  <2>1. LockInv' BY <1>t, <1>i, <1>6 DEF Commit, Rollback, Committed, LockInv
  <2>2. ClosingInv' BY <1>t, <1>i, <1>6 DEF Commit, Rollback, Committed, ClosingInv
  <2> QED BY <2>1, <2>2
<1>7. CASE Discard(r)
  <2>1. LockInv' BY <1>t, <1>i, <1>7 DEF Discard, Without, LockInv
  <2>2. ClosingInv' BY <1>t, <1>i, <1>7 DEF Discard, Without, ClosingInv
  <2> QED BY <2>1, <2>2
<1>8. CASE DiscardFails(r)
  <2>1. LockInv' BY <1>t, <1>i, <1>8 DEF DiscardFails, Without, LockInv
  <2>2. ClosingInv' BY <1>t, <1>i, <1>8 DEF DiscardFails, Without, ClosingInv
  <2> QED BY <2>1, <2>2
<1>9. CASE Crash(r)
  <2>1. LockInv' BY <1>t, <1>i, <1>9 DEF Crash, Rollback, LockInv
  <2>2. ClosingInv' BY <1>t, <1>i, <1>9 DEF Crash, Rollback, ClosingInv
  <2> QED BY <2>1, <2>2
<1> QED BY <1>1, <1>2, <1>3, <1>4, <1>5, <1>6, <1>7, <1>8, <1>9 DEF Request

LEMMA LockCommand ==
    ASSUME TypeOK, LockInv, ClosingInv, ~MayOverlap, CommandNext
    PROVE  LockInv' /\ ClosingInv'
<1>t. /\ pc \in [Requests -> {"idle"} \cup Running \cup Answers]
      /\ recorded \subseteq Requests /\ pending \subseteq Requests
      /\ Store \subseteq Requests
      /\ Command \notin Requests /\ Nobody \notin Requests
      /\ writer \in Requests \cup {Nobody}
  BY Shapes
<1>i. LockInv /\ ClosingInv
  OBVIOUS
<1> USE DEF sqlVars, lockVars, redisVars, requestVars, CommandGoto, Closing, Idle, HasVoted
<1>1. CASE BeginClose
  <2>1. LockInv' BY <1>t, <1>i, <1>1 DEF BeginClose, LockInv
  <2>2. ClosingInv' BY <1>t, <1>i, <1>1 DEF BeginClose, ClosingInv
  <2> QED BY <2>1, <2>2
<1>2. CASE Claim
  <2>1. LockInv' BY <1>t, <1>i, <1>2 DEF Claim, Claimed, AfterMismatch, VotesMatch, LockInv
  <2>2. ClosingInv' BY <1>t, <1>i, <1>2 DEF Claim, Claimed, AfterMismatch, VotesMatch, ClosingInv
  <2> QED BY <2>1, <2>2
<1>3. CASE Clear
  <2>1. LockInv' BY <1>t, <1>i, <1>3 DEF Clear, LockInv
  <2>2. ClosingInv' BY <1>t, <1>i, <1>3 DEF Clear, ClosingInv
  <2> QED BY <2>1, <2>2
<1>4. CASE Restart
  <2>1. LockInv' BY <1>t, <1>i, <1>4 DEF Restart, Committed, CanWrite, LockInv
  <2>2. ClosingInv' BY <1>t, <1>i, <1>4 DEF Restart, Committed, CanWrite, ClosingInv
  <2> QED BY <2>1, <2>2
<1>5. CASE Tally
  <2>1. LockInv' BY <1>t, <1>i, <1>5 DEF Tally, Committed, CanWrite, Effect, LockInv
  <2>2. ClosingInv' BY <1>t, <1>i, <1>5 DEF Tally, Committed, CanWrite, Effect, ClosingInv
  <2> QED BY <2>1, <2>2
<1>6. CASE CommandLocked
  <2>1. LockInv' BY <1>t, <1>i, <1>6 DEF CommandLocked, Rollback, LockInv
  <2>2. ClosingInv' BY <1>t, <1>i, <1>6 DEF CommandLocked, Rollback, ClosingInv
  <2> QED BY <2>1, <2>2
<1>7. CASE CommandFails
  <2>1. LockInv' BY <1>t, <1>i, <1>7 DEF CommandFails, Rollback, LockInv
  <2>2. ClosingInv' BY <1>t, <1>i, <1>7 DEF CommandFails, Rollback, ClosingInv
  <2> QED BY <2>1, <2>2
<1>8. CASE Acknowledge
  <2>1. LockInv' BY <1>t, <1>i, <1>8 DEF Acknowledge, LockInv
  <2>2. ClosingInv' BY <1>t, <1>i, <1>8 DEF Acknowledge, ClosingInv
  <2> QED BY <2>1, <2>2
<1>9. CASE MarkApplied
  <2>1. LockInv' BY <1>t, <1>i, <1>9 DEF MarkApplied, Committed, LockInv
  <2>2. ClosingInv' BY <1>t, <1>i, <1>9 DEF MarkApplied, Committed, ClosingInv
  <2> QED BY <2>1, <2>2
<1>10. CASE MarkFails
  <2>1. LockInv' BY <1>t, <1>i, <1>10 DEF MarkFails, LockInv
  <2>2. ClosingInv' BY <1>t, <1>i, <1>10 DEF MarkFails, ClosingInv
  <2> QED BY <2>1, <2>2
<1> QED BY <1>1, <1>2, <1>3, <1>4, <1>5, <1>6, <1>7, <1>8, <1>9, <1>10 DEF CommandNext

LEMMA LockEnvironment ==
    ASSUME TypeOK, LockInv, ClosingInv, DayPasses \/ Abolish \/ \E v \in Voters : DeleteVoter(v)
    PROVE  LockInv' /\ ClosingInv'
<1>t. /\ recorded \subseteq Requests
      /\ Command \notin Requests /\ Nobody \notin Requests
      /\ writer \in Requests \cup {Nobody}
  BY Shapes
<1>i. LockInv /\ ClosingInv
  OBVIOUS
<1> USE DEF sqlVars, lockVars, redisVars, requestVars, commandVars, Closing, Idle, HasVoted
<1>1. CASE DayPasses
  <2>1. LockInv' BY <1>t, <1>i, <1>1 DEF DayPasses, LockInv
  <2>2. ClosingInv' BY <1>i, <1>1 DEF DayPasses, ClosingInv
  <2> QED BY <2>1, <2>2
<1>2. CASE Abolish
  <2>1. LockInv' BY <1>t, <1>i, <1>2 DEF Abolish, Committed, LockInv
  <2>2. ClosingInv' BY <1>i, <1>2 DEF Abolish, ClosingInv
  <2> QED BY <2>1, <2>2
<1>3. CASE \E v \in Voters : DeleteVoter(v)
  <2>1. LockInv' BY <1>t, <1>i, <1>3 DEF DeleteVoter, Committed, LockInv
  <2>2. ClosingInv' BY <1>i, <1>3 DEF DeleteVoter, ClosingInv
  <2> QED BY <2>1, <2>2
<1> QED BY <1>1, <1>2, <1>3

LEMMA LockStep ==
    ASSUME ~MayOverlap, TypeOK, LockInv, ClosingInv, [Next]_vars
    PROVE  LockInv' /\ ClosingInv'
<1>1. CASE RedisRestart \/ UNCHANGED vars
  <2>1. UNCHANGED <<status, open, recorded, gone, writer, fresh, pc, cpc, expected>>
    BY <1>1 DEF RedisRestart, vars, sqlVars, lockVars, requestVars, commandVars
  <2> QED BY <2>1 DEF LockInv, ClosingInv, Closing, Idle, HasVoted
<1> QED BY <1>1, LockRequest, LockCommand, LockEnvironment DEF Next

LEMMA InvInit == Init => ReferendumInvariant
<1> SUFFICES ASSUME Init PROVE ReferendumInvariant
  OBVIOUS
<1>1. TypeOK BY TypeInit
<1>2. LockInv BY RequestsAssumption DEF Init, LockInv
<1>3. ClosingInv BY DEF Init, ClosingInv, Closing
<1>4. VotesInv BY EarlyAssumption DEF Init, VotesInv
<1>5. ResultInv /\ TallyFaithful BY DEF Init, ResultInv, TallyFaithful
<1> QED BY <1>1, <1>2, <1>3, <1>4, <1>5 DEF ReferendumInvariant

(* A step that leaves the result alone keeps what is said about it.        *)
LEMMA ResultUntouched ==
    ASSUME ResultInv, TallyFaithful,
           UNCHANGED <<counted, recorded, za, przeciw, ack>>,
           status' = "referendum" => status = "referendum",
           cpc' = "mark" => cpc = "mark"
    PROVE  ResultInv' /\ TallyFaithful'
BY DEF ResultInv, TallyFaithful, InFavour, Against

LEMMA InvRequest ==
    ASSUME ReferendumInvariant, NEW r \in Requests, Request(r)
    PROVE  VotesInv' /\ ResultInv' /\ TallyFaithful'
<1>t. /\ pc \in [Requests -> {"idle"} \cup Running \cup Answers]
      /\ recorded \subseteq Requests
      /\ Command \notin Requests /\ Nobody \notin Requests
      /\ writer \in Requests \cup {Nobody}
  BY Shapes DEF ReferendumInvariant
<1>i. LockInv /\ ClosingInv /\ VotesInv /\ ResultInv /\ TallyFaithful
  BY DEF ReferendumInvariant
<1> USE DEF sqlVars, lockVars, redisVars, commandVars, Goto, Closing, Idle, HasVoted
<1>1. CASE Begin(r)
  <2>1. VotesInv'
    <3>1. UNCHANGED <<status, open, recorded, redisVars, commandVars>>
      BY <1>1 DEF Begin
    <3>2. PICK to \in {"closed", "already", "insert"} :
              pc' = [pc EXCEPT ![r] = to] /\ (~open => to = "closed")
      BY <1>1 DEF Begin
    <3>3. pc[r] \in {"idle", "retry"}
      BY <1>1 DEF Begin
    <3>4. to # "commit" /\ pc[r] # "saved" /\ pc' \in [Requests -> {"idle"} \cup Running \cup Answers]
      BY <1>t, <3>2, <3>3 DEF Running, Answers
    <3>5. \A q \in Requests : (pc'[q] = "commit" => pc[q] = "commit") /\ (pc[q] = "saved" => pc'[q] = "saved")
      BY <1>t, <3>2, <3>4
    <3>6. ~open /\ Idle => Idle'
      BY <1>t, <3>2 DEF Running
    <3> QED BY <1>t, <1>i, <3>1, <3>5, <3>6 DEF VotesInv
  <2>2. ResultInv' /\ TallyFaithful' BY <1>i, <1>1, ResultUntouched DEF Begin
  <2> QED BY <2>1, <2>2
<1>2. CASE Insert(r)
  <2>1. VotesInv' BY <1>t, <1>i, <1>2 DEF Insert, Rollback, ClosingInv, LockInv, VotesInv
  <2>2. ResultInv' /\ TallyFaithful' BY <1>i, <1>2, ResultUntouched DEF Insert
  <2> QED BY <2>1, <2>2
<1>3. CASE Locked(r)
  <2>1. VotesInv' BY <1>t, <1>i, <1>3 DEF Locked, LockedAnswer, Rollback, ClosingInv, LockInv, VotesInv
  <2>2. ResultInv' /\ TallyFaithful' BY <1>i, <1>3, ResultUntouched DEF Locked
  <2> QED BY <2>1, <2>2
<1>4. CASE Push(r)
  <2>1. VotesInv' BY <1>t, <1>i, <1>4 DEF Push, ClosingInv, LockInv, VotesInv
  <2>2. ResultInv' /\ TallyFaithful' BY <1>i, <1>4, ResultUntouched DEF Push
  <2> QED BY <2>1, <2>2
<1>5. CASE PushFails(r)
  <2>1. VotesInv' BY <1>t, <1>i, <1>5 DEF PushFails, Rollback, ClosingInv, LockInv, VotesInv
  <2>2. ResultInv' /\ TallyFaithful' BY <1>i, <1>5, ResultUntouched DEF PushFails
  <2> QED BY <2>1, <2>2
<1>6. CASE Commit(r)
  <2>1. VotesInv'
    <3>1. CASE VoterOf[r] \in gone
      BY <1>t, <1>i, <1>6, <3>1 DEF Commit, ClosingInv, LockInv, VotesInv
    <3>2. CASE VoterOf[r] \notin gone
      <4>1. /\ recorded' = recorded \cup {r} /\ pc' = [pc EXCEPT ![r] = "saved"]
            /\ pc[r] = "commit"
            /\ UNCHANGED <<status, open, redisVars, commandVars>>
        BY <1>6, <3>2 DEF Commit
      <4>2. status = "referendum" /\ ~HasVoted(VoterOf[r]) /\ ~Closing /\ ~Idle
        BY <1>i, <4>1 DEF LockInv, ClosingInv
      <4>3. \A q \in recorded : VoterOf[q] # VoterOf[r]
        BY <3>2, <4>2
      <4>4. r \in buffer /\ recorded \subseteq Store
        BY <1>i, <4>1, <4>2 DEF VotesInv
      <4>5. \A q \in recorded' : pc'[q] = "saved"
        BY <1>t, <1>i, <4>1 DEF VotesInv
      <4>6. \A q, s \in recorded' : VoterOf[q] = VoterOf[s] => q = s
        BY <1>i, <4>1, <4>3 DEF VotesInv
      <4>7. \A q \in Requests : pc'[q] = "commit" => q \in buffer'
        BY <1>t, <1>i, <4>1 DEF VotesInv
      <4>8. recorded' \subseteq Store' BY <4>1, <4>4
      <4>9. cpc' \notin {"tally", "restart"} BY <4>1, <4>2
      <4> QED BY <4>5, <4>6, <4>7, <4>8, <4>9 DEF VotesInv
    <3> QED BY <3>1, <3>2
  <2>2. ResultInv' /\ TallyFaithful'
    BY <1>t, <1>i, <1>6 DEF Commit, Rollback, Committed, LockInv, ResultInv, TallyFaithful, InFavour, Against
  <2> QED BY <2>1, <2>2
<1>7. CASE Discard(r)
  <2>1. VotesInv' BY <1>t, <1>i, <1>7 DEF Discard, Without, ClosingInv, LockInv, VotesInv
  <2>2. ResultInv' /\ TallyFaithful' BY <1>i, <1>7, ResultUntouched DEF Discard
  <2> QED BY <2>1, <2>2
<1>8. CASE DiscardFails(r)
  <2>1. VotesInv' BY <1>t, <1>i, <1>8 DEF DiscardFails, Without, ClosingInv, LockInv, VotesInv
  <2>2. ResultInv' /\ TallyFaithful' BY <1>i, <1>8, ResultUntouched DEF DiscardFails
  <2> QED BY <2>1, <2>2
<1>9. CASE Crash(r)
  <2>1. VotesInv' BY <1>t, <1>i, <1>9 DEF Crash, Rollback, ClosingInv, LockInv, VotesInv
  <2>2. ResultInv' /\ TallyFaithful' BY <1>i, <1>9, ResultUntouched DEF Crash
  <2> QED BY <2>1, <2>2
<1> QED BY <1>1, <1>2, <1>3, <1>4, <1>5, <1>6, <1>7, <1>8, <1>9 DEF Request

(* Votes that match a list they cover are the list; so are no votes and an *)
(* empty list.                                                             *)
LEMMA MatchingVotes ==
    ASSUME NEW list \in SUBSET Requests, NEW votes \in SUBSET Requests,
           list \subseteq votes \/ votes = {},
           Cardinality(list) = Cardinality(votes)
    PROVE  votes = list
<1>1. IsFiniteSet(list) /\ IsFiniteSet(votes)
  BY FS_Subset, RequestsAssumption
<1>2. CASE list \subseteq votes
  BY <1>1, <1>2, FS_Subset
<1>3. CASE votes = {}
  <2>1. Cardinality(list) = 0 BY <1>3, FS_EmptySet
  <2> QED BY <1>1, <1>3, <2>1, FS_EmptySet
<1> QED BY <1>2, <1>3

LEMMA InvCommand ==
    ASSUME ReferendumInvariant, ~MayOverlap, CommandNext
    PROVE  VotesInv' /\ ResultInv' /\ TallyFaithful'
<1>t. /\ pc \in [Requests -> {"idle"} \cup Running \cup Answers]
      /\ recorded \subseteq Requests /\ pending \subseteq Requests
      /\ Store \subseteq Requests
      /\ Command \notin Requests /\ Nobody \notin Requests
      /\ writer \in Requests \cup {Nobody}
  BY Shapes DEF ReferendumInvariant
<1>i. LockInv /\ ClosingInv /\ VotesInv /\ ResultInv /\ TallyFaithful
  BY DEF ReferendumInvariant
<1> USE DEF sqlVars, lockVars, redisVars, requestVars, CommandGoto, Closing, Idle, HasVoted
<1>1. CASE BeginClose
  <2>1. VotesInv' BY <1>t, <1>i, <1>1 DEF BeginClose, ClosingInv, LockInv, VotesInv, ResultInv
  <2>2. ResultInv' /\ TallyFaithful' BY <1>i, <1>1, ResultUntouched DEF BeginClose
  <2> QED BY <2>1, <2>2
<1>2. CASE Claim
  <2>1. VotesInv' BY <1>t, <1>i, <1>2 DEF Claim, Claimed, AfterMismatch, VotesMatch, ClosingInv, LockInv, VotesInv, ResultInv
  <2>2. ResultInv' /\ TallyFaithful' BY <1>i, <1>2, ResultUntouched DEF Claim, Claimed, AfterMismatch, VotesMatch
  <2> QED BY <2>1, <2>2
<1>3. CASE Clear
  <2>1. VotesInv' BY <1>t, <1>i, <1>3 DEF Clear, ClosingInv, LockInv, VotesInv, ResultInv
  <2>2. ResultInv' /\ TallyFaithful' BY <1>i, <1>3, ResultUntouched DEF Clear
  <2> QED BY <2>1, <2>2
<1>4. CASE Restart
  <2>1. VotesInv' BY <1>t, <1>i, <1>4 DEF Restart, Committed, CanWrite, ClosingInv, LockInv, VotesInv, ResultInv
  <2>2. ResultInv' /\ TallyFaithful'
    BY <1>t, <1>i, <1>4 DEF Restart, Committed, CanWrite, ClosingInv, VotesInv, LockInv, ResultInv, TallyFaithful, InFavour, Against
  <2> QED BY <2>1, <2>2
<1>5. CASE Tally
  <2>1. VotesInv' BY <1>t, <1>i, <1>5 DEF Tally, Committed, CanWrite, Effect, ClosingInv, LockInv, VotesInv, ResultInv
  <2>2. ResultInv' /\ TallyFaithful'
    <3>1. /\ pending = Store /\ expected = Cardinality(pending)
          /\ expected = Cardinality(recorded) /\ status = "referendum"
      BY <1>i, <1>5 DEF Tally, CanWrite, ClosingInv, VotesInv, LockInv
    <3>2. recorded \subseteq pending \/ pending = {}
      BY <1>i, <3>1 DEF VotesInv
    <3>3. pending = recorded
      <4>1. recorded \in SUBSET Requests /\ pending \in SUBSET Requests
        BY <1>t
      <4>2. Cardinality(recorded) = Cardinality(pending) BY <3>1
      <4> HIDE DEF Store
      <4> QED BY <3>2, <4>1, <4>2, MatchingVotes
    <3>4. /\ counted' = recorded /\ recorded' = recorded
          /\ za' = Cardinality(InFavour(recorded))
          /\ przeciw' = Cardinality(Against(recorded))
      BY <1>5, <3>3 DEF Tally
    <3>5. status' # "referendum" /\ ack' # "none" /\ cpc' # "mark"
      BY <1>5 DEF Tally, Effect
    <3> QED BY <3>4, <3>5 DEF ResultInv, TallyFaithful, InFavour, Against
  <2> QED BY <2>1, <2>2
<1>6. CASE CommandLocked
  <2>1. VotesInv' BY <1>t, <1>i, <1>6 DEF CommandLocked, Rollback, ClosingInv, LockInv, VotesInv, ResultInv
  <2>2. ResultInv' /\ TallyFaithful' BY <1>i, <1>6, ResultUntouched DEF CommandLocked, Rollback
  <2> QED BY <2>1, <2>2
<1>7. CASE CommandFails
  <2>1. VotesInv' BY <1>t, <1>i, <1>7 DEF CommandFails, Rollback, ClosingInv, LockInv, VotesInv, ResultInv
  <2>2. ResultInv' /\ TallyFaithful' BY <1>i, <1>7, ResultUntouched DEF CommandFails, Rollback
  <2> QED BY <2>1, <2>2
<1>8. CASE Acknowledge
  <2>1. VotesInv' BY <1>t, <1>i, <1>8 DEF Acknowledge, ClosingInv, LockInv, VotesInv, ResultInv
  <2>2. ResultInv' /\ TallyFaithful' 
    BY <1>i, <1>8 DEF Acknowledge, ResultInv, TallyFaithful, InFavour, Against
  <2> QED BY <2>1, <2>2
<1>9. CASE MarkApplied
  <2>1. VotesInv' BY <1>t, <1>i, <1>9 DEF MarkApplied, Committed, ClosingInv, LockInv, VotesInv, ResultInv
  <2>2. ResultInv' /\ TallyFaithful'
    BY <1>t, <1>i, <1>9 DEF MarkApplied, Committed, ClosingInv, VotesInv, LockInv, ResultInv, TallyFaithful, InFavour, Against
  <2> QED BY <2>1, <2>2
<1>10. CASE MarkFails
  <2>1. VotesInv' BY <1>t, <1>i, <1>10 DEF MarkFails, ClosingInv, LockInv, VotesInv, ResultInv
  <2>2. ResultInv' /\ TallyFaithful' BY <1>i, <1>10, ResultUntouched DEF MarkFails
  <2> QED BY <2>1, <2>2
<1> QED BY <1>1, <1>2, <1>3, <1>4, <1>5, <1>6, <1>7, <1>8, <1>9, <1>10 DEF CommandNext

LEMMA InvEnvironment ==
    ASSUME ReferendumInvariant, DayPasses \/ Abolish \/ \E v \in Voters : DeleteVoter(v)
    PROVE  VotesInv' /\ ResultInv' /\ TallyFaithful'
<1>t. /\ recorded \subseteq Requests
      /\ Command \notin Requests /\ Nobody \notin Requests
      /\ writer \in Requests \cup {Nobody}
  BY Shapes DEF ReferendumInvariant
<1>i. LockInv /\ ClosingInv /\ VotesInv /\ ResultInv /\ TallyFaithful
  BY DEF ReferendumInvariant
<1> USE DEF sqlVars, lockVars, redisVars, requestVars, commandVars, Closing, Idle, HasVoted
<1>1. CASE DayPasses
  <2>1. VotesInv' BY <1>t, <1>i, <1>1 DEF DayPasses, VotesInv
  <2>2. ResultInv' /\ TallyFaithful' BY <1>i, <1>1, ResultUntouched DEF DayPasses
  <2> QED BY <2>1, <2>2
<1>2. CASE Abolish
  <2>1. VotesInv' BY <1>t, <1>i, <1>2 DEF Abolish, VotesInv
  <2>2. ResultInv' /\ TallyFaithful' BY <1>i, <1>2, ResultUntouched DEF Abolish
  <2> QED BY <2>1, <2>2
<1>3. CASE \E v \in Voters : DeleteVoter(v)
  <2>1. VotesInv'
    <3>1. UNCHANGED <<status, open, recorded, redisVars, requestVars, commandVars>>
      BY <1>3 DEF DeleteVoter
    <3> QED BY <1>t, <1>i, <3>1 DEF VotesInv
  <2>2. ResultInv' /\ TallyFaithful' BY <1>i, <1>3, ResultUntouched DEF DeleteVoter
  <2> QED BY <2>1, <2>2
<1> QED BY <1>1, <1>2, <1>3

LEMMA InvStutter ==
    ASSUME ReferendumInvariant, UNCHANGED vars
    PROVE  ReferendumInvariant'
<1> USE DEF vars, sqlVars, lockVars, redisVars, requestVars, commandVars, ReferendumInvariant
<1>1. TypeOK' BY DEF TypeOK
<1>2. LockInv' /\ ClosingInv' BY DEF LockInv, ClosingInv, HasVoted, Closing, Idle
<1>3. VotesInv' BY DEF VotesInv, Closing, Idle
<1>4. ResultInv' /\ TallyFaithful' BY DEF ResultInv, TallyFaithful, InFavour, Against
<1> QED BY <1>1, <1>2, <1>3, <1>4

LEMMA InvStep ==
    ASSUME MaxRedisRestarts = 0, ~MayOverlap
    PROVE  ReferendumInvariant /\ [Next]_vars => ReferendumInvariant'
<1> SUFFICES ASSUME ReferendumInvariant, [Next]_vars PROVE ReferendumInvariant'
  OBVIOUS
<1>t. TypeOK /\ TypeOK' BY TypeStep DEF ReferendumInvariant
<1>l. LockInv' /\ ClosingInv' BY <1>t, LockStep DEF ReferendumInvariant
<1>1. CASE \E r \in Requests : Request(r)
  BY <1>t, <1>l, <1>1, InvRequest DEF ReferendumInvariant
<1>2. CASE CommandNext
  BY <1>t, <1>l, <1>2, InvCommand DEF ReferendumInvariant
<1>3. CASE DayPasses \/ Abolish \/ \E v \in Voters : DeleteVoter(v)
  BY <1>t, <1>l, <1>3, InvEnvironment DEF ReferendumInvariant
<1>4. CASE RedisRestart
  <2>1. redisRestarts \in 0..0 /\ redisRestarts < 0
    BY <1>t, <1>4 DEF TypeOK, RedisRestart
  <2> QED BY <2>1
<1>5. CASE UNCHANGED vars BY <1>5, InvStutter
<1> QED BY <1>1, <1>2, <1>3, <1>4, <1>5 DEF Next

(* Under a durable Redis and the scheduled command the invariant holds, so *)
(* every decided referendum was decided by exactly the recorded votes.     *)
THEOREM InvariantHolds ==
    ASSUME MaxRedisRestarts = 0, ~MayOverlap
    PROVE  Spec => []ReferendumInvariant
<1>1. ReferendumInvariant /\ [Next]_vars => ReferendumInvariant' BY InvStep
<1> QED BY InvInit, <1>1, PTL DEF Spec

THEOREM TallyIsFaithful ==
    ASSUME MaxRedisRestarts = 0, ~MayOverlap
    PROVE  Spec => []TallyFaithful
<1>1. Spec => []ReferendumInvariant BY InvariantHolds
<1>2. ReferendumInvariant => TallyFaithful BY DEF ReferendumInvariant
<1> QED BY <1>1, <1>2, PTL

(* No citizen is counted twice.                                            *)
THEOREM NobodyCountsTwice ==
    ASSUME MaxRedisRestarts = 0, ~MayOverlap
    PROVE  Spec => []OneVotePerVoter
<1>1. Spec => []ReferendumInvariant BY InvariantHolds
<1>2. ReferendumInvariant => OneVotePerVoter
  <2> SUFFICES ASSUME ReferendumInvariant PROVE OneVotePerVoter
    OBVIOUS
  <2>1. VotesInv /\ ResultInv BY DEF ReferendumInvariant
  <2>2. counted = {} \/ counted = recorded BY <2>1 DEF ResultInv
  <2> QED BY <2>1, <2>2 DEF VotesInv, OneVotePerVoter
<1> QED BY <1>1, <1>2, PTL

-----------------------------------------------------------------------------
(* The referendum implements the ballot                                    *)

LEMMA BallotInitially == Init => AbstractBallot!BallotInit
BY EarlyAssumption DEF Init, AbstractBallot!BallotInit

LEMMA BallotRequest ==
    ASSUME ReferendumInvariant, NEW r \in Requests, Request(r)
    PROVE  AbstractBallot!Cast(r) \/ UNCHANGED <<recorded, gone, status, open, counted>>
<1>i. LockInv BY DEF ReferendumInvariant
<1>1. CASE Commit(r) /\ VoterOf[r] \notin gone
  <2>1. /\ recorded' = recorded \cup {r}
        /\ UNCHANGED <<gone, status, open, counted>>
        /\ pc[r] = "commit"
    BY <1>1 DEF Commit
  <2>2. status = "referendum" /\ ~HasVoted(VoterOf[r])
    BY <1>i, <2>1 DEF LockInv
  <2>3. VoterOf[r] \in Voters \ gone BY <1>1, RequestsAssumption
  <2>4. \A q \in recorded : VoterOf[q] # VoterOf[r]
    BY <1>1, <2>2 DEF HasVoted
  <2> QED BY <2>1, <2>2, <2>3, <2>4 DEF AbstractBallot!Cast
<1>2. CASE ~(Commit(r) /\ VoterOf[r] \notin gone)
  BY <1>2 DEF Request, Begin, Insert, Locked, Push, PushFails, Commit, Discard,
              DiscardFails, Crash, sqlVars
<1> QED BY <1>1, <1>2

LEMMA BallotCommand ==
    ASSUME ReferendumInvariant, ReferendumInvariant', CommandNext
    PROVE  \/ AbstractBallot!PollAgain \/ AbstractBallot!Decide
           \/ UNCHANGED <<recorded, gone, status, open, counted>>
<1>i. ClosingInv /\ ResultInv /\ ResultInv' /\ TallyFaithful'
  BY DEF ReferendumInvariant
<1>1. CASE Restart
  <2>1. status = "referendum" /\ ~open BY <1>i, <1>1 DEF Restart, ClosingInv, Closing
  <2> QED BY <1>1, <2>1 DEF Restart, AbstractBallot!PollAgain
<1>2. CASE Tally
  <2>1. status = "referendum" /\ ~open BY <1>i, <1>2 DEF Tally, ClosingInv, Closing
  <2>2. counted' = recorded BY <1>i, <1>2 DEF Tally, Effect, ResultInv
  <2>3. /\ counted' = pending /\ UNCHANGED <<recorded, gone, open>>
        /\ status' = IF Majority(pending) THEN "approved" ELSE "rejected"
    BY <1>2 DEF Tally, Majority
  <2>4. status' = IF Majority(recorded) THEN "approved" ELSE "rejected"
    BY <2>2, <2>3
  <2>5. status' # "referendum" BY <2>4
  <2> QED BY <2>1, <2>2, <2>3, <2>4, <2>5 DEF AbstractBallot!Decide
<1>3. CASE ~Restart /\ ~Tally
  BY <1>3 DEF CommandNext, BeginClose, Claim, Clear, CommandLocked, CommandFails,
              Acknowledge, MarkApplied, MarkFails, sqlVars
<1> QED BY <1>1, <1>2, <1>3

LEMMA BallotStep ==
    ASSUME MaxRedisRestarts = 0, ReferendumInvariant, ReferendumInvariant', [Next]_vars
    PROVE  [AbstractBallot!BallotNext]_(AbstractBallot!ballotVars)
<1> USE DEF AbstractBallot!BallotNext, AbstractBallot!ballotVars
<1>1. CASE \E r \in Requests : Request(r)
  BY <1>1, BallotRequest
<1>2. CASE CommandNext
  BY <1>2, BallotCommand
<1>3. CASE DayPasses
  BY <1>3 DEF DayPasses, AbstractBallot!Close
<1>4. CASE \E v \in Voters : DeleteVoter(v)
  BY <1>4 DEF DeleteVoter, AbstractBallot!Leave
<1>5. CASE Abolish
  <2>1. status \in {"referendum", "abolished"} \cup Decided
    BY DEF ReferendumInvariant, TypeOK
  <2> QED BY <1>5, <2>1 DEF Abolish, AbstractBallot!Repeal
<1>6. CASE RedisRestart
  BY <1>6 DEF RedisRestart, sqlVars
<1>7. CASE UNCHANGED vars
  BY <1>7 DEF vars, sqlVars
<1> QED BY <1>1, <1>2, <1>3, <1>4, <1>5, <1>6, <1>7 DEF Next

(* Request, buffer and command together implement the atomic ballot.       *)
THEOREM ReferendumImplementsBallot ==
    ASSUME MaxRedisRestarts = 0, ~MayOverlap
    PROVE  Spec => ImplementsBallot
<1>1. Spec => []ReferendumInvariant BY InvariantHolds
<1>2. ReferendumInvariant /\ ReferendumInvariant' /\ [Next]_vars
        => [AbstractBallot!BallotNext]_(AbstractBallot!ballotVars)
  BY BallotStep
<1> QED BY <1>1, <1>2, BallotInitially, PTL DEF Spec, ImplementsBallot, AbstractBallot!BallotSpec

-----------------------------------------------------------------------------
(* What the pages told the voters, whatever fails and overlaps             *)

LEMMA CountsAreNumbers ==
    ASSUME TypeOK
    PROVE  windows \in Nat /\ requestFaults \in Nat /\ redisRestarts \in Nat
<1>1. /\ windows \in 0..MaxWindows /\ requestFaults \in 0..MaxRequestFaults
      /\ redisRestarts \in 0..MaxRedisRestarts
  BY DEF TypeOK
<1> QED BY <1>1, BoundsAssumption

(* The command works on a window that has ended.                           *)
WindowInv == (Closing => ~open) /\ (~open => windows # 0)

RecordedAreSaved == \A r \in recorded : pc[r] = "saved"

(* Another vote of the citizen is there, or the account is gone.           *)
Refused(r) == VoterOf[r] \in gone \/ \E q \in recorded \ {r} : VoterOf[q] = VoterOf[r]

DiscardInv == \A r \in Requests : pc[r] = "discard" /\ FirstWindow => Refused(r)

AnswersInv == RecordedAreSaved /\ DiscardInv /\ HonestAnswers

(* A request goes on, and is refused only with a reason.                   *)
LEMMA AnswerKeeps ==
    ASSUME TypeOK, AnswersInv, NEW r \in Requests, NEW label, label # "saved", pc[r] # "saved",
           Goto(r, label), UNCHANGED <<recorded, gone, windows, open>>,
           label \in {"already", "discard"} /\ FirstWindow => Refused(r)
    PROVE  AnswersInv'
<1>1. /\ pc \in [Requests -> {"idle"} \cup Running \cup Answers] /\ recorded \subseteq Requests
      /\ pc'[r] = label /\ \A q \in Requests \ {r} : pc'[q] = pc[q]
  BY Shapes DEF Goto
<1>2. r \notin recorded BY DEF AnswersInv, RecordedAreSaved
<1>3. FirstWindow' <=> FirstWindow BY DEF FirstWindow
<1>4. \A q \in Requests : Refused(q)' <=> Refused(q) BY DEF Refused
<1>5. RecordedAreSaved' BY <1>1, <1>2 DEF AnswersInv, RecordedAreSaved
<1>6. DiscardInv' BY <1>1, <1>3, <1>4 DEF AnswersInv, DiscardInv
<1>7. HonestAnswers'
  <2> SUFFICES ASSUME NEW q \in Requests
               PROVE  /\ pc'[q] = "saved" /\ FirstWindow => q \in recorded
                      /\ pc'[q] \in {"unavailable", "closed", "already"} => q \notin recorded
                      /\ pc'[q] = "already" /\ FirstWindow => Refused(q)
    BY <1>3 DEF HonestAnswers, Refused
  <2>1. /\ pc[q] = "saved" /\ FirstWindow => q \in recorded
        /\ pc[q] \in {"unavailable", "closed", "already"} => q \notin recorded
        /\ pc[q] = "already" /\ FirstWindow => Refused(q)
    BY DEF AnswersInv, HonestAnswers, Refused
  <2> QED BY <1>1, <1>2, <2>1
<1> QED BY <1>5, <1>6, <1>7 DEF AnswersInv

(* What no request does keeps the answers true, unless rows go.            *)
LEMMA ElsewhereKeeps ==
    ASSUME AnswersInv, UNCHANGED <<pc, recorded>>, gone \subseteq gone', FirstWindow' => FirstWindow
    PROVE  AnswersInv'
<1>1. \A q \in Requests : Refused(q) => Refused(q)' BY DEF Refused
<1>2. RecordedAreSaved' /\ DiscardInv' BY <1>1 DEF AnswersInv, RecordedAreSaved, DiscardInv
<1>3. HonestAnswers' BY <1>1 DEF AnswersInv, HonestAnswers, Refused
<1> QED BY <1>2, <1>3 DEF AnswersInv

LEMMA CommitAnswers ==
    ASSUME TypeOK, AnswersInv, NEW r \in Requests, Commit(r)
    PROVE  AnswersInv'
<1>1. /\ pc \in [Requests -> {"idle"} \cup Running \cup Answers] /\ recorded \subseteq Requests
      /\ pc[r] = "commit" /\ UNCHANGED <<gone, windows, open>>
  BY Shapes DEF Commit
<1>2. CASE VoterOf[r] \in gone
  <2>1. Goto(r, "discard") /\ UNCHANGED recorded BY <1>2 DEF Commit
  <2>2. Refused(r) BY <1>2 DEF Refused
  <2> QED BY <1>1, <2>1, <2>2, AnswerKeeps
<1>3. CASE VoterOf[r] \notin gone
  <2>1. pc' = [pc EXCEPT ![r] = "saved"] /\ recorded' = recorded \cup {r}
    BY <1>3 DEF Commit, Goto
  <2>2. pc'[r] = "saved" /\ \A q \in Requests \ {r} : pc'[q] = pc[q] BY <1>1, <2>1
  <2>3. FirstWindow' <=> FirstWindow BY <1>1 DEF FirstWindow
  <2>4. \A q \in Requests : Refused(q) => Refused(q)' BY <1>1, <2>1 DEF Refused
  <2>5. RecordedAreSaved' BY <1>1, <2>1, <2>2 DEF AnswersInv, RecordedAreSaved
  <2>6. DiscardInv' BY <2>2, <2>3, <2>4 DEF AnswersInv, DiscardInv
  <2>7. HonestAnswers'
    <3> SUFFICES ASSUME NEW q \in Requests
                 PROVE  /\ pc'[q] = "saved" /\ FirstWindow => q \in recorded'
                        /\ pc'[q] \in {"unavailable", "closed", "already"} => q \notin recorded'
                        /\ pc'[q] = "already" /\ FirstWindow => Refused(q)'
      BY <2>3 DEF HonestAnswers, Refused
    <3>1. /\ pc[q] = "saved" /\ FirstWindow => q \in recorded
          /\ pc[q] \in {"unavailable", "closed", "already"} => q \notin recorded
          /\ pc[q] = "already" /\ FirstWindow => Refused(q)
      BY DEF AnswersInv, HonestAnswers, Refused
    <3> QED BY <2>1, <2>2, <2>4, <3>1
  <2> QED BY <2>5, <2>6, <2>7 DEF AnswersInv
<1> QED BY <1>2, <1>3

LEMMA RequestAnswers ==
    ASSUME TypeOK, AnswersInv, NEW r \in Requests, Request(r)
    PROVE  AnswersInv'
<1>0. \A q \in recorded : pc[q] = "saved" BY DEF AnswersInv, RecordedAreSaved
<1>r. ASSUME HasVoted(VoterOf[r]), pc[r] # "saved" PROVE Refused(r)
  BY <1>0, <1>r DEF HasVoted, Refused
<1> USE DEF sqlVars
<1>1. CASE Begin(r)
  <2>1. pc[r] \in {"idle", "retry"} /\ UNCHANGED <<recorded, gone, windows, open>>
    BY <1>1 DEF Begin
  <2>2. \/ Goto(r, "closed") \/ Goto(r, "insert")
        \/ Goto(r, "already") /\ HasVoted(VoterOf[r])
    BY <1>1 DEF Begin
  <2> QED BY <1>r, <2>1, <2>2, AnswerKeeps
<1>2. CASE Insert(r)
  <2>1. pc[r] = "insert" /\ UNCHANGED <<recorded, gone, windows, open>> BY <1>2 DEF Insert
  <2>2. Goto(r, "push") \/ (Goto(r, "discard") /\ HasVoted(VoterOf[r])) BY <1>2 DEF Insert
  <2> QED BY <1>r, <2>1, <2>2, AnswerKeeps
<1>3. CASE Locked(r)
  <2>1. pc[r] = "insert" /\ UNCHANGED <<recorded, gone, windows, open>> BY <1>3 DEF Locked
  <2>2. \/ Goto(r, "retry") \/ Goto(r, "unavailable")
        \/ Goto(r, "already") /\ HasVoted(VoterOf[r])
    BY <1>3 DEF Locked, LockedAnswer
  <2> QED BY <1>r, <2>1, <2>2, AnswerKeeps
<1>4. CASE Push(r) BY <1>4, AnswerKeeps DEF Push
<1>5. CASE PushFails(r) BY <1>5, AnswerKeeps DEF PushFails
<1>6. CASE Commit(r) BY <1>6, CommitAnswers
<1>7. CASE Discard(r)
  <2>1. /\ pc[r] = "discard" /\ Goto(r, "already") /\ UNCHANGED <<recorded, gone, windows, open>>
    BY <1>7 DEF Discard
  <2>2. FirstWindow => Refused(r) BY <2>1 DEF AnswersInv, DiscardInv
  <2> QED BY <2>1, <2>2, AnswerKeeps
<1>8. CASE DiscardFails(r) BY <1>8, AnswerKeeps DEF DiscardFails
<1>9. CASE Crash(r) BY <1>9, AnswerKeeps DEF Crash
<1> QED BY <1>1, <1>2, <1>3, <1>4, <1>5, <1>6, <1>7, <1>8, <1>9 DEF Request

(* A restart opens another window: the first one is over for good.         *)
LEMMA OtherAnswers ==
    ASSUME TypeOK, AnswersInv, WindowInv, [CommandNext \/ DayPasses \/ Abolish \/ RedisRestart
                                           \/ \E v \in Voters : DeleteVoter(v)]_vars
    PROVE  AnswersInv'
<1> USE DEF sqlVars, requestVars
<1>1. CASE Restart
  <2>1. recorded' = {} /\ pc' = pc /\ gone' = gone /\ windows' = windows /\ open' = TRUE
        /\ windows # 0
    BY <1>1 DEF Restart, WindowInv, Closing
  <2>2. ~FirstWindow' BY <2>1 DEF FirstWindow
  <2> QED BY <2>1, <2>2 DEF AnswersInv, RecordedAreSaved, DiscardInv, HonestAnswers
<1>2. CASE DayPasses
  <2>1. windows \in Nat /\ windows' = windows + 1 /\ open
    BY <1>2, CountsAreNumbers DEF DayPasses
  <2>2. FirstWindow' => FirstWindow BY <2>1 DEF FirstWindow
  <2> QED BY <1>2, <2>2, ElsewhereKeeps DEF DayPasses
<1>3. CASE \/ BeginClose \/ Claim \/ Clear \/ Tally \/ CommandLocked \/ CommandFails
           \/ Acknowledge \/ MarkApplied \/ MarkFails \/ Abolish \/ RedisRestart \/ UNCHANGED vars
  <2>1. UNCHANGED <<pc, recorded, gone, windows, open>>
    BY <1>3 DEF BeginClose, Claim, Clear, Tally, CommandLocked, CommandFails, Acknowledge,
                MarkApplied, MarkFails, Abolish, RedisRestart, vars
  <2> QED BY <2>1, ElsewhereKeeps DEF FirstWindow
<1>4. ASSUME NEW v \in Voters, DeleteVoter(v) PROVE AnswersInv'
  BY <1>4, ElsewhereKeeps DEF DeleteVoter, FirstWindow
<1> QED BY <1>1, <1>2, <1>3, <1>4 DEF CommandNext

LEMMA WindowStep == TypeOK /\ WindowInv /\ [Next]_vars => WindowInv'
<1> SUFFICES ASSUME TypeOK, WindowInv, [Next]_vars PROVE WindowInv'
  OBVIOUS
<1> USE DEF WindowInv, Closing, sqlVars, commandVars, CommandGoto
<1>1. CASE \E r \in Requests : Request(r)
  <2>1. UNCHANGED <<cpc, open, windows>>
    BY <1>1 DEF Request, Begin, Insert, Locked, Push, PushFails, Commit, Discard, DiscardFails,
                Crash
  <2> QED BY <2>1
<1>2. CASE DayPasses
  <2>1. windows' # 0 /\ cpc' = cpc /\ open
    <3>1. windows \in Nat BY CountsAreNumbers
    <3> QED BY <1>2, <3>1 DEF DayPasses
  <2> QED BY <2>1
<1>3. CASE BeginClose \/ Claim \/ Clear \/ Tally
  <2>1. UNCHANGED <<open, windows>> /\ ~open
    BY <1>3 DEF BeginClose, Claim, Clear, Tally
  <2> QED BY <2>1
<1>6. CASE Restart
  BY <1>6 DEF Restart
<1>4. CASE CommandLocked \/ CommandFails \/ Acknowledge \/ MarkApplied \/ MarkFails
  BY <1>4 DEF CommandLocked, CommandFails, Acknowledge, MarkApplied, MarkFails
<1>5. CASE Abolish \/ RedisRestart \/ (\E v \in Voters : DeleteVoter(v)) \/ UNCHANGED vars
  BY <1>5 DEF Abolish, RedisRestart, DeleteVoter, vars
<1> QED BY <1>1, <1>2, <1>3, <1>4, <1>5, <1>6 DEF Next, CommandNext

HonestInv == TypeOK /\ WindowInv /\ AnswersInv

LEMMA HonestInit == Init => HonestInv
<1> SUFFICES ASSUME Init PROVE HonestInv
  OBVIOUS
<1>1. TypeOK /\ WindowInv BY TypeInit DEF Init, WindowInv, Closing
<1>2. \A r \in Requests : pc[r] = IF r \in EarlyRequests THEN "saved" ELSE "idle" BY DEF Init
<1>3. recorded = EarlyRequests BY DEF Init
<1>4. AnswersInv
  BY <1>2, <1>3, EarlyAssumption DEF AnswersInv, RecordedAreSaved, DiscardInv, HonestAnswers
<1> QED BY <1>1, <1>4 DEF HonestInv

LEMMA HonestStep == HonestInv /\ [Next]_vars => HonestInv'
<1> SUFFICES ASSUME HonestInv, [Next]_vars PROVE HonestInv'
  OBVIOUS
<1>1. TypeOK' /\ WindowInv' BY TypeStep, WindowStep DEF HonestInv
<1>2. AnswersInv' BY RequestAnswers, OtherAnswers DEF HonestInv, Next
<1> QED BY <1>1, <1>2 DEF HonestInv

(* What the page told the voters is true, whatever fails, restarts or      *)
(* overlaps: a saved vote is on the list until the referendum restarts,    *)
(* one that was refused never is, and "already" has its reason.            *)
THEOREM AnswersAreHonest == Spec => []HonestAnswers
<1>1. HonestInv => HonestAnswers BY DEF HonestInv, AnswersInv
<1> QED BY <1>1, HonestInit, HonestStep, PTL DEF Spec

-----------------------------------------------------------------------------
(* What the comparison of the two numbers notices                          *)

(* The command counts what it has claimed on a list that does not change.  *)
StageInv ==
    /\ Closing => expected = Cardinality(recorded)
    /\ ack # "none" => status # "referendum"
    /\ cpc = "mark" => ack # "none"
    /\ cpc = "restart" => Store = {}
    /\ cpc = "tally" => expected = Cardinality(pending)

(* As long as Redis keeps its data every recorded vote is in it, unless    *)
(* the command has just emptied it to restart the referendum.              *)
KeptInv ==
    redisRestarts = 0 =>
        /\ \A r \in Requests : pc[r] = "commit" => r \in buffer
        /\ status = "referendum" => recorded \subseteq Store \/ (Store = {} /\ ~open /\ Idle)
        /\ cpc = "tally" => recorded \subseteq pending \/ pending = {}

(* As long as no request breaks off, what Redis holds beyond the recorded  *)
(* votes is of requests that are about to commit or to take it back.       *)
Reserved == {r \in Requests : pc[r] \in {"commit", "discard"}}

NoExtraInv ==
    requestFaults = 0 =>
        /\ status = "referendum" => Store \subseteq recorded \cup Reserved
        /\ status = "referendum" => legacy \cup claim \subseteq recorded
        /\ cpc = "tally" => pending \subseteq recorded

(* With neither the two always match: the referendum is not restarted.     *)
MatchInv ==
    redisRestarts = 0 /\ requestFaults = 0 =>
        /\ cpc \notin {"clear", "restart"}
        /\ status = "referendum" => recorded \subseteq Store

CountInv == StageInv /\ KeptInv /\ NoExtraInv /\ MatchInv /\ LossesAreNoticed

ScheduleInv == HonestInv /\ LockInv /\ ClosingInv

(* While the command works requests are only told that the window closed.  *)
LEMMA ClosedRequest ==
    ASSUME ScheduleInv, NEW r \in Requests, Request(r), Closing
    PROVE  /\ pc' = [pc EXCEPT ![r] = "closed"] /\ pc[r] = "idle"
           /\ UNCHANGED <<sqlVars, redisVars, commandVars, faults>>
<1>1. status = "referendum" /\ ~open /\ pc[r] \notin Running
  BY DEF ScheduleInv, ClosingInv, Idle
<1>2. Begin(r)
  BY <1>1 DEF Request, Insert, Locked, Push, PushFails, Commit, Discard, DiscardFails, Crash
<1> QED BY <1>1, <1>2 DEF Begin, Goto

(* Steps that leave the list, the stores and the command alone.            *)
LEMMA QuietKeeps ==
    ASSUME ScheduleInv, CountInv, NEW r \in Requests, NEW label, pc' = [pc EXCEPT ![r] = label],
           pc[r] \notin {"commit", "discard"}, label # "commit",
           ~Closing \/ pc[r] \notin Running, ~Closing \/ label \notin Running,
           label \in Running => open \/ pc[r] \in Running,
           UNCHANGED <<sqlVars, redisVars, commandVars, redisRestarts>>,
           requestFaults' = 0 => requestFaults = 0
    PROVE  CountInv'
<1>t. pc \in [Requests -> {"idle"} \cup Running \cup Answers]
  BY Shapes DEF ScheduleInv, HonestInv
<1>1. pc'[r] = label /\ \A q \in Requests \ {r} : pc'[q] = pc[q]
  BY <1>t
<1>2. Reserved \subseteq Reserved' BY <1>1 DEF Reserved
<1>3. Idle => Idle' \/ open BY <1>1 DEF Idle
<1> USE DEF sqlVars, redisVars, commandVars
<1>4. StageInv' BY DEF CountInv, StageInv, Closing
<1>5. KeptInv' BY <1>1, <1>3 DEF CountInv, KeptInv
<1>6. NoExtraInv' BY <1>2 DEF CountInv, NoExtraInv
<1>7. MatchInv' BY DEF CountInv, MatchInv
<1>8. LossesAreNoticed' BY DEF CountInv, LossesAreNoticed, TallyFaithful, InFavour, Against
<1> QED BY <1>4, <1>5, <1>6, <1>7, <1>8 DEF CountInv

LEMMA PushKeeps ==
    ASSUME ScheduleInv, CountInv, NEW r \in Requests, Push(r)
    PROVE  CountInv'
<1>t. /\ pc \in [Requests -> {"idle"} \cup Running \cup Answers]
  BY Shapes DEF ScheduleInv, HonestInv
<1>1. /\ pc[r] = "push" /\ buffer' = buffer \cup {r}
      /\ pc'[r] = "commit" /\ \A q \in Requests \ {r} : pc'[q] = pc[q]
      /\ UNCHANGED <<sqlVars, legacy, claim, commandVars, faults>>
  BY <1>t DEF Push, Goto
<1>2. ~Closing /\ ~Idle BY <1>1 DEF ScheduleInv, ClosingInv, Idle
<1>3. Reserved' = Reserved \cup {r} BY <1>1 DEF Reserved
<1> USE DEF sqlVars, commandVars
<1>4. StageInv' BY <1>1, <1>2 DEF CountInv, StageInv, Closing
<1>5. KeptInv' BY <1>1, <1>2 DEF CountInv, KeptInv, Closing
<1>6. NoExtraInv' BY <1>1, <1>2, <1>3 DEF CountInv, NoExtraInv, Closing
<1>7. MatchInv' BY <1>1 DEF CountInv, MatchInv
<1>8. LossesAreNoticed' BY <1>1 DEF CountInv, LossesAreNoticed, TallyFaithful, InFavour, Against
<1> QED BY <1>4, <1>5, <1>6, <1>7, <1>8 DEF CountInv

LEMMA DiscardKeeps ==
    ASSUME ScheduleInv, CountInv, NEW r \in Requests, Discard(r)
    PROVE  CountInv'
<1>t. /\ pc \in [Requests -> {"idle"} \cup Running \cup Answers]
  BY Shapes DEF ScheduleInv, HonestInv
<1>1. /\ pc[r] = "discard" /\ buffer' = buffer \ {r}
      /\ pc'[r] = "already" /\ \A q \in Requests \ {r} : pc'[q] = pc[q]
      /\ UNCHANGED <<sqlVars, legacy, claim, commandVars, faults>>
  BY <1>t DEF Discard, Without, Goto
<1>2. ~Closing /\ ~Idle BY <1>1 DEF ScheduleInv, ClosingInv, Idle
<1>3. Reserved' = Reserved \ {r} BY <1>1 DEF Reserved
<1>r. r \notin recorded BY <1>1 DEF ScheduleInv, HonestInv, AnswersInv, RecordedAreSaved
<1> USE DEF sqlVars, commandVars
<1>4. StageInv' BY <1>1, <1>2 DEF CountInv, StageInv, Closing
<1>5. KeptInv' BY <1>1, <1>2, <1>r DEF CountInv, KeptInv, Closing
<1>6. NoExtraInv' BY <1>1, <1>2, <1>3, <1>r DEF CountInv, NoExtraInv, Closing
<1>7. MatchInv' BY <1>1, <1>r DEF CountInv, MatchInv
<1>8. LossesAreNoticed' BY <1>1 DEF CountInv, LossesAreNoticed, TallyFaithful, InFavour, Against
<1> QED BY <1>4, <1>5, <1>6, <1>7, <1>8 DEF CountInv

LEMMA CommitKeeps ==
    ASSUME ScheduleInv, CountInv, NEW r \in Requests, Commit(r)
    PROVE  CountInv'
<1>t. /\ pc \in [Requests -> {"idle"} \cup Running \cup Answers]
  BY Shapes DEF ScheduleInv, HonestInv
<1>1. /\ pc[r] = "commit" /\ \A q \in Requests \ {r} : pc'[q] = pc[q]
      /\ UNCHANGED <<status, open, counted, za, przeciw, ack, redisVars, commandVars, faults>>
  BY <1>t DEF Commit, Goto
<1>2. status = "referendum" /\ ~Closing /\ ~Idle
  BY <1>1 DEF ScheduleInv, ClosingInv, LockInv, Idle
<1>3. \/ pc'[r] = "discard" /\ recorded' = recorded
      \/ pc'[r] = "saved" /\ recorded' = recorded \cup {r}
  BY <1>t DEF Commit, Goto
<1>4. recorded \subseteq recorded' /\ recorded \cup Reserved = recorded' \cup Reserved'
  BY <1>1, <1>3 DEF Reserved
<1> USE DEF redisVars, commandVars
<1>5. StageInv' BY <1>1, <1>2 DEF CountInv, StageInv, Closing
<1>6. KeptInv' BY <1>1, <1>2, <1>3 DEF CountInv, KeptInv, Closing
<1>7. NoExtraInv' BY <1>1, <1>2, <1>4 DEF CountInv, NoExtraInv, Closing
<1>8. MatchInv'
  <2>1. redisRestarts = 0 => r \in buffer BY <1>1 DEF CountInv, KeptInv
  <2> QED BY <1>1, <1>2, <1>3, <2>1 DEF CountInv, MatchInv, Closing
<1>9. LossesAreNoticed'
  <2>1. ack' = "none" BY <1>1, <1>2 DEF CountInv, StageInv
  <2> QED BY <2>1 DEF LossesAreNoticed, TallyFaithful
<1> QED BY <1>5, <1>6, <1>7, <1>8, <1>9 DEF CountInv

(* A request breaks off; at most its own entry in Redis comes or goes.     *)
LEMMA BreakKeeps ==
    ASSUME ScheduleInv, CountInv, NEW r \in Requests, NEW label, pc[r] \in Running,
           pc' = [pc EXCEPT ![r] = label], label # "commit", RequestFault, buffer \ {r} \subseteq buffer',
           UNCHANGED <<sqlVars, legacy, claim, commandVars>>
    PROVE  CountInv'
<1>t. pc \in [Requests -> {"idle"} \cup Running \cup Answers]
  BY Shapes DEF ScheduleInv, HonestInv
<1>1. pc'[r] = label /\ \A q \in Requests \ {r} : pc'[q] = pc[q]
  BY <1>t
<1>2. ~Closing /\ ~Idle BY DEF ScheduleInv, ClosingInv, Idle
<1>r. r \notin recorded BY DEF ScheduleInv, HonestInv, AnswersInv, RecordedAreSaved
<1>3. requestFaults' # 0 /\ redisRestarts' = redisRestarts
  <2>1. requestFaults \in Nat BY CountsAreNumbers DEF ScheduleInv, HonestInv
  <2> QED BY <2>1 DEF RequestFault
<1> USE DEF sqlVars, commandVars
<1>4. StageInv' BY <1>2 DEF CountInv, StageInv, Closing
<1>5. KeptInv' BY <1>1, <1>2, <1>3, <1>r DEF CountInv, KeptInv, Closing
<1>6. NoExtraInv' /\ MatchInv' BY <1>3 DEF NoExtraInv, MatchInv
<1>7. LossesAreNoticed' BY <1>3 DEF CountInv, LossesAreNoticed, TallyFaithful, InFavour, Against
<1> QED BY <1>4, <1>5, <1>6, <1>7 DEF CountInv

LEMMA RequestKeeps ==
    ASSUME ScheduleInv, CountInv, NEW r \in Requests, Request(r)
    PROVE  CountInv'
<1> USE DEF sqlVars, redisVars, commandVars, Goto
<1>1. CASE Closing
  <2>1. /\ pc' = [pc EXCEPT ![r] = "closed"] /\ pc[r] = "idle"
        /\ UNCHANGED <<sqlVars, redisVars, commandVars, faults>>
    BY <1>1, ClosedRequest
  <2> QED BY <2>1, QuietKeeps
<1>2. CASE ~Closing
  <2>1. CASE Begin(r)
    <3>1. /\ UNCHANGED <<sqlVars, redisVars, commandVars, faults>> /\ pc[r] \in {"idle", "retry"}
          /\ \/ pc' = [pc EXCEPT ![r] = "closed"] \/ pc' = [pc EXCEPT ![r] = "already"]
             \/ pc' = [pc EXCEPT ![r] = "insert"] /\ status = "referendum" /\ open
      BY <2>1 DEF Begin
    <3> QED BY <1>2, <3>1, QuietKeeps
  <2>2. CASE Insert(r) \/ Locked(r)
    <3>1. /\ UNCHANGED <<sqlVars, redisVars, commandVars, faults>> /\ pc[r] = "insert"
          /\ \E label \in {"discard", "push", "retry", "already", "unavailable"} :
                pc' = [pc EXCEPT ![r] = label]
      BY <2>2 DEF Insert, Locked, LockedAnswer
    <3>2. PICK label \in {"discard", "push", "retry", "already", "unavailable"} :
                pc' = [pc EXCEPT ![r] = label]
      BY <3>1
    <3>3. /\ label # "commit" /\ pc[r] \notin {"commit", "discard"} /\ pc[r] \in Running
          /\ UNCHANGED <<sqlVars, redisVars, commandVars, redisRestarts>>
          /\ requestFaults' = 0 => requestFaults = 0
      BY <3>1, <3>2
    <3> QED BY <1>2, <3>2, <3>3, QuietKeeps
  <2>3. CASE Push(r) BY <2>3, PushKeeps
  <2>4. CASE PushFails(r)
    <3>1. /\ pc[r] \in Running /\ RequestFault /\ buffer \ {r} \subseteq buffer'
          /\ pc' = [pc EXCEPT ![r] = "unavailable"]
          /\ UNCHANGED <<sqlVars, legacy, claim, commandVars>>
      BY <2>4 DEF PushFails
    <3>2. "unavailable" # "commit" OBVIOUS
    <3> HIDE DEF Running, sqlVars, commandVars
    <3> QED BY <3>1, <3>2, BreakKeeps
  <2>5. CASE Commit(r) BY <2>5, CommitKeeps
  <2>6. CASE Discard(r) BY <2>6, DiscardKeeps
  <2>7. CASE DiscardFails(r) \/ Crash(r)
    <3>1. /\ pc[r] \in Running /\ RequestFault
          /\ buffer \ {r} \subseteq buffer'
          /\ UNCHANGED <<sqlVars, legacy, claim, commandVars>>
          /\ pc' = [pc EXCEPT ![r] = "unavailable"] \/ pc' = [pc EXCEPT ![r] = "crashed"]
      BY <2>7 DEF DiscardFails, Without, Crash
    <3>2. "unavailable" # "commit" /\ "crashed" # "commit" OBVIOUS
    <3> HIDE DEF Running, sqlVars, commandVars
    <3> QED BY <3>1, <3>2, BreakKeeps
  <2> QED BY <2>1, <2>2, <2>3, <2>4, <2>5, <2>6, <2>7 DEF Request
<1> QED BY <1>1, <1>2

LEMMA CommandKeeps ==
    ASSUME ScheduleInv, CountInv, CommandNext, ~MayOverlap
    PROVE  CountInv'
<1>t. /\ recorded \in SUBSET Requests /\ pending \in SUBSET Requests
      /\ Store \in SUBSET Requests
  BY Shapes DEF ScheduleInv, HonestInv
<1>i. StageInv /\ KeptInv /\ NoExtraInv /\ MatchInv /\ LossesAreNoticed
  BY DEF CountInv
<1>c. Closing => status = "referendum" /\ ~open /\ Idle /\ ack = "none"
  BY <1>i DEF ScheduleInv, ClosingInv, StageInv
<1>r. Idle => Reserved = {} BY DEF Idle, Reserved
<1> USE DEF sqlVars, redisVars, requestVars, CommandGoto, Closing
<1>1. CASE BeginClose
  <2>1. StageInv' BY <1>i, <1>1 DEF BeginClose, StageInv
  <2>2. KeptInv' /\ NoExtraInv' /\ MatchInv'
    BY <1>i, <1>1 DEF BeginClose, KeptInv, NoExtraInv, MatchInv, Idle, Reserved
  <2>3. LossesAreNoticed'
    BY <1>i, <1>1 DEF BeginClose, LossesAreNoticed, TallyFaithful, InFavour, Against
  <2> QED BY <2>1, <2>2, <2>3 DEF CountInv
<1>2. CASE Claim
  <2>1. /\ cpc = "claim" /\ pending' = Store /\ claim' = Store /\ buffer' = {} /\ legacy' = {}
        /\ UNCHANGED <<sqlVars, pc, expected, faults>>
        /\ cpc' = IF expected = Cardinality(Store) THEN "tally" ELSE "clear"
    BY <1>2 DEF Claim, Claimed, VotesMatch, AfterMismatch
  <2>2. /\ status = "referendum" /\ ~open /\ Idle /\ ack = "none" /\ Reserved = {}
        /\ expected = Cardinality(recorded) /\ Store' = Store
    BY <1>c, <1>i, <1>r, <2>1 DEF StageInv
  <2> HIDE DEF Store
  <2>3. StageInv' BY <2>1, <2>2 DEF StageInv
  <2>4. KeptInv' BY <1>i, <2>1, <2>2 DEF KeptInv, Idle
  <2>5. requestFaults = 0 => Store \subseteq recorded BY <1>i, <2>2 DEF NoExtraInv
  <2>6. NoExtraInv' BY <2>1, <2>2, <2>5 DEF NoExtraInv
  <2>7. MatchInv' BY <1>i, <2>1, <2>2, <2>5 DEF MatchInv
  <2>8. LossesAreNoticed' BY <2>1, <2>2 DEF LossesAreNoticed, TallyFaithful
  <2> QED BY <2>3, <2>4, <2>6, <2>7, <2>8 DEF CountInv
<1>3. CASE Clear
  <2>1. /\ cpc = "clear" /\ cpc' = "restart" /\ Store' = {} /\ legacy' = {} /\ claim' = {}
        /\ UNCHANGED <<sqlVars, pc, expected, faults>>
    BY <1>3 DEF Clear
  <2>2. /\ status = "referendum" /\ ~open /\ Idle /\ ack = "none"
        /\ expected = Cardinality(recorded)
    BY <1>c, <1>i, <2>1 DEF StageInv
  <2>3. \A r \in Requests : pc[r] # "commit" BY <2>2 DEF Idle
  <2>4. ~(redisRestarts = 0 /\ requestFaults = 0) BY <1>i, <2>1 DEF MatchInv
  <2> HIDE DEF Store
  <2>5. StageInv' BY <2>1, <2>2 DEF StageInv
  <2>6. KeptInv' BY <2>1, <2>2, <2>3 DEF KeptInv, Idle
  <2>7. NoExtraInv' BY <2>1 DEF NoExtraInv
  <2>8. MatchInv' BY <2>1, <2>4 DEF MatchInv
  <2>9. LossesAreNoticed' BY <2>1, <2>2 DEF LossesAreNoticed, TallyFaithful
  <2> QED BY <2>5, <2>6, <2>7, <2>8, <2>9 DEF CountInv
<1>4. CASE Restart
  <2>1. /\ cpc = "restart" /\ cpc' = "idle" /\ recorded' = {}
        /\ UNCHANGED <<status, ack, redisVars, pc, faults>>
    BY <1>4 DEF Restart
  <2>2. /\ status = "referendum" /\ Idle /\ ack = "none" /\ Store = {}
    BY <1>c, <1>i, <2>1 DEF StageInv
  <2>3. \A r \in Requests : pc[r] # "commit" BY <2>2 DEF Idle
  <2>4. StageInv' BY <2>1, <2>2 DEF StageInv
  <2>5. KeptInv' /\ NoExtraInv' /\ MatchInv' BY <2>1, <2>2, <2>3 DEF KeptInv, NoExtraInv, MatchInv
  <2>6. LossesAreNoticed' BY <2>1, <2>2 DEF LossesAreNoticed, TallyFaithful
  <2> QED BY <2>4, <2>5, <2>6 DEF CountInv
<1>5. CASE Tally
  <2>1. /\ cpc = "tally" /\ cpc' = "idle" /\ counted' = pending /\ ack' = "pending"
        /\ za' = Cardinality(InFavour(pending)) /\ przeciw' = Cardinality(Against(pending))
        /\ status' # "referendum" /\ UNCHANGED <<recorded, redisVars, pc, faults>>
    BY <1>5 DEF Tally, Effect
  <2>2. Cardinality(recorded) = Cardinality(pending) BY <1>i, <2>1 DEF StageInv
  <2>3. redisRestarts = 0 \/ requestFaults = 0 => pending = recorded
    <3>1. CASE redisRestarts = 0
      <4>1. recorded \subseteq pending \/ pending = {} BY <1>i, <2>1, <3>1 DEF KeptInv
      <4> QED BY <1>t, <2>2, <4>1, MatchingVotes
    <3>2. CASE requestFaults = 0
      <4>1. pending \subseteq recorded BY <1>i, <2>1, <3>2 DEF NoExtraInv
      <4> QED BY <1>t, <2>2, <4>1, MatchingVotes
    <3> QED BY <3>1, <3>2
  <2>4. \A r \in Requests : pc[r] # "commit" BY <1>c, <2>1 DEF Idle
  <2>5. StageInv' BY <2>1 DEF StageInv
  <2>6. KeptInv' /\ NoExtraInv' /\ MatchInv' BY <2>1, <2>4 DEF KeptInv, NoExtraInv, MatchInv
  <2>7. LossesAreNoticed'
    BY <2>1, <2>3 DEF LossesAreNoticed, TallyFaithful, InFavour, Against
  <2> QED BY <2>5, <2>6, <2>7 DEF CountInv
<1>6. CASE CommandLocked \/ CommandFails
  <2>1. cpc' = "idle" /\ UNCHANGED <<sqlVars, redisVars, pc, requestFaults, redisRestarts>>
    BY <1>6 DEF CommandLocked, CommandFails, CommandFault
  <2>2. StageInv' BY <1>i, <2>1 DEF StageInv
  <2>3. KeptInv' /\ NoExtraInv' /\ MatchInv'
    BY <1>i, <2>1 DEF KeptInv, NoExtraInv, MatchInv, Idle, Reserved
  <2>4. LossesAreNoticed'
    BY <1>i, <2>1 DEF LossesAreNoticed, TallyFaithful, InFavour, Against
  <2> QED BY <2>2, <2>3, <2>4 DEF CountInv
<1>7. CASE Acknowledge \/ MarkApplied \/ MarkFails
  <2>1. /\ cpc' \in {"idle", "mark"} /\ ack # "none" /\ ack' # "none"
        /\ UNCHANGED <<status, counted, recorded, za, przeciw, buffer, pc, requestFaults,
                       redisRestarts>>
    BY <1>7, <1>i DEF Acknowledge, MarkApplied, MarkFails, CommandFault, StageInv
  <2>2. status # "referendum" BY <1>i, <2>1 DEF StageInv
  <2>3. StageInv' BY <2>1, <2>2 DEF StageInv
  <2>4. KeptInv' /\ NoExtraInv' /\ MatchInv'
    BY <1>i, <2>1, <2>2 DEF KeptInv, NoExtraInv, MatchInv
  <2>5. LossesAreNoticed'
    BY <1>i, <2>1 DEF LossesAreNoticed, TallyFaithful, InFavour, Against
  <2> QED BY <2>3, <2>4, <2>5 DEF CountInv
<1> QED BY <1>1, <1>2, <1>3, <1>4, <1>5, <1>6, <1>7 DEF CommandNext

LEMMA SurroundingsKeep ==
    ASSUME ScheduleInv, CountInv,
           DayPasses \/ Abolish \/ RedisRestart \/ (\E v \in Voters : DeleteVoter(v)) \/ UNCHANGED vars
    PROVE  CountInv'
<1>i. StageInv /\ KeptInv /\ NoExtraInv /\ MatchInv /\ LossesAreNoticed
  BY DEF CountInv
<1> USE DEF sqlVars, redisVars, requestVars, commandVars, Closing
<1>1. CASE DayPasses
  <2>1. /\ open /\ UNCHANGED <<status, recorded, counted, za, przeciw, ack, redisVars, requestVars,
                              commandVars, faults>>
    BY <1>1 DEF DayPasses
  <2>2. StageInv' BY <1>i, <2>1 DEF StageInv
  <2>3. KeptInv' /\ NoExtraInv' /\ MatchInv'
    BY <1>i, <2>1 DEF KeptInv, NoExtraInv, MatchInv, Reserved
  <2>4. LossesAreNoticed'
    BY <1>i, <2>1 DEF LossesAreNoticed, TallyFaithful, InFavour, Against
  <2> QED BY <2>2, <2>3, <2>4 DEF CountInv
<1>2. CASE Abolish
  <2>1. /\ cpc = "idle" /\ status' # "referendum"
        /\ UNCHANGED <<recorded, counted, za, przeciw, ack, redisVars, requestVars, commandVars,
                       faults>>
    BY <1>2 DEF Abolish
  <2>2. StageInv' BY <1>i, <2>1 DEF StageInv
  <2>3. KeptInv' /\ NoExtraInv' /\ MatchInv'
    BY <1>i, <2>1 DEF KeptInv, NoExtraInv, MatchInv
  <2>4. LossesAreNoticed'
    BY <1>i, <2>1 DEF LossesAreNoticed, TallyFaithful, InFavour, Against
  <2> QED BY <2>2, <2>3, <2>4 DEF CountInv
<1>3. CASE RedisRestart
  <2>1. /\ Store' = {} /\ legacy' = {} /\ claim' = {} /\ redisRestarts' = redisRestarts + 1
        /\ UNCHANGED <<sqlVars, requestVars, commandVars, requestFaults>>
    BY <1>3 DEF RedisRestart
  <2>2. redisRestarts' # 0
    <3>1. redisRestarts \in Nat BY CountsAreNumbers DEF ScheduleInv, HonestInv
    <3> QED BY <2>1, <3>1
  <2> HIDE DEF Store
  <2>3. StageInv' BY <1>i, <2>1 DEF StageInv
  <2>4. KeptInv' /\ MatchInv' BY <2>2 DEF KeptInv, MatchInv
  <2>5. NoExtraInv' BY <1>i, <2>1 DEF NoExtraInv
  <2>6. LossesAreNoticed'
    BY <1>i, <2>1, <2>2 DEF LossesAreNoticed, TallyFaithful, InFavour, Against
  <2> QED BY <2>3, <2>4, <2>5, <2>6 DEF CountInv
<1>4. CASE (\E v \in Voters : DeleteVoter(v)) \/ UNCHANGED vars
  <2>1. UNCHANGED <<status, open, recorded, counted, za, przeciw, ack, redisVars, requestVars,
                    commandVars, faults>>
    BY <1>4 DEF DeleteVoter, vars
  <2>2. StageInv' BY <1>i, <2>1 DEF StageInv
  <2>3. KeptInv' /\ NoExtraInv' /\ MatchInv'
    BY <1>i, <2>1 DEF KeptInv, NoExtraInv, MatchInv, Idle, Reserved
  <2>4. LossesAreNoticed'
    BY <1>i, <2>1 DEF LossesAreNoticed, TallyFaithful, InFavour, Against
  <2> QED BY <2>2, <2>3, <2>4 DEF CountInv
<1> QED BY <1>1, <1>2, <1>3, <1>4

LEMMA CountInit == Init => ScheduleInv /\ CountInv
<1> SUFFICES ASSUME Init PROVE ScheduleInv /\ CountInv
  OBVIOUS
<1>1. ScheduleInv
  <2>1. LockInv /\ ClosingInv BY InvInit DEF ReferendumInvariant
  <2> QED BY <2>1, HonestInit DEF ScheduleInv
<1>2. /\ cpc = "idle" /\ ack = "none" /\ recorded = EarlyRequests /\ legacy = EarlyRequests
      /\ buffer = {} /\ claim = {} /\ \A r \in Requests : pc[r] # "commit"
  BY DEF Init
<1>3. StageInv /\ KeptInv /\ NoExtraInv /\ MatchInv /\ LossesAreNoticed
  BY <1>2 DEF StageInv, Closing, KeptInv, NoExtraInv, MatchInv, LossesAreNoticed, TallyFaithful
<1> QED BY <1>1, <1>3 DEF CountInv

LEMMA CountStep ==
    ASSUME ~MayOverlap
    PROVE  ScheduleInv /\ CountInv /\ [Next]_vars => ScheduleInv' /\ CountInv'
<1> SUFFICES ASSUME ScheduleInv, CountInv, [Next]_vars PROVE ScheduleInv' /\ CountInv'
  OBVIOUS
<1>1. ScheduleInv' BY HonestStep, LockStep DEF ScheduleInv, HonestInv
<1>2. CountInv' BY RequestKeeps, CommandKeeps, SurroundingsKeep DEF Next
<1> QED BY <1>1, <1>2

(* Whatever stops, fails or is lost, as long as the command keeps to its   *)
(* schedule: what the pages said is true, and the comparison notices every *)
(* loss of votes and every entry left behind, unless both happen.          *)
THEOREM FaultInvariantHolds ==
    ASSUME ~MayOverlap
    PROVE  Spec => []FaultInvariant
<1>1. ScheduleInv /\ CountInv => FaultInvariant
  BY DEF ScheduleInv, CountInv, HonestInv, AnswersInv, FaultInvariant
<1> QED BY <1>1, CountInit, CountStep, PTL DEF Spec

(* As long as Redis keeps its data and no request breaks off, no recorded  *)
(* vote is ever given up, whatever fails in the command.                   *)
THEOREM VotesAreAlwaysKept ==
    ASSUME ~MayOverlap
    PROVE  Spec => VotesAreKept
<1>1. ScheduleInv /\ CountInv /\ [Next]_vars =>
          [redisRestarts = 0 /\ requestFaults = 0 => recorded \subseteq recorded']_vars
  <2> SUFFICES ASSUME ScheduleInv, CountInv, Next, redisRestarts = 0, requestFaults = 0
               PROVE  recorded \subseteq recorded'
    OBVIOUS
  <2>1. ~Restart BY DEF CountInv, MatchInv, Restart
  <2>2. CASE \E r \in Requests : Request(r)
    BY <2>2 DEF Request, Begin, Insert, Locked, Push, PushFails, Commit, Discard, DiscardFails,
                Crash, sqlVars
  <2>3. CASE CommandNext
    BY <2>1, <2>3 DEF CommandNext, BeginClose, Claim, Clear, Tally, CommandLocked, CommandFails,
                      Acknowledge, MarkApplied, MarkFails, sqlVars
  <2>4. CASE DayPasses \/ Abolish \/ RedisRestart \/ \E v \in Voters : DeleteVoter(v)
    BY <2>4 DEF DayPasses, Abolish, RedisRestart, DeleteVoter, sqlVars
  <2> QED BY <2>2, <2>3, <2>4 DEF Next
<1> QED BY <1>1, CountInit, CountStep, PTL DEF Spec, VotesAreKept

=============================================================================
