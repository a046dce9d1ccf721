----------------------------- MODULE Referendum -----------------------------
(***************************************************************************)
(* One referendum of the glosowania app, from the opening of its voting    *)
(* window to the acknowledged result: the web requests that cast votes     *)
(* (glosowania/views.py), the vote buffer in Redis (vote_buffer.py), the   *)
(* SQLite database that records who has voted, and the `vote` management   *)
(* command that claims, checks and counts the buffer (commands/vote.py).   *)
(*                                                                         *)
(* SQLite runs in WAL mode with deferred transactions: a transaction reads *)
(* the snapshot of its first SELECT, one connection at a time may write,   *)
(* and a transaction whose snapshot is no longer the newest cannot start   *)
(* writing ("database is locked" at once).  `fresh` holds the open         *)
(* transactions whose snapshot is still the newest, `writer` the one that  *)
(* holds the write lock.  A vote is identified with the request that casts *)
(* it: the operation id is drawn once per request and kept over retries.   *)
(***************************************************************************)
EXTENDS Integers, FiniteSets

CONSTANTS
    Voters,            \* citizens
    Requests,          \* POST requests that vote, all attempts of one included
    VoterOf,           \* the logged-in citizen behind each request
    ChoiceOf,          \* TRUE for `tak`, FALSE for `nie`
    EarlyRequests,     \* votes cast before the upgrade, in the legacy list
    MaxAttempts,       \* max_retries of _cast_vote
    MayOverlap,        \* may the command close the window over a late request?
    MaxRequestFaults,  \* bound: crashes and Redis errors of requests
    MaxCommandFaults,  \* bound: crashes, Redis errors, foreign locks of the command
    MaxRedisRestarts,  \* bound: restarts of Redis, which keeps nothing on disk
    MaxWindows         \* bound: voting windows that come to their end

Command == "vote command"    \* the transaction of the vote command
Nobody  == "nobody"          \* the write lock is free

ASSUME RequestsAssumption ==
    /\ IsFiniteSet(Requests)
    /\ Command \notin Requests
    /\ Nobody \notin Requests
    /\ VoterOf \in [Requests -> Voters]
    /\ ChoiceOf \in [Requests -> BOOLEAN]

ASSUME EarlyAssumption ==
    /\ EarlyRequests \subseteq Requests
    /\ \A q, r \in EarlyRequests : VoterOf[q] = VoterOf[r] => q = r

ASSUME BoundsAssumption ==
    /\ MaxAttempts \in Nat \ {0}
    /\ MayOverlap \in BOOLEAN
    /\ MaxRequestFaults \in Nat /\ MaxCommandFaults \in Nat
    /\ MaxRedisRestarts \in Nat /\ MaxWindows \in Nat

VARIABLES
    \* SQLite
    status,      \* Decyzja.status: "referendum", "approved", "rejected" or "abolished"
    open,        \* data_referendum_stop has not passed
    recorded,    \* requests whose KtoJuzGlosowal row is committed
    gone,        \* deleted accounts
    counted,     \* votes written to VoteCode
    za, przeciw, \* the result
    windows,     \* windows that have come to their end
    ack,         \* the BUFFER_ACK effect: "none", "pending" or "applied"
    writer,      \* holder of the write lock
    fresh,       \* open transactions with the newest snapshot
    \* Redis
    buffer,      \* the v2 hash
    legacy,      \* the list of the first buffer format
    claim,       \* the claimed snapshot of both
    \* processes
    pc,          \* where each request is, or how it was answered
    attempt,     \* the running attempt of each request
    cpc,         \* where the vote command is
    pending,     \* votes the command has claimed in this run
    expected,    \* KtoJuzGlosowal rows in the command's snapshot
    \* faults so far, for the bounds
    requestFaults, commandFaults, redisRestarts

sqlVars     == <<status, open, recorded, gone, counted, za, przeciw, windows, ack>>
lockVars    == <<writer, fresh>>
redisVars   == <<buffer, legacy, claim>>
requestVars == <<pc, attempt>>
commandVars == <<cpc, pending, expected>>
faults      == <<requestFaults, commandFaults, redisRestarts>>
vars == <<sqlVars, lockVars, redisVars, requestVars, commandVars, faults>>

Running  == {"insert", "push", "commit", "discard", "retry"}
Answers  == {"saved", "already", "closed", "unavailable", "crashed"}
Decided  == {"approved", "rejected"}
Store    == buffer \cup legacy \cup claim    \* every vote Redis holds

Init ==
    /\ status = "referendum"
    /\ open = TRUE
    /\ recorded = EarlyRequests
    /\ gone = {}
    /\ counted = {}
    /\ za = 0 /\ przeciw = 0
    /\ windows = 0
    /\ ack = "none"
    /\ writer = Nobody
    /\ fresh = {}
    /\ buffer = {}
    /\ legacy = EarlyRequests
    /\ claim = {}
    /\ pc = [r \in Requests |-> IF r \in EarlyRequests THEN "saved" ELSE "idle"]
    /\ attempt = [r \in Requests |-> 1]
    /\ cpc = "idle"
    /\ pending = {}
    /\ expected = 0
    /\ requestFaults = 0 /\ commandFaults = 0 /\ redisRestarts = 0

-----------------------------------------------------------------------------
(* The web request: _cast_vote and its caller in views.details             *)

Goto(r, label) == pc' = [pc EXCEPT ![r] = label]

(* The KtoJuzGlosowal rows of a citizen.  Deleting the account sets the    *)
(* row's user to NULL (SET_NULL): the row stays and no longer names anyone.*)
HasVoted(v) == v \notin gone /\ \E q \in recorded : VoterOf[q] = v

(* transaction.atomic() rolls back: t keeps neither lock nor snapshot.     *)
Rollback(t) ==
    /\ writer' = IF writer = t THEN Nobody ELSE writer
    /\ fresh' = fresh \ {t}

(* The transaction commits: the snapshot of every other one is stale.      *)
Committed == writer' = Nobody /\ fresh' = {}

RequestFault ==
    /\ requestFaults < MaxRequestFaults
    /\ requestFaults' = requestFaults + 1
    /\ UNCHANGED <<commandFaults, redisRestarts>>

(* An attempt opens its transaction and makes its three checks on one      *)
(* snapshot: status, window, no earlier vote of this citizen.              *)
Begin(r) ==
    /\ \/ pc[r] = "idle" /\ VoterOf[r] \notin gone
       \/ pc[r] = "retry"
    /\ IF status # "referendum" \/ ~open
         THEN Goto(r, "closed") /\ UNCHANGED fresh
       ELSE IF HasVoted(VoterOf[r])
         THEN Goto(r, "already") /\ UNCHANGED fresh
       ELSE Goto(r, "insert") /\ fresh' = fresh \cup {r}
    /\ UNCHANGED <<sqlVars, writer, redisVars, attempt, commandVars, faults>>

(* KtoJuzGlosowal.save(): the transaction takes the write lock; the unique *)
(* constraint on (projekt, user) refuses a second row of the citizen.      *)
Insert(r) ==
    /\ pc[r] = "insert"
    /\ writer = Nobody /\ r \in fresh
    /\ IF HasVoted(VoterOf[r])
         THEN Goto(r, "discard") /\ Rollback(r)
         ELSE Goto(r, "push") /\ writer' = r /\ UNCHANGED fresh
    /\ UNCHANGED <<sqlVars, redisVars, attempt, commandVars, faults>>

CanRetry(r) == attempt[r] < MaxAttempts

MutantNextAttempt(r) == attempt[r]
NextAttempt(r) == attempt[r] + 1

(* _handle_locked_vote: says "already voted" only if a row is there.       *)
MutantLockedAnswer(r) == "already"
LockedAnswer(r) == IF HasVoted(VoterOf[r]) THEN "already" ELSE "unavailable"

(* "database is locked": this transaction's snapshot is stale, or some     *)
(* writer, of this table or of any other, holds the lock too long.  The    *)
(* attempt is repeated, the last one answered by _handle_locked_vote.      *)
Locked(r) ==
    /\ pc[r] = "insert"
    /\ Rollback(r)
    /\ IF CanRetry(r)
         THEN Goto(r, "retry") /\ attempt' = [attempt EXCEPT ![r] = NextAttempt(r)]
         ELSE Goto(r, LockedAnswer(r)) /\ UNCHANGED attempt
    /\ UNCHANGED <<sqlVars, redisVars, commandVars, faults>>

(* push_pending_vote: HSETNX under the operation id, before the commit.    *)
Push(r) ==
    /\ pc[r] = "push"
    /\ Goto(r, "commit")
    /\ buffer' = buffer \cup {r}
    /\ UNCHANGED <<sqlVars, lockVars, legacy, claim, attempt, commandVars, faults>>

(* A RedisError, raised before Redis ran the command or after it did: the  *)
(* insert is rolled back, the entry, if written, stays.                    *)
PushFails(r) ==
    /\ pc[r] = "push"
    /\ RequestFault
    /\ buffer' \in {buffer, buffer \cup {r}}
    /\ Goto(r, "unavailable")
    /\ Rollback(r)
    /\ UNCHANGED <<sqlVars, legacy, claim, attempt, commandVars>>

(* COMMIT.  SQLite checks the deferred foreign key to the user here.       *)
Commit(r) ==
    /\ pc[r] = "commit"
    /\ IF VoterOf[r] \in gone
         THEN /\ Goto(r, "discard")
              /\ Rollback(r)
              /\ UNCHANGED recorded
         ELSE /\ Goto(r, "saved")
              /\ recorded' = recorded \cup {r}
              /\ Committed
    /\ UNCHANGED <<status, open, gone, counted, za, przeciw, windows, ack,
                   redisVars, attempt, commandVars, faults>>

(* discard_pending_vote                                                    *)
Without(r) == buffer \ {r}

(* After an IntegrityError the request takes its reservation back.         *)
Discard(r) ==
    /\ pc[r] = "discard"
    /\ buffer' = Without(r)
    /\ Goto(r, "already")
    /\ UNCHANGED <<sqlVars, lockVars, legacy, claim, attempt, commandVars, faults>>

(* A RedisError, raised before Redis ran the command or after it did.      *)
DiscardFails(r) ==
    /\ pc[r] = "discard"
    /\ RequestFault
    /\ buffer' \in {buffer, Without(r)}
    /\ Goto(r, "unavailable")
    /\ UNCHANGED <<sqlVars, lockVars, legacy, claim, attempt, commandVars>>

(* The web process stops in the middle of the request.                     *)
Crash(r) ==
    /\ pc[r] \in Running
    /\ RequestFault
    /\ Goto(r, "crashed")
    /\ Rollback(r)
    /\ UNCHANGED <<sqlVars, redisVars, attempt, commandVars>>

Request(r) ==
    \/ Begin(r) \/ Insert(r) \/ Locked(r) \/ Push(r) \/ PushFails(r)
    \/ Commit(r) \/ Discard(r) \/ DiscardFails(r) \/ Crash(r)

-----------------------------------------------------------------------------
(* The vote command, on the decision this module is about                  *)

CommandGoto(label) == cpc' = label

CommandFault ==
    /\ commandFaults < MaxCommandFaults
    /\ commandFaults' = commandFaults + 1
    /\ UNCHANGED <<requestFaults, redisRestarts>>

(* The day after data_referendum_stop the command opens a transaction and  *)
(* reads the decision, which fixes its snapshot.  It is scheduled at       *)
(* 08:05, hours after the last request that could pass the window check;   *)
(* MayOverlap lets an operator run it by hand right after midnight.        *)
BeginClose ==
    /\ cpc = "idle"
    /\ status = "referendum" /\ ~open
    /\ MayOverlap \/ \A r \in Requests : pc[r] \notin Running
    /\ CommandGoto("claim")
    /\ expected' = Cardinality(recorded)
    /\ fresh' = fresh \cup {Command}
    /\ UNCHANGED <<sqlVars, writer, redisVars, requestVars, pending, faults>>

(* What the claim script returns: both generations of the buffer, and what *)
(* an interrupted run left in the claim.                                   *)
MutantClaimed == buffer \cup legacy
Claimed == buffer \cup legacy \cup claim

MutantVotesMatch(votes) == expected <= Cardinality(votes)
VotesMatch(votes) == expected = Cardinality(votes)

MutantAfterMismatch == "idle"
AfterMismatch == "clear"

(* claim_pending_votes moves everything into the claim; the count of       *)
(* KtoJuzGlosowal rows then decides between a tally and a restart.         *)
Claim ==
    /\ cpc = "claim"
    /\ pending' = Claimed
    /\ claim' = Claimed
    /\ buffer' = {} /\ legacy' = {}
    /\ CommandGoto(IF VotesMatch(Claimed) THEN "tally" ELSE AfterMismatch)
    /\ UNCHANGED <<sqlVars, lockVars, requestVars, expected, faults>>

(* clear_pending_votes: Redis forgets the votes before SQLite does.        *)
Clear ==
    /\ cpc = "clear"
    /\ buffer' = {} /\ legacy' = {} /\ claim' = {}
    /\ CommandGoto("restart")
    /\ UNCHANGED <<sqlVars, lockVars, requestVars, pending, expected, faults>>

CanWrite == writer = Nobody /\ Command \in fresh

(* The who-voted rows go, a new window opens, the transaction commits.     *)
Restart ==
    /\ cpc = "restart" /\ CanWrite
    /\ recorded' = {}
    /\ open' = TRUE
    /\ Committed
    /\ CommandGoto("idle")
    /\ UNCHANGED <<status, gone, counted, za, przeciw, windows, ack,
                   redisVars, requestVars, pending, expected, faults>>

InFavour(votes) == {r \in votes : ChoiceOf[r]}
Against(votes)  == {r \in votes : ~ChoiceOf[r]}
Majority(votes) == Cardinality(InFavour(votes)) > Cardinality(Against(votes))

(* The BUFFER_ACK row that makes the command delete the claim later.       *)
MutantEffect == "none"
Effect == "pending"

(* The codes, both sums, the status and the BUFFER_ACK effect, in one      *)
(* transaction.                                                            *)
Tally ==
    /\ cpc = "tally" /\ CanWrite
    /\ counted' = pending
    /\ za' = Cardinality(InFavour(pending))
    /\ przeciw' = Cardinality(Against(pending))
    /\ status' = IF za' > przeciw' THEN "approved" ELSE "rejected"
    /\ ack' = Effect
    /\ Committed
    /\ CommandGoto("idle")
    /\ UNCHANGED <<open, recorded, gone, windows, redisVars, requestVars,
                   pending, expected, faults>>

(* A stale snapshot, or the lock held by a request: the run gives up and   *)
(* the claim waits in Redis for the next one.                              *)
CommandLocked ==
    /\ cpc \in {"restart", "tally"} /\ ~CanWrite
    /\ CommandGoto("idle")
    /\ Rollback(Command)
    /\ UNCHANGED <<sqlVars, redisVars, requestVars, pending, expected, faults>>

(* Any other exception or crash before the commit: a Redis error, a lock   *)
(* held by an unrelated writer, the process stopped.  SQLite rolls back.   *)
CommandFails ==
    /\ cpc \in {"claim", "clear", "restart", "tally"}
    /\ CommandFault
    /\ CommandGoto("idle")
    /\ Rollback(Command)
    /\ UNCHANGED <<sqlVars, redisVars, requestVars, pending, expected>>

(* apply_pending_referendum_effects, for BUFFER_ACK: the claim is deleted, *)
(* then the effect is marked applied; an interrupted run does both again.  *)
Acknowledge ==
    /\ cpc = "idle" /\ ack = "pending"
    /\ claim' = {}
    /\ CommandGoto("mark")
    /\ UNCHANGED <<sqlVars, lockVars, buffer, legacy, requestVars, pending, expected, faults>>

MarkApplied ==
    /\ cpc = "mark" /\ writer = Nobody
    /\ ack' = "applied"
    /\ Committed
    /\ CommandGoto("idle")
    /\ UNCHANGED <<status, open, recorded, gone, counted, za, przeciw, windows,
                   redisVars, requestVars, pending, expected, faults>>

MarkFails ==
    /\ cpc = "mark"
    /\ CommandFault
    /\ CommandGoto("idle")
    /\ UNCHANGED <<sqlVars, lockVars, redisVars, requestVars, pending, expected>>

CommandNext ==
    \/ BeginClose \/ Claim \/ Clear \/ Restart \/ Tally
    \/ CommandLocked \/ CommandFails \/ Acknowledge \/ MarkApplied \/ MarkFails

-----------------------------------------------------------------------------
(* The surroundings                                                        *)

(* data_referendum_stop passes.                                            *)
DayPasses ==
    /\ status = "referendum" /\ open
    /\ windows < MaxWindows
    /\ open' = FALSE
    /\ windows' = windows + 1
    /\ UNCHANGED <<status, recorded, gone, counted, za, przeciw, ack, lockVars,
                   redisVars, requestVars, commandVars, faults>>

(* An account is deleted; the citizen's KtoJuzGlosowal row stays.          *)
DeleteVoter(v) ==
    /\ v \notin gone /\ writer = Nobody
    /\ gone' = gone \cup {v}
    /\ Committed
    /\ UNCHANGED <<status, open, recorded, counted, za, przeciw, windows, ack,
                   redisVars, requestVars, commandVars, faults>>

(* The same command approves another motion whose znosi names this one.    *)
Abolish ==
    /\ cpc = "idle" /\ status # "abolished" /\ writer = Nobody
    /\ status' = "abolished"
    /\ Committed
    /\ UNCHANGED <<open, recorded, gone, counted, za, przeciw, windows, ack,
                   redisVars, requestVars, commandVars, faults>>

(* Redis restarts.  It is configured without snapshots and append-only     *)
(* file, so it comes back empty.                                           *)
RedisRestart ==
    /\ redisRestarts < MaxRedisRestarts
    /\ redisRestarts' = redisRestarts + 1
    /\ buffer' = {} /\ legacy' = {} /\ claim' = {}
    /\ UNCHANGED <<sqlVars, lockVars, requestVars, commandVars, requestFaults, commandFaults>>

Next ==
    \/ \E r \in Requests : Request(r)
    \/ CommandNext
    \/ DayPasses
    \/ \E v \in Voters : DeleteVoter(v)
    \/ Abolish
    \/ RedisRestart

Spec == Init /\ [][Next]_vars

(***************************************************************************)
(* Fairness.  A request that runs goes on: the server executes its next    *)
(* statement, waits at most busy_timeout for the lock and sleeps between   *)
(* attempts.  The command runs every day and goes on once it has started.  *)
(* Faults, deletions, repeals and the arrival of a request owe nothing.    *)
(***************************************************************************)
Proceed(r) == pc[r] \in Running /\ (Begin(r) \/ Insert(r) \/ Locked(r) \/ Push(r)
                                       \/ Commit(r) \/ Discard(r))

CommandProceeds ==
    \/ BeginClose \/ Claim \/ Clear \/ Restart \/ Tally
    \/ CommandLocked \/ Acknowledge \/ MarkApplied

Fairness ==
    /\ \A r \in Requests : WF_vars(Proceed(r))
    /\ WF_vars(CommandProceeds)

FairSpec == Spec /\ Fairness

-----------------------------------------------------------------------------
(* Properties                                                              *)

(* Every variable has its type.                                            *)
TypeOK ==
    /\ status \in {"referendum", "abolished"} \cup Decided
    /\ open \in BOOLEAN
    /\ recorded \subseteq Requests
    /\ gone \subseteq Voters
    /\ counted \subseteq Requests
    /\ za \in Nat /\ przeciw \in Nat
    /\ windows \in 0..MaxWindows
    /\ ack \in {"none", "pending", "applied"}
    /\ writer \in Requests \cup {Nobody}
    /\ fresh \subseteq Requests \cup {Command}
    /\ buffer \subseteq Requests
    /\ legacy \subseteq Requests
    /\ claim \subseteq Requests
    /\ pc \in [Requests -> {"idle"} \cup Running \cup Answers]
    /\ attempt \in [Requests -> 1..MaxAttempts]
    /\ cpc \in {"idle", "claim", "clear", "restart", "tally", "mark"}
    /\ pending \subseteq Requests
    /\ expected \in Nat
    /\ requestFaults \in 0..MaxRequestFaults
    /\ commandFaults \in 0..MaxCommandFaults
    /\ redisRestarts \in 0..MaxRedisRestarts

(* A referendum that has been decided was decided by exactly the votes     *)
(* whose voters are on the who-voted list, and za/przeciw are their sums:  *)
(* "Do NOT tally a partial/wrong result" (commands/vote.py).               *)
TallyFaithful ==
    ack # "none" =>
        /\ counted = recorded
        /\ za = Cardinality(InFavour(recorded))
        /\ przeciw = Cardinality(Against(recorded))

(* No citizen is counted twice, whatever requests of theirs failed after   *)
(* the push and were repeated.                                             *)
OneVotePerVoter ==
    \A q, r \in counted : VoterOf[q] = VoterOf[r] => q = r

FirstWindow == windows = 0 \/ (windows = 1 /\ ~open)

(* What the page told the voter is true.  Until the referendum restarts, a *)
(* saved vote is on the list; a vote answered "unavailable", "closed" or   *)
(* "already" never is (views.details: "the user isn't marked as having     *)
(* voted without their vote being recorded"); and "already" is said only   *)
(* to a citizen another of whose votes is there, or whose account is gone. *)
HonestAnswers ==
    \A r \in Requests :
        /\ pc[r] = "saved" /\ FirstWindow => r \in recorded
        /\ pc[r] \in {"unavailable", "closed", "already"} => r \notin recorded
        /\ pc[r] = "already" /\ FirstWindow =>
             \/ VoterOf[r] \in gone
             \/ \E q \in recorded \ {r} : VoterOf[q] = VoterOf[r]

(* As long as Redis keeps its data and no request breaks off, no citizen's *)
(* vote is ever given up, whatever goes wrong in the vote command: its     *)
(* claim survives the runs that fail.                                      *)
VotesAreKept ==
    [][redisRestarts = 0 /\ requestFaults = 0 => recorded \subseteq recorded']_vars

(* The comparison of the two numbers notices every loss of votes in Redis, *)
(* and every entry left behind by a request that broke off, as long as the *)
(* other of the two has not happened as well.                              *)
LossesAreNoticed == redisRestarts = 0 \/ requestFaults = 0 => TallyFaithful

FaultInvariant == TypeOK /\ HonestAnswers /\ LossesAreNoticed

(* Once the window has passed the referendum is decided or voted again.    *)
Resolved == (status = "referendum" /\ ~open) ~> (status # "referendum" \/ open)

(* The buffer of a decided referendum is emptied: the claim is deleted     *)
(* after the result has been committed.                                    *)
BufferReleased == (status \in Decided) ~> (Store = {})

(* Every vote request is answered, however often it finds the database     *)
(* locked.                                                                 *)
RequestsAnswered == \A r \in Requests : (pc[r] \in Running) ~> (pc[r] \in Answers)

-----------------------------------------------------------------------------
(* The referendum implements the ballot it promises.                       *)

AbstractBallot == INSTANCE Ballot WITH
    box     <- recorded,
    present <- Voters \ gone,
    phase   <- IF status = "referendum" THEN (IF open THEN "open" ELSE "closed")
               ELSE status,
    result  <- counted,
    Carried <- Majority

ImplementsBallot == AbstractBallot!BallotSpec

-----------------------------------------------------------------------------
(* The inductive invariant behind TallyFaithful, for a Redis that keeps    *)
(* its data (MaxRedisRestarts = 0) and a vote command that keeps to its    *)
(* schedule (~MayOverlap).  TLC checks it in the run referendum_durable,   *)
(* ReferendumProofs proves it for every value of the constants.            *)

Idle == \A r \in Requests : pc[r] \notin Running

Closing == cpc \in {"claim", "clear", "restart", "tally"}

(* The write lock and the snapshots.  Whoever has inserted holds the lock  *)
(* on the newest snapshot; what a transaction has read on a snapshot that  *)
(* is still the newest is still true.                                      *)
LockInv ==
    /\ \A r \in Requests : pc[r] \in {"push", "commit"} => writer = r /\ r \in fresh
    /\ writer \in Requests => pc[writer] \in {"push", "commit"}
    /\ \A r \in Requests : r \in fresh =>
         /\ status = "referendum"
         /\ pc[r] \in {"insert", "push", "commit"}
         /\ ~HasVoted(VoterOf[r])
    /\ Command \in fresh => Closing /\ expected = Cardinality(recorded)

(* While the command works on a closed window no request is under way and  *)
(* none can start.                                                         *)
ClosingInv == Closing => status = "referendum" /\ ~open /\ Idle

(* Who-voted list and buffer.  Every vote on the list is in Redis, unless  *)
(* the command has just emptied Redis to restart the referendum.           *)
VotesInv ==
    /\ \A r \in recorded : pc[r] = "saved"
    /\ \A q, r \in recorded : VoterOf[q] = VoterOf[r] => q = r
    /\ \A r \in Requests : pc[r] = "commit" => r \in buffer
    /\ status = "referendum" =>
         \/ recorded \subseteq Store
         \/ Store = {} /\ ~open /\ Idle
    /\ cpc = "tally" => pending = Store /\ expected = Cardinality(pending)
    /\ cpc = "restart" => Store = {}

(* The result and its acknowledgement.                                     *)
ResultInv ==
    /\ ack = "none" => counted = {}
    /\ ack # "none" => status # "referendum" /\ counted = recorded
    /\ cpc = "mark" => ack # "none"

ReferendumInvariant == TypeOK /\ LockInv /\ ClosingInv /\ VotesInv /\ ResultInv /\ TallyFaithful
=============================================================================
