---------------------------- MODULE SiteProofs ----------------------------
(***************************************************************************)
(* Theorems about the parts of the site: the task, a document of the       *)
(* board, a survey, the listings and the ledger, for any people, rows and  *)
(* bounds, whatever requests cross one another.  The parts share no state, *)
(* so a step of the site is a step of one of them and leaves the others as *)
(* they are.                                                               *)
(***************************************************************************)
EXTENDS MCSite, SequenceTheorems, FiniteSetTheorems, TLAPS

-----------------------------------------------------------------------------
(* Types                                                                   *)

(* TypeOK in parts.                                                        *)
RowTyped ==
    /\ coordinator \in People /\ creator \in People
    /\ status \in Closed \cup {"active", "deleted"}
    /\ phase \in {"proposal", "realization"} /\ needed \in TeamSizes

VotesTyped == helpers \in Seq(Users) /\ against \subseteq Users

TeamTyped ==
    /\ accounts \subseteq Users /\ approved \subseteq Users
    /\ unsynced \in BOOLEAN /\ untallied \in BOOLEAN

OpenTyped == open \subseteq Requests

LEMMA TypeParts ==
    /\ TypeOK <=> RowTyped /\ VotesTyped /\ TeamTyped /\ OpenTyped
    /\ TypeOK' <=> RowTyped' /\ VotesTyped' /\ TeamTyped' /\ OpenTyped'
BY DEF TypeOK, RowTyped, VotesTyped, TeamTyped, OpenTyped

(* A request that closes the task closes it.                               *)
Closing == \A r \in open : r.kind = "close" => r.with \in {"completed", "cancelled"}

Sound == TypeOK /\ Closing

LEMMA SoundInit == Init => Sound
<1> SUFFICES ASSUME Init PROVE Sound
  OBVIOUS
<1>1. RowTyped /\ TeamTyped BY CreatorAssumption DEF Init, RowTyped, TeamTyped, People
<1>2. VotesTyped BY CreatorAssumption DEF Init, VotesTyped
<1>3. OpenTyped /\ Closing BY DEF Init, OpenTyped, Closing
<1> QED BY <1>1, <1>2, <1>3, TypeParts DEF Sound

LEMMA HelpersButTyped ==
    ASSUME VotesTyped, NEW u
    PROVE  HelpersBut(u) \in Seq(Users)
<1>1. helpers \in Seq(Users) /\ Len(helpers) \in Nat /\ DOMAIN helpers = 1..Len(helpers)
  BY LenProperties DEF VotesTyped
<1>2. CASE ~Helps(u) BY <1>1, <1>2 DEF HelpersBut
<1>3. CASE Helps(u)
  <2> DEFINE i == CHOOSE i \in DOMAIN helpers : helpers[i] = u
             n == Len(helpers) - 1
  <2>1. n \in Nat BY <1>1, <1>3 DEF Helps
  <2>2. HelpersBut(u) = [j \in 1..n |-> helpers[IF j < i THEN j ELSE j + 1]]
    BY <1>3 DEF HelpersBut
  <2>3. ASSUME NEW j \in 1..n PROVE helpers[IF j < i THEN j ELSE j + 1] \in Users
    <3>1. j \in 1..Len(helpers) /\ j + 1 \in 1..Len(helpers) BY <1>1, <2>3
    <3>2. helpers[j] \in Users /\ helpers[j + 1] \in Users BY <1>1, <3>1, ElementOfSeq
    <3> QED BY <3>2
  <2> HIDE DEF i, n
  <2>4. HelpersBut(u) \in [1..n -> Users] BY <2>2, <2>3
  <2> QED BY <2>1, <2>4, SeqDef
<1> QED BY <1>2, <1>3

(* A synchronisation leaves a phase.                                       *)
LEMMA SyncTyped ==
    ASSUME RowTyped, Sync
    PROVE  phase' \in {"proposal", "realization"}
BY DEF RowTyped, Sync, Fitting

LEMMA CastKeepsType ==
    ASSUME TypeOK, NEW u \in Users, NEW side, Cast(u, side)
    PROVE  RowTyped' /\ VotesTyped' /\ TeamTyped'
<1>0. RowTyped /\ VotesTyped /\ TeamTyped BY TypeParts
<1>1. /\ UNCHANGED <<accounts, coordinator, creator, needed, approved>> /\ untallied' = FALSE
      /\ \/ status' = "rejected" /\ UNCHANGED <<phase, unsynced>>
         \/ status' = status /\ Synced
  BY DEF Cast
<1>2. \/ helpers' = HelpersBut(u) /\ against' = against \ {u}
      \/ helpers' = Append(helpers, u) /\ against' = against \ {u}
      \/ helpers' = HelpersBut(u) /\ against' = against \cup {u}
  BY DEF Cast, NoVote
<1>3. VotesTyped' BY <1>0, <1>2, HelpersButTyped DEF VotesTyped
<1>4. RowTyped' BY <1>0, <1>1, SyncTyped DEF RowTyped, Synced, Closed
<1>5. TeamTyped' BY <1>0, <1>1 DEF TeamTyped, Synced
<1> QED BY <1>3, <1>4, <1>5

LEMMA WholeStepsKeepType ==
    ASSUME Sound, NEW u \in Users, take_task(u) \/ resign_task(u) \/ reopen_task(u) \/ Leave(u)
    PROVE  Sound'
<1>0. RowTyped /\ VotesTyped /\ TeamTyped /\ OpenTyped /\ Closing BY TypeParts DEF Sound
<1>1. OpenTyped' /\ Closing'
  <2>1. open' = open BY DEF take_task, resign_task, reopen_task, Leave
  <2> QED BY <1>0, <2>1 DEF OpenTyped, Closing
<1>2. CASE take_task(u)
  <2>1. /\ UNCHANGED <<accounts, status, creator, needed, helpers, against, approved, untallied>>
        /\ coordinator' = u /\ Synced
    BY <1>2 DEF take_task, votes
  <2>2. RowTyped' BY <1>0, <2>1, SyncTyped DEF RowTyped, Synced, People
  <2>3. VotesTyped' /\ TeamTyped' BY <1>0, <2>1 DEF VotesTyped, TeamTyped, Synced
  <2> QED BY <1>1, <2>2, <2>3, TypeParts DEF Sound
<1>3. CASE resign_task(u)
  <2>1. /\ UNCHANGED <<accounts, status, creator, needed, helpers, against, approved, untallied>>
        /\ coordinator' = Successor(u) /\ Synced
    BY <1>3 DEF resign_task, votes
  <2>2. Successor(u) \in People
    <3>1. HelpersBut(u) \in Seq(Users) BY <1>0, HelpersButTyped
    <3>2. HelpersBut(u) # <<>> => Head(HelpersBut(u)) \in Users BY <3>1, HeadTailProperties
    <3> QED BY <3>2 DEF Successor, People
  <2>3. RowTyped' BY <1>0, <2>1, <2>2, SyncTyped DEF RowTyped, Synced
  <2>4. VotesTyped' /\ TeamTyped' BY <1>0, <2>1 DEF VotesTyped, TeamTyped, Synced
  <2> QED BY <1>1, <2>3, <2>4, TypeParts DEF Sound
<1>4. CASE reopen_task(u)
  <2>1. /\ UNCHANGED <<accounts, coordinator, creator, needed, approved>>
        /\ status' = "active" /\ phase' = "proposal" /\ helpers' = <<>> /\ against' = {}
        /\ unsynced' = FALSE /\ untallied' = FALSE
    BY <1>4 DEF reopen_task
  <2>2. <<>> \in Seq(Users) BY EmptySeq
  <2>3. VotesTyped' BY <2>1, <2>2 DEF VotesTyped
  <2>4. RowTyped' /\ TeamTyped' BY <1>0, <2>1 DEF RowTyped, TeamTyped
  <2> QED BY <1>1, <2>3, <2>4, TypeParts DEF Sound
<1>5. CASE Leave(u)
  <2>1. /\ UNCHANGED <<status, phase, needed>> /\ accounts' = accounts \ {u}
        /\ helpers' = HelpersBut(u) /\ against' = against \ {u} /\ approved' = approved \ {u}
        /\ coordinator' \in {coordinator, Nobody} /\ creator' \in {creator, Nobody}
        /\ unsynced' = TRUE /\ untallied' = TRUE
    BY <1>5 DEF Leave, NoVote
  <2>2. VotesTyped' BY <1>0, <2>1, HelpersButTyped DEF VotesTyped
  <2>3. RowTyped' /\ TeamTyped' BY <1>0, <2>1 DEF RowTyped, TeamTyped, People
  <2> QED BY <1>1, <2>2, <2>3, TypeParts DEF Sound
<1> QED BY <1>2, <1>3, <1>4, <1>5

(* A request begins: it holds what the row holds.                          *)
LEMMA BeginKeepsType ==
    ASSUME Sound, NEW kind \in {"vote", "approve", "remove", "edit", "close", "delete"},
           NEW u \in Users,
           NEW chosen \in Users \cup Closed \cup {"up", "down", "active", "proposal", "realization"},
           NEW n \in TeamSizes, BeginWith(kind, u, chosen, n),
           kind = "close" => chosen \in {"completed", "cancelled"}
    PROVE  Sound'
<1>0. RowTyped /\ VotesTyped /\ TeamTyped /\ OpenTyped /\ Closing BY TypeParts DEF Sound
<1>1. /\ open' = open \cup {Request(kind, u, chosen, n)}
      /\ UNCHANGED <<accounts, status, phase, coordinator, creator, needed, helpers, against,
                     approved, unsynced, untallied>>
  BY DEF BeginWith, row, votes, history
<1>2. Request(kind, u, chosen, n) \in Requests BY <1>0 DEF Request, Requests, RowTyped
<1>3. Request(kind, u, chosen, n).kind = kind /\ Request(kind, u, chosen, n).with = chosen BY DEF Request
<1>4. OpenTyped' /\ Closing' BY <1>0, <1>1, <1>2, <1>3 DEF OpenTyped, Closing
<1>5. RowTyped' /\ VotesTyped' /\ TeamTyped' BY <1>0, <1>1 DEF RowTyped, VotesTyped, TeamTyped
<1> QED BY <1>4, <1>5, TypeParts DEF Sound

LEMMA BeginnersKeepType ==
    ASSUME Sound, NEW u \in Users,
           \/ BeginVote(u) \/ BeginEdit(u) \/ BeginClose(u) \/ BeginDelete(u)
           \/ \E v \in Users : BeginApprove(u, v) \/ BeginRemove(u, v)
    PROVE  Sound'
<1>0. RowTyped /\ TeamTyped BY TypeParts DEF Sound
<1>1. needed \in TeamSizes BY <1>0 DEF RowTyped
<1>2. CASE BeginVote(u) BY <1>1, <1>2, BeginKeepsType DEF BeginVote, Begin
<1>3. CASE BeginEdit(u)
  <2>1. PICK n \in TeamSizes : BeginWith("edit", u, phase, n)
    BY <1>1, <1>3 DEF BeginEdit
  <2> QED BY <1>0, <2>1, BeginKeepsType DEF RowTyped
<1>4. CASE BeginClose(u) BY <1>1, <1>4, BeginKeepsType DEF BeginClose, Begin, Closed
<1>5. CASE BeginDelete(u)
  <2>1. status \in Closed \cup {"active"} BY <1>0, <1>5 DEF BeginDelete, RowTyped
  <2> QED BY <1>1, <1>5, <2>1, BeginKeepsType DEF BeginDelete, Begin
<1>6. ASSUME NEW v \in Users, BeginApprove(u, v) \/ BeginRemove(u, v) PROVE Sound'
  BY <1>1, <1>6, BeginKeepsType DEF BeginApprove, BeginRemove, Begin
<1> QED BY <1>2, <1>3, <1>4, <1>5, <1>6

(* The requests that go on stay what they were.                            *)
LEMMA DoneKeepsOpen ==
    ASSUME OpenTyped, Closing, NEW r \in open, Done(r) \/ Wrote(r)
    PROVE  OpenTyped' /\ Closing'
<1>1. CASE Done(r) BY <1>1 DEF Done, OpenTyped, Closing
<1>2. CASE Wrote(r)
  <2>1. open' = (open \ {r}) \cup {[r EXCEPT !.wrote = TRUE]} BY <1>2 DEF Wrote
  <2>2. r \in Requests BY DEF OpenTyped
  <2>3. /\ [r EXCEPT !.wrote = TRUE] \in Requests
        /\ [r EXCEPT !.wrote = TRUE].kind = r.kind /\ [r EXCEPT !.wrote = TRUE].with = r.with
    BY <2>2 DEF Requests
  <2> QED BY <2>1, <2>3 DEF OpenTyped, Closing
<1> QED BY <1>1, <1>2

LEMMA ProceedKeepsType ==
    ASSUME Sound, NEW r \in open, Proceed(r)
    PROVE  Sound'
<1>0. RowTyped /\ VotesTyped /\ TeamTyped /\ OpenTyped /\ Closing BY TypeParts DEF Sound
<1>1. OpenTyped' /\ Closing'
  <2>1. Done(r) \/ Wrote(r)
    BY DEF Proceed, FinishVote, WriteTeam, WriteEdit, FinishClose, FinishDelete, SyncAfter, GiveUp
  <2> QED BY <1>0, <2>1, DoneKeepsOpen
<1>2. r \in Requests BY <1>0 DEF OpenTyped
<1>3. /\ r.user \in Users /\ r.status \in Closed \cup {"active", "deleted"}
      /\ r.phase \in {"proposal", "realization"} /\ r.coordinator \in People
      /\ r.creator \in People /\ r.needed \in TeamSizes
  BY <1>2 DEF Requests
<1>4. RowTyped' /\ VotesTyped' /\ TeamTyped'
  <2>1. CASE FinishVote(r) BY <1>3, <2>1, CastKeepsType DEF FinishVote, Sound
  <2>2. CASE WriteTeam(r)
    <3>1. /\ UNCHANGED <<accounts, status, phase, coordinator, creator, needed, helpers, against,
                         unsynced, untallied>>
          /\ r.with \in accounts
          /\ approved' = approved \cup {r.with} \/ approved' = approved \ {r.with}
      BY <2>2 DEF WriteTeam, row, votes, history
    <3> QED BY <1>0, <3>1 DEF RowTyped, VotesTyped, TeamTyped
  <2>3. CASE WriteEdit(r)
    <3>1. /\ UNCHANGED <<accounts, helpers, against, approved, unsynced>> /\ SaveRow(r, r.status)
          /\ needed' = r.needed
      BY <2>3 DEF WriteEdit, votes
    <3>2. RowTyped' BY <1>3, <3>1 DEF SaveRow, RowTyped
    <3>3. untallied' \in BOOLEAN BY <3>1 DEF SaveRow
    <3> QED BY <1>0, <3>1, <3>2, <3>3 DEF VotesTyped, TeamTyped
  <2>4. CASE FinishClose(r)
    <3>1. /\ UNCHANGED <<accounts, helpers, against, approved, unsynced>> /\ SaveRow(r, r.with)
          /\ needed' = r.needed /\ r.with \in Closed
      BY <1>0, <2>4 DEF FinishClose, votes, Closing, Closed
    <3>2. RowTyped' BY <1>3, <3>1 DEF SaveRow, RowTyped
    <3>3. untallied' \in BOOLEAN BY <3>1 DEF SaveRow
    <3> QED BY <1>0, <3>1, <3>2, <3>3 DEF VotesTyped, TeamTyped
  <2>5. CASE FinishDelete(r)
    BY <1>0, <2>5 DEF FinishDelete, RowTyped, VotesTyped, TeamTyped, history
  <2>6. CASE SyncAfter(r)
    <3>1. /\ UNCHANGED <<accounts, status, coordinator, creator, needed, helpers, against, approved,
                         untallied>>
          /\ Synced \/ (unsynced' = TRUE /\ phase' = phase)
      BY <2>6 DEF SyncAfter, votes
    <3>2. phase' \in {"proposal", "realization"} /\ unsynced' \in BOOLEAN
      BY <1>0, <3>1, SyncTyped DEF Synced, RowTyped
    <3> QED BY <1>0, <3>1, <3>2 DEF RowTyped, VotesTyped, TeamTyped
  <2>7. CASE GiveUp(r)
    BY <1>0, <2>7 DEF GiveUp, row, votes, history, RowTyped, VotesTyped, TeamTyped
  <2> QED BY <2>1, <2>2, <2>3, <2>4, <2>5, <2>6, <2>7 DEF Proceed
<1> QED BY <1>1, <1>4, TypeParts DEF Sound

LEMMA SoundStep == Sound /\ [Next]_vars => Sound'
<1> SUFFICES ASSUME Sound, [Next]_vars PROVE Sound'
  OBVIOUS
<1>1. CASE UNCHANGED vars
  BY <1>1, TypeParts
     DEF vars, row, votes, history, Sound, RowTyped, VotesTyped, TeamTyped, OpenTyped, Closing
<1> QED BY <1>1, WholeStepsKeepType, BeginnersKeepType, ProceedKeepsType DEF Next

(* Whatever requests cross one another, every variable keeps its type.     *)
THEOREM TypesHold == Spec => []TypeOK
<1>1. Sound => TypeOK BY DEF Sound
<1> QED BY <1>1, SoundInit, SoundStep, PTL DEF Spec

-----------------------------------------------------------------------------
(* The phase                                                               *)

(* A synchronisation, or a step that leaves the task closed, settles it.   *)
LEMMA SyncedFollows == Synced => PhaseFollows'
BY DEF Synced, Sync, PhaseFollows, Fitting, Ready, Score, Team

LEMMA NotActiveFollows == status' # "active" => PhaseFollows'
BY DEF PhaseFollows

(* So does one that leaves the task as it is, unless a request goes.       *)
LEMMA SameFollows ==
    ASSUME PhaseFollows,
           UNCHANGED <<status, phase, coordinator, needed, helpers, against, approved, unsynced>>,
           \A r \in open : r.wrote => \E q \in open' : q.wrote
    PROVE  PhaseFollows'
BY DEF PhaseFollows, Fitting, Ready, Score, Team

(* A request that has written and is not done.                             *)
LEMMA WroteFollows ==
    ASSUME Sound, NEW r \in open, Wrote(r)
    PROVE  PhaseFollows'
<1>1. r \in Requests BY TypeParts DEF Sound, OpenTyped
<1>2. [r EXCEPT !.wrote = TRUE].wrote = TRUE BY <1>1 DEF Requests
<1>3. \E q \in open' : q.wrote BY <1>2 DEF Wrote
<1> QED BY <1>3 DEF PhaseFollows

LEMMA CastFollows ==
    ASSUME NEW u \in Users, NEW side, Cast(u, side)
    PROVE  PhaseFollows'
<1>1. status' = "rejected" \/ Synced BY DEF Cast
<1> QED BY <1>1, SyncedFollows, NotActiveFollows

LEMMA BeginFollows ==
    ASSUME PhaseFollows, NEW kind, NEW u, NEW chosen, NEW n, BeginWith(kind, u, chosen, n)
    PROVE  PhaseFollows'
<1>1. open \subseteq open' BY DEF BeginWith
<1>2. UNCHANGED <<status, phase, coordinator, needed, helpers, against, approved, unsynced>>
  BY DEF BeginWith, row, votes, history
<1> QED BY <1>1, <1>2, SameFollows

LEMMA PhaseStep == Sound /\ PhaseFollows /\ [Next]_vars => PhaseFollows'
<1> SUFFICES ASSUME Sound, PhaseFollows, [Next]_vars PROVE PhaseFollows'
  OBVIOUS
<1>1. CASE UNCHANGED vars
  <2>1. UNCHANGED <<status, phase, coordinator, needed, helpers, against, approved, unsynced, open>>
    BY <1>1 DEF vars, row, votes, history
  <2> QED BY <2>1, SameFollows
<1>2. ASSUME NEW u \in Users, take_task(u) \/ resign_task(u) PROVE PhaseFollows'
  BY <1>2, SyncedFollows DEF take_task, resign_task
<1>3. ASSUME NEW u \in Users, reopen_task(u) PROVE PhaseFollows'
  <2>1. phase' = "proposal" /\ helpers' = <<>> /\ against' = {} BY <1>3 DEF reopen_task
  <2>2. Score(<<>>, {}) = 0 BY FS_EmptySet, LenProperties, EmptySeq DEF Score
  <2>3. ~Ready(coordinator', helpers', against', approved', needed')
    BY <2>1, <2>2 DEF Ready, Threshold
  <2> QED BY <2>1, <2>3 DEF PhaseFollows, Fitting, Ready, Score, Team
<1>4. ASSUME NEW u \in Users, Leave(u) PROVE PhaseFollows'
  BY <1>4 DEF Leave, PhaseFollows
<1>5. ASSUME NEW u \in Users,
             \/ BeginVote(u) \/ BeginEdit(u) \/ BeginClose(u) \/ BeginDelete(u)
             \/ \E v \in Users : BeginApprove(u, v) \/ BeginRemove(u, v)
      PROVE  PhaseFollows'
  BY <1>5, BeginFollows
     DEF BeginVote, BeginEdit, BeginClose, BeginDelete, BeginApprove, BeginRemove, Begin
<1>6. ASSUME NEW r \in open, Proceed(r) PROVE PhaseFollows'
  <2>0. r \in Requests BY TypeParts DEF Sound, OpenTyped
  <2>1. CASE FinishVote(r)
    <3>1. r.user \in Users BY <2>0 DEF Requests
    <3> QED BY <2>1, <3>1, CastFollows DEF FinishVote
  <2>2. CASE WriteTeam(r) \/ WriteEdit(r)
    BY <2>2, WroteFollows DEF WriteTeam, WriteEdit
  <2>3. CASE FinishClose(r)
    <3>1. status' = r.with /\ r.with # "active" BY <2>3 DEF FinishClose, SaveRow, Sound, Closing
    <3> QED BY <3>1, NotActiveFollows
  <2>4. CASE FinishDelete(r)
    BY <2>4, NotActiveFollows DEF FinishDelete
  <2>5. CASE SyncAfter(r)
    BY <2>5, SyncedFollows DEF SyncAfter, PhaseFollows
  <2>6. CASE GiveUp(r)
    <3>1. /\ UNCHANGED <<status, phase, coordinator, needed, helpers, against, approved, unsynced>>
          /\ ~r.wrote /\ open' = open \ {r}
      BY <2>6 DEF GiveUp, Done, row, votes, history
    <3>2. ASSUME NEW p \in open, p.wrote PROVE p \in open' BY <3>1, <3>2
    <3> QED BY <3>1, <3>2, SameFollows
  <2> QED BY <1>6, <2>1, <2>2, <2>3, <2>4, <2>5, <2>6 DEF Proceed
<1> QED BY <1>1, <1>2, <1>3, <1>4, <1>5, <1>6 DEF Next

(* Once the requests that have written are done, the phase of an active    *)
(* task is the one its coordinator, its votes and its team ask for,        *)
(* whatever has crossed, unless an account was deleted or a                *)
(* synchronisation failed since.                                           *)
THEOREM PhaseAlwaysFollows == Spec => []PhaseFollows
<1>1. Init => PhaseFollows
  <2> SUFFICES ASSUME Init PROVE PhaseFollows
    OBVIOUS
  <2>1. phase = "proposal" /\ helpers = <<Creator>> /\ against = {} BY DEF Init
  <2>2. Score(<<Creator>>, {}) = 1 BY FS_EmptySet DEF Score
  <2>3. ~Ready(coordinator, helpers, against, approved, needed)
    BY <2>1, <2>2 DEF Ready, Threshold
  <2> QED BY <2>1, <2>3 DEF PhaseFollows, Fitting
<1> QED BY <1>1, SoundInit, SoundStep, PhaseStep, PTL DEF Spec

-----------------------------------------------------------------------------
(* The tabs                                                                *)

(* A task that is open has not been voted down.                            *)
NotVotedDown == status = "active" /\ ~untallied => ~Rejects(helpers, against)

LEMMA SameTally ==
    ASSUME NotVotedDown, UNCHANGED <<helpers, against>>, untallied => untallied',
           status' = "active" => status = "active" \/ untallied'
    PROVE  NotVotedDown'
BY DEF NotVotedDown, Rejects, Score

LEMMA CastTallies ==
    ASSUME NEW u \in Users, NEW side, Cast(u, side)
    PROVE  NotVotedDown'
<1>1. \/ status' = "rejected"
      \/ ~Rejects(helpers', against')
      \/ status = "rejected" /\ status' = status
  BY DEF Cast
<1> QED BY <1>1 DEF NotVotedDown, Rejects, Score

LEMMA TallyStep == Sound /\ NotVotedDown /\ [Next]_vars => NotVotedDown'
<1> SUFFICES ASSUME Sound, NotVotedDown, [Next]_vars PROVE NotVotedDown'
  OBVIOUS
<1>1. CASE UNCHANGED vars
  BY <1>1, SameTally DEF vars, row, votes, history
<1>2. ASSUME NEW u \in Users, take_task(u) \/ resign_task(u) PROVE NotVotedDown'
  BY <1>2, SameTally DEF take_task, resign_task, votes
<1>3. ASSUME NEW u \in Users, reopen_task(u) PROVE NotVotedDown'
  <2>1. helpers' = <<>> /\ against' = {} BY <1>3 DEF reopen_task
  <2>2. Score(<<>>, {}) = 0 BY FS_EmptySet, LenProperties, EmptySeq DEF Score
  <2>3. ~Rejects(helpers', against') BY <2>1, <2>2 DEF Rejects, Rejection
  <2> QED BY <2>3 DEF NotVotedDown, Rejects, Score
<1>4. ASSUME NEW u \in Users, Leave(u) PROVE NotVotedDown'
  BY <1>4 DEF Leave, NotVotedDown
<1>5. ASSUME NEW kind, NEW u, NEW chosen, NEW n, BeginWith(kind, u, chosen, n) PROVE NotVotedDown'
  BY <1>5, SameTally DEF BeginWith, row, votes, history
<1>6. ASSUME NEW u \in Users,
             \/ BeginVote(u) \/ BeginEdit(u) \/ BeginClose(u) \/ BeginDelete(u)
             \/ \E v \in Users : BeginApprove(u, v) \/ BeginRemove(u, v)
      PROVE  NotVotedDown'
  BY <1>5, <1>6
     DEF BeginVote, BeginEdit, BeginClose, BeginDelete, BeginApprove, BeginRemove, Begin
<1>7. ASSUME NEW r \in open, Proceed(r) PROVE NotVotedDown'
  <2>0. r \in Requests BY TypeParts DEF Sound, OpenTyped
  <2>1. CASE FinishVote(r)
    <3>1. r.user \in Users BY <2>0 DEF Requests
    <3> QED BY <2>1, <3>1, CastTallies DEF FinishVote
  <2>2. CASE WriteTeam(r)
    BY <2>2, SameTally DEF WriteTeam, row, votes, history
  <2>3. CASE WriteEdit(r)
    <3>1. /\ UNCHANGED <<helpers, against>>
          /\ status' = r.status /\ untallied' = (untallied \/ Stale(r))
      BY <2>3 DEF WriteEdit, SaveRow, votes
    <3>2. r.status # status => Stale(r) BY DEF Stale
    <3> QED BY <3>1, <3>2, SameTally
  <2>4. CASE FinishClose(r)
    BY <2>4 DEF FinishClose, SaveRow, Sound, Closing, NotVotedDown
  <2>5. CASE FinishDelete(r)
    BY <2>5 DEF FinishDelete, NotVotedDown
  <2>6. CASE SyncAfter(r)
    BY <2>6, SameTally DEF SyncAfter, votes
  <2>7. CASE GiveUp(r)
    BY <2>7, SameTally DEF GiveUp, row, votes, history
  <2> QED BY <1>7, <2>1, <2>2, <2>3, <2>4, <2>5, <2>6, <2>7 DEF Proceed
<1> QED BY <1>1, <1>2, <1>3, <1>4, <1>6, <1>7 DEF Next

LEMMA OneTab == Sound /\ NotVotedDown => ListedOnce
<1> SUFFICES ASSUME Sound, NotVotedDown,
                    status \in {"active", "completed", "cancelled"}, ~untallied
             PROVE  Cardinality(Tabs) = 1
  BY DEF ListedOnce
<1>1. phase \in {"proposal", "realization"} BY TypeParts DEF Sound, RowTyped
<1>2. status = "active" => ~(Score(helpers, against) <= Rejection)
  BY DEF NotVotedDown, Rejects
<1>3. \E tab \in {"awaiting", "active", "finished"} : Tabs = {tab}
  <2>1. CASE status = "active" /\ phase = "proposal"
    <3>1. Tabs = {"awaiting"} BY <1>2, <2>1 DEF Tabs
    <3> QED BY <3>1
  <2>2. CASE status = "active" /\ phase = "realization"
    <3>1. Tabs = {"active"} BY <1>2, <2>2 DEF Tabs
    <3> QED BY <3>1
  <2>3. CASE status # "active"
    <3>1. Tabs = {"finished"} BY <2>3 DEF Tabs
    <3> QED BY <3>1
  <2> QED BY <1>1, <2>1, <2>2, <2>3
<1> QED BY <1>3, FS_Singleton

(* No crossing of votes, closings and edits hides a task from the list or  *)
(* lists it twice, unless an account was deleted or an older row came back *)
(* since the last vote.                                                    *)
THEOREM TasksAreListedOnce == Spec => []ListedOnce
<1>1. Init => NotVotedDown
  <2> SUFFICES ASSUME Init PROVE NotVotedDown
    OBVIOUS
  <2>1. helpers = <<Creator>> /\ against = {} BY DEF Init
  <2>2. Score(<<Creator>>, {}) = 1 BY FS_EmptySet DEF Score
  <2> QED BY <2>1, <2>2 DEF NotVotedDown, Rejects, Rejection
<1> QED BY <1>1, SoundInit, SoundStep, TallyStep, OneTab, PTL DEF Spec


-----------------------------------------------------------------------------
(* One document of the board and its room                                  *)

Admitted == Founders \subseteq Citizens

(* Whom a new citizen's receivers still have to greet: all of it, or the   *)
(* documents that come last.                                               *)
Stages == {{}, {"public", "documents"}, {"documents"}}
Kinds == {"create", "save", "image", "expire", "post", "revive", "restore", "restoring"}
Seen == {"group", "public", "archive", "none"}
Posts == [kind : Kinds, id : Int, loaded : Seen, chosen : Seen]

(* Types, and what the requests under way may do.                          *)
DocumentTyped ==
    /\ system \in BOOLEAN /\ dormant \in BOOLEAN /\ adrift \in BOOLEAN
    /\ visibility \in D!Chosen \cup {"none", "deleted"}
    /\ room \in [archived : BOOLEAN, public : BOOLEAN]
    /\ system => visibility = "public"

CitizensTyped ==
    /\ allowed \subseteq citizens /\ citizens \subseteq Citizens
    /\ greeting \in [Citizens -> Stages]
    /\ \A v \in Citizens : greeting[v] # {} => v \in citizens

AskedTyped ==
    /\ \A r \in boardPending : r \in Posts
    /\ \A r \in boardPending :
         /\ r.kind = "expire" => ~system
         /\ r.kind \in {"create", "save", "restoring"} => r.chosen \in D!Chosen
    /\ asked \in Int

(* The room of a document that is not archived follows it even while a     *)
(* message restores it; that of an archived one is closed unless it does,  *)
(* and never by the nightly command.                                       *)
ShownFollows ==
    visibility \in D!Visible /\ ~adrift =>
        /\ room.public = (visibility = "public")
        /\ room.archived = dormant

ArchivedFollows ==
    visibility = "archive" /\ ~adrift =>
        /\ ~room.public
        /\ (\A r \in boardPending : r.kind \notin D!Restoring) => room.archived /\ ~dormant

(* A new citizen of whom the documents only are left is in the room of a   *)
(* public one already.                                                     *)
Joined ==
    visibility \in D!Chosen /\ ~adrift =>
        \A v \in citizens :
            /\ greeting[v] = {} => v \in allowed
            /\ greeting[v] = {"documents"} /\ visibility = "public" => v \in allowed

BoardSound ==
    /\ DocumentTyped /\ CitizensTyped /\ AskedTyped
    /\ ShownFollows /\ ArchivedFollows /\ Joined

LEMMA BoardInit == ASSUME Admitted PROVE D!Init => BoardSound
<1> SUFFICES ASSUME D!Init PROVE BoardSound
  OBVIOUS
<1> USE DEF D!Init, D!RoomOf
<1>1. DocumentTyped BY DEF DocumentTyped, D!Chosen, D!Visible
<1>2. CitizensTyped BY DEF CitizensTyped, Stages, Admitted
<1>3. AskedTyped BY DEF AskedTyped
<1>4. ShownFollows BY DEF ShownFollows, D!Visible
<1>5. ArchivedFollows BY DEF ArchivedFollows
<1>6. Joined BY DEF Joined, D!Chosen, D!Visible
<1> QED BY <1>1, <1>2, <1>3, <1>4, <1>5, <1>6 DEF BoardSound

(* A request that begins changes nothing but the requests.                 *)
LEMMA AskKeeps ==
    ASSUME BoardSound, NEW k \in Kinds, NEW l \in Seen, NEW ch \in Seen, D!Ask(k, l, ch),
           k = "expire" => ~system,
           k \in {"create", "save", "restoring"} => ch \in D!Chosen
    PROVE  BoardSound'
<1> USE DEF BoardSound, D!Ask
<1>1. DocumentTyped' BY DEF DocumentTyped
<1>2. CitizensTyped' BY DEF CitizensTyped
<1>3. AskedTyped' BY DEF AskedTyped, Posts
<1>4. ShownFollows' BY DEF ShownFollows
<1>5. ArchivedFollows' BY DEF ArchivedFollows
<1>6. Joined' BY DEF Joined
<1> QED BY <1>1, <1>2, <1>3, <1>4, <1>5, <1>6

LEMMA BegunKeeps ==
    ASSUME BoardSound,
           \/ D!BeginCreate \/ D!BeginEdit \/ D!delete_post \/ D!restore_post
           \/ D!delete_featured_image \/ D!BeginExpire \/ D!BeginMessage
    PROVE  BoardSound'
<1>1. PICK k \in Kinds, l \in Seen, ch \in Seen :
        /\ D!Ask(k, l, ch) /\ (k = "expire" => ~system)
        /\ k \in {"create", "save", "restoring"} => ch \in D!Chosen
  <2> USE DEF Kinds, Seen, D!Chosen, D!Visible
  <2>1. CASE D!BeginCreate
    <3>1. PICK v \in D!Chosen : D!Ask("create", v, v) BY <2>1 DEF D!BeginCreate
    <3> QED BY <3>1
  <2>2. CASE D!BeginEdit
    <3>1. PICK v \in D!Chosen : D!Ask("save", v, v) BY <2>2 DEF D!BeginEdit
    <3> QED BY <3>1
  <2>3. CASE D!delete_post BY <2>3 DEF D!delete_post
  <2>4. CASE D!restore_post BY <2>4 DEF D!restore_post
  <2>5. CASE D!delete_featured_image BY <2>5 DEF D!delete_featured_image
  <2>6. CASE D!BeginExpire BY <2>6 DEF D!BeginExpire
  <2>7. CASE D!BeginMessage
    <3>1. D!Ask("revive", "none", "none") \/ D!Ask("post", "none", "none") BY <2>7 DEF D!BeginMessage
    <3> QED BY <3>1
  <2> QED BY <2>1, <2>2, <2>3, <2>4, <2>5, <2>6, <2>7
<1> QED BY <1>1, AskKeeps

(* A save sets the room from what the request has in memory, and lets all  *)
(* citizens in.                                                            *)
LEMMA SaveKeeps ==
    ASSUME BoardSound, NEW r \in boardPending, D!Save(r)
    PROVE  BoardSound'
<1> USE DEF BoardSound
<1>0. PICK shown \in {"public", r.loaded} :
        /\ room' = D!RoomOf(shown) /\ adrift' = (shown # visibility')
        /\ visibility' \in D!Chosen /\ (system => visibility' = "public")
        /\ allowed' = citizens /\ dormant' = FALSE
        /\ boardPending' = boardPending \ {r}
        /\ UNCHANGED <<system, citizens, greeting, asked>>
  BY DEF D!Save, D!Follow, D!Done, AskedTyped, D!Chosen, D!Visible
<1>1. DocumentTyped' BY <1>0 DEF DocumentTyped, D!RoomOf
<1>2. CitizensTyped' BY <1>0 DEF CitizensTyped
<1>3. AskedTyped' BY <1>0 DEF AskedTyped
<1>4. ShownFollows' BY <1>0 DEF ShownFollows, D!RoomOf, D!Visible
<1>5. ArchivedFollows' BY <1>0 DEF ArchivedFollows, D!RoomOf
<1>6. Joined' BY <1>0 DEF Joined
<1> QED BY <1>1, <1>2, <1>3, <1>4, <1>5, <1>6

LEMMA EndKeeps ==
    ASSUME BoardSound, NEW r \in boardPending, D!Fail(r) \/ D!Expire(r)
    PROVE  BoardSound'
<1> USE DEF BoardSound, D!Done
<1>1. CASE D!Fail(r)
  <2> USE <1>1 DEF D!Fail
  <2>1. DocumentTyped' BY DEF DocumentTyped
  <2>2. CitizensTyped' BY DEF CitizensTyped
  <2>3. AskedTyped' BY DEF AskedTyped
  <2>4. ShownFollows' BY DEF ShownFollows
  <2>5. ArchivedFollows'
    <3> SUFFICES ASSUME visibility' = "archive", ~adrift'
                 PROVE  /\ ~room'.public
                        /\ (\A q \in boardPending' : q.kind \notin D!Restoring) => room'.archived /\ ~dormant'
      BY DEF ArchivedFollows
    <3>1. ~adrift /\ r.kind \notin D!Restoring BY DEF DocumentTyped
    <3> QED BY <3>1 DEF ArchivedFollows
  <2>6. Joined' BY DEF Joined
  <2> QED BY <2>1, <2>2, <2>3, <2>4, <2>5, <2>6
<1>2. CASE D!Expire(r)
  <2> USE <1>2 DEF D!Expire
  <2>0. ~system BY DEF AskedTyped
  <2>1. DocumentTyped' BY <2>0 DEF DocumentTyped, D!RoomOf
  <2>2. CitizensTyped' BY DEF CitizensTyped
  <2>3. AskedTyped' BY DEF AskedTyped
  <2>4. ShownFollows' BY DEF ShownFollows, D!Visible
  <2>5. ArchivedFollows' BY DEF ArchivedFollows
  <2>6. Joined' BY DEF Joined, D!Chosen, D!Visible
  <2> QED BY <2>1, <2>2, <2>3, <2>4, <2>5, <2>6
<1> QED BY <1>1, <1>2

(* A message opens the room: whoever had it closed for want of messages is *)
(* answered, and an archived document is restored next.                    *)
LEMMA MessageKeeps ==
    ASSUME BoardSound, NEW r \in boardPending,
           D!PostMessage(r) \/ D!ReviveRoom(r) \/ D!LoadArchived(r)
    PROVE  BoardSound'
<1> USE DEF BoardSound
<1>0. r \in Posts
  BY DEF AskedTyped
<1>1. CASE D!PostMessage(r)
  <2> USE <1>1 DEF D!PostMessage, D!Opened, D!Done
  <2>1. DocumentTyped' BY DEF DocumentTyped
  <2>2. CitizensTyped' BY DEF CitizensTyped
  <2>3. AskedTyped' BY DEF AskedTyped
  <2>4. ShownFollows' BY DEF ShownFollows, DocumentTyped
  <2>5. ArchivedFollows'
    <3> SUFFICES ASSUME visibility = "archive", ~adrift'
                 PROVE  /\ ~room.public
                        /\ \E q \in boardPending' : q.kind \in D!Restoring
      BY DEF ArchivedFollows, DocumentTyped
    <3>1. ~adrift /\ ~(room.archived /\ ~dormant) BY DEF DocumentTyped
    <3>2. PICK q \in boardPending : q.kind \in D!Restoring BY <3>1 DEF ArchivedFollows
    <3>3. q # r BY <3>2 DEF D!Restoring
    <3> QED BY <3>1, <3>2, <3>3 DEF ArchivedFollows
  <2>6. Joined' BY DEF Joined, DocumentTyped
  <2> QED BY <2>1, <2>2, <2>3, <2>4, <2>5, <2>6
<1>2. CASE D!ReviveRoom(r)
  <2> DEFINE new == [r EXCEPT !.kind = "restore", !.loaded = "none", !.chosen = "none"]
  <2>0. /\ boardPending' = (boardPending \ {r}) \cup {new}
        /\ new \in Posts
        /\ new.kind = "restore"
    BY <1>0, <1>2 DEF D!ReviveRoom, D!Become, Kinds, Seen, Posts
  <2> HIDE DEF new
  <2> USE <1>2 DEF D!ReviveRoom, D!Opened
  <2>1. DocumentTyped' BY DEF DocumentTyped
  <2>2. CitizensTyped' BY DEF CitizensTyped
  <2>3. AskedTyped' BY <2>0 DEF AskedTyped
  <2>4. ShownFollows' BY DEF ShownFollows, DocumentTyped
  <2>5. ArchivedFollows' BY <2>0 DEF ArchivedFollows, DocumentTyped, D!Restoring
  <2>6. Joined' BY DEF Joined
  <2> QED BY <2>1, <2>2, <2>3, <2>4, <2>5, <2>6
<1>3. CASE D!LoadArchived(r)
  <2> DEFINE new == [r EXCEPT !.kind = "restoring", !.loaded = "group", !.chosen = "group"]
  <2>0. /\ \/ visibility = "archive" /\ boardPending' = (boardPending \ {r}) \cup {new}
           \/ visibility # "archive" /\ boardPending' = boardPending \ {r}
        /\ new \in Posts
        /\ new.kind = "restoring" /\ new.chosen = "group"
    BY <1>0, <1>3 DEF D!LoadArchived, D!Become, D!Done, Kinds, Seen, Posts
  <2> HIDE DEF new
  <2> USE <1>3 DEF D!LoadArchived
  <2>1. DocumentTyped' BY DEF DocumentTyped
  <2>2. CitizensTyped' BY DEF CitizensTyped
  <2>3. AskedTyped' BY <2>0 DEF AskedTyped, D!Chosen, D!Visible
  <2>4. ShownFollows' BY DEF ShownFollows
  <2>5. ArchivedFollows' BY <2>0 DEF ArchivedFollows, D!Restoring
  <2>6. Joined' BY DEF Joined
  <2> QED BY <2>1, <2>2, <2>3, <2>4, <2>5, <2>6
<1> QED BY <1>1, <1>2, <1>3

(* The first receiver lets a new citizen into public rooms, the second     *)
(* into those of the group's documents.                                    *)
LEMMA GreetKeeps ==
    ASSUME BoardSound, NEW v \in Citizens, NEW receiver \in {"public", "documents"}, D!Greet(v, receiver)
    PROVE  BoardSound'
<1> USE DEF BoardSound, D!Greet
<1>0. /\ greeting' = [greeting EXCEPT ![v] = @ \ {receiver}]
      /\ v \in citizens
      /\ \/ receiver = "public" /\ greeting[v] = {"public", "documents"} /\ greeting'[v] = {"documents"}
         \/ receiver = "documents" /\ greeting[v] = {"documents"} /\ greeting'[v] = {}
      /\ \A w \in Citizens \ {v} : greeting'[w] = greeting[w]
  BY DEF CitizensTyped, Stages
<1>1. DocumentTyped' BY DEF DocumentTyped
<1>2. CitizensTyped'
  <2>1. greeting' \in [Citizens -> Stages] BY <1>0 DEF CitizensTyped, Stages
  <2>2. allowed' \subseteq citizens' /\ citizens' \subseteq Citizens BY <1>0 DEF CitizensTyped
  <2>3. \A w \in Citizens : greeting'[w] # {} => w \in citizens' BY <1>0 DEF CitizensTyped
  <2> QED BY <2>1, <2>2, <2>3 DEF CitizensTyped
<1>3. AskedTyped' BY DEF AskedTyped
<1>4. ShownFollows' BY DEF ShownFollows
<1>5. ArchivedFollows' BY DEF ArchivedFollows
<1>6. Joined'
  <2> SUFFICES ASSUME visibility \in D!Chosen, ~adrift, NEW w \in citizens
               PROVE  /\ greeting'[w] = {} => w \in allowed'
                      /\ greeting'[w] = {"documents"} /\ visibility = "public" => w \in allowed'
    BY DEF Joined
  <2>1. CASE w # v
    <3>1. greeting'[w] = greeting[w] /\ allowed \subseteq allowed' BY <1>0, <2>1 DEF CitizensTyped
    <3> QED BY <3>1 DEF Joined
  <2>2. CASE w = v /\ receiver = "public"
    <3>1. visibility = "public" => v \in allowed' BY <2>2 DEF ShownFollows, D!Visible
    <3> QED BY <1>0, <2>2, <3>1
  <2>3. CASE w = v /\ receiver = "documents"
    <3>1. CASE visibility = "public" BY <1>0, <2>3, <3>1 DEF Joined
    <3>2. CASE visibility # "public" BY <2>3, <3>2 DEF D!Chosen, D!Visible
    <3> QED BY <3>1, <3>2
  <2> QED BY <2>1, <2>2, <2>3
<1> QED BY <1>1, <1>2, <1>3, <1>4, <1>5, <1>6

LEMMA CitizensKeep ==
    ASSUME BoardSound, NEW v \in Citizens, D!Accept(v) \/ D!Leave(v)
    PROVE  BoardSound'
<1> USE DEF BoardSound
<1>1. CASE D!Accept(v)
  <2> USE <1>1 DEF D!Accept
  <2>1. DocumentTyped' BY DEF DocumentTyped
  <2>2. CitizensTyped' BY DEF CitizensTyped, Stages
  <2>3. AskedTyped' BY DEF AskedTyped
  <2>4. ShownFollows' BY DEF ShownFollows
  <2>5. ArchivedFollows' BY DEF ArchivedFollows
  <2>6. Joined' BY DEF Joined, CitizensTyped
  <2> QED BY <2>1, <2>2, <2>3, <2>4, <2>5, <2>6
<1>2. CASE D!Leave(v)
  <2> USE <1>2 DEF D!Leave
  <2>1. DocumentTyped' BY DEF DocumentTyped
  <2>2. CitizensTyped' BY DEF CitizensTyped, Stages
  <2>3. AskedTyped' BY DEF AskedTyped
  <2>4. ShownFollows' BY DEF ShownFollows
  <2>5. ArchivedFollows' BY DEF ArchivedFollows
  <2>6. Joined' BY DEF Joined, CitizensTyped
  <2> QED BY <2>1, <2>2, <2>3, <2>4, <2>5, <2>6
<1> QED BY <1>1, <1>2

LEMMA NightKeeps == ASSUME BoardSound, D!chat_rooms PROVE BoardSound'
<1> USE DEF BoardSound, D!chat_rooms
<1>1. DocumentTyped' BY DEF DocumentTyped
<1>2. CitizensTyped' BY DEF CitizensTyped
<1>3. AskedTyped' BY DEF AskedTyped
<1>4. ShownFollows' BY DEF ShownFollows, DocumentTyped
<1>5. ArchivedFollows' BY DEF ArchivedFollows, DocumentTyped
<1>6. Joined' BY DEF Joined, CitizensTyped
<1> QED BY <1>1, <1>2, <1>3, <1>4, <1>5, <1>6

LEMMA BoardStep == BoardSound /\ (D!Next \/ UNCHANGED D!vars) => BoardSound'
<1> SUFFICES ASSUME BoardSound, D!Next \/ UNCHANGED D!vars PROVE BoardSound'
  OBVIOUS
<1>1. CASE UNCHANGED D!vars
  BY <1>1 DEF D!vars, BoardSound, DocumentTyped, CitizensTyped, AskedTyped, ShownFollows, ArchivedFollows, Joined
<1>2. ASSUME NEW r \in boardPending,
             \/ D!Save(r) \/ D!Expire(r) \/ D!PostMessage(r) \/ D!ReviveRoom(r) \/ D!LoadArchived(r) \/ D!Fail(r)
      PROVE  BoardSound'
  BY <1>2, SaveKeeps, EndKeeps, MessageKeeps
<1>3. ASSUME NEW v \in Citizens, \/ D!Accept(v) \/ D!Leave(v)
                                \/ \E receiver \in {"public", "documents"} : D!Greet(v, receiver)
      PROVE  BoardSound'
  BY <1>3, CitizensKeep, GreetKeeps
<1>4. CASE D!Next BY <1>2, <1>3, <1>4, BegunKeeps, NightKeeps DEF D!Next
<1> QED BY <1>1, <1>4

LEMMA BoardSuffices == BoardSound => BoardInvariant
<1> SUFFICES ASSUME BoardSound PROVE D!BoardInvariant
  BY DEF BoardInvariant
<1>1. D!TypeOK BY DEF BoardSound, DocumentTyped, CitizensTyped, D!TypeOK
<1>2. D!RoomFollows
  BY DEF BoardSound, DocumentTyped, ShownFollows, ArchivedFollows, D!RoomFollows, D!Chosen, D!Visible
<1>3. D!EveryoneMayDiscuss BY DEF BoardSound, Joined, D!EveryoneMayDiscuss
<1> QED BY <1>1, <1>2, <1>3 DEF D!BoardInvariant

(* The room of a document is open and public as the document is, and every *)
(* citizen whose admission has run its course may join, whatever saves,    *)
(* messages and the nightly command cross one another, unless the room was *)
(* set from an older state of the document.                                *)
THEOREM BoardInvariantHolds ==
    ASSUME Admitted
    PROVE  SiteSpec => []BoardInvariant
<1>1. SiteInit => BoardSound
  BY BoardInit DEF SiteInit
<1>2. BoardSound /\ [SiteNext]_all => BoardSound'
  <2> SUFFICES ASSUME BoardSound, [SiteNext]_all PROVE BoardSound'
    OBVIOUS
  <2>1. D!Next \/ UNCHANGED D!vars
    BY DEF SiteNext, TaskNext, ChecklistNext, SurveyNext, BookNext, ResourceNext, BoardNext, CalendarNext,
           all, board, D!vars
  <2> QED BY <2>1, BoardStep
<1>3. BoardSound => BoardInvariant
  BY BoardSuffices
<1> QED BY <1>1, <1>2, <1>3, PTL DEF SiteSpec

-----------------------------------------------------------------------------
(* One survey                                                              *)

Counted == IsFiniteSet(Texts) /\ MaxOptions \in Nat /\ MaxOptions >= 2

RowsUpTo(n) == [key : 1..n, text : Texts, order : 0..(n - 1)]

SurveyTyped ==
    /\ present \in BOOLEAN /\ closed \in BOOLEAN /\ multiple \in BOOLEAN /\ lenient \in BOOLEAN
    /\ lastKey \in Nat /\ lastKey <= MaxOptions
    /\ options \subseteq RowsUpTo(lastKey)
    /\ ballots \in [Voters -> SUBSET (1..lastKey)] /\ voters \subseteq Voters

(* What a request under way has loaded.                                    *)
LoadedForm(r) ==
    /\ r.multiple \in BOOLEAN
    /\ r.kind = "vote" => r.keys \subseteq S!Keys /\ (~r.multiple => Cardinality(r.keys) <= 1)
    /\ r.kind = "custom" => r.list[1] \in Texts /\ (~r.multiple => r.keys = {})
    /\ r.kind = "edit" => r.list \in S!Lists

FormsTyped == \A r \in forms : LoadedForm(r)

(* While no request has found several answers allowed, none is about to.   *)
OneOnly ==
    ~lenient => /\ ~multiple /\ \A r \in forms : ~r.multiple
                /\ \A v \in Voters : Cardinality(ballots[v]) <= 1

(* An own option comes after the last one: there is one.                   *)
Ordered == present => \E o \in options : \A p \in options : p.order <= o.order

SurveySound == SurveyTyped /\ FormsTyped /\ OneOnly /\ S!OptionsDiffer /\ Ordered

LEMMA SurveyCounts == \A T : S!Cardinality(T) = Cardinality(T)
BY DEF S!Cardinality, Cardinality

LEMMA FewStayFew ==
    ASSUME NEW n \in Nat, NEW K \in SUBSET (1..n), Cardinality(K) <= 1, NEW L \in SUBSET K
    PROVE  Cardinality(L) <= 1
<1>1. IsFiniteSet(1..n) BY FS_Interval
<1>2. IsFiniteSet(K) BY <1>1, FS_Subset
<1>3. IsFiniteSet(L) /\ Cardinality(L) <= Cardinality(K) BY <1>2, FS_Subset
<1> QED BY <1>2, <1>3, FS_CardinalityType

LEMMA ListFacts ==
    ASSUME Counted, NEW l \in S!Lists
    PROVE  \E n \in Nat : /\ n >= 2 /\ DOMAIN l = 1..n /\ \A i \in 1..n : l[i] \in Texts
                          /\ \A i, j \in 1..n : l[i] = l[j] => i = j
<1>1. Cardinality(Texts) \in Nat BY FS_CardinalityType DEF Counted
<1>2. PICK n \in 2..Cardinality(Texts) : l \in [1..n -> Texts]
  <2>1. l \in UNION {[1..n -> Texts] : n \in 2..Cardinality(Texts)} BY SurveyCounts DEF S!Lists
  <2> QED BY <2>1
<1>3. DOMAIN l = 1..n /\ n \in Nat /\ n >= 2 BY <1>1, <1>2
<1>4. \A i, j \in DOMAIN l : l[i] = l[j] => i = j BY DEF S!Lists
<1> QED BY <1>2, <1>3, <1>4

LEMMA PositionIs ==
    ASSUME Counted, NEW l \in S!Lists, NEW i \in DOMAIN l
    PROVE  S!Position(l, l[i]) = i
<1>1. \A j \in DOMAIN l : l[i] = l[j] => i = j BY DEF S!Lists
<1>2. \E j \in DOMAIN l : l[j] = l[i] OBVIOUS
<1>3. S!Position(l, l[i]) \in DOMAIN l /\ l[S!Position(l, l[i])] = l[i] BY <1>2 DEF S!Position
<1> QED BY <1>1, <1>3

(* The new rows of an edit take the next keys, in the order of the list,   *)
(* and there are at most as many rows as there were ever keys.             *)
LEMMA SeatFacts ==
    ASSUME Counted, SurveyTyped, S!OptionsDiffer, NEW l \in S!Lists, NEW n \in Nat, DOMAIN l = 1..n
    PROVE  LET Before(i) == Cardinality({j \in S!Missing(l) : j <= i})
               m == Cardinality(S!Missing(l))
           IN  /\ m \in Nat /\ n <= lastKey + m
               /\ \A i \in S!Missing(l) : Before(i) \in 1..m
               /\ \A i, j \in S!Missing(l) : i # j => Before(i) # Before(j)
<1> DEFINE M == S!Missing(l)
           Up(i) == {j \in M : j <= i}
           m == Cardinality(M)
<1>1. M \subseteq 1..n /\ IsFiniteSet(1..n) /\ Cardinality(1..n) = n
  BY FS_Interval DEF S!Missing
<1>2. IsFiniteSet(M) /\ m \in Nat
  BY <1>1, FS_Subset, FS_CardinalityType
<1>3. \A i \in M : IsFiniteSet(Up(i)) /\ Cardinality(Up(i)) \in Nat /\ Cardinality(Up(i)) <= m
  <2> SUFFICES ASSUME NEW i \in M
               PROVE  IsFiniteSet(Up(i)) /\ Cardinality(Up(i)) \in Nat /\ Cardinality(Up(i)) <= m
    OBVIOUS
  <2>1. Up(i) \in SUBSET M OBVIOUS
  <2>2. IsFiniteSet(Up(i)) /\ Cardinality(Up(i)) <= m BY <1>2, <2>1, FS_Subset
  <2> QED BY <2>2, FS_CardinalityType
<1>4. \A i \in M : Cardinality(Up(i)) # 0
  <2> SUFFICES ASSUME NEW i \in M PROVE Cardinality(Up(i)) # 0
    OBVIOUS
  <2>1. i \in Up(i) BY <1>1
  <2> QED BY <1>3, <2>1, FS_EmptySet
<1>5. ASSUME NEW i \in M, NEW j \in M, i < j PROVE Cardinality(Up(i)) # Cardinality(Up(j))
  <2>1. Up(i) \in SUBSET Up(j) /\ j \in Up(j) /\ j \notin Up(i) BY <1>1, <1>5
  <2> QED BY <1>3, <2>1, FS_Subset
<1>6. \A i, j \in M : i # j => Cardinality(Up(i)) # Cardinality(Up(j))
  <2> SUFFICES ASSUME NEW i \in M, NEW j \in M, i # j PROVE Cardinality(Up(i)) # Cardinality(Up(j))
    OBVIOUS
  <2>1. i < j \/ j < i BY <1>1
  <2> QED BY <1>5, <2>1
<1>7. n <= lastKey + m
  <2> DEFINE Old == (1..n) \ M
             Of(i) == CHOOSE k \in 1..lastKey : \E o \in options : o.text = l[i] /\ o.key = k
             f == [i \in Old |-> Of(i)]
  <2>1. IsFiniteSet(Old) /\ Cardinality(Old) = n - m
    <3> DEFINE upto == 1..n
    <3>1. upto \cap M = M /\ IsFiniteSet(upto) /\ Cardinality(upto) = n BY <1>1
    <3> HIDE DEF upto, M
    <3>2. IsFiniteSet(upto \ M) /\ Cardinality(upto \ M) = Cardinality(upto) - Cardinality(upto \cap M)
      BY <3>1, FS_Difference
    <3>3. Old = upto \ M BY DEF upto
    <3> QED BY <3>1, <3>2, <3>3
  <2>2. \A i \in Old : Of(i) \in 1..lastKey /\ \E o \in options : o.text = l[i] /\ o.key = Of(i)
    <3> SUFFICES ASSUME NEW i \in Old
                 PROVE  Of(i) \in 1..lastKey /\ \E o \in options : o.text = l[i] /\ o.key = Of(i)
      OBVIOUS
    <3>1. PICK o \in options : o.text = l[i] BY DEF S!Missing, S!OptionTexts
    <3>2. o.key \in 1..lastKey BY DEF SurveyTyped, RowsUpTo
    <3> QED BY <3>1, <3>2
  <2>3. f \in [Old -> 1..lastKey] BY <2>2
  <2>4. ASSUME NEW i \in Old, NEW j \in Old, f[i] = f[j] PROVE i = j
    <3>1. Of(i) = Of(j) BY <2>4
    <3>2. PICK o \in options : o.text = l[i] /\ o.key = Of(i) BY <2>2
    <3>3. PICK p \in options : p.text = l[j] /\ p.key = Of(j) BY <2>2
    <3>4. o = p BY <3>1, <3>2, <3>3 DEF S!OptionsDiffer
    <3> QED BY <3>2, <3>3, <3>4 DEF S!Lists
  <2>5. IsFiniteSet(1..lastKey) /\ Cardinality(1..lastKey) = lastKey BY FS_Interval DEF SurveyTyped
  <2> HIDE DEF f, Old
  <2>6. ~(Cardinality(1..lastKey) < Cardinality(Old))
    <3> SUFFICES ASSUME Cardinality(1..lastKey) < Cardinality(Old) PROVE FALSE
      OBVIOUS
    <3>1. \E i, j \in Old : i # j /\ f[i] = f[j] BY <2>1, <2>3, <2>5, FS_PigeonHole
    <3> QED BY <2>4, <3>1
  <2> QED BY <1>2, <2>1, <2>5, <2>6 DEF SurveyTyped
<1> QED BY <1>2, <1>3, <1>4, <1>6, <1>7

(* What an edit leaves: rows that differ, the last of the list the last.   *)
LEMMA EditFacts ==
    ASSUME Counted, SurveyTyped, S!OptionsDiffer, NEW l \in S!Lists,
           NEW rs, rs = S!Renumbered(l) \cup S!Created(l),
           NEW last, last = lastKey + S!Cardinality(S!Missing(l))
    PROVE  /\ last \in Nat /\ last >= lastKey /\ rs \subseteq RowsUpTo(last)
           /\ \A o, p \in rs : o # p => o.key # p.key /\ o.text # p.text /\ o.order # p.order
           /\ \E o \in rs : \A p \in rs : p.order <= o.order
<1>1. PICK n \in Nat : /\ n >= 2 /\ DOMAIN l = 1..n /\ \A i \in 1..n : l[i] \in Texts
                       /\ \A i, j \in 1..n : l[i] = l[j] => i = j
  BY ListFacts
<1> DEFINE Before(i) == S!Cardinality({j \in S!Missing(l) : j <= i})
           m == S!Cardinality(S!Missing(l))
           OldRow(o, i) == [key |-> o.key, text |-> o.text, order |-> i - 1]
           NewRow(i) == [key |-> lastKey + Before(i), text |-> l[i], order |-> i - 1]
<1>2. /\ m \in Nat /\ n <= lastKey + m
      /\ \A i \in S!Missing(l) : Before(i) \in 1..m
      /\ \A i, j \in S!Missing(l) : i # j => Before(i) # Before(j)
  BY <1>1, SeatFacts, SurveyCounts
<1>3. S!Missing(l) \subseteq 1..n /\ \A i \in 1..n : i \in S!Missing(l) <=> \A o \in options : o.text # l[i]
  BY <1>1 DEF S!Missing, S!OptionTexts
<1>4. S!Created(l) = {NewRow(i) : i \in S!Missing(l)}
  BY DEF S!Created
<1> HIDE DEF Before, m
<1>5. lastKey \in Nat /\ last = lastKey + m /\ last \in Nat /\ last >= lastKey
  BY <1>2 DEF m, SurveyTyped
<1>6. \A r \in S!Renumbered(l) : \E o \in options, i \in 1..n : l[i] = o.text /\ r = OldRow(o, i)
  <2> SUFFICES ASSUME NEW r \in S!Renumbered(l)
               PROVE  \E o \in options, i \in 1..n : l[i] = o.text /\ r = OldRow(o, i)
    OBVIOUS
  <2>1. PICK o \in S!Kept(l) : r = [o EXCEPT !.order = S!Position(l, o.text) - 1]
    BY DEF S!Renumbered
  <2>2. PICK i \in 1..n : l[i] = o.text BY <1>1, <2>1 DEF S!Kept
  <2>3. S!Position(l, o.text) = i BY <1>1, <2>2, PositionIs
  <2>4. o \in options /\ o \in RowsUpTo(lastKey) BY DEF S!Kept, SurveyTyped
  <2>5. r = OldRow(o, i) BY <2>1, <2>3, <2>4 DEF RowsUpTo
  <2> QED BY <2>2, <2>4, <2>5
<1>7. \A o \in options, i \in 1..n : l[i] = o.text => OldRow(o, i) \in S!Renumbered(l)
  <2> SUFFICES ASSUME NEW o \in options, NEW i \in 1..n, l[i] = o.text
               PROVE  OldRow(o, i) \in S!Renumbered(l)
    OBVIOUS
  <2>1. S!Position(l, o.text) = i /\ o \in S!Kept(l) BY <1>1, PositionIs DEF S!Kept
  <2>2. o \in RowsUpTo(lastKey) BY DEF SurveyTyped
  <2>3. OldRow(o, i) = [o EXCEPT !.order = S!Position(l, o.text) - 1] BY <2>1, <2>2 DEF RowsUpTo
  <2> QED BY <2>1, <2>3 DEF S!Renumbered
<1>8. \A r \in rs : \E i \in 1..n :
        /\ r.text = l[i] /\ r.order = i - 1 /\ r \in RowsUpTo(last)
        /\ \/ \E o \in options : o.text = l[i] /\ r.key = o.key /\ r.key <= lastKey
           \/ i \in S!Missing(l) /\ r.key = lastKey + Before(i) /\ r.key > lastKey
  <2> SUFFICES ASSUME NEW r \in rs
               PROVE  \E i \in 1..n :
                        /\ r.text = l[i] /\ r.order = i - 1 /\ r \in RowsUpTo(last)
                        /\ \/ \E o \in options : o.text = l[i] /\ r.key = o.key /\ r.key <= lastKey
                           \/ i \in S!Missing(l) /\ r.key = lastKey + Before(i) /\ r.key > lastKey
    OBVIOUS
  <2>1. CASE r \in S!Renumbered(l)
    <3>1. PICK o \in options, i \in 1..n : l[i] = o.text /\ r = OldRow(o, i) BY <1>6, <2>1
    <3>2. o.key \in 1..lastKey /\ o.text \in Texts BY DEF SurveyTyped, RowsUpTo
    <3>3. i - 1 \in 0..(last - 1) /\ o.key \in 1..last BY <1>2, <1>5, <3>2
    <3> QED BY <3>1, <3>2, <3>3, <1>5 DEF RowsUpTo
  <2>2. CASE r \in S!Created(l)
    <3>1. PICK i \in S!Missing(l) : r = NewRow(i) BY <1>4, <2>2
    <3>2. i \in 1..n /\ Before(i) \in 1..m /\ l[i] \in Texts BY <1>1, <1>2, <1>3
    <3>3. i - 1 \in 0..(last - 1) /\ lastKey + Before(i) \in 1..last /\ lastKey + Before(i) > lastKey
      BY <1>2, <1>5, <3>2
    <3> QED BY <3>1, <3>2, <3>3 DEF RowsUpTo
  <2> QED BY <2>1, <2>2
<1>9. ASSUME NEW o \in rs, NEW p \in rs, o # p
      PROVE  o.key # p.key /\ o.text # p.text /\ o.order # p.order
  <2>1. PICK i \in 1..n :
          /\ o.text = l[i] /\ o.order = i - 1 /\ o \in RowsUpTo(last)
          /\ \/ \E q \in options : q.text = l[i] /\ o.key = q.key /\ o.key <= lastKey
             \/ i \in S!Missing(l) /\ o.key = lastKey + Before(i) /\ o.key > lastKey
    BY <1>8
  <2>2. PICK j \in 1..n :
          /\ p.text = l[j] /\ p.order = j - 1 /\ p \in RowsUpTo(last)
          /\ \/ \E q \in options : q.text = l[j] /\ p.key = q.key /\ p.key <= lastKey
             \/ j \in S!Missing(l) /\ p.key = lastKey + Before(j) /\ p.key > lastKey
    BY <1>8
  <2>3. i # j
    <3> SUFFICES ASSUME i = j PROVE o.key = p.key
      BY <1>9, <2>1, <2>2 DEF RowsUpTo
    <3>1. CASE i \in S!Missing(l)
      <4>1. \A q \in options : q.text # l[i] BY <1>3, <3>1
      <4> QED BY <4>1, <2>1, <2>2
    <3>2. CASE i \notin S!Missing(l)
      <4>1. PICK q \in options : q.text = l[i] /\ o.key = q.key BY <3>2, <2>1
      <4>2. PICK q2 \in options : q2.text = l[i] /\ p.key = q2.key BY <3>2, <2>2
      <4> QED BY <4>1, <4>2 DEF S!OptionsDiffer
    <3> QED BY <3>1, <3>2
  <2>4. l[i] # l[j] /\ i - 1 # j - 1 BY <1>1, <2>3
  <2>5. o.key # p.key
    <3>1. CASE o.key > lastKey /\ p.key > lastKey
      <4>1. i \in S!Missing(l) /\ j \in S!Missing(l) /\ o.key = lastKey + Before(i) /\ p.key = lastKey + Before(j)
        BY <1>5, <2>1, <2>2, <3>1 DEF RowsUpTo
      <4>2. Before(i) # Before(j) /\ Before(i) \in Int /\ Before(j) \in Int BY <1>2, <2>3, <4>1
      <4> QED BY <1>5, <4>1, <4>2
    <3>2. CASE o.key <= lastKey /\ p.key <= lastKey
      <4>1. PICK q \in options : q.text = l[i] /\ o.key = q.key BY <1>5, <2>1, <3>2 DEF RowsUpTo
      <4>2. PICK q2 \in options : q2.text = l[j] /\ p.key = q2.key BY <1>5, <2>2, <3>2 DEF RowsUpTo
      <4> QED BY <2>4, <4>1, <4>2 DEF S!OptionsDiffer
    <3>3. CASE (o.key <= lastKey /\ p.key > lastKey) \/ (o.key > lastKey /\ p.key <= lastKey)
      BY <1>5, <2>1, <2>2, <3>3 DEF RowsUpTo
    <3> QED BY <1>5, <2>1, <2>2, <3>1, <3>2, <3>3 DEF RowsUpTo
  <2> QED BY <2>1, <2>2, <2>4, <2>5
<1>10. \E o \in rs : \A p \in rs : p.order <= o.order
  <2>1. PICK o \in rs : o.order = n - 1
    <3>1. n \in 1..n BY <1>1
    <3>2. CASE n \in S!Missing(l)
      <4>1. NewRow(n) \in rs BY <1>4, <3>2
      <4> QED BY <4>1
    <3>3. CASE n \notin S!Missing(l)
      <4>1. PICK q \in options : q.text = l[n] BY <1>3, <3>1, <3>3
      <4>2. OldRow(q, n) \in rs BY <1>7, <3>1, <4>1
      <4> QED BY <4>2
    <3> QED BY <3>2, <3>3
  <2>2. \A p \in rs : \E i \in 1..n : p.order = i - 1 BY <1>8
  <2> QED BY <2>1, <2>2, <1>1
<1> QED BY <1>5, <1>8, <1>9, <1>10

LEMMA SurveyInit == ASSUME Counted PROVE S!Init => SurveySound
<1> SUFFICES ASSUME S!Init PROVE SurveySound
  OBVIOUS
<1>1. PICK l \in S!Lists : Len(l) = 2 /\ options = S!FirstRows(l) BY DEF S!Init
<1>2. PICK n \in Nat : /\ n >= 2 /\ DOMAIN l = 1..n /\ \A i \in 1..n : l[i] \in Texts
                       /\ \A i, j \in 1..n : l[i] = l[j] => i = j
  BY ListFacts
<1>3. n = 2
  <2>1. l \in Seq(Texts)
    <3>1. l = [i \in 1..n |-> l[i]]
      <4>1. PICK k \in 2..S!Cardinality(Texts) : l \in [1..k -> Texts]
        <5>1. l \in UNION {[1..k -> Texts] : k \in 2..S!Cardinality(Texts)} BY DEF S!Lists
        <5> QED BY <5>1
      <4> QED BY <1>2, <4>1
    <3> QED BY <1>2, <3>1
  <2> QED BY <1>1, <1>2, <2>1
<1>4. options = {[key |-> 1, text |-> l[1], order |-> 0], [key |-> 2, text |-> l[2], order |-> 1]}
  <2>1. DOMAIN l = {1, 2} BY <1>2, <1>3
  <2> QED BY <1>1, <2>1 DEF S!FirstRows
<1>5. l[1] \in Texts /\ l[2] \in Texts /\ l[1] # l[2] BY <1>2, <1>3
<1> USE DEF S!Init
<1>6. SurveyTyped
  <2>1. options \subseteq RowsUpTo(2) BY <1>4, <1>5 DEF RowsUpTo
  <2> QED BY <2>1 DEF SurveyTyped, Counted
<1>7. FormsTyped BY DEF FormsTyped
<1>8. OneOnly BY FS_EmptySet DEF OneOnly
<1>9. S!OptionsDiffer BY <1>4, <1>5 DEF S!OptionsDiffer, S!OptionKeys
<1>10. Ordered BY <1>4 DEF Ordered
<1> QED BY <1>6, <1>7, <1>8, <1>9, <1>10 DEF SurveySound

(* What a request loads keeps to what the survey allows then.              *)
LEMMA LoadKeeps ==
    ASSUME Counted, SurveySound, NEW r, LoadedForm(r), S!Begin(r)
    PROVE  SurveySound'
<1> USE DEF SurveySound, S!Begin
<1>1. SurveyTyped' BY DEF SurveyTyped, LoadedForm
<1>2. FormsTyped'
  <2>1. \A q \in forms' : q \in forms \/ q = r OBVIOUS
  <2> QED BY <2>1 DEF FormsTyped, LoadedForm, S!Keys, S!Lists
<1>3. OneOnly' BY DEF OneOnly, SurveyTyped, LoadedForm
<1>4. S!OptionsDiffer' BY DEF S!OptionsDiffer, S!OptionKeys
<1>5. Ordered' BY DEF Ordered
<1> QED BY <1>1, <1>2, <1>3, <1>4, <1>5

LEMMA BallotsAreFew ==
    ASSUME Counted, SurveySound, NEW ks \in S!Ballots
    PROVE  ks \subseteq S!Keys /\ (~multiple => Cardinality(ks) <= 1)
<1>1. ks \subseteq S!OptionKeys(options) /\ (multiple \/ Cardinality(ks) <= 1)
  BY SurveyCounts DEF S!Ballots
<1>2. \A o \in options : o.key \in S!Keys
  BY DEF SurveySound, SurveyTyped, RowsUpTo, S!Keys, Counted
<1> QED BY <1>1, <1>2 DEF S!OptionKeys, SurveySound, SurveyTyped

LEMMA VoterBegins ==
    ASSUME Counted, SurveySound, NEW v \in Voters, S!BeginVote(v) \/ S!BeginCustom(v) \/ S!BeginEdit(v)
    PROVE  SurveySound'
<1>0. multiple \in BOOLEAN BY DEF SurveySound, SurveyTyped
<1>1. CASE S!BeginVote(v)
  <2>1. PICK ks \in S!Ballots : S!Begin(S!Request("vote", v, ks, <<>>, multiple))
    BY <1>1 DEF S!BeginVote
  <2>2. LoadedForm(S!Request("vote", v, ks, <<>>, multiple))
    BY <1>0, BallotsAreFew DEF LoadedForm, S!Request
  <2> QED BY <2>1, <2>2, LoadKeeps
<1>2. CASE S!BeginCustom(v)
  <2>1. PICK t \in Texts, ks \in S!Ballots :
          S!Begin(S!Request("custom", v, IF multiple THEN ks ELSE {}, <<t>>, multiple))
    BY <1>2 DEF S!BeginCustom
  <2>2. LoadedForm(S!Request("custom", v, IF multiple THEN ks ELSE {}, <<t>>, multiple))
    BY <1>0 DEF LoadedForm, S!Request
  <2> QED BY <2>1, <2>2, LoadKeeps
<1>3. CASE S!BeginEdit(v)
  <2>1. PICK l \in S!Lists, m \in BOOLEAN : S!Begin(S!Request("edit", v, {}, l, m))
    BY <1>3 DEF S!BeginEdit
  <2>2. LoadedForm(S!Request("edit", v, {}, l, m))
    BY DEF LoadedForm, S!Request
  <2> QED BY <2>1, <2>2, LoadKeeps
<1> QED BY <1>1, <1>2, <1>3

(* The voter's answers become the request's, the others stay.              *)
LEMMA ReplaceFacts ==
    ASSUME SurveySound, NEW v \in Voters, NEW keys, NEW rs, NEW n \in Nat, n >= lastKey,
           \A o \in rs : o.key \in 1..n, options \subseteq rs,
           NEW cast, cast = S!Replace(v, keys, rs)
    PROVE  /\ cast \in [Voters -> SUBSET (1..n)]
           /\ \A u \in Voters : cast[u] \subseteq S!OptionKeys(rs)
           /\ \A u \in Voters : u # v => cast[u] = ballots[u]
           /\ cast[v] = keys \cap S!OptionKeys(rs)
<1> USE DEF SurveySound, S!Replace, S!OptionKeys
<1>1. \A u \in Voters : ballots[u] \subseteq S!OptionKeys(rs) BY DEF S!OptionsDiffer
<1>2. S!OptionKeys(rs) \subseteq 1..n OBVIOUS
<1> HIDE DEF S!OptionKeys
<1> QED BY <1>1, <1>2

LEMMA VoteKeeps ==
    ASSUME Counted, SurveySound, NEW r \in forms, S!FinishVote(r)
    PROVE  SurveySound'
<1> USE DEF SurveySound, S!FinishVote, S!Done
<1>0. r.voter \in Voters /\ lastKey \in Nat BY DEF SurveyTyped
<1>1. /\ ballots' \in [Voters -> SUBSET (1..lastKey)]
      /\ \A u \in Voters : ballots'[u] \subseteq S!OptionKeys(options)
      /\ \A u \in Voters : u # r.voter => ballots'[u] = ballots[u]
      /\ ballots'[r.voter] \subseteq r.keys
  <2>1. \A o \in options : o.key \in 1..lastKey BY DEF SurveyTyped, RowsUpTo
  <2> QED BY <1>0, <2>1, ReplaceFacts
<1>2. SurveyTyped' BY <1>1 DEF SurveyTyped
<1>3. FormsTyped' BY DEF FormsTyped, LoadedForm, S!Keys, S!Lists
<1>4. OneOnly'
  <2> SUFFICES ASSUME ~lenient PROVE \A u \in Voters : Cardinality(ballots'[u]) <= 1
    BY DEF OneOnly
  <2>1. r.keys \subseteq 1..MaxOptions /\ Cardinality(r.keys) <= 1 BY DEF OneOnly, FormsTyped, LoadedForm, S!Keys
  <2>2. Cardinality(ballots'[r.voter]) <= 1 BY <1>1, <2>1, FewStayFew DEF Counted
  <2> QED BY <1>1, <2>2 DEF OneOnly
<1>5. S!OptionsDiffer' BY <1>1 DEF S!OptionsDiffer, S!OptionKeys
<1>6. Ordered' BY DEF Ordered
<1> QED BY <1>2, <1>3, <1>4, <1>5, <1>6

LEMMA CustomKeeps ==
    ASSUME Counted, SurveySound, NEW r \in forms, S!FinishCustom(r)
    PROVE  SurveySound'
<1> USE DEF SurveySound, S!FinishCustom, S!Done
<1> DEFINE last == S!LastOrder(options)
           new == [key |-> lastKey + 1, text |-> r.list[1], order |-> last + 1]
<1>0. r.voter \in Voters /\ lastKey \in Nat /\ lastKey + 1 \in Nat /\ lastKey' = lastKey + 1 BY DEF SurveyTyped
<1>1. last \in 0..(lastKey - 1) /\ \A o \in options : o.order <= last
  <2>1. PICK o \in options : \A p \in options : p.order <= o.order BY DEF Ordered
  <2>2. \E k \in {p.order : p \in options} : \A p \in options : p.order <= k BY <2>1
  <2>3. last \in {p.order : p \in options} /\ \A p \in options : p.order <= last
    BY <2>2 DEF S!LastOrder
  <2> QED BY <2>3 DEF SurveyTyped, RowsUpTo
<1> HIDE DEF last
<1>2. options' = options \cup {new} BY <1>0 DEF last
<1>3. r.list[1] \in Texts /\ \A o \in options : o.text # r.list[1]
  BY DEF FormsTyped, LoadedForm, S!Free, S!OptionTexts
<1>4. new \in RowsUpTo(lastKey + 1) /\ options \subseteq RowsUpTo(lastKey + 1)
  <2>1. last + 1 \in 0..(lastKey + 1 - 1) /\ lastKey + 1 \in 1..(lastKey + 1) BY <1>0, <1>1
  <2>2. \A o \in RowsUpTo(lastKey) : o \in RowsUpTo(lastKey + 1) BY <1>0 DEF RowsUpTo
  <2> QED BY <1>3, <2>1, <2>2 DEF RowsUpTo, SurveyTyped
<1>5. /\ ballots' \in [Voters -> SUBSET (1..(lastKey + 1))]
      /\ \A u \in Voters : ballots'[u] \subseteq S!OptionKeys(options')
      /\ \A u \in Voters : u # r.voter => ballots'[u] = ballots[u]
      /\ ballots'[r.voter] \subseteq r.keys \cup {lastKey + 1}
  <2>1. \A o \in options' : o.key \in 1..(lastKey + 1) BY <1>2, <1>4 DEF RowsUpTo
  <2>2. ballots' = S!Replace(r.voter, r.keys \cup {lastKey + 1}, options') BY <1>0
  <2>3. options \subseteq options' /\ lastKey + 1 >= lastKey BY <1>0, <1>2
  <2>4. /\ ballots' \in [Voters -> SUBSET (1..(lastKey + 1))]
        /\ \A u \in Voters : ballots'[u] \subseteq S!OptionKeys(options')
        /\ \A u \in Voters : u # r.voter => ballots'[u] = ballots[u]
        /\ ballots'[r.voter] = (r.keys \cup {lastKey + 1}) \cap S!OptionKeys(options')
    BY ONLY SurveySound, <1>0, <2>1, <2>2, <2>3, ReplaceFacts
  <2>5. ballots'[r.voter] \subseteq r.keys \cup {lastKey + 1} BY ONLY <2>4
  <2> QED BY ONLY <2>4, <2>5
<1>6. SurveyTyped'
  <2>1. options' \subseteq RowsUpTo(lastKey + 1) BY <1>2, <1>4
  <2>2. lastKey + 1 <= MaxOptions BY <1>0 DEF Counted
  <2> QED BY <1>0, <1>5, <2>1, <2>2 DEF SurveyTyped
<1>7. FormsTyped' BY DEF FormsTyped, LoadedForm, S!Keys, S!Lists
<1>8. OneOnly'
  <2> SUFFICES ASSUME ~lenient PROVE \A u \in Voters : Cardinality(ballots'[u]) <= 1
    BY DEF OneOnly
  <2>1. r.keys = {} BY DEF OneOnly, FormsTyped, LoadedForm
  <2>2. {lastKey + 1} \in SUBSET (1..(lastKey + 1)) /\ Cardinality({lastKey + 1}) <= 1
    <3>1. Cardinality({lastKey + 1}) = 1 BY FS_Singleton
    <3> QED BY <1>0, <3>1
  <2>3. Cardinality(ballots'[r.voter]) <= 1 BY <1>0, <1>5, <2>1, <2>2, FewStayFew
  <2> QED BY <1>5, <2>3 DEF OneOnly
<1>9. S!OptionsDiffer'
  <2>1. \A o \in options : o.key # new.key /\ o.text # new.text /\ o.order # new.order
    <3> SUFFICES ASSUME NEW o \in options PROVE o.key # new.key /\ o.text # new.text /\ o.order # new.order
      OBVIOUS
    <3>1. o.key \in 1..lastKey /\ o.order \in 0..(lastKey - 1) BY DEF SurveyTyped, RowsUpTo
    <3> QED BY <1>0, <1>1, <1>3, <3>1
  <2>2. \A o, p \in options' : o # p => o.key # p.key /\ o.text # p.text /\ o.order # p.order
    BY <1>2, <2>1 DEF S!OptionsDiffer
  <2> QED BY <1>5, <2>2 DEF S!OptionsDiffer, S!OptionKeys
<1>10. Ordered'
  <2>1. \A o \in options' : o.order <= new.order
    <3> SUFFICES ASSUME NEW o \in options' PROVE o.order <= new.order
      OBVIOUS
    <3>1. CASE o \in options
      <4>1. o.order \in 0..(lastKey - 1) BY <3>1 DEF SurveyTyped, RowsUpTo
      <4> QED BY <1>1, <3>1, <4>1
    <3>2. CASE o = new BY <1>1, <3>2
    <3> QED BY <1>2, <3>1, <3>2
  <2> QED BY <1>2, <2>1 DEF Ordered
<1> QED BY <1>6, <1>7, <1>8, <1>9, <1>10

LEMMA EditKeeps ==
    ASSUME Counted, SurveySound, NEW r \in forms, S!FinishEdit(r) \/ S!FinishLateEdit(r)
    PROVE  SurveySound'
<1> USE DEF SurveySound, S!Done
<1>0. r.multiple \in BOOLEAN /\ (~lenient => ~r.multiple) BY DEF FormsTyped, LoadedForm, OneOnly
<1>1. CASE S!FinishLateEdit(r)
  <2> USE <1>1 DEF S!FinishLateEdit
  <2>1. SurveyTyped' BY <1>0 DEF SurveyTyped
  <2>2. FormsTyped' BY DEF FormsTyped, LoadedForm, S!Keys, S!Lists
  <2>3. OneOnly' BY <1>0 DEF OneOnly
  <2>4. S!OptionsDiffer' BY DEF S!OptionsDiffer, S!OptionKeys
  <2>5. Ordered' BY DEF Ordered
  <2> QED BY <2>1, <2>2, <2>3, <2>4, <2>5
<1>2. CASE S!FinishEdit(r)
  <2> USE <1>2 DEF S!FinishEdit
  <2>0. r.list \in S!Lists BY DEF FormsTyped, LoadedForm
  <2>1. /\ lastKey' \in Nat /\ lastKey' >= lastKey /\ options' \subseteq RowsUpTo(lastKey')
        /\ \A o, p \in options' : o # p => o.key # p.key /\ o.text # p.text /\ o.order # p.order
        /\ \E o \in options' : \A p \in options' : p.order <= o.order
    <3>1. /\ options' = S!Renumbered(r.list) \cup S!Created(r.list)
          /\ lastKey' = lastKey + S!Cardinality(S!Missing(r.list))
      OBVIOUS
    <3> QED BY ONLY Counted, SurveyTyped, S!OptionsDiffer, <2>0, <3>1, EditFacts
  <2>2. \A v \in Voters : ballots'[v] = ballots[v] \cap S!OptionKeys(options') OBVIOUS
  <2>3. ballots' \in [Voters -> SUBSET (1..lastKey')]
    <3>1. \A v \in Voters : ballots[v] \cap S!OptionKeys(options') \subseteq 1..lastKey'
      BY <2>1 DEF S!OptionKeys, RowsUpTo
    <3> QED BY <3>1
  <2>4. SurveyTyped' BY <1>0, <2>1, <2>3 DEF SurveyTyped
  <2>5. FormsTyped' BY DEF FormsTyped, LoadedForm, S!Keys, S!Lists
  <2>6. OneOnly'
    <3> SUFFICES ASSUME ~lenient, NEW v \in Voters PROVE Cardinality(ballots'[v]) <= 1
      BY <1>0 DEF OneOnly
    <3>1. ballots[v] \in SUBSET (1..lastKey) /\ lastKey \in Nat /\ Cardinality(ballots[v]) <= 1
      BY DEF OneOnly, SurveyTyped
    <3>2. ballots'[v] \in SUBSET ballots[v] BY <2>2
    <3> QED BY <3>1, <3>2, FewStayFew
  <2>7. S!OptionsDiffer' BY <2>1, <2>2 DEF S!OptionsDiffer, S!OptionKeys
  <2>8. Ordered' BY <2>1 DEF Ordered
  <2> QED BY <2>4, <2>5, <2>6, <2>7, <2>8
<1> QED BY <1>1, <1>2

LEMMA OthersKeep ==
    ASSUME Counted, SurveySound,
           \/ \E r \in forms : S!GiveUp(r)
           \/ S!survey_delete \/ S!Expire \/ \E v \in Voters : S!Leave(v)
    PROVE  SurveySound'
<1> USE DEF SurveySound, S!Done, S!GiveUp, S!survey_delete, S!Expire, S!Leave
<1>1. SurveyTyped' BY DEF SurveyTyped
<1>2. FormsTyped' BY DEF FormsTyped, LoadedForm, S!Keys, S!Lists
<1>3. OneOnly' BY FS_EmptySet DEF OneOnly
<1>4. S!OptionsDiffer' BY DEF S!OptionsDiffer, S!OptionKeys
<1>5. Ordered' BY DEF Ordered
<1> QED BY <1>1, <1>2, <1>3, <1>4, <1>5

LEMMA SurveyStep == Counted /\ SurveySound /\ (S!Next \/ UNCHANGED S!vars) => SurveySound'
<1> SUFFICES ASSUME Counted, SurveySound, S!Next \/ UNCHANGED S!vars PROVE SurveySound'
  OBVIOUS
<1>1. CASE UNCHANGED S!vars
  <2> USE <1>1 DEF S!vars, SurveySound
  <2>1. SurveyTyped' BY DEF SurveyTyped
  <2>2. FormsTyped' BY DEF FormsTyped, LoadedForm, S!Keys, S!Lists
  <2>3. OneOnly' BY DEF OneOnly
  <2>4. S!OptionsDiffer' BY DEF S!OptionsDiffer, S!OptionKeys
  <2>5. Ordered' BY DEF Ordered
  <2> QED BY <2>1, <2>2, <2>3, <2>4, <2>5
<1>2. CASE S!Next
  BY <1>2, VoterBegins, VoteKeeps, CustomKeeps, EditKeeps, OthersKeep DEF S!Next
<1> QED BY <1>1, <1>2

LEMMA SurveySuffices == Counted /\ SurveySound => S!SurveyInvariant
<1> SUFFICES ASSUME Counted, SurveySound PROVE S!SurveyInvariant
  OBVIOUS
<1>1. S!TypeOK
  <2>1. \A n \in 1..lastKey : n \in S!Keys BY DEF SurveySound, SurveyTyped, S!Keys, Counted
  <2>2. options \subseteq [key : S!Keys, text : Texts, order : 0..MaxOptions]
    <3> SUFFICES ASSUME NEW o \in options PROVE o \in [key : S!Keys, text : Texts, order : 0..MaxOptions]
      OBVIOUS
    <3>1. o \in RowsUpTo(lastKey) BY DEF SurveySound, SurveyTyped
    <3>2. o.order \in 0..MaxOptions BY <3>1 DEF SurveySound, SurveyTyped, RowsUpTo, Counted
    <3> QED BY <2>1, <3>1, <3>2 DEF RowsUpTo
  <2>3. ballots \in [Voters -> SUBSET S!Keys] BY <2>1 DEF SurveySound, SurveyTyped
  <2> QED BY <2>2, <2>3 DEF SurveySound, SurveyTyped, S!TypeOK
<1>2. S!OneAnswer BY SurveyCounts DEF SurveySound, OneOnly, S!OneAnswer
<1> QED BY <1>1, <1>2 DEF SurveySound, S!SurveyInvariant

(* The answers of a survey: options differ, and where no request has found *)
(* several answers allowed nobody has two, however votes, own options and  *)
(* edits cross one another; the result of a closed survey is final when    *)
(* the requests that found it open are done.                               *)
THEOREM SurveysAreFair ==
    ASSUME Counted
    PROVE  SiteSpec => S!SurveyIsFair
<1>1. SiteInit => SurveySound
  BY SurveyInit DEF SiteInit
<1>2. [SiteNext]_all => S!Next \/ UNCHANGED S!vars
  BY DEF SiteNext, TaskNext, ChecklistNext, SurveyNext, BookNext, ResourceNext, BoardNext, CalendarNext,
         all, survey, S!vars
<1>3. SurveySound /\ [SiteNext]_all => SurveySound'
  BY <1>2, SurveyStep
<1>4. SurveySound => S!SurveyInvariant
  BY SurveySuffices
<1>5. [SiteNext]_all =>
        [closed /\ forms = {} /\ present' => UNCHANGED <<closed, options, ballots, forms>>]_(S!vars)
  <2> SUFFICES ASSUME S!Next, closed, forms = {}, present'
               PROVE  UNCHANGED <<closed, options, ballots, forms>>
    BY <1>2
  <2> QED BY DEF S!Next, S!BeginVote, S!BeginCustom, S!BeginEdit, S!Leave, S!survey_delete, S!Expire
<1> QED BY <1>1, <1>3, <1>4, <1>5, PTL DEF SiteSpec, S!SurveyIsFair, S!ClosedIsFinal

-----------------------------------------------------------------------------
(* The listings                                                            *)

NamesDiffer == R!Community \notin Members /\ R!Nobody \notin Members /\ MaxListings \in Nat

Listed == [name : Names, author : Members \cup {R!Nobody}, holder : R!Holders, closed : BOOLEAN]

(* Who is named by a listing is there.                                     *)
Remain(entry, left) == entry.author \in left \cup {R!Nobody} /\ entry.holder \notin Members \ left

ListingsTyped ==
    /\ active \subseteq Members /\ lastListing \in Nat /\ lastListing <= MaxListings
    /\ DOMAIN listings \subseteq 1..lastListing
    /\ \A k \in DOMAIN listings : listings[k] \in Listed /\ Remain(listings[k], active)

NoTwoAlike == \A k \in DOMAIN listings : R!Free(k, listings[k])

(* What a request was allowed to do with the row it has loaded.            *)
Permitted ==
    \A r \in pending :
        /\ r.kind \in {"create", "update"} => r.row \in Listed
        /\ r.kind = "update" =>
             /\ r.key \in 1..lastListing /\ R!_can_manage(r.loaded, r.user)
             /\ R!_can_assign(r.loaded, r.user) \/ r.row.holder = r.loaded.holder

ListingsSound == ListingsTyped /\ NoTwoAlike /\ Permitted

LEMMA ListingsInit == ASSUME NamesDiffer PROVE R!Init => ListingsSound
<1> SUFFICES ASSUME R!Init PROVE ListingsSound
  OBVIOUS
<1>1. DOMAIN listings = {} BY DEF R!Init
<1> QED BY <1>1 DEF R!Init, ListingsSound, ListingsTyped, NoTwoAlike, Permitted, NamesDiffer

LEMMA OpenKeeps ==
    ASSUME ListingsSound, NEW r, R!Open(r),
           r.kind \in {"create", "update"} => r.row \in Listed,
           r.kind = "update" =>
             /\ r.key \in 1..lastListing /\ R!_can_manage(r.loaded, r.user)
             /\ R!_can_assign(r.loaded, r.user) \/ r.row.holder = r.loaded.holder
    PROVE  ListingsSound'
<1> USE DEF ListingsSound, R!Open
<1>1. ListingsTyped' BY DEF ListingsTyped, Remain
<1>2. NoTwoAlike' BY DEF NoTwoAlike, R!Free
<1>3. Permitted' BY DEF Permitted, R!_can_manage, R!_can_assign
<1> QED BY <1>1, <1>2, <1>3

LEMMA OpenersKeep ==
    ASSUME NamesDiffer, ListingsSound, NEW u \in active, R!BeginCreate(u) \/ R!BeginUpdate(u) \/ R!BeginOther(u)
    PROVE  ListingsSound'
<1> USE DEF R!Request
<1>0. u \in Members BY DEF ListingsSound, ListingsTyped
<1>1. CASE R!BeginCreate(u)
  <2>1. PICK n \in Names, h \in active \cup {R!Community} :
          R!Open(R!Request("create", u, 0, [name |-> n, author |-> u, holder |-> h, closed |-> FALSE],
                                           [name |-> n, author |-> u, holder |-> h, closed |-> FALSE]))
    BY <1>1 DEF R!BeginCreate
  <2>2. [name |-> n, author |-> u, holder |-> h, closed |-> FALSE] \in Listed
    BY <1>0 DEF Listed, R!Holders, ListingsSound, ListingsTyped
  <2> QED BY <2>1, <2>2, OpenKeeps
<1>2. CASE R!BeginUpdate(u)
  <2>0. PICK k \in DOMAIN listings : \E n \in Names, h \in R!Choices(listings[k], u) :
          /\ R!_can_manage(listings[k], u)
          /\ R!Open(R!Request("update", u, k, listings[k], [listings[k] EXCEPT !.name = n, !.holder = h]))
    BY <1>2 DEF R!BeginUpdate
  <2>1. PICK n \in Names, h \in R!Choices(listings[k], u) :
          /\ R!_can_manage(listings[k], u)
          /\ R!Open(R!Request("update", u, k, listings[k], [listings[k] EXCEPT !.name = n, !.holder = h]))
    BY <2>0
  <2>2. listings[k] \in Listed /\ k \in 1..lastListing /\ active \subseteq Members
    BY DEF ListingsSound, ListingsTyped
  <2> DEFINE entry == [listings[k] EXCEPT !.name = n, !.holder = h]
  <2>3. h \in R!Holders /\ (R!_can_assign(listings[k], u) \/ h = listings[k].holder)
    BY <2>2 DEF R!Choices, R!Holders, Listed
  <2>4. entry \in Listed /\ entry.holder = h BY <2>2, <2>3 DEF Listed
  <2> HIDE DEF entry
  <2>5. R!Open(R!Request("update", u, k, listings[k], entry)) BY <2>1 DEF entry
  <2> QED BY <2>1, <2>2, <2>3, <2>4, <2>5, OpenKeeps
<1>3. CASE R!BeginOther(u)
  <2>1. PICK k \in DOMAIN listings, kind \in {"delete", "close", "open"} :
          R!Open(R!Request(kind, u, k, listings[k], listings[k]))
    BY <1>3 DEF R!BeginOther
  <2> QED BY <2>1, OpenKeeps
<1> QED BY <1>1, <1>2, <1>3

(* A row that passes the constraints is put.                               *)
LEMMA PutKeeps ==
    ASSUME NamesDiffer, ListingsSound, NEW k \in Nat, NEW entry \in Listed,
           R!Put(k, entry), R!Existing(entry), R!Free(k, entry),
           k \in 1..lastListing', lastListing' \in Nat, lastListing <= lastListing', lastListing' <= MaxListings,
           UNCHANGED active, pending' \subseteq pending
    PROVE  ListingsSound'
<1>0. /\ DOMAIN listings' = DOMAIN listings \cup {k} /\ listings'[k] = entry
      /\ \A j \in DOMAIN listings : j # k => listings'[j] = listings[j]
  BY DEF R!Put
<1>1. Remain(entry, active) BY DEF Remain, R!Existing, NamesDiffer, Listed
<1>2. ListingsTyped'
  <2>1. DOMAIN listings' \subseteq 1..lastListing' BY <1>0 DEF ListingsSound, ListingsTyped
  <2>2. \A j \in DOMAIN listings' : listings'[j] \in Listed /\ Remain(listings'[j], active')
    <3> SUFFICES ASSUME NEW j \in DOMAIN listings' PROVE listings'[j] \in Listed /\ Remain(listings'[j], active')
      OBVIOUS
    <3>1. CASE j = k BY <1>0, <1>1, <3>1 DEF Remain
    <3>2. CASE j # k BY <1>0, <3>2 DEF ListingsSound, ListingsTyped, Remain
    <3> QED BY <3>1, <3>2
  <2> QED BY <2>1, <2>2 DEF ListingsSound, ListingsTyped, Remain
<1>3. NoTwoAlike'
  <2> SUFFICES ASSUME NEW i \in DOMAIN listings', listings'[i].holder # R!Nobody,
                      NEW j \in DOMAIN listings', j # i,
                      listings'[j].name = listings'[i].name, listings'[j].holder = listings'[i].holder
               PROVE  FALSE
    BY DEF NoTwoAlike, R!Free
  <2>1. CASE i = k BY <1>0, <2>1 DEF R!Free
  <2>2. CASE j = k BY <1>0, <2>2 DEF R!Free
  <2>3. CASE i # k /\ j # k BY <1>0, <2>3 DEF ListingsSound, NoTwoAlike, R!Free
  <2> QED BY <2>1, <2>2, <2>3
<1>4. Permitted'
  <2>1. \A n \in 1..lastListing : n \in 1..lastListing' BY DEF ListingsSound, ListingsTyped
  <2> QED BY <2>1 DEF ListingsSound, Permitted, R!_can_manage, R!_can_assign
<1> QED BY <1>2, <1>3, <1>4 DEF ListingsSound

LEMMA PuttersKeep ==
    ASSUME NamesDiffer, ListingsSound, NEW r \in pending, R!Create(r) \/ R!Update(r)
    PROVE  ListingsSound'
<1> USE DEF R!Done, R!Insertable
<1>0. r.row \in Listed BY DEF R!Create, R!Update, ListingsSound, Permitted
<1>1. CASE R!Create(r)
  <2>1. /\ lastListing \in Nat /\ lastListing + 1 \in Nat /\ lastListing' = lastListing + 1
        /\ lastListing + 1 \in 1..(lastListing + 1) /\ lastListing + 1 <= MaxListings
    BY <1>1 DEF R!Create, ListingsSound, ListingsTyped, NamesDiffer
  <2>2. R!Free(lastListing + 1, r.row)
    <3>1. 0 \notin DOMAIN listings /\ lastListing + 1 \notin DOMAIN listings
      BY <2>1 DEF ListingsSound, ListingsTyped
    <3> QED BY <1>1, <3>1 DEF R!Create, R!Free
  <2>3. R!Put(lastListing + 1, r.row) /\ R!Existing(r.row) /\ UNCHANGED active /\ pending' \subseteq pending
    BY <1>1 DEF R!Create
  <2> QED BY <1>0, <2>1, <2>2, <2>3, PutKeeps
<1>2. CASE R!Update(r)
  <2>1. /\ lastListing \in Nat /\ lastListing' = lastListing /\ r.key \in 1..lastListing /\ r.key \in Nat
        /\ lastListing <= MaxListings
    BY <1>2 DEF R!Update, ListingsSound, ListingsTyped, Permitted
  <2>2. /\ R!Put(r.key, r.row) /\ R!Existing(r.row) /\ R!Free(r.key, r.row)
        /\ UNCHANGED active /\ pending' \subseteq pending
    BY <1>2 DEF R!Update
  <2> QED BY <1>0, <2>1, <2>2, PutKeeps
<1> QED BY <1>1, <1>2

LEMMA RestKeeps ==
    ASSUME ListingsSound, NEW r \in pending, R!Delete(r) \/ R!SetClosed(r) \/ R!Fail(r)
    PROVE  ListingsSound'
<1> USE DEF R!Done
<1>0. UNCHANGED <<active, lastListing>> /\ pending' \subseteq pending BY DEF R!Delete, R!SetClosed, R!Fail
<1>1. /\ DOMAIN listings' \subseteq DOMAIN listings
      /\ \A k \in DOMAIN listings' :
           /\ listings'[k] \in Listed /\ listings'[k].name = listings[k].name
           /\ listings'[k].author = listings[k].author /\ listings'[k].holder = listings[k].holder
  <2>0. \A k \in DOMAIN listings : listings[k] \in Listed BY DEF ListingsSound, ListingsTyped
  <2>1. CASE R!Delete(r)
    <3>1. listings' = [k \in DOMAIN listings \ {r.key} |-> listings[k]] BY <2>1 DEF R!Delete, R!Restrict
    <3> QED BY <2>0, <3>1
  <2>2. CASE R!SetClosed(r)
    <3>1. PICK shut \in BOOLEAN : listings' = [listings EXCEPT ![r.key].closed = shut]
      BY <2>2 DEF R!SetClosed
    <3>2. r.key \in DOMAIN listings /\ listings[r.key] \in Listed BY <2>0, <2>2 DEF R!SetClosed
    <3>3. DOMAIN listings' = DOMAIN listings BY <3>1
    <3>4. \A k \in DOMAIN listings : k # r.key => listings'[k] = listings[k] BY <3>1
    <3>5. listings'[r.key] = [listings[r.key] EXCEPT !.closed = shut] BY <3>1, <3>2
    <3>6. /\ listings'[r.key] \in Listed /\ listings'[r.key].name = listings[r.key].name
          /\ listings'[r.key].author = listings[r.key].author /\ listings'[r.key].holder = listings[r.key].holder
      BY <3>2, <3>5 DEF Listed
    <3> QED BY <2>0, <3>3, <3>4, <3>6
  <2>3. CASE R!Fail(r) BY <2>0, <2>3 DEF R!Fail
  <2> QED BY <2>1, <2>2, <2>3
<1>2. ListingsTyped'
  <2>1. \A k \in DOMAIN listings' : listings'[k] \in Listed /\ Remain(listings'[k], active')
    BY <1>0, <1>1 DEF ListingsSound, ListingsTyped, Remain
  <2> QED BY <1>0, <1>1, <2>1 DEF ListingsSound, ListingsTyped, Remain
<1>3. NoTwoAlike' BY <1>1 DEF ListingsSound, NoTwoAlike, R!Free
<1>4. Permitted' BY <1>0 DEF ListingsSound, Permitted, R!_can_manage, R!_can_assign
<1> QED BY <1>2, <1>3, <1>4 DEF ListingsSound

LEMMA LeaveKeeps ==
    ASSUME NamesDiffer, ListingsSound, NEW u \in active, R!Leave(u)
    PROVE  ListingsSound'
<1> USE DEF R!Leave
<1>1. /\ DOMAIN listings' = DOMAIN listings /\ active' = active \ {u}
      /\ \A k \in DOMAIN listings :
           /\ listings'[k] \in Listed /\ listings'[k].name = listings[k].name
           /\ listings'[k].author = IF listings[k].author = u THEN R!Nobody ELSE listings[k].author
           /\ listings'[k].holder = IF listings[k].holder = u THEN R!Nobody ELSE listings[k].holder
  <2>1. \A k \in DOMAIN listings : listings[k] \in Listed BY DEF ListingsSound, ListingsTyped
  <2> QED BY <2>1 DEF Listed, R!Holders
<1>2. ListingsTyped'
  <2>1. \A k \in DOMAIN listings' : listings'[k] \in Listed /\ Remain(listings'[k], active')
    <3> SUFFICES ASSUME NEW k \in DOMAIN listings
                 PROVE  Remain(listings'[k], active')
      BY <1>1
    <3>1. Remain(listings[k], active) BY DEF ListingsSound, ListingsTyped
    <3>2. listings'[k].author \in active' \cup {R!Nobody} BY <1>1, <3>1 DEF Remain
    <3>3. listings'[k].holder \notin Members \ active' BY <1>1, <3>1 DEF Remain, NamesDiffer
    <3> QED BY <3>2, <3>3 DEF Remain
  <2>2. active' \subseteq Members BY <1>1 DEF ListingsSound, ListingsTyped
  <2> QED BY <1>1, <2>1, <2>2 DEF ListingsSound, ListingsTyped
<1>3. NoTwoAlike'
  <2>1. \A k \in DOMAIN listings : listings'[k].holder # R!Nobody => listings'[k].holder = listings[k].holder
    BY <1>1
  <2> HIDE DEF R!Leave
  <2> QED BY ONLY <1>1, <2>1, ListingsSound DEF ListingsSound, NoTwoAlike, R!Free
<1>4. Permitted' BY DEF ListingsSound, Permitted, R!_can_manage, R!_can_assign
<1> QED BY <1>2, <1>3, <1>4 DEF ListingsSound

LEMMA ListingsStep == NamesDiffer /\ ListingsSound /\ (R!Next \/ UNCHANGED R!vars) => ListingsSound'
<1> SUFFICES ASSUME NamesDiffer, ListingsSound, R!Next \/ UNCHANGED R!vars PROVE ListingsSound'
  OBVIOUS
<1>1. CASE UNCHANGED R!vars
  BY <1>1 DEF R!vars, ListingsSound, ListingsTyped, Remain, NoTwoAlike, R!Free, Permitted, R!_can_manage, R!_can_assign
<1>2. CASE R!Next
  BY <1>2, OpenersKeep, PuttersKeep, RestKeeps, LeaveKeeps DEF R!Next
<1> QED BY <1>1, <1>2

LEMMA ListingsSuffice == NamesDiffer /\ ListingsSound => R!ListingsDiffer
<1> SUFFICES ASSUME NamesDiffer, ListingsSound PROVE R!ListingsDiffer
  OBVIOUS
<1>1. \A k \in DOMAIN listings :
        listings[k] \in [name : Names, author : active \cup {R!Nobody},
                         holder : R!Holders \ (Members \ active), closed : BOOLEAN]
  BY DEF ListingsSound, ListingsTyped, Listed, Remain
<1> QED BY <1>1 DEF ListingsSound, ListingsTyped, NoTwoAlike, R!ListingsDiffer, NamesDiffer

(* A listing changes hands by an update only, and by right.                *)
HandedOver ==
    \A k \in DOMAIN listings \cap DOMAIN listings' :
        listings'[k].holder \notin {listings[k].holder, R!Nobody} =>
            \E r \in pending \ pending' :
                /\ r.key = k
                /\ \/ R!_can_manage(r.loaded, r.user) /\ r.loaded.holder = listings'[k].holder
                   \/ r.loaded.author = r.user
                   \/ r.loaded.holder = R!Community
                   \/ r.loaded.author = R!Nobody /\ r.loaded.holder = r.user

LEMMA HandedByRight == NamesDiffer /\ ListingsSound /\ R!Next => HandedOver
<1> SUFFICES ASSUME NamesDiffer, ListingsSound, R!Next,
                    NEW k \in DOMAIN listings, k \in DOMAIN listings',
                    listings'[k].holder # listings[k].holder, listings'[k].holder # R!Nobody
             PROVE  \E r \in pending \ pending' :
                      /\ r.key = k
                      /\ \/ R!_can_manage(r.loaded, r.user) /\ r.loaded.holder = listings'[k].holder
                         \/ r.loaded.author = r.user
                         \/ r.loaded.holder = R!Community
                         \/ r.loaded.author = R!Nobody /\ r.loaded.holder = r.user
  BY DEF HandedOver
<1>0. listings[k] \in Listed /\ k \in 1..lastListing /\ lastListing \in Nat BY DEF ListingsSound, ListingsTyped
<1>1. ASSUME NEW u \in active, R!BeginCreate(u) \/ R!BeginUpdate(u) \/ R!BeginOther(u) PROVE FALSE
  BY <1>1 DEF R!BeginCreate, R!BeginUpdate, R!BeginOther, R!Open
<1>2. ASSUME NEW u \in active, R!Leave(u) PROVE FALSE
  <2>1. listings'[k].holder = IF listings[k].holder = u THEN R!Nobody ELSE listings[k].holder
    BY <1>0, <1>2 DEF R!Leave, Listed
  <2> QED BY <2>1
<1>3. ASSUME NEW r \in pending, R!Create(r) PROVE FALSE
  <2>1. k # lastListing + 1 BY <1>0
  <2> QED BY <1>3, <2>1 DEF R!Create, R!Put
<1>4. ASSUME NEW r \in pending, R!Delete(r) \/ R!Fail(r) PROVE FALSE
  BY <1>4 DEF R!Delete, R!Fail, R!Restrict
<1>5. ASSUME NEW r \in pending, R!SetClosed(r) PROVE FALSE
  <2>1. PICK shut \in BOOLEAN : listings' = [listings EXCEPT ![r.key].closed = shut]
    BY <1>5 DEF R!SetClosed
  <2>2. k = r.key => listings'[k] = [listings[k] EXCEPT !.closed = shut] BY <2>1
  <2>3. k # r.key => listings'[k] = listings[k] BY <2>1
  <2> QED BY <1>0, <2>2, <2>3 DEF Listed
<1>6. PICK r \in pending : R!Update(r)
  BY <1>1, <1>2, <1>3, <1>4, <1>5 DEF R!Next
<1>7. r.key = k /\ listings'[k] = r.row
  BY <1>6 DEF R!Update, R!Put
<1>8. r \notin pending' BY <1>6 DEF R!Update, R!Done
<1>9. R!_can_manage(r.loaded, r.user) /\ (R!_can_assign(r.loaded, r.user) \/ r.row.holder = r.loaded.holder)
  BY <1>6 DEF R!Update, ListingsSound, Permitted
<1> QED BY <1>7, <1>8, <1>9 DEF R!_can_assign

(* Nobody, nor the community, holds two listings of a name, however        *)
(* requests cross one another and members leave; and listings change hands *)
(* by right.                                                               *)
THEOREM ListingsAreFair ==
    ASSUME NamesDiffer
    PROVE  SiteSpec => R!ListingsAreFair
<1>1. SiteInit => ListingsSound
  BY ListingsInit DEF SiteInit
<1>2. [SiteNext]_all => R!Next \/ UNCHANGED R!vars
  BY DEF SiteNext, TaskNext, ChecklistNext, SurveyNext, BookNext, ResourceNext, BoardNext, CalendarNext,
         all, resource, R!vars
<1>3. ListingsSound /\ [SiteNext]_all => ListingsSound'
  BY <1>2, ListingsStep
<1>4. ListingsSound => R!ListingsDiffer
  BY ListingsSuffice
<1>5. ListingsSound /\ [SiteNext]_all => [HandedOver]_(R!vars)
  BY <1>2, HandedByRight
<1> QED BY <1>1, <1>3, <1>4, <1>5, PTL DEF SiteSpec, R!ListingsAreFair, R!HandedOverByRight, HandedOver

-----------------------------------------------------------------------------
(* The ledger                                                              *)

Treasury == B!Nobody \notin Treasurers /\ MaxTransactions \in Nat

Entries ==
    [type : {"I", "O"}, entity : Assets, category : Categories, partner : Partners,
     amount : Amounts, author : Treasurers \cup {B!Nobody}]

Asks ==
    [kind : {"create", "claim", "mayUpdate", "update", "delete", "drop"}, user : Treasurers, key : Nat,
     row : Entries \cup {B!NoRow}, ref : B!Rows \cup {"none"}, under : SUBSET Nat, stale : BOOLEAN]

LedgerTyped ==
    /\ bookkeepers \subseteq Treasurers
    /\ rowState \in [B!Rows -> {"new", "present", "deleted"}]
    /\ lastTransaction \in Nat /\ lastTransaction <= MaxTransactions
    /\ DOMAIN ledger \subseteq 1..lastTransaction /\ orphaned \subseteq 1..lastTransaction
    /\ \A k \in DOMAIN ledger : ledger[k] \in Entries

RefsExist == \A k \in DOMAIN ledger : B!Refs(ledger[k]) \subseteq B!Present

(* What a request has checked before it was let in.                        *)
Checked(r) ==
    /\ r \in Asks
    /\ r.kind \in {"create", "mayUpdate"} => r.row \in Entries /\ r.row.author = r.user
    /\ r.kind = "update" => r.row \in Entries
    /\ r.kind \in {"claim", "mayUpdate", "update"} => r.key \in 1..lastTransaction
    /\ r.kind = "delete" => r.row.author = r.user
    /\ r.kind = "drop" => r.under = {}

AsksChecked == \A r \in requestsOpen : Checked(r)

(* A claim that nothing was written after is of a row without an author.   *)
ClaimsAreFresh ==
    \A r \in requestsOpen : r.kind = "claim" /\ ~r.stale /\ r.key \in DOMAIN ledger =>
        ledger[r.key].author = B!Nobody

(* Whose account an edit holds as the author of a transaction, he is that, *)
(* or was when it was deleted; and the author is whoever was let in, if he *)
(* still has an account.  No longer so once an edit has erased the author. *)
Updating(r, crew, lost) ==
    r.kind \in {"mayUpdate", "update"} /\ r.key \notin lost /\ r.row.author \in crew
AuthorsUpdate ==
    /\ \A r \in requestsOpen : Updating(r, bookkeepers, orphaned) /\ r.key \in DOMAIN ledger =>
         ledger[r.key].author = r.row.author
    /\ \A r, q \in requestsOpen :
         Updating(r, bookkeepers, orphaned) /\ Updating(q, bookkeepers, orphaned) /\ r.key = q.key =>
             r.row.author = q.row.author
LoadedAsChecked ==
    \A r \in requestsOpen : r.kind = "update" /\ r.key \notin orphaned /\ r.user \in bookkeepers =>
        r.row.author = r.user

LedgerSound ==
    LedgerTyped /\ RefsExist /\ AsksChecked /\ ClaimsAreFresh /\ AuthorsUpdate /\ LoadedAsChecked

LEMMA LedgerInit == ASSUME Treasury PROVE B!Init => LedgerSound
<1> SUFFICES ASSUME B!Init PROVE LedgerSound
  OBVIOUS
<1>1. DOMAIN ledger = {} BY DEF B!Init
<1>2. PICK new \in Categories : rowState = [v \in B!Rows |-> IF v = new THEN "new" ELSE "present"]
  <2>1. rowState \in {[v \in B!Rows |-> IF v = new THEN "new" ELSE "present"] : new \in Categories}
    BY DEF B!Init
  <2> QED BY <2>1
<1>3. LedgerTyped BY <1>1, <1>2 DEF B!Init, LedgerTyped, Treasury
<1> QED BY <1>1, <1>3 DEF B!Init, LedgerSound, RefsExist, AsksChecked, ClaimsAreFresh, AuthorsUpdate,
                          LoadedAsChecked

-----------------------------------------------------------------------------
(* Requests that begin                                                     *)

LEMMA AskedKeeps ==
    ASSUME LedgerSound, NEW r, B!Open(r), Checked(r),
           r.kind = "claim" => r.key \in DOMAIN ledger /\ ledger[r.key].author = B!Nobody,
           r.kind = "mayUpdate" => r.key \in DOMAIN ledger /\ ledger[r.key].author = r.row.author,
           r.kind # "update"
    PROVE  LedgerSound'
<1> USE DEF LedgerSound, B!Open
<1>1. LedgerTyped' BY DEF LedgerTyped
<1>2. RefsExist' BY DEF RefsExist, B!Present
<1>3. AsksChecked' BY DEF AsksChecked, Checked
<1>4. ClaimsAreFresh' BY DEF ClaimsAreFresh
<1>5. AuthorsUpdate'
  <2>1. \A q \in requestsOpen : Updating(q, bookkeepers, orphaned) /\ q.key \in DOMAIN ledger =>
          ledger[q.key].author = q.row.author
    BY DEF AuthorsUpdate
  <2>2. \A q \in requestsOpen' : q = r \/ q \in requestsOpen OBVIOUS
  <2>3. \A q \in requestsOpen' : Updating(q, bookkeepers, orphaned) /\ q.key \in DOMAIN ledger =>
          ledger[q.key].author = q.row.author
    BY <2>1, <2>2 DEF Updating
  <2>4. \A p, q \in requestsOpen' :
          Updating(p, bookkeepers, orphaned) /\ Updating(q, bookkeepers, orphaned) /\ p.key = q.key =>
              p.row.author = q.row.author
    <3> SUFFICES ASSUME NEW p \in requestsOpen', NEW q \in requestsOpen',
                        Updating(p, bookkeepers, orphaned), Updating(q, bookkeepers, orphaned), p.key = q.key
                 PROVE  p.row.author = q.row.author
      OBVIOUS
    <3>1. CASE p \in requestsOpen /\ q \in requestsOpen BY <3>1 DEF AuthorsUpdate
    <3>2. CASE p = r \/ q = r
      <4>1. p.key \in DOMAIN ledger BY <3>2 DEF Updating
      <4> QED BY <2>3, <4>1
    <3> QED BY <2>2, <3>1, <3>2
  <2> QED BY <2>3, <2>4 DEF AuthorsUpdate
<1>6. LoadedAsChecked' BY DEF LoadedAsChecked
<1> QED BY <1>1, <1>2, <1>3, <1>4, <1>5, <1>6

LEMMA RequestIs ==
    ASSUME NEW kind \in {"create", "claim", "mayUpdate", "update", "delete", "drop"}, NEW u \in Treasurers, NEW k \in Nat,
           NEW entry \in Entries \cup {B!NoRow}, NEW v \in B!Rows \cup {"none"}, B!Under(v) \subseteq Nat
    PROVE  LET r == B!Request(kind, u, k, entry, v)
           IN  /\ r \in Asks /\ r.kind = kind /\ r.user = u /\ r.key = k /\ r.row = entry /\ r.ref = v
               /\ v # "none" => r.under = B!Under(v)
BY DEF B!Request, Asks

LEMMA FormIs ==
    ASSUME NEW f \in B!ValidForms, NEW u \in Treasurers
    PROVE  B!WithAuthor(f, u) \in Entries /\ B!WithAuthor(f, u).author = u
BY DEF B!ValidForms, B!Forms, B!WithAuthor, Entries

LEMMA AskersKeep ==
    ASSUME LedgerSound, NEW u \in bookkeepers,
           B!BeginCreate(u) \/ B!BeginClaim(u) \/ B!BeginUpdate(u) \/ B!BeginDelete(u) \/ B!BeginDrop(u)
    PROVE  LedgerSound'
<1>0. /\ u \in Treasurers /\ \A v : B!Under(v) \subseteq Nat
      /\ \A k \in DOMAIN ledger : k \in 1..lastTransaction /\ k \in Nat /\ ledger[k] \in Entries
  BY DEF LedgerSound, LedgerTyped, B!Under
<1>1. CASE B!BeginCreate(u)
  <2>1. PICK f \in B!ValidForms : B!Open(B!Request("create", u, 0, B!WithAuthor(f, u), "none"))
    BY <1>1 DEF B!BeginCreate
  <2> DEFINE entry == B!WithAuthor(f, u)
             r == B!Request("create", u, 0, entry, "none")
  <2>2. entry \in Entries /\ entry.author = u BY <1>0, FormIs
  <2> HIDE DEF entry
  <2>3. r \in Asks /\ r.kind = "create" /\ r.user = u /\ r.row = entry BY <1>0, <2>2, RequestIs
  <2>4. B!Open(r) BY <2>1 DEF entry
  <2> HIDE DEF r
  <2>5. Checked(r) BY <2>2, <2>3 DEF Checked
  <2> QED BY <2>3, <2>4, <2>5, AskedKeeps
<1>2. CASE B!BeginClaim(u)
  <2>1. PICK k \in DOMAIN ledger :
          ledger[k].author = B!Nobody /\ B!Open(B!Request("claim", u, k, ledger[k], "none"))
    BY <1>2 DEF B!BeginClaim
  <2> DEFINE r == B!Request("claim", u, k, ledger[k], "none")
  <2>2. r \in Asks /\ r.kind = "claim" /\ r.key = k BY <1>0, RequestIs
  <2>3. B!Open(r) BY <2>1
  <2> HIDE DEF r
  <2>4. Checked(r) BY <1>0, <2>2 DEF Checked
  <2> QED BY <2>1, <2>2, <2>3, <2>4, AskedKeeps
<1>3. CASE B!BeginUpdate(u)
  <2>1. PICK k \in DOMAIN ledger :
          ledger[k].author = u /\ B!Open(B!Request("mayUpdate", u, k, ledger[k], "none"))
    BY <1>3 DEF B!BeginUpdate
  <2> DEFINE r == B!Request("mayUpdate", u, k, ledger[k], "none")
  <2>2. r \in Asks /\ r.kind = "mayUpdate" /\ r.user = u /\ r.key = k /\ r.row = ledger[k]
    BY <1>0, RequestIs
  <2>3. B!Open(r) BY <2>1
  <2> HIDE DEF r
  <2>4. Checked(r) BY <1>0, <2>1, <2>2 DEF Checked
  <2> QED BY <2>1, <2>2, <2>3, <2>4, AskedKeeps
<1>4. CASE B!BeginDelete(u)
  <2>1. PICK k \in DOMAIN ledger :
          ledger[k].author = u /\ B!Open(B!Request("delete", u, k, ledger[k], "none"))
    BY <1>4 DEF B!BeginDelete
  <2> DEFINE r == B!Request("delete", u, k, ledger[k], "none")
  <2>2. r \in Asks /\ r.kind = "delete" /\ r.user = u /\ r.row = ledger[k] BY <1>0, RequestIs
  <2>3. B!Open(r) BY <2>1
  <2> HIDE DEF r
  <2>4. Checked(r) BY <2>1, <2>2 DEF Checked
  <2> QED BY <2>2, <2>3, <2>4, AskedKeeps
<1>5. CASE B!BeginDrop(u)
  <2>1. PICK v \in B!Present : B!Under(v) = {} /\ B!Open(B!Request("drop", u, 0, B!NoRow, v))
    BY <1>5 DEF B!BeginDrop
  <2> DEFINE r == B!Request("drop", u, 0, B!NoRow, v)
  <2>2. v \in B!Rows BY DEF B!Present
  <2>3. r.kind = "drop" /\ r.user = u /\ r.key = 0 /\ r.row = B!NoRow /\ r.ref = v /\ r.stale = FALSE
    BY DEF B!Request
  <2>4. r.under = {} BY <2>1 DEF B!Request
  <2>5. r = [kind |-> "drop", user |-> u, key |-> 0, row |-> B!NoRow, ref |-> v,
             under |-> {}, stale |-> FALSE]
    BY <2>1 DEF B!Request
  <2>6. r \in Asks
    <3>1. {} \in SUBSET Nat /\ 0 \in Nat /\ v \in B!Rows \cup {"none"} /\ u \in Treasurers BY <1>0, <2>2
    <3> HIDE DEF r
    <3> QED BY <2>5, <3>1 DEF Asks
  <2>7. B!Open(r) BY <2>1
  <2> HIDE DEF r
  <2>8. Checked(r) BY <2>3, <2>4, <2>6 DEF Checked
  <2> QED BY <2>3, <2>7, <2>8, AskedKeeps
<1> QED BY <1>1, <1>2, <1>3, <1>4, <1>5

(* An edit loads the row anew.                                             *)
LEMMA RowLoaded ==
    ASSUME LedgerSound, NEW r \in requestsOpen, B!LoadUpdate(r)
    PROVE  LedgerSound'
<1> USE DEF LedgerSound
<1>0. /\ r \in Asks /\ r.kind = "mayUpdate" /\ r.key \in DOMAIN ledger /\ r.key \in 1..lastTransaction
      /\ ledger[r.key] \in Entries /\ r.row.author = r.user
  BY DEF B!LoadUpdate, AsksChecked, Checked, LedgerTyped
<1>1. PICK f \in B!ValidForms :
        requestsOpen' = (requestsOpen \ {r}) \cup
            {[r EXCEPT !.kind = "update", !.row = B!WithAuthor(f, ledger[r.key].author)]}
  BY DEF B!LoadUpdate
<1> DEFINE new == [r EXCEPT !.kind = "update", !.row = B!WithAuthor(f, ledger[r.key].author)]
<1>2. /\ new \in Asks /\ new.kind = "update" /\ new.user = r.user /\ new.key = r.key
      /\ new.row \in Entries /\ new.row.author = ledger[r.key].author
  <2>1. /\ B!WithAuthor(f, ledger[r.key].author) \in Entries
        /\ B!WithAuthor(f, ledger[r.key].author).author = ledger[r.key].author
    BY <1>0 DEF B!ValidForms, B!Forms, B!WithAuthor, Entries
  <2> QED BY <1>0, <2>1 DEF Asks
<1> HIDE DEF new
<1>3. \A q \in requestsOpen' : q = new \/ q \in requestsOpen BY <1>1 DEF new
<1>4. UNCHANGED <<bookkeepers, rowState, ledger, orphaned, lastTransaction>> BY DEF B!LoadUpdate
<1>5. LedgerTyped' /\ RefsExist' BY <1>4 DEF LedgerTyped, RefsExist, B!Present
<1>6. AsksChecked' BY <1>0, <1>2, <1>3, <1>4 DEF AsksChecked, Checked
<1>7. ClaimsAreFresh' BY <1>2, <1>3, <1>4 DEF ClaimsAreFresh
<1>8. AuthorsUpdate'
  <2>1. \A q \in requestsOpen' : Updating(q, bookkeepers, orphaned) /\ q.key \in DOMAIN ledger =>
          ledger[q.key].author = q.row.author
    BY <1>2, <1>3 DEF AuthorsUpdate
  <2>2. \A p, q \in requestsOpen' :
          Updating(p, bookkeepers, orphaned) /\ Updating(q, bookkeepers, orphaned) /\ p.key = q.key =>
              p.row.author = q.row.author
    <3> SUFFICES ASSUME NEW p \in requestsOpen', NEW q \in requestsOpen',
                        Updating(p, bookkeepers, orphaned), Updating(q, bookkeepers, orphaned), p.key = q.key
                 PROVE  p.row.author = q.row.author
      OBVIOUS
    <3>1. CASE p \in requestsOpen /\ q \in requestsOpen BY <3>1 DEF AuthorsUpdate
    <3>2. CASE p = new \/ q = new
      <4>1. p.key \in DOMAIN ledger BY <1>0, <1>2, <3>2
      <4> QED BY <2>1, <4>1
    <3> QED BY <1>3, <3>1, <3>2
  <2> QED BY <1>4, <2>1, <2>2 DEF AuthorsUpdate
<1>9. LoadedAsChecked'
  <2>1. ASSUME r.key \notin orphaned, r.user \in bookkeepers PROVE ledger[r.key].author = r.user
    BY <1>0, <2>1 DEF AuthorsUpdate, Updating
  <2> QED BY <1>2, <1>3, <1>4, <2>1 DEF LoadedAsChecked
<1> QED BY <1>5, <1>6, <1>7, <1>8, <1>9

-----------------------------------------------------------------------------
(* Requests that write                                                     *)

(* The requests that stay are as they were, but that the claims have       *)
(* become stale.                                                           *)
LEMMA ClosedAre ==
    ASSUME AsksChecked, NEW rs, B!CloseAll(rs), NEW p \in requestsOpen'
    PROVE  \E q \in requestsOpen \ rs :
             /\ p \in Asks
             /\ p.kind = q.kind /\ p.user = q.user /\ p.key = q.key
             /\ p.row = q.row /\ p.ref = q.ref /\ p.under = q.under
             /\ IF q.kind = "claim" THEN p.stale ELSE p = q
<1>1. PICK q \in requestsOpen \ rs : p = IF q.kind = "claim" THEN [q EXCEPT !.stale = TRUE] ELSE q
  BY DEF B!CloseAll
<1>2. q \in Asks BY DEF AsksChecked, Checked
<1> QED BY <1>1, <1>2 DEF Asks

LEMMA ClosedIsGone ==
    ASSUME AsksChecked, NEW r \in requestsOpen, r.kind # "claim", B!Close(r)
    PROVE  r \notin requestsOpen'
<1> SUFFICES ASSUME r \in requestsOpen' PROVE FALSE
  OBVIOUS
<1>1. PICK q \in requestsOpen \ {r} : r.kind = q.kind /\ (IF q.kind = "claim" THEN r.stale ELSE r = q)
  BY ClosedAre DEF B!Close
<1> QED BY <1>1

LEMMA WritesKeep ==
    ASSUME LedgerSound, NEW rs, B!CloseAll(rs), LedgerTyped', RefsExist',
           bookkeepers' \subseteq bookkeepers, lastTransaction <= lastTransaction', orphaned \subseteq orphaned',
           \A q \in requestsOpen \ rs : Updating(q, bookkeepers', orphaned') /\ q.key \in DOMAIN ledger' =>
               ledger'[q.key].author = q.row.author
    PROVE  LedgerSound'
<1> USE DEF LedgerSound
<1>1. AsksChecked'
  <2> SUFFICES ASSUME NEW p \in requestsOpen' PROVE Checked(p)'
    BY DEF AsksChecked
  <2>1. PICK q \in requestsOpen \ rs :
             /\ p \in Asks
             /\ p.kind = q.kind /\ p.user = q.user /\ p.key = q.key
             /\ p.row = q.row /\ p.ref = q.ref /\ p.under = q.under
    BY ClosedAre
  <2>2. Checked(q) BY DEF AsksChecked
  <2>3. lastTransaction \in Nat /\ lastTransaction' \in Nat /\ 1..lastTransaction \subseteq 1..lastTransaction'
    BY DEF LedgerTyped
  <2> QED BY <2>1, <2>2, <2>3 DEF Checked
<1>2. ClaimsAreFresh'
  <2> SUFFICES ASSUME NEW p \in requestsOpen', p.kind = "claim" PROVE p.stale
    BY DEF ClaimsAreFresh
  <2> QED BY ClosedAre
<1>3. AuthorsUpdate'
  <2>1. \A p \in requestsOpen' : Updating(p, bookkeepers', orphaned') => p \in requestsOpen \ rs
    BY ClosedAre DEF Updating
  <2>2. \A p \in requestsOpen : Updating(p, bookkeepers', orphaned') => Updating(p, bookkeepers, orphaned)
    BY DEF Updating
  <2> QED BY <2>1, <2>2 DEF AuthorsUpdate
<1>4. LoadedAsChecked'
  <2>1. \A p \in requestsOpen' : p.kind = "update" => p \in requestsOpen BY ClosedAre
  <2> QED BY <2>1 DEF LoadedAsChecked
<1> QED BY <1>1, <1>2, <1>3, <1>4

(* An update that another write leaves alone.                              *)
LEMMA UpdatersAre ==
    ASSUME LedgerSound, NEW q \in requestsOpen, Updating(q, bookkeepers, orphaned)
    PROVE  q.key \in 1..lastTransaction /\ (q.key \in DOMAIN ledger => ledger[q.key].author = q.row.author)
BY DEF LedgerSound, AuthorsUpdate, AsksChecked, Checked, Updating

LEMMA RecordKeeps ==
    ASSUME Treasury, LedgerSound, NEW r \in requestsOpen, B!Create(r)
    PROVE  LedgerSound'
<1> USE DEF B!Create
<1>0. lastTransaction \in Nat /\ r.row \in Entries
  BY DEF LedgerSound, LedgerTyped, AsksChecked, Checked
<1>1. /\ DOMAIN ledger' = DOMAIN ledger \cup {lastTransaction + 1}
      /\ ledger'[lastTransaction + 1] = r.row
      /\ \A k \in DOMAIN ledger : k # lastTransaction + 1 /\ ledger'[k] = ledger[k]
  BY <1>0 DEF LedgerSound, LedgerTyped
<1>2. LedgerTyped'
  <2>1. /\ lastTransaction' \in Nat /\ lastTransaction' <= MaxTransactions
        /\ DOMAIN ledger' \subseteq 1..lastTransaction'
    BY <1>0, <1>1 DEF LedgerSound, LedgerTyped, Treasury
  <2>3. orphaned' \subseteq 1..lastTransaction'
    <3>1. orphaned' = orphaned /\ lastTransaction' = lastTransaction + 1 OBVIOUS
    <3>2. orphaned \subseteq 1..lastTransaction BY DEF LedgerSound, LedgerTyped
    <3> QED BY <1>0, <3>1, <3>2
  <2>2. \A k \in DOMAIN ledger' : ledger'[k] \in Entries BY <1>0, <1>1 DEF LedgerSound, LedgerTyped
  <2> QED BY <2>1, <2>2, <2>3 DEF LedgerSound, LedgerTyped
<1>3. RefsExist' BY <1>1 DEF LedgerSound, RefsExist, B!Intact, B!Present
<1>4. \A q \in requestsOpen \ {r} : Updating(q, bookkeepers', orphaned') /\ q.key \in DOMAIN ledger' =>
        ledger'[q.key].author = q.row.author
  BY <1>0, <1>1, UpdatersAre
<1>5. /\ lastTransaction <= lastTransaction' /\ bookkeepers' = bookkeepers /\ orphaned' = orphaned
      /\ B!CloseAll({r})
  BY <1>0 DEF B!Close
<1> HIDE DEF B!Create
<1> QED BY <1>2, <1>3, <1>4, <1>5, WritesKeep

LEMMA ClaimKeeps ==
    ASSUME Treasury, LedgerSound, NEW r \in requestsOpen, B!Claim(r)
    PROVE  LedgerSound'
<1> USE DEF B!Claim
<1>0. r.key \in DOMAIN ledger /\ ledger[r.key] \in Entries /\ ledger[r.key].author = B!Nobody /\ r.user \in Treasurers
  BY DEF LedgerSound, LedgerTyped, ClaimsAreFresh
<1>1. /\ DOMAIN ledger' = DOMAIN ledger
      /\ ledger'[r.key] = [ledger[r.key] EXCEPT !.author = r.user]
      /\ \A k \in DOMAIN ledger : k # r.key => ledger'[k] = ledger[k]
  BY <1>0
<1>2. ledger'[r.key] \in Entries /\ B!Refs(ledger'[r.key]) = B!Refs(ledger[r.key])
  BY <1>0, <1>1 DEF Entries, B!Refs
<1>3. LedgerTyped' BY <1>1, <1>2 DEF LedgerSound, LedgerTyped
<1>4. RefsExist' BY <1>1, <1>2 DEF LedgerSound, RefsExist, B!Present
<1>5. \A q \in requestsOpen \ {r} : Updating(q, bookkeepers', orphaned') /\ q.key \in DOMAIN ledger' =>
        ledger'[q.key].author = q.row.author
  <2> SUFFICES ASSUME NEW q \in requestsOpen, Updating(q, bookkeepers, orphaned), q.key \in DOMAIN ledger
               PROVE  q.key # r.key
    BY <1>1, UpdatersAre
  <2>1. ledger[q.key].author = q.row.author BY UpdatersAre
  <2>2. q.row.author \in Treasurers BY DEF LedgerSound, LedgerTyped, Updating
  <2> QED BY <1>0, <2>1, <2>2 DEF Treasury
<1>6. lastTransaction \in Nat BY DEF LedgerSound, LedgerTyped
<1> QED BY <1>3, <1>4, <1>5, <1>6, WritesKeep DEF B!Close

LEMMA UpdateKeeps ==
    ASSUME LedgerSound, NEW r \in requestsOpen, B!Update(r)
    PROVE  LedgerSound'
<1> USE DEF B!Update
<1>0. /\ r.row \in Entries /\ r.key \in 1..lastTransaction /\ r.row.author \in bookkeepers \cup {B!Nobody}
      /\ orphaned \subseteq orphaned' /\ orphaned' \subseteq orphaned \cup {r.key}
      /\ r.row.author = B!Nobody => r.key \in orphaned'
  BY DEF LedgerSound, AsksChecked, Checked, B!Intact
<1>1. /\ DOMAIN ledger' = DOMAIN ledger \cup {r.key} /\ ledger'[r.key] = r.row
      /\ \A k \in DOMAIN ledger : k # r.key => ledger'[k] = ledger[k]
  OBVIOUS
<1>2. LedgerTyped' BY <1>0, <1>1 DEF LedgerSound, LedgerTyped
<1>3. RefsExist' BY <1>1 DEF LedgerSound, RefsExist, B!Intact, B!Present
<1>4. \A q \in requestsOpen \ {r} : Updating(q, bookkeepers', orphaned') /\ q.key \in DOMAIN ledger' =>
        ledger'[q.key].author = q.row.author
  <2> SUFFICES ASSUME NEW q \in requestsOpen, Updating(q, bookkeepers, orphaned'), q.key \in DOMAIN ledger'
               PROVE  ledger'[q.key].author = q.row.author
    OBVIOUS
  <2>0. Updating(q, bookkeepers, orphaned) BY <1>0 DEF Updating
  <2>1. CASE q.key = r.key
    <3>1. Updating(r, bookkeepers, orphaned) BY <1>0, <2>1 DEF Updating
    <3> QED BY <1>1, <2>0, <2>1, <3>1 DEF LedgerSound, AuthorsUpdate
  <2>2. CASE q.key # r.key BY <1>1, <2>0, <2>2, UpdatersAre
  <2> QED BY <2>1, <2>2
<1>5. lastTransaction \in Nat BY DEF LedgerSound, LedgerTyped
<1>6. /\ B!CloseAll({r}) /\ bookkeepers' \subseteq bookkeepers
      /\ lastTransaction <= lastTransaction' /\ orphaned \subseteq orphaned'
  BY <1>0, <1>5 DEF B!Close
<1> HIDE DEF B!Update
<1> QED BY <1>2, <1>3, <1>4, <1>6, WritesKeep

(* The rows a write leaves are as they were.                               *)
LEMMA RemovalsKeep ==
    ASSUME LedgerSound, NEW r \in requestsOpen, NEW gone,
           ledger' = [k \in DOMAIN ledger \ gone |-> ledger[k]], B!Close(r),
           UNCHANGED <<bookkeepers, orphaned, lastTransaction>>,
           rowState' \in [B!Rows -> {"new", "present", "deleted"}], RefsExist'
    PROVE  LedgerSound'
<1>1. LedgerTyped' BY DEF LedgerSound, LedgerTyped
<1>2. \A q \in requestsOpen \ {r} : Updating(q, bookkeepers', orphaned') /\ q.key \in DOMAIN ledger' =>
        ledger'[q.key].author = q.row.author
  BY UpdatersAre
<1>3. lastTransaction \in Nat BY DEF LedgerSound, LedgerTyped
<1> QED BY <1>1, <1>2, <1>3, WritesKeep DEF B!Close

LEMMA DeleteKeeps ==
    ASSUME LedgerSound, NEW r \in requestsOpen, B!Delete(r)
    PROVE  LedgerSound'
<1> USE DEF B!Delete
<1>1. ledger' = [k \in DOMAIN ledger \ {r.key} |-> ledger[k]] BY DEF B!Restrict
<1>2. RefsExist' BY <1>1 DEF LedgerSound, RefsExist, B!Present
<1>3. rowState' \in [B!Rows -> {"new", "present", "deleted"}] BY DEF LedgerSound, LedgerTyped
<1> QED BY <1>1, <1>2, <1>3, RemovalsKeep

LEMMA DropKeeps ==
    ASSUME LedgerSound, NEW r \in requestsOpen, B!Drop(r)
    PROVE  LedgerSound'
<1> USE DEF B!Drop
<1>1. ledger' = [k \in DOMAIN ledger \ B!Under(r.ref) |-> ledger[k]] BY DEF B!Restrict
<1>2. rowState' \in [B!Rows -> {"new", "present", "deleted"}] BY DEF LedgerSound, LedgerTyped
<1>3. \A v \in B!Present \ {r.ref} : v \in B!Present'
  <2>0. rowState \in [B!Rows -> {"new", "present", "deleted"}] BY DEF LedgerSound, LedgerTyped
  <2> QED BY <2>0 DEF B!Present
<1>4. RefsExist'
  <2> SUFFICES ASSUME NEW k \in DOMAIN ledger' PROVE B!Refs(ledger'[k]) \subseteq B!Present'
    BY DEF RefsExist
  <2>1. k \in DOMAIN ledger /\ k \notin B!Under(r.ref) /\ ledger'[k] = ledger[k] BY <1>1
  <2>2. r.ref \notin B!Refs(ledger[k]) BY <2>1 DEF B!Under
  <2>3. B!Refs(ledger[k]) \subseteq B!Present BY <2>1 DEF LedgerSound, RefsExist
  <2> QED BY <1>3, <2>1, <2>2, <2>3
<1> QED BY <1>1, <1>2, <1>4, RemovalsKeep

LEMMA AccountGoes ==
    ASSUME LedgerSound, NEW u \in bookkeepers, B!Leave(u)
    PROVE  LedgerSound'
<1> USE DEF B!Leave
<1>0. lastTransaction \in Nat BY DEF LedgerSound, LedgerTyped
<1>1. /\ DOMAIN ledger' = DOMAIN ledger /\ bookkeepers' = bookkeepers \ {u}
      /\ \A k \in DOMAIN ledger :
           /\ ledger'[k] \in Entries /\ B!Refs(ledger'[k]) = B!Refs(ledger[k])
           /\ ledger[k].author # u => ledger'[k] = ledger[k]
  <2>1. \A k \in DOMAIN ledger : ledger[k] \in Entries BY DEF LedgerSound, LedgerTyped
  <2> QED BY <2>1 DEF Entries, B!Refs
<1>2. LedgerTyped' BY <1>1 DEF LedgerSound, LedgerTyped
<1>3. RefsExist' BY <1>1 DEF LedgerSound, RefsExist, B!Present
<1>4. \A q \in requestsOpen \ {} : Updating(q, bookkeepers', orphaned') /\ q.key \in DOMAIN ledger' =>
        ledger'[q.key].author = q.row.author
  <2> SUFFICES ASSUME NEW q \in requestsOpen, Updating(q, bookkeepers', orphaned), q.key \in DOMAIN ledger
               PROVE  ledger'[q.key].author = q.row.author
    BY <1>1
  <2>1. Updating(q, bookkeepers, orphaned) /\ q.row.author # u BY <1>1 DEF Updating
  <2>2. ledger[q.key].author = q.row.author BY <2>1, UpdatersAre
  <2> QED BY <1>1, <2>1, <2>2
<1>5. /\ B!CloseAll({}) /\ lastTransaction <= lastTransaction' /\ bookkeepers' \subseteq bookkeepers
      /\ orphaned' = orphaned
  BY <1>0, <1>1
<1> HIDE DEF B!Leave
<1> QED BY <1>2, <1>3, <1>4, <1>5, WritesKeep

LEMMA RowComes ==
    ASSUME LedgerSound, B!CreateRow
    PROVE  LedgerSound'
<1>0. lastTransaction \in Nat BY DEF LedgerSound, LedgerTyped
<1>1. PICK v \in B!Rows : rowState' = [rowState EXCEPT ![v] = "present"]
  BY DEF B!CreateRow
<1>2. UNCHANGED <<bookkeepers, ledger, orphaned, lastTransaction>> /\ B!CloseAll({}) BY DEF B!CreateRow
<1>3. LedgerTyped' BY <1>1, <1>2 DEF LedgerSound, LedgerTyped
<1>4. B!Present \subseteq B!Present' BY <1>1 DEF LedgerSound, LedgerTyped, B!Present
<1>5. RefsExist' BY <1>2, <1>4 DEF LedgerSound, RefsExist
<1>6. \A q \in requestsOpen \ {} : Updating(q, bookkeepers', orphaned') /\ q.key \in DOMAIN ledger' =>
        ledger'[q.key].author = q.row.author
  BY <1>2, UpdatersAre
<1> QED BY <1>0, <1>2, <1>3, <1>5, <1>6, WritesKeep

LEMMA RefusalKeeps ==
    ASSUME LedgerSound, NEW r \in requestsOpen, B!Fail(r)
    PROVE  LedgerSound'
BY DEF B!Fail, LedgerSound, LedgerTyped, RefsExist, B!Present, AsksChecked, Checked, ClaimsAreFresh, AuthorsUpdate,
       LoadedAsChecked

LEMMA LedgerStep == Treasury /\ LedgerSound /\ (B!Next \/ UNCHANGED B!vars) => LedgerSound'
<1> SUFFICES ASSUME Treasury, LedgerSound, B!Next \/ UNCHANGED B!vars PROVE LedgerSound'
  OBVIOUS
<1>1. CASE UNCHANGED B!vars
  BY <1>1 DEF B!vars, LedgerSound, LedgerTyped, RefsExist, B!Present, AsksChecked, Checked, ClaimsAreFresh,
              AuthorsUpdate, LoadedAsChecked
<1>2. CASE \E u \in bookkeepers :
             B!BeginCreate(u) \/ B!BeginClaim(u) \/ B!BeginUpdate(u) \/ B!BeginDelete(u) \/ B!BeginDrop(u)
  BY <1>2, AskersKeep
<1>3. CASE \E u \in bookkeepers : B!Leave(u) BY <1>3, AccountGoes
<1>4. CASE B!CreateRow BY <1>4, RowComes
<1>5. CASE \E r \in requestsOpen : B!LoadUpdate(r) \/ B!Create(r) \/ B!Claim(r) \/ B!Update(r)
  BY <1>5, RowLoaded, RecordKeeps, ClaimKeeps, UpdateKeeps
<1>6. CASE \E r \in requestsOpen : B!Delete(r) \/ B!Drop(r) \/ B!Fail(r)
  BY <1>6, DeleteKeeps, DropKeeps, RefusalKeeps
<1> QED BY <1>1, <1>2, <1>3, <1>4, <1>5, <1>6 DEF B!Next

LEMMA LedgerSuffices == Treasury /\ LedgerSound => B!LedgerInvariant
<1> SUFFICES ASSUME Treasury, LedgerSound PROVE B!LedgerInvariant
  OBVIOUS
<1>1. lastTransaction \in 0..MaxTransactions BY DEF LedgerSound, LedgerTyped, Treasury
<1>2. B!TypeOK BY <1>1 DEF LedgerSound, LedgerTyped, Entries, B!TypeOK
<1> QED BY <1>2 DEF LedgerSound, RefsExist, B!LedgerInvariant

-----------------------------------------------------------------------------
(* Who decides about a transaction                                         *)

Decided ==
    \A k \in DOMAIN ledger :
        IF k \in DOMAIN ledger'
        THEN \/ ledger[k].author \in bookkeepers' => ledger'[k].author = ledger[k].author
             \/ B!Erased(k)
        ELSE B!GoesByRight(k)

LEMMA AuthorsAlwaysDecide == Treasury /\ LedgerSound /\ B!Next => Decided
<1> SUFFICES ASSUME Treasury, LedgerSound, B!Next PROVE Decided
  OBVIOUS
<1>0. AsksChecked /\ bookkeepers \subseteq Treasurers /\ lastTransaction \in Nat
  BY DEF LedgerSound, LedgerTyped
<1>1. ASSUME NEW u \in bookkeepers,
             B!BeginCreate(u) \/ B!BeginClaim(u) \/ B!BeginUpdate(u) \/ B!BeginDelete(u) \/ B!BeginDrop(u)
      PROVE  Decided
  BY <1>1 DEF B!BeginCreate, B!BeginClaim, B!BeginUpdate, B!BeginDelete, B!BeginDrop, B!Open, Decided
<1>2. ASSUME NEW u \in bookkeepers, B!Leave(u) PROVE Decided
  BY <1>2 DEF B!Leave, Decided
<1>3. CASE B!CreateRow BY <1>3 DEF B!CreateRow, Decided
<1>4. ASSUME NEW r \in requestsOpen, B!Create(r) PROVE Decided
  <2>1. \A k \in DOMAIN ledger : k # lastTransaction + 1 BY <1>0 DEF LedgerSound, LedgerTyped
  <2> QED BY <1>4, <2>1 DEF B!Create, Decided
<1>5. ASSUME NEW r \in requestsOpen, B!Claim(r) PROVE Decided
  <2>1. /\ r.kind = "claim" /\ ~r.stale /\ r.key \in DOMAIN ledger /\ bookkeepers' = bookkeepers
        /\ ledger' = [ledger EXCEPT ![r.key].author = r.user]
    BY <1>5 DEF B!Claim
  <2>2. ledger[r.key].author = B!Nobody BY <2>1 DEF LedgerSound, ClaimsAreFresh
  <2>3. ledger[r.key].author \notin bookkeepers' BY <1>0, <2>1, <2>2 DEF Treasury
  <2> QED BY <2>1, <2>3 DEF Decided
<1>6. ASSUME NEW r \in requestsOpen, B!Update(r) PROVE Decided
  <2>1. /\ r.kind = "update" /\ r.row.author \in bookkeepers \cup {B!Nobody} /\ bookkeepers' = bookkeepers
        /\ ledger' = [k \in DOMAIN ledger \cup {r.key} |-> IF k = r.key THEN r.row ELSE ledger[k]]
        /\ B!Close(r)
    BY <1>6 DEF B!Update, B!Intact
  <2>2. r \in requestsOpen \ requestsOpen' BY <1>0, <2>1, ClosedIsGone
  <2>3. CASE r.key \in orphaned \/ (r.row.author = B!Nobody /\ r.user \notin bookkeepers)
    <3>1. B!Erased(r.key) BY <2>1, <2>2, <2>3 DEF B!Erased, B!Ended
    <3> QED BY <2>1, <3>1 DEF Decided
  <2>4. CASE r.key \notin orphaned /\ (r.row.author # B!Nobody \/ r.user \in bookkeepers)
    <3>1. r.row.author \in bookkeepers BY <2>1, <2>4 DEF LedgerSound, LoadedAsChecked
    <3>2. Updating(r, bookkeepers, orphaned) BY <2>1, <2>4, <3>1 DEF Updating
    <3>3. r.key \in DOMAIN ledger => ledger[r.key].author = r.row.author BY <3>2, UpdatersAre
    <3> QED BY <2>1, <3>3 DEF Decided
  <2> QED BY <2>3, <2>4
<1>7. ASSUME NEW r \in requestsOpen, B!Delete(r) PROVE Decided
  <2>1. /\ r.kind = "delete" /\ B!Close(r)
        /\ ledger' = [k \in DOMAIN ledger \ {r.key} |-> ledger[k]]
    BY <1>7 DEF B!Delete, B!Restrict
  <2>2. r \in requestsOpen \ requestsOpen' BY <1>0, <2>1, ClosedIsGone
  <2>3. r.row.author = r.user BY <1>0, <2>1 DEF AsksChecked, Checked
  <2>4. B!GoesByRight(r.key) BY <2>1, <2>2, <2>3 DEF B!GoesByRight, B!Ended
  <2> QED BY <2>1, <2>4 DEF Decided
<1>8. ASSUME NEW r \in requestsOpen, B!Drop(r) PROVE Decided
  <2>1. /\ r.kind = "drop" /\ B!Close(r) /\ (r.ref \in Assets => B!Under(r.ref) = {})
        /\ ledger' = [k \in DOMAIN ledger \ B!Under(r.ref) |-> ledger[k]]
    BY <1>8 DEF B!Drop, B!Restrict
  <2>2. r \in requestsOpen \ requestsOpen' BY <1>0, <2>1, ClosedIsGone
  <2>3. r.under = {} BY <1>0, <2>1 DEF AsksChecked, Checked
  <2>4. \A k \in B!Under(r.ref) : B!GoesByRight(k) BY <2>1, <2>2, <2>3 DEF B!GoesByRight, B!Ended
  <2> QED BY <2>1, <2>4 DEF Decided
<1>9. ASSUME NEW r \in requestsOpen, B!Fail(r) \/ B!LoadUpdate(r) PROVE Decided
  BY <1>9 DEF B!Fail, B!LoadUpdate, Decided
<1> QED BY <1>1, <1>2, <1>3, <1>4, <1>5, <1>6, <1>7, <1>8, <1>9 DEF B!Next

(* Every transaction refers to a category, a partner and an asset that are *)
(* there, it keeps its author whoever claims or updates it, unless an edit *)
(* that outlived the account of its own author erases it, and it goes only *)
(* by right.                                                               *)
THEOREM LedgerIsFairToAuthors ==
    ASSUME Treasury
    PROVE  SiteSpec => B!LedgerIsFair
<1>1. SiteInit => LedgerSound
  BY LedgerInit DEF SiteInit
<1>2. [SiteNext]_all => B!Next \/ UNCHANGED B!vars
  BY DEF SiteNext, TaskNext, ChecklistNext, SurveyNext, BookNext, ResourceNext, BoardNext, CalendarNext,
         all, book, B!vars
<1>3. LedgerSound /\ [SiteNext]_all => LedgerSound'
  BY <1>2, LedgerStep
<1>4. LedgerSound => B!LedgerInvariant
  BY LedgerSuffices
<1>5. LedgerSound /\ [SiteNext]_all => [Decided]_(B!vars)
  BY <1>2, AuthorsAlwaysDecide
<1> QED BY <1>1, <1>3, <1>4, <1>5, PTL DEF SiteSpec, B!LedgerIsFair, B!AuthorsDecide, Decided

(* The three registers that requests write behind what they have checked   *)
(* are fair: surveys, the ledger, and the listings.                        *)
THEOREM RequestsAreAlwaysFair ==
    ASSUME Counted, Treasury, NamesDiffer
    PROVE  SiteSpec => RequestsAreFair
<1>1. SiteSpec => S!SurveyIsFair BY SurveysAreFair
<1>2. SiteSpec => B!LedgerIsFair BY LedgerIsFairToAuthors
<1>3. SiteSpec => R!ListingsAreFair BY ListingsAreFair
<1> QED BY <1>1, <1>2, <1>3 DEF RequestsAreFair
=============================================================================
