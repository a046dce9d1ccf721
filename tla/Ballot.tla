------------------------------- MODULE Ballot -------------------------------
(***************************************************************************)
(* What one referendum of Wikikracja promises its voters, whatever the     *)
(* storage behind it does: a ballot is cast at once or not at all, no      *)
(* citizen casts two, a poll is either decided by every ballot cast in it  *)
(* or started again from an empty box, and a decided poll stays decided.   *)
(* Referendum, the detailed specification of the web request, the Redis    *)
(* buffer and the vote command, is shown to implement this one.            *)
(***************************************************************************)
CONSTANTS Requests,   \* ballots that may be cast
          Voters,     \* citizens
          VoterOf,    \* the citizen behind each ballot
          Carried(_)  \* do these ballots carry the motion?

VARIABLES box,        \* the ballots cast in the current poll
          present,    \* citizens whose account exists
          phase,      \* "open", "closed", "approved", "rejected" or "abolished"
          result      \* the ballots the decision rests on

ballotVars == <<box, present, phase, result>>

BallotInit ==
    /\ box \subseteq Requests
    /\ present = Voters
    /\ phase = "open"
    /\ result = {}

(* A citizen who has no ballot in the box casts one: views._cast_vote.     *)
Cast(r) ==
    /\ phase \in {"open", "closed"}
    /\ VoterOf[r] \in present
    /\ \A q \in box : VoterOf[q] # VoterOf[r]
    /\ box' = box \cup {r}
    /\ UNCHANGED <<present, phase, result>>

Close ==
    /\ phase = "open"
    /\ phase' = "closed"
    /\ UNCHANGED <<box, present, result>>

(* The vote command gives the poll up and everybody votes again.           *)
PollAgain ==
    /\ phase = "closed"
    /\ phase' = "open"
    /\ box' = {}
    /\ UNCHANGED <<present, result>>

(* The vote command decides the motion by every ballot in the box.         *)
Decide ==
    /\ phase = "closed"
    /\ phase' = IF Carried(box) THEN "approved" ELSE "rejected"
    /\ result' = box
    /\ UNCHANGED <<box, present>>

(* Another approved motion repeals this one (its znosi field names it).    *)
Repeal ==
    /\ phase # "abolished"
    /\ phase' = "abolished"
    /\ UNCHANGED <<box, present, result>>

Leave(v) ==
    /\ present' = present \ {v}
    /\ UNCHANGED <<box, phase, result>>

BallotNext ==
    \/ \E r \in Requests : Cast(r)
    \/ Close
    \/ PollAgain
    \/ Decide
    \/ Repeal
    \/ \E v \in Voters : Leave(v)

BallotSpec == BallotInit /\ [][BallotNext]_ballotVars
=============================================================================
