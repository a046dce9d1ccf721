---------------------------- MODULE MCReferendum ----------------------------
(***************************************************************************)
(* Small instances of Referendum for TLC: two citizens, three requests.    *)
(* Ann votes yes and, in a second request, no; Bob votes no.               *)
(***************************************************************************)
EXTENDS Referendum

CONSTANTS ann, bob, annYes, annNo, bobNo

MCVoters    == {ann, bob}
MCRequests  == {annYes, annNo, bobNo}
MCVoterOf   == [r \in MCRequests |-> IF r = bobNo THEN bob ELSE ann]
MCChoiceOf  == [r \in MCRequests |-> r = annYes]
NoEarly     == {}
BobEarly    == {bobNo}
=============================================================================
