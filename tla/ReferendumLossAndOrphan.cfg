\* One vote lost with Redis, one left behind by a failed request.
SPECIFICATION Spec
CONSTANTS
    ann = ann
    bob = bob
    annYes = annYes
    annNo = annNo
    bobNo = bobNo
    Voters <- MCVoters
    Requests <- MCRequests
    VoterOf <- MCVoterOf
    ChoiceOf <- MCChoiceOf
    EarlyRequests <- NoEarly
    MaxAttempts = 2
    MayOverlap = FALSE
    MaxRequestFaults = 1
    MaxCommandFaults = 0
    MaxRedisRestarts = 1
    MaxWindows = 2
INVARIANT TallyFaithful
\* Every request answered and the referendum decided: nothing is left to do.
CHECK_DEADLOCK FALSE
