\* Faults of every kind, then the daily command goes on.
SPECIFICATION FairSpec
CONSTANTS
    ann = ann
    bob = bob
    annYes = annYes
    annNo = annNo
    bobNo = bobNo
    Voters <- MCVoters
    Requests <- MCRequests
    VoterOf <- MCVoterOf
    ChoiceOf <- MCChoiceOf
    EarlyRequests <- BobEarly
    MaxAttempts = 2
    MayOverlap = FALSE
    MaxRequestFaults = 1
    MaxCommandFaults = 1
    MaxRedisRestarts = 2
    MaxWindows = 2
INVARIANT FaultInvariant
PROPERTY Resolved
PROPERTY BufferReleased
PROPERTY RequestsAnswered
\* Every request answered and the referendum decided: nothing is left to do.
CHECK_DEADLOCK FALSE
