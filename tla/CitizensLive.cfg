\* A group of two, one of whom may stay away for long, in which requests of every kind
\* overlap the command.
SPECIFICATION FairSpec
CONSTANTS
    People = {Ada, Ben}
    Founders = {Ada}
    Acceptance = 1
    WelcomePost = TRUE
    Leavers = {Ben}
    Sleepers = {Ben}
    Overlapping = {"signup", "rating", "profile", "username", "cancel"}
    MaxRatings = 1
    MaxOpens = 1
    MaxCrashes = 1
PROPERTY Settles
PROPERTY EligibleAreAdmitted
