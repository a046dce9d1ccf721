\* The command breaks off once.
SPECIFICATION Spec
CONSTANTS
    People = {Ada, Ben, Cyd}
    Founders = {Ada}
    Acceptance = 1
    WelcomePost = TRUE
    Leavers = {}
    Sleepers = {}
    Overlapping = {}
    MaxRatings = 2
    MaxOpens = 0
    MaxCrashes = 1
PROPERTY FirmAreSpared
