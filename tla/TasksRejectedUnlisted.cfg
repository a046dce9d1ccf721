\* A task that is voted down.
SPECIFICATION Spec
CONSTANTS
    Users = {ann, bob}
    Creator = ann
    TeamSizes = {1}
    MaxSteps = 3
    MaxOpens = 1
INVARIANT RejectedAreListed
CHECK_DEADLOCK FALSE
