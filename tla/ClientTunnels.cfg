\* Two tunnels in three versions, one of them refused by the client itself.
CONSTANTS
    Names = {1, 2}
    Versions = {1, 2, 3}
    Unfit = {3}
    MaxReloads = 2
    MaxBreaks = 1
SPECIFICATION Spec
CHECK_DEADLOCK FALSE
INVARIANTS
    
    MissingWasReported
PROPERTIES
    SuccessIsTrue
