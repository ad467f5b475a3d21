SPECIFICATION CiSpec
CONSTANTS
    CiTasks = {t, u}
    CiOld = old
    CiKeys = {k}
    CiRecords = 1
    CiNone = none
    CiUsers = {{"keys"}, {"tunnels"}}
SYMMETRY CiSymmetry
CHECK_DEADLOCK FALSE
INVARIANTS
    
    CiDisplayTrue
PROPERTIES
    CiChoiceHonoured
