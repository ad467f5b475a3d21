\* Reloads, a fault, a kick and a stop, for a client with an agent id
\* and a token.
CONSTANTS
    Conns = {x, y}
    Tunnels = {t, u}
    Reqs = {r1, r2}
    MaxAttempts = 3
    MaxFaults = 1
    MaxKicks = 1
    MaxSecs = 1
    WithAgent = TRUE
    WithToken = TRUE
    Stops = TRUE
    HangsUp = TRUE
    None = None
SPECIFICATION Spec
SYMMETRY MCSymmetry
CHECK_DEADLOCK FALSE
INVARIANTS
    ServiceConsistent
    RejectionHasCause
PROPERTIES
    KickedReturnsByReload
