\* A udp tunnel is closed while it asks for a data connection.
CONSTANTS
    Users = {u, w}
    Cancellable = {w}
    PoolCount = 1
    Cap = 2
    MaxFaults = 0
SPECIFICATION Spec
INVARIANTS
    KeepsControlUp
CHECK_DEADLOCK FALSE
