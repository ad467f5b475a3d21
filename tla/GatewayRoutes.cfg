\* Two sessions, two names, four requests on two hosts, one visitor.
CONSTANTS
    Controls = {c1, c2}
    Names = {"m", "n"}
    Visitors = {v}
    NewTunnels <- MCNewTunnels
    Heads <- MCHeads
    Root <- MCRoot
    Star = {"*"}
    Long = {}
    Gateways = {"http", "https"}
    NoControl = NoControl
    NoRoute = NoRoute
    NoCred = NoCred
    NoText = NoText
SPECIFICATION Spec
SYMMETRY MCSymmetry
CHECK_DEADLOCK FALSE
INVARIANTS
    RoutesFollowTunnels
    LookupIsRight
PROPERTIES
    NotFoundIsTrue
