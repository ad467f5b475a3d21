\* Two sessions compete for two names and one tcp port; either may be replaced by a
\* login or kicked, and the kick may be cancelled.
CONSTANTS
    Controls = {c1, c2}
    Names = {a, b}
    PortKeys = {k}
    UdpKeys = {}
    Trim <- MCTrimNothing
    Callers = {"login", "kick"}
    NoControl = NoControl
    NoName = NoName
    NoKey = NoKey
SPECIFICATION Spec
SYMMETRY MCControlSymmetry
INVARIANTS
    TablesAgree
    Exclusive
    TcpPortFreeToBind
    LeakHasCause
PROPERTY
    ImplementsLeases
