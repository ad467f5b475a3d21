\* Three logins over two sessions that compete for one agent, a kick
\* and a data connection.
CONSTANTS
    Controls = {c1, c2, c3}
    s1 = s1
    s2 = s2
    a1 = a1
    Sids = {s1, s2}
    Agents = {a1}
    Logins <- MCSharedAgent
    Kicked = {s1}
    Dialed = {s1}
    NoAgent = NoAgent
    None = None
SPECIFICATION Spec
SYMMETRY MCSymmetry
INVARIANTS
    AcceptingIsCurrent
    GatesSound
    OnlineAgentHasControl
    LookupFinds
