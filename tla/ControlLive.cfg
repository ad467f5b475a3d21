\* Two logins over two sessions and a kick; one session with udp tunnels; one reload
\* and one fault.
CONSTANTS
    Controls = {c1, c2}
    s1 = s1
    s2 = s2
    a1 = a1
    Sids = {s1, s2}
    Agents = {a1}
    Logins <- MCLoginPairs
    Kicked = {s1}
    Dialed = {}
    NoAgent = NoAgent
    None = None
    SlControls = {d}
    SlKeys = {k}
    CsConns = {x, y}
    CsTunnels = {t}
    CsReqs = {r1}
SPECIFICATION MCSpec
CHECK_DEADLOCK FALSE
PROPERTIES
    
    
    ReloadAnswered
    ComesBack
