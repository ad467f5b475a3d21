SPECIFICATION MCSpec
CONSTANTS
  MaxRuns = 2
  Stoppers = {p, q}
  DkNames = {a, b}
  DkDefs = {1, 0}
  DkInvalid = {0}
  DkOdd = {2}
  DkPlain = 1
  DkServers = {s}
  DkDefault = home
  DkIds = {1, 2, 3, 4, 5}
  DkMaxStops = 2
  DkMaxSaves = 2
  DkNone = none
  DkTorn = torn
  TcWindow = 2
  TcTypes = {tcp, udp}
  TcConns = {c, d}
  TcLastUnit = 3
  TcMaxBytes = 1
  TcNone = none
  RpSkew = 1
  RpMaxEntries = 2
  RpStamps = {1, 2, 3}
  RpFirst = 2
  RpLast = 7
SYMMETRY MCSymmetry
CHECK_DEADLOCK FALSE
INVARIANTS
    RunsSound
    
    
    
    

    
