SPECIFICATION MCSpec
CONSTANTS
  Users = {u, w}
  Cancellable = {w}
  PoolCount = 1
  Cap = 1
  MaxFaults = 1
  UfVisitors = {v, w}
  UfSockets = {1, 2, 3}
  UfNone = none
  UtConns = {1, 2, 3}
  UtMaxFaults = 2
  LcProcs = {p, q}
  LcNobody = none
  LcMaxStarts = 4
  BlBurst = 3
  BlMaxChunk = 2
  BlReaders = {r}
  BlWriters = {w}
  LvMaxLogLines = 3
  LvMaxPending = 2
  LvLast = 4
  LvMaxEpoch = 2
  LvQueries = {"", "q"}
CHECK_DEADLOCK FALSE
INVARIANTS
    WholeMessages
    PoolSound
    UfSound
    UtSound
    LcSound
    BlSound
    LvSound
PROPERTIES
    BlIsBucket
    WaitsEnd
