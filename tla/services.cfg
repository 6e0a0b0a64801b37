CONSTANTS
  Nodes = {0, 1}
  NodeSpan = 2
  SequenceSpan = 2
  Epoch = 1
  Horizon = 2
  MaxClock = 3
  MaxRollback = 3
  MaxIds = 4
  ConsecutiveSamples = 2
  Cooldown = 3
  MaxSamples = 6
  Readers = {c1, c2}
  MaxStock = 2
  MaxLapses = 1
  Logins = {l1}
  Operators = {o1, o2}
  Never = Never
  MaxTime = 1
  None = None
  MaxChanges = 2
  MaxFaults = 1
  Orders = 1
  Payments = 1
  MaxInflight = 1
SPECIFICATION ServicesSpec
CHECK_DEADLOCK FALSE
INVARIANTS IdsAreSortedAndUnique CacheIsSound
PROPERTIES AlertsKeepTheirDistance RecoveryIsTold StaleViewEnds CallsEnd RunEnds
