CONSTANTS
  Subjects = {1, 2}
  Conns = {1, 2, 3}
  Messages = {1, 2}
  Attempts = {1, 2, 3}
  Keys = {1, 2}
  None = None
  Owner <- MCOwner
  Route <- MCRoute
  MaxConnections = 1
  FallbackCooldown = 1
  QueueSize = 1
  MaxTime = 1
  recentMessageLimit = 1
  MaxSends = 3
  MaxFaults = 1
SPECIFICATION ChatSpec
CHECK_DEADLOCK FALSE
INVARIANTS SeatsAreBounded StoredMeansStored
PROPERTIES UnseatedIsClosed NothingIsMissed EveryAttemptIsAnswered
