CONSTANTS
  Users = {u1}
  Calls = {c1, c2}
  None = None
  MaxTokens = 3
  MaxChanges = 1
  MaxFaults = 1
  Senders = {c1, c2}
  Guessers = {d1, d2}
  verificationMaxAttempts = 2
  emailDailyLimit = 1
  MaxCodes = 2
  Logins = {c1, c2, l}
  passwordMaxFailures = 3
  MaxGuesses = 9
  Compilers = {c1, c2}
  Operators = {d1, d2}
  Never = Never
  MaxTime = 1
  MaxRestrictions = 2
  Accounts = {"u1"}
  Strange = "strange"
  Kinds = {"read", "sort"}
  Clients = {k1}
  Limit = 2
  Window = 2
  MaxClock = 5
  Servers = {a1, a2}
  Seeders = {d}
  Messages = {m1, m2}
  Demo = m0
  Batch = 1
  MaxDeaths = 1
  Partitions = {0, 1}
  Workers = {w1}
  MaxOffset = 2
  Orders = 2
  Payments = 1
  MaxInflight = 2
  MaxStock = 2
  MaxListings = 4
  CodesOfProfile = 104
  Percents = {25, 30, 99}
  Durations = {1, 2, 3}
  Tallies = {0, 1, 2, 98, 197}
  MaxSubmits = 3
  MaxSockets = 3
  MaxTimers = 4
SPECIFICATION ComponentsSpec
SYMMETRY Symmetry
CHECK_DEADLOCK FALSE
INVARIANTS
  ComponentsTypeOK SlotsNameTheSessions TokensRotateOnce RevokedSessionsStayGone
  SingleUse AttemptsAreBounded PermissionsAreTrue GrantsAreJustified
  AdmissionsAreBounded StartedIsReady SamplesAreSound TheReportAddsUp
  ProfileIsSound PagesTellTheTruth
PROPERTIES RestrictionsLast AlarmsAreReal
