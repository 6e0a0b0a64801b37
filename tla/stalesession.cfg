CONSTANTS
  Users = {u1}
  Calls = {c1, c2}
  None = None
  MaxTokens = 1
  MaxChanges = 1
  MaxFaults = 0
SPECIFICATION Spec
SYMMETRY Symmetry
CHECK_DEADLOCK FALSE
INVARIANTS ChangesForceFreshState
