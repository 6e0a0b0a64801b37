CONSTANTS
  Users = {u1}
  Calls = {c1}
  None = None
  MaxTokens = 1
  MaxChanges = 1
  MaxFaults = 1
SPECIFICATION Spec
SYMMETRY Symmetry
CHECK_DEADLOCK FALSE
INVARIANTS BootstrapLeavesNoOrdinarySession
