CONSTANTS
  Attempts = {1, 2}
  Keys = {1, 2}
  None = None
  KeyOf <- MCKeyOf
  MaxFaults = 0
SPECIFICATION Spec
CHECK_DEADLOCK FALSE
INVARIANTS RetryReturnsTheStoredMessage
