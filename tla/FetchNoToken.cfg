SPECIFICATION Spec
CONSTANTS
  MaxCalls = 2
  Fires = {f1}
  MaxErrors = 1
  Timeout = 1
INVARIANT
  CheckIsUnconditional
CHECK_DEADLOCK FALSE
