SPECIFICATION Spec
CONSTANTS
  Capacity = 1
  MaxOut <- MCMaxOut
  Sizes = {0, 2}
  Timeouts = {TRUE, FALSE}
INVARIANT TimedOutOnlyLate
CHECK_DEADLOCK FALSE
