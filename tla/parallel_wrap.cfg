SPECIFICATION Spec
CONSTANTS
  Mode = "blocks"
  Start = 2
  End = 6
  BlockSize = 2
  NumThreads = 2
  Modulus = 8
  Progress = "none"
INVARIANT OnlyRangeCalled
