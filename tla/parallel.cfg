SPECIFICATION FairSpec
CONSTANTS
  Mode = "parallel"
  Start = 1
  End = 4
  BlockSize = 1
  NumThreads = 3
  Modulus = 16
  Progress = "noop"
INVARIANTS EachValueOnce OnlyRangeCalled IInv
PROPERTIES StopsPromptly Returns ImplementsFind
