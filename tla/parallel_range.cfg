SPECIFICATION FairSpec
CONSTANTS
  NumItems = 3
  NumThreads = 3
  ReturnsBool = TRUE
INVARIANTS EachItemOnce IInv
PROPERTIES StopsEarly Returns ImplementsFind
