SPECIFICATION FairSpec
CONSTANTS
  Capacity = 2
  MaxOut <- MCMaxOut
  NoInput = NoInput
  Sizes <- MCSizes
  Timeouts = {TRUE, FALSE}
INVARIANTS IInv CallIsSafe
PROPERTIES Returns ImplementsCall
