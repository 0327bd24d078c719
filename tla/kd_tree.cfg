SPECIFICATION Spec
CONSTANTS
  Node = {n1, n2, n3, n4}
  Null = Null
  Dimensions = 2
  Points <- MCPoints
  Values = {v}
INVARIANTS TreeIsSearchable
PROPERTIES ImplementsBag
SYMMETRY Symmetry
