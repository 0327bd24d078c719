SPECIFICATION Spec
CONSTANTS
  Containers = {c, d}
  Keys = {k1, k2}
  Sizes = {1, 3}
  Modulus = 4
  Values = {v, w}
  Null = Null
INVARIANTS TotalIsSum IInv
PROPERTIES ImplementsOrder
SYMMETRY Symmetry
