SPECIFICATION Spec
CONSTANTS
  Containers = {c, d}
  Keys = {k1, k2, k3}
  Sizes = {1, 5}
  Modulus = 8
  Null = Null
INVARIANTS TotalIsSum IInv
PROPERTY ImplementsOrder
SYMMETRY Symmetry
