SPECIFICATION Spec
CONSTANTS
  Wrapper = {w1, w2, w3, w4}
  MaxReserved = 3
  NULL = NULL
INVARIANTS CountSound NoDoubleFree
PROPERTY ImplementsPool
