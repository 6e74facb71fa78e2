SPECIFICATION Spec
CONSTANTS
  Wrapper = {w1, w2, w3}
  Root = {r1, r2}
  Index = {1}
  PlainType = {"number"}
  SizedType = {"string"}
  ContainerType = {"array"}
  NativeType = {"native"}
  Payload = {0}
  UsedConstant = {}
  MaxReserved = 2
  None = None
SYMMETRY Symmetry
CONSTRAINT Drift
INVARIANTS RefcExact NoDangling NoLeak
PROPERTIES NeverRevived ImplementsPool
