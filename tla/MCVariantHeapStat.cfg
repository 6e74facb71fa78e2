SPECIFICATION Spec
CONSTANTS
  Wrapper = {w1, w2}
  Root = {r1, r2}
  Index = {1}
  PlainType = {"number"}
  SizedType = {"string"}
  ContainerType = {"array"}
  NativeType = {"native"}
  Payload = {0, 1}
  UsedConstant = {"v_null"}
  MaxReserved = 1
  None = None
SYMMETRY Symmetry
CONSTRAINT Drift
INVARIANTS TypeOK ReserveSound TotalsExact
