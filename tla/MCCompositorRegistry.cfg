SPECIFICATION Spec
CONSTANTS
  fallback = fallback
  default = default
  long = long
  cut = cut
  F = F
  D = D
  A = A
  Slots = 3
  Name = {fallback, default, long, cut}
  Ops = {F, D, A}
  Ctxt = {c1, c2}
  Window = {w}
  Menu = {m}
  Layer = {near, far}
  near = near
  LayerOf <- MCLayerOf
  FallbackName = fallback
  DefaultName = default
  FallbackOps = F
  Unreliable = {D, A}
  Purges <- MCPurges
  Stored <- MCStored
  NULL = NULL
INVARIANTS TypeOK OwnContext OneContext CurrentRegistered FallbackStays
PROPERTY DataHasOwner
CHECK_DEADLOCK FALSE
