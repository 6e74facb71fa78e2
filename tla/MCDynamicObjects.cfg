SPECIFICATION DvobjSpec
CONSTANTS
  Wrapper = {"w1", "w2", "w3"}
  Root = {r1, r2}
  Index = {1}
  PlainType = {}
  SizedType = {}
  ContainerType = {"object"}
  NativeType = {"native"}
  Payload = {0}
  UsedConstant = {}
  MaxReserved = 0
  None = None
  Library = {"l1", "l2"}
  Entry = {"l1"}
  Name = {"plain", "path"}
  Qualified = {"path"}
  EnvDirs <- MCEnvDirs
  Absolute = {"/opt", "/srv"}
  SystemDirs <- MCSystemDirs
  Installed <- MCInstalled
  MaxOpens = 2
  MaxCalls = 2
ACTION_CONSTRAINT OfLibraries
INVARIANT UnloadedLast
