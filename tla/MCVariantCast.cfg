SPECIFICATION Spec
CONSTANTS
  INT32_MAX = 3
  INT64_MAX = 15
  Halves <- MCHalves
  NumberHalves <- MCNumberHalves
  Disguised = {3}
  Parsed = {0, 2, 9, 40}
  Bad = bad
INVARIANTS ForceAgrees ExactUnforced ForcedClamps
