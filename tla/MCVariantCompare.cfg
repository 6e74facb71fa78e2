SPECIFICATION TextSpec
CONSTANTS
  Value <- MCValue
  Depth = 3
  Fold <- MCFold
  Spell <- MCSpell
  AtomString <- MCAtomString
  Epsilon = 8
  Infinity = 99
  InlineBytes = 2
  StringNumber <- MCStringNumber
  ParsedNumber <- MCStringNumber
  Rounded <- MCRounded
  Empty = 1
  Newline = 2
  Colon = 14
  ByteBase = 4
  LongBytes = 2
  Getter <- MCGetter
  UniqueKeys <- MCUniqueKeys
INVARIANTS Swaps ZeroIsEqual Transitive DiffOrders EqualSubstitutes
CHECK_DEADLOCK FALSE
