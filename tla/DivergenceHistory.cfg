SPECIFICATION HSpec
CONSTANTS
  Bits = {b1, b2}
  MaxUniqueHashes = 3
  SliceLimit = 5
INVARIANTS
  HTypeOK
  DeterministicIffAllAgree
  FirstDivergenceIsEarliest
  UniqueHashesAreCounted
CHECK_DEADLOCK FALSE
