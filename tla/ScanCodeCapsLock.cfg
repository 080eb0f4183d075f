SPECIFICATION ScanSpec
CONSTANTS
  PlainKeys <- MCLockKeys
  ExtendedKeys <- MCExtendedKeys
  WireSize = 4
  LockIsShift = TRUE
INVARIANTS
  CharactersAsTyped
