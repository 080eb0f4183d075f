SPECIFICATION ScanSpec
CONSTANTS
  PlainKeys <- MCPlainKeys
  ExtendedKeys <- MCExtendedKeys
  WireSize = 4
  LockIsShift = FALSE
INVARIANTS
  CharactersAsTyped
