SPECIFICATION ScanSpec
CONSTANTS
  PlainKeys <- MCBothShifts
  ExtendedKeys <- MCExtendedKeys
  WireSize = 4
  LockIsShift = FALSE
INVARIANTS
  CharactersAsTyped
