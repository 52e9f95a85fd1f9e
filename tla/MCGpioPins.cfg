CONSTANTS
  DataWords <- MCWords
  ByteSelects <- MCSelects
  Moving = {16, 21}
  Pins = {10, 14, 16, 21}
SPECIFICATION Spec
INVARIANTS TypeOK PadsAsProgrammed
PROPERTIES PadMovesByOwner
