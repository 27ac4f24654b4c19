SPECIFICATION LibrarySpec
CONSTANTS
  Byte = {1, 2}
  Junk = junk
  MiniCap = 2
  MaxSize = 4
  MaxPush = 2
  Base = 4
  Word = 512
  Values = {0, 1, 3, 4, 15, 16, 63, 64, 255, 256, 511}
  Names = {1, 2}
  Actions = {x}
  Numbers = {7}
  MaxActs = 2
  MaxUid = 2
  Messages <- MCMessages
  MaxPiece = 30
  MinHead = 6
  MaxHead = 6
INVARIANTS MachineSound FramingSound JsonSound
PROPERTY BufferSound
CHECK_DEADLOCK FALSE
