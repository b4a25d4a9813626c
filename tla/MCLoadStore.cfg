SPECIFICATION Spec
CONSTANTS
  ByteBits = 1
  NWords = 2
  ImmBits = 3
  LowBits = 2
  PutChar = 12
  Exit = 14
  Images <- MCImages
  Bases <- MCBases
  Values <- MCValues
  MaxAccesses = 2
  None = None
INVARIANT LoadsBytes
PROPERTIES StoresBytes SpillReload
CHECK_DEADLOCK FALSE
