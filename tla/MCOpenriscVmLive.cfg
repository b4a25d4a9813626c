SPECIFICATION Spec
CONSTANTS
  Words = 7
  Null = Null
  ResetPc = 0
  IrqVector = 5
  Programs <- LivePrograms
  StoredWord <- Stored
  BreakAddrs <- BreakOne
  IcountWidth = 1
PROPERTIES IrqAccepted
CHECK_DEADLOCK FALSE
