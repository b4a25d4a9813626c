SPECIFICATION Spec
CONSTANTS
  Words = 7
  Null = Null
  ResetPc = 0
  IrqVector = 5
  Programs <- LivePrograms
  StoredWord <- Stored
  BreakAddrs <- BreakAtVector
  IcountWidth = 1
PROPERTIES HandlerEntered
CHECK_DEADLOCK FALSE
