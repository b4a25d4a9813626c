SPECIFICATION SessionSpec
CONSTANTS
  Words = 5
  Null = Null
  ResetPc = 0
  IrqVector = 4
  Programs <- Guests
  StoredWord <- Stored
  BreakAddrs <- BreakHere
  IcountWidth = 1
  BreakTypes <- TwoTypes
INVARIANT RemovalFinds
CHECK_DEADLOCK FALSE
