SPECIFICATION SessionSpec
CONSTANTS
  Words = 5
  Null = Null
  ResetPc = 0
  IrqVector = 4
  Programs <- Guests
  StoredWord <- Stored
  BreakAddrs <- BreakHere
  IcountWidth = 1
  BreakTypes <- OneType
INVARIANTS SessionTypeOK RunIsAcknowledged BreakpointsAgree ViewIsCurrent RunMoves
PROPERTIES Answered
CHECK_DEADLOCK FALSE
