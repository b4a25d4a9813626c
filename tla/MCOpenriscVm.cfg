SPECIFICATION Spec
CONSTANTS
  Words = 7
  Null = Null
  ResetPc = 0
  IrqVector = 5
  Programs <- SafetyPrograms
  StoredWord <- Stored
  BreakAddrs <- BreakHere
  IcountWidth = 4
INVARIANTS TypeOK BreakpointHonoured CodeWasInMemory ResumesWhereItStopped IcountExact
PROPERTIES StepRunsMemory HandlerEntered ImplementsOr1k
CHECK_DEADLOCK FALSE
