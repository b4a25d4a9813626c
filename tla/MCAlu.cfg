SPECIFICATION MCSpec
CONSTANTS
  Width = 4
  XLEN = 16
  ImmBits = 6
  None = None
  Samples <- RvSamples
  PcSamples <- RvPcSamples
INVARIANTS TypeOK ResultIsMnemonic FlagIsComparison CarryInIsZeroOrThree BranchSelects SoundExactly LeadsThere
PROPERTY FlagsPrivate
CHECK_DEADLOCK FALSE
