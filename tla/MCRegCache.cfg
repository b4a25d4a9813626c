SPECIFICATION Spec
CONSTANTS
  Reg = {GR00, GR01, PC, PNEXT_PC}
  GR00 = GR00
  PC = PC
  PNEXT_PC = PNEXT_PC
  Value = {v0, v1, v2}
  zero = v0
  Null = Null
INVARIANTS TypeOK CleanIsCurrent
PROPERTIES ImplementsRegFile
