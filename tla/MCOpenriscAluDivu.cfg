SPECIFICATION Spec
CONSTANT Width = 4
INVARIANT DivisorIsRB
CHECK_DEADLOCK FALSE
