SPECIFICATION Spec
CONSTANT Width = 4
INVARIANT FlagsAsCommented
CHECK_DEADLOCK FALSE
