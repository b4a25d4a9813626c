SPECIFICATION Spec
CONSTANTS
  Parcels = 8
  Null = Null
  Parcel <- SmallParcel
  Decode <- SmallDecode
  ResetPc = 0
  Programs <- Guests
  Stored <- StoredPair
  BreakAddrs <- EvenBreaks
  IcountWidth = 3
INVARIANTS TypeOK BreakpointHonoured FollowsProgram IcountExact
CHECK_DEADLOCK FALSE
