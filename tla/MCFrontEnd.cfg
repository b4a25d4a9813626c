SPECIFICATION Spec
CONSTANTS
  Ports = 2
  MaxPackets = 2
  Commands <- MCCommands
  Payloads <- MCPayloads
  Replies <- MCReplies
  Noise <- MCNoise
INVARIANTS TypeOK ExecutesWhatWasSent CheckWouldTell ReplyVerifies IrqFollowsLine
PROPERTIES GivesUpOnlyWhenRefused Serves
CHECK_DEADLOCK FALSE
