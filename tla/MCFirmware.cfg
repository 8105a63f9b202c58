SPECIFICATION Spec

CONSTANTS
  BufferSize = 2
  MaxLength = 2
  MaxNoise = 1
  ByteValues = 7
  MaxChanges = 3

INVARIANTS
  Transferred
  SwitchIsKnown

PROPERTIES
  CallsReturn
  PollsAnswered
  SwitchGetsKnown

CHECK_DEADLOCK FALSE
