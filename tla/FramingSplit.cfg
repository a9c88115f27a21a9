SPECIFICATION FramingSpec
CONSTANTS
  MaxPacket = 2
  Payload <- SmallPayload
  Noise <- SmallNoise
  MaxFrames = 3
  MaxNoise = 2
CHECK_DEADLOCK FALSE
INVARIANTS
  NoFrameLost
