SPECIFICATION Spec
CONSTANTS
  listed = listed
  stranger = stranger
  entry = entry
  MaxPacket = 2
  Payload <- Payloads
  Noise <- SmallNoise
  MaxFrames = 3
  MaxNoise = 1
  Localhost = {}
  AllowAdmin = {entry}
  Network <- Networks
  Absent = {"Routing.request_id"}
  Meaning <- Meanings
  Ip = {listed, stranger}
  MyNodeNum = 7
  QueueMax = 1
INVARIANT
  RemovalIntercepted
