SPECIFICATION Spec
CONSTANTS
  c1 = c1
  c2 = c2
  nonce = nonce
  r1 = r1
  r2 = r2
  configOnly = configOnly
  dbOnly = dbOnly
  noId = noId
  Client = {c1, c2}
  Node = {1, 2}
  ConfigId = {nonce}
  ConfigOnly = configOnly
  DbOnly = dbOnly
  NoId = noId
  Refresher = {}
  Preamble <- OnePreamble
  Responsive = {}
  MaxBroadcast = 2
  UplinkMax = 0
INVARIANTS
  TypeOK
  NoGap
  SameStream
PROPERTIES
  ImplementsLog
