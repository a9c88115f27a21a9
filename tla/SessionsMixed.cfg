SPECIFICATION Spec
CONSTANTS
  c1 = c1
  c2 = c2
  nonce = nonce
  r1 = r1
  r2 = r2
  configOnly = configOnly
  dbOnly = dbOnly
  noId = noId
  Client = {c1}
  Node = {}
  ConfigId = {nonce}
  ConfigOnly = configOnly
  DbOnly = dbOnly
  NoId = noId
  Refresher = {r1}
  Preamble <- FullPreamble
  Responsive = {}
  MaxBroadcast = 0
  UplinkMax = 0
PROPERTIES
  StreamInOrder
