SPECIFICATION FairSpec
CONSTANTS
  c1 = c1
  c2 = c2
  nonce = nonce
  r1 = r1
  r2 = r2
  configOnly = configOnly
  dbOnly = dbOnly
  noId = noId
  Client = {c1}
  Node = {1}
  ConfigId = {configOnly, dbOnly}
  ConfigOnly = configOnly
  DbOnly = dbOnly
  NoId = noId
  Refresher = {r1}
  Preamble <- ShortPreamble
  Responsive = {c1}
  MaxBroadcast = 1
  UplinkMax = 1
INVARIANTS
  ThrottledWasAnswered
  RefreshedAfterCapture
  AnsweredIsConfigured
PROPERTIES
  
  RequestAnswered
  RefreshEnds
