SPECIFICATION FairSpec
CONSTANTS
  NodeNum = {1, 2}
  MaxConn = 2
INVARIANTS
  TypeOK
  IdentityIsCopied
  CaptureAgrees
PROPERTIES
  HandlersEnd
CHECK_DEADLOCK FALSE
