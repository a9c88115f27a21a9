SPECIFICATION FairSpec
CONSTANTS
  t1 = t1
  t2 = t2
  t3 = t3
  main = main
  none = none
  h1 = h1
  h2 = h2
  Task = {t1, t2, t3}
  Main = main
  NoTask = none
  Hook = {h1, h2}
  ReconnectEnabled = TRUE
  InitialDelay = 1
  MaxDelay = 3
  Multiplier = 2
INVARIANTS
  TypeOK
  OneDriver
  NeverAbandoned
  InfoIsCurrent
  StoppedForGood
PROPERTIES
  Reconnects
