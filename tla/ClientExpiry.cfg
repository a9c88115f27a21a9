SPECIFICATION Spec
CONSTANTS
  c1 = c1
  Client = {c1}
  Timeout = 5
  Interval = 1
  BootTime = 100
  Horizon = 20
INVARIANTS
  IdleClientsExpire
