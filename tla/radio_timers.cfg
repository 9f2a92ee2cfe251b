SPECIFICATION FairSpec
CONSTANTS
  Ops <- TimerOps
  Name = {"TERM", "HOME"}
  Interval = {0, 2, 4}
  Sf = {7, 11}
  DefaultName = "TERM"
  DefaultInterval = 4
  DefaultSf = 11
  START_TX = 2
  START_BEACON = 1
  BEACON_INTERVAL = 5
  Foreign = {}
  MaxCommands = 3
  MaxBacklog = 1
  MaxForeign = 0
INVARIANTS TypeOK AutoTxNotStarved
PROPERTIES AutoTxGoesOn CommandsDrained QueueDrained
CHECK_DEADLOCK FALSE
