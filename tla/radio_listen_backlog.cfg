SPECIFICATION Spec
CONSTANTS
  Ops <- TextOps
  Name = {"TERM", "HOME"}
  Interval = {3}
  Sf = {7, 11}
  DefaultName = "TERM"
  DefaultInterval = 3
  DefaultSf = 11
  START_TX = 2
  START_BEACON = 1
  BEACON_INTERVAL = 5
  Foreign = {}
  MaxCommands = 3
  MaxBacklog = 1
  MaxForeign = 0
INVARIANT SilentInListen
