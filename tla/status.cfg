SPECIFICATION FairSpec
CONSTANTS
  Node = {n1}
  MAX_LOG = 2
  START_BEACON = 1
  BEACON_INTERVAL = 2
  None = None
  MaxCommands = 2
  MaxReports = 3
INVARIANTS TypeOK LogIsRecentHistory CountersMatchLog PerIsPercentage
 
