SPECIFICATION FairSpec
CONSTANTS
  a = a
  b = b
  c = c
  d = d
  g = g
  h = h
  i1 = i1
  i2 = i2
  BROADCAST = BROADCAST
  Station = {a, b}
  Stranger = {g, h}
  PacketId = {i1, i2}
  DEDUP_CAPACITY = 1
  HOP_LIMIT = 2
  Link <- Pair2
  TextDest = {b}
  StrayFrames <- AllStrays
  MaxPackets = 2
  Lossy = TRUE
  Rebuilds = TRUE
INVARIANTS TypeOK  DedupWindow  Authentic NeighboursBeaconed
PROPERTY FloodDies
