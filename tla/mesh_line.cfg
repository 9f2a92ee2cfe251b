SPECIFICATION FairSpec
CONSTANTS
  a = a
  b = b
  c = c
  d = d
  g = g
  h = h
  i1 = i1
  i2 = i2
  BROADCAST = BROADCAST
  Station = {a, b, c, d}
  Stranger = {}
  PacketId = {i1, i2}
  DEDUP_CAPACITY = 2
  HOP_LIMIT = 1
  Link <- EchoingLine
  TextDest = {c}
  StrayFrames <- NoStrays
  MaxPackets = 2
  Lossy = FALSE
  Rebuilds = FALSE
PROPERTIES ImplementsService EventuallyHeard
CHECK_DEADLOCK FALSE
