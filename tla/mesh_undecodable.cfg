SPECIFICATION Spec
CONSTANTS
  a = a
  b = b
  c = c
  d = d
  g = g
  h = h
  i1 = i1
  i2 = i2
  BROADCAST = BROADCAST
  Station = {a, b}
  Stranger = {g}
  PacketId = {i1}
  DEDUP_CAPACITY = 2
  HOP_LIMIT = 2
  Link <- Pair2
  TextDest = {}
  StrayFrames <- UndecodableStray
  MaxPackets = 1
  Lossy = FALSE
  Rebuilds = FALSE
PROPERTY RelaysWhileHopsLast
CHECK_DEADLOCK FALSE
