SPECIFICATION MCSpec
CONSTANTS
  Streams = {a, b}
  Admin = a
  Kinds = {"get", "put", "expect", "chunk", "trailer", "connect"}
  Interim = {"100"}
  Split = TRUE
  MaxStream = 2
  SidMax = 3
  f1 = f1
  f2 = f2
  r1 = r1
INVARIANTS HeaderComplete StreamsLive HandedOver
PROPERTIES FramesInOrder
