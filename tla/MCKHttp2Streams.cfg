CONSTANTS
  Streams = {1, 3}
  PeerFrames = {"HEADERS"}
  Faults = {}
  SinkOps = {}
  Increments = {1}
  InitWindows = {}
  FrameSizes = {}
  DataLens = {}
  WriteLens = {2}
  ReadLens = {}
  BodySizes <- UnknownBody
  TimeoutCounts = {}
  Duplex = FALSE
  MaxWindow = 2
  DefaultWindow = 1
  DefaultFrameSize = 2
  StreamRecvWindow = 8
  ConnRecvWindow = 8
  FileWidth = 4
SPECIFICATION MCSpec
INVARIANTS RecvWindow WaitersReached Lifetimes EndMatchesLength
