CONSTANTS
  Streams = {1}
  PeerFrames = {"HEADERS", "TRAILERS"}
  Faults = {}
  SinkOps = {"respond", "write"}
  Increments = {}
  InitWindows = {}
  FrameSizes = {}
  DataLens = {}
  WriteLens = {2}
  ReadLens = {}
  BodySizes <- UnknownBody
  TimeoutCounts = {}
  Duplex = FALSE
  MaxWindow = 2
  DefaultWindow = 1
  DefaultFrameSize = 2
  StreamRecvWindow = 4
  ConnRecvWindow = 4
  FileWidth = 4
SPECIFICATION Spec
INVARIANTS WindowWaiterQueued
