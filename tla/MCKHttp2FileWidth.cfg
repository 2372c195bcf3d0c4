CONSTANTS
  Streams = {1}
  PeerFrames = {"HEADERS", "WINDOW_UPDATE", "SETTINGS"}
  Faults = {}
  SinkOps = {"respond", "sendfile"}
  Increments = {1}
  InitWindows = {}
  FrameSizes = {2}
  DataLens = {}
  WriteLens = {1, 2}
  ReadLens = {}
  BodySizes <- UnknownBody
  TimeoutCounts = {}
  Duplex = FALSE
  MaxWindow = 4
  DefaultWindow = 2
  DefaultFrameSize = 1
  StreamRecvWindow = 4
  ConnRecvWindow = 4
  FileWidth = 2
SPECIFICATION Spec
PROPERTIES FrameNotEmpty
