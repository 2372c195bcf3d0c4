CONSTANTS
  Streams = {1}
  PeerFrames = {"HEADERS_SPLIT", "TRAILERS_SPLIT", "DATA", "WINDOW_UPDATE", "SETTINGS"}
  Faults = {}
  SinkOps = {"respond", "sendfile", "trailer", "readhup"}
  Increments = {1, 2}
  InitWindows = {0}
  FrameSizes = {}
  DataLens = {1, 5}
  WriteLens = {2}
  ReadLens = {1}
  BodySizes <- UnknownBody
  TimeoutCounts = {}
  Duplex = FALSE
  MaxWindow = 2
  DefaultWindow = 1
  DefaultFrameSize = 2
  StreamRecvWindow = 4
  ConnRecvWindow = 4
  FileWidth = 4
SPECIFICATION Spec
INVARIANTS TypeOK NoStalledWriter WindowsInRange NoLostWriter
PROPERTY KeepsContract
