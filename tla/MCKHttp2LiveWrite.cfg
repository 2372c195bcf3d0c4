CONSTANTS
  Streams = {1}
  PeerFrames = {"HEADERS_SPLIT", "WINDOW_UPDATE", "RST_STREAM", "IDLE", "PING", "HEADERS_REFUSED", "GOAWAY"}
  Faults = {"error", "silence", "slow"}
  SinkOps = {"respond", "read", "write", "timeout", "shutdown", "continue"}
  Increments = {1}
  InitWindows = {}
  FrameSizes = {}
  DataLens = {}
  WriteLens = {2}
  ReadLens = {1}
  BodySizes <- UnknownBody
  TimeoutCounts = {1}
  Duplex = FALSE
  MaxWindow = 2
  DefaultWindow = 1
  DefaultFrameSize = 2
  StreamRecvWindow = 4
  ConnRecvWindow = 4
  FileWidth = 4
SPECIFICATION FairSpec
PROPERTIES SleepersWake ConnectionFreed
