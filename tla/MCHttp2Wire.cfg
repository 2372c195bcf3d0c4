SPECIFICATION MCSpec
CONSTANTS
  Streams = {1, 3}
  Chains <- MCChains
  FileLens = {2}
  Rooms = {2, 4}
  Controls <- MCControls
  HeaderLen = 1
  MaxIov = 3
  MaxPushes = 3
  Bufs = {b1, b2, b3}
  Null = Null
INVARIANTS BufferConsistent BlockSent BlockRead
PROPERTIES SendsInOrder TablesAgree BufferIsQueue
