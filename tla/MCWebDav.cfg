SPECIFICATION MCSpec
CONSTANTS
  Conns = {c1, c2}
  Handles = {u1, u2, u3}
  Kinds = {"tcp", "http", "h2", "h2ws"}
  LifeTimes <- MCLifeTimes
  GcTimes <- MCGcTimes
  H2Life = 3
  LifeWidth = 8
  MaxStream = 2
  Epoch = 10
  MaxNow = 2
  d1 = d1
  d2 = d2
  f1 = f1
  f2 = f2
  Objects = {a, b, c, d}
  NoItem = NoItem
  MaxItems = 2
  MaxPieces = 4
  MaxResponses = 2
SYMMETRY Interchangeable
INVARIANTS OwnAnswer TreeIsDocument PoolCounts
PROPERTIES ArrayIsList
