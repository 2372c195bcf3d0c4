SPECIFICATION MCFairSpec
CONSTANTS
  Waiters = {1, 2}
  Modes = {TRUE, FALSE}
  Spurious = {TRUE, FALSE}
  MaxNotices = 2
  MaxWaits = 2
  stream1 = stream1
  e1 = e1
  e2 = e2
  c1 = c1
  c2 = c2
  u1 = u1
  u2 = u2
  f1 = f1
  f2 = f2
  r1 = r1
INVARIANT NoticesCount
PROPERTIES FibersFinish ServersSettle
