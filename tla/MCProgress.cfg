SPECIFICATION MCFairSpec
CONSTANTS
  Parts = {"spin", "rwlock", "calls", "start", "queue"}
  Thread = {t1, t2, t3}
  ReaderLimit = 4
  DepthMax = 1
  None = None
  Client = {c1, c2}
  CallMax = 2
  RunMax = 1
  StartMax = 2
  Writer = {w1}
  Reader = {r1, r2}
  Message = {m1, m2}
  User = {u1}
  Node = {n1}
  DepthCount = 2
  SequenceCount = 2
  WholeHead = TRUE
PROPERTIES LocksProgress CallsReturn OwnerReturns QueueDrains
CHECK_DEADLOCK FALSE
