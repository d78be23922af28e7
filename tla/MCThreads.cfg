SPECIFICATION MCSpec
CONSTANTS
  Parts = {"spin", "mutex", "rwlock", "event", "calls", "start", "queue", "list"}
  Thread = {t1, t2, t3}
  ReaderLimit = 4
  DepthMax = 2
  None = None
  Client = {c1, c2}
  CallMax = 2
  RunMax = 2
  StartMax = 3
  Writer = {w1, w2}
  Reader = {r1, r2}
  Message = {m1, m2, m3}
  User = {u1, u2}
  Node = {n1, n2}
  DepthCount = 3
  SequenceCount = 2
  WholeHead = TRUE
INVARIANTS ThreadsTypeOK OwnershipNests NobodyIsForgotten NoWakeupLost
INVARIANTS CallsAreAnswered NodesAccounted
PROPERTIES SpinLockImplementsRWLock RWLockImplementsPromise EventImplementsPromise OwnerKeepsTrack
PROPERTIES QueueImplementsFifo ListImplementsStack
CHECK_DEADLOCK FALSE
