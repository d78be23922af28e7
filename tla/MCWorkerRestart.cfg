SPECIFICATION WorkerSpec
CONSTANTS
  Client = {c1}
  Thread = {c1}
  DepthMax = 1
  ReaderLimit = 2
  None = None
  CallMax = 1
  RunMax = 2
INVARIANT CallBlocksForResponse
CHECK_DEADLOCK FALSE
