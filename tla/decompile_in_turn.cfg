SPECIFICATION FairSpec
CONSTANTS
  t1 = t1  t2 = t2  p1 = p1  p2 = p2
  NoThread = NoThread
  Threads <- MCThreads
  Polls <- OnePoll
  Order <- UnpackAndOptimize
  AtFirst <- Extracted
  Env = {"error", "delete", "stop"}
CHECK_DEADLOCK FALSE
INVARIANTS TypeOK WholeLogOnTop  KnowsItsStart
PROPERTY EndIsShown
