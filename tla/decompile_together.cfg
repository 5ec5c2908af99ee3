SPECIFICATION Spec
CONSTANTS
  t1 = t1  t2 = t2  p1 = p1  p2 = p2
  NoThread = NoThread
  Threads <- MCThreads
  Polls <- MCPolls
  Order <- JarCfrAndJadx
  AtFirst <- Worked
  Env = {"impatient", "error", "clear"}
CHECK_DEADLOCK FALSE
SYMMETRY Symmetry
VIEW Shape
INVARIANTS PageFollows NothingUntold
