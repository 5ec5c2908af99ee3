SPECIFICATION HSpec
CONSTANTS
  n1 = n1  n2 = n2  n3 = n3  n4 = n4  s1 = s1  t1 = t1  f1 = f1  f2 = f2
  home = home  work = work  den = den
  None = None
  Requests = {n1, n2, n3, n4, f1}
  Cmd <- MCCmd
  Navigations <- MCNavigations
  Cancelable = {f1}
  Dirs = {home, work, den}
  Root = home
  Parent <- MCParent
  MaxConn = 1
SYMMETRY Symmetry
CHECK_DEADLOCK FALSE
INVARIANTS HistoryFollows
