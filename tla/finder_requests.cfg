SPECIFICATION Spec
CONSTANTS
  n1 = n1  n2 = n2  n3 = n3  s1 = s1  t1 = t1  f1 = f1  f2 = f2
  home = home  work = work  den = den
  None = None
  Requests = {n1, n2, s1, t1, f1, f2}
  Cmd <- MCCmd
  Navigations <- MCNavigations
  Cancelable = {f1, f2}
  Dirs = {home, work}
  Root = home
  Parent <- MCParent
  MaxConn = 2
CHECK_DEADLOCK FALSE
INVARIANTS TypeOK CountIsConnections ListsAreCurrent LastOpenIsShown
PROPERTIES KeepsPromise NoneWaitsForEver
