SPECIFICATION Spec
CONSTANTS
  root = root  d = d  x = x  y = y  q1 = q1  q2 = q2  q3 = q3
  None = None
  Items = {root, d, x, y}
  Folders <- MCFolders
  Root = root
  Parent <- MCParent
  Requests = {q1, q2, q3}
  Copied = {y}
  Foreign = {d}
CHECK_DEADLOCK FALSE
SYMMETRY Symmetry
INVARIANTS TypeOK ListIsCache ListIsTrue LeftIsForgotten
