SPECIFICATION Spec
CONSTANTS
  c1 = c1  c2 = c2  a = a  b = b  d = d  x = x  y = y  z = z
  Clients <- OneClient
  Bases = {a, b}
  Texts = {x}
  AtFirst <- Tree
  Tries = 2
  MaxCommands = 2
  Commands <- AllCommands
  Env = {"iofail", "crash", "stale", "leave"}
CHECK_DEADLOCK FALSE
INVARIANTS TypeOK DownloadIsOwn
PROPERTIES AnswerIsTrue TextsKept
