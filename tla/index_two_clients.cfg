SPECIFICATION SSpec
CONSTANTS
  c1 = c1  c2 = c2  w1 = w1  w2 = w2  pA = pA  pB = pB
  NoWorker = NoWorker
  Clients <- TwoClients
  Workers <- TwoWorkers
  Paths <- OnePath
  MaxDocs = 1
  Env = {"interrupt", "restart", "newindex", "notdir"}
SYMMETRY Symmetry
VIEW Control
INVARIANTS NoLeakedLock OneWriterPerPath
