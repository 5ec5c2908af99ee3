SPECIFICATION SSpec
CONSTANTS
  c1 = c1  c2 = c2  w1 = w1  w2 = w2  pA = pA  pB = pB
  NoWorker = NoWorker
  Clients <- TwoClients
  Workers <- OneWorker
  Paths <- TwoPaths
  MaxDocs = 1
  Env = {"interrupt"}
SYMMETRY Symmetry
VIEW Control
INVARIANT HitsAreOfPath
PROPERTY SureMeansWhole
