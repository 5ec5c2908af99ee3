SPECIFICATION SFairSpec
CONSTANTS
  c1 = c1  c2 = c2  w1 = w1  w2 = w2  pA = pA  pB = pB
  NoWorker = NoWorker
  Clients <- OneClient
  Workers <- TwoWorkers
  Paths <- OnePath
  MaxDocs = 2
  Env = {"interrupt", "delete", "newindex", "restart", "iofail", "notdir"}
INVARIANTS STypeOK OneIndexThread ProgressCounts
PROPERTIES CompleteCountsAgree SureMeansWhole PollingEnds
