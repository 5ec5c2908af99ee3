SPECIFICATION Spec
CONSTANTS
  u1 = u1  u2 = u2  u3 = u3  u4 = u4
  movie = movie  photo = photo  readme = readme  tarball = tarball  tar = tar  note = note
  home = home  work = work
  Uploads <- Three
  Names <- AllNames
  Dirs <- AllDirs
  Name <- Names4
  Dir <- Dirs4
  Last <- SideBySide
  EmptyTail <- NoEmptyTail
  Window <- TwoWindows
  Batch <- OneBatch
  Dots <- MCDots
  Stem <- MCStem
  MaxSends = 2
  Env = {"retry"}
CHECK_DEADLOCK FALSE
INVARIANTS NoDanglingChunk DeliveredIsAdded NothingLeft
PROPERTY KeepsPromise
