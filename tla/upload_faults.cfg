SPECIFICATION Spec
CONSTANTS
  u1 = u1  u2 = u2  u3 = u3  u4 = u4
  movie = movie  photo = photo  readme = readme  tarball = tarball  tar = tar  note = note
  home = home  work = work
  Uploads <- Four
  Names <- AllNames
  Dirs <- AllDirs
  Name <- Names4
  Dir <- InTurnDirs
  Last <- InTurn
  EmptyTail <- NoEmptyTail
  Window <- OneWindow
  Batch <- TwoBatches
  Dots <- MCDots
  Stem <- MCStem
  MaxSends = 1
  Env = {"iofail", "restart"}
CHECK_DEADLOCK FALSE
INVARIANTS TypeOK NoOrphanChunk
PROPERTY KeepsPromise
