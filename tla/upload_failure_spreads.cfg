SPECIFICATION Spec
CONSTANTS
  u1 = u1  u2 = u2  u3 = u3  u4 = u4
  movie = movie  photo = photo  readme = readme  tarball = tarball  tar = tar  note = note
  home = home  work = work
  Uploads <- Two
  Names <- AllNames
  Dirs <- AllDirs
  Name <- TarballFirst
  Dir <- Dirs4
  Last <- TwoChunks
  EmptyTail <- NoEmptyTail
  Window <- OneWindow
  Batch <- OneBatch
  Dots <- MCDots
  Stem <- MCStem
  MaxSends = 1
  Env = {}
CHECK_DEADLOCK FALSE
PROPERTY AddedIsWhole
