---------------------------- MODULE MCChunkUpload ----------------------------
(* Instances of ChunkUpload for TLC.                                        *)
EXTENDS ChunkUpload

CONSTANTS u1, u2, u3, u4,            \* uploads
          movie, photo, readme, tarball, tar, note,  \* names
          home, work                 \* directories

AllNames == {movie, photo, readme, tarball, note}
AllDirs == {home, work}

\* movie.mp4, photo.jpg, note.txt; README; backup.tar.gz, whose stem is backup.tar.
MCDots == [n \in AllNames |-> IF n = readme THEN 0 ELSE IF n = tarball THEN 2 ELSE 1]
MCStem == [n \in AllNames |-> IF n = tarball THEN tar ELSE n]

Pick(a, b, c, d) == [u \in Uploads |-> IF u = u1 THEN a ELSE IF u = u2 THEN b
                                       ELSE IF u = u3 THEN c ELSE d]

One   == {u1}
Two   == {u1, u2}
Three == {u1, u2, u3}
Four  == {u1, u2, u3, u4}

NoEmptyTail == Pick(FALSE, FALSE, FALSE, FALSE)
OneWindow   == Pick(1, 1, 1, 1)
TwoWindows  == Pick(1, 2, 2, 2)
OneBatch    == Pick(1, 1, 1, 1)
TwoBatches  == Pick(1, 2, 1, 1)

\* Different names, to two directories.
Names4 == Pick(movie, photo, note, readme)
Dirs4  == Pick(home, home, work, work)

\* Large files of two and three chunks, and a small one.
SideBySide == Pick(1, 2, 0, 0)

\* Two large files, one after the other, and two small ones beside the first.
InTurn == Pick(2, 2, 0, 0)
InTurnDirs == Pick(home, work, home, home)

\* A batch with a file that has two dots in its name.
TarballFirst == Pick(tarball, photo, note, note)
TwoChunks    == Pick(1, 1, 1, 1)
=============================================================================
