---------------------------- MODULE MCDecompile ----------------------------
(* Instances of Decompile: which tools are in use and what is there at     *)
(* first.                                                                  *)
EXTENDS Decompile, TLC

CONSTANTS t1, t2, p1, p2

MCThreads == {t1, t2}
MCPolls == {p1, p2}
OnePoll == {p1}

UnpackAndOptimize == <<"unpack_apk", "optimize_dex">>
JarCfrAndJadx == <<"dex2jar", "cfr", "jadx">>
Jadx == <<"jadx">>

NewPackage == {"folder"}
Extracted == {"folder", "apk"}
Unpacked == {"folder", "apk", "dex"}
Worked == Files

Symmetry == Permutations(MCPolls)

\* What decides the steps to come, and whether there are lines to fetch: what the
\* lines and the log files say, what the page shows and the start times do not.
Shape ==
  <<exists, stream, [s \in Streams |-> array[s] = <<>>], writer, thread, th, active, cutOff,
    [p \in Polls |-> [poll[p] EXCEPT !.lines = <<>>, !.seen = <<>>]]>>
=============================================================================
