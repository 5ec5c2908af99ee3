----------------------------- MODULE MCSearching -----------------------------
(* Instances of Searching for TLC.                                          *)
EXTENDS Searching, TLC

CONSTANTS c1, c2, w1, w2, pA, pB

OneClient  == {c1}
TwoClients == {c1, c2}
OneWorker  == {w1}
TwoWorkers == {w1, w2}
OnePath    == {pA}
TwoPaths   == {pA, pB}

\* One chain of requests, and one index thread, is like the other.
Symmetry == Permutations(Clients) \cup Permutations(Workers)

\* What decides the steps to come and the properties of two chains: counts and answers to
\* polls do not, nor what is on disk for a path that is in doubt.
Control ==
  <<indexState, indexThread, fileTreeActive, interrupted, pc,
    [c \in Clients |-> [req[c] EXCEPT !.snapshot = 0]],
    wpc, [w \in Workers |-> [wk[w] EXCEPT !.files = wk[w].files - wk[w].done, !.done = 0]],
    cacheDir, [p \in Paths |-> <<disk[p].none, disk[p].whole \/ p \in doubt>>], lock,
    error \/ doubt = Paths, doubt, directory, spc, sloc,
    [c \in Clients |-> beside[c] \cup {sloc[c].path}]>>
=============================================================================
