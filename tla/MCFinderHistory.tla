--------------------------- MODULE MCFinderHistory ---------------------------
(* Instances of FinderHistory for TLC: what is asked for in a visit.         *)
EXTENDS FinderHistory, TLC

CONSTANTS n1, n2, n3, n4, s1, t1, f1, f2, home, work, den

MCNavigations == {n1, n2, n3, n4} \cap Requests
MCParent == [d \in Dirs |-> IF d = den THEN work ELSE home]
MCCmd == [r \in Requests |-> IF r \in {n1, n2, n3, n4, s1} THEN "open"
                             ELSE IF r = t1 THEN "tmb" ELSE "search"]

\* One open of the user is like the other.
Symmetry == Permutations(MCNavigations)
=============================================================================
