--------------------------- MODULE MCFinderRequests ---------------------------
(* Instances of FinderRequests for TLC: what is asked for in a visit.        *)
EXTENDS FinderRequests, TLC

CONSTANTS n1, n2, n3, s1, t1, f1, f2, home, work, den

MCNavigations == {n1, n2, n3} \cap Requests
MCParent == [d \in Dirs |-> IF d = den THEN work ELSE home]
MCCmd == [r \in Requests |-> IF r \in {n1, n2, n3, s1} THEN "open"
                             ELSE IF r = t1 THEN "tmb" ELSE "search"]
=============================================================================
