---------------------------- MODULE MCFinderFolder ----------------------------
(* Instances of FinderFolder for TLC: a folder with a file, and a file beside it. *)
EXTENDS FinderFolder, TLC

CONSTANTS root, d, x, y, q1, q2, q3

MCParent == [i \in Items |-> IF i = root THEN None ELSE IF i = y THEN d ELSE root]
MCFolders == {root, d}
Symmetry == Permutations(Requests)
=============================================================================
