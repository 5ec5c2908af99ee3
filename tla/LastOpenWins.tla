---------------------------- MODULE LastOpenWins ----------------------------
(***************************************************************************)
(* What the file manager's user may rely on: whatever folders are clicked, *)
(* how fast, and in whatever order the answers come, the folder that is    *)
(* shown changes only to the one that was asked for last or, when that has *)
(* gone, to the one it was in; and each wish is settled, by a folder, by   *)
(* an error or by a later wish.                                            *)
(***************************************************************************)
CONSTANTS
    Dirs, Root,
    Parent,         \* the folder each is in
    Nothing         \* no wish is open

VARIABLES
    cwd,            \* the folder that is shown
    wanted          \* the folder asked for last, until that is settled

Init == cwd = Root /\ wanted = Nothing

Want(d) == wanted' = d /\ UNCHANGED cwd

Arrive == wanted # Nothing /\ cwd' \in {wanted, Parent[wanted]} /\ wanted' = Nothing

Fail == wanted # Nothing /\ wanted' = Nothing /\ UNCHANGED cwd

Next == Arrive \/ Fail \/ \E d \in Dirs : Want(d)

Spec == Init /\ [][Next]_<<cwd, wanted>>

FairSpec == Spec /\ WF_<<cwd, wanted>>(Arrive \/ Fail)
=============================================================================
