---------------------------- MODULE UploadPromise ----------------------------
(***************************************************************************)
(* What the class comment of CmdUpload.java promises of an upload command: *)
(* "an array of successfully uploaded files if success, an error           *)
(* otherwise".  A file answered as added holds exactly the data of that    *)
(* upload; an upload that fails promises nothing, but can only disturb the *)
(* directory it was sent to.                                               *)
(***************************************************************************)
CONSTANTS
  Uploads,          \* files a user chose to upload
  Files,            \* <<directory, name>> pairs
  Home(_),          \* the file an upload is meant for
  Whole(_)          \* its content

VARIABLES
  dest,             \* content of each file, <<>> when there is none
  outcome           \* what the server last said of each upload

Outcomes == {"open", "added", "failed"}

Init ==
  /\ dest = [f \in Files |-> <<>>]
  /\ outcome = [u \in Uploads |-> "open"]

\* One answer may add some files and fail on others.
Answer(A, F) ==
  /\ outcome' = [u \in Uploads |-> IF u \in A THEN "added"
                                   ELSE IF u \in F THEN "failed" ELSE outcome[u]]
  /\ \A u \in A : dest'[Home(u)] = Whole(u)
  /\ DOMAIN dest' = Files
  /\ \A f \in Files : dest'[f] # dest[f] =>
       \/ \E u \in A : f = Home(u)
       \/ \E u \in F : f[1] = Home(u)[1]

Next == \E A \in SUBSET Uploads : \E F \in SUBSET (Uploads \ A) : Answer(A, F)

Spec == Init /\ [][Next]_<<dest, outcome>>
=============================================================================
