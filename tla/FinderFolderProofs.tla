-------------------------- MODULE FinderFolderProofs --------------------------
(***************************************************************************)
(* What holds of the file manager's cache for every volume, and any number *)
(* of requests.                                                            *)
(***************************************************************************)
EXTENDS FinderFolder, TLAPS

\* What is on the disk hangs together.
DiskInv == Root \in disk /\ \A i \in disk \ {Root} : Parent[i] \in disk

\* What a request asks for: an open for a folder, and rm for what is in a folder with it.
Meant(cmd, about, what) ==
    /\ cmd = "open" => about \in Folders
    /\ cmd \in {"open", "sync"} => what = {}
    /\ cmd = "mkdir" => what = {about}
    /\ cmd = "rm" => Root \notin what /\ \A i \in what : Below(i) \subseteq what

\* What requests under way are about, and what the server may have seen.
RequestInv ==
    /\ \A p, q \in Requests : Reads(p) /\ Reads(q) => p = q
    /\ \A q \in Requests :
         /\ Meant(request[q].cmd, request[q].about, request[q].what)
         /\ Live(q) /\ request[q].cmd = "sync" => request[q].about = cwd
         /\ request[q].phase = "served" /\ request[q].cmd \in {"open", "sync"} =>
              request[q].at \in Folders
         /\ request[q].phase = "served" /\ request[q].cmd = "open" =>
              request[q].seen \subseteq Children(Items, request[q].at)
         /\ request[q].phase = "served" /\ request[q].cmd = "sync" =>
              request[q].seen \subseteq Children(Items, cwd) \cup Folders

\* A file of another folder, and not from the clipboard, is one that some garbage
\* collection still has to look at; and one that takes the place of another looks at
\* all that the other would have.
Astray(i) == i \in files \ Folders /\ Parent[i] # cwd /\ i \notin kept

CollectInv ==
    /\ remember \subseteq kept
    /\ \A i \in Items : Astray(i) => i \in due \cup sweep \cup LeftBehind
    /\ opened # None => due = {}
    /\ opened # None => \A i \in sweep : Astray(i) => i \in opened.hashes
    /\ due # {} => \A i \in sweep : Astray(i) => i \in due

IInv == TypeOK /\ DiskInv /\ RequestInv /\ CollectInv

\* The items that jobs name to the list.
Named(j) == j.added \cup j.removed
AllNamed(s) == UNION {Named(s[n]) : n \in DOMAIN s}

\* An open that has been answered and has still to work out what is to be shown; or to show it.
Opening(s, stages) == \E n \in DOMAIN s : s[n].cmd = "open" /\ s[n].stage \in stages
Unsure == Opening(frames, {"update", "event"}) \/ Opening(timeouts, {"event"})
Redrawn == Unsure \/ Opening(frames, {"content"})

\* Of the jobs that wait the n-th is the last to name i, and no open comes after it.
LastWord(s, i, n) ==
    \A m \in DOMAIN s : m > n => i \notin Named(s[m]) /\ ~(s[m].cmd = "open" /\ s[m].stage = "update")

\* Items are named once, when the answer's events begin.
JobsInv ==
    /\ \A n \in DOMAIN frames : frames[n].stage # "update" => Named(frames[n]) = {}
    /\ \A n \in DOMAIN timeouts : timeouts[n].stage \in {"event", "done"} /\ Named(timeouts[n]) = {}

\* sync() is told of no item without the folder it is in.
SeenInv ==
    \A q \in Requests : request[q].phase = "served" /\ request[q].cmd = "sync" =>
        \A i \in request[q].seen \ {Root} : Parent[i] \in request[q].seen

\* What is cached of the folder is to be shown, or will be when a job that names it is done.
HashInv == ~Unsure => \A i \in Children(files, cwd) \ AllNamed(frames) : i \in cwdHashes

\* The last job that names an item says of it what the cache says.
WordInv ==
    \A n \in DOMAIN frames : \A i \in Children(Named(frames[n]), cwd) \ mixed :
        LastWord(frames, i, n) => (i \in files <=> i \in frames[n].added)

\* What no job names, and no open will show, is listed if it is cached.
ListInv ==
    ~Redrawn => \A i \in Children(Items, cwd) \ (mixed \cup AllNamed(frames)) :
                    i \in listed <=> i \in files

ShownInv == JobsInv /\ HashInv /\ WordInv /\ ListInv

\* The server has answered, and the page has not heard of it yet.
ToldBy(cmd, i) ==
    \E q \in Requests : request[q].phase = "served" /\ request[q].cmd = cmd /\ i \in request[q].seen

\* Of two requests that may change an item, or of a rm and an open under way, one has
\* overtaken the other; and sync() knows of every change that is under way.
ApartInv ==
    /\ \A p, r \in Requests : p # r => Changing(p) \cap Changing(r) \subseteq crossed
    /\ \A p, r \in Requests :
         Live(r) /\ request[r].cmd = "sync" => Changing(p) \subseteq request[r].near
    /\ \A p, r \in Requests :
         Live(r) /\ request[r].cmd = "open" /\ Live(p) /\ request[p].cmd = "rm"
            => Changing(p) \subseteq crossed

\* What mkdir and rm have done still holds when the page hears of it.
ChangeInv ==
    \A q \in Requests : request[q].phase = "served" =>
      /\ request[q].cmd = "mkdir" =>
           request[q].seen \subseteq request[q].what \cap (disk \cup crossed)
      /\ request[q].cmd = "rm" =>
           /\ request[q].seen \subseteq request[q].what
           /\ request[q].seen # {} => disk \cap request[q].what \subseteq crossed

\* What an open has seen is still there, and what has come since the page knows, or will
\* know, from another answer.  What sync() has seen is what is there, but for what it knows of.
ReadInv ==
    \A q \in Requests : request[q].phase = "served" =>
      /\ request[q].cmd = "open" =>
           /\ request[q].seen \cup {request[q].at} \subseteq disk \cup crossed
           /\ request[q].at = request[q].about =>
                \A i \in Children(disk, request[q].at) \ crossed :
                    i \in request[q].seen \cup files \/ ToldBy("mkdir", i)
      /\ request[q].cmd = "sync" =>
           /\ request[q].at \in request[q].seen
           /\ request[q].seen \subseteq disk \cup request[q].near
           /\ Children(disk, cwd) \subseteq request[q].seen \cup request[q].near

\* What is cached is there, or the answer that it is gone is on its way; what is there of
\* the folder shown is cached, or the answer that it is new is on its way.
CacheInv ==
    /\ \A i \in files \ crossed : i \in disk \/ ToldBy("rm", i)
    /\ \A i \in Children(disk, cwd) \ crossed : i \in files \/ ToldBy("mkdir", i)

TrueInv == ApartInv /\ ChangeInv /\ ReadInv /\ CacheInv

-----------------------------------------------------------------------------
(* Sets of items.                                                          *)

\* Folders and sets made from items are items.
LEMMA SetsOfItems ==
    /\ Root \in Folders /\ Folders \subseteq Items
    /\ \A s, d : Children(s, d) \subseteq s
    /\ \A d : Below(d) \subseteq Items
    /\ \A s : Untold(s) \subseteq Items
    /\ \A i \in Items : Parent[i] \in Items => Parent[i] \in Folders
    /\ \A i \in Items \ {Root} : Parent[i] \in Folders
BY ConstantsAssumption DEF Children, Below, Untold

\* A new request is well typed, and so is one that has ended.
LEMMA FreshRequest ==
    /\ NewRequest \in Asked
    /\ [NewRequest EXCEPT !.phase = "over"] \in Asked
    /\ \A c \in {"open", "sync", "mkdir", "rm"}, a \in Items, w, n \in SUBSET Items :
         [NewRequest EXCEPT !.cmd = c, !.about = a, !.what = w, !.phase = "sent",
                            !.near = n] \in Asked
BY ConstantsAssumption DEF NewRequest, Asked, Phases

\* A job handed on is a job.
LEMMA JobStages ==
    \A j \in Job : /\ NextStage(j) \in Job
                   /\ [j EXCEPT !.stage = "content"] \in Job
                   /\ j.cmd \in {"open", "mkdir", "rm"}
                   /\ j.added \in SUBSET Items /\ j.removed \in SUBSET Items
BY DEF NextStage, Job

\* What the requests under way may change are items.
LEMMA ChangingItems ==
    ASSUME TypeOK
    PROVE  /\ AllChanging \subseteq Items
           /\ \A cmd, what : what \subseteq Items => Overtakes(cmd, what) \subseteq Items
<1>1. \A q \in Requests : Changing(q) \subseteq Items
  BY SetsOfItems DEF Changing, TypeOK, Asked
<1>2. QED
  BY <1>1, SetsOfItems DEF AllChanging, Overtakes

-----------------------------------------------------------------------------
(* Types.                                                                  *)

\* The garbage collection only ever looks at items.
LEMMA GarbageType ==
    ASSUME TypeOK
    PROVE  /\ LeftBehind \subseteq Items
           /\ \A l : OpenDone(l) => opened' = None /\ due' \subseteq Items /\ sweep' \subseteq Items
           /\ \A d, s \in SUBSET Items : LazyDone(d, s) => due' \subseteq Items /\ sweep' \subseteq Items
BY DEF LeftBehind, OpenDone, LazyDone, TypeOK, Closure

\* Asking keeps every variable in its type.
LEMMA AskType ==
    ASSUME TypeOK, NEW q \in Requests, NEW cmd \in {"open", "sync", "mkdir", "rm"},
           NEW about \in Items, NEW what \in SUBSET Items, Ask(q, cmd, about, what), must' = None
    PROVE  TypeOK'
<1> DEFINE near == IF cmd = "sync" THEN AllChanging ELSE {}
<1>1. near \subseteq Items
  BY SetsOfItems, ChangingItems
<1>2. ASSUME NEW p \in Requests
      PROVE  [request[p] EXCEPT !.near = @ \cup what] \in Asked
  <2>1. request[p] \in Asked
    BY DEF TypeOK
  <2>2. QED
    BY <1>1, <2>1 DEF Asked
<1>3. request' \in [Requests -> Asked]
  <2>1. [NewRequest EXCEPT !.cmd = cmd, !.about = about, !.what = what, !.phase = "sent",
                           !.near = near] \in Asked
    BY <1>1, FreshRequest
  <2>2. QED
    BY <1>2, <2>1, FreshRequest DEF Ask, TypeOK
<1>4. opened' \in Closure \cup {None} /\ due' \subseteq Items /\ sweep' \subseteq Items
  BY GarbageType DEF Ask, TypeOK, garbage
<1>5. crossed' \subseteq Items
  BY ChangingItems DEF Ask, TypeOK
<1>6. QED
  BY <1>3, <1>4, <1>5 DEF Ask, TypeOK, shown

\* The answer to an open, or to sync(), is about a folder.
LEMMA AnsweredFolder ==
    ASSUME DiskInv, NEW q \in Requests, request[q].about \in Items,
           request[q].about \in Folders
    PROVE  Answered(q) \in Folders
BY SetsOfItems DEF Answered, DiskInv

\* What the server does is what the request may change; what the answer does not tell of is
\* noted.
LEMMA ServeAnswers ==
    ASSUME TypeOK, DiskInv, RequestInv, NEW q \in Requests, Serve(q)
    PROVE  /\ request[q] \in Asked /\ request[q].phase = "sent" /\ request'[q] \in Asked
           /\ request'[q].cmd = request[q].cmd /\ request'[q].about = request[q].about
           /\ request'[q].what = request[q].what /\ request'[q].near = request[q].near
           /\ request'[q].phase = "served"
           /\ \A p \in Requests \ {q} : request'[p] = request[p]
           /\ UNCHANGED <<cwd, files, remember, currentReqCmd, shown, frames, timeouts, garbage,
                          leaveOn, must, mixed, kept>>
           /\ request' \in [Requests -> Asked] /\ disk' \in SUBSET Items
           /\ crossed \subseteq crossed' /\ crossed' \subseteq crossed \cup Changing(q)
           /\ request[q].cmd \in {"open", "sync"} =>
                /\ disk' = disk /\ request'[q].at = Answered(q)
                /\ request'[q].seen =
                     Children(disk, request[q].about)
                       \cup (IF request[q].cmd = "sync"
                             THEN {Root} \cup (Children(disk, Root) \cap Folders) ELSE {})
           /\ request[q].cmd = "mkdir" =>
                /\ request'[q].seen \subseteq {request[q].about}
                /\ disk' = disk \cup request'[q].seen
                /\ request'[q].seen # {} => Parent[request[q].about] \in disk
           /\ request[q].cmd = "rm" =>
                /\ disk' \subseteq disk
                /\ request'[q].seen \subseteq request[q].what
                /\ disk \ disk' \subseteq request[q].what \cap (request'[q].seen \cup crossed')
                /\ request'[q].seen # {} => disk' \cap request[q].what = {}
                /\ \A i \in disk' : Parent[i] \notin disk \ disk'
<1> DEFINE r == request[q]
<1>1. /\ r \in Asked /\ r.about \in Items /\ r.what \in SUBSET Items
      /\ r.cmd \in {"open", "sync", "mkdir", "rm"}
  BY DEF TypeOK, Asked
<1>2. ASSUME NEW at \in Items, NEW seen \in SUBSET Items, Served(q, at, seen)
      PROVE  /\ r.phase = "sent" /\ request'[q] \in Asked
             /\ request'[q].cmd = r.cmd /\ request'[q].about = r.about
             /\ request'[q].what = r.what /\ request'[q].near = r.near
             /\ request'[q].phase = "served"
             /\ request'[q].at = at /\ request'[q].seen = seen
             /\ \A p \in Requests \ {q} : request'[p] = request[p]
             /\ UNCHANGED <<cwd, files, remember, currentReqCmd, shown, frames, timeouts,
                            garbage, leaveOn, must, mixed, kept>>
             /\ request' \in [Requests -> Asked]
  <2>1. r.phase = "sent"
    BY <1>2 DEF Served
  <2>2. request' = [request EXCEPT ![q] = [r EXCEPT !.phase = "served", !.at = at, !.seen = seen]]
    BY <1>2 DEF Served
  <2>3. [r EXCEPT !.phase = "served", !.at = at, !.seen = seen] \in Asked
    BY <1>1 DEF Asked, Phases
  <2>4. request' \in [Requests -> Asked]
    BY <2>2, <2>3 DEF TypeOK
  <2>5. request'[q] = [r EXCEPT !.phase = "served", !.at = at, !.seen = seen]
    BY <2>2 DEF TypeOK
  <2>6. /\ request'[q].cmd = r.cmd /\ request'[q].about = r.about
        /\ request'[q].what = r.what /\ request'[q].near = r.near
        /\ request'[q].phase = "served"
        /\ request'[q].at = at /\ request'[q].seen = seen
    BY <1>1, <2>5 DEF Asked
  <2>7. \A p \in Requests \ {q} : request'[p] = request[p]
    BY <2>2 DEF TypeOK
  <2>8. UNCHANGED <<cwd, files, remember, currentReqCmd, shown, frames, timeouts, garbage,
                    leaveOn, must, mixed, kept>>
    BY <1>2 DEF Served
  <2>9. QED
    BY <2>1, <2>3, <2>4, <2>5, <2>6, <2>7, <2>8
<1>3. r.phase = "sent" /\ Changing(q) = r.what
  BY DEF Serve, ServeRead, ServeMkdir, ServeRm, Served, Changing, Live
<1>4. CASE ServeRead(q)
  <2> DEFINE seen == Children(disk, r.about)
                       \cup (IF r.cmd = "sync"
                             THEN {Root} \cup (Children(disk, Root) \cap Folders) ELSE {})
  <2>1. r.cmd \in {"open", "sync"} /\ disk' = disk /\ crossed' = crossed
    BY <1>4 DEF ServeRead
  <2>2. Served(q, Answered(q), seen)
    BY <1>4 DEF ServeRead
  <2>3. seen \in SUBSET Items
    BY SetsOfItems DEF TypeOK
  <2>4. Answered(q) \in Items
    <3>1. r.about \in Folders
      BY <1>3, <2>1, SetsOfItems DEF RequestInv, Meant, Live, TypeOK
    <3>2. r.about # Root => Parent[r.about] \in Items
      BY <3>1, SetsOfItems
    <3>3. r.about \in disk \/ r.about # Root
      BY <1>4 DEF ServeRead, DiskInv
    <3>4. QED
      BY <1>1, <3>2, <3>3 DEF Answered
  <2> HIDE DEF seen
  <2>5. QED
    BY <1>1, <1>2, <2>1, <2>2, <2>3, <2>4 DEF seen, TypeOK
<1>5. CASE ServeMkdir(q)
  <2>1. r.cmd = "mkdir" /\ crossed' = crossed
    BY <1>5 DEF ServeMkdir
  <2>2. CASE Parent[r.about] \in disk /\ disk' = disk \cup {r.about} /\ Served(q, r.about, {r.about})
    BY <1>1, <1>2, <2>1, <2>2 DEF TypeOK
  <2>3. CASE disk' = disk /\ Served(q, r.about, {})
    <3>1. {} \in SUBSET Items
      OBVIOUS
    <3>2. QED
      BY <1>1, <1>2, <2>1, <2>3, <3>1 DEF TypeOK
  <2>4. QED
    BY <1>5, <2>2, <2>3 DEF ServeMkdir
<1>6. CASE ServeRm(q)
  <2>1. r.cmd = "rm" /\ Root \in Items /\ {} \in SUBSET Items
    BY <1>6, SetsOfItems DEF ServeRm
  <2>2. CASE disk' = disk \ r.what /\ Served(q, Root, r.what \cap disk) /\ crossed' = crossed
    <3>1. r.what \cap disk \in SUBSET Items
      BY <1>1
    <3>2. /\ r.phase = "sent" /\ request'[q] \in Asked
          /\ request'[q].cmd = r.cmd /\ request'[q].about = r.about
          /\ request'[q].what = r.what /\ request'[q].near = r.near
          /\ request'[q].phase = "served"
          /\ request'[q].at = Root /\ request'[q].seen = r.what \cap disk
          /\ \A p \in Requests \ {q} : request'[p] = request[p]
          /\ UNCHANGED <<cwd, files, remember, currentReqCmd, shown, frames, timeouts,
                         garbage, leaveOn, must, mixed, kept>>
          /\ request' \in [Requests -> Asked]
      BY <1>2, <2>1, <2>2, <3>1
    <3>3. \A i \in disk' : Parent[i] \notin disk \ disk'
      <4>1. ASSUME NEW i \in disk', Parent[i] \in r.what
            PROVE  FALSE
        <5>1. i \in Items /\ i \notin r.what
          BY <2>2, <4>1 DEF TypeOK
        <5>2. i \in Below(Parent[i])
          BY <5>1 DEF Below
        <5>3. QED
          BY <2>1, <4>1, <5>1, <5>2 DEF RequestInv, Meant
      <4>2. QED
        BY <2>2, <4>1
    <3>4. /\ disk' \subseteq disk /\ disk \ disk' \subseteq r.what \cap (r.what \cap disk)
          /\ disk' \cap r.what = {} /\ disk' \in SUBSET Items
      BY <2>2 DEF TypeOK
    <3>5. QED
      BY <1>1, <2>1, <2>2, <3>2, <3>3, <3>4
  <2>3. ASSUME NEW gone \in SUBSET (r.what \cap disk),
               \A i \in disk \ gone : Parent[i] \notin gone,
               disk' = disk \ gone, Served(q, Root, {}), crossed' = crossed \cup gone
        PROVE  /\ request[q] \in Asked /\ request[q].phase = "sent" /\ request'[q] \in Asked
               /\ request'[q].cmd = r.cmd /\ request'[q].about = r.about
               /\ request'[q].what = r.what /\ request'[q].near = r.near
               /\ request'[q].phase = "served"
               /\ \A p \in Requests \ {q} : request'[p] = request[p]
               /\ UNCHANGED <<cwd, files, remember, currentReqCmd, shown, frames, timeouts,
                              garbage, leaveOn, must, mixed, kept>>
               /\ request' \in [Requests -> Asked] /\ disk' \in SUBSET Items
               /\ crossed \subseteq crossed' /\ crossed' \subseteq crossed \cup r.what
               /\ disk' \subseteq disk
               /\ request'[q].seen = {}
               /\ disk \ disk' \subseteq r.what \cap crossed'
               /\ \A i \in disk' : Parent[i] \notin disk \ disk'
    <3>1. /\ request[q].phase = "sent" /\ request'[q] \in Asked
          /\ request'[q].cmd = r.cmd /\ request'[q].about = r.about
          /\ request'[q].what = r.what /\ request'[q].near = r.near
          /\ request'[q].phase = "served" /\ request'[q].seen = {}
          /\ \A p \in Requests \ {q} : request'[p] = request[p]
          /\ UNCHANGED <<cwd, files, remember, currentReqCmd, shown, frames, timeouts,
                         garbage, leaveOn, must, mixed, kept>>
          /\ request' \in [Requests -> Asked]
      BY <1>2, <2>1, <2>3
    <3>2. /\ disk' \in SUBSET Items /\ disk' \subseteq disk
          /\ crossed \subseteq crossed' /\ crossed' \subseteq crossed \cup r.what
          /\ disk \ disk' = gone /\ gone \subseteq r.what \cap crossed'
          /\ \A i \in disk' : Parent[i] \notin gone
      BY <2>3 DEF TypeOK
    <3>3. QED
      BY <1>1, <3>1, <3>2
  <2>4. \/ disk' = disk \ r.what /\ Served(q, Root, r.what \cap disk) /\ crossed' = crossed
        \/ \E gone \in SUBSET (r.what \cap disk) :
              /\ \A i \in disk \ gone : Parent[i] \notin gone
              /\ disk' = disk \ gone /\ Served(q, Root, {}) /\ crossed' = crossed \cup gone
    BY <1>6 DEF ServeRm
  <2>5. QED
    BY <1>3, <2>1, <2>2, <2>3, <2>4
<1>7. QED
  BY <1>4, <1>5, <1>6 DEF Serve

\* The server keeps every variable in its type.
LEMMA ServeType ==
    ASSUME TypeOK, DiskInv, RequestInv, NEW q \in Requests, Serve(q)
    PROVE  TypeOK'
<1>1. Changing(q) \subseteq Items
  BY DEF Changing, TypeOK, Asked
<1>2. /\ request' \in [Requests -> Asked] /\ disk' \in SUBSET Items
      /\ crossed' \subseteq crossed \cup Changing(q)
      /\ UNCHANGED <<cwd, files, remember, currentReqCmd, shown, frames, timeouts, garbage,
                     leaveOn, must, mixed, kept>>
  BY ServeAnswers
<1>3. QED
  BY <1>1, <1>2 DEF TypeOK, shown, garbage

\* So does whoever else changes the volume.
LEMMA ElsewhereType ==
    ASSUME TypeOK, NEW i \in Foreign, Elsewhere(i)
    PROVE  TypeOK'
<1>1. i \in Items /\ Below(i) \subseteq Items
  BY ConstantsAssumption, SetsOfItems
<1>2. ASSUME NEW q \in Requests
      PROVE  request'[q] \in Asked
  <2>1. request[q] \in Asked
    BY DEF TypeOK
  <2>2. [request[q] EXCEPT !.near = @ \cup Below(i)] \in Asked
    BY <1>1, <2>1 DEF Asked
  <2>3. QED
    BY <2>1, <2>2 DEF Elsewhere
<1>3. request' \in [Requests -> Asked]
  BY <1>2 DEF Elsewhere
<1>4. disk' \subseteq Items /\ crossed' \subseteq Items
  BY <1>1 DEF Elsewhere, TypeOK
<1>5. QED
  BY <1>3, <1>4 DEF Elsewhere, TypeOK, shown, garbage

\* What the list's handlers make of an answer.
LEMMA ListEventsType ==
    ASSUME TypeOK, NEW f \in SUBSET Items, NEW add \in SUBSET Items, NEW rm \in SUBSET Items,
           NEW late \in SUBSET Items, NEW cmd \in {"open", "mkdir", "rm", "parents"},
           ListEvents(f, cmd, add, rm, late)
    PROVE  /\ cwdHashes' \subseteq Items /\ listed' \subseteq Items
           /\ leaveOn' \in {"mkdir", "rm", "parents", None}
           /\ mixed' \subseteq Items
<1>1. cwdHashes' \subseteq Items
  BY SetsOfItems DEF ListEvents, TypeOK
<1>2. listed' \subseteq Items
  BY SetsOfItems DEF ListEvents, TypeOK
<1>3. leaveOn' \in {"mkdir", "rm", "parents", None}
  BY DEF ListEvents, Lost, TypeOK
<1>4. mixed' \subseteq Items
  BY SetsOfItems DEF ListEvents, TypeOK
<1>5. QED
  BY <1>1, <1>2, <1>3, <1>4

\* A new job is a job.
LEMMA NewJobType ==
    ASSUME TypeOK, NEW cmd \in {"open", "mkdir", "rm"},
           NEW add \in SUBSET Items, NEW rm \in SUBSET Items
    PROVE  NewJob(cmd, add, rm) \in Seq(Job)
<1>1. [stage |-> "update", cmd |-> cmd, added |-> add, removed |-> rm] \in Job
  BY DEF Job
<1>2. QED
  BY <1>1 DEF NewJob, TypeOK

\* Answers keep every variable in its type.
LEMMA ApplyType ==
    ASSUME TypeOK, RequestInv, NEW q \in Requests, Apply(q)
    PROVE  TypeOK'
<1>1. /\ request[q] \in Asked /\ request[q].seen \in SUBSET Items /\ request[q].at \in Items
      /\ request[q].cmd \in {"open", "sync"} => request[q].at \in Folders
      /\ {} \in SUBSET Items
  BY DEF TypeOK, Asked, RequestInv, Apply
<1>2. request' \in [Requests -> Asked]
  BY FreshRequest DEF Apply, Finished, TypeOK
<1>3. /\ disk' \subseteq Items /\ remember' \subseteq Items /\ timeouts' \in Seq(Job)
  BY DEF Apply, TypeOK
<1>4. CASE ApplyOpen(q)
  <2>1. cwd' \in Folders /\ files' \subseteq Items
    BY <1>1, <1>4 DEF ApplyOpen, CacheOpen, TypeOK
  <2>2. frames' \in Seq(Job)
    BY <1>1, <1>4, NewJobType DEF ApplyOpen
  <2>3. opened' \in Closure /\ due' = {}
    BY <1>4 DEF ApplyOpen, Closure, TypeOK
  <2>4. crossed' \subseteq Items /\ kept' \subseteq Items
    BY <1>4, SetsOfItems DEF ApplyOpen, TypeOK
  <2>5. QED
    BY <1>2, <1>3, <1>4, <2>1, <2>2, <2>3, <2>4 DEF ApplyOpen, TypeOK, shown
<1>5. CASE ApplyMkdir(q)
  <2>1. files' \subseteq Items /\ must' \in {"open", None} /\ kept' \subseteq Items
    BY <1>1, <1>5 DEF ApplyMkdir, TypeOK
  <2>2. frames' \in Seq(Job)
    BY <1>1, <1>5, NewJobType DEF ApplyMkdir, TypeOK
  <2>3. QED
    BY <1>2, <1>3, <1>5, <2>1, <2>2 DEF ApplyMkdir, TypeOK, shown, garbage
<1>6. CASE ApplyRm(q)
  <2>1. files' \subseteq Items
    BY <1>6 DEF ApplyRm, Removing, TypeOK
  <2>2. frames' \in Seq(Job)
    BY <1>1, <1>6, NewJobType DEF ApplyRm
  <2>3. mixed' \subseteq Items
    BY <1>6 DEF ApplyRm, TakenAlong, TypeOK
  <2>4. QED
    BY <1>2, <1>3, <1>6, <2>1, <2>2, <2>3 DEF ApplyRm, TypeOK, shown, garbage
<1>7. CASE ApplySync(q)
  <2> DEFINE gone == files \ request[q].seen
             new == (request[q].seen \ files) \cup {request[q].at}
             f == Removing(gone) \cup new
  <2>1. /\ gone \in SUBSET Items /\ new \in SUBSET Items /\ f \in SUBSET Items
        /\ Untold(frames) \in SUBSET Items
    BY <1>1, SetsOfItems DEF Removing, TypeOK
  <2>2. PICK c \in {"open", "parents"} :
          currentReqCmd' = c /\ ListEvents(f, c, new, gone, Untold(frames))
    BY <1>7 DEF ApplySync
  <2>3. /\ cwdHashes' \subseteq Items /\ listed' \subseteq Items
        /\ leaveOn' \in {"mkdir", "rm", "parents", None}
        /\ mixed' \subseteq Items
    <3> HIDE DEF gone, new, f
    <3>1. QED
      BY <2>1, <2>2, ListEventsType
  <2>4. files' = f /\ crossed' \subseteq Items
    BY <1>1, <1>7 DEF ApplySync, Asked
  <2>5. UNCHANGED <<cwd, frames, garbage, must, kept>>
    BY <1>7 DEF ApplySync
  <2> HIDE DEF gone, new, f
  <2>6. QED
    BY <1>2, <1>3, <2>1, <2>2, <2>3, <2>4, <2>5 DEF TypeOK, garbage
<1>8. QED
  BY <1>4, <1>5, <1>6, <1>7 DEF Apply

\* Frames keep every variable in its type.
LEMMA FrameType ==
    ASSUME TypeOK, Frame
    PROVE  TypeOK'
<1> DEFINE j == Head(frames)
<1>1. j \in Job /\ Tail(frames) \in Seq(Job)
  BY DEF Frame, TypeOK
<1>2. timeouts' \in Seq(Job)
  BY <1>1, JobStages DEF Frame, TypeOK
<1>3. due \in SUBSET Items /\ sweep \in SUBSET Items /\ due \cup LeftBehind \in SUBSET Items
  BY GarbageType DEF TypeOK
<1>4. UNCHANGED <<disk, request, cwd, files, remember, currentReqCmd, crossed, kept>>
  BY DEF Frame
<1>5. CASE j.stage = "update"
  <2>1. /\ cwdHashes' \subseteq Items /\ listed' \subseteq Items
        /\ leaveOn' \in {"mkdir", "rm", "parents", None}
        /\ mixed' \subseteq Items
    <3>1. ListEvents(files, currentReqCmd, j.added, j.removed, {})
      BY <1>5 DEF Frame
    <3>2. /\ files \in SUBSET Items /\ {} \in SUBSET Items
          /\ j.added \in SUBSET Items /\ j.removed \in SUBSET Items
          /\ currentReqCmd \in {"open", "mkdir", "rm", "parents"}
      BY <1>1, JobStages DEF TypeOK
    <3>3. QED
      BY <3>1, <3>2, ListEventsType
  <2>2. frames' = Tail(frames) /\ LazyDone(due, sweep) /\ UNCHANGED <<opened, must>>
    BY <1>5 DEF Frame
  <2>3. due' \subseteq Items /\ sweep' \subseteq Items
    BY <1>3, <2>2, GarbageType
  <2>4. QED
    BY <1>1, <1>2, <1>4, <2>1, <2>2, <2>3 DEF TypeOK
<1>6. CASE j.stage = "event"
  <2>1. cwdHashes' \subseteq Items
    BY <1>6, SetsOfItems DEF Frame, TypeOK
  <2>2. frames' \in Seq(Job)
    <3>1. [j EXCEPT !.stage = "content"] \in Job
      BY <1>1, JobStages
    <3>2. frames' \in {Tail(frames), Append(Tail(frames), [j EXCEPT !.stage = "content"])}
      BY <1>6 DEF Frame
    <3>3. QED
      BY <1>1, <3>1, <3>2
  <2>3. LazyDone(due, sweep) /\ UNCHANGED <<listed, opened, leaveOn, must, mixed>>
    BY <1>6 DEF Frame
  <2>4. due' \subseteq Items /\ sweep' \subseteq Items
    BY <1>3, <2>3, GarbageType
  <2>5. QED
    BY <1>2, <1>4, <2>1, <2>2, <2>3, <2>4 DEF TypeOK
<1>7. CASE j.stage = "done"
  <2>1. frames' = Tail(frames) /\ UNCHANGED <<shown, mixed>>
    BY <1>7 DEF Frame
  <2>2. /\ leaveOn' \in {"mkdir", "rm", "parents", None}
        /\ must' \in {"open", None}
    BY <1>7 DEF Frame, TypeOK
  <2>3. /\ opened' \in Closure \cup {None}
        /\ LazyDone(due \cup LeftBehind, sweep) \/ LazyDone(due, sweep)
    BY <1>7 DEF Frame, TypeOK
  <2>4. due' \subseteq Items /\ sweep' \subseteq Items
    BY <1>3, <2>3, GarbageType
  <2>5. QED
    BY <1>1, <1>2, <1>4, <2>1, <2>2, <2>3, <2>4 DEF TypeOK, shown
<1>8. CASE j.stage = "content"
  <2>1. /\ frames' = Tail(frames) /\ LazyDone(due, sweep)
        /\ UNCHANGED <<cwdHashes, opened, leaveOn, must>>
    BY <1>8 DEF Frame
  <2>2. listed' \subseteq Items /\ mixed' \subseteq Items
    BY <1>8 DEF Frame, TypeOK
  <2>3. due' \subseteq Items /\ sweep' \subseteq Items
    BY <1>3, <2>1, GarbageType
  <2>4. QED
    BY <1>1, <1>2, <1>4, <2>1, <2>2, <2>3 DEF TypeOK
<1>9. QED
  BY <1>5, <1>6, <1>7, <1>8 DEF Frame

-----------------------------------------------------------------------------
(* The disk and the requests.                                              *)

\* What is in something that is below a folder is below the folder.
LEMMA BelowIsDeep ==
    \A a \in Items \ {Root} : \A i \in Below(a) : Below(i) \subseteq Below(a)
<1> SUFFICES ASSUME NEW a \in Items \ {Root}, NEW i \in Below(a), NEW k \in Below(i)
             PROVE  k \in Below(a)
  OBVIOUS
<1>1. k \in Items /\ i \in Items /\ (k = i \/ Parent[k] = i)
  BY DEF Below
<1>2. CASE Parent[k] = i /\ Parent[i] = a
  <2>1. i \in Folders
    BY <1>1, <1>2, SetsOfItems
  <2>2. FALSE
    BY <1>1, <1>2, <2>1, ConstantsAssumption
  <2>3. QED
    BY <2>2
<1>3. QED
  BY <1>1, <1>2 DEF Below

\* What User and Must may ask for.
LEMMA AskKinds ==
    ASSUME TypeOK, NEW q \in Requests, User(q) \/ Must(q)
    PROVE  /\ must' = None
           /\ \E cmd \in {"open", "sync", "mkdir", "rm"}, about \in Items, what \in SUBSET Items :
                /\ Ask(q, cmd, about, what)
                /\ Meant(cmd, about, what)
                /\ cmd = "sync" => about = cwd
<1>0. must' = None
  BY DEF User, Must
<1>1. cwd \in Items /\ Above \in Folders /\ Root \in Items /\ Folders \subseteq Items
  BY SetsOfItems DEF TypeOK, Above
<1>2. ASSUME NEW i \in Items, AskOpen(q, i) \/ AskMkdir(q, i)
      PROVE  \E cmd \in {"open", "sync", "mkdir", "rm"}, about \in Items, what \in SUBSET Items :
                /\ Ask(q, cmd, about, what)
                /\ Meant(cmd, about, what)
                /\ cmd = "sync" => about = cwd
  <2>1. CASE AskOpen(q, i)
    <3>1. Ask(q, "open", i, {}) /\ Meant("open", i, {})
      BY <2>1 DEF AskOpen, Meant
    <3>2. QED
      BY <3>1
  <2>2. CASE AskMkdir(q, i)
    <3>1. Ask(q, "mkdir", i, {i}) /\ Meant("mkdir", i, {i}) /\ {i} \in SUBSET Items
      BY <2>2 DEF AskMkdir, Meant
    <3>2. QED
      BY <3>1
  <2>3. QED
    BY <1>2, <2>1, <2>2
<1>3. ASSUME NEW s \in SUBSET Items, AskRm(q, s)
      PROVE  \E cmd \in {"open", "sync", "mkdir", "rm"}, about \in Items, what \in SUBSET Items :
                /\ Ask(q, cmd, about, what)
                /\ Meant(cmd, about, what)
                /\ cmd = "sync" => about = cwd
  <2> DEFINE what == UNION {Below(i) : i \in s}
  <2>1. Ask(q, "rm", Root, what) /\ s \subseteq Items \ {Root}
    BY <1>3 DEF AskRm
  <2>2. \A i \in s : Root \notin Below(i) /\ Below(i) \subseteq Items
    BY <2>1, ConstantsAssumption DEF Below
  <2>3. \A i \in s : \A k \in Below(i) : Below(k) \subseteq Below(i)
    BY <2>1, BelowIsDeep
  <2>4. Meant("rm", Root, what) /\ what \in SUBSET Items
    BY <2>2, <2>3 DEF Meant
  <2>5. QED
    BY <1>1, <2>1, <2>4
<1>4. CASE AskSync(q)
  <2>1. Ask(q, "sync", cwd, {}) /\ Meant("sync", cwd, {})
    BY <1>4 DEF AskSync, Meant
  <2>2. cwd \in Items /\ {} \in SUBSET Items
    BY <1>1
  <2>3. QED
    BY <1>0, <2>1, <2>2
<1>5. CASE Must(q)
  <2>1. Ask(q, "open", Above, {}) /\ Meant("open", Above, {})
    BY <1>1, <1>5 DEF Must, Meant
  <2>2. QED
    BY <1>1, <1>5, <2>1 DEF Must
<1>7. QED
  BY <1>2, <1>3, <1>4, <1>5, <1>0 DEF User

\* Removing an item that is not the root leaves the disk in one piece.
LEMMA DiskWithout ==
    ASSUME TypeOK, DiskInv, NEW i \in Items \ {Root}, disk' = disk \ Below(i)
    PROVE  DiskInv'
<1>1. Root \in disk'
  BY ConstantsAssumption DEF DiskInv, Below
<1>2. ASSUME NEW k \in disk' \ {Root}
      PROVE  Parent[k] \in disk'
  <2>1. k \in Items \ {Root} /\ Parent[k] \in disk /\ Parent[k] # i
    BY DEF DiskInv, TypeOK, Below
  <2>2. Parent[k] \in Folders
    BY <2>1, SetsOfItems
  <2>3. Parent[Parent[k]] # i
    BY <2>2, ConstantsAssumption
  <2>4. QED
    BY <2>1, <2>3 DEF Below
<1>3. QED
  BY <1>1, <1>2 DEF DiskInv

\* So does everything the server does.
LEMMA ServeDisk ==
    ASSUME TypeOK, DiskInv, RequestInv, NEW q \in Requests, Serve(q)
    PROVE  DiskInv'
<1>1. /\ request[q].cmd \in {"open", "sync", "mkdir", "rm"}
      /\ Meant(request[q].cmd, request[q].about, request[q].what)
  BY DEF TypeOK, Asked, RequestInv
<1>2. CASE request[q].cmd = "rm"
  <2>1. /\ disk' \subseteq disk /\ disk \ disk' \subseteq request[q].what
        /\ \A i \in disk' : Parent[i] \notin disk \ disk'
    BY <1>2, ServeAnswers
  <2>2. Root \notin request[q].what
    BY <1>1, <1>2 DEF Meant
  <2>3. QED
    BY <2>1, <2>2 DEF DiskInv
<1>3. CASE request[q].cmd = "mkdir"
  <2>1. /\ request'[q].seen \subseteq {request[q].about}
        /\ disk' = disk \cup request'[q].seen
        /\ request'[q].seen # {} => Parent[request[q].about] \in disk
    BY <1>3, ServeAnswers
  <2>2. QED
    BY <2>1 DEF DiskInv
<1>4. CASE request[q].cmd \in {"open", "sync"}
  BY <1>4, ServeAnswers DEF DiskInv
<1>5. QED
  BY <1>1, <1>2, <1>3, <1>4

\* And whoever else changes the volume.
LEMMA ElsewhereDisk ==
    ASSUME TypeOK, DiskInv, NEW i \in Foreign, Elsewhere(i)
    PROVE  DiskInv'
<1>1. i \in Items \ {Root}
  BY ConstantsAssumption
<1>2. CASE i \in disk
  BY <1>1, <1>2, DiskWithout DEF Elsewhere
<1>3. CASE i \notin disk
  BY <1>3 DEF Elsewhere, DiskInv
<1>4. QED
  BY <1>2, <1>3

\* An open, or sync(), is alone: it has ended those that were under way.
LEMMA AskRequests ==
    ASSUME TypeOK, RequestInv, NEW q \in Requests,
           NEW cmd \in {"open", "sync", "mkdir", "rm"}, NEW about \in Items,
           NEW what \in SUBSET Items, Ask(q, cmd, about, what),
           Meant(cmd, about, what),
           cmd = "sync" => about = cwd
    PROVE  RequestInv'
<1>1. /\ request'[q].cmd = cmd /\ request'[q].about = about /\ request'[q].phase = "sent"
      /\ request'[q].what = what
  <2> DEFINE near == IF cmd = "sync" THEN AllChanging ELSE {}
  <2>1. request'[q] = [NewRequest EXCEPT !.cmd = cmd, !.about = about, !.what = what,
                                         !.phase = "sent", !.near = near]
    BY DEF Ask, Reads, Live
  <2>2. QED
    BY <2>1 DEF NewRequest
<1>2. ASSUME NEW p \in Requests, p # q, Reads(p), cmd \in {"open", "sync"}
      PROVE  /\ request'[p].phase = "over"
             /\ request'[p].cmd = "open" /\ request'[p].about = Root /\ request'[p].what = {}
  <2>1. request'[p] = [NewRequest EXCEPT !.phase = "over"]
    BY <1>2 DEF Ask
  <2>2. QED
    BY <2>1 DEF NewRequest
<1>3. ASSUME NEW p \in Requests, p # q, ~Reads(p) \/ cmd \notin {"open", "sync"}
      PROVE  /\ request'[p].phase = request[p].phase /\ request'[p].cmd = request[p].cmd
             /\ request'[p].about = request[p].about /\ request'[p].at = request[p].at
             /\ request'[p].what = request[p].what /\ request'[p].seen = request[p].seen
  <2>1. request[p] \in Asked
    BY DEF TypeOK
  <2>2. QED
    BY <1>3, <2>1 DEF Ask, Asked
<1>4. cwd' = cwd /\ request[q].phase = "new"
  BY DEF Ask
<1>5. \A p, r \in Requests : Reads(p)' /\ Reads(r)' => p = r
  BY <1>1, <1>2, <1>3, <1>4 DEF Reads, Live, RequestInv
<1>6. ASSUME NEW p \in Requests
      PROVE  /\ Meant(request'[p].cmd, request'[p].about, request'[p].what)
             /\ Live(p)' /\ request'[p].cmd = "sync" => request'[p].about = cwd'
             /\ request'[p].phase = "served" /\ request'[p].cmd \in {"open", "sync"} =>
                  request'[p].at \in Folders
             /\ request'[p].phase = "served" /\ request'[p].cmd = "open" =>
                  request'[p].seen \subseteq Children(Items, request'[p].at)
             /\ request'[p].phase = "served" /\ request'[p].cmd = "sync" =>
                  request'[p].seen \subseteq Children(Items, cwd') \cup Folders
  <2>1. CASE p = q
    BY <1>1, <1>4, <2>1 DEF Live
  <2>2. CASE p # q /\ Reads(p) /\ cmd \in {"open", "sync"}
    <3>1. Meant("open", Root, {})
      BY SetsOfItems DEF Meant
    <3>2. QED
      BY <1>2, <2>2, <3>1 DEF Live
  <2>3. CASE p # q /\ (~Reads(p) \/ cmd \notin {"open", "sync"})
    BY <1>3, <1>4, <2>3 DEF Live, RequestInv
  <2>4. QED
    BY <2>1, <2>2, <2>3
<1>7. QED
  BY <1>5, <1>6 DEF RequestInv

\* What the server has seen of a folder is in it, and of a folder that has gone nothing.
LEMMA ServeRequests ==
    ASSUME TypeOK, DiskInv, RequestInv, NEW q \in Requests, Serve(q)
    PROVE  RequestInv'
<1> DEFINE r == request[q]
<1>1. r \in Asked /\ r.about \in Items /\ r.phase = "sent"
  BY ServeAnswers DEF Asked
<1>2. /\ request'[q].cmd = r.cmd /\ request'[q].about = r.about
      /\ request'[q].what = r.what /\ request'[q].phase = "served"
  BY ServeAnswers
<1>3. \A p \in Requests \ {q} : request'[p] = request[p]
  BY ServeAnswers
<1>4. cwd' = cwd
  BY ServeAnswers
<1>5. r.cmd \in {"open", "sync"} => request'[q].at \in Folders /\ request'[q].at = Answered(q)
  <2>1. r.cmd \in {"open", "sync"} => r.about \in Folders
    BY <1>1 DEF RequestInv, Meant, Live, TypeOK
  <2>2. r.cmd \in {"open", "sync"} => request'[q].at = Answered(q)
    BY ServeAnswers
  <2>3. QED
    BY <1>1, <2>1, <2>2, AnsweredFolder
<1>6. r.cmd = "open" => request'[q].seen \subseteq Children(Items, request'[q].at)
  <2>1. SUFFICES ASSUME r.cmd = "open"
                 PROVE  request'[q].seen \subseteq Children(Items, request'[q].at)
    OBVIOUS
  <2>2. request'[q].seen = Children(disk, r.about)
    <3>1. request'[q].seen =
            Children(disk, r.about)
              \cup (IF r.cmd = "sync" THEN {Root} \cup (Children(disk, Root) \cap Folders) ELSE {})
      BY <2>1, ServeAnswers
    <3>2. QED
      BY <2>1, <3>1
  <2>3. CASE r.about \in disk
    BY <1>5, <2>1, <2>2, <2>3 DEF Answered, Children, TypeOK
  <2>4. CASE r.about \notin disk
    <3>1. Children(disk, r.about) = {}
      BY <1>1, <2>4, ConstantsAssumption DEF Children, DiskInv
    <3>2. QED
      BY <2>2, <3>1
  <2>5. QED
    BY <2>3, <2>4
<1>7. r.cmd = "sync" => request'[q].seen \subseteq Children(Items, cwd') \cup Folders
  <2>1. SUFFICES ASSUME r.cmd = "sync"
                 PROVE  request'[q].seen \subseteq Children(Items, cwd') \cup Folders
    OBVIOUS
  <2>2. r.about = cwd
    BY <1>1, <2>1 DEF RequestInv, Live
  <2>3. request'[q].seen =
          Children(disk, r.about) \cup ({Root} \cup (Children(disk, Root) \cap Folders))
    BY <2>1, ServeAnswers
  <2>4. QED
    BY <1>4, <2>2, <2>3, SetsOfItems DEF Children, TypeOK
<1>8. \A p \in Requests : Live(p)' = Live(p) /\ Reads(p)' = Reads(p)
  BY <1>1, <1>2, <1>3 DEF Reads, Live
<1>9. QED
  BY <1>1, <1>2, <1>3, <1>4, <1>5, <1>6, <1>7, <1>8 DEF RequestInv

\* Somebody else's doing only changes what sync() is known to have missed.
LEMMA ElsewhereRequests ==
    ASSUME TypeOK, RequestInv, NEW i \in Foreign, Elsewhere(i)
    PROVE  RequestInv'
<1>1. ASSUME NEW p \in Requests
      PROVE  /\ request'[p].phase = request[p].phase /\ request'[p].cmd = request[p].cmd
             /\ request'[p].about = request[p].about /\ request'[p].at = request[p].at
             /\ request'[p].what = request[p].what /\ request'[p].seen = request[p].seen
  <2>1. request[p] \in Asked
    BY DEF TypeOK
  <2>2. QED
    BY <2>1 DEF Elsewhere, Asked
<1>2. cwd' = cwd
  BY DEF Elsewhere
<1>3. QED
  BY <1>1, <1>2 DEF RequestInv, Reads, Live

\* The folder is only changed by an open, which is the only one under way.
LEMMA ApplyRequests ==
    ASSUME TypeOK, RequestInv, NEW q \in Requests, Apply(q)
    PROVE  RequestInv'
<1>1. /\ request'[q].phase = "over" /\ request'[q].cmd = "open" /\ request'[q].about = Root
      /\ request'[q].what = {}
      /\ \A p \in Requests \ {q} : request'[p] = request[p]
  BY DEF Apply, Finished, NewRequest, TypeOK
<1>0. Meant(request'[q].cmd, request'[q].about, request'[q].what)
  BY <1>1, SetsOfItems DEF Meant
<1>2. CASE cwd' = cwd
  BY <1>0, <1>1, <1>2, SetsOfItems DEF RequestInv, Reads, Live
<1>3. CASE request[q].cmd = "open"
  <2>1. Reads(q)
    BY <1>3 DEF Apply, Reads, Live
  <2>2. \A p \in Requests \ {q} : ~Reads(p)
    BY <2>1 DEF RequestInv
  <2>3. QED
    BY <1>0, <1>1, <2>2, SetsOfItems DEF RequestInv, Reads, Live
<1>4. QED
  BY <1>2, <1>3 DEF Apply, ApplyOpen, ApplyMkdir, ApplyRm, ApplySync

-----------------------------------------------------------------------------
(* The garbage collection.                                                 *)

\* It is only told of by the answers to an open, by frames, and by what ends an open.
CollectVars == <<files, cwd, kept, remember, opened, due, sweep>>

LEMMA CollectStays ==
    ASSUME CollectInv, UNCHANGED CollectVars
    PROVE  CollectInv'
BY DEF CollectInv, CollectVars, Astray, LeftBehind

\* What is ended shows what came before it, whether or not a frame is waited for.
LEMMA OpenDoneCollects ==
    ASSUME CollectInv, NEW lazy \in BOOLEAN, OpenDone(lazy),
           UNCHANGED <<files, cwd, kept, remember>>
    PROVE  CollectInv'
<1>1. \A i : Astray(i)' <=> Astray(i)
  BY DEF Astray
<1>2. opened' = None /\ LeftBehind' = {} /\ remember' \subseteq kept'
  BY DEF OpenDone, LeftBehind, CollectInv
<1>3. LeftBehind # {} => /\ due = {}
                         /\ \A i \in sweep : Astray(i) => i \in LeftBehind
  BY DEF LeftBehind, CollectInv
<1>4. CASE lazy
  BY <1>1, <1>2, <1>3, <1>4 DEF OpenDone, CollectInv
<1>5. CASE ~lazy
  BY <1>1, <1>2, <1>3, <1>5 DEF OpenDone, CollectInv
<1>6. QED
  BY <1>4, <1>5

\* A garbage collection that waits is handed on or begins; one that is put off by it
\* would not have looked at more.
LEMMA LazyDoneCollects ==
    ASSUME CollectInv, NEW d, LazyDone(d, sweep),
           UNCHANGED <<files, cwd, kept, remember>>,
           \/ d = due /\ opened' = opened
           \/ d = due \cup LeftBehind /\ opened' = None
    PROVE  CollectInv'
<1>1. \A i : Astray(i)' <=> Astray(i)
  BY DEF Astray
<1>2. d # {} => \A i \in sweep : Astray(i) => i \in d
  BY DEF LeftBehind, CollectInv
<1>3. \A i \in Items : Astray(i) => i \in d \cup sweep \cup LeftBehind'
  BY DEF LeftBehind, CollectInv
<1>4. opened' # None => d = {} /\ opened' = opened
  BY DEF CollectInv
<1>5. CASE due' = {} /\ sweep' = d /\ d # {}
  <2>1. opened' = None
    BY <1>4, <1>5
  <2>2. \A i \in Items : Astray(i)' => i \in due' \cup sweep' \cup LeftBehind'
    BY <1>1, <1>2, <1>3, <1>5
  <2>3. QED
    BY <1>5, <2>1, <2>2 DEF CollectInv
<1>6. CASE due' = d /\ sweep' = sweep
  BY <1>1, <1>2, <1>3, <1>4, <1>6 DEF CollectInv
<1>7. QED
  BY <1>5, <1>6 DEF LazyDone

\* The files of the folder that was left are those the open has to look at.
LEMMA ApplyOpenCollects ==
    ASSUME TypeOK, RequestInv, CollectInv, NEW q \in Requests, Apply(q), ApplyOpen(q)
    PROVE  CollectInv'
<1>1. /\ opened' = [prev |-> cwd, hashes |-> files] /\ due' = {} /\ UNCHANGED sweep
      /\ cwd' = request[q].at /\ files' = files \cup request[q].seen \cup {request[q].at}
      /\ UNCHANGED remember
  BY DEF Apply, ApplyOpen, CacheOpen
<1>2. opened' # None /\ opened'.prev = cwd /\ opened'.hashes = files
  <2>1. [prev |-> cwd, hashes |-> files] \in Closure
    BY DEF Closure, TypeOK
  <2>2. QED
    BY <1>1, <2>1, ConstantsAssumption
<1>3. kept \subseteq kept'
  BY DEF ApplyOpen
<1>4. request[q].at \in Folders /\ request[q].seen \subseteq Children(Items, request[q].at)
  BY DEF Apply, ApplyOpen, RequestInv
<1>5. \A i \in Items : Astray(i)' => i \in files /\ i \notin Folders /\ i \notin kept
  BY <1>1, <1>3, <1>4 DEF Astray, Children
<1>6. \A i \in Items : Astray(i)' => i \in due' \cup sweep' \cup LeftBehind'
  <2>1. CASE cwd' # cwd
    BY <1>2, <1>5, <2>1 DEF LeftBehind
  <2>2. CASE cwd' = cwd /\ (opened # None \/ due # {})
    <3>1. files \subseteq kept'
      BY <1>1, <2>2 DEF ApplyOpen
    <3>2. QED
      BY <1>5, <3>1 DEF Astray
  <2>3. CASE cwd' = cwd /\ opened = None /\ due = {}
    <3>1. \A i \in Items : Astray(i)' => Astray(i)
      BY <1>5, <2>3 DEF Astray
    <3>2. QED
      BY <1>1, <2>3, <3>1 DEF CollectInv, LeftBehind
  <2>4. QED
    BY <2>1, <2>2, <2>3
<1>7. remember' \subseteq kept'
  BY <1>1, <1>3 DEF CollectInv
<1>8. sweep' \subseteq Items
  BY <1>1 DEF TypeOK
<1>9. QED
  BY <1>1, <1>2, <1>5, <1>6, <1>7, <1>8 DEF CollectInv

\* What other answers add is of the folder that is shown, a folder, or kept.
LEMMA OtherAnswersCollect ==
    ASSUME TypeOK, RequestInv, CollectInv, NEW q \in Requests, Apply(q), ~ApplyOpen(q)
    PROVE  CollectInv'
<1>1. UNCHANGED <<cwd, remember, opened, due, sweep>>
  BY DEF Apply, ApplyMkdir, ApplyRm, ApplySync, garbage
<1>2. kept \subseteq kept'
  BY DEF Apply, ApplyMkdir, ApplyRm, ApplySync
<1>3. \A i \in files' \ files : Parent[i] = cwd \/ i \in kept' \/ i \in Folders
  <2>1. CASE ApplyMkdir(q)
    <3>1. files' \subseteq files \cup request[q].seen
      BY <2>1 DEF ApplyMkdir
    <3>2. \A i \in request[q].seen : Parent[i] = cwd \/ i \in kept'
      BY <2>1 DEF ApplyMkdir
    <3>3. QED
      BY <3>1, <3>2
  <2>2. CASE ApplyRm(q)
    BY <2>2 DEF ApplyRm, Removing
  <2>3. CASE ApplySync(q)
    <3>1. files' \subseteq files \cup request[q].seen \cup {request[q].at}
      BY <2>3 DEF ApplySync, Removing
    <3>2. /\ request[q].at \in Folders
          /\ request[q].seen \subseteq Children(Items, cwd) \cup Folders
      BY <2>3 DEF Apply, ApplySync, RequestInv
    <3>3. QED
      BY <3>1, <3>2 DEF Children
  <2>4. QED
    BY <2>1, <2>2, <2>3 DEF Apply
<1>4. \A i : Astray(i)' => Astray(i)
  BY <1>1, <1>2, <1>3 DEF Astray
<1>5. LeftBehind' = LeftBehind
  BY <1>1 DEF LeftBehind
<1>6. remember' \subseteq kept'
  BY <1>1, <1>2 DEF CollectInv
<1>7. QED
  BY <1>1, <1>4, <1>5, <1>6 DEF CollectInv

\* What has been looked at is gone, or it is of the folder that is shown, or kept.
LEMMA CollectCollects ==
    ASSUME CollectInv, Collect
    PROVE  CollectInv'
<1>1. /\ sweep' = {} /\ files' = files \ Garbage(sweep)
      /\ UNCHANGED <<cwd, kept, remember, opened, due>>
  BY DEF Collect
<1>2. \A i : Astray(i)' => Astray(i) /\ i \notin sweep
  BY <1>1 DEF Astray, Garbage, CollectInv
<1>3. LeftBehind' = LeftBehind
  BY <1>1 DEF LeftBehind
<1>4. QED
  BY <1>1, <1>2, <1>3 DEF CollectInv

\* Frames.
LEMMA FrameCollects ==
    ASSUME CollectInv, Frame
    PROVE  CollectInv'
<1>1. UNCHANGED <<files, cwd, remember, kept>>
  BY DEF Frame
<1>2. \/ LazyDone(due, sweep) /\ opened' = opened
      \/ LazyDone(due \cup LeftBehind, sweep) /\ opened' = None
  BY DEF Frame
<1>3. QED
  BY <1>1, <1>2, LazyDoneCollects

\* Every step keeps the cache in order.
LEMMA NextInv == IInv /\ [Next]_vars => IInv'
<1> SUFFICES ASSUME IInv, [Next]_vars PROVE IInv'
  OBVIOUS
<1> USE DEF IInv
<1>1. ASSUME UNCHANGED disk
      PROVE  DiskInv'
  BY <1>1 DEF DiskInv
<1>2. ASSUME UNCHANGED <<request, cwd>>
      PROVE  RequestInv'
  BY <1>2 DEF RequestInv, Reads, Live
<1>3. ASSUME NEW q \in Requests, User(q) \/ Must(q)
      PROVE  IInv'
  <2>1. PICK cmd \in {"open", "sync", "mkdir", "rm"}, about \in Items, what \in SUBSET Items :
          /\ Ask(q, cmd, about, what)
          /\ Meant(cmd, about, what)
          /\ cmd = "sync" => about = cwd
    BY <1>3, AskKinds
  <2>2. must' = None
    BY <1>3, AskKinds
  <2>3. TypeOK' /\ RequestInv'
    BY <2>1, <2>2, AskType, AskRequests
  <2>4. DiskInv'
    BY <1>1, <2>1 DEF Ask
  <2>5. CollectInv'
    <3>1. UNCHANGED <<files, cwd, kept, remember>>
      BY <2>1 DEF Ask
    <3>2. OpenDone(frames # <<>>) \/ UNCHANGED garbage
      BY <2>1 DEF Ask
    <3>3. (frames # <<>>) \in BOOLEAN
      OBVIOUS
    <3>4. QED
      BY <3>1, <3>2, <3>3, OpenDoneCollects, CollectStays DEF garbage, CollectVars
  <2>6. QED
    BY <2>3, <2>4, <2>5
<1>4. ASSUME NEW q \in Requests, Serve(q)
      PROVE  IInv'
  <2>1. CollectInv'
    BY <1>4, ServeAnswers, CollectStays DEF CollectVars, garbage
  <2>2. QED
    BY <1>4, <2>1, ServeType, ServeDisk, ServeRequests
<1>5. ASSUME NEW q \in Requests, Apply(q)
      PROVE  IInv'
  <2>1. DiskInv'
    BY <1>1, <1>5 DEF Apply
  <2>2. CollectInv'
    BY <1>5, ApplyOpenCollects, OtherAnswersCollect
  <2>3. QED
    BY <1>5, <2>1, <2>2, ApplyType, ApplyRequests
<1>6. CASE NoneLeft
  <2>1. TypeOK'
    BY <1>6 DEF NoneLeft, TypeOK, shown, garbage, history
  <2>2. QED
    BY <1>1, <1>2, <1>6, <2>1, CollectStays DEF NoneLeft, CollectVars, garbage, history
<1>7. ASSUME NEW s \in SUBSET Copied, Clipboard(s)
      PROVE  IInv'
  <2>1. TypeOK'
    BY <1>7 DEF Clipboard, TypeOK, shown, garbage
  <2>2. CollectInv'
    <3>1. /\ UNCHANGED <<files, cwd, opened, due, sweep>> /\ remember' \subseteq kept'
          /\ kept \subseteq kept'
      BY <1>7 DEF Clipboard, garbage
    <3>2. \A i : Astray(i)' => Astray(i)
      BY <3>1 DEF Astray
    <3>3. QED
      BY <3>1, <3>2 DEF CollectInv, LeftBehind
  <2>3. QED
    BY <1>1, <1>2, <1>7, <2>1, <2>2 DEF Clipboard
<1>8. ASSUME NEW i \in Foreign, Elsewhere(i)
      PROVE  IInv'
  <2>1. CollectInv'
    BY <1>8, CollectStays DEF Elsewhere, CollectVars, garbage
  <2>2. QED
    BY <1>8, <2>1, ElsewhereType, ElsewhereDisk, ElsewhereRequests
<1>9. CASE Frame
  BY <1>1, <1>2, <1>9, FrameType, FrameCollects DEF Frame
<1>10. CASE Timeout
  <2>1. Head(timeouts) \in Job /\ Tail(timeouts) \in Seq(Job)
    BY <1>10 DEF Timeout, TypeOK
  <2>2. TypeOK'
    BY <1>10, <2>1 DEF Timeout, TypeOK, shown, garbage, history
  <2>3. QED
    BY <1>1, <1>2, <1>10, <2>2, CollectStays DEF Timeout, CollectVars, garbage, history
<1>11. CASE Collect
  <2>1. TypeOK'
    BY <1>11 DEF Collect, TypeOK, shown
  <2>2. QED
    BY <1>1, <1>2, <1>11, <2>1, CollectCollects DEF Collect
<1>12. CASE UNCHANGED vars
  <2>1. TypeOK'
    BY <1>12 DEF vars, TypeOK, shown, garbage, history
  <2>2. QED
    BY <1>1, <1>2, <1>12, <2>1, CollectStays DEF vars, CollectVars, garbage, history
<1>13. QED
  BY <1>3, <1>4, <1>5, <1>6, <1>7, <1>8, <1>9, <1>10, <1>11, <1>12 DEF Next

\* A page whose first folder is shown has nothing to forget.
LEMMA InitInv == Init => IInv
<1> SUFFICES ASSUME Init PROVE IInv
  OBVIOUS
<1>1. TypeOK
  <2>1. /\ files \subseteq Items /\ cwdHashes \subseteq Items /\ listed \subseteq Items
        /\ disk \subseteq Items /\ cwd \in Folders
    <3>1. disk \subseteq Items
      BY DEF Init
    <3>2. Children(disk, Root) \subseteq Items
      BY <3>1, SetsOfItems
    <3>3. /\ files = {Root} \cup Children(disk, Root) /\ cwd = Root
          /\ cwdHashes = Children(disk, Root) /\ listed = Children(disk, Root)
      BY DEF Init
    <3>4. QED
      BY <3>1, <3>2, <3>3, SetsOfItems
  <2>2. request \in [Requests -> Asked]
    <3>1. request = [q \in Requests |-> NewRequest]
      BY DEF Init
    <3>2. QED
      BY <3>1, FreshRequest
  <2>3. frames \in Seq(Job) /\ timeouts \in Seq(Job)
    <3>1. frames = <<>> /\ timeouts = <<>>
      BY DEF Init
    <3>2. QED
      BY <3>1
  <2>4. QED
    BY <2>1, <2>2, <2>3 DEF Init, TypeOK
<1>2. DiskInv
  BY DEF Init, DiskInv
<1>3. RequestInv
  BY SetsOfItems DEF Init, RequestInv, Reads, Live, NewRequest, Meant
<1>4. CollectInv
  <2>1. \A i \in Items : ~Astray(i)
    BY SetsOfItems DEF Init, Astray, Children
  <2>2. QED
    BY <2>1 DEF Init, CollectInv
<1>5. QED
  BY <1>1, <1>2, <1>3, <1>4 DEF IInv

-----------------------------------------------------------------------------
(* What is listed.                                                         *)

\* A job that is added comes last.
LEMMA PushedJob ==
    ASSUME NEW s \in Seq(Job), NEW j \in Job
    PROVE  /\ Append(s, j) \in Seq(Job)
           /\ DOMAIN Append(s, j) = DOMAIN s \cup {Len(s) + 1}
           /\ Append(s, j)[Len(s) + 1] = j
           /\ Len(s) + 1 \notin DOMAIN s
           /\ \A n \in DOMAIN s : n \in Nat /\ n < Len(s) + 1 /\ Append(s, j)[n] = s[n]
<1>1. Len(s) \in Nat /\ DOMAIN s = 1..Len(s)
  OBVIOUS
<1>2. DOMAIN Append(s, j) = 1..(Len(s) + 1)
  OBVIOUS
<1>3. QED
  BY <1>1, <1>2

\* The others move up when the first is done.
LEMMA PoppedJob ==
    ASSUME NEW s \in Seq(Job), s # <<>>
    PROVE  /\ Head(s) \in Job /\ Tail(s) \in Seq(Job)
           /\ 1 \in DOMAIN s /\ s[1] = Head(s)
           /\ \A n \in DOMAIN s : n \in Nat
           /\ \A n \in DOMAIN Tail(s) : n \in Nat /\ n + 1 \in DOMAIN s /\ Tail(s)[n] = s[n + 1]
           /\ \A n \in DOMAIN s : n # 1 => n > 1 /\ n - 1 \in DOMAIN Tail(s) /\ s[n] = Tail(s)[n - 1]
<1>1. Len(s) \in Nat /\ Len(s) > 0 /\ DOMAIN s = 1..Len(s)
  OBVIOUS
<1>2. DOMAIN Tail(s) = 1..(Len(s) - 1) /\ \A n \in 1..(Len(s) - 1) : Tail(s)[n] = s[n + 1]
  OBVIOUS
<1>3. QED
  BY <1>1, <1>2

\* What is known of the jobs that wait when one more is added,
LEMMA Pushed ==
    ASSUME NEW s \in Seq(Job), NEW j \in Job
    PROVE  /\ AllNamed(Append(s, j)) = AllNamed(s) \cup Named(j)
           /\ \A t : Opening(Append(s, j), t) <=> Opening(s, t) \/ (j.cmd = "open" /\ j.stage \in t)
           /\ \A i, n : n \in DOMAIN s /\ LastWord(Append(s, j), i, n) =>
                /\ LastWord(s, i, n) /\ i \notin Named(j)
                /\ ~(j.cmd = "open" /\ j.stage = "update")
<1> DEFINE u == Append(s, j)
<1>1. /\ DOMAIN u = DOMAIN s \cup {Len(s) + 1} /\ u[Len(s) + 1] = j
      /\ \A n \in DOMAIN s : n \in Nat /\ n < Len(s) + 1 /\ u[n] = s[n]
  BY PushedJob
<1>2. Len(s) + 1 \in Nat
  OBVIOUS
<1> HIDE DEF u
<1>3. AllNamed(u) = AllNamed(s) \cup Named(j)
  BY <1>1 DEF AllNamed
<1>4. \A t : Opening(u, t) <=> Opening(s, t) \/ (j.cmd = "open" /\ j.stage \in t)
  BY <1>1 DEF Opening
<1>5. ASSUME NEW i, NEW n \in DOMAIN s, LastWord(u, i, n)
      PROVE  LastWord(s, i, n) /\ i \notin Named(j) /\ ~(j.cmd = "open" /\ j.stage = "update")
  <2>1. Len(s) + 1 > n /\ Len(s) + 1 \in DOMAIN u
    BY <1>1, <1>2
  <2>2. i \notin Named(j) /\ ~(j.cmd = "open" /\ j.stage = "update")
    BY <1>1, <1>5, <2>1 DEF LastWord
  <2>3. LastWord(s, i, n)
    BY <1>1, <1>5 DEF LastWord
  <2>4. QED
    BY <2>2, <2>3
<1>6. QED
  BY <1>3, <1>4, <1>5 DEF u

\* and when the first is done.
LEMMA Popped ==
    ASSUME NEW s \in Seq(Job), s # <<>>
    PROVE  /\ AllNamed(s) = AllNamed(Tail(s)) \cup Named(Head(s))
           /\ \A t : Opening(s, t) <=>
                Opening(Tail(s), t) \/ (Head(s).cmd = "open" /\ Head(s).stage \in t)
           /\ \A i, n : n \in DOMAIN Tail(s) /\ LastWord(Tail(s), i, n) => LastWord(s, i, n + 1)
           /\ \A i : i \notin AllNamed(Tail(s)) /\ ~Opening(Tail(s), {"update"}) => LastWord(s, i, 1)
<1> DEFINE u == Tail(s)  j == Head(s)
<1>1. /\ 1 \in DOMAIN s /\ s[1] = j
      /\ \A n \in DOMAIN s : n \in Nat
      /\ \A n \in DOMAIN u : n \in Nat /\ n + 1 \in DOMAIN s /\ u[n] = s[n + 1]
      /\ \A n \in DOMAIN s : n # 1 => n > 1 /\ n - 1 \in DOMAIN u /\ s[n] = u[n - 1]
  BY PoppedJob
<1> HIDE DEF u, j
<1>2. AllNamed(s) = AllNamed(u) \cup Named(j)
  <2>1. \A i : i \in AllNamed(s) <=> \E n \in DOMAIN s : i \in Named(s[n])
    BY DEF AllNamed
  <2>2. \A i : i \in AllNamed(u) <=> \E n \in DOMAIN u : i \in Named(u[n])
    BY DEF AllNamed
  <2>3. ASSUME NEW i \in AllNamed(s) PROVE i \in AllNamed(u) \cup Named(j)
    <3>1. PICK n \in DOMAIN s : i \in Named(s[n])
      BY <2>1, <2>3
    <3>2. CASE n = 1
      BY <1>1, <3>1, <3>2
    <3>3. CASE n # 1
      BY <1>1, <2>2, <3>1, <3>3
    <3>4. QED
      BY <3>2, <3>3
  <2>4. ASSUME NEW i \in AllNamed(u) PROVE i \in AllNamed(s)
    BY <1>1, <2>1, <2>2, <2>4
  <2>5. Named(j) \subseteq AllNamed(s)
    BY <1>1, <2>1
  <2>6. QED
    BY <2>3, <2>4, <2>5
<1>3. \A t : Opening(s, t) <=> Opening(u, t) \/ (j.cmd = "open" /\ j.stage \in t)
  BY <1>1 DEF Opening
<1>4. ASSUME NEW i, NEW n \in DOMAIN u, LastWord(u, i, n)
      PROVE  LastWord(s, i, n + 1)
  <2>1. SUFFICES ASSUME NEW m \in DOMAIN s, m > n + 1
                 PROVE  i \notin Named(s[m]) /\ ~(s[m].cmd = "open" /\ s[m].stage = "update")
    BY DEF LastWord
  <2>2. m - 1 \in DOMAIN u /\ m - 1 > n /\ s[m] = u[m - 1]
    BY <1>1, <2>1
  <2>3. QED
    BY <1>4, <2>2 DEF LastWord
<1>5. ASSUME NEW i, i \notin AllNamed(u), ~Opening(u, {"update"})
      PROVE  LastWord(s, i, 1)
  <2>1. SUFFICES ASSUME NEW m \in DOMAIN s, m > 1
                 PROVE  i \notin Named(s[m]) /\ ~(s[m].cmd = "open" /\ s[m].stage = "update")
    BY DEF LastWord
  <2>2. m - 1 \in DOMAIN u /\ s[m] = u[m - 1]
    BY <1>1, <2>1
  <2>3. QED
    BY <1>5, <2>2 DEF AllNamed, Opening
<1>6. QED
  BY <1>2, <1>3, <1>4, <1>5 DEF u, j

\* What is named is untold.
LEMMA NamedUntold ==
    ASSUME NEW s \in Seq(Job)
    PROVE  AllNamed(s) \subseteq Untold(s) /\ AllNamed(s) \subseteq Items
<1>1. \A n \in DOMAIN s : Named(s[n]) \subseteq Items
  <2>1. \A n \in DOMAIN s : s[n] \in Job
    OBVIOUS
  <2>2. QED
    BY <2>1 DEF Named, Job
<1>2. \A i \in Items : i \in Below(i)
  BY DEF Below
<1>3. QED
  BY <1>1, <1>2 DEF AllNamed, Untold, Named

-----------------------------------------------------------------------------
\* What the list depends on.
ListVars == <<files, cwd, shown, frames, timeouts, mixed>>

\* Asking for something changes nothing that the server has seen.
LEMMA AskSeen ==
    ASSUME TypeOK, SeenInv, NEW q \in Requests,
           NEW cmd \in {"open", "sync", "mkdir", "rm"}, NEW about \in Items,
           NEW what \in SUBSET Items, Ask(q, cmd, about, what)
    PROVE  SeenInv'
<1>1. ASSUME NEW p \in Requests
      PROVE  \/ request'[p].phase # "served"
             \/ /\ request[p].phase = "served" /\ request'[p].cmd = request[p].cmd
                /\ request'[p].seen = request[p].seen
  <2>1. request[p] \in Asked
    BY DEF TypeOK
  <2> DEFINE near == IF cmd = "sync" THEN AllChanging ELSE {}
  <2>2. \/ request'[p] = [NewRequest EXCEPT !.cmd = cmd, !.about = about, !.what = what,
                                            !.phase = "sent", !.near = near]
        \/ request'[p] = [NewRequest EXCEPT !.phase = "over"]
        \/ request'[p] = [request[p] EXCEPT !.near = @ \cup what]
        \/ request'[p] = request[p]
    BY DEF Ask
  <2>3. QED
    BY <2>1, <2>2 DEF NewRequest, Asked
<1>2. QED
  BY <1>1 DEF SeenInv

\* The tree of sync() has the folder whose items it sees.
LEMMA ServeSeen ==
    ASSUME TypeOK, DiskInv, RequestInv, SeenInv, NEW q \in Requests, Serve(q)
    PROVE  SeenInv'
<1> DEFINE r == request[q]
<1>1. r \in Asked /\ r.phase = "sent"
  BY ServeAnswers
<1>2. /\ \A p \in Requests \ {q} : request'[p] = request[p]
      /\ request'[q].cmd = r.cmd
  BY ServeAnswers
<1>3. ASSUME r.cmd = "sync", NEW i \in request'[q].seen \ {Root}
      PROVE  Parent[i] \in request'[q].seen
  <2>1. request'[q].seen =
          Children(disk, r.about) \cup ({Root} \cup (Children(disk, Root) \cap Folders))
    BY <1>3, ServeAnswers
  <2>2. r.about \in Folders
    BY <1>1, <1>3 DEF RequestInv, Live, TypeOK
  <2>3. CASE i \in Children(disk, Root)
    BY <2>1, <2>3 DEF Children
  <2>4. CASE i \in Children(disk, r.about)
    <3>1. Parent[i] = r.about /\ r.about \in disk
      BY <1>3, <2>4 DEF Children, DiskInv
    <3>2. r.about = Root \/ Parent[r.about] = Root
      BY <2>2, ConstantsAssumption
    <3>3. QED
      BY <2>1, <2>2, <3>1, <3>2 DEF Children
  <2>5. QED
    BY <1>3, <2>1, <2>3, <2>4
<1>4. QED
  BY <1>2, <1>3 DEF SeenInv

\* Somebody else's doing is not seen any more.
LEMMA ElsewhereSeen ==
    ASSUME TypeOK, SeenInv, NEW i \in Foreign, Elsewhere(i)
    PROVE  SeenInv'
<1>1. ASSUME NEW p \in Requests
      PROVE  /\ request'[p].phase = request[p].phase /\ request'[p].cmd = request[p].cmd
             /\ request'[p].seen = request[p].seen
  <2>1. request[p] \in Asked
    BY DEF TypeOK
  <2>2. QED
    BY <2>1 DEF Elsewhere, Asked
<1>2. QED
  BY <1>1 DEF SeenInv

\* Nor does an answer add to what others say.
LEMMA FinishedSeen ==
    ASSUME TypeOK, SeenInv, NEW q \in Requests, Finished(q)
    PROVE  SeenInv'
<1>1. request'[q].phase = "over" /\ \A p \in Requests \ {q} : request'[p] = request[p]
  BY DEF Finished, NewRequest, TypeOK
<1>2. QED
  BY <1>1 DEF SeenInv

\* News of a mkdir or rm: the list is told of what has changed in the cache, or the item is
\* mixed.
LEMMA NewsListed ==
    ASSUME TypeOK, ShownInv, NEW j \in Job, j.stage = "update", j.cmd # "open",
           frames' = Append(frames, j),
           UNCHANGED <<cwd, cwdHashes, listed, timeouts>>,
           mixed \subseteq mixed',
           \A i \in Items \ Named(j) : i \in files' => i \in files,
           \A i \in Items \ (Named(j) \cup mixed') : i \in files => i \in files',
           \A i \in Named(j) : i \in files' <=> i \in j.added,
           files' \subseteq Items
    PROVE  ShownInv'
<1>1. frames \in Seq(Job)
  BY DEF TypeOK
<1>2. /\ DOMAIN frames' = DOMAIN frames \cup {Len(frames) + 1}
      /\ frames'[Len(frames) + 1] = j
      /\ \A n \in DOMAIN frames : frames'[n] = frames[n]
  BY <1>1, PushedJob
<1>3. /\ AllNamed(frames') = AllNamed(frames) \cup Named(j)
      /\ \A t : Opening(frames', t) <=> Opening(frames, t)
      /\ \A i, n : n \in DOMAIN frames /\ LastWord(frames', i, n) =>
           LastWord(frames, i, n) /\ i \notin Named(j)
  BY <1>1, Pushed
<1>4. (Unsure' <=> Unsure) /\ (Redrawn' <=> Redrawn)
  BY <1>3 DEF Unsure, Redrawn
<1>5. JobsInv'
  BY <1>2 DEF ShownInv, JobsInv
<1>6. HashInv'
  BY <1>3, <1>4 DEF ShownInv, HashInv, Children
<1>7. WordInv'
  <2>1. SUFFICES ASSUME NEW n \in DOMAIN frames',
                        NEW i \in Children(Named(frames'[n]), cwd) \ mixed',
                        LastWord(frames', i, n)
                 PROVE  i \in files' <=> i \in frames'[n].added
    BY DEF WordInv
  <2>2. i \in Named(frames'[n]) /\ Parent[i] = cwd /\ i \notin mixed' /\ i \notin mixed
    BY <2>1 DEF Children
  <2>3. CASE n \in DOMAIN frames
    <3>1. LastWord(frames, i, n) /\ i \notin Named(j) /\ frames'[n] = frames[n]
      BY <1>2, <1>3, <2>1, <2>3
    <3>2. i \in Children(Named(frames[n]), cwd) \ mixed
      BY <2>2, <3>1 DEF Children
    <3>3. i \in files <=> i \in frames[n].added
      BY <2>3, <3>1, <3>2 DEF ShownInv, WordInv
    <3>4. i \in Items
      BY <1>1, <2>2, <2>3, <3>1, NamedUntold DEF AllNamed
    <3>5. QED
      BY <2>2, <3>1, <3>3, <3>4
  <2>4. CASE n = Len(frames) + 1
    BY <1>2, <2>2, <2>4
  <2>5. QED
    BY <1>2, <2>3, <2>4
<1>8. ListInv'
  BY <1>3, <1>4 DEF ShownInv, ListInv, Children
<1>9. QED
  BY <1>5, <1>6, <1>7, <1>8 DEF ShownInv

\* An open that has been answered says more of the folder than any job before it.
LEMMA ApplyOpenListed ==
    ASSUME TypeOK, ShownInv, NEW q \in Requests, Apply(q), ApplyOpen(q)
    PROVE  ShownInv'
<1> DEFINE j == [stage |-> "update", cmd |-> "open", added |-> {}, removed |-> {}]
<1>1. /\ frames \in Seq(Job) /\ j \in Job /\ j.cmd = "open" /\ j.stage = "update"
      /\ Named(j) = {}
  BY DEF TypeOK, Job, Named
<1>2. frames' = Append(frames, j) /\ timeouts' = timeouts
  BY DEF Apply, ApplyOpen, NewJob
<1> HIDE DEF j
<1>3. /\ DOMAIN frames' = DOMAIN frames \cup {Len(frames) + 1}
      /\ frames'[Len(frames) + 1] = j
      /\ \A n \in DOMAIN frames : frames'[n] = frames[n]
  BY <1>1, <1>2, PushedJob
<1>4. Opening(frames', {"update", "event"})
  BY <1>1, <1>3 DEF Opening
<1>5. Unsure' /\ Redrawn'
  BY <1>4 DEF Unsure, Redrawn
<1>6. \A i, n : n \in DOMAIN frames => ~LastWord(frames', i, n)
  BY <1>1, <1>2, Pushed
<1>7. JobsInv'
  BY <1>1, <1>2, <1>3 DEF ShownInv, JobsInv
<1>8. WordInv'
  <2>1. \A i : i \notin Named(frames'[Len(frames) + 1])
    BY <1>1, <1>3
  <2>2. QED
    BY <1>3, <1>6, <2>1 DEF WordInv, Children
<1>9. QED
  BY <1>5, <1>7, <1>8 DEF ShownInv, HashInv, ListInv

\* What has been made is named.
LEMMA ApplyMkdirListed ==
    ASSUME TypeOK, ShownInv, NEW q \in Requests, Apply(q), ApplyMkdir(q)
    PROVE  ShownInv'
<1> DEFINE seen == request[q].seen
           j == [stage |-> "update", cmd |-> "mkdir", added |-> seen, removed |-> {}]
<1>1. /\ seen \in SUBSET Items /\ j \in Job /\ j.stage = "update" /\ j.cmd # "open"
      /\ Named(j) = seen /\ j.added = seen
  BY DEF TypeOK, Asked, Job, Named
<1>2. UNCHANGED <<cwd, cwdHashes, listed, timeouts, mixed>>
  BY DEF Apply, ApplyMkdir, shown
<1>3. files' = files \cup seen /\ frames' = Append(frames, j)
  BY DEF ApplyMkdir, NewJob
<1>4. files' \subseteq Items
  BY <1>1, <1>3 DEF TypeOK
<1> HIDE DEF j, seen
<1>5. QED
  BY <1>1, <1>2, <1>3, <1>4, NewsListed

\* What has been removed is named, or it went with its folder.
LEMMA ApplyRmListed ==
    ASSUME TypeOK, ShownInv, NEW q \in Requests, Apply(q), ApplyRm(q)
    PROVE  ShownInv'
<1> DEFINE seen == request[q].seen
           j == [stage |-> "update", cmd |-> "rm", added |-> {}, removed |-> seen]
<1>1. /\ seen \in SUBSET Items /\ j \in Job /\ j.stage = "update" /\ j.cmd # "open"
      /\ Named(j) = seen /\ j.added = {}
  BY DEF TypeOK, Asked, Job, Named
<1>2. /\ UNCHANGED <<cwd, cwdHashes, listed, timeouts>>
      /\ frames' = Append(frames, j)
      /\ files' = Removing(seen) /\ mixed' = mixed \cup TakenAlong(seen)
  BY DEF Apply, ApplyRm, shown, NewJob
<1>3. \A i \in seen : i \notin files'
  BY <1>1, <1>2 DEF Removing, Below
<1>4. files' \subseteq files /\ files' \subseteq Items
  BY <1>2 DEF Removing, TypeOK
<1>5. \A i : i \in files /\ i \notin seen /\ i \notin mixed' => i \in files'
  BY <1>2 DEF TakenAlong
<1>6. mixed \subseteq mixed'
  BY <1>2
<1> HIDE DEF j, seen
<1>7. QED
  BY <1>1, <1>2, <1>3, <1>4, <1>5, <1>6, NewsListed

\* sync() changes the cache and the list together; what is named by jobs that wait is mixed.
LEMMA ApplySyncListed ==
    ASSUME TypeOK, RequestInv, SeenInv, ShownInv, NEW q \in Requests, Apply(q), ApplySync(q)
    PROVE  ShownInv'
<1> DEFINE seen == request[q].seen
           gone == files \ seen
           new == (seen \ files) \cup {request[q].at}
           f == Removing(gone) \cup new
<1>1. PICK c \in {"open", "parents"} : ListEvents(f, c, new, gone, Untold(frames))
  BY DEF ApplySync
<1>2. UNCHANGED <<cwd, frames, timeouts>> /\ files' = f /\ frames \in Seq(Job)
  BY DEF Apply, ApplySync, TypeOK
<1>3. \A i \in seen \ {Root} : Parent[i] \in seen
  BY DEF Apply, ApplySync, SeenInv
<1>4. \A i \in Items : i \in files' <=> (i \in files /\ i \notin gone) \/ i \in new
  <2>1. SUFFICES ASSUME NEW i \in files, i \in seen, NEW g \in gone, i \in Below(g)
                 PROVE  FALSE
    BY <1>2 DEF Removing, Below, TypeOK
  <2>2. i # g /\ Parent[i] = g /\ g \in Items
    BY <2>1 DEF Below, TypeOK
  <2>3. i # Root
    BY <2>2, ConstantsAssumption
  <2>4. QED
    BY <1>3, <2>1, <2>2, <2>3
<1>5. cwdHashes' = Children(f, cwd)
  BY <1>1 DEF ListEvents
<1>6. AllNamed(frames) \subseteq mixed' /\ mixed \subseteq mixed'
  BY <1>1, <1>2, NamedUntold DEF ListEvents
<1>7. Lost(f, c) => Children(Items, cwd) \subseteq mixed'
  BY <1>1 DEF ListEvents
<1>8. ~Lost(f, c) => listed' = (listed \ gone) \cup Children(new, cwd)
  BY <1>1 DEF ListEvents
<1> HIDE DEF f, new, gone, seen
<1>9. HashInv'
  BY <1>2, <1>5 DEF HashInv
<1>10. WordInv'
  <2>1. \A n \in DOMAIN frames : Named(frames[n]) \subseteq mixed'
    BY <1>6 DEF AllNamed
  <2>2. QED
    BY <1>2, <2>1 DEF WordInv, Children
<1>11. ListInv'
  <2>1. SUFFICES ASSUME ~Redrawn, NEW i \in Children(Items, cwd) \ (mixed' \cup AllNamed(frames))
                 PROVE  i \in listed' <=> i \in files'
    BY <1>2 DEF ListInv, Redrawn, Unsure
  <2>2. i \in Items /\ Parent[i] = cwd /\ ~Lost(f, c)
    BY <1>7, <2>1 DEF Children
  <2>3. i \in listed <=> i \in files
    BY <1>6, <2>1 DEF ShownInv, ListInv
  <2>4. i \in listed' <=> (i \in listed /\ i \notin gone) \/ i \in new
    BY <1>8, <2>2 DEF Children
  <2>5. QED
    BY <1>4, <2>2, <2>3, <2>4
<1>12. JobsInv'
  BY <1>2 DEF ShownInv, JobsInv
<1>13. QED
  BY <1>9, <1>10, <1>11, <1>12 DEF ShownInv

\* The garbage collection leaves what is shown.
LEMMA CollectListed ==
    ASSUME ShownInv, Collect
    PROVE  ShownInv'
<1>1. /\ files' = files \ Garbage(sweep)
      /\ UNCHANGED <<cwd, frames, timeouts, cwdHashes, listed, mixed>>
  BY DEF Collect, shown
<1>2. \A i : Parent[i] = cwd => (i \in files' <=> i \in files)
  BY <1>1 DEF Garbage
<1>3. (Unsure' <=> Unsure) /\ (Redrawn' <=> Redrawn) /\ JobsInv'
  BY <1>1 DEF Unsure, Redrawn, ShownInv, JobsInv
<1>4. HashInv'
  BY <1>1, <1>2, <1>3 DEF ShownInv, HashInv, Children
<1>5. WordInv'
  BY <1>1, <1>2 DEF ShownInv, WordInv, Children
<1>6. ListInv'
  BY <1>1, <1>2, <1>3 DEF ShownInv, ListInv, Children
<1>7. QED
  BY <1>3, <1>4, <1>5, <1>6 DEF ShownInv

\* A job that goes on names nothing any more.
LEMMA NextStageNames ==
    ASSUME NEW j \in Job
    PROVE  /\ NextStage(j) \in Job /\ Named(NextStage(j)) = {}
           /\ NextStage(j).cmd = j.cmd
           /\ NextStage(j).stage = IF j.stage = "update" THEN "event" ELSE "done"
BY DEF NextStage, Job, Named

\* A timeout hands on what an open has still to show.
LEMMA TimeoutListed ==
    ASSUME TypeOK, ShownInv, Timeout
    PROVE  ShownInv'
<1> DEFINE j == Head(timeouts)
<1>1. /\ frames \in Seq(Job) /\ timeouts \in Seq(Job) /\ timeouts # <<>>
      /\ frames' = Append(frames, j) /\ timeouts' = Tail(timeouts)
      /\ UNCHANGED <<files, cwd, cwdHashes, listed, mixed>>
  BY DEF Timeout, TypeOK, shown, history
<1>2. /\ j \in Job /\ 1 \in DOMAIN timeouts /\ timeouts[1] = j
      /\ \A n \in DOMAIN Tail(timeouts) : n + 1 \in DOMAIN timeouts
                                          /\ Tail(timeouts)[n] = timeouts[n + 1]
  BY <1>1, PoppedJob
<1>3. /\ j.stage \in {"event", "done"} /\ Named(j) = {}
  BY <1>2 DEF ShownInv, JobsInv
<1> HIDE DEF j
<1>4. /\ DOMAIN frames' = DOMAIN frames \cup {Len(frames) + 1}
      /\ frames'[Len(frames) + 1] = j
      /\ \A n \in DOMAIN frames : frames'[n] = frames[n]
  BY <1>1, <1>2, PushedJob
<1>5. JobsInv'
  BY <1>1, <1>2, <1>3, <1>4 DEF ShownInv, JobsInv
<1>6. /\ AllNamed(frames') = AllNamed(frames)
      /\ \A t : Opening(frames', t) <=> Opening(frames, t) \/ (j.cmd = "open" /\ j.stage \in t)
      /\ \A i, n : n \in DOMAIN frames /\ LastWord(frames', i, n) => LastWord(frames, i, n)
  <2>1. AllNamed(frames') = AllNamed(frames) \cup Named(j)
    BY <1>1, <1>2, Pushed
  <2>2. \A t : Opening(frames', t) <=> Opening(frames, t) \/ (j.cmd = "open" /\ j.stage \in t)
    BY <1>1, <1>2, Pushed
  <2>3. \A i, n : n \in DOMAIN frames /\ LastWord(frames', i, n) => LastWord(frames, i, n)
    BY <1>1, <1>2, Pushed
  <2>4. QED
    BY <1>3, <2>1, <2>2, <2>3
<1>7. \A t : Opening(timeouts, t) <=>
        Opening(timeouts', t) \/ (j.cmd = "open" /\ j.stage \in t)
  BY <1>1, Popped DEF j
<1>8. Unsure' <=> Unsure
  BY <1>3, <1>6, <1>7 DEF Unsure
<1>9. Redrawn' <=> Redrawn
  BY <1>3, <1>6, <1>8 DEF Redrawn
<1>10. HashInv'
  BY <1>1, <1>6, <1>8 DEF ShownInv, HashInv
<1>11. WordInv'
  BY <1>1, <1>3, <1>4, <1>6 DEF ShownInv, WordInv, Children
<1>12. ListInv'
  BY <1>1, <1>6, <1>9 DEF ShownInv, ListInv
<1>13. QED
  BY <1>5, <1>10, <1>11, <1>12 DEF ShownInv

\* What the others say is the same when the first job has been taken away.
LEMMA WordsPopped ==
    ASSUME TypeOK, ShownInv, frames # <<>>, UNCHANGED <<files, cwd>>,
           NEW m, \A i \in AllNamed(Tail(frames)) : i \in mixed => i \in m,
           NEW n \in DOMAIN Tail(frames),
           NEW i \in Children(Named(Tail(frames)[n]), cwd) \ m,
           LastWord(Tail(frames), i, n)
    PROVE  i \in files <=> i \in Tail(frames)[n].added
<1>1. n + 1 \in DOMAIN frames /\ Tail(frames)[n] = frames[n + 1]
  BY PoppedJob DEF TypeOK
<1>2. LastWord(frames, i, n + 1)
  BY Popped DEF TypeOK
<1>3. i \in Children(Named(frames[n + 1]), cwd) \ mixed
  BY <1>1 DEF Children, AllNamed
<1>4. QED
  BY <1>1, <1>2, <1>3 DEF ShownInv, WordInv

\* The events of an answer: the list is told of what has changed.
LEMMA UpdateListed ==
    ASSUME TypeOK, ShownInv, Frame, Head(frames).stage = "update"
    PROVE  ShownInv'
<1> DEFINE j == Head(frames)
<1>1. /\ frames \in Seq(Job) /\ timeouts \in Seq(Job) /\ frames # <<>>
      /\ frames' = Tail(frames) /\ timeouts' = Append(timeouts, NextStage(j))
      /\ UNCHANGED <<files, cwd>>
      /\ ListEvents(files, currentReqCmd, j.added, j.removed, {})
  BY DEF Frame, TypeOK
<1>2. /\ j \in Job /\ 1 \in DOMAIN frames /\ frames[1] = j
      /\ \A n \in DOMAIN Tail(frames) : n + 1 \in DOMAIN frames
                                        /\ Tail(frames)[n] = frames[n + 1]
  BY <1>1, PoppedJob
<1>3. /\ NextStage(j) \in Job /\ Named(NextStage(j)) = {}
      /\ NextStage(j).cmd = j.cmd /\ NextStage(j).stage = "event" /\ j.stage = "update"
  BY <1>2, NextStageNames
<1>4. /\ DOMAIN timeouts' = DOMAIN timeouts \cup {Len(timeouts) + 1}
      /\ timeouts'[Len(timeouts) + 1] = NextStage(j)
      /\ \A n \in DOMAIN timeouts : timeouts'[n] = timeouts[n]
  BY <1>1, <1>3, PushedJob
<1>5. /\ AllNamed(frames) = AllNamed(frames') \cup Named(j)
      /\ \A t : Opening(frames, t) <=> Opening(frames', t) \/ (j.cmd = "open" /\ j.stage \in t)
      /\ \A i : i \notin AllNamed(frames') /\ ~Opening(frames', {"update"}) => LastWord(frames, i, 1)
  BY <1>1, Popped
<1>6. \A t : Opening(timeouts', t) <=>
        Opening(timeouts, t) \/ (NextStage(j).cmd = "open" /\ NextStage(j).stage \in t)
  BY <1>1, <1>3, Pushed
<1>7. /\ cwdHashes' = IF Named(j) = {} THEN cwdHashes ELSE Children(files, cwd)
      /\ mixed \subseteq mixed'
      /\ Lost(files, currentReqCmd) => Children(Items, cwd) \subseteq mixed'
      /\ ~Lost(files, currentReqCmd) => listed' = (listed \ j.removed) \cup Children(j.added, cwd)
  BY <1>1 DEF ListEvents, Named
<1> HIDE DEF j
<1>8. JobsInv'
  <2>1. \A n \in DOMAIN frames' : frames'[n].stage # "update" => Named(frames'[n]) = {}
    BY <1>1, <1>2 DEF ShownInv, JobsInv
  <2>2. \A n \in DOMAIN timeouts' : timeouts'[n].stage \in {"event", "done"}
                                    /\ Named(timeouts'[n]) = {}
    BY <1>3, <1>4 DEF ShownInv, JobsInv
  <2>3. QED
    BY <2>1, <2>2 DEF JobsInv
<1>9. Unsure' <=> Unsure
  BY <1>3, <1>5, <1>6 DEF Unsure
<1>10. Redrawn' <=> Redrawn
  BY <1>3, <1>5, <1>9 DEF Redrawn
<1>11. HashInv'
  BY <1>1, <1>5, <1>7, <1>9 DEF ShownInv, HashInv, Children
<1>12. WordInv'
  <2>1. SUFFICES ASSUME NEW n \in DOMAIN Tail(frames),
                        NEW i \in Children(Named(Tail(frames)[n]), cwd) \ mixed',
                        LastWord(Tail(frames), i, n)
                 PROVE  i \in files <=> i \in Tail(frames)[n].added
    BY <1>1 DEF WordInv
  <2>2. \A k \in AllNamed(Tail(frames)) : k \in mixed => k \in mixed'
    BY <1>7
  <2>3. QED
    BY <1>1, <2>1, <2>2, WordsPopped
<1>13. ListInv'
  <2>1. SUFFICES ASSUME ~Redrawn, ~Redrawn',
                        NEW i \in Children(Items, cwd) \ (mixed' \cup AllNamed(frames'))
                 PROVE  i \in listed' <=> i \in files
    BY <1>1, <1>10 DEF ListInv
  <2>2. i \in Items /\ Parent[i] = cwd /\ i \notin mixed /\ ~Lost(files, currentReqCmd)
    BY <1>7, <2>1 DEF Children
  <2>3. i \in listed' <=> (i \in listed /\ i \notin j.removed) \/ i \in j.added
    BY <1>7, <2>2 DEF Children
  <2>4. CASE i \in Named(j)
    <3>1. ~Opening(frames', {"update"})
      BY <2>1 DEF Redrawn, Unsure, Opening
    <3>2. LastWord(frames, i, 1)
      BY <1>5, <2>1, <3>1
    <3>3. i \in Children(Named(frames[1]), cwd) \ mixed
      BY <1>2, <2>2, <2>4 DEF Children
    <3>4. i \in files <=> i \in j.added
      BY <1>2, <3>2, <3>3 DEF ShownInv, WordInv
    <3>5. QED
      BY <2>3, <2>4, <3>4 DEF Named
  <2>5. CASE i \notin Named(j)
    <3>1. i \in listed <=> i \in files
      BY <1>5, <2>1, <2>2, <2>5 DEF ShownInv, ListInv, Children
    <3>2. QED
      BY <2>3, <2>5, <3>1 DEF Named
  <2>6. QED
    BY <2>4, <2>5
<1>14. QED
  BY <1>8, <1>11, <1>12, <1>13 DEF ShownInv

\* The event itself: an open works out what is to be shown.
LEMMA EventListed ==
    ASSUME TypeOK, ShownInv, Frame, Head(frames).stage = "event"
    PROVE  ShownInv'
<1> DEFINE j == Head(frames)
           c == [j EXCEPT !.stage = "content"]
<1>1. /\ frames \in Seq(Job) /\ timeouts \in Seq(Job) /\ frames # <<>>
      /\ timeouts' = Append(timeouts, NextStage(j))
      /\ frames' = IF j.cmd = "open" THEN Append(Tail(frames), c) ELSE Tail(frames)
      /\ cwdHashes' = IF j.cmd = "open" THEN Children(files, cwd) ELSE cwdHashes
      /\ UNCHANGED <<files, cwd, listed, mixed>>
  BY DEF Frame, TypeOK
<1>2. /\ j \in Job /\ 1 \in DOMAIN frames /\ frames[1] = j /\ Tail(frames) \in Seq(Job)
      /\ \A n \in DOMAIN Tail(frames) : n + 1 \in DOMAIN frames
                                        /\ Tail(frames)[n] = frames[n + 1]
  BY <1>1, PoppedJob
<1>3. Named(j) = {}
  BY <1>2 DEF ShownInv, JobsInv
<1>4. /\ c \in Job /\ Named(c) = {} /\ c.cmd = j.cmd /\ c.stage = "content"
      /\ j.stage = "event"
  BY <1>2, <1>3 DEF Job, Named
<1>5. /\ NextStage(j) \in Job /\ Named(NextStage(j)) = {} /\ NextStage(j).stage = "done"
  BY <1>2, <1>4, NextStageNames
<1>6. /\ DOMAIN timeouts' = DOMAIN timeouts \cup {Len(timeouts) + 1}
      /\ timeouts'[Len(timeouts) + 1] = NextStage(j)
      /\ \A n \in DOMAIN timeouts : timeouts'[n] = timeouts[n]
  BY <1>1, <1>5, PushedJob
<1>7. \A t : Opening(frames, t) <=>
        Opening(Tail(frames), t) \/ (j.cmd = "open" /\ j.stage \in t)
  BY <1>1, Popped
<1>8. Opening(timeouts', {"event"}) <=> Opening(timeouts, {"event"})
  BY <1>1, <1>5, Pushed
<1>9. AllNamed(frames) = AllNamed(Tail(frames))
  <2>1. AllNamed(frames) = AllNamed(Tail(frames)) \cup Named(j)
    BY <1>1, Popped
  <2>2. QED
    BY <1>3, <2>1
<1>10. \A n \in DOMAIN timeouts' : timeouts'[n].stage \in {"event", "done"}
                                   /\ Named(timeouts'[n]) = {}
  BY <1>5, <1>6 DEF ShownInv, JobsInv
<1>11. \A n \in DOMAIN Tail(frames) :
         Tail(frames)[n].stage # "update" => Named(Tail(frames)[n]) = {}
  BY <1>2 DEF ShownInv, JobsInv
<1>12. \A n \in DOMAIN Tail(frames) :
         \A i \in Children(Named(Tail(frames)[n]), cwd) \ mixed :
           LastWord(Tail(frames), i, n) => (i \in files <=> i \in Tail(frames)[n].added)
  BY <1>1, WordsPopped
<1> HIDE DEF j, c
<1>13. CASE j.cmd # "open"
  <2>1. frames' = Tail(frames) /\ cwdHashes' = cwdHashes
    BY <1>1, <1>13
  <2>2. (Unsure' <=> Unsure) /\ (Redrawn' <=> Redrawn)
    BY <1>7, <1>8, <1>13, <2>1 DEF Unsure, Redrawn
  <2>3. JobsInv'
    BY <1>10, <1>11, <2>1 DEF JobsInv
  <2>4. HashInv'
    BY <1>1, <1>9, <2>1, <2>2 DEF ShownInv, HashInv
  <2>5. WordInv'
    BY <1>1, <1>12, <2>1 DEF WordInv
  <2>6. ListInv'
    BY <1>1, <1>9, <2>1, <2>2 DEF ShownInv, ListInv
  <2>7. QED
    BY <2>3, <2>4, <2>5, <2>6 DEF ShownInv
<1>14. CASE j.cmd = "open"
  <2>1. frames' = Append(Tail(frames), c) /\ cwdHashes' = Children(files, cwd)
    BY <1>1, <1>14
  <2>2. /\ DOMAIN frames' = DOMAIN Tail(frames) \cup {Len(Tail(frames)) + 1}
        /\ frames'[Len(Tail(frames)) + 1] = c
        /\ \A n \in DOMAIN Tail(frames) : frames'[n] = Tail(frames)[n]
    BY <1>2, <1>4, <2>1, PushedJob
  <2>3. JobsInv'
    BY <1>4, <1>10, <1>11, <2>2 DEF JobsInv
  <2>4. HashInv'
    BY <1>1, <2>1 DEF HashInv
  <2>5. WordInv'
    <3>1. \A i, n : n \in DOMAIN Tail(frames) /\ LastWord(frames', i, n) =>
                      LastWord(Tail(frames), i, n)
      BY <1>2, <1>4, <2>1, Pushed
    <3>2. SUFFICES ASSUME NEW n \in DOMAIN frames',
                          NEW i \in Children(Named(frames'[n]), cwd) \ mixed,
                          LastWord(frames', i, n)
                   PROVE  i \in files <=> i \in frames'[n].added
      BY <1>1 DEF WordInv
    <3>3. n \in DOMAIN Tail(frames)
      BY <1>4, <2>2, <3>2 DEF Children
    <3>4. QED
      BY <1>12, <2>2, <3>1, <3>2, <3>3
  <2>6. Redrawn'
    <3>1. Opening(frames', {"content"})
      BY <1>4, <1>14, <2>2 DEF Opening
    <3>2. QED
      BY <3>1 DEF Redrawn
  <2>7. QED
    BY <2>3, <2>4, <2>5, <2>6 DEF ShownInv, ListInv
<1>15. QED
  BY <1>13, <1>14

\* The end of an answer's events changes nothing of the list; content() makes it what is to
\* be shown.
LEMMA LastStagesListed ==
    ASSUME TypeOK, ShownInv, Frame, Head(frames).stage \in {"done", "content"}
    PROVE  ShownInv'
<1> DEFINE j == Head(frames)
<1>1. /\ frames \in Seq(Job) /\ frames # <<>>
      /\ frames' = Tail(frames)
      /\ UNCHANGED <<files, cwd, timeouts, cwdHashes>>
      /\ j.stage = "done" => UNCHANGED <<listed, mixed>>
      /\ j.stage = "content" => /\ listed' = cwdHashes \cap files
                                /\ mixed' = mixed \cap Untold(frames')
  BY DEF Frame, TypeOK, shown
<1>2. /\ 1 \in DOMAIN frames /\ frames[1] = j /\ Tail(frames) \in Seq(Job)
      /\ \A n \in DOMAIN Tail(frames) : n + 1 \in DOMAIN frames
                                        /\ Tail(frames)[n] = frames[n + 1]
  BY <1>1, PoppedJob
<1>3. Named(j) = {}
  BY <1>2 DEF ShownInv, JobsInv
<1>4. \A t : Opening(frames, t) <=> Opening(frames', t) \/ (j.cmd = "open" /\ j.stage \in t)
  BY <1>1, Popped
<1>5. AllNamed(frames) = AllNamed(frames')
  <2>1. AllNamed(frames) = AllNamed(frames') \cup Named(j)
    BY <1>1, Popped
  <2>2. QED
    BY <1>3, <2>1
<1>6. \A i \in AllNamed(frames') : i \in mixed => i \in mixed'
  BY <1>1, <1>2, NamedUntold
<1> HIDE DEF j
<1>7. Unsure' <=> Unsure
  BY <1>1, <1>4 DEF Unsure, j
<1>8. JobsInv'
  BY <1>1, <1>2 DEF ShownInv, JobsInv
<1>9. HashInv'
  BY <1>1, <1>5, <1>7 DEF ShownInv, HashInv
<1>10. WordInv'
  <2>1. SUFFICES ASSUME NEW n \in DOMAIN Tail(frames),
                        NEW i \in Children(Named(Tail(frames)[n]), cwd) \ mixed',
                        LastWord(Tail(frames), i, n)
                 PROVE  i \in files <=> i \in Tail(frames)[n].added
    BY <1>1 DEF WordInv
  <2>2. QED
    BY <1>1, <1>6, <2>1, WordsPopped
<1>11. ListInv'
  <2>1. CASE j.stage = "done"
    <3>1. Redrawn' <=> Redrawn
      BY <1>4, <1>7, <2>1 DEF Redrawn
    <3>2. QED
      BY <1>1, <1>5, <2>1, <3>1 DEF ShownInv, ListInv
  <2>2. CASE j.stage = "content"
    <3>1. SUFFICES ASSUME ~Redrawn', NEW i \in Children(Items, cwd) \ AllNamed(frames)
                   PROVE  i \in listed' <=> i \in files
      BY <1>1, <1>5 DEF ListInv
    <3>2. ~Unsure
      BY <1>7, <3>1 DEF Redrawn
    <3>3. i \in files => i \in cwdHashes
      BY <3>1, <3>2 DEF ShownInv, HashInv, Children
    <3>4. QED
      BY <1>1, <2>2, <3>3
  <2>3. QED
    BY <2>1, <2>2 DEF j
<1>12. QED
  BY <1>8, <1>9, <1>10, <1>11 DEF ShownInv

\* Every step keeps the list in order.
LEMMA NextListed == IInv /\ SeenInv /\ ShownInv /\ [Next]_vars => SeenInv' /\ ShownInv'
<1> SUFFICES ASSUME IInv, SeenInv, ShownInv, [Next]_vars PROVE SeenInv' /\ ShownInv'
  OBVIOUS
<1>0. TypeOK /\ DiskInv /\ RequestInv
  BY DEF IInv
<1>1. ASSUME UNCHANGED ListVars
      PROVE  ShownInv'
  BY <1>1 DEF ShownInv, ListVars, shown, JobsInv, HashInv, WordInv, ListInv, Unsure, Redrawn
<1>2. ASSUME UNCHANGED request
      PROVE  SeenInv'
  BY <1>2 DEF SeenInv
<1>3. ASSUME NEW q \in Requests, User(q) \/ Must(q)
      PROVE  SeenInv' /\ ShownInv'
  <2>1. PICK cmd \in {"open", "sync", "mkdir", "rm"}, about \in Items, what \in SUBSET Items :
          Ask(q, cmd, about, what)
    BY <1>0, <1>3, AskKinds
  <2>2. SeenInv'
    BY <1>0, <2>1, AskSeen
  <2>3. QED
    BY <1>1, <2>1, <2>2 DEF Ask, ListVars
<1>4. ASSUME NEW q \in Requests, Serve(q)
      PROVE  SeenInv' /\ ShownInv'
  <2>1. UNCHANGED ListVars
    BY <1>0, <1>4, ServeAnswers DEF ListVars
  <2>2. QED
    BY <1>0, <1>1, <1>4, <2>1, ServeSeen
<1>5. ASSUME NEW q \in Requests, Apply(q)
      PROVE  SeenInv' /\ ShownInv'
  <2>1. SeenInv'
    BY <1>0, <1>5, FinishedSeen DEF Apply
  <2>2. ApplyOpen(q) \/ ApplyMkdir(q) \/ ApplyRm(q) \/ ApplySync(q)
    BY <1>5 DEF Apply
  <2>3. QED
    BY <1>0, <1>5, <2>1, <2>2, ApplyOpenListed, ApplyMkdirListed, ApplyRmListed, ApplySyncListed
<1>6. CASE NoneLeft
  BY <1>1, <1>2, <1>6 DEF NoneLeft, ListVars, history
<1>7. ASSUME NEW s \in SUBSET Copied, Clipboard(s)
      PROVE  SeenInv' /\ ShownInv'
  BY <1>1, <1>2, <1>7 DEF Clipboard, ListVars
<1>8. ASSUME NEW i \in Foreign, Elsewhere(i)
      PROVE  SeenInv' /\ ShownInv'
  BY <1>0, <1>1, <1>8, ElsewhereSeen DEF Elsewhere, ListVars
<1>9. CASE Frame
  <2>1. Head(frames) \in Job
    BY <1>0, <1>9, PoppedJob DEF Frame, TypeOK
  <2>2. Head(frames).stage \in {"update", "event", "done", "content"}
    BY <2>1 DEF Job
  <2>3. ShownInv'
    BY <1>0, <1>9, <2>2, UpdateListed, EventListed, LastStagesListed
  <2>4. QED
    BY <1>2, <1>9, <2>3 DEF Frame
<1>10. CASE Timeout
  BY <1>0, <1>2, <1>10, TimeoutListed DEF Timeout
<1>11. CASE Collect
  BY <1>2, <1>11, CollectListed DEF Collect
<1>12. CASE UNCHANGED vars
  BY <1>1, <1>2, <1>12 DEF vars, ListVars, history
<1>13. QED
  BY <1>3, <1>4, <1>5, <1>6, <1>7, <1>8, <1>9, <1>10, <1>11, <1>12 DEF Next

\* The page's first folder is listed.
LEMMA InitListed == Init => SeenInv /\ ShownInv
<1> SUFFICES ASSUME Init PROVE SeenInv /\ ShownInv
  OBVIOUS
<1>1. DOMAIN frames = {} /\ DOMAIN timeouts = {}
  BY DEF Init
<1>2. SeenInv
  BY DEF Init, SeenInv, NewRequest
<1>3. JobsInv /\ WordInv
  BY <1>1 DEF JobsInv, WordInv
<1>4. /\ cwd = Root /\ files = {Root} \cup Children(disk, Root)
      /\ listed = Children(disk, Root) /\ cwdHashes = Children(disk, Root)
  BY DEF Init
<1>5. Parent[Root] # Root
  BY ConstantsAssumption
<1>6. HashInv /\ ListInv
  BY <1>4, <1>5 DEF HashInv, ListInv, Children
<1>7. QED
  BY <1>2, <1>3, <1>6 DEF ShownInv

-----------------------------------------------------------------------------
(* The cache and the disk.                                                 *)

\* A request that goes on, and sync() may only learn of more.
GoesOn(p) ==
    /\ request'[p].phase = request[p].phase /\ request'[p].cmd = request[p].cmd
    /\ request'[p].about = request[p].about /\ request'[p].what = request[p].what
    /\ request'[p].at = request[p].at
    /\ request'[p].seen = request[p].seen /\ request[p].near \subseteq request'[p].near

\* What asking does to the requests.
LEMMA AskedRequests ==
    ASSUME TypeOK, NEW q \in Requests,
           NEW cmd \in {"open", "sync", "mkdir", "rm"}, NEW about \in Items,
           NEW what \in SUBSET Items, Ask(q, cmd, about, what)
    PROVE  /\ request'[q].phase = "sent" /\ request'[q].cmd = cmd /\ request'[q].what = what
           /\ cmd = "sync" => request'[q].near = AllChanging
           /\ \A p \in Requests \ {q} :
                \/ Reads(p) /\ request'[p].phase = "over"
                \/ /\ GoesOn(p)
                   /\ Reads(p) => cmd \notin {"open", "sync"}
                   /\ Live(p) /\ request[p].cmd = "sync" =>
                        what \subseteq request'[p].near
<1> DEFINE near == IF cmd = "sync" THEN AllChanging ELSE {}
<1>1. request'[q] = [NewRequest EXCEPT !.cmd = cmd, !.about = about, !.what = what,
                                       !.phase = "sent", !.near = near]
  BY DEF Ask, Reads, Live
<1>2. ASSUME NEW p \in Requests \ {q}, Reads(p), cmd \in {"open", "sync"}
      PROVE  request'[p].phase = "over"
  <2>1. request'[p] = [NewRequest EXCEPT !.phase = "over"]
    BY <1>2 DEF Ask
  <2>2. QED
    BY <2>1 DEF NewRequest
<1>3. ASSUME NEW p \in Requests \ {q}, ~Reads(p) \/ cmd \notin {"open", "sync"}
      PROVE  /\ GoesOn(p)
             /\ Live(p) /\ request[p].cmd = "sync" => what \subseteq request'[p].near
  <2>1. request[p] \in Asked
    BY DEF TypeOK
  <2>2. CASE Live(p) /\ request[p].cmd = "sync"
    <3>1. request'[p] = [request[p] EXCEPT !.near = @ \cup what]
      BY <1>3, <2>2 DEF Ask
    <3>2. QED
      BY <2>1, <3>1 DEF GoesOn, Asked
  <2>3. CASE ~(Live(p) /\ request[p].cmd = "sync")
    <3>1. request'[p] = request[p]
      BY <1>3, <2>3 DEF Ask
    <3>2. QED
      BY <2>3, <3>1 DEF GoesOn
  <2>4. QED
    BY <2>2, <2>3
<1>4. QED
  <2>1. /\ request'[q].phase = "sent" /\ request'[q].cmd = cmd /\ request'[q].what = what
        /\ cmd = "sync" => request'[q].near = AllChanging
    BY <1>1 DEF NewRequest
  <2>2. QED
    BY <1>2, <1>3, <2>1

\* Requests that go on, or end, stay apart.
LEMMA ApartStays ==
    ASSUME ApartInv, crossed \subseteq crossed',
           NEW P \in SUBSET Requests,
           \A p \in P : \/ ~Live(p)'
                        \/ /\ Live(p) /\ request'[p].cmd = request[p].cmd
                           /\ request'[p].what = request[p].what
                           /\ request[p].near \subseteq request'[p].near
    PROVE  /\ \A p \in P : Changing(p)' \subseteq Changing(p)
           /\ \A p, r \in P : p # r => Changing(p)' \cap Changing(r)' \subseteq crossed'
           /\ \A p, r \in P :
                Live(r)' /\ request'[r].cmd = "sync" => Changing(p)' \subseteq request'[r].near
           /\ \A p, r \in P :
                Live(r)' /\ request'[r].cmd = "open" /\ Live(p)' /\ request'[p].cmd = "rm"
                    => Changing(p)' \subseteq crossed'
<1>1. \A p \in P : Changing(p)' \subseteq Changing(p)
  BY DEF Changing
<1>2. \A p, r \in P : p # r => Changing(p)' \cap Changing(r)' \subseteq crossed'
  BY <1>1 DEF ApartInv
<1>3. \A p, r \in P :
         Live(r)' /\ request'[r].cmd = "sync" => Changing(p)' \subseteq request'[r].near
  BY <1>1 DEF ApartInv
<1>4. \A p, r \in P :
         Live(r)' /\ request'[r].cmd = "open" /\ Live(p)' /\ request'[p].cmd = "rm"
            => Changing(p)' \subseteq crossed'
  BY <1>1 DEF ApartInv
<1>5. QED
  BY <1>1, <1>2, <1>3, <1>4

\* A new request either keeps off what others change or is noted as crossing them.
LEMMA AskApart ==
    ASSUME TypeOK, ApartInv, NEW q \in Requests,
           NEW cmd \in {"open", "sync", "mkdir", "rm"}, NEW about \in Items,
           NEW what \in SUBSET Items, Ask(q, cmd, about, what),
           cmd \in {"open", "sync"} => what = {}
    PROVE  ApartInv'
<1> DEFINE P == Requests \ {q}
<1>1. /\ request'[q].phase = "sent" /\ request'[q].cmd = cmd /\ request'[q].what = what
      /\ cmd = "sync" => request'[q].near = AllChanging
  BY AskedRequests
<1>2. \A p \in P :
         \/ Reads(p) /\ request'[p].phase = "over"
         \/ /\ GoesOn(p)
            /\ Reads(p) => cmd \notin {"open", "sync"}
            /\ Live(p) /\ request[p].cmd = "sync" => what \subseteq request'[p].near
  BY AskedRequests
<1>3. crossed' = crossed \cup Overtakes(cmd, what)
  BY DEF Ask
<1>4. \A p \in P : \/ ~Live(p)'
                   \/ /\ Live(p) /\ GoesOn(p)
                      /\ Reads(p) => cmd \notin {"open", "sync"}
                      /\ request[p].cmd = "sync" => what \subseteq request'[p].near
  BY <1>2 DEF Live, GoesOn
<1>5. /\ \A p \in P : Changing(p)' \subseteq Changing(p)
      /\ \A p, r \in P : p # r => Changing(p)' \cap Changing(r)' \subseteq crossed'
      /\ \A p, r \in P :
           Live(r)' /\ request'[r].cmd = "sync" => Changing(p)' \subseteq request'[r].near
      /\ \A p, r \in P :
           Live(r)' /\ request'[r].cmd = "open" /\ Live(p)' /\ request'[p].cmd = "rm"
              => Changing(p)' \subseteq crossed'
  <2>1. \A p \in P : \/ ~Live(p)'
                     \/ /\ Live(p) /\ request'[p].cmd = request[p].cmd
                        /\ request'[p].what = request[p].what
                        /\ request[p].near \subseteq request'[p].near
    BY <1>4 DEF GoesOn
  <2>2. crossed \subseteq crossed' /\ P \in SUBSET Requests
    BY <1>3
  <2> HIDE DEF P
  <2>3. QED
    BY <2>1, <2>2, ApartStays
<1>6. Changing(q)' = what
  BY <1>1 DEF Changing, Live
<1>7. ASSUME NEW p \in P
      PROVE  Changing(p)' \cap Changing(q)' \subseteq crossed'
  <2>1. Changing(p)' \subseteq AllChanging
    BY <1>5 DEF AllChanging
  <2>2. CASE cmd = "mkdir"
    BY <1>3, <1>6, <2>1, <2>2 DEF Overtakes
  <2>3. CASE cmd = "rm"
    BY <1>3, <1>6, <2>1, <2>3 DEF Overtakes
  <2>4. CASE cmd \notin {"mkdir", "rm"}
    BY <1>6, <2>4
  <2>5. QED
    BY <2>2, <2>3, <2>4
<1>8. ASSUME NEW p \in P
      PROVE  /\ cmd = "sync" => Changing(p)' \subseteq request'[q].near
             /\ Live(p)' /\ request'[p].cmd = "sync" => Changing(q)' \subseteq request'[p].near
  <2>1. cmd = "sync" => Changing(p)' \subseteq request'[q].near
    BY <1>1, <1>5 DEF AllChanging
  <2>2. Live(p)' /\ request'[p].cmd = "sync" => Changing(q)' \subseteq request'[p].near
    BY <1>4, <1>6 DEF GoesOn
  <2>3. QED
    BY <2>1, <2>2
<1>9. cmd = "sync" => Changing(q)' \subseteq request'[q].near
  BY <1>6
<1>10. ASSUME NEW p \in P, cmd = "open", Live(p)', request'[p].cmd = "rm"
       PROVE  Changing(p)' \subseteq crossed'
  <2>1. Live(p) /\ request[p].cmd = "rm"
    BY <1>4, <1>10 DEF GoesOn
  <2>2. Changing(p) \subseteq Overtakes(cmd, what)
    BY <1>10, <2>1 DEF Overtakes
  <2>3. QED
    BY <1>3, <1>5, <2>2
<1>11. ASSUME NEW p \in P, cmd = "rm", Live(p)', request'[p].cmd = "open"
       PROVE  Changing(q)' \subseteq crossed'
  <2>1. Live(p) /\ request[p].cmd = "open"
    BY <1>4, <1>11 DEF GoesOn
  <2>2. what \subseteq Overtakes(cmd, what)
    BY <1>11, <2>1 DEF Overtakes, Reads
  <2>3. QED
    BY <1>3, <1>6, <1>11, <2>2
<1>12. \A p, r \in Requests : p # r => Changing(p)' \cap Changing(r)' \subseteq crossed'
  BY <1>5, <1>7
<1>13. \A p, r \in Requests :
          Live(r)' /\ request'[r].cmd = "sync" => Changing(p)' \subseteq request'[r].near
  BY <1>1, <1>5, <1>8, <1>9
<1>14. \A p, r \in Requests :
          Live(r)' /\ request'[r].cmd = "open" /\ Live(p)' /\ request'[p].cmd = "rm"
             => Changing(p)' \subseteq crossed'
  BY <1>1, <1>5, <1>10, <1>11
<1>15. QED
  BY <1>12, <1>13, <1>14 DEF ApartInv

\* What has been answered stays true while nothing changes the disk or the cache.
LEMMA AnswersStay ==
    ASSUME ChangeInv, ReadInv, CacheInv, UNCHANGED <<disk, files, cwd>>,
           crossed \subseteq crossed',
           \A p \in Requests : \/ GoesOn(p)
                               \/ request'[p].phase # "served" /\ request[p].phase # "served"
                               \/ request'[p].phase # "served" /\ Reads(p)
    PROVE  ChangeInv' /\ ReadInv' /\ CacheInv'
<1>1. \A p \in Requests : request'[p].phase = "served" => request[p].phase = "served" /\ GoesOn(p)
  BY DEF GoesOn
<1>2. ASSUME NEW cmd \in {"mkdir", "rm"}, NEW i, ToldBy(cmd, i)
      PROVE  ToldBy(cmd, i)'
  <2>1. PICK p \in Requests :
          request[p].phase = "served" /\ request[p].cmd = cmd /\ i \in request[p].seen
    BY <1>2 DEF ToldBy
  <2>2. GoesOn(p)
    BY <2>1 DEF Reads
  <2>3. QED
    BY <2>1, <2>2 DEF ToldBy, GoesOn
<1>3. ChangeInv'
  BY <1>1 DEF ChangeInv, GoesOn
<1>4. ReadInv'
  <2> SUFFICES ASSUME NEW p \in Requests, request'[p].phase = "served"
               PROVE  /\ request'[p].cmd = "open" =>
                           /\ request'[p].seen \cup {request'[p].at} \subseteq disk' \cup crossed'
                           /\ request'[p].at = request'[p].about =>
                                \A i \in Children(disk', request'[p].at) \ crossed' :
                                    i \in request'[p].seen \cup files' \/ ToldBy("mkdir", i)'
                      /\ request'[p].cmd = "sync" =>
                           /\ request'[p].at \in request'[p].seen
                           /\ request'[p].seen \subseteq disk' \cup request'[p].near
                           /\ Children(disk', cwd') \subseteq request'[p].seen \cup request'[p].near
    BY DEF ReadInv
  <2>1. request[p].phase = "served" /\ GoesOn(p)
    BY <1>1
  <2>2. CASE request[p].cmd = "open"
    <3>1. /\ request[p].seen \cup {request[p].at} \subseteq disk \cup crossed
          /\ request[p].at = request[p].about =>
               \A i \in Children(disk, request[p].at) \ crossed :
                    i \in request[p].seen \cup files \/ ToldBy("mkdir", i)
      BY <2>1, <2>2 DEF ReadInv
    <3>2. QED
      BY <1>2, <2>1, <2>2, <3>1 DEF GoesOn
  <2>3. CASE request[p].cmd = "sync"
    <3>1. /\ request[p].at \in request[p].seen
          /\ request[p].seen \subseteq disk \cup request[p].near
          /\ Children(disk, cwd) \subseteq request[p].seen \cup request[p].near
      BY <2>1, <2>3 DEF ReadInv
    <3>2. QED
      BY <2>1, <2>3, <3>1 DEF GoesOn
  <2>4. QED
    BY <2>1, <2>2, <2>3 DEF GoesOn
<1>5. CacheInv'
  BY <1>2 DEF CacheInv
<1>6. QED
  BY <1>3, <1>4, <1>5

\* Asking.
LEMMA AskTrue ==
    ASSUME TypeOK, TrueInv, NEW q \in Requests,
           NEW cmd \in {"open", "sync", "mkdir", "rm"}, NEW about \in Items,
           NEW what \in SUBSET Items, Ask(q, cmd, about, what),
           cmd \in {"open", "sync"} => what = {}
    PROVE  TrueInv'
<1>1. UNCHANGED <<disk, files, cwd>> /\ crossed \subseteq crossed'
  BY DEF Ask
<1>2. \A p \in Requests : \/ GoesOn(p)
                          \/ request'[p].phase # "served" /\ request[p].phase # "served"
                          \/ request'[p].phase # "served" /\ Reads(p)
  <2>1. request'[q].phase = "sent" /\ request[q].phase = "new"
    <3>1. request'[q].phase = "sent"
      BY AskedRequests
    <3>2. request[q].phase = "new"
      BY DEF Ask
    <3>3. QED
      BY <3>1, <3>2
  <2>2. \A p \in Requests \ {q} : GoesOn(p) \/ (Reads(p) /\ request'[p].phase = "over")
    BY AskedRequests
  <2>3. QED
    BY <2>1, <2>2
<1>3. QED
  BY <1>1, <1>2, AskApart, AnswersStay DEF TrueInv

\* Where nothing is asked, served or answered.
LEMMA TrueStays ==
    ASSUME TrueInv, UNCHANGED <<disk, request, cwd, files, crossed>>
    PROVE  TrueInv'
<1>1. \A p \in Requests : GoesOn(p)
  BY DEF GoesOn
<1>2. ApartInv'
  BY DEF TrueInv, ApartInv, Changing, Live
<1>3. QED
  BY <1>1, <1>2, AnswersStay DEF TrueInv

\* What the server does is what the request may change, and its answer says so.
LEMMA ServeTrue ==
    ASSUME TypeOK, DiskInv, RequestInv, TrueInv, NEW q \in Requests, Serve(q)
    PROVE  TrueInv'
<1> DEFINE r == request[q]
<1>1. r \in Asked /\ r.about \in Items /\ r.phase = "sent" /\ Changing(q) = r.what
  BY ServeAnswers DEF Asked, Changing, Live
<1>2. /\ request'[q].cmd = r.cmd /\ request'[q].about = r.about /\ request'[q].what = r.what
      /\ request'[q].phase = "served" /\ request'[q].near = r.near
  BY ServeAnswers
<1>3. \A p \in Requests \ {q} : request'[p] = request[p]
  BY ServeAnswers
<1>4. UNCHANGED <<files, cwd>> /\ crossed \subseteq crossed'
  BY ServeAnswers
<1>5. ApartInv'
  <2>1. \A p \in Requests : /\ Live(p)' = Live(p) /\ request'[p].cmd = request[p].cmd
                            /\ request'[p].what = request[p].what
                            /\ request'[p].near = request[p].near
    BY <1>1, <1>2, <1>3 DEF Live
  <2>2. \A p \in Requests : Changing(p)' = Changing(p)
    BY <2>1 DEF Changing
  <2>3. QED
    BY <1>4, <2>1, <2>2 DEF TrueInv, ApartInv
\* The disk is only changed where the request may change it.
<1>6. /\ r.cmd \in {"open", "sync", "mkdir", "rm"}
      /\ r.cmd = "mkdir" => r.what = {r.about}
  BY <1>1 DEF Asked, RequestInv, Meant
<1>7. /\ disk' \ disk \subseteq r.what /\ disk \ disk' \subseteq r.what
      /\ disk' # disk => r.cmd \in {"mkdir", "rm"}
      /\ r.cmd # "mkdir" => disk' \subseteq disk
      /\ r.cmd # "rm" => disk \subseteq disk'
  <2>1. CASE r.cmd \in {"open", "sync"}
    BY <2>1, ServeAnswers
  <2>2. CASE r.cmd = "mkdir"
    <3>1. request'[q].seen \subseteq {r.about} /\ disk' = disk \cup request'[q].seen
      BY <2>2, ServeAnswers
    <3>2. QED
      BY <1>6, <2>2, <3>1
  <2>3. CASE r.cmd = "rm"
    <3>1. disk' \subseteq disk /\ disk \ disk' \subseteq r.what
      BY <2>3, ServeAnswers
    <3>2. QED
      BY <2>3, <3>1
  <2>4. QED
    BY <1>6, <2>1, <2>2, <2>3
<1>8. ASSUME NEW p \in Requests \ {q}
      PROVE  /\ Changing(p) \cap Changing(q) \subseteq crossed
             /\ Live(p) /\ request[p].cmd = "sync" => Changing(q) \subseteq request[p].near
             /\ Live(p) /\ request[p].cmd = "open" /\ r.cmd = "rm" => Changing(q) \subseteq crossed
  BY <1>1, <1>8 DEF TrueInv, ApartInv, Live
<1>9. ASSUME NEW cmd, NEW i, ToldBy(cmd, i)
      PROVE  ToldBy(cmd, i)'
  BY <1>1, <1>3, <1>9 DEF ToldBy
<1>10. \A i \in disk' \ disk : ToldBy("mkdir", i)'
  <2>1. ASSUME NEW i \in disk' \ disk
        PROVE  r.cmd = "mkdir" /\ i \in request'[q].seen
    <3>1. r.cmd = "mkdir"
      BY <1>7, <2>1
    <3>2. disk' = disk \cup request'[q].seen
      BY <3>1, ServeAnswers
    <3>3. QED
      BY <2>1, <3>1, <3>2
  <2>2. QED
    BY <1>2, <2>1 DEF ToldBy
<1>11. \A i \in disk \ disk' : ToldBy("rm", i)' \/ i \in crossed'
  <2>1. ASSUME NEW i \in disk \ disk'
        PROVE  r.cmd = "rm" /\ i \in request'[q].seen \cup crossed'
    <3>1. r.cmd = "rm"
      BY <1>7, <2>1
    <3>2. disk \ disk' \subseteq request'[q].seen \cup crossed'
      BY <3>1, ServeAnswers
    <3>3. QED
      BY <2>1, <3>1, <3>2
  <2>2. QED
    BY <1>2, <2>1 DEF ToldBy
<1>12. ChangeInv'
  <2> SUFFICES ASSUME NEW p \in Requests, request'[p].phase = "served"
               PROVE  /\ request'[p].cmd = "mkdir" =>
                           request'[p].seen \subseteq request'[p].what \cap (disk' \cup crossed')
                      /\ request'[p].cmd = "rm" =>
                           /\ request'[p].seen \subseteq request'[p].what
                           /\ request'[p].seen # {} => disk' \cap request'[p].what \subseteq crossed'
    BY DEF ChangeInv
  <2>1. CASE p = q /\ r.cmd = "mkdir"
    <3>1. request'[q].seen \subseteq {r.about} /\ disk' = disk \cup request'[q].seen
      BY <2>1, ServeAnswers
    <3>2. QED
      BY <1>2, <1>6, <2>1, <3>1
  <2>2. CASE p = q /\ r.cmd = "rm"
    <3>1. /\ request'[q].seen \subseteq r.what
          /\ request'[q].seen # {} => disk' \cap r.what = {}
      BY <2>2, ServeAnswers
    <3>2. QED
      BY <1>2, <2>2, <3>1
  <2>3. CASE p # q
    <3>1. request'[p] = request[p] /\ request[p].phase = "served"
      BY <1>3, <2>3
    <3>2. CASE request[p].cmd = "mkdir"
      <4>1. request[p].seen \subseteq request[p].what \cap (disk \cup crossed)
        BY <3>1, <3>2 DEF TrueInv, ChangeInv
      <4>2. Changing(p) = request[p].what
        BY <3>1, <3>2 DEF Changing, Live
      <4>3. QED
        BY <1>1, <1>4, <1>7, <1>8, <2>3, <3>1, <3>2, <4>1, <4>2
    <3>3. CASE request[p].cmd = "rm"
      <4>1. /\ request[p].seen \subseteq request[p].what
            /\ request[p].seen # {} => disk \cap request[p].what \subseteq crossed
        BY <3>1, <3>3 DEF TrueInv, ChangeInv
      <4>2. Changing(p) = request[p].what
        BY <3>1, <3>3 DEF Changing, Live
      <4>3. QED
        BY <1>1, <1>4, <1>7, <1>8, <2>3, <3>1, <3>3, <4>1, <4>2
    <3>4. QED
      BY <3>1, <3>2, <3>3
  <2>4. QED
    BY <1>2, <2>1, <2>2, <2>3
<1>13. ASSUME NEW p \in Requests, request'[p].phase = "served", request'[p].cmd = "open"
       PROVE  /\ request'[p].seen \cup {request'[p].at} \subseteq disk' \cup crossed'
              /\ request'[p].at = request'[p].about =>
                   \A i \in Children(disk', request'[p].at) \ crossed' :
                       i \in request'[p].seen \cup files' \/ ToldBy("mkdir", i)'
  <2>1. CASE p = q
    <3>1. r.cmd = "open" /\ disk' = disk
      BY <1>2, <1>7, <1>13, <2>1
    <3>2. request'[q].at = Answered(q) /\ request'[q].seen = Children(disk, r.about)
      <4>1. /\ request'[q].at = Answered(q)
            /\ request'[q].seen =
                 Children(disk, r.about)
                   \cup (IF r.cmd = "sync" THEN {Root} \cup (Children(disk, Root) \cap Folders)
                         ELSE {})
        BY <3>1, ServeAnswers
      <4>2. QED
        BY <3>1, <4>1
    <3>3. Answered(q) \in disk
      <4>1. CASE r.about \in disk
        BY <4>1 DEF Answered
      <4>2. CASE r.about \notin disk
        <5>1. r.about \in Folders /\ r.about # Root
          BY <3>1, <4>2 DEF RequestInv, Meant, DiskInv
        <5>2. Parent[r.about] = Root
          BY <5>1, ConstantsAssumption
        <5>3. QED
          BY <4>2, <5>2 DEF Answered, DiskInv
      <4>3. QED
        BY <4>1, <4>2
    <3>4. QED
      BY <1>2, <2>1, <3>1, <3>2, <3>3 DEF Children
  <2>2. CASE p # q
    <3>1. request'[p] = request[p] /\ request[p].phase = "served" /\ request[p].cmd = "open"
      BY <1>3, <1>13, <2>2
    <3>2. /\ request[p].seen \cup {request[p].at} \subseteq disk \cup crossed
          /\ request[p].at = request[p].about =>
               \A i \in Children(disk, request[p].at) \ crossed :
                    i \in request[p].seen \cup files \/ ToldBy("mkdir", i)
      BY <3>1 DEF TrueInv, ReadInv
    <3>3. r.cmd = "rm" => Changing(q) \subseteq crossed
      BY <1>8, <2>2, <3>1 DEF Live
    <3>4. disk \ disk' \subseteq crossed
      BY <1>1, <1>7, <3>3
    <3>5. request'[p].seen \cup {request'[p].at} \subseteq disk' \cup crossed'
      BY <1>4, <3>1, <3>2, <3>4
    <3>6. ASSUME request'[p].at = request'[p].about,
                 NEW i \in Children(disk', request'[p].at) \ crossed'
          PROVE  i \in request'[p].seen \cup files' \/ ToldBy("mkdir", i)'
      <4>1. CASE i \in disk
        BY <1>4, <1>9, <3>1, <3>2, <3>6, <4>1 DEF Children
      <4>2. CASE i \notin disk
        BY <1>10, <3>6, <4>2 DEF Children
      <4>3. QED
        BY <4>1, <4>2
    <3>7. QED
      BY <3>5, <3>6
  <2>3. QED
    BY <2>1, <2>2
<1>14. ASSUME NEW p \in Requests, request'[p].phase = "served", request'[p].cmd = "sync"
       PROVE  /\ request'[p].at \in request'[p].seen
              /\ request'[p].seen \subseteq disk' \cup request'[p].near
              /\ Children(disk', cwd') \subseteq request'[p].seen \cup request'[p].near
  <2>1. CASE p = q
    <3>1. r.cmd = "sync" /\ disk' = disk /\ r.about = cwd /\ r.about \in Folders
      BY <1>1, <1>2, <1>7, <1>14, <2>1 DEF RequestInv, Live, TypeOK
    <3>2. /\ request'[q].at = Answered(q)
          /\ request'[q].seen =
               Children(disk, r.about) \cup ({Root} \cup (Children(disk, Root) \cap Folders))
      BY <3>1, ServeAnswers
    <3>3. Answered(q) \in request'[q].seen
      <4>1. CASE r.about = Root
        BY <3>2, <4>1 DEF Answered, DiskInv
      <4>2. CASE r.about # Root
        <5>1. Parent[r.about] = Root
          BY <1>1, <3>1, <4>2, ConstantsAssumption
        <5>2. QED
          BY <3>1, <3>2, <5>1 DEF Answered, Children
      <4>3. QED
        BY <4>1, <4>2
    <3>4. request'[q].seen \subseteq disk
      BY <3>2 DEF Children, DiskInv
    <3>5. QED
      BY <1>4, <2>1, <3>1, <3>2, <3>3, <3>4
  <2>2. CASE p # q
    <3>1. request'[p] = request[p] /\ request[p].phase = "served" /\ request[p].cmd = "sync"
      BY <1>3, <1>14, <2>2
    <3>2. /\ request[p].at \in request[p].seen
          /\ request[p].seen \subseteq disk \cup request[p].near
          /\ Children(disk, cwd) \subseteq request[p].seen \cup request[p].near
      BY <3>1 DEF TrueInv, ReadInv
    <3>3. Changing(q) \subseteq request[p].near
      BY <1>8, <2>2, <3>1 DEF Live
    <3>4. QED
      BY <1>1, <1>4, <1>7, <3>1, <3>2, <3>3 DEF Children
  <2>3. QED
    BY <2>1, <2>2
<1>15. CacheInv'
  <2>1. ASSUME NEW i \in files' \ crossed'
        PROVE  i \in disk' \/ ToldBy("rm", i)'
    BY <1>4, <1>9, <1>11, <2>1 DEF TrueInv, CacheInv
  <2>2. ASSUME NEW i \in Children(disk', cwd') \ crossed'
        PROVE  i \in files' \/ ToldBy("mkdir", i)'
    BY <1>4, <1>9, <1>10, <2>2 DEF TrueInv, CacheInv, Children
  <2>3. QED
    BY <2>1, <2>2 DEF CacheInv
<1>16. ReadInv'
  BY <1>13, <1>14 DEF ReadInv
<1>17. QED
  BY <1>5, <1>12, <1>15, <1>16 DEF TrueInv

\* What somebody else has done is noted as crossing, and sync() learns of it.
LEMMA ElsewhereTrue ==
    ASSUME TypeOK, TrueInv, NEW i \in Foreign, Elsewhere(i)
    PROVE  TrueInv'
<1>1. UNCHANGED <<files, cwd>> /\ crossed' = crossed \cup Below(i)
  BY DEF Elsewhere
<1>2. disk' \ disk \subseteq Below(i) /\ disk \ disk' \subseteq Below(i)
  <2>1. i \in Items
    BY ConstantsAssumption
  <2>2. i \in Below(i)
    BY <2>1 DEF Below
  <2>3. QED
    BY <2>2 DEF Elsewhere
<1>3. ASSUME NEW p \in Requests
      PROVE  /\ GoesOn(p)
             /\ Live(p) /\ request[p].cmd = "sync" => Below(i) \subseteq request'[p].near
  <2>1. request[p] \in Asked
    BY DEF TypeOK
  <2>2. request'[p] = IF Live(p) /\ request[p].cmd = "sync"
                      THEN [request[p] EXCEPT !.near = @ \cup Below(i)] ELSE request[p]
    BY DEF Elsewhere
  <2>3. QED
    BY <2>1, <2>2 DEF GoesOn, Asked
<1>4. ASSUME NEW cmd, NEW k, ToldBy(cmd, k)
      PROVE  ToldBy(cmd, k)'
  BY <1>3, <1>4 DEF ToldBy, GoesOn
<1>5. ApartInv'
  <2>1. \A p \in Requests : Live(p)' = Live(p) /\ Changing(p)' = Changing(p)
    BY <1>3 DEF Live, Changing, GoesOn
  <2>2. \A p \in Requests : request'[p].cmd = request[p].cmd
                            /\ request[p].near \subseteq request'[p].near
    BY <1>3 DEF GoesOn
  <2>3. QED
    BY <1>1, <2>1, <2>2 DEF TrueInv, ApartInv
<1>6. ChangeInv'
  <2>1. disk' \subseteq disk \cup crossed' /\ disk \subseteq disk' \cup crossed'
    BY <1>1, <1>2
  <2>2. QED
    BY <1>1, <1>3, <2>1 DEF TrueInv, ChangeInv, GoesOn
<1>7. ASSUME NEW p \in Requests, request'[p].phase = "served", request'[p].cmd = "open"
      PROVE  /\ request'[p].seen \cup {request'[p].at} \subseteq disk' \cup crossed'
             /\ request'[p].at = request'[p].about =>
                  \A k \in Children(disk', request'[p].at) \ crossed' :
                      k \in request'[p].seen \cup files' \/ ToldBy("mkdir", k)'
  <2>1. GoesOn(p) /\ request[p].phase = "served" /\ request[p].cmd = "open"
    BY <1>3, <1>7 DEF GoesOn
  <2>2. /\ request[p].seen \cup {request[p].at} \subseteq disk \cup crossed
        /\ request[p].at = request[p].about =>
             \A k \in Children(disk, request[p].at) \ crossed :
                  k \in request[p].seen \cup files \/ ToldBy("mkdir", k)
    BY <2>1 DEF TrueInv, ReadInv
  <2>3. QED
    BY <1>1, <1>2, <1>4, <2>1, <2>2 DEF GoesOn, Children
<1>8. ASSUME NEW p \in Requests, request'[p].phase = "served", request'[p].cmd = "sync"
      PROVE  /\ request'[p].at \in request'[p].seen
             /\ request'[p].seen \subseteq disk' \cup request'[p].near
             /\ Children(disk', cwd') \subseteq request'[p].seen \cup request'[p].near
  <2>1. GoesOn(p) /\ request[p].phase = "served" /\ request[p].cmd = "sync"
    BY <1>3, <1>8 DEF GoesOn
  <2>2. Below(i) \subseteq request'[p].near
    BY <1>3, <2>1 DEF Live
  <2>3. /\ request[p].at \in request[p].seen
        /\ request[p].seen \subseteq disk \cup request[p].near
        /\ Children(disk, cwd) \subseteq request[p].seen \cup request[p].near
    BY <2>1 DEF TrueInv, ReadInv
  <2>4. QED
    BY <1>1, <1>2, <2>1, <2>2, <2>3 DEF GoesOn, Children
<1>9. CacheInv'
  BY <1>1, <1>2, <1>4 DEF TrueInv, CacheInv, Children
<1>10. ReadInv'
  BY <1>7, <1>8 DEF ReadInv
<1>11. QED
  BY <1>5, <1>6, <1>9, <1>10 DEF TrueInv

\* The collection takes nothing of the folder shown, and what it takes of the one that is
\* about to be is either in the answer or noted.
LEMMA CollectTrue ==
    ASSUME TrueInv, Collect
    PROVE  TrueInv'
<1>1. /\ files' = files \ Garbage(sweep)
      /\ crossed' = crossed \cup (files \cap Garbage(sweep) \cap TakenBack)
      /\ UNCHANGED <<disk, request, cwd>>
  BY DEF Collect
<1>2. \A cmd, i : ToldBy(cmd, i)' <=> ToldBy(cmd, i)
  BY <1>1 DEF ToldBy
<1>3. ApartInv'
  BY <1>1 DEF TrueInv, ApartInv, Changing, Live
<1>4. ChangeInv'
  BY <1>1 DEF TrueInv, ChangeInv
<1>5. ASSUME NEW p \in Requests, request[p].phase = "served", request[p].cmd = "open",
             request[p].at = request[p].about,
             NEW i \in Children(disk, request[p].at) \ crossed'
      PROVE  i \in request[p].seen \cup files' \/ ToldBy("mkdir", i)
  <2>1. i \in request[p].seen \cup files \/ ToldBy("mkdir", i)
    BY <1>1, <1>5 DEF TrueInv, ReadInv
  <2>2. CASE i \in files \cap Garbage(sweep) /\ i \notin request[p].seen
    <3>1. i \in Children(disk \ request[p].seen, request[p].at)
      BY <1>5, <2>2 DEF Children
    <3>2. i \in TakenBack
      BY <1>5, <3>1 DEF TakenBack
    <3>3. QED
      BY <1>1, <1>5, <2>2, <3>2
  <2>3. QED
    BY <1>1, <2>1, <2>2
<1>6. ReadInv'
  <2>1. crossed \subseteq crossed'
    BY <1>1
  <2>2. QED
    BY <1>1, <1>2, <1>5, <2>1 DEF TrueInv, ReadInv
<1>7. CacheInv'
  BY <1>1, <1>2 DEF TrueInv, CacheInv, Garbage, Children
<1>8. QED
  BY <1>3, <1>4, <1>6, <1>7 DEF TrueInv

\* An answer that has been put in is over, and all others go on; but for that of sync()
\* nothing is forgotten.
LEMMA AppliedApart ==
    ASSUME TypeOK, RequestInv, TrueInv, NEW q \in Requests, Apply(q)
    PROVE  /\ request'[q].phase = "over" /\ ~Live(q)'
           /\ \A p \in Requests \ {q} : request'[p] = request[p]
           /\ request[q].phase = "served" /\ disk' = disk
           /\ ApartInv'
           /\ ChangeInv'
<1>1. request'[q].phase = "over" /\ \A p \in Requests \ {q} : request'[p] = request[p]
  BY DEF Apply, Finished, NewRequest, TypeOK
<1>2. request[q].phase = "served" /\ disk' = disk
  BY DEF Apply
<1>3. ~Live(q)' /\ \A p \in Requests \ {q} : Live(p)' = Live(p) /\ Changing(p)' = Changing(p)
  BY <1>1 DEF Live, Changing
<1>4. Changing(q)' = {}
  BY <1>3 DEF Changing
<1>5. CASE crossed \subseteq crossed'
  <2>1. ApartInv'
    BY <1>1, <1>3, <1>4, <1>5 DEF TrueInv, ApartInv
  <2>2. ChangeInv'
    BY <1>1, <1>2, <1>5 DEF TrueInv, ChangeInv
  <2>3. QED
    BY <1>1, <1>2, <1>3, <2>1, <2>2
<1>6. CASE ApplySync(q)
  <2>1. crossed' = request[q].near /\ request[q].cmd = "sync"
    BY <1>6 DEF ApplySync
  <2>2. \A p \in Requests : Changing(p) \subseteq crossed'
    BY <1>2, <2>1 DEF TrueInv, ApartInv, Live
  <2>3. \A p \in Requests : ~Reads(p)'
    BY <1>1, <1>2, <1>3, <2>1 DEF RequestInv, Reads, Live
  <2>4. ApartInv'
    BY <1>1, <1>3, <1>4, <2>2, <2>3 DEF ApartInv, Reads
  <2>5. ChangeInv'
    <3> SUFFICES ASSUME NEW p \in Requests, request'[p].phase = "served"
                 PROVE  /\ request'[p].cmd = "mkdir" =>
                             request'[p].seen \subseteq request'[p].what \cap (disk' \cup crossed')
                        /\ request'[p].cmd = "rm" =>
                             /\ request'[p].seen \subseteq request'[p].what
                             /\ request'[p].seen # {} =>
                                  disk' \cap request'[p].what \subseteq crossed'
      BY DEF ChangeInv
    <3>1. request'[p] = request[p] /\ request[p].phase = "served"
      BY <1>1
    <3>2. Changing(p) = request[p].what
      BY <3>1 DEF Changing, Live
    <3>3. request[p].cmd \in {"mkdir", "rm"} => request[p].seen \subseteq request[p].what
      BY <3>1 DEF TrueInv, ChangeInv
    <3>4. QED
      BY <2>2, <3>1, <3>2, <3>3
  <2>6. QED
    BY <1>1, <1>2, <1>3, <2>4, <2>5
<1>7. QED
  BY <1>5, <1>6 DEF Apply, ApplyOpen, ApplyMkdir, ApplyRm

\* The answer to an open, or to sync(), is put in when no other reads.
LEMMA ReadersApplied ==
    ASSUME TypeOK, RequestInv, SeenInv, TrueInv, NEW q \in Requests, Apply(q),
           ApplyOpen(q) \/ ApplySync(q)
    PROVE  TrueInv'
<1>1. /\ request'[q].phase = "over"
      /\ \A p \in Requests \ {q} : request'[p] = request[p]
      /\ request[q].phase = "served" /\ disk' = disk /\ ApartInv' /\ ChangeInv'
  BY AppliedApart
<1>2. request[q].cmd \in {"open", "sync"}
  BY DEF ApplyOpen, ApplySync
<1>3. ReadInv'
  <2>1. \A p \in Requests : ~Reads(p)'
    BY <1>1, <1>2 DEF RequestInv, Reads, Live
  <2>2. QED
    BY <2>1 DEF ReadInv, Reads, Live
<1>4. ASSUME NEW cmd \in {"mkdir", "rm"}, NEW i, ToldBy(cmd, i)
      PROVE  ToldBy(cmd, i)'
  BY <1>1, <1>2, <1>4 DEF ToldBy
<1>5. CASE ApplyOpen(q)
  <2>1. /\ cwd' = request[q].at /\ files' = files \cup request[q].seen \cup {request[q].at}
        /\ crossed' = crossed \cup (IF request[q].at = request[q].about THEN {}
                                    ELSE Children(Items, request[q].at))
        /\ request[q].cmd = "open"
    BY <1>5 DEF ApplyOpen, CacheOpen
  <2>2. /\ request[q].seen \cup {request[q].at} \subseteq disk \cup crossed
        /\ request[q].at = request[q].about =>
             \A i \in Children(disk, request[q].at) \ crossed :
                  i \in request[q].seen \cup files \/ ToldBy("mkdir", i)
    BY <1>1, <2>1 DEF TrueInv, ReadInv
  <2>3. \A i \in files' \ crossed' : i \in disk' \/ ToldBy("rm", i)'
    BY <1>1, <1>4, <2>1, <2>2 DEF TrueInv, CacheInv
  <2>4. ASSUME NEW i \in Children(disk', cwd') \ crossed'
        PROVE  i \in files' \/ ToldBy("mkdir", i)'
    <3>1. i \in Items
      BY <1>1, <2>4 DEF Children, TypeOK
    <3>2. request[q].at = request[q].about
      BY <2>1, <2>4, <3>1 DEF Children
    <3>3. QED
      BY <1>1, <1>4, <2>1, <2>2, <2>4, <3>2
  <2>5. CacheInv'
    BY <2>3, <2>4 DEF CacheInv
  <2>6. QED
    BY <1>1, <1>3, <2>5 DEF TrueInv
<1>6. CASE ApplySync(q)
  <2> DEFINE gone == files \ request[q].seen
             new == (request[q].seen \ files) \cup {request[q].at}
  <2>1. /\ files' = Removing(gone) \cup new /\ crossed' = request[q].near /\ cwd' = cwd
        /\ request[q].cmd = "sync"
    BY <1>6 DEF ApplySync
  <2>2. /\ request[q].at \in request[q].seen
        /\ request[q].seen \subseteq disk \cup request[q].near
        /\ Children(disk, cwd) \subseteq request[q].seen \cup request[q].near
    BY <1>1, <2>1 DEF TrueInv, ReadInv
  <2>3. files' \subseteq request[q].seen
    <3>1. Removing(gone) \subseteq request[q].seen
      BY DEF Removing, Below, TypeOK
    <3>2. QED
      BY <2>1, <2>2, <3>1
  <2>4. ASSUME NEW i \in Children(disk, cwd) \ request[q].near
        PROVE  i \in files'
    <3>1. i \in request[q].seen /\ i \in Items /\ Parent[i] = cwd /\ i # Root
      BY <2>2, <2>4, ConstantsAssumption DEF Children, TypeOK
    <3>2. Parent[i] \in request[q].seen
      BY <1>1, <1>6, <2>1, <3>1 DEF SeenInv
    <3>3. \A k \in gone : i \notin Below(k)
      BY <3>1, <3>2 DEF Below
    <3>4. QED
      BY <2>1, <3>1, <3>3 DEF Removing
  <2>5. CacheInv'
    BY <1>1, <2>1, <2>2, <2>3, <2>4 DEF CacheInv
  <2>6. QED
    BY <1>1, <1>3, <2>5 DEF TrueInv
<1>7. QED
  BY <1>5, <1>6

\* The answers to mkdir and rm tell of what they have changed, and of nothing else.
LEMMA ChangesApplied ==
    ASSUME TypeOK, RequestInv, TrueInv, NEW q \in Requests, Apply(q),
           ApplyMkdir(q) \/ ApplyRm(q)
    PROVE  TrueInv'
<1>1. /\ request'[q].phase = "over"
      /\ \A p \in Requests \ {q} : request'[p] = request[p]
      /\ request[q].phase = "served" /\ disk' = disk /\ ApartInv' /\ ChangeInv'
  BY AppliedApart
<1>2. UNCHANGED <<cwd, crossed>>
  BY DEF ApplyMkdir, ApplyRm
<1>3. ASSUME NEW cmd, NEW i, ToldBy(cmd, i), request[q].cmd # cmd \/ i \notin request[q].seen
      PROVE  ToldBy(cmd, i)'
  BY <1>1, <1>3 DEF ToldBy
\* What is there, or the page will be told is, is still cached or told of.
<1>4. ASSUME NEW i \in disk \ crossed, i \in files \/ ToldBy("mkdir", i)
      PROVE  i \in files' \/ ToldBy("mkdir", i)'
  <2>1. CASE ApplyMkdir(q)
    <3>1. files' = files \cup request[q].seen /\ request[q].cmd = "mkdir"
      BY <2>1 DEF ApplyMkdir
    <3>2. QED
      BY <1>3, <1>4, <3>1
  <2>2. CASE ApplyRm(q)
    <3>1. files' = Removing(request[q].seen) /\ request[q].cmd = "rm"
      BY <2>2 DEF ApplyRm
    <3>2. /\ request[q].seen \subseteq request[q].what
          /\ request[q].seen # {} => disk \cap request[q].what \subseteq crossed
      BY <1>1, <3>1 DEF TrueInv, ChangeInv
    <3>3. \A k \in request[q].what : Below(k) \subseteq request[q].what
      BY <3>1 DEF RequestInv, Meant
    <3>4. \A k \in request[q].seen : i \notin Below(k)
      BY <1>4, <3>2, <3>3
    <3>5. QED
      BY <1>3, <1>4, <3>1, <3>4 DEF Removing
  <2>3. QED
    BY <2>1, <2>2
<1>5. ASSUME NEW i \in files' \ crossed
      PROVE  i \in disk \/ ToldBy("rm", i)'
  <2>1. CASE ApplyMkdir(q)
    <3>1. files' = files \cup request[q].seen /\ request[q].cmd = "mkdir"
      BY <2>1 DEF ApplyMkdir
    <3>2. request[q].seen \subseteq disk \cup crossed
      BY <1>1, <3>1 DEF TrueInv, ChangeInv
    <3>3. QED
      BY <1>3, <1>5, <3>1, <3>2 DEF TrueInv, CacheInv
  <2>2. CASE ApplyRm(q)
    <3>1. files' = Removing(request[q].seen)
      BY <2>2 DEF ApplyRm
    <3>2. i \in files /\ i \notin request[q].seen
      BY <1>5, <3>1 DEF Removing, Below, TypeOK
    <3>3. QED
      BY <1>3, <1>5, <3>2 DEF TrueInv, CacheInv
  <2>3. QED
    BY <2>1, <2>2
<1>6. CacheInv'
  <2>1. \A i \in Children(disk, cwd) \ crossed : i \in disk /\ (i \in files \/ ToldBy("mkdir", i))
    BY DEF TrueInv, CacheInv, Children
  <2>2. QED
    BY <1>1, <1>2, <1>4, <1>5, <2>1 DEF CacheInv
<1>7. ReadInv'
  <2>1. ASSUME NEW p \in Requests, request'[p].phase = "served"
        PROVE  p # q /\ request[p].phase = "served" /\ request'[p] = request[p]
    BY <1>1, <2>1
  <2>2. ASSUME NEW p \in Requests, request'[p].phase = "served", request'[p].cmd = "open"
        PROVE  /\ request'[p].seen \cup {request'[p].at} \subseteq disk' \cup crossed'
               /\ request'[p].at = request'[p].about =>
                    \A i \in Children(disk', request'[p].at) \ crossed' :
                        i \in request'[p].seen \cup files' \/ ToldBy("mkdir", i)'
    <3>1. /\ request[p].seen \cup {request[p].at} \subseteq disk \cup crossed
          /\ request[p].at = request[p].about =>
               \A i \in Children(disk, request[p].at) \ crossed :
                    i \in request[p].seen \cup files \/ ToldBy("mkdir", i)
      BY <2>1, <2>2 DEF TrueInv, ReadInv
    <3>2. \A i \in Children(disk, request[p].at) : i \in disk
      BY DEF Children
    <3>3. QED
      BY <1>1, <1>2, <1>4, <2>1, <2>2, <3>1, <3>2
  <2>3. ASSUME NEW p \in Requests, request'[p].phase = "served", request'[p].cmd = "sync"
        PROVE  /\ request'[p].at \in request'[p].seen
               /\ request'[p].seen \subseteq disk' \cup request'[p].near
               /\ Children(disk', cwd') \subseteq request'[p].seen \cup request'[p].near
    BY <1>1, <1>2, <2>1, <2>3 DEF TrueInv, ReadInv
  <2>4. QED
    BY <2>2, <2>3 DEF ReadInv
<1>8. QED
  BY <1>1, <1>6, <1>7 DEF TrueInv

\* Every step keeps the cache and the answers true to the disk.
LEMMA NextTrue == IInv /\ SeenInv /\ TrueInv /\ [Next]_vars => TrueInv'
<1> SUFFICES ASSUME IInv, SeenInv, TrueInv, [Next]_vars PROVE TrueInv'
  OBVIOUS
<1>0. TypeOK /\ DiskInv /\ RequestInv
  BY DEF IInv
<1>1. ASSUME NEW q \in Requests, User(q) \/ Must(q)
      PROVE  TrueInv'
  <2>1. PICK cmd \in {"open", "sync", "mkdir", "rm"}, about \in Items, what \in SUBSET Items :
          Ask(q, cmd, about, what) /\ Meant(cmd, about, what)
    BY <1>0, <1>1, AskKinds
  <2>2. cmd \in {"open", "sync"} => what = {}
    BY <2>1 DEF Meant
  <2>3. QED
    BY <1>0, <2>1, <2>2, AskTrue
<1>2. ASSUME NEW q \in Requests, Serve(q)
      PROVE  TrueInv'
  BY <1>0, <1>2, ServeTrue
<1>3. ASSUME NEW q \in Requests, Apply(q)
      PROVE  TrueInv'
  <2>1. (ApplyOpen(q) \/ ApplySync(q)) \/ (ApplyMkdir(q) \/ ApplyRm(q))
    BY <1>3 DEF Apply
  <2>2. QED
    BY <1>0, <1>3, <2>1, ReadersApplied, ChangesApplied
<1>4. ASSUME NEW i \in Foreign, Elsewhere(i)
      PROVE  TrueInv'
  BY <1>0, <1>4, ElsewhereTrue
<1>5. CASE Collect
  BY <1>5, CollectTrue
<1>6. CASE NoneLeft
  BY <1>6, TrueStays DEF NoneLeft, history
<1>7. ASSUME NEW s \in SUBSET Copied, Clipboard(s)
      PROVE  TrueInv'
  BY <1>7, TrueStays DEF Clipboard
<1>8. CASE Frame
  BY <1>8, TrueStays DEF Frame
<1>9. CASE Timeout
  BY <1>9, TrueStays DEF Timeout, history
<1>10. CASE UNCHANGED vars
  BY <1>10, TrueStays DEF vars, history
<1>11. QED
  BY <1>1, <1>2, <1>3, <1>4, <1>5, <1>6, <1>7, <1>8, <1>9, <1>10 DEF Next

\* Nothing is under way at first, and the first folder is cached.
LEMMA InitTrue == Init => TrueInv
<1> SUFFICES ASSUME Init PROVE TrueInv
  OBVIOUS
<1>1. \A q \in Requests : request[q].phase = "new" /\ ~Live(q)
  BY DEF Init, NewRequest, Live
<1>2. ApartInv
  BY <1>1 DEF ApartInv, Changing
<1>3. ChangeInv /\ ReadInv
  BY <1>1 DEF ChangeInv, ReadInv
<1>4. CacheInv
  BY DEF Init, CacheInv, Children
<1>5. QED
  BY <1>2, <1>3, <1>4 DEF TrueInv

-----------------------------------------------------------------------------
\* Every reachable state of the file manager is well typed; what is open is always a
\* folder, also when the server answers with another than was asked for.
THEOREM FolderTypeCorrect == Spec => []TypeOK
<1>1. IInv => TypeOK
  BY DEF IInv
<1>2. QED
  BY <1>1, InitInv, NextInv, PTL DEF Spec

\* Whatever folders are opened, in whatever order answers, frames and timeouts come, and
\* whatever opens are ended on the way: no file of a folder that was left stays in the
\* cache but for the clipboard, or because the folder just opened was opened again.
THEOREM LeftFilesAreForgotten == Spec => []LeftIsForgotten
<1>1. IInv => LeftIsForgotten
  <2> SUFFICES ASSUME IInv, Settled, opened = None, due = {}, sweep = {},
                      NEW i \in files \ Folders
               PROVE  Parent[i] = cwd \/ i \in kept
    BY DEF LeftIsForgotten
  <2>1. i \in Items
    BY DEF IInv, TypeOK
  <2>2. i \notin due \cup sweep \cup LeftBehind
    BY DEF LeftBehind
  <2>3. QED
    BY <2>1, <2>2 DEF IInv, CollectInv, Astray
<1>2. QED
  BY <1>1, InitInv, NextInv, PTL DEF Spec

\* Whatever answers, events, frames and timeouts come in between: when the events of all
\* answers have been handled, the list shows what the cache holds of the folder; all but
\* what sync() took away first, and what went with its folder without being named.
THEOREM ListShowsCache == Spec => []ListIsCache
<1>1. ShownInv => ListIsCache
  <2> SUFFICES ASSUME ShownInv, Settled, NEW i \in Items \ mixed, Parent[i] = cwd
               PROVE  i \in listed <=> i \in files
    BY DEF ListIsCache
  <2>1. DOMAIN frames = {} /\ DOMAIN timeouts = {}
    BY DEF Settled
  <2>2. ~Redrawn /\ AllNamed(frames) = {}
    BY <2>1 DEF Redrawn, Unsure, Opening, AllNamed
  <2>3. QED
    BY <2>2 DEF ShownInv, ListInv, Children
<1>2. QED
  BY <1>1, InitInv, NextInv, InitListed, NextListed, PTL DEF Spec

\* When every request has been answered, the list is what is on the disk, whatever order the
\* server and the page have taken them in, but for the items whose requests have overtaken
\* each other, or which somebody else has changed, since the last sync().
THEOREM ListShowsDisk == Spec => []ListIsTrue
<1>1. IInv /\ ShownInv /\ TrueInv => ListIsTrue
  <2> SUFFICES ASSUME IInv, ShownInv, TrueInv, Settled, \A q \in Requests : ~Live(q),
                      NEW i \in Items \ (mixed \cup crossed), Parent[i] = cwd
               PROVE  i \in listed <=> i \in disk
    BY DEF ListIsTrue
  <2>1. DOMAIN frames = {} /\ DOMAIN timeouts = {}
    BY DEF Settled
  <2>2. ~Redrawn /\ AllNamed(frames) = {}
    BY <2>1 DEF Redrawn, Unsure, Opening, AllNamed
  <2>3. i \in listed <=> i \in files
    BY <2>2 DEF ShownInv, ListInv, Children
  <2>4. \A cmd : ~ToldBy(cmd, i)
    BY DEF ToldBy, Live
  <2>5. i \in files <=> i \in disk
    BY <2>4 DEF TrueInv, CacheInv, Children
  <2>6. QED
    BY <2>3, <2>5
<1>2. QED
  BY <1>1, InitInv, NextInv, InitListed, NextListed, InitTrue, NextTrue, PTL DEF Spec
=============================================================================
