----------------------------- MODULE LuceneIndex -----------------------------
(***************************************************************************)
(* The indexing service of lucene/Index.java: HTTP request threads that    *)
(* run index(), the background index threads they start, the static fields *)
(* both share, and the polling loop of assets/search.htm.  Each action is  *)
(* one synchronized(m_lock) block, or one unsynchronized access to a       *)
(* static field or to the disk, so every interleaving of threads is there. *)
(***************************************************************************)
EXTENDS Integers

CONSTANTS
  Clients,      \* polling loops of search.htm, each with one request at a time
  Workers,      \* Thread objects that index() may create
  Paths,        \* search paths, each with its own cache directory
  MaxDocs,      \* bound: text files found under a search path
  Env,          \* disturbances enabled, a subset of Disturbances
  NoWorker      \* m_indexThread == null

Disturbances ==
  {"interrupt", "delete", "newindex", "restart", "iofail", "notdir"}

ASSUME ConstantsAssumption ==
  /\ MaxDocs \in Nat
  /\ Env \subseteq Disturbances
  /\ NoWorker \notin Workers
  /\ Paths # {}

VARIABLES
  (* static fields of Index *)
  indexState, indexThread, fileTreeActive, interrupted,
  totalDocs, indexedDocs, error,
  (* request threads: program counter and the locals of index() *)
  pc, req,
  (* index threads: program counter and the locals of run() *)
  wpc, wk,
  (* disk: cache directories, committed Lucene indexes, write locks *)
  cacheDir, disk, lock

progress == <<totalDocs, indexedDocs, error>>
statics  == <<indexState, indexThread, fileTreeActive, interrupted, progress>>
requests == <<pc, req>>
threads  == <<wpc, wk>>
volume   == <<cacheDir, disk, lock>>
vars     == <<statics, requests, threads, volume>>

INDEX_STATE == {"nil", "filetree", "indexing", "interrupted", "complete"}

RequestPCs == {"idle", "enter", "mkdir", "alive", "classify", "reset", "spawn",
               "start", "open", "publish", "respond", "poll"}

\* "created" is a Thread object not started, "dead" one that has ended.
WorkerPCs == {"dead", "created", "openwriter", "listing", "tree", "loop", "add",
              "commit", "finish", "exiting"}

Alive == WorkerPCs \ {"dead", "created"}

Request == [path : Paths, force : BOOLEAN, created : BOOLEAN,
            ongoing : BOOLEAN, snapshot : Nat]

Worker == [path : Paths, files : Nat, done : Nat, writer : BOOLEAN]

\* none: no segments file; whole: the commit holds every file that was listed.
Committed == [none : BOOLEAN, docs : Nat, whole : BOOLEAN]
NoIndex == [none |-> TRUE, docs |-> 0, whole |-> FALSE]

\* Locals before they are assigned and after they have gone out of scope.
AnyPath == CHOOSE p \in Paths : TRUE
NewRequest(p, f) ==
  [path |-> p, force |-> f, created |-> FALSE, ongoing |-> FALSE, snapshot |-> 0]
NewWorker(p) == [path |-> p, files |-> 0, done |-> 0, writer |-> FALSE]

TypeOK ==
  /\ indexState \in INDEX_STATE
  /\ indexThread \in Workers \cup {NoWorker}
  /\ fileTreeActive \in BOOLEAN
  /\ interrupted \in BOOLEAN
  /\ totalDocs \in Nat
  /\ indexedDocs \in Nat
  /\ error \in BOOLEAN
  /\ pc \in [Clients -> RequestPCs]
  /\ req \in [Clients -> Request]
  /\ wpc \in [Workers -> WorkerPCs]
  /\ wk \in [Workers -> Worker]
  /\ cacheDir \in [Paths -> BOOLEAN]
  /\ disk \in [Paths -> Committed]
  /\ lock \in [Paths -> BOOLEAN]

ColdStatics ==
  /\ indexState = "nil"
  /\ indexThread = NoWorker
  /\ fileTreeActive = FALSE
  /\ interrupted = FALSE
  /\ totalDocs = 0
  /\ indexedDocs = 0
  /\ error = FALSE

Init ==
  /\ ColdStatics
  /\ pc = [c \in Clients |-> "idle"]
  /\ req = [c \in Clients |-> NewRequest(AnyPath, FALSE)]
  /\ wk = [w \in Workers |-> NewWorker(AnyPath)]
  /\ wpc = [w \in Workers |-> "dead"]
  /\ cacheDir = [p \in Paths |-> FALSE]
  /\ disk = [p \in Paths |-> NoIndex]
  /\ lock = [p \in Paths |-> FALSE]

\* One step of the request thread of client c, one step of index thread w.
Goto(c, from, to) == pc[c] = from /\ pc' = [pc EXCEPT ![c] = to]

Step(w, from, to) == wpc[w] = from /\ wpc' = [wpc EXCEPT ![w] = to]

\* indexingRequired: the cache directory is new, or the client forces it.
Required(c) == req[c].created \/ req[c].force

-----------------------------------------------------------------------------
(* Plausible faults: operators that replace the action they are named after, *)
(* to check that the properties below would notice.                          *)

\* numDocs() read as maxDoc() - 1.
OpenReader_OffByOne(c) ==
  /\ ~disk[req[c].path].none
  /\ Goto(c, "open", "publish")
  /\ req' = [req EXCEPT ![c].snapshot = disk[req[c].path].docs - 1]
  /\ UNCHANGED <<statics, threads, volume>>

\* commit() without close().
CommitAndClose_NoClose(w) ==
  LET p == wk[w].path IN
  /\ wk[w].writer /\ cacheDir[p]
  /\ Step(w, "commit", "finish")
  /\ disk' = [disk EXCEPT ![p] = [none |-> FALSE, docs |-> wk[w].done,
                                  whole |-> wk[w].done = wk[w].files]]
  /\ UNCHANGED <<statics, requests, wk, cacheDir, lock>>

\* A stale write.lock is cleared before the writer is opened.
OpenWriter_ForceUnlock(w) ==
  /\ Step(w, "openwriter", "listing")
  /\ wk' = [wk EXCEPT ![w].writer = TRUE]
  /\ lock' = [lock EXCEPT ![wk[w].path] = TRUE]
  /\ cacheDir' = [cacheDir EXCEPT ![wk[w].path] = TRUE]
  /\ disk' = [disk EXCEPT ![wk[w].path] = [none |-> FALSE, docs |-> 0, whole |-> FALSE]]
  /\ UNCHANGED <<statics, requests>>

\* "Ongoing" judged by the file tree flag and not by the thread.
CheckAlive_ByFlag(c) ==
  /\ Goto(c, "alive", "classify")
  /\ req' = [req EXCEPT ![c].ongoing = fileTreeActive]
  /\ UNCHANGED <<statics, threads, volume>>

\* The counts of the previous run are kept.
ResetProgress_KeepsCounts(c) ==
  /\ Goto(c, "reset", "spawn")
  /\ indexState' = "filetree"
  /\ error' = FALSE
  /\ UNCHANGED <<indexThread, fileTreeActive, interrupted, totalDocs, indexedDocs,
                 req, threads, volume>>

\* Only indexed_docs is refreshed from the index on disk.
PublishCounts_IndexedOnly(c) ==
  /\ Goto(c, "publish", "respond")
  /\ indexedDocs' = req[c].snapshot
  /\ indexState' = "complete"
  /\ UNCHANGED <<indexThread, fileTreeActive, interrupted, totalDocs, error, req,
                 threads, volume>>

\* The catch block only logs.
IndexingThrows_Silent(w) ==
  /\ ~wk[w].writer \/ Env \cap {"iofail", "delete"} # {}
  /\ \E from \in {"add", "commit"} : Step(w, from, "exiting")
  /\ UNCHANGED <<statics, requests, wk, volume>>

\* The state is left as it is when no indexing is required.
Classify_KeepsState(c) ==
  LET ongoing == req[c].ongoing IN
  /\ Goto(c, "classify", IF ongoing THEN "respond"
                         ELSE IF Required(c) THEN "reset" ELSE "open")
  /\ indexState' = IF ongoing
                   THEN IF fileTreeActive THEN "filetree" ELSE "indexing"
                   ELSE IF Required(c) THEN "indexing" ELSE indexState
  /\ req' = [req EXCEPT ![c] = NewRequest(req[c].path, FALSE)]
  /\ UNCHANGED <<indexThread, fileTreeActive, interrupted, progress, threads, volume>>

-----------------------------------------------------------------------------
(* index(), run by the request thread of client c.                         *)

\* The user asks for an index of p; a poll repeats the request (see Respond).
Ask(c, p, f) ==
  /\ Goto(c, "idle", "enter")
  /\ req' = [req EXCEPT ![c] = NewRequest(p, f)]
  /\ UNCHANGED <<statics, threads, volume>>

Poll(c) ==
  /\ Goto(c, "poll", "enter")
  /\ UNCHANGED <<statics, req, threads, volume>>

\* A pending interrupt is consumed and answered "interrupted": no more polls.
AnswerInterrupted(c) ==
  /\ interrupted
  /\ Goto(c, "enter", "idle")
  /\ interrupted' = FALSE
  /\ UNCHANGED <<indexState, indexThread, fileTreeActive, progress, req, threads, volume>>

PassInterrupt(c) ==
  /\ ~interrupted
  /\ Goto(c, "enter", "mkdir")
  /\ UNCHANGED <<statics, req, threads, volume>>

MakeCacheDir(c) ==
  /\ Goto(c, "mkdir", "alive")
  /\ req' = [req EXCEPT ![c].created = ~cacheDir[req[c].path]]
  /\ cacheDir' = [cacheDir EXCEPT ![req[c].path] = TRUE]
  /\ UNCHANGED <<statics, threads, disk, lock>>

\* forceMkdir cannot make it and throws: the answer is "complete" with an error.
FolderError(c) ==
  /\ "iofail" \in Env
  /\ ~cacheDir[req[c].path]
  /\ Goto(c, "mkdir", "idle")
  /\ UNCHANGED <<statics, req, threads, volume>>

CheckAlive(c) ==
  /\ Goto(c, "alive", "classify")
  /\ req' = [req EXCEPT ![c].ongoing =
               indexThread \in Workers /\ wpc[indexThread] \in Alive]
  /\ UNCHANGED <<statics, threads, volume>>

\* The first synchronized block and the branch after it; only the path of the
\* request is used from here on.
Classify(c) ==
  LET ongoing == req[c].ongoing IN
  /\ Goto(c, "classify", IF ongoing THEN "respond"
                         ELSE IF Required(c) THEN "reset" ELSE "open")
  /\ indexState' = IF ongoing
                   THEN IF fileTreeActive THEN "filetree" ELSE "indexing"
                   ELSE IF Required(c) THEN "indexing" ELSE "complete"
  /\ req' = [req EXCEPT ![c] = NewRequest(req[c].path, FALSE)]
  /\ UNCHANGED <<indexThread, fileTreeActive, interrupted, progress, threads, volume>>

ResetProgress(c) ==
  /\ Goto(c, "reset", "spawn")
  /\ indexState' = "filetree"
  /\ totalDocs' = 0
  /\ indexedDocs' = 0
  /\ error' = FALSE
  /\ UNCHANGED <<indexThread, fileTreeActive, interrupted, req, threads, volume>>

\* A Thread object nothing can start any more.
Unused(w) == wpc[w] = "dead" \/ (wpc[w] = "created" /\ w # indexThread)

\* m_indexThread = new Thread(...): not started yet.
Spawn(c, w) ==
  /\ Unused(w)
  /\ Goto(c, "spawn", "start")
  /\ indexThread' = w
  /\ wpc' = [wpc EXCEPT ![w] = "created"]
  /\ wk' = [wk EXCEPT ![w] = NewWorker(req[c].path)]
  /\ UNCHANGED <<indexState, fileTreeActive, interrupted, progress, req, volume>>

\* m_indexThread.start() starts the thread the field holds NOW.
Start(c) ==
  /\ indexThread \in Workers /\ wpc[indexThread] = "created"
  /\ Goto(c, "start", "respond")
  /\ wpc' = [wpc EXCEPT ![indexThread] = "openwriter"]
  /\ UNCHANGED <<statics, req, wk, volume>>

\* start() of a thread another request started: IllegalThreadStateException,
\* caught by SearchRest.process, which answers nothing.
StartThrows(c) ==
  /\ ~(indexThread \in Workers /\ wpc[indexThread] = "created")
  /\ Goto(c, "start", "idle")
  /\ UNCHANGED <<statics, req, threads, volume>>

OpenReader(c) ==
  /\ ~disk[req[c].path].none
  /\ Goto(c, "open", "publish")
  /\ req' = [req EXCEPT ![c].snapshot = disk[req[c].path].docs]
  /\ UNCHANGED <<statics, threads, volume>>

\* No segments file, or unreadable: IOException, logged and otherwise ignored.
OpenReaderThrows(c) ==
  /\ disk[req[c].path].none \/ "iofail" \in Env
  /\ Goto(c, "open", "respond")
  /\ UNCHANGED <<statics, req, threads, volume>>

PublishCounts(c) ==
  /\ Goto(c, "publish", "respond")
  /\ indexedDocs' = req[c].snapshot
  /\ totalDocs' = req[c].snapshot
  /\ indexState' = "complete"
  /\ UNCHANGED <<indexThread, fileTreeActive, interrupted, error, req, threads, volume>>

\* The last synchronized block builds the answer from the static fields;
\* search.htm polls again, without force, while it says filetree or indexing.
Respond(c) ==
  /\ Goto(c, "respond", IF indexState \in {"filetree", "indexing"} THEN "poll" ELSE "idle")
  /\ req' = [req EXCEPT ![c] = NewRequest(req[c].path, FALSE)]
  /\ UNCHANGED <<statics, threads, volume>>

-----------------------------------------------------------------------------
(* run() of index thread w.                                                *)

\* FSDirectory.open makes the directory; the constructor takes write.lock;
\* deleteAll and commit leave an empty index.
OpenWriter(w) ==
  /\ ~lock[wk[w].path]
  /\ Step(w, "openwriter", "listing")
  /\ wk' = [wk EXCEPT ![w].writer = TRUE]
  /\ lock' = [lock EXCEPT ![wk[w].path] = TRUE]
  /\ cacheDir' = [cacheDir EXCEPT ![wk[w].path] = TRUE]
  /\ disk' = [disk EXCEPT ![wk[w].path] = [none |-> FALSE, docs |-> 0, whole |-> FALSE]]
  /\ UNCHANGED <<statics, requests>>

\* The constructor throws: iwriter stays null and the thread goes on.
OpenWriterThrows(w) ==
  /\ lock[wk[w].path] \/ "iofail" \in Env
  /\ Step(w, "openwriter", "listing")
  /\ error' = TRUE
  /\ UNCHANGED <<indexState, indexThread, fileTreeActive, interrupted, totalDocs,
                 indexedDocs, requests, wk, volume>>

\* deleteAll or the commit after it throws: the writer stays open, and goes on.
EmptyIndexThrows(w) ==
  /\ "iofail" \in Env
  /\ ~lock[wk[w].path]
  /\ Step(w, "openwriter", "listing")
  /\ wk' = [wk EXCEPT ![w].writer = TRUE]
  /\ lock' = [lock EXCEPT ![wk[w].path] = TRUE]
  /\ cacheDir' = [cacheDir EXCEPT ![wk[w].path] = TRUE]
  /\ error' = TRUE
  /\ UNCHANGED <<indexState, indexThread, fileTreeActive, interrupted, totalDocs,
                 indexedDocs, requests, disk>>

BeginFileTree(w) ==
  /\ Step(w, "listing", "tree")
  /\ fileTreeActive' = TRUE
  /\ indexState' = "filetree"
  /\ UNCHANGED <<indexThread, interrupted, progress, requests, wk, volume>>

BeginIndexing(w, n) ==
  /\ Step(w, "tree", "loop")
  /\ wk' = [wk EXCEPT ![w].files = n]
  /\ indexState' = "indexing"
  /\ fileTreeActive' = FALSE
  /\ totalDocs' = n
  /\ indexedDocs' = 0
  /\ UNCHANGED <<indexThread, interrupted, error, requests, volume>>

\* The loop head: no file left, or m_interrupt is seen.
LeaveLoop(w) ==
  /\ wk[w].done = wk[w].files \/ interrupted
  /\ Step(w, "loop", "commit")
  /\ UNCHANGED <<statics, requests, wk, volume>>

EnterLoop(w) ==
  /\ wk[w].done # wk[w].files /\ ~interrupted
  /\ Step(w, "loop", "add")
  /\ UNCHANGED <<statics, requests, wk, volume>>

AddDocument(w) ==
  /\ wk[w].writer
  /\ Step(w, "add", "loop")
  /\ wk' = [wk EXCEPT ![w].done = @ + 1]
  /\ indexedDocs' = indexedDocs + 1
  /\ UNCHANGED <<indexState, indexThread, fileTreeActive, interrupted, totalDocs,
                 error, requests, volume>>

CommitAndClose(w) ==
  LET p == wk[w].path IN
  /\ wk[w].writer /\ cacheDir[p]
  /\ Step(w, "commit", "finish")
  /\ disk' = [disk EXCEPT ![p] = [none |-> FALSE, docs |-> wk[w].done,
                                  whole |-> wk[w].done = wk[w].files]]
  /\ lock' = [lock EXCEPT ![p] = FALSE]
  /\ wk' = [wk EXCEPT ![w].writer = FALSE]
  /\ UNCHANGED <<statics, requests, cacheDir>>

\* An exception in the loop or the commit (a null writer, an unreadable file, a
\* deleted directory): the writer is never closed, its write.lock never released.
IndexingThrows(w) ==
  /\ ~wk[w].writer \/ Env \cap {"iofail", "delete"} # {}
  /\ \E from \in {"add", "commit"} : Step(w, from, "exiting")
  /\ error' = TRUE
  /\ UNCHANGED <<indexState, indexThread, fileTreeActive, interrupted, totalDocs,
                 indexedDocs, requests, wk, volume>>

Finish(w) ==
  /\ Step(w, "finish", "exiting")
  /\ indexState' = IF interrupted THEN "interrupted" ELSE "complete"
  /\ totalDocs' = indexedDocs
  /\ UNCHANGED <<indexThread, fileTreeActive, interrupted, indexedDocs, error,
                 requests, wk, volume>>

ThreadEnds(w) ==
  /\ Step(w, "exiting", "dead")
  /\ wk' = [wk EXCEPT ![w] = NewWorker(AnyPath)]
  /\ UNCHANGED <<statics, requests, volume>>

-----------------------------------------------------------------------------
(* Other requests and the life of the process.                             *)

Interrupt ==
  /\ "interrupt" \in Env
  /\ interrupted' = TRUE
  /\ UNCHANGED <<indexState, indexThread, fileTreeActive, progress, requests, threads, volume>>

\* IndexUtil.newIndex makes the cache directory and indexes nothing.
NewIndex(p) ==
  /\ "newindex" \in Env
  /\ cacheDir' = [cacheDir EXCEPT ![p] = TRUE]
  /\ UNCHANGED <<statics, requests, threads, disk, lock>>

DeleteIndex(p) ==
  /\ "delete" \in Env
  /\ cacheDir[p]
  /\ cacheDir' = [cacheDir EXCEPT ![p] = FALSE]
  /\ disk' = [disk EXCEPT ![p] = NoIndex]
  /\ UNCHANGED <<statics, requests, threads, lock>>

\* The process ends and starts again: threads, statics and write locks go,
\* the cache directories and the last commits stay.
ProcessDies ==
  /\ indexState' = "nil"
  /\ indexThread' = NoWorker
  /\ fileTreeActive' = FALSE
  /\ interrupted' = FALSE
  /\ totalDocs' = 0
  /\ indexedDocs' = 0
  /\ error' = FALSE
  /\ pc' = [c \in Clients |-> "idle"]
  /\ wpc' = [w \in Workers |-> "dead"]
  /\ req' = [c \in Clients |-> NewRequest(AnyPath, FALSE)]
  /\ wk' = [w \in Workers |-> NewWorker(AnyPath)]
  /\ lock' = [p \in Paths |-> FALSE]
  /\ UNCHANGED <<cacheDir, disk>>

Restart == "restart" \in Env /\ ProcessDies

\* getFilePaths throws IllegalArgumentException when the search path is not a
\* directory; nothing catches it in run(), and Android ends the process.
FileTreeThrows(w) ==
  /\ "notdir" \in Env
  /\ wpc[w] = "tree"
  /\ ProcessDies

-----------------------------------------------------------------------------
RequestStep(c) ==
  \/ AnswerInterrupted(c) \/ PassInterrupt(c)
  \/ MakeCacheDir(c) \/ FolderError(c)
  \/ CheckAlive(c) \/ Classify(c) \/ ResetProgress(c)
  \/ \E w \in Workers : Spawn(c, w)
  \/ Start(c) \/ StartThrows(c)
  \/ OpenReader(c) \/ OpenReaderThrows(c) \/ PublishCounts(c)
  \/ Respond(c)

WorkerStep(w) ==
  \/ OpenWriter(w) \/ OpenWriterThrows(w) \/ EmptyIndexThrows(w)
  \/ BeginFileTree(w)
  \/ \E n \in 0..MaxDocs : BeginIndexing(w, n)
  \/ LeaveLoop(w) \/ EnterLoop(w) \/ AddDocument(w)
  \/ CommitAndClose(w) \/ IndexingThrows(w)
  \/ Finish(w) \/ ThreadEnds(w)

Disturb ==
  \/ Interrupt
  \/ \E p \in Paths : NewIndex(p) \/ DeleteIndex(p)
  \/ Restart
  \/ \E w \in Workers : FileTreeThrows(w)

Next ==
  \/ \E c \in Clients, p \in Paths, f \in BOOLEAN : Ask(c, p, f)
  \/ \E c \in Clients : Poll(c) \/ RequestStep(c)
  \/ \E w \in Workers : WorkerStep(w)
  \/ Disturb

Spec == Init /\ [][Next]_vars

\* Threads that can run do run, and search.htm's timer fires: the scheduler of
\* the device is fair to each of them.  Nothing obliges a user to ask.
Fairness ==
  /\ \A c \in Clients : WF_vars(Poll(c)) /\ WF_vars(RequestStep(c))
  /\ \A w \in Workers : WF_vars(WorkerStep(w))

FairSpec == Spec /\ Fairness

-----------------------------------------------------------------------------
(* Properties.                                                              *)

LiveWorkers == {w \in Workers : wpc[w] \in Alive}

\* Every write.lock that is held belongs to a running index thread with an open
\* writer on that path: neither an interrupt nor a second thread started by a
\* racing request leaks it (run() closes its writer on the way out of the loop).
NoLeakedLock ==
  \A p \in Paths : lock[p] =>
    \E w \in LiveWorkers : wk[w].writer /\ wk[w].path = p

\* Two index threads never write the index of one path at the same time, though
\* index() may start two: the second one must fail to open its IndexWriter.
OneWriterPerPath ==
  \A v, w \in LiveWorkers :
    wk[v].writer /\ wk[w].writer /\ wk[v].path = wk[w].path => v = w

\* index() lets a background thread run and starts no other beside it (the
\* comment "let the background process run"): true of one client at a time.
OneIndexThread == \A v, w \in LiveWorkers : v = w

\* Index's class comment on filetree, and the percentage search.htm computes:
\* no counts while the tree is listed, never more indexed than listed.
ProgressCounts ==
  /\ indexState = "filetree" => totalDocs = 0 /\ indexedDocs = 0
  /\ indexedDocs <= totalDocs

\* The synchronized block of index() that answers client c with state s.
Answers(c, s) == indexState = s /\ Respond(c)

\* Index's class comment on complete: both counts are the same in the answer,
\* unless it reports an error.
CompleteCountsAgree ==
  [][\A c \in Clients : Answers(c, "complete") /\ ~error
       => totalDocs = indexedDocs]_vars

\* The polling loop of search.htm ends: the answer is not filetree or indexing
\* for ever, whatever fails, unless indexes are deleted again and again.
PollingEnds ==
  (\A c \in Clients : pc[c] = "poll" ~> pc[c] = "idle")
    \/ []<><<\E p \in Paths : DeleteIndex(p)>>_vars
=============================================================================
