-------------------------- MODULE LuceneIndexProofs --------------------------
(***************************************************************************)
(* What holds of the indexing service for every set of clients, threads,   *)
(* paths and every number of files.                                        *)
(***************************************************************************)
EXTENDS LuceneIndex, TLAPS

USE DEF INDEX_STATE, RequestPCs, WorkerPCs, Alive

\* Locals of a new request and of a new thread are well typed.
LEMMA FreshLocals ==
  /\ AnyPath \in Paths
  /\ \A p \in Paths, f \in BOOLEAN : NewRequest(p, f) \in Request
  /\ \A p \in Paths : NewWorker(p) \in Worker
<1>1. AnyPath \in Paths
  BY ConstantsAssumption DEF AnyPath
<1>2. QED
  BY <1>1 DEF NewRequest, NewWorker, Request, Worker

\* A step of a request thread keeps every variable in its type.
LEMMA RequestType ==
  ASSUME TypeOK, NEW c \in Clients, RequestStep(c)
  PROVE  TypeOK'
<1> USE ConstantsAssumption DEF TypeOK, Goto, statics, progress, requests, threads, volume
<1>1. CASE AnswerInterrupted(c) \/ PassInterrupt(c) \/ FolderError(c)
           \/ StartThrows(c) \/ OpenReaderThrows(c)
  BY <1>1 DEF AnswerInterrupted, PassInterrupt, FolderError, StartThrows, OpenReaderThrows
<1>2. CASE MakeCacheDir(c)
  BY <1>2 DEF MakeCacheDir, Request
<1>3. CASE CheckAlive(c)
  BY <1>3 DEF CheckAlive, Request
<1>4. CASE Classify(c)
  <2>1. NewRequest(req[c].path, FALSE) \in Request
    BY FreshLocals DEF Request
  <2>2. QED
    BY <1>4, <2>1 DEF Classify
<1>5. CASE ResetProgress(c)
  BY <1>5 DEF ResetProgress
<1>6. CASE \E w \in Workers : Spawn(c, w)
  <2>1. NewWorker(req[c].path) \in Worker
    BY FreshLocals DEF Request
  <2>2. QED
    BY <1>6, <2>1 DEF Spawn
<1>7. CASE Start(c)
  BY <1>7 DEF Start
<1>8. CASE OpenReader(c)
  BY <1>8 DEF OpenReader, Request, Committed
<1>9. CASE PublishCounts(c)
  BY <1>9 DEF PublishCounts, Request
<1>10. CASE Respond(c)
  <2>1. NewRequest(req[c].path, FALSE) \in Request
    BY FreshLocals DEF Request
  <2>2. QED
    BY <1>10, <2>1 DEF Respond
<1>11. QED
  BY <1>1, <1>2, <1>3, <1>4, <1>5, <1>6, <1>7, <1>8, <1>9, <1>10 DEF RequestStep

\* A step of an index thread keeps every variable in its type.
LEMMA WorkerType ==
  ASSUME TypeOK, NEW w \in Workers, WorkerStep(w)
  PROVE  TypeOK'
<1> USE ConstantsAssumption DEF TypeOK, Step, statics, progress, requests, threads, volume
<1>1. CASE OpenWriter(w)
  BY <1>1 DEF OpenWriter, Worker, Committed
<1>2. CASE OpenWriterThrows(w) \/ BeginFileTree(w) \/ LeaveLoop(w) \/ EnterLoop(w)
           \/ IndexingThrows(w)
  BY <1>2 DEF OpenWriterThrows, BeginFileTree, LeaveLoop, EnterLoop, IndexingThrows
<1>3. ASSUME NEW n \in 0..MaxDocs, BeginIndexing(w, n)
      PROVE  TypeOK'
  <2>1. wk' \in [Workers -> Worker]
    BY <1>3 DEF BeginIndexing, Worker
  <2>2. n \in Nat
    OBVIOUS
  <2>3. QED
    BY <1>3, <2>1, <2>2 DEF BeginIndexing
<1>4. CASE AddDocument(w)
  <2>1. wk[w].done + 1 \in Nat /\ indexedDocs + 1 \in Nat
    BY DEF Worker
  <2>2. wk' \in [Workers -> Worker]
    BY <1>4, <2>1 DEF AddDocument, Worker
  <2>3. QED
    BY <1>4, <2>1, <2>2 DEF AddDocument
<1>5. CASE CommitAndClose(w)
  BY <1>5 DEF CommitAndClose, Worker, Committed
<1>6. CASE Finish(w)
  BY <1>6 DEF Finish
<1>7. CASE ThreadEnds(w)
  BY <1>7, FreshLocals DEF ThreadEnds
<1>8. CASE EmptyIndexThrows(w)
  BY <1>8 DEF EmptyIndexThrows, Worker
<1>9. QED
  BY <1>1, <1>2, <1>3, <1>4, <1>5, <1>6, <1>7, <1>8 DEF WorkerStep

\* The end of the process keeps every variable in its type.
LEMMA ProcessDiesType == TypeOK /\ ProcessDies => TypeOK'
<1> SUFFICES ASSUME TypeOK, ProcessDies PROVE TypeOK'
  OBVIOUS
<1>1. NewRequest(AnyPath, FALSE) \in Request /\ NewWorker(AnyPath) \in Worker
  BY FreshLocals
<1>2. QED
  BY <1>1 DEF TypeOK, ProcessDies

\* Every step keeps every variable in its type.
LEMMA NextType == TypeOK /\ [Next]_vars => TypeOK'
<1> SUFFICES ASSUME TypeOK, [Next]_vars PROVE TypeOK'
  OBVIOUS
<1>1. ASSUME NEW c \in Clients, NEW p \in Paths, NEW f \in BOOLEAN, Ask(c, p, f)
      PROVE  TypeOK'
  <2>1. NewRequest(p, f) \in Request
    BY FreshLocals
  <2>2. QED
    BY <1>1, <2>1 DEF Ask, TypeOK, Goto, statics, progress, threads, volume
<1>2. ASSUME NEW c \in Clients, Poll(c)
      PROVE  TypeOK'
  BY <1>2 DEF Poll, TypeOK, Goto, statics, progress, threads, volume
<1>3. CASE Interrupt
  BY <1>3 DEF Interrupt, TypeOK, progress, requests, threads, volume
<1>4. ASSUME NEW p \in Paths, NewIndex(p) \/ DeleteIndex(p)
      PROVE  TypeOK'
  <2>1. NoIndex \in Committed
    BY DEF NoIndex, Committed
  <2>2. QED
    BY <1>4, <2>1 DEF NewIndex, DeleteIndex, TypeOK, statics, progress, requests, threads
<1>5. CASE UNCHANGED vars
  BY <1>5 DEF TypeOK, vars, statics, progress, requests, threads, volume
<1>6. QED
  BY <1>1, <1>2, <1>3, <1>4, <1>5, RequestType, WorkerType, ProcessDiesType
     DEF Next, Disturb, Restart, FileTreeThrows

\* The initial state is well typed.
LEMMA InitType == Init => TypeOK
<1>1. NewRequest(AnyPath, FALSE) \in Request /\ NewWorker(AnyPath) \in Worker
  BY FreshLocals
<1>2. NoIndex \in Committed
  BY DEF NoIndex, Committed
<1>3. ASSUME Init PROVE TypeOK
  <2>1. req \in [Clients -> Request]
    BY <1>1, <1>3 DEF Init
  <2>2. wk \in [Workers -> Worker] /\ disk \in [Paths -> Committed]
    BY <1>1, <1>2, <1>3 DEF Init
  <2>3. QED
    BY <1>3, <2>1, <2>2 DEF Init, ColdStatics, TypeOK
<1>4. QED
  BY <1>3

\* Every reachable state of the indexing service is well typed.
THEOREM TypeCorrect == Spec => []TypeOK
BY InitType, NextType, PTL DEF Spec

-----------------------------------------------------------------------------
(* One writer for each path: an open writer holds the lock of its path and   *)
(* belongs to a thread that runs, so no second thread can open another.      *)

WriterInv ==
  /\ \A w \in Workers : wk[w].writer => wpc[w] \in Alive /\ lock[wk[w].path]
  /\ \A v, w \in Workers :
       wk[v].writer /\ wk[w].writer /\ wk[v].path = wk[w].path => v = w

\* Steps that leave threads and locks alone keep any state predicate of them.
WriterVars == <<wpc, wk, lock>>

\* A step of an index thread keeps the writers exclusive.
LEMMA WorkerWriterInv ==
  ASSUME TypeOK, WriterInv, NEW w \in Workers, WorkerStep(w)
  PROVE  WriterInv'
<1> USE DEF TypeOK, WriterInv, Step, Worker, statics, requests, threads, volume
<1>1. CASE OpenWriter(w) \/ EmptyIndexThrows(w)
  <2>1. /\ ~lock[wk[w].path] /\ lock' = [lock EXCEPT ![wk[w].path] = TRUE]
        /\ wk' = [wk EXCEPT ![w].writer = TRUE]
        /\ wpc' = [wpc EXCEPT ![w] = "listing"]
    BY <1>1 DEF OpenWriter, EmptyIndexThrows
  <2>2. \A v \in Workers : wk[v].writer => wk[v].path # wk[w].path
    BY <2>1
  <2>3. \A v \in Workers : wk'[v].path = wk[v].path
    BY <2>1
  <2>4. QED
    BY <2>1, <2>2, <2>3
<1>2. CASE OpenWriterThrows(w) \/ BeginFileTree(w) \/ LeaveLoop(w) \/ EnterLoop(w)
           \/ IndexingThrows(w) \/ Finish(w)
  BY <1>2 DEF OpenWriterThrows, BeginFileTree, LeaveLoop, EnterLoop, IndexingThrows, Finish
<1>3. ASSUME NEW n \in 0..MaxDocs, BeginIndexing(w, n)
      PROVE  WriterInv'
  BY <1>3 DEF BeginIndexing
<1>4. CASE AddDocument(w)
  BY <1>4 DEF AddDocument
<1>5. CASE CommitAndClose(w)
  BY <1>5 DEF CommitAndClose
<1>6. CASE ThreadEnds(w)
  BY <1>6, FreshLocals DEF ThreadEnds, NewWorker
<1>7. QED
  BY <1>1, <1>2, <1>3, <1>4, <1>5, <1>6 DEF WorkerStep

\* Spawn fills a thread that is not running and has no writer.
LEMMA SpawnWriterInv ==
  ASSUME TypeOK, WriterInv, NEW c \in Clients, NEW w \in Workers, Spawn(c, w)
  PROVE  WriterInv'
<1>1. ~wk[w].writer
  BY DEF Spawn, Unused, WriterInv
<1>2. wk' = [wk EXCEPT ![w] = NewWorker(req[c].path)] /\ ~wk'[w].writer
  BY DEF Spawn, TypeOK, NewWorker
<1>3. QED
  BY <1>1, <1>2 DEF Spawn, WriterInv, TypeOK, Worker, volume

\* Request threads touch index threads only to create and start them.
LEMMA RequestWriterVars ==
  ASSUME NEW c \in Clients, RequestStep(c)
  PROVE  \/ UNCHANGED WriterVars
         \/ \E w \in Workers : Spawn(c, w)
         \/ Start(c)
BY DEF RequestStep, AnswerInterrupted, PassInterrupt, MakeCacheDir, FolderError,
       CheckAlive, Classify, ResetProgress, StartThrows, OpenReader,
       OpenReaderThrows, PublishCounts, Respond, WriterVars, threads, volume

\* Every step keeps the writers exclusive.
LEMMA NextWriterInv == TypeOK /\ WriterInv /\ [Next]_vars => WriterInv'
<1> SUFFICES ASSUME TypeOK, WriterInv, [Next]_vars PROVE WriterInv'
  OBVIOUS
<1>1. CASE UNCHANGED WriterVars
  BY <1>1 DEF WriterVars, WriterInv
<1>2. ASSUME NEW c \in Clients, Start(c)
      PROVE  WriterInv'
  BY <1>2 DEF Start, WriterInv, TypeOK, volume
<1>3. CASE Interrupt
  BY <1>3 DEF Interrupt, WriterInv, threads, volume
<1>4. CASE ProcessDies
  BY <1>4, FreshLocals DEF ProcessDies, WriterInv, NewWorker
<1>5. QED
  BY <1>1, <1>2, <1>3, <1>4, RequestWriterVars, SpawnWriterInv, WorkerWriterInv
     DEF Next, Ask, Poll, Disturb, Restart, NewIndex, DeleteIndex, FileTreeThrows,
         WriterVars, threads, vars, volume

\* For every number of clients and threads, two running index threads never
\* have a writer open on the same path.
THEOREM WriterExclusion == Spec => []OneWriterPerPath
<1>1. Init => WriterInv
  BY DEF Init, WriterInv, NewWorker
<1>2. WriterInv => OneWriterPerPath
  BY DEF WriterInv, OneWriterPerPath, LiveWorkers
<1>3. QED
  BY <1>1, <1>2, InitType, NextType, NextWriterInv, PTL DEF Spec

-----------------------------------------------------------------------------
(* Without a failing disk or a deleted directory every thread that takes     *)
(* write.lock gets to the close() that frees it.                             *)

LockInv ==
  /\ \A w \in Workers :
       wk[w].writer => wpc[w] \in {"listing", "tree", "loop", "add", "commit"}
  /\ \A p \in Paths : lock[p] => \E w \in Workers : wk[w].writer /\ wk[w].path = p

\* A step of an index thread keeps every held lock owned.
LEMMA WorkerLockInv ==
  ASSUME TypeOK, WriterInv, LockInv, Env \cap {"iofail", "delete"} = {},
         NEW w \in Workers, WorkerStep(w)
  PROVE  LockInv'
<1> USE DEF TypeOK, LockInv, Step, Worker, statics, requests, threads, volume
<1>1. CASE OpenWriter(w)
  <2>1. wk' = [wk EXCEPT ![w].writer = TRUE] /\ ~lock[wk[w].path]
    BY <1>1 DEF OpenWriter
  <2>2. wk'[w].writer /\ wk'[w].path = wk[w].path
    BY <2>1
  <2>3. ASSUME NEW p \in Paths, lock'[p], p # wk[w].path
        PROVE  \E v \in Workers : wk'[v].writer /\ wk'[v].path = p
    <3>1. PICK v \in Workers : wk[v].writer /\ wk[v].path = p
      BY <1>1, <2>3 DEF OpenWriter
    <3>2. QED
      BY <2>1, <2>3, <3>1
  <2>4. QED
    BY <1>1, <2>1, <2>2, <2>3 DEF OpenWriter
<1>2. CASE OpenWriterThrows(w) \/ BeginFileTree(w) \/ LeaveLoop(w) \/ EnterLoop(w)
           \/ Finish(w)
  BY <1>2 DEF OpenWriterThrows, BeginFileTree, LeaveLoop, EnterLoop, Finish
<1>3. CASE IndexingThrows(w) \/ EmptyIndexThrows(w)
  BY <1>3 DEF IndexingThrows, EmptyIndexThrows
<1>4. ASSUME NEW n \in 0..MaxDocs, BeginIndexing(w, n)
      PROVE  LockInv'
  <2>1. \A v \in Workers : wk'[v].writer = wk[v].writer /\ wk'[v].path = wk[v].path
    BY <1>4 DEF BeginIndexing
  <2>2. QED
    BY <1>4, <2>1 DEF BeginIndexing
<1>5. CASE AddDocument(w)
  <2>1. \A v \in Workers : wk'[v].writer = wk[v].writer /\ wk'[v].path = wk[v].path
    BY <1>5 DEF AddDocument
  <2>2. QED
    BY <1>5, <2>1 DEF AddDocument
<1>6. CASE CommitAndClose(w)
  <2>1. \A v \in Workers \ {w} : wk'[v] = wk[v]
    BY <1>6 DEF CommitAndClose
  <2>2. ~wk'[w].writer
    BY <1>6 DEF CommitAndClose
  <2>3. ASSUME NEW p \in Paths, lock'[p]
        PROVE  \E v \in Workers : wk'[v].writer /\ wk'[v].path = p
    <3>1. p # wk[w].path /\ lock[p]
      BY <1>6, <2>3 DEF CommitAndClose
    <3>2. PICK v \in Workers : wk[v].writer /\ wk[v].path = p
      BY <3>1
    <3>3. QED
      BY <2>1, <3>1, <3>2
  <2>4. QED
    BY <1>6, <2>1, <2>2, <2>3 DEF CommitAndClose
<1>7. CASE ThreadEnds(w)
  <2>1. ~wk[w].writer /\ ~wk'[w].writer
    BY <1>7 DEF ThreadEnds, NewWorker
  <2>2. \A v \in Workers \ {w} : wk'[v] = wk[v]
    BY <1>7 DEF ThreadEnds
  <2>3. QED
    BY <1>7, <2>1, <2>2 DEF ThreadEnds
<1>8. QED
  BY <1>1, <1>2, <1>3, <1>4, <1>5, <1>6, <1>7 DEF WorkerStep

\* Spawn keeps every held lock owned.
LEMMA SpawnLockInv ==
  ASSUME TypeOK, LockInv, NEW c \in Clients, NEW w \in Workers, Spawn(c, w)
  PROVE  LockInv'
<1>1. ~wk[w].writer
  BY DEF Spawn, Unused, LockInv
<1>2. ~wk'[w].writer
  BY DEF Spawn, TypeOK, NewWorker
<1>3. \A v \in Workers \ {w} : wk'[v] = wk[v] /\ wpc'[v] = wpc[v]
  BY DEF Spawn, TypeOK
<1>4. ASSUME NEW p \in Paths, lock'[p]
      PROVE  \E v \in Workers : wk'[v].writer /\ wk'[v].path = p
  <2>1. PICK v \in Workers : wk[v].writer /\ wk[v].path = p
    BY <1>4 DEF Spawn, LockInv, volume
  <2>2. QED
    BY <1>1, <1>3, <2>1
<1>5. QED
  BY <1>2, <1>3, <1>4 DEF LockInv

\* Every step keeps every held lock owned.
LEMMA NextLockInv ==
  ASSUME Env \cap {"iofail", "delete"} = {}
  PROVE  TypeOK /\ WriterInv /\ LockInv /\ [Next]_vars => LockInv'
<1> SUFFICES ASSUME TypeOK, WriterInv, LockInv, [Next]_vars PROVE LockInv'
  OBVIOUS
<1>1. CASE UNCHANGED WriterVars
  BY <1>1 DEF WriterVars, LockInv
<1>2. ASSUME NEW c \in Clients, Start(c)
      PROVE  LockInv'
  BY <1>2 DEF Start, LockInv, TypeOK, volume
<1>3. CASE Interrupt
  BY <1>3 DEF Interrupt, LockInv, threads, volume
<1>4. CASE ProcessDies
  BY <1>4 DEF ProcessDies, LockInv, NewWorker
<1>5. QED
  BY <1>1, <1>2, <1>3, <1>4, RequestWriterVars, SpawnLockInv, WorkerLockInv
     DEF Next, Ask, Poll, Disturb, Restart, NewIndex, DeleteIndex, FileTreeThrows,
         WriterVars, threads, vars, volume

\* While the disk works and no index is deleted, a held write.lock always
\* belongs to a running thread: interrupts and racing starts leak none.
THEOREM NoLockIsLeaked ==
  ASSUME Env \cap {"iofail", "delete"} = {}
  PROVE  Spec => []NoLeakedLock
<1>1. Init => WriterInv /\ LockInv
  BY DEF Init, WriterInv, LockInv, NewWorker
<1>2. WriterInv /\ LockInv => NoLeakedLock
  BY DEF WriterInv, LockInv, NoLeakedLock, LiveWorkers
<1>3. TypeOK /\ WriterInv /\ LockInv /\ [Next]_vars => LockInv'
  BY NextLockInv
<1>4. QED
  BY <1>1, <1>2, <1>3, InitType, NextType, NextWriterInv, PTL DEF Spec

-----------------------------------------------------------------------------
(* One client: the liveness of m_indexThread that index() reads at the start *)
(* cannot change behind its back, so it starts no second thread.             *)

Deciding(c) ==
  pc[c] \in {"reset", "spawn"} \/ (pc[c] = "classify" /\ ~req[c].ongoing)

SingleInv ==
  /\ \A w \in Workers : wpc[w] # "dead" => w = indexThread
  /\ \A c \in Clients : Deciding(c) => \A w \in Workers : wpc[w] = "dead"
  /\ \A c \in Clients : pc[c] = "start" => \A w \in Workers : wpc[w] \in {"dead", "created"}
  /\ \A w \in Workers : wpc[w] = "created" => \E c \in Clients : pc[c] = "start"

\* With one client, a step of its request keeps the single thread single.
LEMMA RequestSingleInv ==
  ASSUME \A c, d \in Clients : c = d,
         TypeOK, SingleInv, NEW c \in Clients, RequestStep(c)
  PROVE  SingleInv'
<1> USE DEF TypeOK, SingleInv, Deciding, Goto, statics, progress, requests, threads, volume
<1>1. CASE AnswerInterrupted(c) \/ PassInterrupt(c) \/ FolderError(c)
           \/ StartThrows(c) \/ OpenReaderThrows(c)
  BY <1>1 DEF AnswerInterrupted, PassInterrupt, FolderError, StartThrows, OpenReaderThrows
<1>2. CASE MakeCacheDir(c) \/ ResetProgress(c) \/ PublishCounts(c) \/ OpenReader(c)
  BY <1>2 DEF MakeCacheDir, ResetProgress, PublishCounts, OpenReader
<1>3. CASE CheckAlive(c)
  <2>1. \A w \in Workers : wpc[w] # "created"
    BY <1>3 DEF CheckAlive
  <2>2. ~req'[c].ongoing => \A w \in Workers : wpc[w] = "dead"
    <3>1. req'[c].ongoing = (indexThread \in Workers /\ wpc[indexThread] \in Alive)
      <4> DEFINE running == indexThread \in Workers /\ wpc[indexThread] \in Alive
      <4>1. req' = [req EXCEPT ![c].ongoing = running]
        BY <1>3 DEF CheckAlive
      <4> HIDE DEF running
      <4>2. req'[c].ongoing = running
        BY <4>1 DEF Request
      <4>3. QED
        BY <4>2 DEF running
    <3>2. QED
      BY <2>1, <3>1
  <2>3. UNCHANGED <<wpc, indexThread>> /\ pc' = [pc EXCEPT ![c] = "classify"]
        /\ \A d \in Clients : d = c
    BY <1>3 DEF CheckAlive
  <2>4. QED
    BY <2>1, <2>2, <2>3
<1>4. CASE Classify(c)
  BY <1>4 DEF Classify
<1>5. CASE \E w \in Workers : Spawn(c, w)
  BY <1>5 DEF Spawn
<1>6. CASE Start(c)
  BY <1>6 DEF Start
<1>7. CASE Respond(c)
  BY <1>7 DEF Respond
<1>8. QED
  BY <1>1, <1>2, <1>3, <1>4, <1>5, <1>6, <1>7 DEF RequestStep

\* An index thread only runs on or ends.
LEMMA WorkerSingleInv ==
  ASSUME TypeOK, SingleInv, NEW w \in Workers, WorkerStep(w)
  PROVE  SingleInv'
<1>1. /\ UNCHANGED <<pc, req, indexThread>>
      /\ \A v \in Workers \ {w} : wpc'[v] = wpc[v]
      /\ wpc[w] \in Alive /\ wpc'[w] # "created"
  BY DEF WorkerStep, OpenWriter, OpenWriterThrows, EmptyIndexThrows, BeginFileTree,
         BeginIndexing, LeaveLoop, EnterLoop, AddDocument, CommitAndClose, IndexingThrows, Finish, ThreadEnds,
         Step, TypeOK, statics, requests
<1>2. QED
  BY <1>1 DEF SingleInv, Deciding, TypeOK

\* With one client, every step keeps the single thread single.
LEMMA NextSingleInv ==
  ASSUME \A c, d \in Clients : c = d
  PROVE  TypeOK /\ SingleInv /\ [Next]_vars => SingleInv'
<1> SUFFICES ASSUME TypeOK, SingleInv, [Next]_vars PROVE SingleInv'
  OBVIOUS
<1>1. ASSUME NEW c \in Clients,
             Poll(c) \/ \E p \in Paths, f \in BOOLEAN : Ask(c, p, f)
      PROVE  SingleInv'
  <2>1. UNCHANGED <<wpc, indexThread>> /\ pc' = [pc EXCEPT ![c] = "enter"]
        /\ \A d \in Clients : d = c
    BY <1>1 DEF Ask, Poll, Goto, statics, threads
  <2>2. pc[c] # "start"
    BY <1>1 DEF Ask, Poll, Goto
  <2>3. QED
    BY <2>1, <2>2 DEF SingleInv, Deciding, TypeOK
<1>2. CASE UNCHANGED <<pc, req, indexThread, wpc>>
  BY <1>2 DEF SingleInv, Deciding
<1>3. CASE ProcessDies
  <2>1. pc' = [c \in Clients |-> "idle"] /\ wpc' = [w \in Workers |-> "dead"]
    BY <1>3 DEF ProcessDies
  <2>2. QED
    BY <2>1 DEF SingleInv, Deciding
<1>4. ASSUME NEW c \in Clients, RequestStep(c)
      PROVE  SingleInv'
  BY <1>4, RequestSingleInv
<1>5. ASSUME NEW w \in Workers, WorkerStep(w)
      PROVE  SingleInv'
  BY <1>5, WorkerSingleInv
<1>6. CASE Interrupt \/ (\E q \in Paths : NewIndex(q) \/ DeleteIndex(q)) \/ UNCHANGED vars
  <2>1. UNCHANGED <<pc, req, indexThread, wpc>>
    BY <1>6 DEF Interrupt, NewIndex, DeleteIndex, statics, requests, threads, vars
  <2>2. QED
    BY <2>1, <1>2
<1>7. QED
  BY <1>1, <1>3, <1>4, <1>5, <1>6 DEF Next, Disturb, Restart, FileTreeThrows

\* A client that sends one request at a time never has two index threads run,
\* whatever it asks and whatever fails.
THEOREM OneClientOneThread ==
  ASSUME \A c, d \in Clients : c = d
  PROVE  Spec => []OneIndexThread
<1>1. Init => SingleInv
  BY DEF Init, SingleInv, Deciding
<1>2. SingleInv => OneIndexThread
  BY DEF SingleInv, OneIndexThread, LiveWorkers
<1>3. TypeOK /\ SingleInv /\ [Next]_vars => SingleInv'
  BY NextSingleInv
<1>4. QED
  BY <1>1, <1>2, <1>3, InitType, NextType, PTL DEF Spec

-----------------------------------------------------------------------------
(* One client: what the counts mean.  ProgressCounts and CompleteCountsAgree *)
(* are about two counts and a state that requests and the index thread set   *)
(* at different places; what ties them together is where the thread is.      *)

Listing == {"openwriter", "listing", "tree"}
Counting == {"loop", "add", "commit", "finish"}

CountsInv ==
  /\ indexedDocs <= totalDocs
  /\ indexState = "filetree" => totalDocs = 0
  /\ fileTreeActive => \E w \in Workers : wpc[w] = "tree"
  /\ \A c \in Clients :
       /\ pc[c] \in {"spawn", "start"} => totalDocs = 0
       /\ pc[c] \in {"open", "publish"} => \A w \in Workers : wpc[w] = "dead"
  /\ \A w \in Workers :
       /\ wpc[w] \in Listing => totalDocs = 0
       /\ wpc[w] \in Counting => indexState = "indexing"
       /\ wpc[w] \in Listing \cup {"created"} => wk[w].done = 0
       /\ wpc[w] \in {"loop", "add"} =>
            indexedDocs = wk[w].done /\ totalDocs = wk[w].files /\ wk[w].done <= wk[w].files
       /\ wpc[w] = "add" => wk[w].done # wk[w].files
  /\ ~error /\ totalDocs # indexedDocs => \E w \in Workers : wpc[w] \in Counting

\* A request's step: it touches the counts only while no thread runs.
LEMMA RequestCounts ==
  ASSUME TypeOK, SingleInv, CountsInv, NEW c \in Clients, RequestStep(c), \A d \in Clients : d = c
  PROVE  CountsInv'
<1> USE DEF TypeOK, Goto, statics, progress, requests, threads, volume
<1> USE DEF CountsInv, Listing, Counting
<1>1. CASE AnswerInterrupted(c) \/ PassInterrupt(c) \/ FolderError(c)
           \/ StartThrows(c) \/ OpenReaderThrows(c)
  BY <1>1 DEF AnswerInterrupted, PassInterrupt, FolderError, StartThrows, OpenReaderThrows
<1>2. CASE MakeCacheDir(c) \/ CheckAlive(c)
  BY <1>2 DEF MakeCacheDir, CheckAlive
<1>3. CASE Classify(c)
  <2>1. CASE req[c].ongoing
    <3>1. fileTreeActive => totalDocs = 0 /\ \A w \in Workers : wpc[w] \notin Counting
      BY DEF SingleInv
    <3>2. /\ indexState' = IF fileTreeActive THEN "filetree" ELSE "indexing"
          /\ pc' = [pc EXCEPT ![c] = "respond"]
          /\ UNCHANGED <<fileTreeActive, totalDocs, indexedDocs, error, wpc, wk>>
      BY <1>3, <2>1 DEF Classify
    <3>3. QED
      BY <3>1, <3>2
  <2>2. CASE ~req[c].ongoing
    <3>1. \A w \in Workers : wpc[w] = "dead"
      BY <1>3, <2>2 DEF Classify, SingleInv, Deciding
    <3>2. QED
      BY <1>3, <2>2, <3>1 DEF Classify
  <2>3. QED
    BY <2>1, <2>2
<1>4. CASE ResetProgress(c)
  <2>1. \A w \in Workers : wpc[w] = "dead"
    BY <1>4 DEF ResetProgress, SingleInv, Deciding
  <2>2. QED
    BY <1>4, <2>1 DEF ResetProgress
<1>5. ASSUME NEW w \in Workers, Spawn(c, w) PROVE CountsInv'
  <2>1. \A v \in Workers : wpc[v] = "dead"
    BY <1>5 DEF Spawn, SingleInv, Deciding
  <2>2. /\ wpc'[w] = "created" /\ \A v \in Workers \ {w} : wpc'[v] = "dead"
        /\ wk'[w].done = 0 /\ totalDocs = 0 /\ pc' = [pc EXCEPT ![c] = "start"]
    BY <1>5, <2>1 DEF Spawn, NewWorker
  <2>3. QED
    BY <1>5, <2>1, <2>2 DEF Spawn
<1>6. CASE Start(c)
  <2>1. \A v \in Workers : wpc[v] \in {"dead", "created"}
    BY <1>6 DEF Start, SingleInv
  <2>2. QED
    BY <1>6, <2>1 DEF Start
<1>7. CASE OpenReader(c)
  BY <1>7 DEF OpenReader
<1>8. CASE PublishCounts(c)
  <2>1. req[c].snapshot \in Nat /\ \A w \in Workers : wpc[w] = "dead"
    BY <1>8 DEF PublishCounts, Request
  <2>2. QED
    BY <1>8, <2>1 DEF PublishCounts
<1>9. CASE Respond(c)
  BY <1>9 DEF Respond
<1>10. QED
  BY <1>1, <1>2, <1>3, <1>4, <1>5, <1>6, <1>7, <1>8, <1>9 DEF RequestStep

\* A step of the index thread, which is the only one.
LEMMA WorkerCounts ==
  ASSUME TypeOK, SingleInv, CountsInv, NEW w \in Workers, WorkerStep(w)
  PROVE  CountsInv'
<1> USE DEF TypeOK, Step, statics, progress, requests, threads, volume
<1>1. wpc[w] \in Alive /\ UNCHANGED pc
  BY DEF WorkerStep, OpenWriter, OpenWriterThrows, EmptyIndexThrows, BeginFileTree,
         BeginIndexing, LeaveLoop, EnterLoop, AddDocument, CommitAndClose, IndexingThrows, Finish, ThreadEnds
<1>2. /\ \A v \in Workers \ {w} : wpc[v] = "dead"
      /\ \A c \in Clients : pc[c] \notin {"reset", "spawn", "start", "open", "publish"}
  BY <1>1 DEF SingleInv, CountsInv, Deciding
<1>3. wk[w] \in Worker /\ totalDocs \in Nat /\ indexedDocs \in Nat
  OBVIOUS
<1> USE DEF CountsInv, Listing, Counting
<1>4. CASE OpenWriter(w) \/ OpenWriterThrows(w) \/ EmptyIndexThrows(w)
  BY <1>2, <1>3, <1>4 DEF OpenWriter, OpenWriterThrows, EmptyIndexThrows, Worker
<1>5. CASE BeginFileTree(w)
  BY <1>2, <1>3, <1>5 DEF BeginFileTree
<1>6. ASSUME NEW n \in 0..MaxDocs, BeginIndexing(w, n) PROVE CountsInv'
  <2>1. wk'[w].files = n /\ wk'[w].done = 0 /\ n \in Nat
    BY <1>3, <1>6, ConstantsAssumption DEF BeginIndexing, Worker
  <2>2. QED
    BY <1>2, <1>6, <2>1 DEF BeginIndexing
<1>7. CASE LeaveLoop(w) \/ EnterLoop(w)
  BY <1>2, <1>3, <1>7 DEF LeaveLoop, EnterLoop
<1>8. CASE AddDocument(w)
  <2>1. wk'[w].done = wk[w].done + 1 /\ wk'[w].files = wk[w].files
    BY <1>3, <1>8 DEF AddDocument, Worker
  <2>2. wk[w].done \in Nat /\ wk[w].files \in Nat
    BY <1>3 DEF Worker
  <2>3. QED
    BY <1>2, <1>3, <1>8, <2>1, <2>2 DEF AddDocument
<1>9. CASE CommitAndClose(w)
  BY <1>2, <1>3, <1>9 DEF CommitAndClose
<1>10. CASE IndexingThrows(w)
  BY <1>2, <1>3, <1>10 DEF IndexingThrows
<1>11. CASE Finish(w)
  BY <1>2, <1>3, <1>11 DEF Finish
<1>12. CASE ThreadEnds(w)
  BY <1>2, <1>3, <1>12 DEF ThreadEnds
<1>13. QED
  BY <1>4, <1>5, <1>6, <1>7, <1>8, <1>9, <1>10, <1>11, <1>12 DEF WorkerStep

LEMMA NextCounts ==
  ASSUME \A c, d \in Clients : c = d
  PROVE  TypeOK /\ SingleInv /\ CountsInv /\ [Next]_vars => CountsInv'
<1> SUFFICES ASSUME TypeOK, SingleInv, CountsInv, [Next]_vars PROVE CountsInv'
  OBVIOUS
<1>1. ASSUME NEW c \in Clients,
             Poll(c) \/ \E p \in Paths, f \in BOOLEAN : Ask(c, p, f)
      PROVE  CountsInv'
  <2>1. UNCHANGED <<statics, threads>> /\ pc' = [pc EXCEPT ![c] = "enter"]
    BY <1>1 DEF Ask, Poll, Goto
  <2>2. QED
    BY <2>1 DEF CountsInv, TypeOK, statics, progress, threads
<1>2. CASE ProcessDies
  BY <1>2 DEF ProcessDies, CountsInv, Listing, Counting
<1>3. CASE Interrupt \/ (\E q \in Paths : NewIndex(q) \/ DeleteIndex(q)) \/ UNCHANGED vars
  <2>1. UNCHANGED <<indexState, fileTreeActive, totalDocs, indexedDocs, error, pc, wpc, wk>>
    BY <1>3 DEF Interrupt, NewIndex, DeleteIndex, statics, progress, requests, threads, vars
  <2>2. QED
    BY <2>1 DEF CountsInv
<1>4. QED
  BY <1>1, <1>2, <1>3, RequestCounts, WorkerCounts DEF Next, Disturb, Restart, FileTreeThrows

LEMMA OneClientCounts ==
  ASSUME \A c, d \in Clients : c = d
  PROVE  Spec => [](TypeOK /\ SingleInv /\ CountsInv)
<1>1. Init => SingleInv
  BY DEF Init, SingleInv, Deciding
<1>2. Init => CountsInv
  BY DEF Init, ColdStatics, CountsInv, Listing, Counting
<1>3. TypeOK /\ SingleInv /\ [Next]_vars => SingleInv'
  BY NextSingleInv
<1>4. TypeOK /\ SingleInv /\ CountsInv /\ [Next]_vars => CountsInv'
  BY NextCounts
<1>5. QED
  BY <1>1, <1>2, <1>3, <1>4, InitType, NextType, PTL DEF Spec

\* The counts of a client that is alone, whatever interrupts, deletes, fails or
\* restarts: none while files are listed, and never more indexed than listed.
THEOREM CountsAreProgress ==
  ASSUME \A c, d \in Clients : c = d
  PROVE  Spec => []ProgressCounts
<1>1. TypeOK /\ CountsInv => ProgressCounts
  BY DEF TypeOK, CountsInv, ProgressCounts
<1>2. QED
  BY <1>1, OneClientCounts, PTL

\* And an answer complete without an error has both counts alike.
THEOREM CompleteIsEven ==
  ASSUME \A c, d \in Clients : c = d
  PROVE  Spec => CompleteCountsAgree
<1>1. TypeOK /\ CountsInv /\ indexState = "complete" /\ ~error => totalDocs = indexedDocs
  BY DEF CountsInv, Counting
<1>2. TypeOK /\ CountsInv =>
        \A c \in Clients : Answers(c, "complete") /\ ~error => totalDocs = indexedDocs
  BY <1>1 DEF Answers
<1>3. QED
  BY <1>2, OneClientCounts, PTL DEF CompleteCountsAgree
=============================================================================
