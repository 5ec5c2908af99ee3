-------------------------- MODULE ChunkUploadProofs --------------------------
(***************************************************************************)
(* That uploads keep their promise, for every set of uploads and chunks,   *)
(* if names keep the uploads apart: however often a chunk is sent and      *)
(* whenever the service restarts, on a disk that does not fail; and on one *)
(* that does, if no chunk is sent again and large files come in turn.      *)
(* What is left of chunks and their metadata, and types.                   *)
(***************************************************************************)
EXTENDS ChunkUpload, FiniteSetTheorems, SequenceTheorems, TLAPS

\* The name of a large file has one dot and no other upload has it; no chunk is empty.
NamesKeepApart ==
  /\ \A u \in Chunked : Dots[Name[u]] = 1 /\ ~EmptyTail[u]
  /\ \A u, v \in Chunked : Name[u] = Name[v] => u = v

NoFailure == Env \subseteq {"retry", "restart"}

\* renameTo works: what is noted has been moved.
AlwaysMoves == "rename" \notin Env

\* Entries are noted under the name of their file and the number of their chunk, and
\* each such key once.
Keyed(entries) ==
  /\ \A e \in entries :
       /\ e.file.upload \in Chunked
       /\ e.file.index \in Chunks(e.file.upload)
       /\ e.target = Name[e.file.upload]
       /\ e.chunk = ChunkName(e.target, e.file.index, Last[e.file.upload])
  /\ \A d, e \in entries : d.target = e.target /\ d.chunk = e.chunk => d = e

\* What they count is there.
Backed(entries, data) == \A e \in entries : e.file \in data

EntriesOf(u, entries) == {e \in entries : e.file.upload = u}

UploadInv ==
  /\ Keyed(fileUploads) /\ Backed(fileUploads, chunkFiles)
  /\ DOMAIN dest = Files
  /\ DOMAIN outcome = Uploads

\* A chunk of a large file that has come in.
Arrival(u, i) == Keyed(fileUploads) /\ u \in Chunked /\ i \in Chunks(u)

\* What was noted of its file before is still there.
Kept(u) == AlwaysMoves /\ Backed(EntriesOf(u, fileUploads), chunkFiles)

-----------------------------------------------------------------------------
\* A file with one dot keeps its name.
LEMMA KeepsName ==
  ASSUME NamesKeepApart, NEW u \in Chunked, NEW i
  PROVE  TargetFilename(u, i) = Name[u] /\ DestFile(u, i) = Home(u)
BY DEF NamesKeepApart, TargetFilename, DestFile, Home

\* A chunk that comes in is one entry more, or one in the place of the last.
LEMMA EntriesGain ==
  ASSUME NamesKeepApart, NEW u, NEW i, Arrival(u, i)
  PROVE  \E new \in EntriesWith(u, i) :
           /\ new.target = Name[u] /\ new.chunk = ChunkName(Name[u], i, Last[u])
           /\ new.file = Received(u, i)
           /\ EntriesWith(u, i) = {e \in fileUploads :
                 e.target # Name[u] \/ e.chunk # ChunkName(Name[u], i, Last[u])} \cup {new}
<1> DEFINE new == [target |-> Name[u], chunk |-> ChunkName(Name[u], i, Last[u]),
                   file |-> Received(u, i)]
<1>1. EntriesWith(u, i) = {e \in fileUploads :
        e.target # Name[u] \/ e.chunk # ChunkName(Name[u], i, Last[u])} \cup {new}
  BY KeepsName DEF EntriesWith, Arrival
<1>2. QED
  BY <1>1

\* And its data, if the file system moves it.
LEMMA FilesGain ==
  ASSUME NamesKeepApart, AlwaysMoves, NEW u, NEW i, Arrival(u, i), NEW moved \in Moves
  PROVE  FilesWith(u, i, moved) = chunkFiles \cup {Received(u, i)}
BY DEF FilesWith, Moves, AlwaysMoves, IsDirectory, Received, NamesKeepApart, Arrival

\* The chunk that comes in takes the place of the one that was noted for it.
LEMMA EntriesKeyed ==
  ASSUME NamesKeepApart, NEW u, NEW i, Arrival(u, i)
  PROVE  Keyed(EntriesWith(u, i))
<1> DEFINE old == {e \in fileUploads :
             e.target # Name[u] \/ e.chunk # ChunkName(Name[u], i, Last[u])}
<1>1. u \in Chunked /\ i \in Chunks(u) /\ Keyed(fileUploads)
  BY DEF Arrival
<1>2. PICK new \in EntriesWith(u, i) :
        /\ new.target = Name[u] /\ new.chunk = ChunkName(Name[u], i, Last[u])
        /\ new.file = Received(u, i)
        /\ EntriesWith(u, i) = old \cup {new}
  BY EntriesGain
<1>3. new.file.upload = u /\ new.file.index = i
  BY <1>2 DEF Received
<1>4. ASSUME NEW e \in old \cup {new}
      PROVE  /\ e.file.upload \in Chunked
             /\ e.file.index \in Chunks(e.file.upload)
             /\ e.target = Name[e.file.upload]
             /\ e.chunk = ChunkName(e.target, e.file.index, Last[e.file.upload])
  BY <1>1, <1>2, <1>3 DEF Keyed
<1>5. \A d, e \in old \cup {new} : d.target = e.target /\ d.chunk = e.chunk => d = e
  BY <1>1, <1>2 DEF Keyed
<1>6. QED
  BY <1>2, <1>4, <1>5 DEF Keyed

\* What was there stays there.
LEMMA EntriesBacked ==
  ASSUME NamesKeepApart, AlwaysMoves, NEW u, NEW i, Arrival(u, i), NEW moved \in Moves
  PROVE  /\ Backed(fileUploads, chunkFiles) => Backed(EntriesWith(u, i), FilesWith(u, i, moved))
         /\ \A v : Backed(EntriesOf(v, fileUploads), chunkFiles)
                    => Backed(EntriesOf(v, EntriesWith(u, i)), FilesWith(u, i, moved))
<1>1. \A e \in EntriesWith(u, i) : e \in fileUploads \/ e.file = Received(u, i)
  BY EntriesGain
<1>2. FilesWith(u, i, moved) = chunkFiles \cup {Received(u, i)}
  BY FilesGain
<1>3. QED
  BY <1>1, <1>2 DEF Backed, EntriesOf

\* What is counted for a file is of that upload.
LEMMA OwnChunks ==
  ASSUME NamesKeepApart, NEW u, NEW i, Arrival(u, i)
  PROVE  /\ FileChunks(u, i) = EntriesOf(u, EntriesWith(u, i))
         /\ \A e \in FileChunks(u, i) :
              /\ e \in EntriesWith(u, i) /\ e.file.upload = u /\ e.file.index \in Chunks(u)
              /\ e.chunk = ChunkName(Name[u], e.file.index, Last[u])
<1>1. u \in Chunked
  BY DEF Arrival
<1>2. Keyed(EntriesWith(u, i))
  BY EntriesKeyed
<1>3. FileChunks(u, i) = EntriesOf(u, EntriesWith(u, i))
  BY <1>1, <1>2, KeepsName DEF FileChunks, Keyed, NamesKeepApart, EntriesOf
<1>4. QED
  BY <1>2, <1>3 DEF Keyed, EntriesOf

\* They are no more than there are chunks.
LEMMA CountedOnce ==
  ASSUME NamesKeepApart, NEW u, NEW i, Arrival(u, i)
  PROVE  /\ IsFiniteSet(Chunks(u)) /\ Cardinality(Chunks(u)) = Last[u] + 1
         /\ IsFiniteSet(FileChunks(u, i)) /\ Cardinality(FileChunks(u, i)) <= Last[u] + 1
         /\ [e \in FileChunks(u, i) |-> e.file.index] \in Injection(FileChunks(u, i), Chunks(u))
<1> DEFINE S == FileChunks(u, i)
           f == [e \in S |-> e.file.index]
<1>1. Last[u] \in Nat
  BY ConstantsAssumption DEF Arrival, Chunked
<1>2. f \in [S -> Chunks(u)]
  BY OwnChunks
<1>3. ASSUME NEW d \in S, NEW e \in S, f[d] = f[e]
      PROVE  d = e
  <2>1. d.chunk = e.chunk
    BY <1>3, OwnChunks
  <2>2. d.target = e.target /\ d \in EntriesWith(u, i) /\ e \in EntriesWith(u, i)
    BY DEF FileChunks
  <2>3. Keyed(EntriesWith(u, i))
    BY EntriesKeyed
  <2>4. QED
    BY <2>1, <2>2, <2>3 DEF Keyed
<1>4. f \in Injection(S, Chunks(u))
  BY <1>2, <1>3 DEF Injection, IsInjective
<1>5. IsFiniteSet(Chunks(u)) /\ Cardinality(Chunks(u)) = Last[u] + 1
  BY <1>1, FS_Interval DEF Chunks
<1>6. QED
  BY <1>4, <1>5, FS_Injection

\* So that when they are enough none is missing.
LEMMA EnoughIsAll ==
  ASSUME NamesKeepApart, NEW u, NEW i, Arrival(u, i), Enough(u, i)
  PROVE  \A k \in Chunks(u) : \E e \in FileChunks(u, i) : e.file.index = k
<1> DEFINE S == FileChunks(u, i)
           f == [e \in S |-> e.file.index]
<1>1. Last[u] \in Nat
  BY ConstantsAssumption DEF Arrival, Chunked
<1>2. Cardinality(S) = Cardinality(Chunks(u))
  <2>1. IsFiniteSet(S) /\ Cardinality(S) <= Last[u] + 1 /\ Cardinality(Chunks(u)) = Last[u] + 1
    BY CountedOnce
  <2>2. Cardinality(S) \in Nat /\ Cardinality(S) > Last[u]
    BY <2>1, FS_CardinalityType DEF Enough
  <2>3. QED
    BY <1>1, <2>1, <2>2
<1>3. f \in Surjection(S, Chunks(u))
  BY <1>2, CountedOnce, FS_Injection
<1>4. QED
  BY <1>3 DEF Surjection

\* Assembly finds the entry of every chunk, and its data.
LEMMA AllReadable ==
  ASSUME NamesKeepApart, NEW u, NEW i, Arrival(u, i), Kept(u), Enough(u, i),
         NEW moved \in Moves, NEW k \in Chunks(u)
  PROVE  /\ Readable(u, i, k, moved)
         /\ FileOf(u, i, k).upload = u /\ FileOf(u, i, k).index = k
<1>1. u \in Chunked /\ TargetFilename(u, i) = Name[u]
  BY KeepsName DEF Arrival
<1>2. PICK e \in FileChunks(u, i) : e.file.index = k
  BY EnoughIsAll
<1>3. e \in Entry(u, i, k)
  BY <1>1, <1>2, OwnChunks DEF Entry
<1>4. \A d \in Entry(u, i, k) : d.file.upload = u /\ d.file.index = k /\ d \in FileChunks(u, i)
  BY <1>1, OwnChunks DEF Entry, ChunkName
<1>5. (CHOOSE d \in Entry(u, i, k) : TRUE) \in Entry(u, i, k)
  BY <1>3
<1>6. \A d \in FileChunks(u, i) : d.file \in FilesWith(u, i, moved)
  BY EntriesBacked, OwnChunks DEF Kept, Backed
<1>7. QED
  BY <1>4, <1>5, <1>6 DEF FileOf, Readable

\* So that it does not stop early, and makes the whole file.
LEMMA AssembleIsWhole ==
  ASSUME NamesKeepApart, NEW u, NEW i, Arrival(u, i), Kept(u), Enough(u, i),
         NEW moved \in Moves, NEW n \in 0..(Last[u] + 1)
  PROVE  /\ StopsAt(u, i, n, moved) => n = Last[u] + 1
         /\ n = Last[u] + 1 => Content(u, i, n) = Whole(u)
<1>1. Last[u] \in Nat
  BY ConstantsAssumption DEF Arrival, Chunked
<1>2. n <= Last[u] => Readable(u, i, n, moved)
  BY <1>1, AllReadable DEF Chunks
<1>3. StopsAt(u, i, n, moved) => n = Last[u] + 1
  BY <1>1, <1>2 DEF StopsAt
<1>4. ASSUME n = Last[u] + 1
      PROVE  Content(u, i, n) = Whole(u)
  <2>1. \A k \in 1..n : FileOf(u, i, k - 1).upload = u /\ FileOf(u, i, k - 1).index = k - 1
    BY <1>1, <1>4, AllReadable DEF Chunks
  <2>2. QED
    BY <1>4, <2>1 DEF Content, Whole
<1>5. QED
  BY <1>3, <1>4

-----------------------------------------------------------------------------
(* Steps.                                                                  *)

\* A request of a browser, if the disk does not fail: it is noted, or it completes the
\* file, or the process dies while it does.
LEMMA GoSteps ==
  ASSUME NamesKeepApart, NoFailure, UploadInv,
         NEW u \in Uploads, NEW i \in Chunks(u), NEW moved \in Moves, Go(u, i, moved)
  PROVE  /\ Arrival(u, i) /\ Kept(u)
         /\ \/ Collect(u, i, moved)
            \/ /\ Enough(u, i)
               /\ Assemble(u, i, Last[u] + 1, moved)
<1>1. Arrival(u, i) /\ Kept(u)
  <2>1. Arrival(u, i)
    BY DEF Go, Collect, OpenThrows, Assemble, AssembleThrows, DeleteFails, Deliver, Arrival,
           UploadInv
  <2>2. Kept(u)
    BY DEF Kept, AlwaysMoves, NoFailure, UploadInv, Backed, EntriesOf
  <2>3. QED
    BY <2>1, <2>2
<1>2. "iofail" \notin Env
  BY DEF NoFailure
<1>3. Last[u] \in Nat
  BY ConstantsAssumption
<1>4. ASSUME NEW n \in 0..(Last[u] + 1), Assemble(u, i, n, moved)
      PROVE  Enough(u, i) /\ Assemble(u, i, Last[u] + 1, moved)
  BY <1>1, <1>4, AssembleIsWhole DEF Assemble
<1>5. ASSUME NEW n \in 0..(Last[u] + 1), AssembleThrows(u, i, n, moved)
      PROVE  FALSE
  <2>1. Enough(u, i) /\ StopsAt(u, i, n, moved) /\ n <= Last[u]
    BY <1>2, <1>5 DEF AssembleThrows
  <2>2. n = Last[u] + 1
    BY <1>1, <2>1, AssembleIsWhole
  <2>3. QED
    BY <1>3, <2>1, <2>2
<1>6. QED
  BY <1>1, <1>2, <1>4, <1>5 DEF Go, OpenThrows, DeleteFails

\* Assembly takes the entries and the data of its own file and of no other.
LEMMA AssembleKeeps ==
  ASSUME NamesKeepApart, AlwaysMoves, UploadInv, NEW u, NEW i, Arrival(u, i), Enough(u, i),
         NEW moved \in Moves, Assemble(u, i, Last[u] + 1, moved)
  PROVE  UploadInv'
<1> DEFINE n == Last[u] + 1
<1>1. u \in Chunked /\ Last[u] \in Nat
  BY ConstantsAssumption DEF Arrival, Chunked
<1>2. /\ fileUploads' = EntriesWith(u, i) \ FileChunks(u, i)
      /\ chunkFiles' = FilesWith(u, i, moved) \ Copied(u, i, n)
      /\ dest' = [dest EXCEPT ![DestFile(u, i)] = Content(u, i, n)]
      /\ outcome' = [outcome EXCEPT ![u] = "added"]
  BY DEF Assemble
<1>3. Keyed(EntriesWith(u, i)) /\ Backed(EntriesWith(u, i), FilesWith(u, i, moved))
  BY EntriesKeyed, EntriesBacked DEF UploadInv
<1>4. \A f \in Copied(u, i, n) : f.upload = u
  <2>1. ASSUME NEW k \in 0..(n - 1)
        PROVE  FileOf(u, i, k).upload = u
    BY <1>1, AllReadable DEF Chunks, Kept, UploadInv, Backed, EntriesOf
  <2>2. QED
    BY <2>1 DEF Copied
<1>5. \A e \in fileUploads' : e.file.upload # u
  BY <1>1, <1>2, <1>3, KeepsName DEF FileChunks, Keyed
<1>6. Keyed(fileUploads') /\ Backed(fileUploads', chunkFiles')
  BY <1>2, <1>3, <1>4, <1>5 DEF Keyed, Backed
<1>7. DOMAIN dest' = Files /\ DOMAIN outcome' = Uploads
  BY <1>2 DEF UploadInv
<1>8. QED
  BY <1>6, <1>7 DEF UploadInv, Keyed, Backed

\* Every step, but for a disk that fails.
LEMMA NextUploadInv ==
  ASSUME NamesKeepApart, NoFailure, UploadInv, [Next]_vars
  PROVE  UploadInv'
<1>1. ASSUME NEW u \in Uploads, NEW i \in Chunks(u), NEW moved \in Moves, Go(u, i, moved)
      PROVE  UploadInv'
  <2>1. CASE Collect(u, i, moved)
    <3>1. /\ fileUploads' = EntriesWith(u, i) /\ chunkFiles' = FilesWith(u, i, moved)
          /\ dest' = dest /\ outcome' = outcome
      BY <2>1 DEF Collect
    <3>2. QED
      BY <1>1, <3>1, GoSteps, EntriesKeyed, EntriesBacked DEF UploadInv, Kept
  <2>2. CASE Enough(u, i) /\ Assemble(u, i, Last[u] + 1, moved)
    BY <1>1, <2>2, GoSteps, AssembleKeeps DEF Kept
  <2>3. QED
    BY <1>1, <2>1, <2>2, GoSteps
<1>2. CASE fileUploads' = {} /\ DOMAIN dest' = Files /\ DOMAIN outcome' = Uploads
  BY <1>2 DEF UploadInv, Keyed, Backed
<1>3. ASSUME NEW u \in Uploads, NEW i \in Chunks(u), NEW n \in Chunks(u),
             DiesAssembling(u, i, n)
      PROVE  UploadInv'
  BY <1>2, <1>3 DEF DiesAssembling, UploadInv
<1>4. ASSUME NEW U \in SUBSET Uploads, NEW D \in SUBSET U, PlainUpload(U, D)
      PROVE  UploadInv'
  <2>1. DOMAIN dest' = Files /\ DOMAIN outcome' = Uploads
    BY <1>4 DEF PlainUpload
  <2>2. fileUploads' = fileUploads /\ chunkFiles' = chunkFiles
    BY <1>4 DEF PlainUpload, server
  <2>3. QED
    BY <2>1, <2>2 DEF UploadInv
<1>5. CASE Restart
  BY <1>2, <1>5 DEF Restart, UploadInv
<1>6. CASE UNCHANGED vars
  BY <1>6 DEF vars, UploadInv
<1>7. QED
  BY <1>1, <1>3, <1>4, <1>5, <1>6 DEF Next

-----------------------------------------------------------------------------
(* Refinement.                                                             *)

\* Each step is an answer, to one upload or to a batch of small ones, or it is none.
LEMMA StepKeepsPromise ==
  ASSUME NamesKeepApart, NoFailure, UploadInv, [Next]_vars
  PROVE  [Promise!Next]_<<dest, outcome>>
<1>1. ASSUME NEW A \in SUBSET Uploads, NEW F \in SUBSET (Uploads \ A), Promise!Answer(A, F)
      PROVE  Promise!Next
  BY <1>1 DEF Promise!Next
<1>2. ASSUME NEW u \in Uploads, NEW i \in Chunks(u), NEW moved \in Moves, Go(u, i, moved)
      PROVE  [Promise!Next]_<<dest, outcome>>
  <2>1. CASE Collect(u, i, moved)
    BY <2>1 DEF Collect
  <2>2. CASE Enough(u, i) /\ Assemble(u, i, Last[u] + 1, moved)
    <3>1. Arrival(u, i) /\ Kept(u) /\ u \in Chunked /\ Last[u] \in Nat
      BY <1>2, GoSteps, ConstantsAssumption DEF Arrival
    <3>2. DestFile(u, i) = Home(u) /\ Content(u, i, Last[u] + 1) = Whole(u)
      BY <2>2, <3>1, KeepsName, AssembleIsWhole
    <3>3. /\ dest' = [dest EXCEPT ![Home(u)] = Whole(u)]
          /\ outcome' = [outcome EXCEPT ![u] = "added"]
      BY <2>2, <3>2 DEF Assemble
    <3>4. Home(u) \in Files
      BY ConstantsAssumption DEF Home, Files, Targets
    <3>5. Promise!Answer({u}, {})
      BY <3>3, <3>4 DEF Promise!Answer, UploadInv
    <3>6. QED
      BY <1>1, <3>5
  <2>3. QED
    BY <1>2, <2>1, <2>2, GoSteps
<1>3. ASSUME NEW u \in Uploads, NEW i \in Chunks(u), NEW n \in Chunks(u),
             DiesAssembling(u, i, n)
      PROVE  [Promise!Next]_<<dest, outcome>>
  <2>1. /\ dest' = [dest EXCEPT ![DestFile(u, i)] = Content(u, i, n)]
        /\ outcome' = [outcome EXCEPT ![u] = "failed"]
    BY <1>3 DEF DiesAssembling
  <2>2. DestFile(u, i)[1] = Home(u)[1]
    BY DEF DestFile, Home
  <2>3. Promise!Answer({}, {u})
    BY <2>1, <2>2 DEF Promise!Answer, UploadInv
  <2>4. QED
    BY <1>1, <2>3
<1>4. ASSUME NEW U \in SUBSET Uploads, NEW D \in SUBSET U, PlainUpload(U, D)
      PROVE  [Promise!Next]_<<dest, outcome>>
  <2>1. D = U
    BY <1>4 DEF PlainUpload, NoFailure
  <2>2. outcome' = [u \in Uploads |-> IF u \in U THEN "added" ELSE outcome[u]]
    BY <1>4, <2>1 DEF PlainUpload
  <2>3. dest' = [f \in Files |-> IF \E u \in U : f = Home(u)
                                 THEN Whole(CHOOSE u \in U : f = Home(u)) ELSE dest[f]]
    BY <1>4, <2>1 DEF PlainUpload
  <2>4. \A u, v \in U : Home(u) = Home(v) => u = v
    BY <1>4 DEF PlainUpload, Home
  <2>5. ASSUME NEW u \in U
        PROVE  dest'[Home(u)] = Whole(u)
    <3>1. Home(u) \in Files
      BY ConstantsAssumption DEF Home, Files, Targets
    <3>2. (CHOOSE v \in U : Home(u) = Home(v)) = u
      BY <2>4
    <3>3. QED
      BY <2>3, <3>1, <3>2
  <2>6. Promise!Answer(U, {})
    BY <2>2, <2>3, <2>5 DEF Promise!Answer
  <2>7. QED
    BY <1>1, <2>6
<1>5. CASE Restart \/ UNCHANGED vars
  BY <1>5 DEF Restart, vars
<1>6. QED
  BY <1>2, <1>3, <1>4, <1>5 DEF Next

\* The upload command keeps the promise of its class comment: if names keep large files
\* apart and the disk does not fail, then however often chunks are sent, in whatever
\* order, and whenever the service restarts or dies, only a file that holds every chunk
\* of its upload in order is answered as added.
THEOREM UploadKeepsPromise ==
  ASSUME NamesKeepApart, NoFailure
  PROVE  Spec => KeepsPromise
<1>1. Init => UploadInv
  BY DEF Init, UploadInv, Keyed, Backed
<1>2. UploadInv /\ [Next]_vars => UploadInv'
  BY NextUploadInv
<1>3. UploadInv /\ [Next]_vars => [Promise!Next]_<<dest, outcome>>
  BY StepKeepsPromise
<1>4. Init => Promise!Init
  BY DEF Init, Promise!Init
<1>5. QED
  BY <1>1, <1>2, <1>3, <1>4, PTL DEF Spec, KeepsPromise, Promise!Spec

\* Under the same conditions every chunk that is counted is there, so that an upload is
\* put together from what its entries say.
THEOREM ChunksAreThere ==
  ASSUME NamesKeepApart, NoFailure
  PROVE  Spec => []NoDanglingChunk
<1>1. Init => UploadInv
  BY DEF Init, UploadInv, Keyed, Backed
<1>2. UploadInv /\ [Next]_vars => UploadInv'
  BY NextUploadInv
<1>3. UploadInv => NoDanglingChunk
  BY DEF UploadInv, Backed, NoDanglingChunk
<1>4. QED
  BY <1>1, <1>2, <1>3, PTL DEF Spec

-----------------------------------------------------------------------------
(* Types, whatever the names and whatever fails.                           *)

EntryType(e) ==
  /\ e.target \in Targets /\ e.file \in ChunkFile
  /\ e.chunk = ChunkName(Name[e.file.upload], e.file.index, Last[e.file.upload])

\* What a chunk that comes in is noted under, and what it is put together with.
LEMMA NewEntryType ==
  ASSUME TypeOK, NEW u \in Uploads, NEW i \in Chunks(u)
  PROVE  /\ \A e \in EntriesWith(u, i) : EntryType(e)
         /\ \A moved \in BOOLEAN : FilesWith(u, i, moved) \subseteq ChunkFile
         /\ DestFile(u, i) \in Files
         /\ \A n \in Nat, moved \in BOOLEAN :
              (\A k \in 0..(n - 1) : Readable(u, i, k, moved))
                => Content(u, i, n) \in Seq(Uploads \X Nat)
<1>1. sent[u][i] \in Nat /\ i \in Nat
  <2>1. Last[u] \in Nat /\ MaxSends \in Nat
    BY ConstantsAssumption
  <2>2. sent[u] \in [Chunks(u) -> 0..MaxSends]
    BY DEF TypeOK
  <2>3. QED
    BY <2>1, <2>2 DEF Chunks
<1>2. Received(u, i) \in ChunkFile /\ Received(u, i).upload = u /\ Received(u, i).index = i
  BY <1>1 DEF Received, ChunkFile
<1>3. TargetFilename(u, i) \in Targets
  BY DEF Targets
<1>4. \A e \in EntriesWith(u, i) : EntryType(e)
  BY <1>2, <1>3 DEF EntriesWith, EntryType, TypeOK
<1>5. \A moved \in BOOLEAN : FilesWith(u, i, moved) \subseteq ChunkFile
  BY <1>2 DEF FilesWith, TypeOK
<1>6. DestFile(u, i) \in Files
  BY <1>3, ConstantsAssumption DEF DestFile, Files
<1>7. ASSUME NEW n \in Nat, NEW moved \in BOOLEAN,
             \A k \in 0..(n - 1) : Readable(u, i, k, moved)
      PROVE  Content(u, i, n) \in Seq(Uploads \X Nat)
  <2>1. ASSUME NEW k \in 1..n
        PROVE  <<FileOf(u, i, k - 1).upload, FileOf(u, i, k - 1).index>> \in Uploads \X Nat
    <3>1. k - 1 \in 0..(n - 1)
      OBVIOUS
    <3>2. FileOf(u, i, k - 1) \in ChunkFile
      BY <1>5, <1>7, <3>1 DEF Readable
    <3>3. QED
      BY <3>2 DEF ChunkFile
  <2>2. QED
    BY <2>1 DEF Content
<1>8. QED
  BY <1>4, <1>5, <1>6, <1>7

\* A step that is one chunk's, by what it writes.
LEMMA ChunkStepType ==
  ASSUME TypeOK, NEW u \in Uploads, NEW i \in Chunks(u), Deliver(u, i),
         \A e \in fileUploads' : e \in EntriesWith(u, i),
         chunkFiles' \subseteq ChunkFile,
         dest' = dest \/ \E s \in Seq(Uploads \X Nat) : dest' = [dest EXCEPT ![DestFile(u, i)] = s],
         \/ outcome' = outcome
         \/ outcome' = [outcome EXCEPT ![u] = "added"]
         \/ outcome' = [outcome EXCEPT ![u] = "failed"]
  PROVE  TypeOK'
<1>1. \A e \in fileUploads' : EntryType(e)
  BY NewEntryType
<1>2. DOMAIN dest' = Files /\ \A f \in Files : dest'[f] \in Seq(Uploads \X Nat)
  BY NewEntryType DEF TypeOK
<1>3. DOMAIN sent' = Uploads /\ \A v \in Uploads : sent'[v] \in [Chunks(v) -> 0..MaxSends]
  <2>1. sent' = [sent EXCEPT ![u][i] = sent[u][i] + 1] /\ sent[u][i] < MaxSends
    BY ConstantsAssumption DEF Deliver, MaySend, TypeOK
  <2>2. sent[u][i] + 1 \in 0..MaxSends
    BY <2>1, ConstantsAssumption DEF TypeOK
  <2>3. QED
    BY <2>1, <2>2 DEF TypeOK
<1>4. outcome' \in [Uploads -> {"open", "added", "failed"}]
  BY DEF TypeOK
<1>5. QED
  BY <1>1, <1>2, <1>3, <1>4 DEF TypeOK, EntryType

\* One chunk.
LEMMA GoType ==
  ASSUME TypeOK, NEW u \in Uploads, NEW i \in Chunks(u), NEW moved \in Moves, Go(u, i, moved)
  PROVE  TypeOK'
<1> USE DEF Moves
<1>1. moved \in BOOLEAN /\ Last[u] \in Nat
  BY ConstantsAssumption
<1>2. Deliver(u, i)
  BY DEF Go, Collect, OpenThrows, Assemble, AssembleThrows, DeleteFails
<1>3. CASE Collect(u, i, moved) \/ OpenThrows(u, i, moved)
  BY <1>1, <1>2, <1>3, NewEntryType, ChunkStepType DEF Collect, OpenThrows
<1>4. ASSUME NEW n \in 0..(Last[u] + 1),
             \/ Assemble(u, i, n, moved) \/ AssembleThrows(u, i, n, moved)
             \/ DeleteFails(u, i, n, moved)
      PROVE  TypeOK'
  <2>1. n \in Nat /\ n + 1 \in Nat
    BY <1>1
  <2>2. \E s \in Seq(Uploads \X Nat) : dest' = [dest EXCEPT ![DestFile(u, i)] = s]
    <3>1. CASE DeleteFails(u, i, n, moved)
      <4>1. \A k \in 0..((n + 1) - 1) : Readable(u, i, k, moved)
        BY <1>1, <2>1, <3>1 DEF DeleteFails
      <4>2. Content(u, i, n + 1) \in Seq(Uploads \X Nat)
        BY <1>1, <2>1, <4>1, NewEntryType
      <4>3. QED
        BY <3>1, <4>2 DEF DeleteFails
    <3>2. CASE Assemble(u, i, n, moved) \/ AssembleThrows(u, i, n, moved)
      <4>1. \A k \in 0..(n - 1) : Readable(u, i, k, moved)
        BY <3>2 DEF Assemble, AssembleThrows, StopsAt
      <4>2. Content(u, i, n) \in Seq(Uploads \X Nat)
        BY <1>1, <2>1, <4>1, NewEntryType
      <4>3. QED
        BY <3>2, <4>2 DEF Assemble, AssembleThrows
    <3>3. QED
      BY <1>4, <3>1, <3>2
  <2>3. /\ \A e \in fileUploads' : e \in EntriesWith(u, i)
        /\ chunkFiles' \subseteq ChunkFile
        /\ \/ outcome' = [outcome EXCEPT ![u] = "added"]
           \/ outcome' = [outcome EXCEPT ![u] = "failed"]
    BY <1>1, <1>4, NewEntryType DEF Assemble, AssembleThrows, DeleteFails
  <2>4. QED
    BY <1>2, <2>2, <2>3, ChunkStepType
<1>5. QED
  BY <1>3, <1>4 DEF Go

\* Small files.
LEMMA PlainType ==
  ASSUME TypeOK, NEW U \in SUBSET Uploads, NEW D \in SUBSET U, PlainUpload(U, D)
  PROVE  TypeOK'
<1>1. outcome' \in [Uploads -> {"open", "added", "failed"}]
  BY DEF PlainUpload, TypeOK
<1>2. \A u \in Uploads : Whole(u) \in Seq(Uploads \X Nat)
  <2>1. ASSUME NEW u \in Uploads
        PROVE  Whole(u) \in Seq(Uploads \X Nat)
    <3>1. Last[u] + 1 \in Nat
      BY ConstantsAssumption
    <3>2. \A k \in 1..(Last[u] + 1) : <<u, k - 1>> \in Uploads \X Nat
      BY <3>1
    <3>3. QED
      BY <3>1, <3>2 DEF Whole
  <2>2. QED
    BY <2>1
<1>3. ASSUME NEW f \in Files
      PROVE  dest'[f] \in Seq(Uploads \X Nat)
  <2>1. PICK cut \in SUBSET (U \ D) :
          dest' = [g \in Files |->
            IF \E u \in D : g = Home(u) THEN Whole(CHOOSE u \in D : g = Home(u))
            ELSE IF \E u \in cut : g = Home(u) THEN <<>> ELSE dest[g]]
    BY DEF PlainUpload
  <2>2. CASE \E u \in D : f = Home(u)
    <3>1. (CHOOSE u \in D : f = Home(u)) \in Uploads
      BY <2>2
    <3>2. QED
      BY <1>2, <2>1, <2>2, <3>1
  <2>3. CASE ~ \E u \in D : f = Home(u)
    <3>1. dest'[f] = <<>> \/ dest'[f] = dest[f]
      BY <2>1, <2>3
    <3>2. QED
      BY <3>1, EmptySeq DEF TypeOK
  <2>4. QED
    BY <2>2, <2>3
<1>4. DOMAIN dest' = Files
  BY DEF PlainUpload
<1>5. ASSUME NEW u \in Uploads
      PROVE  sent'[u] \in [Chunks(u) -> 0..MaxSends]
  <2>1. CASE u \in U
    <3>1. Last[u] = 0 /\ MaySend(u, 0) /\ Chunks(u) = {0}
      BY <2>1 DEF PlainUpload, Chunks
    <3>2. sent[u][0] \in 0..MaxSends /\ sent[u][0] < MaxSends
      BY <3>1, ConstantsAssumption DEF MaySend, TypeOK
    <3>3. sent'[u] = [i \in {0} |-> sent[u][0] + 1]
      BY <2>1 DEF PlainUpload
    <3>4. QED
      BY <3>1, <3>2, <3>3, ConstantsAssumption
  <2>2. CASE u \notin U
    BY <2>2 DEF PlainUpload, TypeOK
  <2>3. QED
    BY <2>1, <2>2
<1>6. DOMAIN sent' = Uploads /\ fileUploads' = fileUploads /\ chunkFiles' = chunkFiles
  BY DEF PlainUpload, server
<1>7. QED
  BY <1>1, <1>3, <1>4, <1>5, <1>6 DEF TypeOK

\* Whatever fails, and whenever the service restarts: the variables keep their types,
\* an entry always names the chunk whose data it stands for, and a target file only
\* ever holds chunks of uploads.
THEOREM UploadTypeCorrect == Spec => []TypeOK
<1>1. Init => TypeOK
  BY ConstantsAssumption DEF Init, TypeOK
<1>2. ASSUME TypeOK, [Next]_vars
      PROVE  TypeOK'
  <2>1. ASSUME NEW u \in Uploads, NEW i \in Chunks(u), NEW n \in Chunks(u),
               DiesAssembling(u, i, n)
        PROVE  TypeOK'
    <3>1. n \in Nat /\ TRUE \in BOOLEAN
      BY DEF Chunks
    <3>2. Content(u, i, n) \in Seq(Uploads \X Nat)
      BY <1>2, <2>1, <3>1, NewEntryType DEF DiesAssembling
    <3>3. /\ fileUploads' = {} /\ chunkFiles' = {} /\ Deliver(u, i)
          /\ dest' = [dest EXCEPT ![DestFile(u, i)] = Content(u, i, n)]
          /\ outcome' = [outcome EXCEPT ![u] = "failed"]
      BY <2>1 DEF DiesAssembling
    <3>4. QED
      BY <1>2, <3>2, <3>3, ChunkStepType
  <2>2. CASE Restart
    BY <2>2, <1>2 DEF Restart, TypeOK
  <2>3. CASE UNCHANGED vars
    BY <2>3, <1>2 DEF vars, TypeOK
  <2>4. QED
    BY <1>2, <2>1, <2>2, <2>3, GoType, PlainType DEF Next
<1>3. QED
  BY <1>1, <1>2, PTL DEF Spec
-----------------------------------------------------------------------------
(* What the count of chunks comes to, as long as the service stays up and  *)
(* the disk does not fail; a chunk may be sent again.                       *)

NoInterruption == Env \subseteq {"retry"}

Noted(u, i) == \E e \in fileUploads : e.file.upload = u /\ e.file.index = i

\* No chunk of it was sent twice.
Once(u) == \A i \in Chunks(u) : sent[u][i] <= 1

\* Complete and added are the same.
Answered == \A u \in Uploads : outcome[u] = IF Delivered(u) THEN "added" ELSE "open"

\* What has come of an upload that is not complete is noted.
AllNoted ==
  \A u \in Chunked : ~Delivered(u) => \A i \in Chunks(u) : sent[u][i] > 0 => Noted(u, i)

\* What is stored was sent.
Stored ==
  \A f \in chunkFiles : f.upload \in Chunked /\ f.index \in Chunks(f.upload)
                        /\ sent[f.upload][f.index] > 0

\* Of an upload no chunk of which was sent twice, what is stored is noted, and when it
\* is complete nothing is.
Tidy ==
  \A u \in Chunked : Once(u) =>
    /\ \A f \in chunkFiles : f.upload = u => \E e \in fileUploads : e.file = f
    /\ Delivered(u) => EntriesOf(u, fileUploads) = {}

SentInv == Answered /\ AllNoted /\ Stored /\ Tidy

\* What a request of a chunk does to the counts.
LEMMA SentStep ==
  ASSUME TypeOK, NEW u \in Uploads, NEW i \in Chunks(u), Deliver(u, i)
  PROVE  /\ \A v \in Uploads : \A j \in Chunks(v) : sent[v][j] \in Nat
         /\ \A v \in Uploads : v # u => sent'[v] = sent[v]
         /\ \A j \in Chunks(u) : j # i => sent'[u][j] = sent[u][j]
         /\ sent'[u][i] = sent[u][i] + 1
BY ConstantsAssumption DEF TypeOK, Deliver

\* An entry stays until its own chunk comes again.
LEMMA EntriesStay ==
  ASSUME NamesKeepApart, NEW u, NEW i, Arrival(u, i), NEW e \in fileUploads,
         ~(e.file.upload = u /\ e.file.index = i)
  PROVE  e \in EntriesWith(u, i)
<1>1. /\ e.target = Name[e.file.upload] /\ e.file.upload \in Chunked /\ u \in Chunked
      /\ e.chunk = ChunkName(e.target, e.file.index, Last[e.file.upload])
  BY DEF Arrival, Keyed
<1>2. e.target # Name[u] \/ e.chunk # ChunkName(Name[u], i, Last[u])
  BY <1>1 DEF NamesKeepApart, ChunkName
<1>3. QED
  BY <1>2, EntriesGain

\* When each chunk is noted the count is high enough.
LEMMA AllIsEnough ==
  ASSUME NamesKeepApart, NEW u, NEW i, Arrival(u, i),
         \A k \in Chunks(u) : \E e \in FileChunks(u, i) : e.file.index = k
  PROVE  Enough(u, i)
<1> DEFINE S == FileChunks(u, i)
           g == [k \in Chunks(u) |-> CHOOSE e \in S : e.file.index = k]
<1>1. Last[u] \in Nat
  BY ConstantsAssumption DEF Arrival, Chunked
<1>2. \A k \in Chunks(u) : g[k] \in S /\ g[k].file.index = k
  OBVIOUS
<1>3. g \in Injection(Chunks(u), S)
  BY <1>2 DEF Injection, IsInjective
<1>4. IsFiniteSet(Chunks(u)) /\ Cardinality(Chunks(u)) = Last[u] + 1
  BY <1>1, FS_Interval DEF Chunks
<1>5. IsFiniteSet(S)
  BY CountedOnce
<1>6. Cardinality(Chunks(u)) <= Cardinality(S)
  BY <1>3, <1>5, FS_Injection
<1>7. QED
  BY <1>1, <1>4, <1>5, <1>6, FS_CardinalityType DEF Enough

\* Assembly of all chunks takes the data of every entry.
LEMMA CopiedIsAll ==
  ASSUME NamesKeepApart, NEW u, NEW i, Arrival(u, i), Kept(u), Enough(u, i),
         NEW moved \in Moves
  PROVE  Copied(u, i, Last[u] + 1) = {e.file : e \in FileChunks(u, i)}
<1>1. u \in Chunked /\ TargetFilename(u, i) = Name[u] /\ Last[u] \in Nat
  BY KeepsName, ConstantsAssumption DEF Arrival, Chunked
<1>2. ASSUME NEW k \in Chunks(u)
      PROVE  \E e \in FileChunks(u, i) : FileOf(u, i, k) = e.file
  <2>1. PICK e \in FileChunks(u, i) : e.file.index = k
    BY EnoughIsAll
  <2>2. e \in Entry(u, i, k)
    BY <1>1, <2>1, OwnChunks DEF Entry
  <2>3. QED
    BY <2>2 DEF FileOf, Entry
<1>3. ASSUME NEW e \in FileChunks(u, i)
      PROVE  e.file.index \in Chunks(u) /\ FileOf(u, i, e.file.index) = e.file
  <2>1. e \in Entry(u, i, e.file.index) /\ e.file.index \in Chunks(u)
    BY <1>1, OwnChunks DEF Entry
  <2>2. \A d \in Entry(u, i, e.file.index) : d = e
    BY <1>1, <2>1, OwnChunks, EntriesKeyed DEF Entry, Keyed, FileChunks
  <2>3. QED
    BY <2>1, <2>2 DEF FileOf
<1>4. Copied(u, i, Last[u] + 1) = {FileOf(u, i, k) : k \in Chunks(u)}
  BY <1>1 DEF Copied, Chunks
<1>5. QED
  BY <1>2, <1>3, <1>4

\* Completeness is a matter of the counts.
LEMMA DeliveredStep ==
  ASSUME TypeOK, NEW u \in Uploads, NEW i \in Chunks(u), Deliver(u, i)
  PROVE  /\ \A v \in Uploads : v # u => (Delivered(v)' <=> Delivered(v)) /\ (Once(v)' <=> Once(v))
         /\ Delivered(u) => Delivered(u)'
         /\ Delivered(u)' <=> \A j \in Chunks(u) : j # i => sent[u][j] > 0
         /\ Once(u)' => Once(u) /\ sent[u][i] = 0
<1>1. /\ \A v \in Uploads : \A j \in Chunks(v) : sent[v][j] \in Nat
      /\ \A v \in Uploads : v # u => sent'[v] = sent[v]
      /\ \A j \in Chunks(u) : j # i => sent'[u][j] = sent[u][j]
      /\ sent'[u][i] = sent[u][i] + 1
  BY SentStep
<1>2. sent[u][i] \in Nat /\ sent'[u][i] > 0
  BY <1>1
<1>3. \A v \in Uploads : v # u => (Delivered(v)' <=> Delivered(v)) /\ (Once(v)' <=> Once(v))
  BY <1>1 DEF Delivered, Once
<1>4. Delivered(u)' <=> \A j \in Chunks(u) : j # i => sent[u][j] > 0
  BY <1>1, <1>2 DEF Delivered
<1>5. Delivered(u) => Delivered(u)'
  BY <1>4 DEF Delivered
<1>6. Once(u)' => Once(u) /\ sent[u][i] = 0
  <2>1. SUFFICES ASSUME \A j \in Chunks(u) : sent'[u][j] <= 1
                 PROVE  Once(u) /\ sent[u][i] = 0
    BY DEF Once
  <2>2. sent[u][i] = 0
    BY <1>1, <1>2, <2>1
  <2>3. \A j \in Chunks(u) : sent[u][j] <= 1
    BY <1>1, <2>1, <2>2
  <2>4. QED
    BY <2>2, <2>3 DEF Once
<1>7. QED
  BY <1>3, <1>4, <1>5, <1>6

\* Every entry that is counted has been sent, and those of the chunk that comes in was.
LEMMA CountedWasSent ==
  ASSUME NamesKeepApart, UploadInv, Stored, NEW u, NEW i, Arrival(u, i)
  PROVE  \A e \in FileChunks(u, i) : e.file.index = i \/ sent[u][e.file.index] > 0
<1>1. \A e \in EntriesWith(u, i) : e \in fileUploads \/ e.file = Received(u, i)
  BY EntriesGain
<1>2. Received(u, i).index = i
  BY DEF Received
<1>3. QED
  BY <1>1, <1>2, OwnChunks DEF Stored, UploadInv, Backed

\* What comes in is noted beside what was.
LEMMA NotedGain ==
  ASSUME NamesKeepApart, NEW u, NEW i, Arrival(u, i)
  PROVE  /\ \E e \in FileChunks(u, i) : e.file = Received(u, i) /\ e.file.index = i
         /\ \A j \in Chunks(u) : Noted(u, j) => \E e \in FileChunks(u, i) : e.file.index = j
         /\ \A v : v # u => EntriesOf(v, EntriesWith(u, i)) = EntriesOf(v, fileUploads)
<1>1. PICK new \in EntriesWith(u, i) :
        /\ new.file = Received(u, i)
        /\ EntriesWith(u, i) \subseteq fileUploads \cup {new}
  BY EntriesGain
<1>2. new.file.upload = u /\ new.file.index = i
  BY <1>1 DEF Received
<1>3. new \in FileChunks(u, i)
  BY <1>1, <1>2, OwnChunks DEF EntriesOf
<1>4. ASSUME NEW j \in Chunks(u), Noted(u, j)
      PROVE  \E e \in FileChunks(u, i) : e.file.index = j
  <2>1. CASE j = i
    BY <1>2, <1>3, <2>1
  <2>2. CASE j # i
    BY <1>4, <2>2, EntriesStay, OwnChunks DEF Noted, EntriesOf
  <2>3. QED
    BY <2>1, <2>2
<1>5. ASSUME NEW v, v # u
      PROVE  EntriesOf(v, EntriesWith(u, i)) = EntriesOf(v, fileUploads)
  BY <1>1, <1>2, <1>5, EntriesStay DEF EntriesOf
<1>6. QED
  BY <1>1, <1>2, <1>3, <1>4, <1>5

\* A chunk that does not complete its file.
LEMMA CollectSent ==
  ASSUME NamesKeepApart, NoInterruption, TypeOK, UploadInv, SentInv,
         NEW u \in Uploads, NEW i \in Chunks(u), NEW moved \in Moves,
         Arrival(u, i), Collect(u, i, moved)
  PROVE  SentInv'
<1>1. Deliver(u, i) /\ ~Enough(u, i) /\ u \in Chunked /\ AlwaysMoves
  BY DEF Collect, Arrival, NoInterruption, AlwaysMoves
<1>2. /\ fileUploads' = EntriesWith(u, i)
      /\ chunkFiles' = chunkFiles \cup {Received(u, i)}
      /\ outcome' = outcome
  BY <1>1, FilesGain DEF Collect
<1>3. /\ \A v \in Uploads : \A j \in Chunks(v) : sent[v][j] \in Nat
      /\ \A v \in Uploads : v # u => sent'[v] = sent[v]
      /\ \A j \in Chunks(u) : j # i => sent'[u][j] = sent[u][j]
      /\ sent'[u][i] = sent[u][i] + 1
  BY <1>1, SentStep
<1>4. /\ \A v \in Uploads : v # u => (Delivered(v)' <=> Delivered(v)) /\ (Once(v)' <=> Once(v))
      /\ Delivered(u) => Delivered(u)'
      /\ Delivered(u)' <=> \A j \in Chunks(u) : j # i => sent[u][j] > 0
      /\ Once(u)' => Once(u) /\ sent[u][i] = 0
  BY <1>1, DeliveredStep
<1>5. /\ \E e \in FileChunks(u, i) : e.file = Received(u, i) /\ e.file.index = i
      /\ \A j \in Chunks(u) : Noted(u, j) => \E e \in FileChunks(u, i) : e.file.index = j
      /\ \A v : v # u => EntriesOf(v, EntriesWith(u, i)) = EntriesOf(v, fileUploads)
      /\ FileChunks(u, i) = EntriesOf(u, EntriesWith(u, i))
  BY NotedGain, OwnChunks
<1>6. Delivered(u)' <=> Delivered(u)
  <2>1. SUFFICES ASSUME Delivered(u)', ~Delivered(u)
                 PROVE  FALSE
    BY <1>4
  <2>2. \A j \in Chunks(u) : j # i => Noted(u, j)
    BY <1>1, <1>4, <2>1 DEF SentInv, AllNoted
  <2>3. \A j \in Chunks(u) : \E e \in FileChunks(u, i) : e.file.index = j
    BY <1>5, <2>2
  <2>4. QED
    BY <1>1, <2>3, AllIsEnough
<1>7. Answered'
  BY <1>2, <1>4, <1>6 DEF SentInv, Answered
<1>8. ASSUME NEW v \in Chunked, ~Delivered(v)', NEW j \in Chunks(v), sent'[v][j] > 0
      PROVE  Noted(v, j)'
  <2>1. CASE v # u
    <3>1. Noted(v, j)
      BY <1>3, <1>4, <1>8, <2>1 DEF SentInv, AllNoted, Chunked
    <3>2. EntriesOf(v, fileUploads') = EntriesOf(v, fileUploads)
      BY <1>2, <1>5, <2>1
    <3>3. QED
      BY <3>1, <3>2 DEF Noted, EntriesOf
  <2>2. CASE v = u
    <3>1. j = i \/ Noted(u, j)
      BY <1>1, <1>3, <1>6, <1>8, <2>2 DEF SentInv, AllNoted
    <3>2. \E e \in FileChunks(u, i) : e.file.index = j
      BY <1>5, <1>8, <2>2, <3>1
    <3>3. QED
      BY <1>2, <1>5, <2>2, <3>2 DEF Noted, EntriesOf
  <2>3. QED
    BY <2>1, <2>2
<1>9. Stored'
  <2>1. Received(u, i).upload = u /\ Received(u, i).index = i /\ sent'[u][i] > 0
    BY <1>3 DEF Received
  <2>2. \A v \in Uploads : \A j \in Chunks(v) : sent[v][j] > 0 => sent'[v][j] > 0
    BY <1>3
  <2>3. QED
    BY <1>1, <1>2, <2>1, <2>2 DEF SentInv, Stored, Chunked
<1>10. ASSUME NEW v \in Chunked, Once(v)'
       PROVE  /\ \A f \in chunkFiles' : f.upload = v => \E e \in fileUploads' : e.file = f
              /\ Delivered(v)' => EntriesOf(v, fileUploads') = {}
  <2>1. Received(u, i).upload = u
    BY DEF Received
  <2>2. CASE v # u
    <3>1. /\ \A f \in chunkFiles : f.upload = v => \E e \in fileUploads : e.file = f
          /\ Delivered(v) => EntriesOf(v, fileUploads) = {}
      BY <1>4, <1>10, <2>2 DEF SentInv, Tidy, Chunked
    <3>2. EntriesOf(v, fileUploads') = EntriesOf(v, fileUploads)
      BY <1>2, <1>5, <2>2
    <3>3. \A f \in chunkFiles' : f.upload = v => \E e \in fileUploads' : e.file = f
      BY <1>2, <2>1, <2>2, <3>1, <3>2 DEF EntriesOf
    <3>4. QED
      BY <1>4, <2>2, <3>1, <3>2, <3>3 DEF Chunked
  <2>3. CASE v = u
    <3>1. Once(u) /\ sent[u][i] = 0 /\ ~Delivered(u)
      BY <1>3, <1>4, <1>10, <2>3 DEF Delivered
    <3>2. ASSUME NEW f \in chunkFiles, f.upload = u
          PROVE  \E e \in fileUploads' : e.file = f
      <4>1. PICK e \in fileUploads : e.file = f
        BY <1>1, <3>1, <3>2 DEF SentInv, Tidy
      <4>2. f.index # i
        BY <3>1, <3>2 DEF SentInv, Stored
      <4>3. QED
        BY <1>2, <4>1, <4>2, EntriesStay
    <3>3. \E e \in fileUploads' : e.file = Received(u, i)
      BY <1>2, <1>5 DEF FileChunks
    <3>4. QED
      BY <1>2, <1>6, <2>3, <3>1, <3>2, <3>3
  <2>4. QED
    BY <2>2, <2>3
<1>11. QED
  BY <1>7, <1>8, <1>9, <1>10 DEF SentInv, AllNoted, Tidy

\* A chunk that completes its file.
LEMMA AssembleSent ==
  ASSUME NamesKeepApart, NoInterruption, TypeOK, UploadInv, SentInv,
         NEW u \in Uploads, NEW i \in Chunks(u), NEW moved \in Moves,
         Arrival(u, i), Kept(u), Enough(u, i), Assemble(u, i, Last[u] + 1, moved)
  PROVE  SentInv'
<1>1. Deliver(u, i) /\ u \in Chunked /\ AlwaysMoves
  BY DEF Assemble, Arrival, NoInterruption, AlwaysMoves
<1>2. /\ fileUploads' = EntriesWith(u, i) \ FileChunks(u, i)
      /\ chunkFiles' = (chunkFiles \cup {Received(u, i)}) \ {e.file : e \in FileChunks(u, i)}
      /\ outcome' = [outcome EXCEPT ![u] = "added"]
  BY <1>1, FilesGain, CopiedIsAll DEF Assemble
<1>3. /\ \A v \in Uploads : \A j \in Chunks(v) : sent[v][j] \in Nat
      /\ \A v \in Uploads : v # u => sent'[v] = sent[v]
      /\ \A j \in Chunks(u) : j # i => sent'[u][j] = sent[u][j]
      /\ sent'[u][i] = sent[u][i] + 1
  BY <1>1, SentStep
<1>4. /\ \A v \in Uploads : v # u => (Delivered(v)' <=> Delivered(v)) /\ (Once(v)' <=> Once(v))
      /\ Delivered(u)' <=> \A j \in Chunks(u) : j # i => sent[u][j] > 0
      /\ Once(u)' => Once(u) /\ sent[u][i] = 0
  BY <1>1, DeliveredStep
<1>5. /\ \E e \in FileChunks(u, i) : e.file = Received(u, i) /\ e.file.index = i
      /\ \A v : v # u => EntriesOf(v, EntriesWith(u, i)) = EntriesOf(v, fileUploads)
      /\ FileChunks(u, i) = EntriesOf(u, EntriesWith(u, i))
  BY NotedGain, OwnChunks
<1>6. Delivered(u)'
  <2>1. \A j \in Chunks(u) : \E e \in FileChunks(u, i) : e.file.index = j
    BY EnoughIsAll
  <2>2. \A e \in FileChunks(u, i) : e.file.index = i \/ sent[u][e.file.index] > 0
    BY CountedWasSent DEF SentInv
  <2>3. QED
    BY <1>4, <2>1, <2>2
<1>7. Answered'
  BY <1>2, <1>4, <1>6 DEF SentInv, Answered, UploadInv
<1>8. \A v : v # u => EntriesOf(v, fileUploads') = EntriesOf(v, fileUploads)
  BY <1>2, <1>5 DEF EntriesOf
<1>9. EntriesOf(u, fileUploads') = {}
  BY <1>2, <1>5 DEF EntriesOf
<1>10. AllNoted'
  <2>1. ASSUME NEW v \in Chunked, ~Delivered(v)', NEW j \in Chunks(v), sent'[v][j] > 0
        PROVE  Noted(v, j)'
    <3>1. v # u
      BY <1>6, <2>1
    <3>2. Noted(v, j)
      BY <1>3, <1>4, <2>1, <3>1 DEF SentInv, AllNoted, Chunked
    <3>3. QED
      BY <1>8, <3>1, <3>2 DEF Noted, EntriesOf
  <2>2. QED
    BY <2>1 DEF AllNoted
<1>11. Stored'
  <2>1. Received(u, i).upload = u /\ Received(u, i).index = i /\ sent'[u][i] > 0
    BY <1>3 DEF Received
  <2>2. \A v \in Uploads : \A j \in Chunks(v) : sent[v][j] > 0 => sent'[v][j] > 0
    BY <1>3
  <2>3. QED
    BY <1>1, <1>2, <2>1, <2>2 DEF SentInv, Stored, Chunked
<1>12. ASSUME NEW v \in Chunked, Once(v)'
       PROVE  /\ \A f \in chunkFiles' : f.upload = v => \E e \in fileUploads' : e.file = f
              /\ Delivered(v)' => EntriesOf(v, fileUploads') = {}
  <2>1. CASE v # u
    <3>1. /\ \A f \in chunkFiles : f.upload = v => \E e \in fileUploads : e.file = f
          /\ Delivered(v) => EntriesOf(v, fileUploads) = {}
      BY <1>4, <1>12, <2>1 DEF SentInv, Tidy, Chunked
    <3>2. Received(u, i).upload = u
      BY DEF Received
    <3>3. \A f \in chunkFiles' : f.upload = v => \E e \in fileUploads' : e.file = f
      BY <1>2, <1>8, <2>1, <3>1, <3>2 DEF EntriesOf
    <3>4. QED
      BY <1>4, <1>8, <2>1, <3>1, <3>3 DEF Chunked
  <2>2. CASE v = u
    <3>1. Once(u) /\ sent[u][i] = 0
      BY <1>4, <1>12, <2>2
    <3>2. ASSUME NEW f \in chunkFiles', f.upload = u
          PROVE  FALSE
      <4>1. f \in chunkFiles /\ \A e \in FileChunks(u, i) : e.file # f
        BY <1>2, <1>5, <3>2
      <4>2. PICK e \in fileUploads : e.file = f
        BY <1>1, <3>1, <3>2, <4>1 DEF SentInv, Tidy
      <4>3. f.index # i
        BY <3>1, <3>2, <4>1 DEF SentInv, Stored
      <4>4. e \in EntriesWith(u, i)
        BY <4>2, <4>3, EntriesStay
      <4>5. QED
        BY <1>5, <3>2, <4>1, <4>2, <4>4 DEF EntriesOf
    <3>3. QED
      BY <1>9, <2>2, <3>2
  <2>3. QED
    BY <2>1, <2>2
<1>13. QED
  BY <1>7, <1>10, <1>11, <1>12 DEF SentInv, Tidy

\* Small files do not touch what is kept for large ones.
LEMMA PlainSent ==
  ASSUME NoInterruption, TypeOK, SentInv,
         NEW U \in SUBSET Uploads, NEW D \in SUBSET U, PlainUpload(U, D)
  PROVE  SentInv'
<1>1. D = U
  BY DEF PlainUpload, NoInterruption
<1>2. /\ outcome' = [u \in Uploads |-> IF u \in U THEN "added" ELSE outcome[u]]
      /\ sent' = [u \in Uploads |-> IF u \in U THEN [i \in {0} |-> sent[u][0] + 1] ELSE sent[u]]
      /\ fileUploads' = fileUploads /\ chunkFiles' = chunkFiles
  BY <1>1 DEF PlainUpload, server
<1>3. \A u \in U : Delivered(u)'
  <2>1. ASSUME NEW u \in U
        PROVE  Delivered(u)'
    <3>1. Chunks(u) = {0} /\ sent[u][0] \in Nat
      BY ConstantsAssumption DEF PlainUpload, Chunks, TypeOK
    <3>2. sent'[u][0] = sent[u][0] + 1
      BY <1>2
    <3>3. QED
      BY <3>1, <3>2 DEF Delivered
  <2>2. QED
    BY <2>1
<1>4. \A u \in Uploads : u \notin U => sent'[u] = sent[u]
  BY <1>2
<1>5. \A u \in Chunked : u \notin U
  BY DEF PlainUpload, Chunked
<1>6. \A u \in Uploads : u \notin U => (Delivered(u)' <=> Delivered(u)) /\ (Once(u)' <=> Once(u))
  BY <1>4 DEF Delivered, Once
<1>7. Answered'
  BY <1>2, <1>3, <1>6 DEF SentInv, Answered
<1>8. \A u \in Chunked : sent'[u] = sent[u] /\ (Delivered(u)' <=> Delivered(u))
                         /\ (Once(u)' <=> Once(u))
  BY <1>4, <1>5, <1>6 DEF Chunked
<1>9. AllNoted' /\ Stored' /\ Tidy'
  <2>1. AllNoted'
    BY <1>2, <1>8 DEF SentInv, AllNoted, Noted
  <2>2. Stored'
    BY <1>2, <1>8 DEF SentInv, Stored
  <2>3. Tidy'
    BY <1>2, <1>8 DEF SentInv, Tidy, EntriesOf
  <2>4. QED
    BY <2>1, <2>2, <2>3
<1>10. QED
  BY <1>7, <1>9 DEF SentInv

LEMMA NextSent ==
  ASSUME NamesKeepApart, NoInterruption, TypeOK, UploadInv, SentInv, [Next]_vars
  PROVE  SentInv'
<1>1. NoFailure /\ "restart" \notin Env
  BY DEF NoFailure, NoInterruption
<1>2. ASSUME NEW u \in Uploads, NEW i \in Chunks(u), NEW moved \in Moves, Go(u, i, moved)
      PROVE  SentInv'
  BY <1>1, <1>2, GoSteps, CollectSent, AssembleSent
<1>3. CASE UNCHANGED vars
  BY <1>3 DEF vars, SentInv, Answered, AllNoted, Noted, Stored, Tidy, Delivered, Once, EntriesOf
<1>4. QED
  BY <1>1, <1>2, <1>3, PlainSent DEF Next, DiesAssembling, Restart

LEMMA SentInvariant ==
  ASSUME NamesKeepApart, NoInterruption
  PROVE  Spec => [](UploadInv /\ SentInv)
<1>1. Init => UploadInv /\ SentInv
  <2>1. SUFFICES ASSUME Init PROVE UploadInv /\ SentInv
    OBVIOUS
  <2>2. UploadInv
    BY <2>1 DEF Init, UploadInv, Keyed, Backed
  <2>3. \A u \in Uploads : ~Delivered(u) /\ outcome[u] = "open"
    BY <2>1, ConstantsAssumption DEF Init, Delivered, Chunks
  <2>4. Answered /\ AllNoted /\ Stored /\ Tidy
    <3>1. fileUploads = {} /\ chunkFiles = {}
      BY <2>1 DEF Init
    <3>2. \A u \in Uploads : \A i \in Chunks(u) : sent[u][i] = 0
      BY <2>1 DEF Init
    <3>3. Answered
      BY <2>3 DEF Answered
    <3>4. AllNoted
      BY <3>2 DEF AllNoted, Chunked
    <3>5. QED
      BY <3>1, <3>3, <3>4 DEF Stored, Tidy, EntriesOf
  <2>5. QED
    BY <2>2, <2>4 DEF SentInv
<1>2. TypeOK /\ UploadInv /\ SentInv /\ [Next]_vars => (UploadInv /\ SentInv)'
  BY NextUploadInv, NextSent DEF NoFailure, NoInterruption
<1>3. Spec => []TypeOK
  BY UploadTypeCorrect
<1>4. QED
  BY <1>1, <1>2, <1>3, PTL DEF Spec

\* As long as the service stays up and the disk does not fail, the count of chunks is
\* worth its comment: every upload whose chunks have all come, in whatever order and
\* however often, has been put together and answered as added.
THEOREM DeliveredAreAdded ==
  ASSUME NamesKeepApart, NoInterruption
  PROVE  Spec => []DeliveredIsAdded
<1>1. SentInv => DeliveredIsAdded
  BY DEF SentInv, Answered, DeliveredIsAdded
<1>2. QED
  BY <1>1, SentInvariant, PTL

\* And if each chunk came once, neither metadata nor data of any is left.
THEOREM NothingIsLeft ==
  ASSUME NamesKeepApart, NoInterruption
  PROVE  Spec => []NothingLeft
<1>1. ASSUME UploadInv, SentInv, \A u \in Uploads : \A i \in Chunks(u) : sent[u][i] = 1
      PROVE  fileUploads = {} /\ chunkFiles = {}
  <2>1. \A u \in Uploads : Delivered(u) /\ Once(u)
    BY <1>1 DEF Delivered, Once
  <2>2. \A u \in Chunked : EntriesOf(u, fileUploads) = {}
    BY <1>1, <2>1 DEF SentInv, Tidy, Chunked
  <2>3. fileUploads = {}
    BY <1>1, <2>2 DEF UploadInv, Keyed, EntriesOf
  <2>4. chunkFiles = {}
    BY <1>1, <2>1, <2>3 DEF SentInv, Tidy, Stored, Chunked
  <2>5. QED
    BY <2>3, <2>4
<1>2. UploadInv /\ SentInv => NothingLeft
  BY <1>1 DEF NothingLeft
<1>3. QED
  BY <1>2, SentInvariant, PTL

-----------------------------------------------------------------------------
(* What a failure leaves, when no chunk is sent again.                     *)

NoRetry == Env \subseteq {"restart", "iofail"}

NoneFailed == \A u \in Uploads : outcome[u] # "failed"

\* An answer is the last thing that comes of an upload.
AnswerIsLast == \A u \in Uploads : outcome[u] # "open" => Delivered(u)

NotedWasSent == \A e \in fileUploads : sent[e.file.upload][e.file.index] > 0

\* Metadata and data match.
Match ==
  /\ Backed(fileUploads, chunkFiles)
  /\ chunkFiles \subseteq {e.file : e \in fileUploads}

FaultInv ==
  /\ Keyed(fileUploads) /\ DOMAIN dest = Files
  /\ AnswerIsLast /\ NotedWasSent
  /\ NoneFailed => Match

\* A chunk that comes in: its file has not been answered, and afterwards what is noted
\* has been sent; if it was enough, all of it has.
LEMMA FirstArrival ==
  ASSUME NamesKeepApart, NoRetry, TypeOK, FaultInv,
         NEW u \in Uploads, NEW i \in Chunks(u), Deliver(u, i)
  PROVE  /\ Arrival(u, i) /\ AlwaysMoves
         /\ ~Delivered(u) /\ outcome[u] = "open" /\ ~Noted(u, i)
         /\ Keyed(EntriesWith(u, i))
         /\ \A e \in EntriesWith(u, i) : sent'[e.file.upload][e.file.index] > 0
         /\ \A v \in Uploads : Delivered(v) => Delivered(v)'
         /\ Enough(u, i) => Delivered(u)'
<1>1. Arrival(u, i) /\ AlwaysMoves
  BY DEF Deliver, Arrival, FaultInv, NoRetry, AlwaysMoves
<1>2. sent[u][i] < 1 /\ sent[u][i] \in Nat
  BY SentStep DEF Deliver, MaySend, NoRetry
<1>3. ~Delivered(u) /\ outcome[u] = "open" /\ ~Noted(u, i)
  BY <1>2 DEF Delivered, Noted, FaultInv, AnswerIsLast, NotedWasSent
<1>4. Keyed(EntriesWith(u, i))
  BY <1>1, EntriesKeyed
<1>5. ASSUME NEW e \in EntriesWith(u, i)
      PROVE  sent'[e.file.upload][e.file.index] > 0
  <2>1. CASE e \in fileUploads
    <3>1. e.file.upload \in Uploads /\ e.file.index \in Chunks(e.file.upload)
      BY <2>1 DEF FaultInv, Keyed, Chunked
    <3>2. sent[e.file.upload][e.file.index] > 0
      BY <2>1 DEF FaultInv, NotedWasSent
    <3>3. QED
      BY <3>1, <3>2, SentStep
  <2>2. CASE e.file = Received(u, i)
    <3>1. e.file.upload = u /\ e.file.index = i
      BY <2>2 DEF Received
    <3>2. QED
      BY <1>2, <3>1, SentStep
  <2>3. QED
    BY <1>1, <2>1, <2>2, EntriesGain
<1>6. \A v \in Uploads : Delivered(v) => Delivered(v)'
  BY DeliveredStep
<1>7. ASSUME Enough(u, i)
      PROVE  Delivered(u)'
  <2>1. \A j \in Chunks(u) : \E e \in FileChunks(u, i) : e.file.index = j
    BY <1>1, <1>7, EnoughIsAll
  <2>2. \A e \in FileChunks(u, i) : e \in EntriesWith(u, i) /\ e.file.upload = u
    BY <1>1, OwnChunks
  <2>3. QED
    BY <1>5, <2>1, <2>2 DEF Delivered
<1>8. QED
  BY <1>1, <1>3, <1>4, <1>5, <1>6, <1>7

\* While metadata and data match, what comes in keeps them so.
LEMMA MatchGain ==
  ASSUME NamesKeepApart, AlwaysMoves, Match,
         NEW u, NEW i, Arrival(u, i), ~Noted(u, i), NEW moved \in Moves
  PROVE  /\ Kept(u)
         /\ Backed(EntriesWith(u, i), FilesWith(u, i, moved))
         /\ FilesWith(u, i, moved) \subseteq {e.file : e \in EntriesWith(u, i)}
<1>1. Kept(u) /\ Backed(EntriesWith(u, i), FilesWith(u, i, moved))
  BY EntriesBacked DEF Kept, Match, Backed, EntriesOf
<1>2. \A e \in fileUploads : e \in EntriesWith(u, i)
  BY EntriesStay DEF Noted
<1>3. \E e \in EntriesWith(u, i) : e.file = Received(u, i)
  BY NotedGain DEF FileChunks
<1>4. FilesWith(u, i, moved) = chunkFiles \cup {Received(u, i)}
  BY FilesGain
<1>5. QED
  BY <1>1, <1>2, <1>3, <1>4 DEF Match

\* What a chunk's step does to this, by what it writes.
LEMMA FaultStep ==
  ASSUME NamesKeepApart, NoRetry, TypeOK, FaultInv,
         NEW u \in Uploads, NEW i \in Chunks(u), Deliver(u, i),
         \A e \in fileUploads' : e \in EntriesWith(u, i),
         DOMAIN dest' = Files,
         \/ outcome' = outcome /\ (NoneFailed => Match')
         \/ Enough(u, i) /\ outcome' = [outcome EXCEPT ![u] = "added"] /\ (NoneFailed => Match')
         \/ Enough(u, i) /\ outcome' = [outcome EXCEPT ![u] = "failed"]
  PROVE  FaultInv'
<1>1. /\ Keyed(EntriesWith(u, i)) /\ outcome[u] = "open"
      /\ \A e \in EntriesWith(u, i) : sent'[e.file.upload][e.file.index] > 0
      /\ \A v \in Uploads : Delivered(v) => Delivered(v)'
      /\ Enough(u, i) => Delivered(u)'
  BY FirstArrival
<1>2. Keyed(fileUploads')
  BY <1>1 DEF Keyed
<1>3. NotedWasSent'
  BY <1>1 DEF NotedWasSent
<1>4. DOMAIN outcome = Uploads
  BY DEF TypeOK
<1>5. AnswerIsLast'
  BY <1>1, <1>4 DEF FaultInv, AnswerIsLast
<1>6. NoneFailed' => Match'
  BY <1>1, <1>4 DEF NoneFailed
<1>7. Keyed(fileUploads)'
  BY <1>2 DEF Keyed
<1>8. QED
  BY <1>3, <1>5, <1>6, <1>7 DEF FaultInv

\* A request of a chunk.
LEMMA GoFaults ==
  ASSUME NamesKeepApart, NoRetry, TypeOK, FaultInv,
         NEW u \in Uploads, NEW i \in Chunks(u), NEW moved \in Moves, Go(u, i, moved)
  PROVE  FaultInv'
<1>1. Deliver(u, i) /\ DOMAIN dest = Files
  BY DEF Go, Collect, OpenThrows, Assemble, AssembleThrows, DeleteFails, FaultInv
<1>2. Arrival(u, i) /\ AlwaysMoves /\ ~Noted(u, i)
  BY <1>1, FirstArrival
<1>3. CASE Collect(u, i, moved)
  <2>1. /\ fileUploads' = EntriesWith(u, i) /\ chunkFiles' = FilesWith(u, i, moved)
        /\ dest' = dest /\ outcome' = outcome
    BY <1>3 DEF Collect
  <2>2. NoneFailed => Match'
    BY <1>2, <2>1, MatchGain DEF FaultInv, Match, Backed
  <2>3. QED
    BY <1>1, <2>1, <2>2, FaultStep
<1>4. ASSUME NEW n \in 0..(Last[u] + 1), Assemble(u, i, n, moved)
      PROVE  FaultInv'
  <2>1. /\ fileUploads' = EntriesWith(u, i) \ FileChunks(u, i)
        /\ chunkFiles' = FilesWith(u, i, moved) \ Copied(u, i, n)
        /\ outcome' = [outcome EXCEPT ![u] = "added"]
        /\ DOMAIN dest' = Files
        /\ Enough(u, i) /\ StopsAt(u, i, n, moved)
    BY <1>1, <1>4 DEF Assemble
  <2>2. ASSUME NoneFailed
        PROVE  Match'
    <3>1. /\ Kept(u)
          /\ Backed(EntriesWith(u, i), FilesWith(u, i, moved))
          /\ FilesWith(u, i, moved) \subseteq {e.file : e \in EntriesWith(u, i)}
      BY <1>2, <2>2, MatchGain DEF FaultInv
    <3>2. Copied(u, i, n) = {e.file : e \in FileChunks(u, i)}
      BY <1>2, <2>1, <3>1, AssembleIsWhole, CopiedIsAll
    <3>3. \A d \in fileUploads' : \A e \in FileChunks(u, i) : d.file # e.file
      BY <1>2, <2>1, OwnChunks DEF EntriesOf
    <3>4. QED
      BY <2>1, <3>1, <3>2, <3>3 DEF Match, Backed
  <2>3. QED
    BY <1>1, <2>1, <2>2, FaultStep
<1>5. ASSUME NEW n \in 0..(Last[u] + 1),
             AssembleThrows(u, i, n, moved) \/ DeleteFails(u, i, n, moved)
      PROVE  FaultInv'
  <2>1. /\ \A e \in fileUploads' : e \in EntriesWith(u, i)
        /\ outcome' = [outcome EXCEPT ![u] = "failed"]
        /\ DOMAIN dest' = Files
        /\ Enough(u, i)
    BY <1>1, <1>5 DEF AssembleThrows, DeleteFails
  <2>2. QED
    BY <1>1, <2>1, FaultStep
<1>6. CASE OpenThrows(u, i, moved)
  <2>1. /\ \A e \in fileUploads' : e \in EntriesWith(u, i)
        /\ outcome' = [outcome EXCEPT ![u] = "failed"]
        /\ DOMAIN dest' = Files
        /\ Enough(u, i)
    BY <1>1, <1>6 DEF OpenThrows
  <2>2. QED
    BY <1>1, <2>1, FaultStep
<1>7. QED
  BY <1>3, <1>4, <1>5, <1>6 DEF Go

\* Small files that fail have been sent, too.
LEMMA PlainFaults ==
  ASSUME NoRetry, TypeOK, FaultInv,
         NEW U \in SUBSET Uploads, NEW D \in SUBSET U, PlainUpload(U, D)
  PROVE  /\ FaultInv'
         /\ \A u \in Chunked : sent'[u] = sent[u]
         /\ \A u \in U : outcome[u] = "open"
<1>1. /\ outcome' = [u \in Uploads |-> IF u \in D THEN "added"
                                       ELSE IF u \in U THEN "failed" ELSE outcome[u]]
      /\ sent' = [u \in Uploads |-> IF u \in U THEN [i \in {0} |-> sent[u][0] + 1] ELSE sent[u]]
      /\ fileUploads' = fileUploads /\ chunkFiles' = chunkFiles
      /\ DOMAIN dest' = Files
  BY DEF PlainUpload, server
<1>2. ASSUME NEW u \in U
      PROVE  Delivered(u)' /\ outcome[u] = "open"
  <2>1. Chunks(u) = {0} /\ sent[u][0] \in Nat /\ sent[u][0] < 1
    BY ConstantsAssumption DEF PlainUpload, Chunks, TypeOK, MaySend, NoRetry
  <2>2. sent'[u][0] = sent[u][0] + 1
    BY <1>1
  <2>3. ~Delivered(u)
    BY <2>1 DEF Delivered
  <2>4. QED
    BY <2>1, <2>2, <2>3 DEF Delivered, FaultInv, AnswerIsLast
<1>3. \A u \in Uploads : u \notin U => sent'[u] = sent[u]
  BY <1>1
<1>4. \A u \in Chunked : u \in Uploads /\ u \notin U /\ sent'[u] = sent[u]
  BY <1>3 DEF PlainUpload, Chunked
<1>5. AnswerIsLast'
  BY <1>1, <1>2, <1>3 DEF AnswerIsLast, FaultInv, Delivered
<1>6. NotedWasSent' /\ Keyed(fileUploads)'
  <2>1. Keyed(fileUploads) /\ NotedWasSent
    BY DEF FaultInv
  <2>2. Keyed(fileUploads)'
    BY <1>1, <2>1 DEF Keyed
  <2>3. NotedWasSent'
    BY <1>1, <1>4, <2>1 DEF NotedWasSent, Keyed
  <2>4. QED
    BY <2>2, <2>3
<1>7. NoneFailed' => NoneFailed
  BY <1>1, <1>2 DEF NoneFailed
<1>8. NoneFailed' => Match'
  BY <1>1, <1>7 DEF FaultInv, Match, Backed
<1>9. QED
  BY <1>1, <1>2, <1>4, <1>5, <1>6, <1>8 DEF FaultInv

LEMMA NextFaults ==
  ASSUME NamesKeepApart, NoRetry, TypeOK, FaultInv, [Next]_vars
  PROVE  FaultInv'
<1>1. ASSUME NEW u \in Uploads, NEW i \in Chunks(u), NEW n \in Chunks(u),
             DiesAssembling(u, i, n)
      PROVE  FaultInv'
  <2>1. /\ \A e \in fileUploads' : e \in EntriesWith(u, i)
        /\ outcome' = [outcome EXCEPT ![u] = "failed"]
        /\ DOMAIN dest' = Files
        /\ Enough(u, i) /\ Deliver(u, i)
    BY <1>1 DEF DiesAssembling, FaultInv
  <2>2. QED
    BY <2>1, FaultStep
<1>2. CASE Restart
  <2>1. /\ fileUploads' = {} /\ chunkFiles' = {}
        /\ dest' = dest /\ sent' = sent /\ outcome' = outcome
    BY <1>2 DEF Restart
  <2>2. AnswerIsLast'
    BY <2>1 DEF FaultInv, AnswerIsLast, Delivered
  <2>3. QED
    BY <2>1, <2>2 DEF FaultInv, Keyed, NotedWasSent, Match, Backed
<1>3. CASE UNCHANGED vars
  BY <1>3 DEF vars, FaultInv, Keyed, NotedWasSent, Match, Backed, AnswerIsLast, Delivered,
              NoneFailed
<1>4. QED
  BY <1>1, <1>2, <1>3, GoFaults, PlainFaults DEF Next

LEMMA FaultInit ==
  Init => FaultInv
BY DEF Init, FaultInv, Keyed, AnswerIsLast, NotedWasSent, Match, Backed

\* When no chunk is sent again, then whatever fails, and whenever the service restarts
\* or dies: until an upload has failed the chunk directory holds nothing that is not
\* noted, so that all of it will be used and deleted.
THEOREM NoChunkIsOrphaned ==
  ASSUME NamesKeepApart, NoRetry
  PROVE  Spec => []NoOrphanChunk
<1>1. TypeOK /\ FaultInv /\ [Next]_vars => FaultInv'
  BY NextFaults
<1>2. FaultInv => NoOrphanChunk
  BY DEF FaultInv, NoneFailed, Match, NoOrphanChunk
<1>3. Spec => []TypeOK
  BY UploadTypeCorrect
<1>4. QED
  BY FaultInit, <1>1, <1>2, <1>3, PTL DEF Spec

-----------------------------------------------------------------------------
(* That a failure spoils no other upload, if no two large files are under  *)
(* way at a time.                                                           *)

\* Large files come from one window, one batch each.
LargeInTurn ==
  \A u, v \in Chunked : u # v =>
    Window[u] = Window[v] /\ (Batch[u] < Batch[v] \/ Batch[v] < Batch[u])

\* What is noted of a file that is not complete is there.
OpenAreBacked ==
  \A u \in Chunked : ~Delivered(u) => Backed(EntriesOf(u, fileUploads), chunkFiles)

\* When it is the turn of a large file, nothing is noted of another that is incomplete.
LEMMA OthersRest ==
  ASSUME LargeInTurn, FaultInv, NEW u \in Chunked, Turn(u), NEW v \in Chunked, v # u, ~Delivered(v)
  PROVE  EntriesOf(v, fileUploads) = {}
<1>1. v \in Uploads /\ Window[v] = Window[u] /\ (Batch[v] < Batch[u] \/ Batch[v] > Batch[u])
  BY DEF LargeInTurn, Chunked
<1>2. ~Begun(v)
  BY <1>1 DEF Turn, FaultInv, AnswerIsLast
<1>3. QED
  BY <1>2 DEF EntriesOf, Begun, FaultInv, NotedWasSent, Keyed

LEMMA GoBacked ==
  ASSUME NamesKeepApart, LargeInTurn, NoRetry, TypeOK, FaultInv, OpenAreBacked,
         NEW u \in Uploads, NEW i \in Chunks(u), NEW moved \in Moves, Go(u, i, moved)
  PROVE  /\ OpenAreBacked'
         /\ [Promise!Answer({u}, {}) \/ Promise!Answer({}, {u})]_<<dest, outcome>>
<1>1. Deliver(u, i) /\ Turn(u) /\ u \in Chunked /\ Last[u] \in Nat
  BY ConstantsAssumption
     DEF Go, Collect, OpenThrows, Assemble, AssembleThrows, DeleteFails, Deliver, MaySend
<1>2. /\ Arrival(u, i) /\ AlwaysMoves /\ ~Delivered(u)
      /\ \A v \in Uploads : Delivered(v) => Delivered(v)'
      /\ Enough(u, i) => Delivered(u)'
  BY <1>1, FirstArrival
<1>3. Kept(u)
  BY <1>1, <1>2 DEF Kept, OpenAreBacked
<1>4. Home(u) \in Files /\ DestFile(u, i) = Home(u)
  BY <1>1, KeepsName, ConstantsAssumption DEF Home, Files, Targets
<1>5. DOMAIN dest = Files /\ DOMAIN outcome = Uploads
  BY DEF TypeOK
<1>6. ASSUME Enough(u, i), fileUploads' \subseteq EntriesWith(u, i)
      PROVE  OpenAreBacked'
  <2>1. ASSUME NEW v \in Chunked, ~Delivered(v)'
        PROVE  EntriesOf(v, fileUploads') = {}
    <3>1. v # u /\ ~Delivered(v)
      BY <1>2, <1>6, <2>1 DEF Chunked
    <3>2. EntriesOf(v, fileUploads) = {}
      BY <1>1, <2>1, <3>1, OthersRest
    <3>3. EntriesOf(v, EntriesWith(u, i)) = {}
      BY <1>2, <3>1, <3>2, NotedGain
    <3>4. QED
      BY <1>6, <3>3 DEF EntriesOf
  <2>2. QED
    BY <2>1 DEF OpenAreBacked, Backed, EntriesOf
<1>7. ASSUME outcome' = [outcome EXCEPT ![u] = "failed"],
             dest' = dest \/ \E s : dest' = [dest EXCEPT ![DestFile(u, i)] = s]
      PROVE  Promise!Answer({}, {u})
  <2>1. \A f \in Files : dest'[f] # dest[f] => f = Home(u)
    BY <1>4, <1>5, <1>7
  <2>2. QED
    BY <1>5, <1>7, <2>1 DEF Promise!Answer
<1>8. CASE Collect(u, i, moved)
  <2>1. /\ fileUploads' = EntriesWith(u, i) /\ chunkFiles' = FilesWith(u, i, moved)
        /\ dest' = dest /\ outcome' = outcome
    BY <1>8 DEF Collect
  <2>2. \A v \in Chunked : ~Delivered(v)' => Backed(EntriesOf(v, fileUploads'), chunkFiles')
    BY <1>2, <2>1, EntriesBacked DEF OpenAreBacked, Chunked
  <2>3. OpenAreBacked'
    BY <2>2 DEF OpenAreBacked, Backed, EntriesOf
  <2>4. QED
    BY <2>1, <2>3
<1>9. ASSUME NEW n \in 0..(Last[u] + 1), Assemble(u, i, n, moved)
      PROVE  OpenAreBacked' /\ Promise!Answer({u}, {})
  <2>1. /\ Enough(u, i) /\ StopsAt(u, i, n, moved)
        /\ fileUploads' \subseteq EntriesWith(u, i)
        /\ dest' = [dest EXCEPT ![DestFile(u, i)] = Content(u, i, n)]
        /\ outcome' = [outcome EXCEPT ![u] = "added"]
    BY <1>9 DEF Assemble
  <2>2. Content(u, i, n) = Whole(u)
    BY <1>2, <1>3, <2>1, AssembleIsWhole
  <2>3. Promise!Answer({u}, {})
    BY <1>4, <1>5, <2>1, <2>2 DEF Promise!Answer
  <2>4. QED
    BY <1>6, <2>1, <2>3
<1>10. ASSUME NEW n \in 0..(Last[u] + 1),
              AssembleThrows(u, i, n, moved) \/ DeleteFails(u, i, n, moved)
       PROVE  OpenAreBacked' /\ Promise!Answer({}, {u})
  <2>1. /\ Enough(u, i) /\ fileUploads' \subseteq EntriesWith(u, i)
        /\ \E s : dest' = [dest EXCEPT ![DestFile(u, i)] = s]
        /\ outcome' = [outcome EXCEPT ![u] = "failed"]
    BY <1>10 DEF AssembleThrows, DeleteFails
  <2>2. QED
    BY <1>6, <1>7, <2>1
<1>11. CASE OpenThrows(u, i, moved)
  <2>1. /\ Enough(u, i) /\ fileUploads' \subseteq EntriesWith(u, i)
        /\ dest' = dest /\ outcome' = [outcome EXCEPT ![u] = "failed"]
    BY <1>11 DEF OpenThrows
  <2>2. QED
    BY <1>6, <1>7, <2>1
<1>12. QED
  BY <1>8, <1>9, <1>10, <1>11 DEF Go

\* One answer for a batch of small files, some of which may fail.
LEMMA PlainAnswers ==
  ASSUME NEW U \in SUBSET Uploads, NEW D \in SUBSET U, PlainUpload(U, D)
  PROVE  Promise!Answer(D, U \ D)
<1>1. PICK cut \in SUBSET (U \ D) :
        dest' = [f \in Files |->
          IF \E u \in D : f = Home(u) THEN Whole(CHOOSE u \in D : f = Home(u))
          ELSE IF \E u \in cut : f = Home(u) THEN <<>> ELSE dest[f]]
  BY DEF PlainUpload
<1>2. outcome' = [u \in Uploads |-> IF u \in D THEN "added"
                                    ELSE IF u \in U \ D THEN "failed" ELSE outcome[u]]
  BY DEF PlainUpload
<1>3. ASSUME NEW u \in D
      PROVE  dest'[Home(u)] = Whole(u)
  <2>1. Home(u) \in Files
    BY ConstantsAssumption DEF Home, Files, Targets
  <2>2. \A v \in D : Home(u) = Home(v) => u = v
    BY DEF PlainUpload, Home
  <2>3. (CHOOSE v \in D : Home(u) = Home(v)) = u
    BY <2>2
  <2>4. QED
    BY <1>1, <2>1, <2>3
<1>4. ASSUME NEW f \in Files, dest'[f] # dest[f]
      PROVE  (\E u \in D : f = Home(u)) \/ \E u \in U \ D : f[1] = Home(u)[1]
  BY <1>1, <1>4
<1>5. DOMAIN dest' = Files
  BY <1>1
<1>6. QED
  BY <1>2, <1>3, <1>4, <1>5 DEF Promise!Answer

LEMMA NextBacked ==
  ASSUME NamesKeepApart, LargeInTurn, NoRetry, TypeOK, FaultInv, OpenAreBacked, [Next]_vars
  PROVE  OpenAreBacked' /\ [Promise!Next]_<<dest, outcome>>
<1>1. ASSUME NEW A \in SUBSET Uploads, NEW F \in SUBSET (Uploads \ A), Promise!Answer(A, F)
      PROVE  Promise!Next
  BY <1>1 DEF Promise!Next
<1>2. ASSUME NEW u \in Uploads, NEW i \in Chunks(u), NEW moved \in Moves, Go(u, i, moved)
      PROVE  OpenAreBacked' /\ [Promise!Next]_<<dest, outcome>>
  BY <1>1, <1>2, GoBacked
<1>3. ASSUME fileUploads' = {}
      PROVE  OpenAreBacked'
  BY <1>3 DEF OpenAreBacked, Backed, EntriesOf
<1>4. ASSUME NEW u \in Uploads, NEW i \in Chunks(u), NEW n \in Chunks(u),
             DiesAssembling(u, i, n)
      PROVE  OpenAreBacked' /\ [Promise!Next]_<<dest, outcome>>
  <2>1. /\ fileUploads' = {}
        /\ dest' = [dest EXCEPT ![DestFile(u, i)] = Content(u, i, n)]
        /\ outcome' = [outcome EXCEPT ![u] = "failed"]
    BY <1>4 DEF DiesAssembling
  <2>2. DestFile(u, i)[1] = Home(u)[1]
    BY DEF DestFile, Home
  <2>3. Promise!Answer({}, {u})
    BY <2>1, <2>2 DEF Promise!Answer, TypeOK
  <2>4. QED
    BY <1>1, <1>3, <2>1, <2>3
<1>5. ASSUME NEW U \in SUBSET Uploads, NEW D \in SUBSET U, PlainUpload(U, D)
      PROVE  OpenAreBacked' /\ [Promise!Next]_<<dest, outcome>>
  <2>1. \A u \in Chunked : sent'[u] = sent[u]
    BY <1>5, PlainFaults
  <2>2. fileUploads' = fileUploads /\ chunkFiles' = chunkFiles
    BY <1>5 DEF PlainUpload, server
  <2>3. OpenAreBacked'
    BY <2>1, <2>2 DEF OpenAreBacked, Delivered, Backed, EntriesOf
  <2>4. Promise!Next
    BY <1>1, <1>5, PlainAnswers
  <2>5. QED
    BY <2>3, <2>4
<1>6. CASE Restart
  BY <1>3, <1>6 DEF Restart
<1>7. CASE UNCHANGED vars
  BY <1>7 DEF vars, OpenAreBacked, Backed, EntriesOf, Delivered
<1>8. QED
  BY <1>2, <1>4, <1>5, <1>6, <1>7 DEF Next

\* The upload command also keeps its promise on a disk that fails, however a copy, a
\* deletion or an open goes wrong and whenever the service restarts or dies, if no chunk
\* is sent again and large files come one after the other: what fails spoils no upload
\* but its own, though it deletes the chunk files of all.
THEOREM FaultsKeepPromise ==
  ASSUME NamesKeepApart, LargeInTurn, NoRetry
  PROVE  Spec => KeepsPromise
<1>1. Init => FaultInv /\ OpenAreBacked /\ Promise!Init
  BY FaultInit DEF Init, OpenAreBacked, Backed, EntriesOf, Promise!Init
<1>2. TypeOK /\ FaultInv /\ [Next]_vars => FaultInv'
  BY NextFaults
<1>3. TypeOK /\ FaultInv /\ OpenAreBacked /\ [Next]_vars
        => OpenAreBacked' /\ [Promise!Next]_<<dest, outcome>>
  BY NextBacked
<1>4. Spec => []TypeOK
  BY UploadTypeCorrect
<1>5. QED
  BY <1>1, <1>2, <1>3, <1>4, PTL DEF Spec, KeepsPromise, Promise!Spec
=============================================================================
