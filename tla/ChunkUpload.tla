----------------------------- MODULE ChunkUpload -----------------------------
(***************************************************************************)
(* The upload command of webserver/connector/CmdUpload.java.  elFinder     *)
(* cuts a large file into chunks and sends each in a request of its own,   *)
(* over several connections; go() moves the chunk to a directory of its    *)
(* own, notes it in m_fileUploads under a name made from the chunk's, and  *)
(* puts the file together when it has counted enough of them.  go() and    *)
(* init() are synchronized on the class, so each request is one step; what *)
(* interleaves are the requests, from one browser window or from several.  *)
(***************************************************************************)
EXTENDS Integers, FiniteSets, Sequences

CONSTANTS
  Uploads,      \* files sent by some browser window
  Names, Dirs,  \* file names and target directories
  Name, Dir,    \* name and target directory of each upload
  Last,         \* number of its last chunk; 0: sent whole, not in chunks
  EmptyTail,    \* its size is a multiple of the chunk size: the last is empty
  Dots, Stem,   \* of each name: how many dots, and the part up to the second
  Window, Batch,\* browser window it is sent from, and the user's how manieth
  MaxSends,     \* bound: how often a chunk is sent, when "retry" is enabled
  Env           \* disturbances enabled, a subset of Disturbances

Disturbances == {"retry", "restart", "rename", "iofail"}

Chunks(u) == 0..Last[u]

ASSUME ConstantsAssumption ==
  /\ IsFiniteSet(Uploads)
  /\ Name \in [Uploads -> Names] /\ Dir \in [Uploads -> Dirs]
  /\ Last \in [Uploads -> Nat] /\ EmptyTail \in [Uploads -> BOOLEAN]
  /\ Dots \in [Names -> Nat]
  /\ MaxSends \in Nat \ {0}
  /\ Env \subseteq Disturbances

\* What elFinder calls a chunk, "name.NUMBER_TOTAL.part".
ChunkName(n, i, last) == <<n, i, last>>

\* The first two of the chunk name's dot-separated parts: the file's own name
\* only if it has exactly one dot.
TargetFilename(u, i) ==
  IF Dots[Name[u]] = 0 THEN ChunkName(Name[u], i, Last[u])
  ELSE IF Dots[Name[u]] = 1 THEN Name[u] ELSE Stem[Name[u]]

Targets ==
  Names \cup UNION {{TargetFilename(u, i) : i \in Chunks(u)} : u \in Uploads}
Files == Dirs \X Targets

VARIABLES
  fileUploads,  \* m_fileUploads, flattened: entries [target, chunk, file]
  chunkFiles,   \* files in the chunk directory
  dest,         \* content of the target files: a sequence of <<upload, chunk>>
  sent,         \* how often elFinder has sent each chunk
  outcome       \* "added" or "failed" if a request of the upload was told so

server == <<fileUploads, chunkFiles>>
vars == <<fileUploads, chunkFiles, dest, sent, outcome>>

\* NanoHTTPD saves each request's data under a fresh name.
ChunkFile == [upload : Uploads, index : Nat, copy : Nat]

\* An empty chunk gets no file: its path is that of the chunk directory itself.
IsDirectory(f) == EmptyTail[f.upload] /\ f.index = Last[f.upload]

TypeOK ==
  /\ \A e \in fileUploads :
       /\ e.target \in Targets /\ e.file \in ChunkFile
       /\ e.chunk = ChunkName(Name[e.file.upload], e.file.index, Last[e.file.upload])
  /\ chunkFiles \subseteq ChunkFile
  /\ DOMAIN dest = Files
  /\ \A f \in Files : dest[f] \in Seq(Uploads \X Nat)
  /\ DOMAIN sent = Uploads
  /\ \A u \in Uploads : sent[u] \in [Chunks(u) -> 0..MaxSends]
  /\ outcome \in [Uploads -> {"open", "added", "failed"}]

Init ==
  /\ fileUploads = {} /\ chunkFiles = {}
  /\ dest = [f \in Files |-> <<>>]
  /\ sent = [u \in Uploads |-> [i \in Chunks(u) |-> 0]]
  /\ outcome = [u \in Uploads |-> "open"]

Chunked == {u \in Uploads : Last[u] > 0}

\* The place a small file gets, and a large one should get.
Home(u) == <<Dir[u], Name[u]>>
Whole(u) == [k \in 1..(Last[u] + 1) |-> <<u, k - 1>>]

-----------------------------------------------------------------------------
(* The browser.                                                            *)

Begun(u) == \E i \in Chunks(u) : sent[u][i] > 0
Delivered(u) == \A i \in Chunks(u) : sent[u][i] > 0

\* A window starts a batch when the one before is over (uploads.xhrUploading);
\* the files and chunks of a batch are sent side by side.
Turn(u) ==
  \A v \in Uploads : Window[v] = Window[u] =>
    /\ Batch[v] < Batch[u] => Delivered(v) \/ outcome[v] = "failed"
    /\ Batch[v] > Batch[u] => ~Begun(v)

\* A request whose answer does not come is sent again.
MaySend(u, i) ==
  /\ Turn(u)
  /\ sent[u][i] < IF "retry" \in Env THEN MaxSends ELSE 1

-----------------------------------------------------------------------------
(* go() on one chunk: receive it, then return or assemble.                 *)

\* "moved" is whether renameTo moved the data; its result is not looked at.
Moves == IF "rename" \in Env THEN BOOLEAN ELSE {TRUE}

Received(u, i) == [upload |-> u, index |-> i, copy |-> sent[u][i]]

\* Fault: a chunk that comes again is not moved, though it is noted.
FilesWith_OnlyFirst(u, i, moved) ==
  IF moved /\ ~IsDirectory(Received(u, i)) /\ sent[u][i] = 0
  THEN chunkFiles \cup {Received(u, i)} ELSE chunkFiles

FilesWith(u, i, moved) ==
  IF moved /\ ~IsDirectory(Received(u, i)) THEN chunkFiles \cup {Received(u, i)}
  ELSE chunkFiles

\* Fault: chunks noted under numbers that start at 1.
EntriesWith_FromOne(u, i) ==
  {e \in fileUploads : e.target # TargetFilename(u, i)
                       \/ e.chunk # ChunkName(Name[u], i + 1, Last[u])}
    \cup {[target |-> TargetFilename(u, i), chunk |-> ChunkName(Name[u], i + 1, Last[u]),
           file |-> Received(u, i)]}

EntriesWith(u, i) ==
  LET chunk == ChunkName(Name[u], i, Last[u])
      target == TargetFilename(u, i)
  IN  {e \in fileUploads : e.target # target \/ e.chunk # chunk}
        \cup {[target |-> target, chunk |-> chunk, file |-> Received(u, i)]}

FileChunks(u, i) == {e \in EntriesWith(u, i) : e.target = TargetFilename(u, i)}

\* Fault: "total" taken for the number of chunks before the last but one.
Enough_OneMore(u, i) == Cardinality(FileChunks(u, i)) > Last[u] + 1

\* The test of line 348: enough chunks, whichever they are.
Enough(u, i) == Cardinality(FileChunks(u, i)) > Last[u]

\* The entry assembly looks for as chunk number j.
Entry(u, i, j) ==
  {e \in FileChunks(u, i) : e.chunk = ChunkName(TargetFilename(u, i), j, Last[u])}

FileOf(u, i, j) == (CHOOSE e \in Entry(u, i, j) : TRUE).file

Readable(u, i, j, moved) ==
  Entry(u, i, j) # {} /\ FileOf(u, i, j) \in FilesWith(u, i, moved)

\* The loop copies chunks 0..n-1 and stops at chunk n, or after the last.
StopsAt(u, i, n, moved) ==
  /\ \A j \in 0..(n - 1) : Readable(u, i, j, moved)
  /\ n <= Last[u] => ~Readable(u, i, n, moved)

Content(u, i, n) ==
  [k \in 1..n |-> <<FileOf(u, i, k - 1).upload, FileOf(u, i, k - 1).index>>]

\* Fault: the first chunk's file is kept.
Copied_ButFirst(u, i, n) == {FileOf(u, i, j) : j \in 1..(n - 1)}

Copied(u, i, n) == {FileOf(u, i, j) : j \in 0..(n - 1)}

DestFile(u, i) == <<Dir[u], TargetFilename(u, i)>>

Deliver(u, i) ==
  /\ u \in Chunked /\ MaySend(u, i)
  /\ sent' = [sent EXCEPT ![u][i] = @ + 1]

\* Not complete: an empty "added".
Collect(u, i, moved) ==
  /\ Deliver(u, i)
  /\ ~Enough(u, i)
  /\ fileUploads' = EntriesWith(u, i)
  /\ chunkFiles' = FilesWith(u, i, moved)
  /\ UNCHANGED <<dest, outcome>>

\* Fault: the metadata of an assembled file stays.
Assemble_KeepsEntries(u, i, n, moved) ==
  /\ Deliver(u, i)
  /\ Enough(u, i)
  /\ StopsAt(u, i, n, moved)
  /\ n <= Last[u] => Entry(u, i, n) # {} /\ ~IsDirectory(FileOf(u, i, n))
  /\ dest' = [dest EXCEPT ![DestFile(u, i)] = Content(u, i, n)]
  /\ fileUploads' = EntriesWith(u, i)
  /\ chunkFiles' = FilesWith(u, i, moved) \ Copied(u, i, n)
  /\ outcome' = [outcome EXCEPT ![u] = "added"]

\* The loop ends, or breaks at a chunk whose file is missing: "added" anyway.
Assemble(u, i, n, moved) ==
  /\ Deliver(u, i)
  /\ Enough(u, i)
  /\ StopsAt(u, i, n, moved)
  /\ n <= Last[u] => Entry(u, i, n) # {} /\ ~IsDirectory(FileOf(u, i, n))
  /\ dest' = [dest EXCEPT ![DestFile(u, i)] = Content(u, i, n)]
  /\ fileUploads' = EntriesWith(u, i) \ FileChunks(u, i)
  /\ chunkFiles' = FilesWith(u, i, moved) \ Copied(u, i, n)
  /\ outcome' = [outcome EXCEPT ![u] = "added"]

\* No entry for chunk n (JSONException), the directory in place of its file or
\* a failing copy (IOException): every chunk file of every upload is deleted,
\* m_fileUploads stays.
AssembleThrows(u, i, n, moved) ==
  /\ Deliver(u, i)
  /\ Enough(u, i)
  /\ \/ /\ StopsAt(u, i, n, moved) /\ n <= Last[u]
        /\ Entry(u, i, n) # {} => IsDirectory(FileOf(u, i, n))
     \/ "iofail" \in Env /\ \A j \in 0..(n - 1) : Readable(u, i, j, moved)
  /\ dest' = [dest EXCEPT ![DestFile(u, i)] = Content(u, i, n)]
  /\ fileUploads' = EntriesWith(u, i)
  /\ chunkFiles' = {}
  /\ outcome' = [outcome EXCEPT ![u] = "failed"]

\* The target is no directory, or cannot be written: what go() noted at first
\* is forgotten, and opening the destination throws.
OpenThrows(u, i, moved) ==
  /\ "iofail" \in Env
  /\ Deliver(u, i)
  /\ Enough(u, i)
  /\ fileUploads' = EntriesWith(u, i)
  /\ chunkFiles' = {}
  /\ outcome' = [outcome EXCEPT ![u] = "failed"]
  /\ UNCHANGED dest

\* Fault: the error is logged and not answered.
DeleteFails_Unreported(u, i, n, moved) ==
  /\ "iofail" \in Env
  /\ Deliver(u, i)
  /\ Enough(u, i)
  /\ n <= Last[u] /\ \A j \in 0..n : Readable(u, i, j, moved)
  /\ dest' = [dest EXCEPT ![DestFile(u, i)] = Content(u, i, n + 1)]
  /\ fileUploads' = EntriesWith(u, i) \ FileChunks(u, i)
  /\ chunkFiles' = FilesWith(u, i, moved) \ Copied(u, i, n)
  /\ outcome' = [outcome EXCEPT ![u] = "added"]

\* Chunk n is copied and cannot be deleted: an error, metadata removed.
DeleteFails(u, i, n, moved) ==
  /\ "iofail" \in Env
  /\ Deliver(u, i)
  /\ Enough(u, i)
  /\ n <= Last[u] /\ \A j \in 0..n : Readable(u, i, j, moved)
  /\ dest' = [dest EXCEPT ![DestFile(u, i)] = Content(u, i, n + 1)]
  /\ fileUploads' = EntriesWith(u, i) \ FileChunks(u, i)
  /\ chunkFiles' = FilesWith(u, i, moved) \ Copied(u, i, n)
  /\ outcome' = [outcome EXCEPT ![u] = "failed"]

-----------------------------------------------------------------------------
(* go() on small files, and the life of the server.                        *)

\* One request carries the small files of a batch, all to one directory; the
\* loop stops at the first that cannot be copied and reports those before it.
PlainUpload(U, D) ==
  /\ U # {} /\ D \subseteq U
  /\ \A u \in U : Last[u] = 0 /\ MaySend(u, 0)
  /\ \A u, v \in U : /\ Window[u] = Window[v] /\ Batch[u] = Batch[v] /\ Dir[u] = Dir[v]
                     /\ Name[u] = Name[v] => u = v
  /\ D # U => "iofail" \in Env
  /\ sent' = [u \in Uploads |-> IF u \in U THEN [i \in {0} |-> sent[u][0] + 1] ELSE sent[u]]
  /\ outcome' = [u \in Uploads |-> IF u \in D THEN "added"
                                   ELSE IF u \in U THEN "failed" ELSE outcome[u]]
  /\ \E cut \in SUBSET (U \ D) :
       /\ Cardinality(cut) <= 1
       /\ dest' = [f \in Files |->
            IF \E u \in D : f = Home(u) THEN Whole(CHOOSE u \in D : f = Home(u))
            ELSE IF \E u \in cut : f = Home(u) THEN <<>> ELSE dest[f]]
  /\ UNCHANGED server

\* init(), when the service starts again: nothing survives but the targets.
Restart ==
  /\ "restart" \in Env
  /\ fileUploads' = {} /\ chunkFiles' = {}
  /\ UNCHANGED <<dest, sent, outcome>>

\* The process dies while it assembles: the browser sees the request fail.
DiesAssembling(u, i, n) ==
  /\ "restart" \in Env
  /\ Deliver(u, i)
  /\ Enough(u, i)
  /\ n <= Last[u] /\ \A j \in 0..(n - 1) : Readable(u, i, j, TRUE)
  /\ dest' = [dest EXCEPT ![DestFile(u, i)] = Content(u, i, n)]
  /\ fileUploads' = {} /\ chunkFiles' = {}
  /\ outcome' = [outcome EXCEPT ![u] = "failed"]

Go(u, i, moved) ==
  \/ Collect(u, i, moved)
  \/ OpenThrows(u, i, moved)
  \/ \E n \in 0..(Last[u] + 1) :
       \/ Assemble(u, i, n, moved)
       \/ AssembleThrows(u, i, n, moved)
       \/ DeleteFails(u, i, n, moved)

Next ==
  \/ \E u \in Uploads : \E i \in Chunks(u), moved \in Moves : Go(u, i, moved)
  \/ \E u \in Uploads : \E i, n \in Chunks(u) : DiesAssembling(u, i, n)
  \/ \E U \in SUBSET Uploads : \E D \in SUBSET U : PlainUpload(U, D)
  \/ Restart

Spec == Init /\ [][Next]_vars

-----------------------------------------------------------------------------
(* Properties.                                                             *)

Promise == INSTANCE UploadPromise
    WITH Uploads <- Uploads, Files <- Files, Home <- Home, Whole <- Whole,
         dest <- dest, outcome <- outcome

\* CmdUpload answers "added" only for a file that holds every chunk of that
\* upload, in order, and nothing of another; what fails spoils nothing else.
KeepsPromise == Promise!Spec

\* The part of it a user sees: the file reported as added is there, whole.
AddedIsWhole ==
  [][\A u \in Uploads : outcome[u] # "added" /\ outcome'[u] = "added"
       => dest'[Home(u)] = Whole(u)]_vars

\* Every chunk m_fileUploads counts has its data in the chunk directory, so
\* that a count that is high enough means the data is there to assemble.
NoDanglingChunk ==
  \A e \in fileUploads : IsDirectory(e.file) \/ e.file \in chunkFiles

\* And the chunk directory holds nothing else, as long as no upload failed.
NoOrphanChunk ==
  (\A u \in Uploads : outcome[u] # "failed") =>
    chunkFiles \subseteq {e.file : e \in fileUploads}

\* "Count chunks matching the base filename to know when all chunks are
\* uploaded for a specific file": when they have been, it has been added.
DeliveredIsAdded == \A u \in Uploads : Delivered(u) => outcome[u] = "added"

\* When every chunk has been delivered once, no chunk or metadata is left for a
\* later upload of the same name to trip over.
NothingLeft ==
  (\A u \in Uploads : \A i \in Chunks(u) : sent[u][i] = 1)
    => fileUploads = {} /\ chunkFiles = {}
=============================================================================
