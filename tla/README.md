# DeepDive for Android: specifications

DeepDive is an Android application that runs a small web server on the device.
A browser on another machine, or the application's own WebView, opens its pages
to manage files (elFinder), to decompile installed applications, and to index
and search directories with Lucene.  These are the TLA+ modules kept beside
that code.  Paths below are relative to
`src/deepdive/src/main/java/com/nuvolect/deepdive/` (`DD/`).

## 1. The system

NanoHTTPD gives every HTTP connection a thread of its own; the handlers keep
their state in **static fields**, start background threads that share those
fields, and use the disk as the only record that survives the process.  That
combination is where the program can go wrong: almost no handler is
synchronized, most decisions are "check, then act", and most clients poll.

The page in the browser is a second program: elFinder sends requests over
several connections, aborts some, and keeps a cache of what it has been told.
It is vendored, but it is the only client of the connector, and what
the two do together is what the user sees; the parts of it that keep state between
requests are modelled.  Its file, `assets/elFinder-2.1.42/js/elfinder.full.js`,
is called `EF` below.

| component | state it keeps | operations | talks to |
|---|---|---|---|
| Indexing, `lucene/Index.java`, `IndexUtil` | static `m_index_state`, `m_indexThread`, `m_interrupt`, `m_totalDocs`, `m_indexedDocs`, `m_error`; cache directories with a Lucene index each | `index`, `interrupt`, `newIndex`, `deleteIndex`, the index thread | `SearchRest`, `search.htm` (polls), Lucene, disk |
| Searching, `lucene/Search.java`, `SearchRest` | static `m_directory`, `m_analyzer` | `preSearch`, `search` | `Index.index(force)` |
| Search sets, `lucene/SearchSet.java` | current set (preferences), one JSON file per set | `getSetss`, `putSet`, `deleteSet`, `setCurrentSet`, `getSet` | `Persist`, disk |
| Chunked upload, `webserver/connector/CmdUpload.java`, `EF` `fm.upload` | static `m_fileUploads`; chunk files; the browser's queue | `init`, `go` | elFinder, disk |
| Archive download, `CmdZipdl` | static `download_ready`, `zipOmniFile`, `zipdlFilename` | `go` (two-phase) | elFinder, `CrypServer` |
| File commands, `connector/Cmd*.java`, `util/Omni*` | the volumes | `paste`, `duplicate`, `rm`, `rename`, `mkdir`, `mkfile`, `put`, `archive`, `extract`, reads | elFinder, disk |
| File manager's requests, `EF` `this.request` | `requestCnt`, `requestQueue`, `requestQueueSkipOpen`, `queue`, `cwdQueue`, abort handlers | send, queue, skip, abort, cancel, answer, `sync` after a failed open, leave | connector |
| File manager's history, `EF` `elFinder.history` | `history`, `current`, `update` | `back`, `forward`, the `open` event | requests |
| File manager's folder and cache, `EF` `files`, `cwd` view | cache, list shown, frames of `fm.lazy`, what the garbage collection waits for | `open`, `sync`, `mkdir`, `rm`, their answers and events | connector, disk, other clients |
| Decompiler, `probe/DecompileApk.java`, `Probe`, `ProbeMgr`, `ProbeRest` | one thread reference and start time per tool, artifacts on disk | `unpack_apk`, `optimize_dex`, `dex2jar`, `cfr`, `jadx`, `fern_flower`, `stopThread`, `getStatus` | `ProgressStream`, `decompile.htm` (polls), disk |
| Progress log, `probe/ProgressStream.java` | a list of lines, an optional file | `init`, `putStream`, `getStream`, `close` | decompiler threads, status polls |
| Sessions, `webserver/CrypServer.java`, `admin/Cmd*` | static `sessionMap`, `m_session`, `mAuthenticated` | `serve`, `setValidUser`, `clearCredentials`, login and logout commands | every request |
| Server life cycle, `webserver/WebService.java`, `Comm`, `ServerInit` | server object, looper thread | `onCreate`, `onStartCommand`, `onDestroy`, self test | `CrypServer`, `SSLUtil` |
| Preferences and keys, `util/Persist`, `util/KeystoreUtil`, `SelfSignedCertificate`, `CryptoVolume` | shared preferences, keystore entry, certificate file, encrypted volume | `createKey`, `encrypt`, `makeKeystore`, `mountStorage` | life cycle |
| License, `license/*` | license file and preferences | start-up decision | main activity |

What makes each of those that are modelled correct, in a line:

* **Indexing**: one thread writes an index at a time, nothing leaks its lock,
  the counts mean what the class comment says, polling ends.
* **Searching**: the hits are of the path asked for, unless another search is under
  way; an index that is answered `complete` is whole, whoever asked for it.
* **Upload**: a file reported as uploaded holds every chunk of that upload in
  order, and nothing of another.
* **Archive download**: the archive a client fetches is the archive of its own
  selection, under its own name.
* **File commands**: an answer reports what was done; nothing is lost or
  overwritten that the command is not about.
* **File manager**: the folder shown is the answer to the open asked for last; every
  connection is given back once and no request waits for ever; back and forward lead where
  the user was; the list is what the cache holds and the volume has; the cache
  forgets what was left.
* **Decompiler and progress log**: the page sees every line and the end of every
  tool; a tool's log file has each of its runs whole.

## 2. Which module models what

| module | models | role |
|---|---|---|
| `LuceneIndex` | `lucene/Index.java`, `IndexUtil`, the polling of `search.htm` | component |
| `Searching` | `lucene/Search.java` | EXTENDS `LuceneIndex`: searches that call `index()` and share its disk |
| `ChunkUpload` | `CmdUpload.java`, the chunk sending of elFinder's `upload` | component; implements `UploadPromise` |
| `UploadPromise` | the promise of `CmdUpload`'s class comment | abstract specification |
| `Decompile` | `DecompileApk.java`, `ProgressStream.java`, `ProbeUtil` (create and delete), the polling of `decompile.htm` | component |
| `FileCommands` | `CmdMkdir`, `CmdMkfile`, `CmdPut`, `CmdRename`, `CmdRm`, `CmdPaste`, `CmdDuplicate`, `CmdArchive`, `CmdExtract`, `CmdZipdl`, `OmniFiles`, `OmniZip`, `OmniUtil.makeUniqueName` | component |
| `FinderRequests` | `EF`, `this.request` | component; implements `LastOpenWins` |
| `LastOpenWins` | what the user of the file manager relies on | abstract specification, with liveness |
| `FinderHistory` | `EF`, `elFinder.history` | EXTENDS `FinderRequests`: the buttons on top of its opens |
| `FinderFolder` | `EF`, the cache, the list and their events; `CmdOpen`, `CmdMkdir`, `CmdRm` as the server's side of them | component |
| `...Proofs` | | the theorems about the module of that name |
| `MC...` | | instances for TLC: small sets and the trees, names and chunk counts in use |

Operators named `<Action>_<Fault>`, and those whose comment says "Mutant", are plausible
mistakes in the code; they are there to show that each property would notice one.

### LuceneIndex and Searching

Each action of `LuceneIndex` is one `synchronized(m_lock)` block of `Index.index()` or of
the index thread's `run()`, or one unsynchronized access to a static field or to
the disk.  `pc[c]` and `req[c]` are a request's place and locals, `wpc[w]` and
`wk[w]` an index thread's; `indexState`, `indexThread`, `fileTreeActive`,
`interrupted`, `totalDocs`, `indexedDocs` and `error` are the static fields.
`disk[p]` is the last Lucene commit of a path and `lock[p]` its `write.lock`,
which only an index thread takes and only `close()` or the end of the process
releases.  `Ask` and `Poll` are the page.  What may come at any time is an
interrupt request, `newIndex`, `deleteIndex`, the end of the process, an
exception while the tree is walked.

`Searching` adds a search in a request thread: `Search` makes the cache directory
(`preSearch`), `AssignDirectory` assigns and opens the static `directory`,
`CallIndex` enters `index()` of `LuceneIndex` in the same thread, `OpenSearcher` reads
from whatever the field holds by then, `Collect` answers and closes it.  `search.htm` sends a search, or a request for an
index, whenever its user enters one (lines 220-254, 313-321 and 338-404), without looking whether
another is under way.  So a member of `Clients` is one *chain* of requests here, in which each follows
the answer to the one before: a polling loop, or a search.  What a page asks for meanwhile is in another
chain, and so is what another page asks for; chains overlap at every step.

Two history variables say what a property cannot be asked for.  `beside[c]` has the paths of
searches that were under way together with that of `c`.  `doubt` has the paths whose directory may by
now be left with half an index (interrupted, stopped, changed by `newIndex` or `deleteIndex`, or passed
over because another path was being indexed), which is all paths once two chains are under way together.

### ChunkUpload

`CmdUpload.go` and `init` are synchronized on the class, so a request is one
step, and what interleaves are chunks: of one file, of several files, of several
windows, in any order, twice when a request is retried.  `fileUploads` is
`m_fileUploads`; the chunk directory is `chunkFiles`.  The action a request takes
is `Collect` (not all chunks are there), `Assemble` or one of the ways to fail;
`PlainUpload` is the loop over small files.  A file's content is the sequence of
chunks that were appended.  elFinder names chunks, and `TargetFilename` is what
the server makes of such a name, so that names with no dot or two are files of
their own.  `UploadPromise` knows only of uploads that are added, whole, or fail.

### Decompile

Every tool is a thread that opens a stream (some do), says it begins, works,
says how it ended, sets its start time to 0 and closes the stream.  What is a step of its own
is what another thread or request may come between:

* of a tool's thread: the opening of its stream, each line it puts, and in `ProgressStream.close` the
  closing of the writer and the setting of it to null;
* of a poll: the files, the counter set to 0, the threads one by one, each `++m_active_threads` in two
  steps (read, write), the counter read, the lines taken, the answer;
* of the requests that start `unpack_apk` and `dex2jar`: the `++m_active_threads` that their own call of
  `getThreadStatus` makes (`CountStarted`, `RaiseStarted`), in two steps too, on the counter of the polls.

The rest of a start request (the check for a thread, the new one, its start time) is one step, `Start`,
as are `stop_thread`, `clear_log`, `create_package` and `delete_package`.  `poll` holds what a request has found
so far, `page` and `shown` what the page shows.  Lines are numbers and authors.

`log` has a file for each tool that opens a stream: `ProgressStream` opens it with `append`, so that
the next run's lines come after the last one's.  `printed` is what a stream's writer was given; it
comes to the file when the writer is closed (`Flush`).  `delete_package` removes the files
with the folder, and a writer that was open then writes to a file nobody finds: `linked` names the streams
whose file is the one in the folder.  When the service restarts, which of the requests on their way are
still answered, and whether a new one is, is not determined; `decompile.htm` does not repeat a request that
fails (lines 357-389), and `cutOff` is set when none is left.

### FileCommands

`tree` maps each path to a body: a folder, a text, an archive or `Part`, a file
that was not written to its end.  `mkdir`, `mkfile`, `put`, `rename` and `rm`
are one step.  `paste` and `duplicate` go from target to target: `Choose` a
name, copy (`CopyWorks`, `CopyFails`, `CopyThrows`), `Cut`, so that the service
may stop in between and a copy may be left in part.  `rename` replaces what has the new name, as
`OmniFile.renameFile` (401-405) does without a look: a page that is not up to date may ask for that.
`archive` and `zipdl` open the archive and fill it; the name of an archive may be taken too (`CmdArchive`
55-63), by a file, which is replaced, or by a folder, and then nothing is packed.
A download has a name of its own; `extract` goes from entry to entry.  `download_ready`
and `zipOmniFile` are the static fields that lead from the first request of a
download to the second; `dl` is the browser's view.

### FinderRequests and FinderHistory

JavaScript has one thread, so a handler runs to its end; a loop in a handler is a
step for each turn, with nothing else enabled in between (`opening`, `syncing`,
`leaving`).  `place[r]` is where a request is, `dfrd[r]` the state of its Deferred; the
other variables have the names of the code's.  `Ask` is what a user or a
`sync()` asks for, `Answer` a connection that ends, in the order of the code: the
connection is given on first, the answer is looked at afterwards, so that an
open that goes next ends the one that has just been answered.  An answer names the
folder it lists (`DataCwd`), and the page shows that one: the target, or, if the target has gone,
the folder that was in (`CmdOpen` 212-215, `EF` 416), and the Deferred is then said to be
`"elsewhere"`.  `Cancel` is the button of a notification, `Leave` the page's `unload` or `destroy`, with the abort
handlers called by index while each removes itself.  `asked` is history.

Under the refinement mapping of `LastOpenWins`, what is wanted is the target of the open
asked for last, for as long as its Deferred is pending.

`FinderHistory` adds the buttons: `Go` moves the index and asks for the folder, `Follow`
is what a step of the requests means to the history (`.fail(reset)`), `Opened` is the
`open` event, which comes frames after the answer.  An open of `Go` that is answered with another
folder has not failed, so that nothing resets the index.

### FinderFolder

`files` is the cache, `listed` what the list shows, `cwdHashes` what it is to show.  A
request is asked for, served (`Serve`: the server sees the disk of that moment) and
applied (`Apply`), each in any order with those of the others.  An `rm` names several
items and stops at the first it cannot delete or find: some are gone then, and the answer names none of them
(`CmdRm` 91-106); a `mkdir` that fails answers that nothing was added, which is no error to the page
(`CmdMkdir` 57-69), and no `sync()` follows.  What an answer does at once and
what it leaves to later frames (`fm.lazy`) is as in the code: `Frame` runs the
first job, `Timeout` a `then()` that was deferred.  `Collect` is the garbage
collection of folders that were left, with `opened`, `due` and `sweep` for what
it waits for: `opendone`, `lazydone`, a timer.  `Elsewhere` is what somebody else does to the
volume, `Clipboard` what is cut or copied.  `crossed`, `mixed` and `kept` are
history, and say for which items a property cannot be asked for (below).

## 3. What the runs check

| run | question | states |
|---|---|---|
| `search_in_turn` | One chain of polls, searches and calls of `index()`, with every disturbance: is there one index thread, do the counts mean what the class comment says, is a `complete` index whole, does polling end? | 225 k |
| `index_two_clients` | Two chains race through `index()`, some from a search: does one index ever get two writers, does a lock outlive its thread, interrupted or restarted? | 1.3 M |
| `search_two_chains` | Two chains overlap at every step, with two paths: are hits of the path asked for or of the one searched beside it, is a `complete` index whole as long as one chain was alone? | 4.1 M |
| `upload_retry` | Chunks of two windows, in any order, some twice: is each file added, whole, and is nothing left? | 1 755 |
| `upload_faults` | Failures and restarts anywhere: is what is added always whole? | 1 910 |
| `upload_failure_spreads` | a batch of which one file fails: **the other is added in part** | |
| `decompile_in_turn` | One tool at a time, errors, deletion, stops: does the page get every line and the end, does each log file have the tool's runs, whole? | 1.2 M |
| `decompile_together` | Tools side by side, two requests on one counter, the starting ones included: does the page poll until the last has ended? | 2.1 M |
| `files_one_client` | Any two commands, stale pages, failures, stops: do answers say what was done, is a text ever lost? | 617 k |
| `finder_requests` | Folders clicked faster than they open, some gone by then, searches, cancel buttons, errors, leaving: is the answer to the last one shown, does nothing wait for ever? | 1.75 M |
| `finder_history` | Back and forward pressed while other opens are under way, fail, are overtaken or find their folder gone: is the history where the page is? | 6.9 M |
| `finder_folder` | Answers, events and frames in any order, and somebody else's changes: is the list true, does the cache forget? | 2.3 M |

The run in bold ends in a counterexample: the code departs from its class comment
there (`PROJECT.json`, `findings`).

### Bounds

* `MaxDocs` (files under a search path) is 1 or 2: the counts are compared with
  each other and with 0 and 1, and two files let a thread be interrupted,
  deleted or stopped before, between and after them.  Two `Workers` are enough
  for one chain, which never needs a second (theorem `OneClientOneThread`), and
  for the race of two.
* `search_in_turn` has one chain, one path and every disturbance.  `search_two_chains` has two chains, the
  fewest that share the static directory, and two paths, so that one can take the other's; one worker,
  one file and interrupts keep it finite enough.  `index_two_clients` has two chains and two
  workers, the fewest that race, on one path, with all that does not fail on disk but a deletion.  In both, chains
  and workers are symmetric, and states that differ only in the counts are merged (`VIEW Control`); the theorem
  `HitsAreOfOwnOrBeside` has any number of all of these and every disturbance.
* Uploads have up to three chunks: first, middle and last.  Four uploads give
  two large ones in turn and small ones beside them; `MaxSends` = 2 lets a
  retry come before and after the file is complete.
* `Decompile` has two threads and at most two polls; three tools in
  `decompile_together` let the order in which `getStatus` asks matter.
  `MaxCount` = 2 caps `m_active_threads`, which the page compares with 0.  A
  `stop_thread` comes only while a tool runs.  A tool puts three lines, which fit the buffer of its
  `BufferedWriter`, so that they reach the file when it is closed.  `decompile_together` merges
  states that differ only in what the lines and the page say (`VIEW Shape`).
* `FileCommands` runs two commands (`MaxCommands`) on a tree with a folder, two
  texts in it and one beside it that has the name of one of these, and `Tries`
  is 2 where the code has 10: duplicating twice, or pasting two files of one
  name, runs out of names.  The theorems hold for every number of both.
* `finder_requests` has two opens of the user and one of `sync()`, a thumbnail
  request and two searches that can be cancelled, over two connections
  (`requestMaxConn` is 3 in the code): one open can
  be on the wire while another overtakes it and the rest waits.  Two folders suffice, one in the other,
  since only equality of folders matters, and which one an answer lists.
* `finder_history` has four opens, so that three buttons can be pressed after a
  first visit, a search that keeps the only connection busy, and three folders, each in the one
  before: with two, the parent of one that has gone would always be the folder the user came from.
* `finder_folder` has the root, a folder, a file in it and one beside it; the folder is what
  somebody else makes and removes.  Folders are in the root, and files in them or beside them (`ConstantsAssumption`):
  `sync()` asks for the tree of every folder and `rm` goes down one level.  There are three
  requests: the shortest history in which an answer is overtaken by two others.  Which
  request is which does not matter (symmetry).

### What the passing runs leave out, on purpose

A property is only checked where the code keeps it.  What it does not keep is
under `findings` or `hazards`.  Each of the following is known, and is a counterexample one finds by
changing a constant of the run or by dropping an exception from the property:

* Indexing: `OneIndexThread` and the counts are of one client (two may start two
  threads, and `OneWriterPerPath` is what then still holds).  `NoLeakedLock` is without
  failing writes, which leave a writer open.
* Searching: `HitsAreOfPath` allows the hits of a search that was under way at the same time, since
  the two share `m_directory`; and a search whose directory could not be opened reads what it finds
  in the field.  `SureMeansWhole` excepts the paths in `doubt`: after an interrupt, a stop, with
  two paths in turn or two chains together, the cache directory is there, which is all that is
  looked at, and the answer `complete` may well be wrong.
* Upload: file names have one dot, differ, and no last chunk is empty.  `TarballFirst`
  and `EmptyTail` are there for those who want to see otherwise.
* Decompiling: no tool is started while it runs (`"again"`), which would make
  the page lose sight of the first thread.  `NothingUntold` is of the current stream: lines of one
  that another tool has replaced are lost if no request came in between.  `WholeLogOnTop` and
  `LogTellsAll` are of one tool at a time; in `decompile_in_turn` the user waits for a tool before using
  the next.  `LogTellsAll` excepts files that were deleted after they were opened.  A page whose requests have all failed
  in a restart (`cutOff`) shows what it last heard, with the tool running: `NothingUntold`,
  `WholeLogOnTop` and `EndIsShown` except it.  All other requests are answered.
* Files: one client.  With two, one may download the other's archive.
  `AnswerIsTrue` excepts what goes to a last name that is taken: a later target of the
  same request may leave it in part, or put something removed back into a folder that has it.
  `TextsKept` excepts `rm`, `put` and whatever goes to a name that is taken: a copy under the last name, a
  rename, an archive.  (A comment in `CmdPaste`, lines 62-63, says that a paste is not allowed to overwrite;
  after ten names that are taken it does.)
* Requests: what is shown is what the last open's answer lists.  `LastOpenIsShown` and `LastOpenWins`
  say the same of a target that has gone: the folder that was in is shown, with success (`CmdOpen` 212-215),
  and not the one asked for.  Leaving the page aborts every second handler only; nothing is claimed of
  the folder after it.  `NoneWaitsForEver` asks that there are never more opens waiting than
  connections: an open that is skipped lets no other request go, so that the last
  connection may be given up while another waits.
* History: after back or forward to a folder that has gone, the history stays at it while
  the folder that was in is shown; `HistoryFollows` excepts this and nothing else.
* Folder: `ListIsTrue` excepts what requests that overtook each other, somebody
  else, or an `rm` that stopped half-way have changed since the last `sync()`, and what a garbage collection that was late took from
  the folder about to be opened (`crossed`), `ListIsCache` what `sync()` took away
  between an answer and its event (`mixed`), `LeftIsForgotten` the clipboard and the folder
  left before one that was opened twice in a row (`kept`).  An open of a folder that
  has gone is answered with its parent and no files, where the comment of `CmdOpen`
  (lines 112-115) lets one expect an error; the page then shows an empty folder until
  `sync()`.

### Fairness

* `search_in_turn` and `decompile_in_turn`: weak fairness of each thread's next
  step and of each request that is under way.  Android schedules all threads, and the
  page's timer fires.  It is assumed of the tools that they end, with an error or
  without.  No failure or disturbance is obliged to occur or to stop occurring;
  `PollingEnds` only excludes a user who deletes indexes again and again.
* `finder_requests`: a handler that has begun runs to its end;
  as long as something is on the wire, some request of those is answered, with an error or
  without (a connection that breaks, or times out, is an error to jQuery).  `finder_history` has the same,
  and that an `open` event that is due is fired; nothing it checks rests on this.
* Nothing obliges a user to ask for anything.

The other runs check safety alone.  All but the index and search runs allow the
system to stop, which it does when the users have no commands, chunks, requests or
threads left.

## 4. What is proved

With TLAPS, for every value of the constants that meets the module's
`ConstantsAssumption` (which every run evaluates) and what else is said.

| theorem | says | assumes |
|---|---|---|
| `LuceneIndexProofs!TypeCorrect` | types | |
| `LuceneIndexProofs!WriterExclusion` | `OneWriterPerPath` | |
| `LuceneIndexProofs!NoLockIsLeaked` | `NoLeakedLock` | nothing fails or is deleted on disk |
| `LuceneIndexProofs!OneClientOneThread` | `OneIndexThread` | one client |
| `LuceneIndexProofs!CountsAreProgress`, `CompleteIsEven` | `ProgressCounts`, `CompleteCountsAgree` | one client |
| `SearchingProofs!SearchTypeCorrect` | types (`STypeOK`) | |
| `SearchingProofs!HitsAreOfOwnOrBeside` | `HitsAreOfPath` | |
| `SearchingProofs!AloneIsSure` | `SureMeansWhole` | one client |
| `ChunkUploadProofs!UploadTypeCorrect` | types | |
| `ChunkUploadProofs!UploadKeepsPromise` | `ChunkUpload` implements `UploadPromise` | `NamesKeepApart`, `NoFailure` |
| `ChunkUploadProofs!FaultsKeepPromise` | the same | `NamesKeepApart`, `LargeInTurn`, `NoRetry` |
| `ChunkUploadProofs!ChunksAreThere` | `NoDanglingChunk` | `NamesKeepApart`, `NoFailure` |
| `ChunkUploadProofs!DeliveredAreAdded`, `NothingIsLeft` | `DeliveredIsAdded`, `NothingLeft` | `NamesKeepApart`, `NoInterruption` |
| `ChunkUploadProofs!NoChunkIsOrphaned` | `NoOrphanChunk` | `NamesKeepApart`, `NoRetry` |
| `DecompileProofs!DecompileTypeCorrect` | types | |
| `DecompileProofs!PageSeesTheEnd`, `NothingIsLeftUntold`, `OwnStart` | `PageFollows`, `NothingUntold`, `KnowsItsStart` | `NotAgain` |
| `DecompileProofs!LogIsOnTop`, `LogsTellAll` | `WholeLogOnTop`, `LogTellsAll` | `InTurn` |
| `FileCommandsProofs!AloneKeepsTreeWhole` | types, and that every path is in a folder | one client |
| `FileCommandsProofs!AloneKeepsTexts` | `TextsKept` | one client |
| `FileCommandsProofs!AloneIsToldTrue` | `AnswerIsTrue` | one client |
| `FileCommandsProofs!AloneDownloadsItsOwn` | `DownloadIsOwn` | one client |
| `FinderRequestsProofs!RequestsTypes` | types | |
| `FinderRequestsProofs!ConnectionsCounted` | `CountIsConnections` | |
| `FinderRequestsProofs!ListsCurrent` | `ListsAreCurrent` | |
| `FinderRequestsProofs!LastIsShown` | `LastOpenIsShown` | |
| `FinderRequestsProofs!FolderIsTheWish` | `FinderRequests` implements `LastOpenWins`, but for its fairness | |
| `FinderHistoryProofs!HistoryIsTrue` | `HistoryFollows` | |
| `FinderFolderProofs!FolderTypeCorrect` | types | |
| `FinderFolderProofs!LeftFilesAreForgotten` | `LeftIsForgotten` | |
| `FinderFolderProofs!ListShowsCache` | `ListIsCache` | |
| `FinderFolderProofs!ListShowsDisk` | `ListIsTrue` | |

`ConstantsAssumption` limits the system in one place only: in `FinderFolder` all folders are in the
root, so that the theorems about the list and the cache are of a volume with folders one level deep.

The assumptions, and what the code says to them:

* `NamesKeepApart`: a large file's name has one dot, no other upload has it, and no chunk is
  empty.  `CmdUpload` knows an upload by the name alone, and a chunk's name is cut at dots.
* `NoFailure`, `NoInterruption`, `NoRetry` say what the environment does not do: file
  operations fail; they fail or the service restarts; chunks are sent again or
  `renameTo` fails.  With failures, a chunk that is sent again to an upload that has failed
  starts it anew, with nobody to end it.
* `LargeInTurn`: large files come from one window, in one batch each.  When one fails, the
  chunk files of all are deleted: `upload_failure_spreads` is the run without it.
* `NotAgain`: a tool is not started while it runs.  `InTurn`: nor does the user start a tool,
  clear or stop before the page shows the last one's end, and the page's requests come one
  at a time.  Without it a line is put into whichever stream is current, and two answers may
  arrive in either order.
* One client: nothing in `Index`, `Search` and the file commands keeps clients apart.
  Index threads, failures and the end of the process still come at any time.  In the modules of
  indexing and searching a client is one chain of requests, and neither the page nor the server keeps
  it alone; with more of them these properties are lost, and `index_two_clients`,
  `search_two_chains` and the theorems without the assumption say what is left.

The inductive invariants, and why each is needed:

* **`WriterInv`**.  Whether a thread may open a writer depends on the lock, not on
  other writers: an open writer's path is locked and its thread runs.  **`LockInv`** is
  the converse: a locked path has a running thread with the writer.
* **`SingleInv`**.  A request that found no thread alive is still right when it starts
  one, if it is the only one; one clause for each place between the two.
* **`CountsInv`**.  Where the counts may differ: without an error they do so only while a
  thread is between its first file and its last count, and while it is, the state is `indexing`.
  `CompleteIsEven` is then a fact about one state.
* **`DirectoryInv`** (searching).  From the assignment in a search to its use, the field holds the
  directory of this search or of one that has been under way at the same time: one that had ended before
  has assigned it before.  To say so of the next assignment, any two searches that are under
  way have each other's paths in `beside`.
* **`SureInv`** = `SingleInv` /\ `BusyInv` /\ `PlaceInv` /\ `WholeInv`.  `index()` takes a cache
  directory for an index.  So each path that has one, and is not in `doubt`, is accounted for
  (`Accounted`): its index is whole, or failed, or a request is on its way to index it
  (`Pending`), or a thread works on it (`Works`).  While either is the case the state is not
  `complete` (`BusyInv`); a search that has made a directory is pending from that step on.
* **`UploadInv`** = `Keyed` /\ `Backed`.  Entries of the table are filed under the name
  of their file and the number of their chunk, once each, and every one is backed by a
  chunk file.  When the count says that all have come, they are therefore *the* chunks of that
  upload, and `Assemble` is a step of `UploadPromise`; all other steps stutter.
* **`SentInv`**.  What has come of an incomplete upload is noted (`AllNoted`), so the
  count reaches its end with the last chunk; what came once leaves nothing (`Tidy`).
  `Tidy` is of each upload alone: a chunk of another that is sent again after its end does not spoil it.
* **`FaultInv`** /\ **`OpenAreBacked`**.  A failure deletes chunk files but only its own
  entries, so `Backed` is lost.  What stays true is `AnswerIsLast` (nothing comes of an
  upload once it is answered) and that incomplete uploads are backed; with large files in
  turn, that is the only one that is under way.
* **`FollowInv`** (decompiling).  A thread that runs will be seen: some request has its
  tool still before it (`WillSee`), or the counter is already above 0, or the answer is.  The
  counter goes back to 0 only with a request that has all tools before it, which is why one
  counter for all is enough, although `++` may lose a count.  A start request that counts its thread
  goes on to a poll, and so has all tools before it; what it writes is never 0.  `WillRead` says the
  same of lines in the current stream, unless the page was cut off; `StartInv` of the start
  time that a thread finds.
* **`AloneInv`**, **`ToldInv`**.  The lines put since the last clear or restart are, in order, those on
  the page, those in the request's hands and those in the stream: numbered without a
  gap over the three.  A stream is replaced only when the one before has been read, because
  one thread runs at a time, or when the page has been cut off and is owed nothing of it.
* **`LogInv`**.  A log file's numbers grow, and it is of runs of its tool that have ended.  For each place of a
  thread whose file is still in the folder: the stream is its own, and its writer has been given so many lines,
  all to come after what the file has.  A thread whose file is gone is alone, so
  that no other has one either (`linked` is empty), and what it closes comes to none.
* **`DownloadInv`**.  Between the two requests of a download the archive named to the client
  is complete, its name is still the one in the static field, and `download_ready` is
  set only for it or for a download that was given up.  Steps that are not of a
  download are `Quiet`.
* **`FilesInv`** = `Hung(tree)` /\ `JobInv` /\ a set of bodies.  The tree is finite and
  each path is in a folder, to the root; a move deletes a text only where its copy has
  the same content, and source and copy differ (`JobInv`).  What is unpacked may be an
  archive again, to any depth: `Closed(B)` says that a set of bodies holds what its archives
  hold, and the invariant that there is one that the tree is made of.
* **`ReportInv`**.  What a command will tell (`Report`) is true at each of its steps, and no later
  step of it can make it wrong.  All the targets are in one folder and all go to another, or
  to the same, and both are there to the end; a copy is put where nothing was, unless it has the
  last name.  So a later target neither touches what an earlier one has added nor puts back what it
  took away.  `Closed` is used again: archives hold nothing in part.
* **`RInv`** = `ListsInv` /\ `RestTypes` /\ `LastInv`.  `Orderly`: the places of the
  requests, the queue, the two lists of connections, the handlers bound to `abort` and the
  counter all tell the same, none twice.  `LastInv` says where the open asked for last is: at
  the head of the queue with the skipping of opens off, being sent, on the wire alone, or over: refused,
  or with the folder shown that its answer lists; there is no other place for it, whatever ends the
  others.  It holds at every turn of the loops too, where the queue is in the middle of being changed.
* **`HInv`** (history) = `FoldersInv` /\ `HistoryInv`.  The folder that is shown and those asked for
  are folders, and `current` is a place in the list.
  **`FollowInv`** (of `FinderHistoryProofs`): an event that is due puts the history at the folder
  shown, unless `update` is off; and then an open of `go()` that waits stands for the
  folder the index is already at, as does one that was answered with the parent.  `OversInv`: a request
  that is over has settled its Deferred, so that no step can answer it again.
* **`IInv`** (folder) = types, `DiskInv`, `RequestInv`, `CollectInv`.  A file that is neither of the folder
  shown nor to be kept (`Astray`) is on its way out: it is among those the garbage
  collection waits with (`due`), those it looks at (`sweep`), or those the open under way
  will hand to it (`LeftBehind`).  `RequestInv` is needed because answers that come late
  add to the cache: at most one request reads at a time, and what it has
  seen is of the folder it will be put into.
* **`SeenInv`**, **`ShownInv`** (folder).  Jobs wait in line, and each says of some items that they
  are to be shown or not.  The last one to name an item agrees with the cache (`WordInv`);
  what none names is listed already if it is cached (`ListInv`), or will be by the open that draws anew
  (`HashInv`).
* **`TrueInv`** (folder) = `ApartInv` /\ `ChangeInv` /\ `ReadInv` /\ `CacheInv`.  Where the cache and the disk
  differ, an answer that says so is on its way (`CacheInv`).  That asks of each answer under way that it
  still holds when the page hears of it: `ChangeInv` of mkdir and rm, `ReadInv` of an open and of
  `sync()`.  It does because the requests that may change an item are `Apart`: there is one at a time,
  and no rm while an open is under way, or the item is noted in `crossed`; `sync()`, which starts
  `crossed` anew, notes all of them in `near`.

**Induction.**  What a recursion over data computes cannot be proved here, since the
library's induction rules take an operator as a parameter.  Where a model needs an induction
it is brought to one of three other forms: a counterexample with the smallest number
(`SmallestNat`, from the well-foundedness of numbers: every folder above a path is
there, `InFolders`), counting (`UniqueIsNew`: more names than paths), or a closed set
(`Closed`).  Lists are filtered by a definition without recursion
(`FinderRequests!Without`).

**What the proofs showed of the models.**  These places of the models were wrong for
constants no run had tried, and were corrected against the code:

* `FinderFolder`: `rm` of a folder takes with it what is cached of that folder, without naming it; an
  item that another answer had added in between stays in the list.  `mixed`
  now has these (`TakenAlong`).
* `FileCommands`: where a copy meets a file in the place of a folder, or the reverse, `mkdir` fails
  unnoticed and the first file below it ends the copy (`Fitting`, `Fits`, `Stopped`); the model
  had let the folder take the file's place.
* `FinderRequests` and `FileCommands` had assumed too little of their constants (finitely many
  requests; a tree at first).
* `AnswerIsTrue` had excepted too little: if every name for a copy is taken and the last is that of a
  folder the source is in, a move of two targets makes again a path that its answer says was removed.
  It now excepts what is in such a folder.  And `FileCommands` had let an archive hold files in part.
* `FinderFolder`: `ListIsTrue` had excepted too little.  A collection that starts late (`sweep`) takes a
  file that was removed, made again under the same name and named by the answer of `mkdir`, when an
  open of its folder that was served before that is answered next: the page then does not list a file that
  is there until `sync()`.  It takes six requests; `TakenBack` notes such files in `crossed`.

**Only model-checked.**  The liveness properties `PollingEnds`, `EndIsShown`,
`NoneWaitsForEver` and the fairness in `LastOpenWins` stay with TLC, since the prover has no
rule for fairness.

## 5. What is not modelled

`PROJECT.json` lists every component with the reason.  In short:

* What only reads and converts: listings, MIME types, hashes, JSON; views, dialogs
  and the device survey.
* *Search sets*: each operation reads or writes one preference or one file; the two
  fallbacks in a row when a set has gone are reached by a test that deletes a file.
* *Sessions*: who may do what is access control and is left aside; the handlers
  behind it are modelled for the clients they answer.
* *Life cycle, certificate, keys, license*: each start makes again what the last one
  left, so that there is no state a crash could leave between two steps for a later
  one to find; the rest is ciphers and dialogs.
* Libraries: NanoHTTPD, Lucene, the decompilers, jQuery UI, Bootstrap, CryptoJS, Dropzone
  and the parts of elFinder that draw, drag and edit.  They are most of the
  lines in the repository.
* Of the components that are modelled: contents of files beyond what tells them apart,
  thumbnails and media scans, `ProbeMgr`'s table, `upload_apk`; elFinder's
  other commands, its tree view, search results in the list and folders of more than a hundred
  children.  Two clients' file commands at once can be had from `FileCommands`, but nothing is claimed of them.
