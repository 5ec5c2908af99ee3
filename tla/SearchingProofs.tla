--------------------------- MODULE SearchingProofs ---------------------------
(***************************************************************************)
(* What holds of searches for every set of clients, threads and paths: the *)
(* variables keep their types, and hits are of the path that was asked for *)
(* or of one that was searched at the same time; and for every single      *)
(* chain, an index that is said to be complete is whole.                   *)
(***************************************************************************)
EXTENDS Searching, LuceneIndexProofs

\* Locals of a new search, and of none, are well typed.
LEMMA FreshSearch ==
  /\ \A p \in Paths, f \in BOOLEAN : NewSearch(p, f) \in Locals
  /\ NoSearch \in Locals
  /\ Closed \in [path : Paths, open : BOOLEAN]
BY FreshLocals DEF NewSearch, NoSearch, Locals, Closed

\* A step of search() keeps every variable in its type.
LEMMA SearchStepType ==
  ASSUME STypeOK, NEW c \in Clients, SearchStep(c)
  PROVE  STypeOK'
<1> USE DEF SearchPCs, RequestPCs
<1>1. CASE AssignDirectory(c)
  <2>1. sloc[c].path \in Paths
    BY DEF STypeOK, Locals
  <2>2. OpenedFor(sloc[c].path) \in [path : Paths, open : BOOLEAN]
    BY <2>1 DEF OpenedFor
  <2>3. directory' \in [path : Paths, open : BOOLEAN] /\ sloc' \in [Clients -> Locals]
    <3>1. [sloc EXCEPT ![c].opened = TRUE] \in [Clients -> Locals]
      BY DEF STypeOK, Locals
    <3>2. QED
      BY <1>1, <2>2, <3>1 DEF AssignDirectory, STypeOK
  <2>4. cacheDir' \in [Paths -> BOOLEAN]
    BY <1>1 DEF AssignDirectory, STypeOK, TypeOK
  <2>5. spc' \in [Clients -> SearchPCs]
    BY <1>1 DEF AssignDirectory, STypeOK
  <2>6. pc' \in [Clients -> RequestPCs] /\ req' \in [Clients -> Request]
    <3>1. NewRequest(sloc[c].path, TRUE) \in Request
      BY <2>1, FreshLocals
    <3>2. /\ [pc EXCEPT ![c] = "enter"] \in [Clients -> RequestPCs]
          /\ [req EXCEPT ![c] = NewRequest(sloc[c].path, TRUE)] \in [Clients -> Request]
          /\ pc \in [Clients -> RequestPCs] /\ req \in [Clients -> Request]
      BY <3>1 DEF STypeOK, TypeOK
    <3>3. CallIndex(c) \/ UNCHANGED requests
      BY <1>1 DEF AssignDirectory
    <3>4. QED
      BY <3>2, <3>3 DEF CallIndex, requests
  <2>7. UNCHANGED <<statics, threads, disk, lock, beside, doubt>>
    BY <1>1 DEF AssignDirectory
  <2>8. TypeOK'
    BY <2>4, <2>6, <2>7 DEF STypeOK, TypeOK, statics, progress, threads
  <2>9. QED
    BY <2>3, <2>5, <2>7, <2>8 DEF STypeOK
<1>2. CASE IndexReturns(c)
  BY <1>2 DEF IndexReturns, STypeOK, TypeOK, statics, progress, threads, volume
<1>3. ASSUME UNCHANGED vars
      PROVE  TypeOK'
  BY <1>3 DEF STypeOK, TypeOK, vars, statics, progress, requests, threads, volume
<1>4. CASE OpenSearcher(c)
  <2>1. sloc' \in [Clients -> Locals]
    BY <1>4 DEF OpenSearcher, STypeOK, Locals
  <2>2. QED
    BY <1>3, <1>4, <2>1 DEF OpenSearcher, STypeOK
<1>5. CASE OpenSearcherThrows(c) \/ Collect(c) \/ CollectThrows(c)
  BY <1>3, <1>5, FreshSearch DEF OpenSearcherThrows, Collect, CollectThrows, Ends, STypeOK
<1>6. QED
  BY <1>1, <1>2, <1>4, <1>5 DEF SearchStep

\* Every step keeps every variable in its type.
LEMMA NextSType == STypeOK /\ [SNext]_allvars => STypeOK'
<1> SUFFICES ASSUME STypeOK, [SNext]_allvars PROVE STypeOK'
  OBVIOUS
<1> USE DEF SearchPCs
<1>1. ASSUME NEW c \in Clients, NEW p \in Paths, Search(c, p)
      PROVE  STypeOK'
  <2>1. TypeOK'
    BY <1>1 DEF Search, STypeOK, TypeOK, statics, progress, requests, threads
  <2>2. \A f \in BOOLEAN : NewSearch(p, f) \in Locals
    BY FreshSearch
  <2>3. cacheDir[p] \in BOOLEAN
    BY DEF STypeOK, TypeOK
  <2>4. beside' \in [Clients -> SUBSET Paths]
    <3>1. {sloc[e].path : e \in Searching} \in SUBSET Paths
      BY DEF Searching, STypeOK, Locals
    <3>2. \A d \in Clients : beside[d] \cup {p} \in SUBSET Paths /\ beside[d] \in SUBSET Paths
      BY DEF STypeOK
    <3>3. QED
      BY <1>1, <3>1, <3>2 DEF Search
  <2>5. doubt' \in SUBSET Paths
    <3>1. Together(c) \subseteq Paths /\ doubt \subseteq Paths
      BY DEF Together, STypeOK
    <3>2. doubt' = doubt \cup Together(c) \/ doubt' = doubt \cup Together(c) \cup {p}
      BY <1>1 DEF Search
    <3>3. QED
      BY <3>1, <3>2
  <2>6. spc' \in [Clients -> SearchPCs] /\ sloc' \in [Clients -> Locals]
    BY <1>1, <2>2, <2>3 DEF Search, STypeOK
  <2>7. directory' = directory
    BY <1>1 DEF Search
  <2>8. QED
    BY <2>1, <2>4, <2>5, <2>6, <2>7 DEF STypeOK
<1>2. ASSUME NEW c \in Clients, SearchStep(c)
      PROVE  STypeOK'
  BY <1>2, SearchStepType
<1>3. ASSUME NEW c \in Clients, IndexStep(c)
      PROVE  STypeOK'
  <2>1. TypeOK'
    BY <1>3, RequestType DEF IndexStep, STypeOK
  <2>2. Slighted(c) \subseteq Paths
    BY DEF Slighted, STypeOK, TypeOK, Request
  <2>3. doubt' \subseteq Paths
    BY <1>3, <2>2 DEF IndexStep, STypeOK
  <2>4. /\ spc' \in [Clients -> SearchPCs] /\ sloc' \in [Clients -> Locals]
        /\ beside' \in [Clients -> SUBSET Paths]
    BY <1>3, FreshSearch DEF IndexStep, Ends, STypeOK
  <2>5. QED
    BY <1>3, <2>1, <2>3, <2>4 DEF IndexStep, STypeOK
<1>4. ASSUME TypeOK', UNCHANGED <<directory, spc, sloc, beside>>, doubt' \subseteq Paths
      PROVE  STypeOK'
  BY <1>4 DEF STypeOK
<1>5. ASSUME Next
      PROVE  TypeOK'
  BY <1>5, NextType DEF STypeOK
<1>6. ASSUME NEW c \in Clients, NEW p \in Paths, NEW f \in BOOLEAN,
             SAsk(c, p, f)
      PROVE  STypeOK'
  BY <1>4, <1>5, <1>6 DEF SAsk, Together, Next, STypeOK
<1>7. ASSUME NEW c \in Clients, Poll(c), UNCHANGED svars
      PROVE  STypeOK'
  BY <1>4, <1>5, <1>7 DEF Next, STypeOK, svars
<1>8. ASSUME NEW w \in Workers, WorkerStep(w), UNCHANGED svars
      PROVE  STypeOK'
  BY <1>4, <1>5, <1>8 DEF Next, STypeOK, svars
<1>9. CASE SInterrupt
  BY <1>4, <1>5, <1>9 DEF SInterrupt, Next, Disturb
<1>10. ASSUME NEW p \in Paths, SChange(p)
       PROVE  STypeOK'
  BY <1>4, <1>5, <1>10 DEF SChange, Next, Disturb, STypeOK
<1>11. CASE SDies
  <2>1. TypeOK'
    BY <1>5, <1>11 DEF SDies, Next, Disturb
  <2>2. QED
    BY <1>11, <2>1, FreshSearch DEF SDies, STypeOK
<1>12. CASE UNCHANGED allvars
  <2>1. TypeOK'
    BY <1>12, NextType DEF allvars, STypeOK
  <2>2. QED
    BY <1>12, <2>1 DEF STypeOK, allvars, svars
<1>13. QED
  BY <1>1, <1>2, <1>3, <1>6, <1>7, <1>8, <1>9, <1>10, <1>11, <1>12 DEF SNext

\* In every reachable state the indexing service and the searches on top of it are
\* well typed.
THEOREM SearchTypeCorrect == SSpec => []STypeOK
<1>1. SInit => STypeOK
  BY InitType, FreshSearch DEF SInit, STypeOK, SearchPCs
<1>2. QED
  BY <1>1, NextSType, PTL DEF SSpec

-----------------------------------------------------------------------------
(* The static directory.  Until a search has its reader, nobody assigns    *)
(* the field but it and the searches beside it: one that has ended has put *)
(* its path in the field before this one put its own.                      *)

DirectoryInv ==
  /\ \A c \in Clients :
       /\ spc[c] \in {"no", "assign"} => ~sloc[c].opened
       /\ spc[c] \in {"index", "read"} /\ sloc[c].opened /\ directory.open =>
            directory.path \in {sloc[c].path} \cup beside[c]
       /\ spc[c] = "collect" /\ sloc[c].opened =>
            sloc[c].found \in {sloc[c].path} \cup beside[c]
  /\ \A c, d \in Searching : c # d => sloc[d].path \in beside[c]

\* The end of a search leaves the field and the other searches as they are, or closes the field.
LEMMA EndsDirectory ==
  ASSUME STypeOK, DirectoryInv, NEW c \in Clients, Ends(c),
         directory' = directory \/ ~directory'.open
  PROVE  DirectoryInv'
<1>1. /\ spc'[c] = "no" /\ ~sloc'[c].opened
      /\ \A d \in Clients : d # c => /\ spc'[d] = spc[d]
                                     /\ sloc'[d] = sloc[d]
                                     /\ beside'[d] = beside[d]
  BY DEF Ends, STypeOK, NoSearch, NewSearch
<1>2. QED
  BY <1>1 DEF DirectoryInv, Searching

\* A step of a search, whatever the others are at.
LEMMA SearchStepDirectory ==
  ASSUME STypeOK, DirectoryInv, NEW c \in Clients, SearchStep(c)
  PROVE  DirectoryInv'
<1> USE DEF STypeOK
<1>1. CASE AssignDirectory(c)
  <2>1. /\ spc[c] = "assign" /\ spc'[c] \in {"index", "read"} /\ beside' = beside
        /\ \A d \in Clients : d # c => spc'[d] = spc[d] /\ sloc'[d] = sloc[d]
    BY <1>1 DEF AssignDirectory
  <2>2. \A d \in Clients : sloc'[d].path = sloc[d].path
    BY <1>1 DEF AssignDirectory, Locals
  <2>3. Searching' = Searching /\ c \in Searching
    BY <2>1 DEF Searching
  <2>4. \/ directory' = OpenedFor(sloc[c].path)
        \/ directory' = directory /\ sloc' = sloc
    BY <1>1 DEF AssignDirectory
  <2>5. \A d \in Clients : spc[d] \in {"index", "read"} => d \in Searching
    BY DEF Searching
  <2>6. \A d, e \in Searching' : d # e => sloc'[e].path \in beside'[d]
    BY <2>1, <2>2, <2>3 DEF DirectoryInv, Searching
  <2>7. ASSUME NEW d \in Clients, d # c
        PROVE  /\ spc'[d] \in {"no", "assign"} => ~sloc'[d].opened
               /\ spc'[d] \in {"index", "read"} /\ sloc'[d].opened /\ directory'.open =>
                    directory'.path \in {sloc'[d].path} \cup beside'[d]
               /\ spc'[d] = "collect" /\ sloc'[d].opened =>
                    sloc'[d].found \in {sloc'[d].path} \cup beside'[d]
    <3>1. spc'[d] = spc[d] /\ sloc'[d] = sloc[d] /\ beside'[d] = beside[d]
      BY <2>1, <2>7
    <3>2. spc[d] \in {"index", "read"} => sloc[c].path \in beside[d]
      BY <2>3, <2>5, <2>7 DEF DirectoryInv
    <3>3. directory' = directory \/ directory'.path = sloc[c].path
      BY <2>4 DEF OpenedFor
    <3>4. QED
      BY <3>1, <3>2, <3>3 DEF DirectoryInv
  <2>8. directory'.path = sloc[c].path \/ ~sloc'[c].opened
    BY <2>1, <2>4 DEF OpenedFor, DirectoryInv
  <2>9. QED
    BY <2>1, <2>2, <2>6, <2>7, <2>8 DEF DirectoryInv
<1>2. CASE IndexReturns(c)
  BY <1>2 DEF IndexReturns, DirectoryInv, Searching
<1>3. CASE OpenSearcher(c)
  <2>1. /\ spc[c] = "read" /\ spc'[c] = "collect" /\ UNCHANGED <<beside, directory>>
        /\ \A d \in Clients : d # c => spc'[d] = spc[d] /\ sloc'[d] = sloc[d]
        /\ directory.open
    BY <1>3 DEF OpenSearcher
  <2>2. /\ sloc'[c].found = directory.path
        /\ sloc'[c].opened = sloc[c].opened
        /\ sloc'[c].path = sloc[c].path
    BY <1>3 DEF OpenSearcher, Locals
  <2>3. Searching' = Searching
    BY <2>1 DEF Searching
  <2>4. sloc[c].opened => directory.path \in {sloc[c].path} \cup beside[c]
    BY <2>1 DEF DirectoryInv
  <2>5. \A d \in Clients : sloc'[d].path = sloc[d].path
    BY <2>1, <2>2
  <2>6. \A d, e \in Searching' : d # e => sloc'[e].path \in beside'[d]
    BY <2>1, <2>3, <2>5 DEF DirectoryInv, Searching
  <2>7. \A d \in Clients :
          /\ spc'[d] \in {"no", "assign"} => ~sloc'[d].opened
          /\ spc'[d] \in {"index", "read"} /\ sloc'[d].opened /\ directory'.open =>
               directory'.path \in {sloc'[d].path} \cup beside'[d]
          /\ spc'[d] = "collect" /\ sloc'[d].opened =>
               sloc'[d].found \in {sloc'[d].path} \cup beside'[d]
    BY <2>1, <2>2, <2>4 DEF DirectoryInv
  <2>8. QED
    BY <2>6, <2>7 DEF DirectoryInv
<1>4. CASE OpenSearcherThrows(c) \/ Collect(c) \/ CollectThrows(c)
  <2>1. Ends(c) /\ (directory' = directory \/ ~directory'.open)
    BY <1>4 DEF OpenSearcherThrows, Collect, CollectThrows, Closed
  <2>2. QED
    BY <2>1, EndsDirectory
<1>5. QED
  BY <1>1, <1>2, <1>3, <1>4 DEF SearchStep

\* Every step of every chain.
LEMMA NextDirectory ==
  ASSUME STypeOK, DirectoryInv, [SNext]_allvars
  PROVE  DirectoryInv'
<1>1. ASSUME UNCHANGED <<directory, spc, sloc, beside>>
      PROVE  DirectoryInv'
  BY <1>1 DEF DirectoryInv, Searching
<1>2. ASSUME NEW c \in Clients, NEW p \in Paths, Search(c, p)
      PROVE  DirectoryInv'
  <2>1. /\ spc[c] = "no" /\ spc'[c] = "assign" /\ directory' = directory
        /\ ~sloc'[c].opened /\ sloc'[c].path = p
        /\ \A d \in Clients : d # c => spc'[d] = spc[d] /\ sloc'[d] = sloc[d]
    BY <1>2 DEF Search, Quiet, STypeOK, NewSearch
  <2>2. Searching' = Searching \cup {c} /\ c \notin Searching
    BY <2>1 DEF Searching
  <2>3. /\ beside'[c] = {sloc[e].path : e \in Searching}
        /\ \A d \in Searching : beside'[d] = beside[d] \cup {p}
        /\ \A d \in Clients : d # c => beside[d] \subseteq beside'[d]
    BY <1>2, <2>2 DEF Search, STypeOK, Searching
  <2>4. \A d \in Searching : sloc[d].path \in beside'[c]
    BY <2>3
  <2>5. \A d, e \in Searching' : d # e => sloc'[e].path \in beside'[d]
    BY <2>1, <2>2, <2>3, <2>4 DEF DirectoryInv, Searching
  <2>6. \A d \in Clients :
          /\ spc'[d] \in {"no", "assign"} => ~sloc'[d].opened
          /\ spc'[d] \in {"index", "read"} /\ sloc'[d].opened /\ directory'.open =>
               directory'.path \in {sloc'[d].path} \cup beside'[d]
          /\ spc'[d] = "collect" /\ sloc'[d].opened =>
               sloc'[d].found \in {sloc'[d].path} \cup beside'[d]
    BY <2>1, <2>3 DEF DirectoryInv
  <2>7. QED
    BY <2>5, <2>6 DEF DirectoryInv
<1>3. ASSUME NEW c \in Clients, IndexStep(c)
      PROVE  DirectoryInv'
  <2>1. directory' = directory /\ (Ends(c) \/ UNCHANGED <<spc, sloc, beside>>)
    BY <1>3 DEF IndexStep
  <2>2. QED
    BY <1>1, <2>1, EndsDirectory
<1>4. CASE SDies
  BY <1>4 DEF SDies, DirectoryInv, Searching, NoSearch, NewSearch
<1>5. QED
  BY <1>1, <1>2, <1>3, <1>4, SearchStepDirectory
     DEF SNext, SAsk, SInterrupt, SChange, allvars, svars

\* Whatever the chains of requests ask for and however they, the index threads and the
\* disturbances interleave, the hits are of the path that was asked for or of one whose
\* search was under way at the same time: a search that has ended, however it ended,
\* leaves nothing in the static field Search.m_directory that the next would find.
THEOREM HitsAreOfOwnOrBeside == SSpec => []HitsAreOfPath
<1>1. SInit => DirectoryInv
  <2>1. ~NoSearch.opened
    BY DEF NoSearch, NewSearch
  <2>2. SInit => \A c \in Clients : spc[c] = "no" /\ sloc[c] = NoSearch
    BY DEF SInit
  <2>3. QED
    BY <2>1, <2>2 DEF DirectoryInv, Searching
<1>2. STypeOK /\ DirectoryInv /\ [SNext]_allvars => DirectoryInv'
  BY NextDirectory
<1>3. DirectoryInv => HitsAreOfPath
  BY DEF DirectoryInv, HitsAreOfPath
<1>4. QED
  BY <1>1, <1>2, <1>3, SearchTypeCorrect, PTL DEF SSpec

-----------------------------------------------------------------------------
(* One page: what a complete index is worth.                               *)

\* A request that has decided to index, and an index thread until its last count, are seen
\* in the state; counts are read from disk only while no thread runs.
BusyInv ==
  /\ \A w \in Workers :
       wpc[w] \notin {"dead", "exiting"} => indexState \in {"filetree", "indexing"}
  /\ \A c \in Clients :
       /\ pc[c] \in {"spawn", "start"} => indexState \in {"filetree", "indexing"}
       /\ pc[c] \in {"open", "publish"} => \A w \in Workers : wpc[w] = "dead"

\* A search is at its own steps or in index().
PlaceInv ==
  \A c \in Clients : spc[c] \in {"assign", "read", "collect"} => pc[c] = "idle"

\* A request that will start an index thread for p, unless an interrupt or another thread
\* comes before it: in index(), or on the way to it.
InIndex(c, p) ==
  /\ req[c].path = p
  /\ \/ pc[c] \in {"enter", "mkdir"} /\ req[c].force
     \/ pc[c] = "alive" /\ Required(c)
     \/ pc[c] = "classify" /\ Required(c) /\ ~req[c].ongoing
     \/ pc[c] \in {"reset", "spawn"}

Pending(c, p) ==
  \/ spc[c] = "assign" /\ sloc[c].created /\ sloc[c].path = p
  \/ InIndex(c, p)

\* An index thread that will commit every file of p, or fail.
Works(w, p) ==
  /\ wk[w].path = p
  /\ \/ wpc[w] \in {"created", "openwriter", "listing", "tree", "loop", "add"}
     \/ wpc[w] = "commit" /\ wk[w].done = wk[w].files

Accounted(p) ==
  \/ disk[p].whole \/ error
  \/ \E c \in Clients : Pending(c, p)
  \/ \E w \in Workers : Works(w, p)

Indexes(c) == pc[c] \notin {"idle", "enter", "mkdir", "poll"}

\* A cache directory that is there means an index that is whole, that failed, or that
\* is still to come; and each place where this is relied on has its directory.
WholeInv ==
  /\ interrupted => doubt = Paths
  /\ \A p \in Paths \ doubt : cacheDir[p] => Accounted(p)
  /\ \A c \in Clients :
       /\ Indexes(c) => cacheDir[req[c].path] \/ req[c].path \in doubt
       /\ spc[c] = "assign" => cacheDir[sloc[c].path] \/ sloc[c].path \in doubt
  /\ \A w \in Workers :
       /\ wpc[w] = "commit" => wk[w].done = wk[w].files \/ doubt = Paths
       /\ wpc[w] \in {"finish", "exiting"} =>
            disk[wk[w].path].whole \/ error \/ wk[w].path \in doubt

SureInv == SingleInv /\ BusyInv /\ PlaceInv /\ WholeInv

LEMMA InitSure == SInit => SureInv
BY DEF SInit, Init, ColdStatics, SureInv, SingleInv, Deciding, BusyInv, PlaceInv, WholeInv, Indexes

\* What the steps of a search are to an index.
LEMMA SearchStepSingle ==
  ASSUME \A c, d \in Clients : c = d,
         STypeOK, SureInv, NEW c \in Clients,
         SearchStep(c) \/ \E p \in Paths : Search(c, p)
  PROVE  SingleInv' /\ BusyInv' /\ PlaceInv'
<1> USE DEF SureInv, STypeOK, TypeOK
<1>1. UNCHANGED <<indexState, indexThread, wpc>>
  BY DEF SearchStep, Search, AssignDirectory, IndexReturns, OpenSearcher, OpenSearcherThrows, Collect,
         CollectThrows, statics, threads, vars
<1>2. \/ pc' = pc /\ req' = req
      \/ pc[c] \in {"idle", "poll"} /\ pc' = [pc EXCEPT ![c] = "enter"]
      \/ pc[c] \in {"idle", "poll"} /\ pc' = [pc EXCEPT ![c] = "idle"]
  <2>1. CASE AssignDirectory(c)
    <3>1. pc[c] = "idle"
      BY <2>1 DEF AssignDirectory, PlaceInv
    <3>2. QED
      BY <2>1, <3>1 DEF AssignDirectory, CallIndex, requests
  <2>2. CASE ~AssignDirectory(c)
    BY <2>2 DEF SearchStep, Search, IndexReturns, OpenSearcher, OpenSearcherThrows, Collect, CollectThrows,
       requests, vars
  <2>3. QED
    BY <2>1, <2>2
<1>3. \A d \in Clients : d = c
  OBVIOUS
<1>4. SingleInv' /\ BusyInv'
  BY <1>1, <1>2, <1>3 DEF SingleInv, Deciding, BusyInv
<1>5. PlaceInv'
  <2>1. CASE \E p \in Paths : Search(c, p)
    BY <1>3, <2>1 DEF Search, Quiet, PlaceInv, requests
  <2>2. CASE AssignDirectory(c)
    BY <1>3, <2>2 DEF AssignDirectory, PlaceInv, CallIndex, requests
  <2>3. CASE IndexReturns(c)
    BY <1>3, <2>3 DEF IndexReturns, PlaceInv
  <2>4. CASE OpenSearcher(c) \/ OpenSearcherThrows(c) \/ Collect(c) \/ CollectThrows(c)
    BY <1>3, <2>4 DEF OpenSearcher, OpenSearcherThrows, Collect, CollectThrows, Ends, PlaceInv, vars, requests
  <2>5. QED
    BY <2>1, <2>2, <2>3, <2>4 DEF SearchStep
<1>6. QED
  BY <1>4, <1>5

\* A step of the indexing service keeps what BusyInv says, whoever is the request for.
LEMMA RequestBusy ==
  ASSUME \A c, d \in Clients : c = d,
         TypeOK, SingleInv, BusyInv, NEW c \in Clients, RequestStep(c)
  PROVE  BusyInv'
<1> USE DEF TypeOK, SingleInv, Deciding, BusyInv, Goto, statics, progress, requests, threads, volume
<1>1. \A d \in Clients : d = c
  OBVIOUS
<1>2. CASE AnswerInterrupted(c) \/ PassInterrupt(c) \/ FolderError(c)
           \/ StartThrows(c) \/ OpenReaderThrows(c)
  BY <1>1, <1>2 DEF AnswerInterrupted, PassInterrupt, FolderError, StartThrows, OpenReaderThrows
<1>3. CASE MakeCacheDir(c) \/ CheckAlive(c) \/ OpenReader(c) \/ Respond(c)
  BY <1>1, <1>3 DEF MakeCacheDir, CheckAlive, OpenReader, Respond
<1>4. CASE PublishCounts(c)
  BY <1>1, <1>4 DEF PublishCounts
<1>5. CASE Classify(c)
  BY <1>1, <1>5 DEF Classify
<1>6. CASE ResetProgress(c)
  BY <1>1, <1>6 DEF ResetProgress
<1>7. CASE \E w \in Workers : Spawn(c, w)
  BY <1>1, <1>7 DEF Spawn
<1>8. CASE Start(c)
  BY <1>1, <1>8 DEF Start
<1>9. QED
  BY <1>2, <1>3, <1>4, <1>5, <1>6, <1>7, <1>8 DEF RequestStep

LEMMA WorkerBusy ==
  ASSUME TypeOK, SingleInv, BusyInv, NEW w \in Workers, WorkerStep(w)
  PROVE  BusyInv'
<1> USE DEF TypeOK, BusyInv, Step, statics, progress, requests
<1>1. UNCHANGED pc /\ (\A v \in Workers : v # w => wpc'[v] = wpc[v] /\ wpc[v] = "dead")
  BY DEF SingleInv, WorkerStep, OpenWriter, OpenWriterThrows, EmptyIndexThrows, BeginFileTree, BeginIndexing,
         LeaveLoop, EnterLoop, AddDocument, CommitAndClose, IndexingThrows, Finish, ThreadEnds
<1>2. wpc[w] \in Alive
  BY DEF WorkerStep, OpenWriter, OpenWriterThrows, EmptyIndexThrows, BeginFileTree, BeginIndexing,
         LeaveLoop, EnterLoop, AddDocument, CommitAndClose, IndexingThrows, Finish, ThreadEnds, Alive, WorkerPCs
<1>3. \A c \in Clients : pc[c] \notin {"open", "publish"} /\ pc[c] # "start" /\ pc[c] # "spawn"
  BY <1>2 DEF SingleInv, Deciding, Alive
<1>4. \/ wpc'[w] \in {"dead", "exiting"}
      \/ indexState' \in {"filetree", "indexing"}
      \/ wpc[w] # "exiting" /\ indexState' = indexState
  BY DEF WorkerStep, OpenWriter, OpenWriterThrows, EmptyIndexThrows, BeginFileTree, BeginIndexing,
         LeaveLoop, EnterLoop, AddDocument, CommitAndClose, IndexingThrows, Finish, ThreadEnds
<1>5. QED
  BY <1>1, <1>2, <1>3, <1>4 DEF Alive

\* A path that is accounted for stays so if the index and the threads are left alone
\* and whoever was to index it still is.
LEMMA StaysAccounted ==
  ASSUME NEW p \in Paths, Accounted(p), UNCHANGED <<disk, wpc, wk>>, error => error',
         \A c \in Clients : Pending(c, p) => Pending(c, p)'
  PROVE  Accounted(p)'
<1>1. (\E c \in Clients : Pending(c, p)) => (\E c \in Clients : Pending(c, p)')
  OBVIOUS
<1>2. (\E w \in Workers : Works(w, p)) => (\E w \in Workers : Works(w, p)')
  BY DEF Works
<1>3. QED
  BY <1>1, <1>2 DEF Accounted

\* A search that makes a directory indexes it; it makes no other.
LEMMA SearchWhole ==
  ASSUME \A c, d \in Clients : c = d,
         STypeOK, SureInv, NEW c \in Clients, NEW p \in Paths, Search(c, p)
  PROVE  WholeInv'
<1> USE DEF SureInv, STypeOK, TypeOK
<1>1. \A d \in Clients : d = c
  OBVIOUS
<1>2. /\ UNCHANGED <<statics, requests, threads, disk, lock, directory>>
      /\ UNCHANGED <<interrupted, error, pc, req, wpc, wk, disk>>
      /\ spc[c] = "no" /\ pc[c] = "idle" /\ spc'[c] = "assign" /\ doubt \subseteq doubt'
  BY DEF Search, Quiet, statics, progress, requests, threads
<1>3. sloc'[c].path = p /\ (cacheDir'[p] \/ p \in doubt')
  <2>1. \A f : NewSearch(p, f).path = p
    BY DEF NewSearch
  <2>2. \E f : sloc' = [sloc EXCEPT ![c] = NewSearch(p, f)]
    BY DEF Search
  <2>3. cacheDir'[p] \/ p \in doubt'
    BY DEF Search
  <2>4. QED
    BY <2>1, <2>2, <2>3
<1>4. \A q \in Paths : cacheDir'[q] => cacheDir[q] \/ (q = p /\ sloc'[c].created)
  <2>1. \A f : NewSearch(p, f).created = f
    BY DEF NewSearch
  <2>2. CASE cacheDir' = cacheDir
    BY <2>2
  <2>3. CASE /\ sloc' = [sloc EXCEPT ![c] = NewSearch(p, ~cacheDir[p])]
             /\ cacheDir' = [cacheDir EXCEPT ![p] = TRUE]
    <3>1. sloc'[c].created = ~cacheDir[p]
      BY <2>1, <2>3
    <3>2. \A q \in Paths : q # p => cacheDir'[q] = cacheDir[q]
      BY <2>3
    <3>3. QED
      BY <3>1, <3>2
  <2>4. QED
    BY <2>2, <2>3 DEF Search
<1>5. \A q \in Paths : cacheDir[q] => cacheDir'[q]
  BY DEF Search
<1>6. \A q \in Paths : ~Pending(c, q)
  BY <1>2 DEF Pending, InIndex
<1>7. ASSUME NEW q \in Paths \ doubt', cacheDir'[q]
      PROVE  Accounted(q)'
  <2>1. CASE q = p /\ sloc'[c].created
    <3>1. Pending(c, q)'
      BY <1>2, <1>3, <2>1 DEF Pending, InIndex
    <3>2. QED
      BY <3>1 DEF Accounted
  <2>2. CASE cacheDir[q]
    <3>1. Accounted(q)
      BY <1>2, <1>7, <2>2 DEF WholeInv
    <3>2. QED
      BY <1>1, <1>2, <1>6, <3>1, StaysAccounted
  <2>3. QED
    BY <1>4, <1>7, <2>1, <2>2
<1>8. interrupted' => doubt' = Paths
  <2>1. doubt' \subseteq Paths
    BY <1>1 DEF Search, Together
  <2>2. QED
    BY <1>2, <2>1 DEF WholeInv
<1>9. ~Indexes(c)'
  BY <1>2 DEF Indexes
<1>10. \A w \in Workers :
         /\ wpc'[w] = "commit" => wk'[w].done = wk'[w].files \/ doubt' = Paths
         /\ wpc'[w] \in {"finish", "exiting"} =>
              disk'[wk'[w].path].whole \/ error' \/ wk'[w].path \in doubt'
  <2>1. doubt' \subseteq Paths
    BY <1>1 DEF Search, Together
  <2>2. QED
    BY <1>2, <2>1 DEF WholeInv
<1>11. QED
  BY <1>1, <1>3, <1>7, <1>8, <1>9, <1>10 DEF WholeInv

\* Opening the directory makes none that was not there or is to be indexed.
LEMMA AssignWhole ==
  ASSUME \A c, d \in Clients : c = d,
         STypeOK, SureInv, NEW c \in Clients, AssignDirectory(c)
  PROVE  WholeInv'
<1> USE DEF SureInv, STypeOK, TypeOK
<1>0. PICK p \in Paths : p = sloc[c].path
  BY DEF Locals
<1>1. \A d \in Clients : d = c
  OBVIOUS
<1>2. /\ UNCHANGED <<interrupted, error, wpc, wk, disk, doubt>>
      /\ spc[c] = "assign" /\ pc[c] = "idle" /\ spc'[c] # "assign"
  BY DEF AssignDirectory, statics, progress, threads, PlaceInv, Locals
<1>3. cacheDir[p] \/ p \in doubt
  BY <1>0, <1>2 DEF WholeInv
<1>4. \A q \in Paths \ doubt : cacheDir'[q] => cacheDir[q]
  BY <1>0, <1>2, <1>3 DEF AssignDirectory
<1>5. \A q \in Paths : Pending(c, q) => sloc[c].created /\ q = p
  BY <1>0, <1>2 DEF Pending, InIndex
<1>6. sloc[c].created => Pending(c, p)'
  <2>1. sloc[c].created => pc'[c] = "enter" /\ req'[c] = NewRequest(p, TRUE)
    BY <1>0 DEF AssignDirectory, CallIndex
  <2>2. QED
    BY <1>2, <2>1 DEF Pending, InIndex, NewRequest
<1>7. ASSUME NEW q \in Paths \ doubt', cacheDir'[q]
      PROVE  Accounted(q)'
  <2>1. Accounted(q)
    BY <1>2, <1>4, <1>7 DEF WholeInv
  <2>2. Pending(c, q) => Pending(c, q)'
    BY <1>5, <1>6
  <2>3. QED
    BY <1>1, <1>2, <2>1, <2>2, StaysAccounted
<1>8. ~Indexes(c)'
  BY <1>2 DEF AssignDirectory, CallIndex, requests, Indexes
<1>9. QED
  BY <1>1, <1>2, <1>7, <1>8 DEF WholeInv

\* Nor does any other step of a search.
LEMMA ReadWhole ==
  ASSUME \A c, d \in Clients : c = d,
         STypeOK, SureInv, NEW c \in Clients,
         IndexReturns(c) \/ OpenSearcher(c) \/ OpenSearcherThrows(c) \/ Collect(c) \/ CollectThrows(c)
  PROVE  WholeInv'
<1> USE DEF SureInv, STypeOK, TypeOK
<1>1. \A d \in Clients : d = c
  OBVIOUS
<1>2. /\ UNCHANGED <<interrupted, error, wpc, wk, disk, cacheDir, doubt, req>>
      /\ spc[c] # "assign" /\ spc'[c] # "assign"
      /\ pc'[c] \in {pc[c], "idle"} /\ (pc'[c] # pc[c] => pc[c] = "poll")
  BY DEF IndexReturns, OpenSearcher, OpenSearcherThrows, Collect, CollectThrows, Ends,
         vars, statics, progress, requests, threads, volume
<1>3. \A q \in Paths : Pending(c, q) => Pending(c, q)'
  BY <1>2 DEF Pending, InIndex, Required
<1>4. \A q \in Paths \ doubt' : cacheDir'[q] => Accounted(q)'
  BY <1>1, <1>2, <1>3, StaysAccounted DEF WholeInv
<1>5. Indexes(c)' => Indexes(c)
  BY <1>2 DEF Indexes
<1>6. QED
  BY <1>1, <1>2, <1>4, <1>5 DEF WholeInv

\* An index thread that comes to its end has indexed its path, or failed.
LEMMA WorkerWhole ==
  ASSUME STypeOK, SureInv, NEW w \in Workers, WorkerStep(w), UNCHANGED svars
  PROVE  WholeInv'
<1> USE DEF SureInv, STypeOK, TypeOK, Step
<1>0. wk[w] \in Worker /\ wpc[w] \in WorkerPCs
  OBVIOUS
<1>1. PICK p \in Paths : p = wk[w].path
  BY <1>0 DEF Worker
<1>2. /\ UNCHANGED <<interrupted, pc, req, spc, sloc, doubt>>
      /\ (error => error')
      /\ \A v \in Workers : v # w => wpc'[v] = wpc[v] /\ wk'[v] = wk[v] /\ wpc[v] = "dead"
  BY DEF SingleInv, WorkerStep, OpenWriter, OpenWriterThrows, EmptyIndexThrows, BeginFileTree, BeginIndexing,
         LeaveLoop, EnterLoop, AddDocument, CommitAndClose, IndexingThrows, Finish, ThreadEnds,
         svars, statics, progress, requests, threads
<1>3. /\ \A q \in Paths : q # p => disk'[q] = disk[q] /\ cacheDir'[q] = cacheDir[q]
      /\ cacheDir[p] => cacheDir'[p]
  BY <1>1 DEF WorkerStep, OpenWriter, OpenWriterThrows, EmptyIndexThrows, BeginFileTree, BeginIndexing,
         LeaveLoop, EnterLoop, AddDocument, CommitAndClose, IndexingThrows, Finish, ThreadEnds, volume
<1>4. \A c \in Clients, q \in Paths : Pending(c, q) <=> Pending(c, q)'
  BY <1>2 DEF Pending, InIndex, Required
<1>5. ASSUME NEW q \in Paths, q # p, Accounted(q)
      PROVE  Accounted(q)'
  <2>1. \A v \in Workers : ~Works(v, q)
    BY <1>1, <1>2, <1>5 DEF Works
  <2>2. QED
    BY <1>2, <1>3, <1>4, <1>5, <2>1 DEF Accounted
<1>6. \/ disk'[p].whole \/ error' \/ Works(w, p)'
      \/ p \in doubt
      \/ UNCHANGED <<disk, cacheDir>> /\ (wpc'[w] = "dead" \/ wpc[w] = "finish")
  <2>1. CASE OpenWriter(w)
    <3>1. wpc'[w] = "listing" /\ wk'[w].path = p
      BY <1>0, <1>1, <2>1 DEF OpenWriter, Worker
    <3>2. QED
      BY <3>1 DEF Works
  <2>2. CASE OpenWriterThrows(w) \/ EmptyIndexThrows(w) \/ IndexingThrows(w)
    BY <2>2 DEF OpenWriterThrows, EmptyIndexThrows, IndexingThrows
  <2>3. CASE BeginFileTree(w) \/ \E n \in 0..MaxDocs : BeginIndexing(w, n)
    <3>1. wpc'[w] \in {"tree", "loop"} /\ wk'[w].path = p
      BY <1>0, <1>1, <2>3 DEF BeginFileTree, BeginIndexing, Worker
    <3>2. QED
      BY <3>1 DEF Works
  <2>4. CASE LeaveLoop(w)
    <3>1. wpc'[w] = "commit" /\ wk' = wk /\ (wk[w].done = wk[w].files \/ interrupted)
      BY <2>4 DEF LeaveLoop
    <3>2. CASE wk[w].done = wk[w].files
      BY <1>1, <3>1, <3>2 DEF Works
    <3>3. CASE interrupted
      <4>1. doubt = Paths
        BY <3>3 DEF WholeInv
      <4>2. p \in doubt
        BY <1>1, <4>1
      <4>3. QED
        BY <4>2
    <3>4. QED
      BY <3>1, <3>2, <3>3
  <2>5. CASE EnterLoop(w) \/ AddDocument(w)
    <3>1. wpc'[w] \in {"add", "loop"} /\ wk'[w].path = p
      BY <1>0, <1>1, <2>5 DEF EnterLoop, AddDocument, Worker
    <3>2. QED
      BY <3>1 DEF Works
  <2>6. CASE CommitAndClose(w)
    <3>1. wk[w].done = wk[w].files \/ doubt = Paths
      BY <2>6 DEF CommitAndClose, WholeInv
    <3>2. wk[w].done = wk[w].files => disk'[p].whole
      BY <1>1, <2>6 DEF CommitAndClose
    <3>3. doubt = Paths => p \in doubt
      BY <1>1
    <3>4. QED
      BY <3>1, <3>2, <3>3
  <2>7. CASE Finish(w)
    BY <2>7 DEF Finish, volume
  <2>8. CASE ThreadEnds(w)
    BY <2>8 DEF ThreadEnds, volume
  <2>9. QED
    BY <2>1, <2>2, <2>3, <2>4, <2>5, <2>6, <2>7, <2>8 DEF WorkerStep
<1>7. wpc[w] \in {"finish", "exiting"} => disk[p].whole \/ error \/ p \in doubt
  BY <1>1 DEF WholeInv
<1>8. wpc'[w] = "dead" => wpc[w] = "exiting"
  BY DEF WorkerStep, OpenWriter, OpenWriterThrows, EmptyIndexThrows, BeginFileTree, BeginIndexing,
         LeaveLoop, EnterLoop, AddDocument, CommitAndClose, IndexingThrows, Finish, ThreadEnds
<1>9. disk'[p].whole \/ error' \/ Works(w, p)' \/ p \in doubt
  BY <1>2, <1>6, <1>7, <1>8
<1>10. \A q \in Paths \ doubt' : cacheDir'[q] => Accounted(q)'
  <2>1. ASSUME NEW q \in Paths \ doubt', cacheDir'[q]
        PROVE  Accounted(q)'
    <3>1. CASE q = p
      BY <1>2, <1>9, <2>1, <3>1 DEF Accounted
    <3>2. CASE q # p
      BY <1>2, <1>3, <1>5, <2>1, <3>2 DEF WholeInv
    <3>3. QED
      BY <3>1, <3>2
  <2>2. QED
    BY <2>1
<1>11. \A q \in Paths : cacheDir[q] => cacheDir'[q]
  BY <1>1, <1>3
<1>12. \A c \in Clients :
         /\ Indexes(c)' => cacheDir'[req'[c].path] \/ req'[c].path \in doubt'
         /\ spc'[c] = "assign" => cacheDir'[sloc'[c].path] \/ sloc'[c].path \in doubt'
  <2>1. \A c \in Clients : req[c].path \in Paths /\ sloc[c].path \in Paths
    BY DEF Request, Locals
  <2>2. QED
    BY <1>2, <1>11, <2>1 DEF WholeInv, Indexes
<1>13. /\ wpc'[w] = "commit" => wk'[w].done = wk'[w].files \/ doubt' = Paths
       /\ wpc'[w] \in {"finish", "exiting"} =>
            disk'[wk'[w].path].whole \/ error' \/ wk'[w].path \in doubt'
  <2>1. wpc'[w] = "commit" => LeaveLoop(w)
    BY DEF WorkerStep, OpenWriter, OpenWriterThrows, EmptyIndexThrows, BeginFileTree, BeginIndexing,
           LeaveLoop, EnterLoop, AddDocument, CommitAndClose, IndexingThrows, Finish, ThreadEnds
  <2>2. LeaveLoop(w) => wk' = wk /\ (wk[w].done = wk[w].files \/ interrupted)
    BY DEF LeaveLoop
  <2>3. wpc'[w] \in {"finish", "exiting"} => wk'[w].path = p /\ ~Works(w, p)'
    BY <1>0, <1>1 DEF WorkerStep, OpenWriter, OpenWriterThrows, EmptyIndexThrows, BeginFileTree, BeginIndexing,
           LeaveLoop, EnterLoop, AddDocument, CommitAndClose, IndexingThrows, Finish, ThreadEnds, Works, Worker
  <2>4. QED
    BY <1>2, <1>9, <2>1, <2>2, <2>3 DEF WholeInv
<1>14. QED
  BY <1>2, <1>10, <1>12, <1>13 DEF WholeInv

\* Of a path in doubt nothing is claimed.
LEMMA AllDoubted ==
  ASSUME STypeOK', doubt' = Paths
  PROVE  WholeInv'
<1>1. /\ \A c \in Clients : req'[c].path \in Paths /\ sloc'[c].path \in Paths
      /\ \A w \in Workers : wk'[w].path \in Paths
  BY DEF STypeOK, TypeOK, Request, Locals, Worker
<1>2. QED
  BY <1>1 DEF WholeInv

\* What a step of a request that leaves the threads alone has to show.
LEMMA RequestRest ==
  ASSUME \A c, d \in Clients : c = d,
         STypeOK, SureInv, NEW c \in Clients, pc[c] # "idle",
         doubt \subseteq doubt', doubt' \subseteq Paths,
         UNCHANGED <<interrupted, wpc, wk, disk>>,
         (spc'[c] = spc[c] /\ sloc'[c] = sloc[c]) \/ spc'[c] = "no",
         \A q \in Paths \ doubt' : cacheDir'[q] => Accounted(q)',
         \A q \in Paths : cacheDir[q] => cacheDir'[q],
         Indexes(c)' => cacheDir'[req'[c].path] \/ req'[c].path \in doubt',
         error => error' \/ \A w \in Workers : wpc[w] = "dead"
  PROVE  WholeInv'
<1>1. interrupted' => doubt' = Paths
  BY DEF SureInv, WholeInv
<1>2. \A w \in Workers :
        /\ wpc'[w] = "commit" => wk'[w].done = wk'[w].files \/ doubt' = Paths
        /\ wpc'[w] \in {"finish", "exiting"} =>
             disk'[wk'[w].path].whole \/ error' \/ wk'[w].path \in doubt'
  BY DEF SureInv, WholeInv
<1>3. spc'[c] # "assign"
  BY DEF SureInv, PlaceInv
<1>4. QED
  BY <1>1, <1>2, <1>3 DEF WholeInv

\* A step of index() for the only page: at each place where a request stops to be
\* pending, its path is being indexed or in doubt.
LEMMA RequestWhole ==
  ASSUME \A c, d \in Clients : c = d,
         STypeOK, STypeOK', SureInv, NEW c \in Clients, IndexStep(c)
  PROVE  WholeInv'
<1> USE DEF STypeOK, TypeOK, Goto, statics, progress, requests, threads, volume
<1>1. \A d \in Clients : d = c
  OBVIOUS
<1>2. PICK p \in Paths : p = req[c].path
  BY DEF Request
<1>3. pc[c] # "idle" /\ RequestStep(c) /\ req[c] \in Request
  BY DEF IndexStep, RequestStep, AnswerInterrupted, PassInterrupt, MakeCacheDir, FolderError, CheckAlive,
         Classify, ResetProgress, Spawn, Start, StartThrows, OpenReader, OpenReaderThrows, PublishCounts, Respond
<1>4. /\ doubt' = doubt \cup Slighted(c) /\ doubt' \subseteq Paths /\ doubt \subseteq doubt'
      /\ (spc'[c] = spc[c] /\ sloc'[c] = sloc[c]) \/ spc'[c] = "no"
  BY DEF IndexStep, Ends
<1>5. spc[c] # "assign" /\ spc'[c] # "assign"
  BY <1>3, <1>4 DEF SureInv, PlaceInv
<1>6. \A q \in Paths : (Pending(c, q) <=> InIndex(c, q)) /\ (Pending(c, q)' <=> InIndex(c, q)')
  BY <1>5 DEF Pending
<1>7. \A q \in Paths \ doubt' : cacheDir[q] => Accounted(q)
  BY <1>4 DEF SureInv, WholeInv
<1>8. Indexes(c) => cacheDir[p] \/ p \in doubt'
  BY <1>2, <1>4 DEF SureInv, WholeInv
<1>9. CASE interrupted
  <2>1. doubt' = Paths
    BY <1>4, <1>9 DEF SureInv, WholeInv
  <2>2. QED
    BY <2>1, AllDoubted
<1>10. CASE PassInterrupt(c)
  <2>1. /\ UNCHANGED <<interrupted, wpc, wk, disk, error, cacheDir, req>>
        /\ pc[c] = "enter" /\ pc'[c] = "mkdir"
    BY <1>10 DEF PassInterrupt
  <2>2. \A q \in Paths : Pending(c, q) => Pending(c, q)'
    BY <1>6, <2>1 DEF InIndex
  <2>3. \A q \in Paths \ doubt' : cacheDir'[q] => Accounted(q)'
    BY <1>1, <1>7, <2>1, <2>2, StaysAccounted
  <2>4. QED
    BY <1>3, <1>4, <2>1, <2>3, RequestRest DEF Indexes
<1>11. CASE MakeCacheDir(c)
  <2>1. /\ UNCHANGED <<interrupted, wpc, wk, disk, error>>
        /\ pc[c] = "mkdir" /\ pc'[c] = "alive"
        /\ cacheDir'[p] /\ \A q \in Paths : q # p => cacheDir'[q] = cacheDir[q]
        /\ req'[c].path = p /\ req'[c].force = req[c].force
        /\ req'[c].created = ~cacheDir[p]
    BY <1>2, <1>3, <1>11 DEF MakeCacheDir, Request
  <2>2. \A q \in Paths : Pending(c, q) => Pending(c, q)'
    BY <1>2, <1>6, <2>1 DEF InIndex, Required
  <2>3. ASSUME NEW q \in Paths \ doubt', cacheDir'[q] PROVE Accounted(q)'
    <3>1. CASE cacheDir[q]
      BY <1>1, <1>7, <2>1, <2>2, <2>3, <3>1, StaysAccounted
    <3>2. CASE ~cacheDir[q]
      <4>1. q = p
        BY <2>1, <2>3, <3>2
      <4>2. Pending(c, q)'
        BY <1>6, <2>1, <3>2, <4>1 DEF InIndex, Required
      <4>3. QED
        BY <4>2 DEF Accounted
    <3>3. QED
      BY <3>1, <3>2
  <2>4. \A q \in Paths : cacheDir[q] => cacheDir'[q]
    BY <2>1
  <2>5. QED
    BY <1>3, <1>4, <2>1, <2>3, <2>4, RequestRest
<1>12. CASE FolderError(c)
  <2>1. /\ UNCHANGED <<interrupted, wpc, wk, disk, error, cacheDir, req>>
        /\ pc[c] = "mkdir" /\ pc'[c] = "idle" /\ ~cacheDir[p]
    BY <1>2, <1>12 DEF FolderError
  <2>2. ASSUME NEW q \in Paths \ doubt', cacheDir'[q] PROVE Accounted(q)'
    <3>1. ~Pending(c, q)
      BY <1>2, <1>6, <2>1, <2>2 DEF InIndex
    <3>2. QED
      BY <1>1, <1>7, <2>1, <2>2, <3>1, StaysAccounted
  <2>3. QED
    BY <1>3, <1>4, <2>1, <2>2, RequestRest DEF Indexes
<1>13. CASE CheckAlive(c)
  <2>1. /\ UNCHANGED <<interrupted, wpc, wk, disk, error, cacheDir>>
        /\ pc[c] = "alive" /\ pc'[c] = "classify"
        /\ req'[c].path = p /\ req'[c].force = req[c].force /\ req'[c].created = req[c].created
    BY <1>2, <1>3, <1>13 DEF CheckAlive, Request
  <2>2. ASSUME NEW q \in Paths \ doubt', cacheDir'[q] PROVE Accounted(q)'
    <3>1. CASE Pending(c, q) /\ indexThread \in Workers /\ wpc[indexThread] \in Alive
      <4>1. PICK w \in Workers : w = indexThread
        BY <3>1
      <4>2. q = p
        BY <1>2, <1>6, <3>1 DEF InIndex
      <4>3. wk[w].path = p
        BY <1>2, <1>4, <2>1, <2>2, <3>1, <4>1, <4>2 DEF Slighted
      <4>4. wk[w] \in Worker /\ wpc[w] \in Alive
        BY <3>1, <4>1
      <4>5. Works(w, p) \/ disk[p].whole \/ error
        <5>1. p \notin doubt /\ doubt # Paths
          BY <1>4, <2>2, <4>2
        <5>2. CASE wpc[w] = "commit"
          BY <4>3, <5>1, <5>2 DEF SureInv, WholeInv, Works
        <5>3. CASE wpc[w] \in {"finish", "exiting"}
          BY <4>3, <5>1, <5>3 DEF SureInv, WholeInv
        <5>4. CASE wpc[w] \notin {"commit", "finish", "exiting"}
          BY <4>3, <4>4, <5>4 DEF Works, Alive, WorkerPCs
        <5>5. QED
          BY <5>2, <5>3, <5>4
      <4>6. Works(w, p) => Works(w, p)'
        BY <2>1 DEF Works
      <4>7. QED
        BY <2>1, <4>2, <4>5, <4>6 DEF Accounted
    <3>2. CASE ~(indexThread \in Workers /\ wpc[indexThread] \in Alive)
      <4>1. ~req'[c].ongoing
        BY <1>3, <1>13, <3>2 DEF CheckAlive, Request
      <4>2. Pending(c, q) => Pending(c, q)'
        BY <1>2, <1>6, <2>1, <4>1 DEF InIndex, Required
      <4>3. QED
        BY <1>1, <1>7, <2>1, <2>2, <4>2, StaysAccounted
    <3>3. CASE ~Pending(c, q)
      BY <1>1, <1>7, <2>1, <2>2, <3>3, StaysAccounted
    <3>4. QED
      BY <3>1, <3>2, <3>3
  <2>3. QED
    BY <1>3, <1>4, <1>8, <2>1, <2>2, RequestRest DEF Indexes
<1>14. CASE Classify(c)
  <2>1. /\ UNCHANGED <<interrupted, wpc, wk, disk, error, cacheDir>>
        /\ pc[c] = "classify" /\ req'[c].path = p
        /\ pc'[c] = IF req[c].ongoing THEN "respond" ELSE IF Required(c) THEN "reset" ELSE "open"
    BY <1>2, <1>14 DEF Classify, NewRequest
  <2>2. \A q \in Paths : Pending(c, q) => Pending(c, q)'
    BY <1>2, <1>6, <2>1 DEF InIndex
  <2>3. \A q \in Paths \ doubt' : cacheDir'[q] => Accounted(q)'
    BY <1>1, <1>7, <2>1, <2>2, StaysAccounted
  <2>4. QED
    BY <1>3, <1>4, <1>8, <2>1, <2>3, RequestRest DEF Indexes
<1>15. CASE ResetProgress(c)
  <2>1. /\ UNCHANGED <<interrupted, wpc, wk, disk, cacheDir, req>>
        /\ pc[c] = "reset" /\ pc'[c] = "spawn"
    BY <1>15 DEF ResetProgress
  <2>2. \A w \in Workers : wpc[w] = "dead"
    BY <2>1 DEF SureInv, SingleInv, Deciding
  <2>3. ASSUME NEW q \in Paths \ doubt', cacheDir'[q] PROVE Accounted(q)'
    <3>1. CASE q = p
      <4>1. Pending(c, q)'
        BY <1>2, <1>6, <2>1, <3>1 DEF InIndex
      <4>2. QED
        BY <4>1 DEF Accounted
    <3>2. CASE q # p
      <4>1. ~error
        BY <1>2, <1>4, <2>1, <2>3, <3>2 DEF Slighted
      <4>2. ~Pending(c, q)
        BY <1>2, <1>6, <3>2 DEF InIndex
      <4>3. QED
        BY <1>1, <1>7, <2>1, <2>3, <4>1, <4>2, StaysAccounted
    <3>3. QED
      BY <3>1, <3>2
  <2>4. QED
    BY <1>2, <1>3, <1>4, <1>8, <2>1, <2>2, <2>3, RequestRest DEF Indexes
<1>16. CASE StartThrows(c) \/ OpenReader(c) \/ OpenReaderThrows(c) \/ PublishCounts(c) \/ Respond(c)
  <2>1. /\ UNCHANGED <<interrupted, wpc, wk, disk, error, cacheDir>>
        /\ pc[c] \in {"start", "open", "publish", "respond"} /\ req'[c].path = p
    BY <1>2, <1>3, <1>16 DEF StartThrows, OpenReader, OpenReaderThrows, PublishCounts, Respond, NewRequest, Request
  <2>2. \A q \in Paths : ~Pending(c, q)
    BY <1>6, <2>1 DEF InIndex
  <2>3. \A q \in Paths \ doubt' : cacheDir'[q] => Accounted(q)'
    BY <1>1, <1>7, <2>1, <2>2, StaysAccounted
  <2>4. QED
    BY <1>3, <1>4, <1>8, <2>1, <2>3, RequestRest DEF Indexes
<1>17. CASE (\E w \in Workers : Spawn(c, w)) \/ Start(c)
  <2>1. PICK w \in Workers : Spawn(c, w) \/ (Start(c) /\ w = indexThread)
    BY <1>17 DEF Start
  <2>2. /\ UNCHANGED <<interrupted, disk, error, cacheDir, req>> /\ pc[c] \in {"spawn", "start"}
        /\ \A v \in Workers : v # w => wpc'[v] = wpc[v] /\ wk'[v] = wk[v]
        /\ wpc'[w] \in {"created", "openwriter"}
    BY <2>1 DEF Spawn, Start
  <2>3. pc[c] = "spawn" => wk'[w].path = p /\ \A v \in Workers : wpc[v] = "dead"
    BY <1>2, <2>1 DEF Spawn, Start, NewWorker, SureInv, SingleInv, Deciding
  <2>4. pc[c] = "start" => wk' = wk /\ wpc[w] = "created"
    BY <2>1 DEF Spawn, Start
  <2>5. ASSUME NEW q \in Paths \ doubt', cacheDir'[q] PROVE Accounted(q)'
    <3>1. CASE disk[q].whole \/ error
      BY <2>2, <3>1 DEF Accounted
    <3>2. CASE Pending(c, q)
      <4>1. wk'[w].path = q
        BY <1>2, <1>6, <2>2, <2>3, <3>2 DEF InIndex
      <4>2. QED
        BY <2>2, <4>1 DEF Accounted, Works
    <3>3. ASSUME NEW v \in Workers, Works(v, q) PROVE Accounted(q)'
      <4>1. pc[c] = "start"
        BY <2>2, <2>3, <3>3 DEF Works
      <4>2. Works(v, q)'
        BY <2>2, <2>4, <3>3, <4>1 DEF Works
      <4>3. QED
        BY <4>2 DEF Accounted
    <3>4. QED
      BY <1>1, <1>7, <2>2, <2>5, <3>1, <3>2, <3>3 DEF Accounted
  <2>6. interrupted' => doubt' = Paths
    BY <1>4, <2>2 DEF SureInv, WholeInv
  <2>7. \A v \in Workers :
          /\ wpc'[v] = "commit" => wk'[v].done = wk'[v].files \/ doubt' = Paths
          /\ wpc'[v] \in {"finish", "exiting"} =>
               disk'[wk'[v].path].whole \/ error' \/ wk'[v].path \in doubt'
    <3> SUFFICES ASSUME NEW v \in Workers, wpc'[v] \in {"commit", "finish", "exiting"}
                 PROVE  /\ wpc'[v] = "commit" => wk'[v].done = wk'[v].files \/ doubt' = Paths
                        /\ wpc'[v] \in {"finish", "exiting"} =>
                             disk'[wk'[v].path].whole \/ error' \/ wk'[v].path \in doubt'
      OBVIOUS
    <3>1. wpc'[v] = wpc[v] /\ wk'[v] = wk[v]
      BY <2>2
    <3>2. QED
      BY <1>4, <2>2, <3>1 DEF SureInv, WholeInv
  <2>8. Indexes(c)' => cacheDir'[req'[c].path] \/ req'[c].path \in doubt'
    BY <1>2, <1>8, <2>2 DEF Indexes
  <2>9. QED
    BY <1>1, <1>5, <2>5, <2>6, <2>7, <2>8 DEF WholeInv
<1>18. CASE AnswerInterrupted(c)
  BY <1>9, <1>18 DEF AnswerInterrupted
<1>19. QED
  BY <1>3, <1>10, <1>11, <1>12, <1>13, <1>14, <1>15, <1>16, <1>17, <1>18 DEF RequestStep

LEMMA NextSure ==
  ASSUME \A c, d \in Clients : c = d,
         STypeOK, STypeOK', SureInv, [SNext]_allvars
  PROVE  SureInv'
<1> USE DEF SureInv
<1>1. ASSUME NEW c \in Clients, SearchStep(c) \/ \E p \in Paths : Search(c, p)
      PROVE  SureInv'
  BY <1>1, SearchStepSingle, SearchWhole, AssignWhole, ReadWhole DEF SearchStep
<1>2. ASSUME NEW c \in Clients, IndexStep(c)
      PROVE  SureInv'
  <2>1. RequestStep(c)
    BY <1>2 DEF IndexStep
  <2>2. SingleInv' /\ BusyInv'
    BY <2>1, RequestSingleInv, RequestBusy DEF STypeOK
  <2>3. pc[c] # "idle" /\ (spc'[c] = spc[c] \/ spc'[c] = "no")
    BY <1>2, <2>1 DEF IndexStep, Ends, STypeOK, Goto, RequestStep, AnswerInterrupted, PassInterrupt,
       MakeCacheDir, FolderError, CheckAlive, Classify, ResetProgress, Spawn, Start, StartThrows,
       OpenReader, OpenReaderThrows, PublishCounts, Respond
  <2>4. PlaceInv'
    BY <2>3 DEF PlaceInv
  <2>5. QED
    BY <1>2, <2>2, <2>4, RequestWhole
<1>3. ASSUME NEW w \in Workers, WorkerStep(w), UNCHANGED svars
      PROVE  SureInv'
  <2>1. SingleInv' /\ BusyInv'
    BY <1>3, WorkerSingleInv, WorkerBusy DEF STypeOK
  <2>2. UNCHANGED <<pc, spc>>
    BY <1>3 DEF svars, requests, WorkerStep, OpenWriter, OpenWriterThrows, EmptyIndexThrows, BeginFileTree,
       BeginIndexing, LeaveLoop, EnterLoop, AddDocument, CommitAndClose, IndexingThrows, Finish, ThreadEnds
  <2>3. QED
    BY <1>3, <2>1, <2>2, WorkerWhole DEF PlaceInv
\* Everything else leaves the threads alone or ends them all.
<1>4. ASSUME NEW c \in Clients,
             Poll(c) \/ (Quiet(c) /\ \E p \in Paths, f \in BOOLEAN : Ask(c, p, f)),
             spc[c] = "no", UNCHANGED <<spc, sloc, doubt>>
      PROVE  SureInv'
  <2>1. /\ UNCHANGED <<indexState, indexThread, interrupted, error, wpc, wk, disk, cacheDir>>
        /\ UNCHANGED <<spc, sloc, doubt>>
        /\ pc[c] \in {"idle", "poll"} /\ pc' = [pc EXCEPT ![c] = "enter"]
        /\ \A d \in Clients : d = c
    BY <1>4 DEF Poll, Ask, Goto, statics, progress, threads, volume
  <2>2. SingleInv' /\ BusyInv' /\ PlaceInv'
    BY <1>4, <2>1 DEF SingleInv, Deciding, BusyInv, PlaceInv, STypeOK, TypeOK
  <2>3. \A q \in Paths : ~Pending(c, q)
    BY <1>4, <2>1 DEF Pending, InIndex
  <2>4. \A q \in Paths \ doubt' : cacheDir'[q] => Accounted(q)'
    BY <2>1, <2>3, StaysAccounted DEF WholeInv
  <2>5. WholeInv'
    BY <1>4, <2>1, <2>4 DEF WholeInv, Indexes, STypeOK, TypeOK
  <2>6. QED
    BY <2>2, <2>5
<1>11. ASSUME NEW c \in Clients, NEW p \in Paths, NEW f \in BOOLEAN, SAsk(c, p, f)
       PROVE  SureInv'
  <2>1. Together(c) = {}
    BY DEF Together
  <2>2. Quiet(c) /\ spc[c] = "no" /\ Ask(c, p, f) /\ UNCHANGED <<spc, sloc, doubt>>
    BY <1>11, <2>1 DEF SAsk, Quiet
  <2>3. QED
    BY <1>4, <2>2
<1>12. ASSUME NEW c \in Clients, spc[c] = "no", Poll(c), UNCHANGED svars
       PROVE  SureInv'
  BY <1>4, <1>12 DEF svars
<1>5. ASSUME UNCHANGED <<pc, req, wpc, indexThread, indexState, spc>>
      PROVE  SingleInv' /\ BusyInv' /\ PlaceInv'
  BY <1>5 DEF SingleInv, Deciding, BusyInv, PlaceInv
<1>6. CASE SInterrupt
  <2>1. UNCHANGED <<pc, req, wpc, indexThread, indexState, spc>> /\ doubt' = Paths
    BY <1>6 DEF SInterrupt, Interrupt, requests, threads
  <2>2. QED
    BY <1>5, <2>1, AllDoubted
<1>7. ASSUME NEW p \in Paths, SChange(p)
      PROVE  SureInv'
  <2>1. /\ UNCHANGED <<pc, req, wpc, wk, interrupted, error, indexThread, indexState, spc, sloc>>
        /\ doubt' = doubt \cup {p}
        /\ \A q \in Paths : q # p => disk'[q] = disk[q] /\ cacheDir'[q] = cacheDir[q]
    BY <1>7 DEF SChange, NewIndex, DeleteIndex, requests, threads, statics, progress, STypeOK, TypeOK
  <2>2. \A q \in Paths, c \in Clients : Pending(c, q) <=> Pending(c, q)'
    BY <2>1 DEF Pending, InIndex, Required
  <2>3. \A q \in Paths, w \in Workers : Works(w, q) <=> Works(w, q)'
    BY <2>1 DEF Works
  <2>4. \A q \in Paths \ doubt' : cacheDir'[q] => Accounted(q)'
    BY <2>1, <2>2, <2>3 DEF WholeInv, Accounted
  <2>5. /\ \A c \in Clients : req[c].path \in Paths /\ sloc[c].path \in Paths
        /\ \A w \in Workers : wk[w].path \in Paths
    BY DEF STypeOK, TypeOK, Request, Locals, Worker
  <2>6. doubt = Paths => doubt' = Paths
    BY <2>1
  <2>7. WholeInv'
    BY <2>1, <2>4, <2>5, <2>6 DEF WholeInv, Indexes
  <2>8. QED
    BY <1>5, <2>1, <2>7
<1>8. CASE SDies
  <2>1. /\ pc' = [c \in Clients |-> "idle"] /\ wpc' = [w \in Workers |-> "dead"]
        /\ spc' = [c \in Clients |-> "no"] /\ doubt' = Paths
    BY <1>8 DEF SDies, Restart, FileTreeThrows, ProcessDies
  <2>2. SingleInv' /\ BusyInv' /\ PlaceInv'
    BY <2>1 DEF SingleInv, Deciding, BusyInv, PlaceInv
  <2>3. QED
    BY <2>1, <2>2, AllDoubted
<1>9. CASE UNCHANGED allvars
  <2>1. /\ UNCHANGED <<pc, req, wpc, wk, interrupted, error, indexThread, indexState, spc, sloc>>
        /\ UNCHANGED <<doubt, disk, cacheDir>>
    BY <1>9 DEF allvars, vars, svars, statics, progress, requests, threads, volume
  <2>2. WholeInv'
    BY <2>1 DEF WholeInv, Accounted, Pending, InIndex, Required, Works, Indexes
  <2>3. QED
    BY <1>5, <2>1, <2>2
<1>10. QED
  BY <1>1, <1>2, <1>3, <1>6, <1>7, <1>8, <1>9, <1>11, <1>12 DEF SNext

\* With one page, and unless indexing was interrupted, stopped, changed from outside or
\* passed over for another path: an index that is answered "complete" without an error
\* holds every file of its path, though index() only looks whether there is a cache
\* directory, and a search makes one before there is an index in it.
THEOREM AloneIsSure ==
  ASSUME \A c, d \in Clients : c = d
  PROVE  SSpec => SureMeansWhole
<1>1. ASSUME STypeOK, SureInv, NEW c \in Clients, Answers(c, "complete"), ~error, req[c].path \notin doubt
      PROVE  disk[req[c].path].whole
  <2>1. PICK p \in Paths : p = req[c].path
    BY <1>1 DEF STypeOK, TypeOK, Request
  <2>2. pc[c] = "respond" /\ indexState = "complete" /\ \A d \in Clients : d = c
    BY <1>1 DEF Answers, Respond, Goto
  <2>3. Accounted(p)
    BY <1>1, <2>1, <2>2 DEF SureInv, WholeInv, Indexes
  <2>4. \A d \in Clients : ~Pending(d, p)
    BY <1>1, <2>2 DEF Pending, InIndex, SureInv, PlaceInv
  <2>5. \A w \in Workers : ~Works(w, p)
    BY <1>1, <2>2 DEF Works, SureInv, BusyInv
  <2>6. QED
    BY <1>1, <2>1, <2>3, <2>4, <2>5 DEF Accounted
<1>2. STypeOK /\ SureInv =>
        \A c \in Clients : Answers(c, "complete") /\ ~error /\ req[c].path \notin doubt
                             => disk[req[c].path].whole
  BY <1>1
<1>3. STypeOK /\ STypeOK' /\ SureInv /\ [SNext]_allvars => SureInv'
  BY NextSure
<1>4. SSpec => []SureInv
  BY <1>3, InitSure, SearchTypeCorrect, PTL DEF SSpec
<1>5. QED
  BY <1>2, <1>4, SearchTypeCorrect, PTL DEF SureMeansWhole
=============================================================================
