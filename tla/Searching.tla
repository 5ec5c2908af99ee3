------------------------------ MODULE Searching ------------------------------
(***************************************************************************)
(* Searches (lucene/Search.java) on top of the indexing service they use:  *)
(* a search for a path that has no cache directory makes one and calls     *)
(* index(), in its own request thread, before it reads.  The directory it  *)
(* reads from is in a static field.                                        *)
(*                                                                         *)
(* search.htm sends a search or a request for an index whenever its user   *)
(* enters one, without looking whether another is under way.  A member of  *)
(* Clients is one chain of requests, in which each follows the answer to   *)
(* the one before: a polling loop or a search.  What one page asks for     *)
(* meanwhile is in another chain, as is what another page asks for.        *)
(***************************************************************************)
EXTENDS LuceneIndex

VARIABLES
  directory,    \* m_directory: the path it was opened for, and is it open
  spc, sloc,    \* search(): program counter and locals of each request thread
  beside,       \* history: paths of the searches under way at the same time as this one
  doubt         \* history: paths whose directory may be left with half an index

svars == <<directory, spc, sloc, beside, doubt>>
allvars == <<vars, svars>>

SearchPCs == {"no", "assign", "index", "read", "collect"}

\* opened: FSDirectory.open did not throw; found: whose index the reader has open.
Locals == [path : Paths, created : BOOLEAN, opened : BOOLEAN, found : Paths]

NewSearch(p, new) == [path |-> p, created |-> new, opened |-> FALSE, found |-> p]

Closed == [path |-> AnyPath, open |-> FALSE]
NoSearch == NewSearch(AnyPath, FALSE)

SInit ==
  /\ Init
  /\ directory = Closed
  /\ spc = [c \in Clients |-> "no"]
  /\ sloc = [c \in Clients |-> NoSearch]
  /\ beside = [c \in Clients |-> {}]
  /\ doubt = {}

STypeOK ==
  /\ TypeOK
  /\ directory \in [path : Paths, open : BOOLEAN]
  /\ spc \in [Clients -> SearchPCs]
  /\ sloc \in [Clients -> Locals]
  /\ beside \in [Clients -> SUBSET Paths]
  /\ doubt \subseteq Paths

-----------------------------------------------------------------------------
(* Plausible faults.                                                       *)

\* A directory that is open already is used.
OpenedFor_IfClosed(p) == IF directory.open THEN directory ELSE [path |-> p, open |-> TRUE]

\* The new directory is left for index() to find, without force.
CallIndex_NoForce(c) ==
  /\ pc' = [pc EXCEPT ![c] = "enter"]
  /\ req' = [req EXCEPT ![c] = NewRequest(sloc[c].path, FALSE)]

-----------------------------------------------------------------------------
Ends(c) ==
  /\ spc' = [spc EXCEPT ![c] = "no"]
  /\ sloc' = [sloc EXCEPT ![c] = NoSearch]
  /\ beside' = [beside EXCEPT ![c] = {}]

\* This chain has no request under way and no poll to come.
Quiet(c) == pc[c] = "idle" /\ spc[c] = "no"

Searching == {c \in Clients : spc[c] # "no"}

\* No path is above doubt once two chains are under way together.
Together(c) == IF \A d \in Clients \ {c} : Quiet(d) THEN {} ELSE Paths

\* The user of search.htm enters a search.  preSearch makes the cache directory; one
\* that it cannot make counts as one that was there.
Search(c, p) ==
  /\ Quiet(c)
  /\ spc' = [spc EXCEPT ![c] = "assign"]
  /\ beside' = [d \in Clients |->
                  IF d = c THEN {sloc[e].path : e \in Searching}
                  ELSE IF d \in Searching THEN beside[d] \cup {p} ELSE beside[d]]
  /\ \/ /\ sloc' = [sloc EXCEPT ![c] = NewSearch(p, ~cacheDir[p])]
        /\ cacheDir' = [cacheDir EXCEPT ![p] = TRUE]
        /\ doubt' = doubt \cup Together(c)
     \/ /\ "iofail" \in Env
        /\ sloc' = [sloc EXCEPT ![c] = NewSearch(p, FALSE)]
        /\ doubt' = doubt \cup Together(c) \cup {p}
        /\ UNCHANGED cacheDir
  /\ UNCHANGED <<statics, requests, threads, disk, lock, directory>>

OpenedFor(p) == [path |-> p, open |-> TRUE]

\* Index.index(volumeId, searchPath, true), called and not asked for.
CallIndex(c) ==
  /\ pc' = [pc EXCEPT ![c] = "enter"]
  /\ req' = [req EXCEPT ![c] = NewRequest(sloc[c].path, TRUE)]

\* FSDirectory.open, or its exception, which leaves the field as it was; then
\* index() is called for a new directory.
AssignDirectory(c) ==
  /\ spc[c] = "assign"
  /\ \/ /\ directory' = OpenedFor(sloc[c].path)
        /\ cacheDir' = [cacheDir EXCEPT ![sloc[c].path] = TRUE]
        /\ sloc' = [sloc EXCEPT ![c].opened = TRUE]
     \/ /\ "iofail" \in Env
        /\ UNCHANGED <<directory, cacheDir, sloc>>
  /\ spc' = [spc EXCEPT ![c] = IF sloc[c].created THEN "index" ELSE "read"]
  /\ IF sloc[c].created THEN CallIndex(c) ELSE UNCHANGED requests
  /\ UNCHANGED <<statics, threads, disk, lock, beside, doubt>>

\* index() has returned; its answer is not looked at.
IndexReturns(c) ==
  /\ spc[c] = "index"
  /\ pc[c] \in {"idle", "poll"}
  /\ pc' = [pc EXCEPT ![c] = "idle"]
  /\ spc' = [spc EXCEPT ![c] = "read"]
  /\ UNCHANGED <<statics, req, threads, volume, directory, sloc, beside, doubt>>

\* DirectoryReader.open(m_directory): the reader stays at the last commit.
OpenSearcher(c) ==
  /\ spc[c] = "read"
  /\ directory.open /\ ~disk[directory.path].none
  /\ sloc' = [sloc EXCEPT ![c].found = directory.path]
  /\ spc' = [spc EXCEPT ![c] = "collect"]
  /\ UNCHANGED <<vars, directory, beside, doubt>>

\* It throws for a directory that is closed or has no commit.  Either way there is
\* no reader, which nobody expects: the request is not answered.
OpenSearcherThrows(c) ==
  /\ spc[c] = "read"
  /\ ~directory.open \/ disk[directory.path].none \/ "iofail" \in Env
  /\ Ends(c)
  /\ UNCHANGED <<vars, directory, doubt>>

\* The hits are answered, and the directory that is in the field by now is closed.
Collect(c) ==
  /\ spc[c] = "collect"
  /\ Ends(c)
  /\ directory' = Closed
  /\ UNCHANGED <<vars, doubt>>

\* A hit whose document cannot be read is null: the request is not answered.
CollectThrows(c) ==
  /\ spc[c] = "collect"
  /\ "iofail" \in Env
  /\ Ends(c)
  /\ UNCHANGED <<vars, directory, doubt>>

SearchStep(c) ==
  \/ AssignDirectory(c) \/ IndexReturns(c)
  \/ OpenSearcher(c) \/ OpenSearcherThrows(c)
  \/ Collect(c) \/ CollectThrows(c)

-----------------------------------------------------------------------------
(* What the other requests do, seen from a search.                         *)

\* Paths that get a directory and no index thread, because another path has it, or
\* whose error is forgotten because another path is indexed.
Slighted(c) ==
  IF pc[c] = "alive" /\ indexThread \in Workers /\ wpc[indexThread] \in Alive
  THEN {req[c].path} \ {wk[indexThread].path}
  ELSE IF pc[c] = "reset" /\ error THEN Paths \ {req[c].path} ELSE {}

\* An exception leaves index(), and the search that called it.
Unwinds(c) == pc[c] = "start" /\ pc'[c] = "idle"

IndexStep(c) ==
  /\ RequestStep(c)
  /\ IF Unwinds(c) THEN Ends(c) ELSE UNCHANGED <<spc, sloc, beside>>
  /\ doubt' = doubt \cup Slighted(c)
  /\ UNCHANGED directory

\* The user enters a path or asks for an index.
SAsk(c, p, f) ==
  /\ Quiet(c)
  /\ Ask(c, p, f)
  /\ doubt' = doubt \cup Together(c)
  /\ UNCHANGED <<directory, spc, sloc, beside>>

SInterrupt == Interrupt /\ doubt' = Paths /\ UNCHANGED <<directory, spc, sloc, beside>>

SChange(p) ==
  /\ NewIndex(p) \/ DeleteIndex(p)
  /\ doubt' = doubt \cup {p}
  /\ UNCHANGED <<directory, spc, sloc, beside>>

\* The end of the process ends all searches and forgets the field.
SDies ==
  /\ Restart \/ \E w \in Workers : FileTreeThrows(w)
  /\ directory' = Closed
  /\ spc' = [c \in Clients |-> "no"]
  /\ sloc' = [c \in Clients |-> NoSearch]
  /\ beside' = [c \in Clients |-> {}]
  /\ doubt' = Paths

SNext ==
  \/ \E c \in Clients, p \in Paths : Search(c, p)
  \/ \E c \in Clients : SearchStep(c) \/ IndexStep(c)
  \/ \E c \in Clients, p \in Paths, f \in BOOLEAN : SAsk(c, p, f)
  \/ \E c \in Clients : spc[c] = "no" /\ Poll(c) /\ UNCHANGED svars
  \/ \E w \in Workers : WorkerStep(w) /\ UNCHANGED svars
  \/ SInterrupt
  \/ \E p \in Paths : SChange(p)
  \/ SDies

SSpec == SInit /\ [][SNext]_allvars

\* As in LuceneIndex: request threads and index threads run, and the timer fires.
SFairness ==
  /\ \A c \in Clients : /\ WF_allvars(spc[c] = "no" /\ Poll(c) /\ UNCHANGED svars)
                        /\ WF_allvars(SearchStep(c) \/ IndexStep(c))
  /\ \A w \in Workers : WF_allvars(WorkerStep(w) /\ UNCHANGED svars)

SFairSpec == SSpec /\ SFairness

-----------------------------------------------------------------------------
(* Properties.                                                             *)

\* "Return results for a search along a specific path": the hits are of the path
\* that was asked for, or of one that a search under way at the same time asks for; a
\* search that has ended, however it ended, leaves nothing for the next to find.
\* Only one whose own directory could not be opened reads what it finds in the field.
HitsAreOfPath ==
  \A c \in Clients : spc[c] = "collect" /\ sloc[c].opened
    => sloc[c].found \in {sloc[c].path} \cup beside[c]

\* Unless indexing was interrupted, stopped or disturbed, another path came in between, or
\* two chains of requests were under way together (see doubt), an answer "complete"
\* without an error means that the index of the path holds every file, whether a page has
\* called index() or a search.
SureMeansWhole ==
  [][\A c \in Clients : Answers(c, "complete") /\ ~error /\ req[c].path \notin doubt
       => disk[req[c].path].whole]_allvars
=============================================================================
