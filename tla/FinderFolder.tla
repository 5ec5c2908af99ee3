----------------------------- MODULE FinderFolder -----------------------------
(***************************************************************************)
(* What the file manager in the browser (elFinder, js/elfinder.full.js)    *)
(* knows of the volume, `files`, and what it shows of the folder that is   *)
(* open.                                                                   *)
(*                                                                         *)
(* Answers come in any order.  An open only adds to `files`; mkdir and rm  *)
(* tell what they have changed; sync() compares all of `files` with what   *)
(* the server sees.  The cache is brought up to date at once, the list in  *)
(* later frames (fm.lazy), so that an answer may come in between.          *)
(***************************************************************************)
EXTENDS Naturals, Sequences, FiniteSets

CONSTANTS
    Items, Folders, Root,
    Parent,         \* the folder of each item but Root
    Requests,       \* everything this page will ask for
    Copied,         \* what may be in the clipboard
    Foreign,        \* what somebody else may make or remove
    None

\* What open() keeps until `opendone`.
Closure == [prev : Folders, hashes : SUBSET Items]

ASSUME ConstantsAssumption ==
    /\ Root \in Folders /\ Folders \subseteq Items
    /\ Parent \in [Items -> Folders \cup {None}]
    /\ Parent[Root] = None
    \* The bound on the tree: folders are in Root, and files in them or beside them.  Then
    \* sync() asks for the tree of every folder, and rm goes down one level.
    /\ \A i \in Items \ {Root} :
         Parent[i] # None /\ (i \in Folders => Parent[i] = Root)
    /\ Copied \subseteq Items /\ Foreign \subseteq Items \ {Root}
    /\ None \notin Items /\ None \notin Closure

VARIABLES
    disk,           \* what is on the volume
    request,        \* the requests: command, what about, how far, what the server saw
    cwd, files,
    remember,       \* in the clipboard
    currentReqCmd,
    cwdHashes,      \* what the list is to show, and what it shows
    listed,
    frames,         \* fm.lazy: what is due in the next frames, first come first served
    timeouts,       \* promises whose then() has not been called yet
    opened,         \* what open() waits for `opendone` with: prevcwd and the hashes to look at
    due,            \* hashes the garbage collection waits for `lazydone` with
    sweep,          \* hashes it has to look at
    leaveOn,        \* the list's folder is gone: the event on which to open another
    must,           \* what the handler that has just run asks for: "open" or None
    crossed,        \* history: items of which the server's view and the answers differ,
                    \* since one request has overtaken another, or somebody else did it, or
                    \* rm removed them and failed at a later one, or the garbage collection
                    \* came between two answers
    mixed,          \* history: items that sync() knew of before the list, or that the list has
                    \* not been told of: they went with their folder, or its folder has gone
    kept            \* history: files that were cached for the clipboard, for a folder not shown,
                    \* or when the folder just opened was opened again

garbage == <<opened, due, sweep>>
shown == <<cwdHashes, listed>>
history == <<crossed, mixed, kept>>
vars == <<disk, request, cwd, files, remember, currentReqCmd, shown, frames, timeouts,
          garbage, leaveOn, must, history>>

Phases == {"new", "sent", "served", "over"}
Asked == [cmd : {"open", "sync", "mkdir", "rm"}, about : Items, what : SUBSET Items,
          phase : Phases, at : Items, seen : SUBSET Items, near : SUBSET Items]

\* A job of fm.lazy: the events of an answer, one after the other, or content().
Job == [stage : {"update", "event", "done", "content"}, cmd : {"open", "mkdir", "rm"},
        added : SUBSET Items, removed : SUBSET Items]

Children(s, d) == {i \in s : Parent[i] = d}
Below(d) == {i \in Items : i = d \/ Parent[i] = d}

NewRequest == [cmd |-> "open", about |-> Root, what |-> {}, phase |-> "new", at |-> Root,
               seen |-> {}, near |-> {}]

Init ==
    /\ disk \in {s \in SUBSET Items : Root \in s /\ \A i \in s \ {Root} : Parent[i] \in s}
    /\ request = [q \in Requests |-> NewRequest]
    /\ cwd = Root
    /\ files = {Root} \cup Children(disk, Root)
    /\ remember = {}
    /\ currentReqCmd = "open"
    /\ cwdHashes = Children(disk, Root)
    /\ listed = Children(disk, Root)
    /\ frames = <<>>
    /\ timeouts = <<>>
    /\ opened = None
    /\ due = {}
    /\ sweep = {}
    /\ leaveOn = None
    /\ must = None
    /\ crossed = {}
    /\ mixed = {}
    /\ kept = {}

Live(q) == request[q].phase \in {"sent", "served"}
Reads(q) == Live(q) /\ request[q].cmd \in {"open", "sync"}

\* What a request under way may change on the disk.
Changing(q) == IF Live(q) THEN request[q].what ELSE {}
AllChanging == UNION {Changing(q) : q \in Requests}

-----------------------------------------------------------------------------
(* Plausible faults.                                                       *)

\* An open forgets what the server has not told it.
CacheOpen_Replaces(q) == (files \ Children(files, request[q].at)) \cup request[q].seen

\* What is to be shown is only worked out when a folder is opened.
ListEvents_KeepsHashes(f, cmd, add, rm, late) ==
    /\ UNCHANGED cwdHashes
    /\ listed' = (IF rm = {} THEN listed ELSE listed \ rm) \cup Children(add, cwd)
    /\ leaveOn' = IF rm # {} /\ cwd \notin f /\ cmd # "open" THEN cmd ELSE leaveOn
    /\ mixed' = mixed \cup late \cup (IF cwd \notin f /\ cmd # "open" THEN Children(Items, cwd) ELSE {})

\* Only what is in the folder that is shown goes.
Garbage_OfCwd(s) == {i \in s \ Folders : Parent[i] = cwd /\ i \notin remember}

\* The folder above is answered, as for a file.
Answered_Above(q) == Parent[request[q].about]

-----------------------------------------------------------------------------
(* Garbage collection: what is not of the folder that is shown goes, when  *)
(* the answer to an open has been shown.                                   *)

\* What `opendone` has to look at.
LeftBehind == IF opened # None /\ opened.prev # cwd THEN opened.hashes ELSE {}

OpenDone(lazy) ==
    /\ opened' = None
    /\ due' = IF lazy THEN due \cup LeftBehind ELSE due
    /\ sweep' = IF ~lazy /\ LeftBehind # {} THEN LeftBehind ELSE sweep

\* Folders stay, for the tree.
Garbage(s) == {i \in s \ Folders : Parent[i] # cwd /\ i \notin remember}

\* Files of the folder that is about to be opened, and that its answer does not have: an
\* answer of mkdir has come first, and a collection that is late takes its file away.
TakenBack ==
    UNION {Children(disk \ request[q].seen, request[q].at) :
             q \in {p \in Requests : request[p].cmd = "open" /\ request[p].phase = "served"}}

\* One step of asyncJob is enough for 100 items.
Collect ==
    /\ must = None
    /\ sweep # {}
    /\ sweep' = {}
    /\ files' = files \ Garbage(sweep)
    /\ crossed' = crossed \cup (files \cap Garbage(sweep) \cap TakenBack)
    /\ UNCHANGED <<disk, request, cwd, remember, currentReqCmd, shown, frames, timeouts,
                   opened, due, leaveOn, must, mixed, kept>>

-----------------------------------------------------------------------------
(* Asking.  An open, or sync(), ends those that are under way.             *)

Overtakes(cmd, what) ==
    CASE cmd = "mkdir" ->
           IF (\E p \in Requests : Live(p) /\ request[p].cmd = "sync")
                \/ what \cap AllChanging # {}
           THEN what ELSE {}
      [] cmd = "rm" ->
           IF (\E p \in Requests : Reads(p)) \/ what \cap AllChanging # {}
           THEN what \cup AllChanging ELSE {}
      [] cmd = "open" -> UNION {Changing(p) : p \in {r \in Requests : request[r].cmd = "rm"}}
      [] OTHER -> {}

Ask(q, cmd, about, what) ==
    LET aborts == {p \in Requests : Reads(p) /\ cmd \in {"open", "sync"}}
        near == IF cmd = "sync" THEN AllChanging ELSE {}
    IN  /\ request[q].phase = "new"
        /\ request' = [p \in Requests |->
             CASE p = q -> [NewRequest EXCEPT !.cmd = cmd, !.about = about, !.what = what,
                                              !.phase = "sent", !.near = near]
               [] p \in aborts -> [NewRequest EXCEPT !.phase = "over"]
               [] p \notin aborts /\ Live(p) /\ request[p].cmd = "sync" ->
                    [request[p] EXCEPT !.near = @ \cup what]
               [] OTHER -> request[p]]
        /\ IF aborts # {} THEN OpenDone(frames # <<>>) ELSE UNCHANGED garbage
        /\ crossed' = crossed \cup Overtakes(cmd, what)
        /\ UNCHANGED <<disk, cwd, files, remember, currentReqCmd, shown, frames, timeouts,
                       leaveOn, mixed, kept>>

AskOpen(q, d) == d \in files \cap Folders /\ Ask(q, "open", d, {})

AskSync(q) == Ask(q, "sync", cwd, {})

\* A name that is in the list is refused at once.
AskMkdir(q, i) == Parent[i] = cwd /\ cwd \in files /\ i \notin files /\ Ask(q, "mkdir", i, {i})

\* What is selected in the list, or a folder of the tree.
AskRm(q, s) ==
    /\ s # {} /\ s \subseteq files \ {Root}
    /\ s \subseteq listed \/ \E i \in Folders : s = {i}
    /\ Ask(q, "rm", Root, UNION {Below(i) : i \in s})

User(q) ==
    /\ must = None /\ must' = None
    /\ \/ \E i \in Items : AskOpen(q, i) \/ AskMkdir(q, i)
       \/ \E s \in SUBSET Items : AskRm(q, s)
       \/ AskSync(q)

\* The handler that has just run asks for the folder above.
Above == IF Parent[cwd] \in files THEN Parent[cwd] ELSE Root

Must(q) ==
    /\ must = "open" /\ must' = None
    /\ Ask(q, "open", Above, {})

\* The bound on Requests.
NoneLeft ==
    /\ must # None /\ must' = None
    /\ \A q \in Requests : request[q].phase # "new"
    /\ UNCHANGED <<disk, request, cwd, files, remember, currentReqCmd, shown, frames,
                   timeouts, garbage, leaveOn, history>>

\* fm.clipboard(): one item, or none.
Clipboard(s) ==
    /\ must = None
    /\ s \subseteq Copied \cap files \cap listed /\ Cardinality(s) <= 1
    /\ remember' = s
    /\ kept' = kept \cup s
    /\ UNCHANGED <<disk, request, cwd, files, currentReqCmd, shown, frames, timeouts,
                   garbage, leaveOn, must, crossed, mixed>>

-----------------------------------------------------------------------------
(* The server (connector/Cmd*.java).                                       *)

\* An open of a folder that has gone is answered with the one above, and no files.
Answered(q) ==
    IF request[q].about \in disk THEN request[q].about ELSE Parent[request[q].about]

Served(q, at, seen) ==
    /\ request[q].phase = "sent"
    /\ request' = [request EXCEPT ![q] = [@ EXCEPT !.phase = "served", !.at = at, !.seen = seen]]
    /\ UNCHANGED <<cwd, files, remember, currentReqCmd, shown, frames, timeouts, garbage,
                   leaveOn, must, mixed, kept>>

\* The tree of sync() holds the root and the folders in it.
ServeRead(q) ==
    LET r == request[q]
        tree == {Root} \cup (Children(disk, Root) \cap Folders)
    IN  /\ r.cmd \in {"open", "sync"}
        /\ Served(q, Answered(q), Children(disk, r.about) \cup (IF r.cmd = "sync" THEN tree ELSE {}))
        /\ UNCHANGED <<disk, crossed>>

\* A folder that cannot be made is no error: nothing has been added.
ServeMkdir(q) ==
    LET i == request[q].about
    IN  /\ request[q].cmd = "mkdir"
        /\ \/ /\ Parent[i] \in disk /\ i \notin disk
              /\ disk' = disk \cup {i}
              /\ Served(q, i, {i})
           \/ /\ UNCHANGED disk
              /\ Served(q, i, {})
        /\ UNCHANGED crossed

\* rm goes from target to target, what is in a folder first, and ends at the first item
\* that has gone or cannot be removed: then nothing has been removed, says the answer.
ServeRm(q) ==
    LET what == request[q].what
    IN  /\ request[q].cmd = "rm"
        /\ \/ /\ \A i \in what : Parent[i] \in what \/ i \in disk
              /\ disk' = disk \ what
              /\ Served(q, Root, what \cap disk)
              /\ UNCHANGED crossed
           \/ \E gone \in SUBSET (what \cap disk) :
                 /\ \A i \in disk \ gone : Parent[i] \notin gone
                 /\ disk' = disk \ gone
                 /\ Served(q, Root, {})
                 /\ crossed' = crossed \cup gone

Serve(q) == ServeRead(q) \/ ServeMkdir(q) \/ ServeRm(q)

\* Somebody else makes or removes an item.
Elsewhere(i) ==
    /\ Parent[i] \in disk
    /\ disk' = IF i \in disk THEN disk \ Below(i) ELSE disk \cup {i}
    /\ crossed' = crossed \cup Below(i)
    /\ request' = [q \in Requests |->
         IF Live(q) /\ request[q].cmd = "sync"
         THEN [request[q] EXCEPT !.near = @ \cup Below(i)] ELSE request[q]]
    /\ UNCHANGED <<cwd, files, remember, currentReqCmd, shown, frames, timeouts, garbage,
                   leaveOn, must, mixed, kept>>

-----------------------------------------------------------------------------
(* Answers.                                                                *)

\* A folder takes what is cached of it along.
Removing(r) == files \ UNION {Below(i) : i \in r}

\* What the answer itself does not tell of.
TakenAlong(r) == (files \ Removing(r)) \ r

NewJob(cmd, add, rm) ==
    Append(frames, [stage |-> "update", cmd |-> cmd, added |-> add, removed |-> rm])

Finished(q) == request' = [request EXCEPT ![q] = [NewRequest EXCEPT !.phase = "over"]]

CacheOpen(q) == files \cup request[q].seen

\* open(): a garbage collection that waits has nothing to look at any more.
ApplyOpen(q) ==
    /\ request[q].cmd = "open"
    /\ opened' = [prev |-> cwd, hashes |-> files]
    /\ due' = {}
    /\ cwd' = request[q].at
    /\ files' = CacheOpen(q) \cup {request[q].at}
    /\ currentReqCmd' = "open"
    /\ frames' = NewJob("open", {}, {})
    /\ crossed' = crossed \cup (IF request[q].at = request[q].about THEN {}
                                ELSE Children(Items, request[q].at))
    /\ kept' = IF request[q].at = cwd /\ (opened # None \/ due # {}) THEN kept \cup files ELSE kept
    /\ UNCHANGED <<sweep, shown, leaveOn, must, mixed>>

ApplyMkdir(q) ==
    /\ request[q].cmd = "mkdir"
    /\ currentReqCmd' = "mkdir"
    /\ files' = files \cup request[q].seen
    /\ frames' = NewJob("mkdir", request[q].seen, {})
    /\ kept' = kept \cup {i \in request[q].seen : Parent[i] # cwd}
    /\ UNCHANGED <<cwd, shown, garbage, leaveOn, must, crossed, mixed>>

ApplyRm(q) ==
    /\ request[q].cmd = "rm"
    /\ currentReqCmd' = "rm"
    /\ files' = Removing(request[q].seen)
    /\ frames' = NewJob("rm", {}, request[q].seen)
    /\ mixed' = mixed \cup TakenAlong(request[q].seen)
    /\ UNCHANGED <<cwd, shown, garbage, leaveOn, must, crossed, kept>>

\* The items of answers whose events are still due.
Untold(s) ==
    UNION {Below(i) : i \in UNION {s[n].added \cup s[n].removed : n \in DOMAIN s}}

\* The list's handlers of the events remove and add.  A list whose folder has gone
\* looks for another; the command open forbids it.
Lost(f, cmd) == cwd \notin f /\ cmd # "open"

ListEvents(f, cmd, add, rm, late) ==
    /\ cwdHashes' = IF add \cup rm = {} THEN cwdHashes ELSE Children(f, cwd)
    /\ listed' = (IF rm = {} \/ Lost(f, cmd) THEN listed ELSE listed \ rm)
                    \cup Children(add, cwd)
    /\ leaveOn' = IF rm # {} /\ Lost(f, cmd) THEN cmd ELSE leaveOn
    /\ mixed' = mixed \cup late \cup (IF Lost(f, cmd) THEN Children(Items, cwd) ELSE {})

\* sync(): if the folder is not Root the answer of `parents` may be the last.
ApplySync(q) ==
    LET gone == files \ request[q].seen
        new == (request[q].seen \ files) \cup {request[q].at}
    IN  /\ request[q].cmd = "sync"
        /\ \E c \in {"open", "parents"} :
             /\ c = "parents" => cwd # Root
             /\ currentReqCmd' = c
             /\ ListEvents(Removing(gone) \cup new, c, new, gone, Untold(frames))
        /\ files' = Removing(gone) \cup new
        /\ crossed' = request[q].near
        /\ UNCHANGED <<cwd, frames, garbage, must, kept>>

Apply(q) ==
    /\ must = None
    /\ request[q].phase = "served"
    /\ Finished(q)
    /\ ApplyOpen(q) \/ ApplyMkdir(q) \/ ApplyRm(q) \/ ApplySync(q)
    /\ UNCHANGED <<disk, remember, timeouts>>

-----------------------------------------------------------------------------
(* Frames and timeouts.                                                    *)

\* `lazydone`: no frame is waited for.
LazyDone(d, s) ==
    IF frames' = <<>> /\ d # {} THEN due' = {} /\ sweep' = d ELSE due' = d /\ sweep' = s

NextStage(j) ==
    [j EXCEPT !.stage = IF j.stage = "update" THEN "event" ELSE "done",
              !.added = {}, !.removed = {}]

Frame ==
    LET j == Head(frames)
    IN  /\ must = None
        /\ frames # <<>>
        /\ timeouts' = IF j.stage \in {"update", "event"}
                       THEN Append(timeouts, NextStage(j)) ELSE timeouts
        /\ \/ /\ j.stage = "update"
              /\ ListEvents(files, currentReqCmd, j.added, j.removed, {})
              /\ frames' = Tail(frames)
              /\ LazyDone(due, sweep)
              /\ UNCHANGED <<opened, must>>
           \/ /\ j.stage = "event"
              /\ cwdHashes' = IF j.cmd = "open" THEN Children(files, cwd) ELSE cwdHashes
              /\ frames' = IF j.cmd = "open" THEN Append(Tail(frames), [j EXCEPT !.stage = "content"])
                           ELSE Tail(frames)
              /\ LazyDone(due, sweep)
              /\ UNCHANGED <<listed, opened, leaveOn, must, mixed>>
           \/ /\ j.stage = "done"
              /\ frames' = Tail(frames)
              /\ IF j.cmd = "open"
                 THEN opened' = None /\ LazyDone(due \cup LeftBehind, sweep)
                 ELSE LazyDone(due, sweep) /\ UNCHANGED opened
              /\ leaveOn' = IF leaveOn = j.cmd THEN None ELSE leaveOn
              /\ must' = IF leaveOn = j.cmd /\ cwd \notin files THEN "open" ELSE None
              /\ UNCHANGED <<shown, mixed>>
           \/ /\ j.stage = "content"
              /\ frames' = Tail(frames)
              /\ listed' = cwdHashes \cap files
              /\ mixed' = mixed \cap Untold(frames')
              /\ LazyDone(due, sweep)
              /\ UNCHANGED <<cwdHashes, opened, leaveOn, must>>
        /\ UNCHANGED <<disk, request, cwd, files, remember, currentReqCmd, crossed, kept>>

Timeout ==
    /\ must = None
    /\ timeouts # <<>>
    /\ timeouts' = Tail(timeouts)
    /\ frames' = Append(frames, Head(timeouts))
    /\ UNCHANGED <<disk, request, cwd, files, remember, currentReqCmd, shown, garbage,
                   leaveOn, must, history>>

Next ==
    \/ \E q \in Requests : User(q) \/ Must(q) \/ Serve(q) \/ Apply(q)
    \/ NoneLeft
    \/ \E s \in SUBSET Copied : Clipboard(s)
    \/ \E i \in Foreign : Elsewhere(i)
    \/ Frame \/ Timeout \/ Collect

Spec == Init /\ [][Next]_vars

-----------------------------------------------------------------------------
(* Properties.                                                             *)

TypeOK ==
    /\ disk \subseteq Items
    /\ request \in [Requests -> Asked]
    /\ cwd \in Folders
    /\ files \subseteq Items
    /\ remember \subseteq Items
    /\ currentReqCmd \in {"open", "mkdir", "rm", "parents"}
    /\ cwdHashes \subseteq Items
    /\ listed \subseteq Items
    /\ frames \in Seq(Job)
    /\ timeouts \in Seq(Job)
    /\ opened \in Closure \cup {None}
    /\ due \subseteq Items
    /\ sweep \subseteq Items
    /\ leaveOn \in {"mkdir", "rm", "parents", None}
    /\ must \in {"open", None}
    /\ crossed \subseteq Items
    /\ mixed \subseteq Items
    /\ kept \subseteq Items

\* The events of all answers have been handled.
Settled == frames = <<>> /\ timeouts = <<>> /\ must = None

\* What is listed is what the cache holds of the folder, whatever the order of answers,
\* events and frames; all but what sync() took away before it was in the list, and what
\* went with a folder without being named.
ListIsCache ==
    Settled /\ cwd \in files =>
      \A i \in Items \ mixed : Parent[i] = cwd => (i \in listed <=> i \in files)

\* And that is what is on the disk, if somebody else's doing, an rm that failed half-way, or
\* an answer, or a garbage collection, that came late has been made good by sync() since.
ListIsTrue ==
    Settled /\ cwd \in files /\ (\A q \in Requests : ~Live(q)) =>
      \A i \in Items \ (mixed \cup crossed) : Parent[i] = cwd => (i \in listed <=> i \in disk)

\* Of a folder that was left no file stays in the cache but for the clipboard: an open
\* adds to it and takes nothing away, so that what stays would be listed the next time
\* whether it is still there or not.
LeftIsForgotten ==
    Settled /\ opened = None /\ due = {} /\ sweep = {} =>
      \A i \in files \ Folders : Parent[i] = cwd \/ i \in kept
=============================================================================
