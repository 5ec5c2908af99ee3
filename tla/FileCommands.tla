---------------------------- MODULE FileCommands ----------------------------
(***************************************************************************)
(* The commands of webserver/connector that change files: mkdir, mkfile,   *)
(* put, rename, rm, paste, duplicate, archive, extract and zipdl, with the *)
(* copying, naming and zipping of util/OmniFiles, OmniUtil and OmniZip     *)
(* they are made of.  Requests run in threads of their own; nothing is     *)
(* locked, and zipdl keeps its state from one request to the next in       *)
(* static fields.                                                          *)
(***************************************************************************)
EXTENDS Integers, Sequences, FiniteSets

CONSTANTS
  Clients,      \* browser windows
  Bases, Texts, \* names without tildes; contents of text files
  AtFirst,      \* the files at first
  Tries,        \* how many names a paste tries: 10 in the code
  MaxCommands,  \* bound on the number of commands
  Commands,     \* the commands in use
  Env           \* "iofail": a file cannot be read or written; "crash"; "stale": a
                \* page shows files that have gone; "leave": a download is given up

\* A name is a base name and the tildes added to it, a path a sequence of names.
Tilde(n, k) == [n EXCEPT !.tildes = @ + k]
Parent(p) == SubSeq(p, 1, Len(p) - 1)
NameOf(p) == p[Len(p)]
At(d, n) == Append(d, n)

Folder == [kind |-> "folder", of |-> {}]
Part == [kind |-> "part", of |-> {}]
Text(X) == [kind |-> "text", of |-> X]
Zip(E) == [kind |-> "zip", of |-> E]

Kinds == {"folder", "part", "text", "zip"}

\* The names there may be.
InUse == UNION {{p[i].base : i \in DOMAIN p} : p \in DOMAIN AtFirst}
Names == [base : Bases \cup {"Archive", "Archive.zip"} \cup InUse, tildes : Nat]

ASSUME ConstantsAssumption ==
  /\ Tries \in Nat \ {0} /\ MaxCommands \in Nat
  /\ Commands \subseteq {"mkdir", "mkfile", "put", "rename", "rm", "paste", "duplicate",
                         "archive", "extract", "zipdl"}
  /\ Env \subseteq {"iofail", "crash", "stale", "leave"}
  /\ IsFiniteSet(DOMAIN AtFirst) /\ DOMAIN AtFirst \subseteq Seq(Names)
  /\ <<>> \in DOMAIN AtFirst /\ AtFirst[<<>>] = Folder
  /\ \A p \in DOMAIN AtFirst :
       /\ \A n \in 0..(Len(p) - 1) : SubSeq(p, 1, n) \in DOMAIN AtFirst
                                   /\ AtFirst[SubSeq(p, 1, n)] = Folder
       /\ AtFirst[p].kind \in Kinds
       /\ AtFirst[p].kind = "zip" =>
            \A e \in AtFirst[p].of :
              e[1] \in Seq(Names) \ {<<>>} /\ e[2].kind \in {"folder", "text"}

VARIABLES
  tree,           \* the volume: a body for each path there is
  job,            \* the command each client's request thread is at
  answer,         \* the last answer to each client
  download_ready, \* CmdZipdl's static fields: an archive waits to be fetched,
  zipOmniFile,    \* and which
  dl,             \* each client's download
  commands        \* commands begun

static == <<download_ready, zipOmniFile>>
vars == <<tree, job, answer, download_ready, zipOmniFile, dl, commands>>

Paths == DOMAIN tree
IsFolder(p) == p \in Paths /\ tree[p] = Folder
Under(p, q) == Len(q) > Len(p) /\ SubSeq(q, 1, Len(p)) = p
Below(p) == {q \in Paths : Under(p, q)}
Children(p) == {q \in Below(p) : Len(q) = Len(p) + 1}

\* What a page may show in a folder.
Shown(d) ==
  Children(d) \cup
    {q \in DOMAIN AtFirst \ {<<>>} : "stale" \in Env /\ IsFolder(d) /\ Parent(q) = d}

\* The path q of folder p, seen from folder r instead.
Moved(q, p, r) == r \o SubSeq(q, Len(p) + 1, Len(q))

With(f, p, body) == [q \in DOMAIN f \cup {p} |-> IF q = p THEN body ELSE f[q]]
Without(f, S) == [q \in DOMAIN f \ S |-> f[q]]

\* What one reads of a file: one left in part is a text like any other.
Read(p) == IF tree[p] = Part THEN Text({}) ELSE tree[p]

\* The tree with the parts S of p (p among them, perhaps) also under r, not all of X.
Copied(p, r, S, X) ==
  LET new == {Moved(q, p, r) : q \in S}
      Copy(q) == IF q \in X THEN Part ELSE Read(q)
  IN  [q \in Paths \cup new |-> IF q \in new THEN Copy(Moved(q, r, p)) ELSE tree[q]]

Idle == [pc |-> "idle", op |-> "none", todo |-> {}, from |-> <<>>, to |-> <<>>,
         dst |-> <<>>, cut |-> FALSE, added |-> {}, removed |-> {}]
NoAnswer == [ok |-> TRUE, added |-> {}, removed |-> {}]
NoDownload == [pc |-> "none", of |-> {}, got |-> Part, left |-> FALSE]

TypeOK ==
  /\ <<>> \in Paths
  /\ \A p \in Paths : p # <<>> => IsFolder(Parent(p))
  /\ \A p \in Paths : tree[p].kind \in Kinds
  /\ \A c \in Clients :
       /\ job[c].pc \in {"idle", "next", "copy", "cut", "extract", "zip"}
       /\ job[c].pc \in {"copy", "cut"} => job[c].to # <<>>
       /\ dl[c].pc \in {"none", "zipping", "named", "got", "garbled"}
  /\ download_ready \in BOOLEAN
  /\ commands \in 0..MaxCommands

Init ==
  /\ tree = AtFirst
  /\ job = [c \in Clients |-> Idle]
  /\ answer = [c \in Clients |-> NoAnswer]
  /\ download_ready = FALSE /\ zipOmniFile = <<>>
  /\ dl = [c \in Clients |-> NoDownload]
  /\ commands = 0

-----------------------------------------------------------------------------
(* Commands of one step.                                                   *)

\* Does client c begin this command?
Begins(c, cmd) ==
  /\ cmd \in Commands
  /\ job[c].pc = "idle" /\ dl[c].pc \notin {"zipping", "named"}
  /\ commands < MaxCommands
  /\ commands' = commands + 1

Answers(c, ok, added, removed) ==
  answer' = [answer EXCEPT ![c] = [ok |-> ok, added |-> added, removed |-> removed]]

Name(b) == [base |-> b, tildes |-> 0]

\* mkdir() and createNewFile() change nothing if there is something already.
Make(c, cmd, p, body) ==
  /\ Begins(c, cmd)
  /\ IF p \in Paths THEN UNCHANGED tree /\ Answers(c, TRUE, {}, {})
     ELSE tree' = With(tree, p, body) /\ Answers(c, TRUE, {p}, {})
  /\ UNCHANGED <<job, static, dl>>

Mkdir(c, d, b) == IsFolder(d) /\ Make(c, "mkdir", At(d, Name(b)), Folder)
Mkfile(c, d, b) == IsFolder(d) /\ Make(c, "mkfile", At(d, Name(b)), Text({}))

\* The editor saves a text.
Put(c, p, x) ==
  /\ Begins(c, "put")
  /\ p \in Paths /\ tree[p].kind \in {"text", "part"}
  /\ \/ tree' = [tree EXCEPT ![p] = Text({x})] /\ Answers(c, TRUE, {}, {})
     \/ "iofail" \in Env /\ tree' = [tree EXCEPT ![p] = Part] /\ Answers(c, FALSE, {}, {})
  /\ UNCHANGED <<job, static, dl>>

\* renameTo() replaces a file by a file, and an empty folder by a folder.
CanReplace(p, r) ==
  r \in Paths => IsFolder(r) = IsFolder(p) /\ (IsFolder(r) => Below(r) = {})

\* elFinder does not send a name it shows; the code does not look whether there is a
\* file the page does not show.  What goes into the answer are OmniFile objects, of
\* which the page learns no path.
Rename(c, p, b) ==
  LET r == At(Parent(p), Name(b))
      S == Below(p) \cup {p}
      new == {Moved(q, p, r) : q \in S}
  IN  /\ Begins(c, "rename")
      /\ p \in Paths \ {<<>>}
      /\ \/ /\ CanReplace(p, r)
            /\ tree' = [q \in (Paths \ S) \cup new |->
                         tree[IF q \in new THEN Moved(q, r, p) ELSE q]]
         \/ (CanReplace(p, r) => "iofail" \in Env) /\ UNCHANGED tree
      /\ Answers(c, TRUE, {}, {})
      /\ UNCHANGED <<job, static, dl>>

\* Mutant of Rm: a folder goes before what is in it.
RmFolderFirst(c, T) ==
  /\ Begins(c, "rm")
  /\ T # {} /\ T \subseteq Paths
  /\ tree' = Without(tree, T)
  /\ Answers(c, TRUE, {}, T)
  /\ UNCHANGED <<job, static, dl>>

\* What is in a folder goes before it; the first failure ends the command, and
\* then nothing is reported.
Rm(c, T) ==
  LET S == {q \in Paths : \E p \in T : q = p \/ Under(p, q)}
  IN  /\ Begins(c, "rm")
      /\ T # {}
      /\ \/ /\ T \subseteq Paths
            /\ tree' = Without(tree, S) /\ Answers(c, TRUE, {}, S)
         \/ /\ T \subseteq Paths => "iofail" \in Env
            /\ \E D \in SUBSET S :
                 /\ \A q \in D : Below(q) \subseteq D
                 /\ tree' = Without(tree, D)
            /\ Answers(c, FALSE, {}, {})
      /\ UNCHANGED <<job, static, dl>>

-----------------------------------------------------------------------------
(* paste and duplicate: one target after the other.                        *)

\* elFinder does not paste a folder into itself.
Paste(c, T, d, cut) ==
  /\ Begins(c, "paste")
  /\ T # {} /\ IsFolder(d) /\ \A p \in T : d # p /\ ~Under(p, d)
  /\ cut => \A p \in T : Parent(p) # d
  /\ job' = [job EXCEPT ![c] = [Idle EXCEPT !.pc = "next", !.op = "paste", !.todo = T,
                                            !.dst = d, !.cut = cut]]
  /\ UNCHANGED <<tree, answer, static, dl>>

Duplicate(c, T) ==
  /\ Begins(c, "duplicate")
  /\ T # {}
  /\ job' = [job EXCEPT ![c] = [Idle EXCEPT !.pc = "next", !.op = "duplicate", !.todo = T]]
  /\ UNCHANGED <<tree, answer, static, dl>>

\* The name a target gets, after k tries, in the folder it is to go to.
Candidate(c, f, k) ==
  At(IF job[c].op = "duplicate" THEN Parent(f) ELSE job[c].dst, Tilde(NameOf(f), k))

\* The first that is not taken; if all are, the last.
IsChoice(c, f, k) ==
  /\ \A i \in 0..(k - 1) : Candidate(c, f, i) \in Paths
  /\ k = Tries - 1 \/ Candidate(c, f, k) \notin Paths

Choose(c, f) ==
  /\ job[c].pc = "next" /\ f \in job[c].todo
  /\ \E k \in 0..(Tries - 1) :
       /\ IsChoice(c, f, k)
       /\ job' = [job EXCEPT ![c].pc = "copy", ![c].todo = @ \ {f}, ![c].from = f,
                             ![c].to = Candidate(c, f, k)]
  /\ UNCHANGED <<tree, answer, static, dl, commands>>

\* The parts of f that can be put under `to`: not where a file and a folder meet, nor
\* below that.
Fitting(f, to) ==
  LET All == Below(f) \cup {f}
      Meet(q, r) == r \in Paths /\ IsFolder(r) # IsFolder(q)
  IN  {q \in All : /\ IsFolder(Parent(to))
                  /\ \A p \in All : p = q \/ Under(p, q) => ~Meet(p, Moved(p, f, to))}

\* What mkdir() cannot make goes unnoticed until a file is put there.
Fits(f, to) == \A q \in Below(f) \cup {f} : IsFolder(q) \/ q \in Fitting(f, to)

\* What may be of a copy of f that ends early: a folder comes before what is in it; one
\* file may be there in part.
Begun(f, fit) ==
  {S \in SUBSET fit : (IsFolder(f) /\ f \in fit => f \in S) /\ \A q \in S \ {f} : Parent(q) \in S}
Stopped(f, to) == {Copied(f, to, S, {}) : S \in Begun(f, Fitting(f, to))}
Remains(f, to) ==
  LET fit == Fitting(f, to)
      inPart == {{}} \cup {{q} : q \in {q \in fit : ~IsFolder(q)}}
  IN  {Copied(f, to, S, X) : S \in Begun(f, fit), X \in inPart}

CopyWorks(c) ==
  LET f == job[c].from   to == job[c].to
  IN  /\ job[c].pc = "copy" /\ f \in Paths
      /\ Fits(f, to)
      /\ tree' = Copied(f, to, Fitting(f, to), {})
      /\ job' = [job EXCEPT ![c].pc = IF job[c].cut THEN "cut" ELSE "next",
                            ![c].added = @ \cup {to}]
      /\ UNCHANGED <<answer, static, dl, commands>>

\* Mutant of CopyFails: what failed is added to the answer.
CopyFailsAdded(c) ==
  /\ job[c].pc = "copy" /\ job[c].from \in Paths
  /\ "iofail" \in Env /\ job[c].from \in Fitting(job[c].from, job[c].to)
  /\ tree' \in Remains(job[c].from, job[c].to)
  /\ job' = [job EXCEPT ![c].pc = "next", ![c].added = @ \cup {job[c].to}]
  /\ UNCHANGED <<answer, static, dl, commands>>

\* Mutant of CopyFails: a move deletes its source all the same.
CopyFailsCuts(c) ==
  /\ job[c].pc = "copy" /\ job[c].from \in Paths
  /\ "iofail" \in Env /\ job[c].from \in Fitting(job[c].from, job[c].to)
  /\ tree' \in Remains(job[c].from, job[c].to)
  /\ job' = [job EXCEPT ![c].pc = IF job[c].cut THEN "cut" ELSE "next"]
  /\ UNCHANGED <<answer, static, dl, commands>>

\* Can a file be opened for writing?
Opens(to) == IsFolder(Parent(to)) /\ ~IsFolder(to)

CopyFails(c) ==
  LET f == job[c].from   to == job[c].to
  IN  /\ job[c].pc = "copy"
      /\ \/ "iofail" \in Env /\ f \in Paths \cap Fitting(f, to) /\ tree' \in Remains(f, to)
         \/ f \in Paths /\ ~Fits(f, to) /\ tree' \in Stopped(f, to)
         \/ f \notin Paths /\ ~Opens(to) /\ UNCHANGED tree
      /\ job' = [job EXCEPT ![c].pc = "next"]
      /\ UNCHANGED <<answer, static, dl, commands>>

\* The source has gone: the target is opened, and the request dies of the null
\* there is to read from.
CopyThrows(c) ==
  /\ job[c].pc = "copy" /\ job[c].from \notin Paths
  /\ Opens(job[c].to)
  /\ tree' = With(tree, job[c].to, Part)
  /\ job' = [job EXCEPT ![c] = Idle]
  /\ UNCHANGED <<answer, static, dl, commands>>

\* delete() of what was copied, which for a folder works only if it is empty.
Cut(c) ==
  LET f == job[c].from
      deleted == f \in Paths /\ Below(f) = {}
  IN  /\ job[c].pc = "cut"
      /\ \/ /\ deleted
            /\ tree' = Without(tree, {f})
            /\ job' = [job EXCEPT ![c].pc = "next", ![c].removed = @ \cup {f}]
         \/ /\ deleted => "iofail" \in Env
            /\ job' = [job EXCEPT ![c].pc = "next"] /\ UNCHANGED tree
      /\ UNCHANGED <<answer, static, dl, commands>>

PasteEnds(c) ==
  /\ job[c].pc = "next" /\ job[c].todo = {}
  /\ Answers(c, TRUE, job[c].added, job[c].removed)
  /\ job' = [job EXCEPT ![c] = Idle]
  /\ UNCHANGED <<tree, static, dl, commands>>

-----------------------------------------------------------------------------
(* archive and extract.                                                    *)

\* What zipFiles makes of a target: a folder's contents go in without its name.
EntriesOf(p) ==
  IF IsFolder(p) THEN {<<Moved(q, p, <<>>), Read(q)>> : q \in Below(p)}
  ELSE {<<<<NameOf(p)>>, IF p \in Paths THEN Read(p) ELSE Part>>}
Entries(T) == UNION {EntriesOf(p) : p \in T}

\* A name that comes twice is an exception.
Clash(T) ==
  \E p, q \in T : p # q /\ \E e \in EntriesOf(p), g \in EntriesOf(q) : e[1] = g[1]

\* makeUniqueName.
Unique(p) ==
  LET Named(k) == At(Parent(p), Tilde(NameOf(p), k))
  IN  Named(CHOOSE k \in 0..Cardinality(Paths) :
              Named(k) \notin Paths /\ \A i \in 0..(k - 1) : Named(i) \in Paths)

ArchivePath(d) == Unique(At(d, Name("Archive.zip")))

\* Targets to be zipped, all from one folder.
Picked(d, T) == T # {} /\ T \subseteq Shown(d)

\* The archive is opened.
ZipBegins(c, op, T, a) ==
  /\ tree' = With(tree, a, Part)
  /\ job' = [job EXCEPT ![c] = [Idle EXCEPT !.pc = "zip", !.op = op, !.todo = T, !.to = a]]

\* elFinder finds a name for the archive as makeUniqueName does, but among the files
\* it shows; the code does not look whether another has it.
ArchivePaths(d, T) ==
  {ArchivePath(d)} \cup {a \in Children(d) \ T : NameOf(a).base = "Archive.zip"}

Archive(c, d, T, a) ==
  /\ Begins(c, "archive")
  /\ Picked(d, T) /\ a \in ArchivePaths(d, T)
  /\ IF IsFolder(a) THEN Answers(c, FALSE, {a}, {}) /\ UNCHANGED <<tree, job>>
     ELSE ZipBegins(c, "archive", T, a) /\ UNCHANGED answer
  /\ UNCHANGED <<static, dl>>

Zipping(c, op) == job[c].pc = "zip" /\ job[c].op = op /\ job' = [job EXCEPT ![c] = Idle]
CanZip(c) == job[c].todo \subseteq Paths /\ ~Clash(job[c].todo)
MayFail(c) == Clash(job[c].todo) \/ "iofail" \in Env
Zipped(c) == With(tree, job[c].to, Zip(Entries(job[c].todo)))

\* An archive that could not be made whole is reported, with a warning.
ArchiveEnds(c) ==
  /\ Zipping(c, "archive")
  /\ \/ CanZip(c) /\ tree' = Zipped(c) /\ Answers(c, TRUE, {job[c].to}, {})
     \/ MayFail(c) /\ UNCHANGED tree /\ Answers(c, FALSE, {job[c].to}, {})
  /\ UNCHANGED <<static, dl, commands>>

\* A target that has gone: the request dies.
ZipThrows(c) ==
  /\ job[c].pc = "zip" /\ ~(job[c].todo \subseteq Paths)
  /\ job' = [job EXCEPT ![c] = Idle]
  /\ dl' = [dl EXCEPT ![c] = IF @.pc = "zipping" THEN NoDownload ELSE @]
  /\ UNCHANGED <<tree, answer, static, commands>>

\* The name without extension, for the folder an archive is unpacked to.
BaseName(n) == IF n.base = "Archive.zip" THEN [n EXCEPT !.base = "Archive"] ELSE n

Extract(c, z, makedir) ==
  LET made == Unique(At(Parent(z), BaseName(NameOf(z))))
  IN  /\ Begins(c, "extract")
      /\ z \in Paths /\ tree[z].kind = "zip"
      /\ tree' = IF makedir THEN With(tree, made, Folder) ELSE tree
      /\ job' = [job EXCEPT ![c] =
                   [Idle EXCEPT !.pc = "extract", !.op = "extract", !.todo = tree[z].of,
                                !.dst = IF makedir THEN made ELSE Parent(z),
                                !.added = IF makedir THEN {made} ELSE {}]]
      /\ UNCHANGED <<answer, static, dl>>

\* mkdirs() of a path: the tree with it and the folders it is in.
Prefixes(p) == {SubSeq(p, 1, n) : n \in 0..Len(p)}
CanMake(p) == \A q \in Prefixes(p) : q \in Paths => IsFolder(q)
Made(p) == [q \in Paths \cup Prefixes(p) |-> IF q \in Paths THEN tree[q] ELSE Folder]

\* The archive lists a folder before what is in it.
IsNext(c, e) ==
  job[c].pc = "extract" /\ e \in job[c].todo /\ \A g \in job[c].todo : ~Under(g[1], e[1])

\* The next file of the archive, under a name that is not taken.
ExtractFile(c, e) ==
  LET p == job[c].dst \o e[1]
      f == Unique(p)
  IN  /\ IsNext(c, e) /\ e[2] # Folder
      /\ CanMake(Parent(p))
      /\ tree' = With(Made(Parent(p)), f, e[2])
      /\ job' = [job EXCEPT ![c].todo = @ \ {e}, ![c].added = @ \cup {f}]
      /\ UNCHANGED <<answer, static, dl, commands>>

\* A folder of the archive: it is made in the volume's root, if it can be.
ExtractFolder(c, e) ==
  LET works == e[1] \notin Paths /\ IsFolder(Parent(e[1]))
  IN  /\ IsNext(c, e) /\ e[2] = Folder
      /\ tree' = IF works THEN With(tree, e[1], Folder) ELSE tree
      /\ job' = [job EXCEPT ![c].todo = @ \ {e},
                            ![c].removed = IF works THEN @ \cup {e[1]} ELSE @]
      /\ UNCHANGED <<answer, static, dl, commands>>

\* The folders made (collected in "removed", which extract has no use for) are
\* reported at the end.
ExtractEnds(c) ==
  /\ job[c].pc = "extract" /\ job[c].todo = {}
  /\ Answers(c, TRUE, job[c].added \cup job[c].removed, {})
  /\ job' = [job EXCEPT ![c] = Idle]
  /\ UNCHANGED <<tree, static, dl, commands>>

\* A file that cannot be written ends the extraction, not reported as such.
ExtractFails(c, e) ==
  LET p == job[c].dst \o e[1]
  IN  /\ IsNext(c, e) /\ e[2] # Folder
      /\ \/ ~CanMake(Parent(p)) /\ UNCHANGED tree
         \/ "iofail" \in Env /\ CanMake(Parent(p)) /\ tree' = With(Made(Parent(p)), Unique(p), Part)
      /\ Answers(c, TRUE, job[c].added, {})
      /\ job' = [job EXCEPT ![c] = Idle]
      /\ UNCHANGED <<static, dl, commands>>

-----------------------------------------------------------------------------
(* zipdl: a request that makes an archive and one that fetches it.         *)

\* Which of the two a request is, go() tells from its static field alone.
Zipdl(c, d, T) ==
  /\ Begins(c, "zipdl")
  /\ ~download_ready
  /\ Picked(d, T) /\ ZipBegins(c, "zipdl", T, ArchivePath(d))
  /\ zipOmniFile' = ArchivePath(d)
  /\ dl' = [dl EXCEPT ![c] = [NoDownload EXCEPT !.pc = "zipping"]]
  /\ UNCHANGED <<answer, download_ready>>

ZipdlTakenForFetch(c) ==
  /\ Begins(c, "zipdl")
  /\ download_ready
  /\ download_ready' = FALSE
  /\ dl' = [dl EXCEPT ![c].pc = "garbled"]
  /\ UNCHANGED <<tree, job, answer, zipOmniFile>>

ZipdlEnds(c) ==
  /\ Zipping(c, "zipdl")
  /\ \/ /\ CanZip(c) /\ tree' = Zipped(c)
        /\ download_ready' = TRUE
        /\ dl' = [dl EXCEPT ![c].pc = "named", ![c].of = Entries(job[c].todo)]
     \/ MayFail(c) /\ dl' = [dl EXCEPT ![c] = NoDownload] /\ UNCHANGED <<tree, download_ready>>
  /\ UNCHANGED <<answer, zipOmniFile, commands>>

\* Mutant of Fetch: not set up for the next use.
FetchNotReset(c) ==
  /\ dl[c].pc = "named"
  /\ dl' = [dl EXCEPT ![c].pc = "got", ![c].got = tree[zipOmniFile]]
  /\ UNCHANGED <<tree, job, answer, static, commands>>

\* The browser fetches the archive at once.  If another has, the request is
\* taken for one that names files to zip, and throws at "Archive.zip".
Fetch(c) ==
  /\ dl[c].pc = "named"
  /\ dl' = [dl EXCEPT ![c] =
       IF download_ready
       THEN [@ EXCEPT !.pc = "got", !.got = IF zipOmniFile \in Paths THEN tree[zipOmniFile] ELSE Part]
       ELSE [@ EXCEPT !.pc = "garbled"]]
  /\ download_ready' = FALSE
  /\ UNCHANGED <<tree, job, answer, zipOmniFile, commands>>

\* The window goes away before it has fetched the archive.
Leave(c) ==
  /\ "leave" \in Env
  /\ dl[c].pc = "named"
  /\ dl' = [dl EXCEPT ![c] = [NoDownload EXCEPT !.left = TRUE]]
  /\ UNCHANGED <<tree, job, answer, static, commands>>

-----------------------------------------------------------------------------
\* The process ends; what is being copied is there in part.  Downloads under way
\* are given up.
Crash ==
  /\ "crash" \in Env
  /\ \E c \in Clients :
       /\ job[c].pc # "idle"
       /\ tree' \in IF job[c].pc = "copy" /\ job[c].from \in Paths
                    THEN Remains(job[c].from, job[c].to) ELSE {tree}
  /\ job' = [c \in Clients |-> Idle]
  /\ dl' = [c \in Clients |-> NoDownload]
  /\ download_ready' = FALSE /\ zipOmniFile' = <<>>
  /\ UNCHANGED <<answer, commands>>

Copying(c) ==
  \/ \E f \in job[c].todo : Choose(c, f)
  \/ CopyWorks(c) \/ CopyFails(c) \/ CopyThrows(c) \/ Cut(c) \/ PasteEnds(c)

Packing(c) ==
  \/ ArchiveEnds(c) \/ ZipThrows(c) \/ ZipdlEnds(c) \/ Fetch(c) \/ Leave(c)
  \/ ExtractEnds(c)
  \/ \E e \in job[c].todo : ExtractFile(c, e) \/ ExtractFolder(c, e) \/ ExtractFails(c, e)

AnyCommand(c) ==
  /\ job[c].pc = "idle" /\ commands < MaxCommands
  /\ \/ \E d \in Paths :
          \/ \E b \in Bases : Mkdir(c, d, b) \/ Mkfile(c, d, b)
          \/ \E T \in SUBSET Shown(d) :
               \/ \E e \in Paths, cut \in BOOLEAN : Paste(c, T, e, cut)
               \/ Rm(c, T) \/ Duplicate(c, T) \/ Zipdl(c, d, T)
               \/ \E a \in ArchivePaths(d, T) : Archive(c, d, T, a)
     \/ \E p \in Paths :
          \/ \E x \in Texts : Put(c, p, x)
          \/ \E b \in Bases : Rename(c, p, b)
          \/ \E makedir \in BOOLEAN : Extract(c, p, makedir)
     \/ ZipdlTakenForFetch(c)

Next ==
  \/ \E c \in Clients : AnyCommand(c) \/ Copying(c) \/ Packing(c)
  \/ Crash

Spec == Init /\ [][Next]_vars

-----------------------------------------------------------------------------
(* Properties.                                                             *)

\* The last name a copy may have, which it has even if it is taken.
LastName(p) == NameOf(p).tildes >= Tries - 1
InLastName(p) == \E n \in 1..(Len(p) - 1) : LastName(SubSeq(p, 1, n))

AnswersHold ==
  \A c \in Clients : (answer'[c] # answer[c] /\ answer'[c].ok) =>
     /\ \A p \in answer'[c].added : p \in DOMAIN tree' /\ (tree'[p] = Part => LastName(p))
     /\ \A p \in answer'[c].removed : p \in DOMAIN tree' => InLastName(p)

\* What an answer says was added is there, whole, and what it says was removed
\* is not: elFinder shows the folder from the answers.  Only what goes to a name that
\* is taken may spoil what the same request did before: the file that has it need not
\* be whole, and in a folder that has it something may be there again.
AnswerIsTrue == [][AnswersHold]_vars

TextsIn(f) == {f[p].of : p \in {p \in DOMAIN f : f[p].kind = "text"}}

KeepsTexts ==
  \/ TextsIn(tree) \subseteq TextsIn(tree')
  \/ \E c \in Clients, d \in Paths : \E T \in SUBSET Shown(d) : Rm(c, T)
  \/ \E c \in Clients, p \in Paths, x \in Texts : Put(c, p, x)
  \/ \E c \in Clients, p \in Paths, b \in Bases :
       At(Parent(p), Name(b)) \in Paths /\ Rename(c, p, b)
  \/ \E c \in Clients, d \in Paths : \E T \in SUBSET Shown(d) :
       \E a \in ArchivePaths(d, T) \cap Paths : Archive(c, d, T, a)
  \/ \E c \in Clients : job[c].pc = "copy" /\ job[c].to \in Paths

\* No text is lost but by rm, by put and by what goes to a name that is taken, be it a
\* copy, a rename or an archive: not by a move that fails or is cut short, nor by names
\* that meet in an archive.
TextsKept == [][KeepsTexts]_vars

\* What a client downloads is the archive of what it asked for, and only a
\* download that was given up makes the next go wrong, and no other after it.
DownloadIsOwn ==
  \A c \in Clients : /\ dl[c].pc = "garbled" => dl[c].left
                     /\ dl[c].pc = "got" => dl[c].got = Zip(dl[c].of)
=============================================================================
