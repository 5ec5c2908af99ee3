------------------------- MODULE FileCommandsProofs -------------------------
(***************************************************************************)
(* What one client may rely on, for every tree of files, every number of   *)
(* commands and of names tried, whatever fails and whenever the service is *)
(* stopped.                                                                *)
(***************************************************************************)
EXTENDS FileCommands, FiniteSetTheorems, SequenceTheorems, NaturalsInduction,
        WellFoundedInduction, TLAPS

Fields == {"pc", "op", "todo", "from", "to", "dst", "cut", "added", "removed"}
DlFields == {"pc", "of", "got", "left"}

\* Jobs and downloads are records of these fields.
Shape ==
  /\ DOMAIN job = Clients /\ \A c \in Clients : DOMAIN job[c] = Fields
  /\ DOMAIN dl = Clients /\ \A c \in Clients : DOMAIN dl[c] = DlFields

\* A record of each kind has its fields.
LEMMA FreshRecords ==
  /\ DOMAIN Idle = Fields /\ Idle.pc = "idle"
  /\ DOMAIN NoDownload = DlFields /\ NoDownload.pc = "none" /\ ~NoDownload.left
BY DEF Idle, NoDownload, Fields, DlFields

\* One step of a command keeps the records' shape.
LEMMA CopyingShape ==
  ASSUME Shape, NEW c \in Clients, Copying(c)
  PROVE  Shape' /\ dl' = dl /\ static' = static
         /\ job[c].pc \in {"next", "copy", "cut"}
         /\ job'[c].pc \in {"idle", "next", "copy", "cut"}
<1> USE FreshRecords DEF Shape, Fields, static
<1>1. CASE \E f \in job[c].todo : Choose(c, f)
  BY <1>1 DEF Choose
<1>2. CASE CopyWorks(c)
  BY <1>2 DEF CopyWorks
<1>3. CASE CopyFails(c)
  BY <1>3 DEF CopyFails
<1>4. CASE CopyThrows(c)
  BY <1>4 DEF CopyThrows
<1>5. CASE Cut(c)
  BY <1>5 DEF Cut
<1>6. CASE PasteEnds(c)
  BY <1>6 DEF PasteEnds
<1>7. QED
  BY <1>1, <1>2, <1>3, <1>4, <1>5, <1>6 DEF Copying

-----------------------------------------------------------------------------
(* Downloads.                                                              *)

\* What a client that is alone knows between the two requests of a download:
\* that the archive is still the one it asked for.
DownloadInv(c) ==
  /\ dl[c].pc = "garbled" => dl[c].left
  /\ dl[c].pc = "got" => dl[c].got = Zip(dl[c].of)
  /\ dl[c].pc = "named" =>
       /\ job[c].pc = "idle" /\ download_ready
       /\ zipOmniFile \in Paths /\ tree[zipOmniFile] = Zip(dl[c].of)
  /\ dl[c].pc = "zipping" =>
       job[c].pc = "zip" /\ job[c].op = "zipdl" /\ zipOmniFile = job[c].to /\ ~download_ready
  /\ job[c].pc = "zip" /\ job[c].op = "zipdl" => dl[c].pc = "zipping"
  /\ download_ready => dl[c].pc = "named" \/ dl[c].left

\* A step that is not of a download, taken when none is under way.
Quiet(c) ==
  /\ dl[c].pc \notin {"zipping", "named"}
  /\ dl' = dl /\ static' = static
  /\ job'[c].pc = "zip" => job'[c].op # "zipdl"

\* Such a step says nothing about downloads.
LEMMA QuietKeeps ==
  ASSUME NEW c \in Clients, DownloadInv(c), Quiet(c)
  PROVE  DownloadInv(c)'
BY DEF DownloadInv, Quiet, static

\* Commands other than zipdl begin when no download is under way.
LEMMA CommandQuiet ==
  ASSUME Shape, NEW c \in Clients, DownloadInv(c),
         NEW d, NEW T, NEW e, NEW cut, NEW p, NEW b, NEW x, NEW a, NEW makedir,
         \/ Mkdir(c, d, b) \/ Mkfile(c, d, b) \/ Put(c, p, x) \/ Rename(c, p, b)
         \/ Rm(c, T) \/ Paste(c, T, e, cut) \/ Duplicate(c, T)
         \/ Archive(c, d, T, a) \/ Extract(c, p, makedir)
  PROVE  Shape' /\ Quiet(c)
<1> USE FreshRecords DEF Shape, Fields, Quiet, Begins, static
<1>1. CASE Mkdir(c, d, b) \/ Mkfile(c, d, b)
  BY <1>1 DEF Mkdir, Mkfile, Make
<1>2. CASE Put(c, p, x)
  BY <1>2 DEF Put
<1>3. CASE Rename(c, p, b)
  BY <1>3 DEF Rename
<1>4. CASE Rm(c, T)
  BY <1>4 DEF Rm
<1>5. CASE Paste(c, T, e, cut)
  BY <1>5 DEF Paste, Idle
<1>6. CASE Duplicate(c, T)
  BY <1>6 DEF Duplicate, Idle
<1>7. CASE Archive(c, d, T, a)
  <2>1. job[c].pc = "idle" /\ dl[c].pc \notin {"zipping", "named"} /\ dl' = dl /\ static' = static
    BY <1>7 DEF Archive
  <2>2. job' = job \/ ZipBegins(c, "archive", T, a)
    BY <1>7 DEF Archive
  <2>3. CASE job' = job
    BY <2>1, <2>3
  <2>4. CASE ZipBegins(c, "archive", T, a)
    BY <2>1, <2>4 DEF ZipBegins, Idle
  <2>5. QED
    BY <2>2, <2>3, <2>4
<1>8. CASE Extract(c, p, makedir)
  BY <1>8 DEF Extract, Idle
<1>9. QED
  BY <1>1, <1>2, <1>3, <1>4, <1>5, <1>6, <1>7, <1>8

\* The steps that pack and unpack: zipdl's keep the archive and its name together.
LEMMA PackingDownload ==
  ASSUME Shape, NEW c \in Clients, DownloadInv(c), Packing(c)
  PROVE  Shape' /\ DownloadInv(c)'
<1> USE FreshRecords DEF Shape, Fields, static
<1>1. ASSUME \/ ArchiveEnds(c) \/ ExtractEnds(c)
             \/ \E e \in job[c].todo : ExtractFile(c, e) \/ ExtractFolder(c, e) \/ ExtractFails(c, e)
      PROVE  Shape' /\ DownloadInv(c)'
  <2>1. job[c].pc \in {"zip", "extract"} /\ (job[c].pc = "zip" => job[c].op = "archive")
    BY <1>1 DEF ArchiveEnds, Zipping, ExtractEnds, ExtractFile, ExtractFolder, ExtractFails, IsNext
  <2>2. dl' = dl /\ static' = static
    BY <1>1 DEF ArchiveEnds, ExtractEnds, ExtractFile, ExtractFolder, ExtractFails
  <2>3. Shape' /\ job'[c].pc \in {"idle", "extract"}
    <3>1. CASE ArchiveEnds(c) \/ ExtractEnds(c)
      BY <3>1 DEF ArchiveEnds, Zipping, ExtractEnds
    <3>2. CASE \E e \in job[c].todo : ExtractFile(c, e)
      BY <3>2 DEF ExtractFile, IsNext
    <3>3. CASE \E e \in job[c].todo : ExtractFolder(c, e)
      BY <3>3 DEF ExtractFolder, IsNext
    <3>4. CASE \E e \in job[c].todo : ExtractFails(c, e)
      BY <3>4 DEF ExtractFails
    <3>5. QED
      BY <1>1, <3>1, <3>2, <3>3, <3>4
  <2>4. Quiet(c)
    BY <2>1, <2>2, <2>3 DEF Quiet, DownloadInv
  <2>5. QED
    BY <2>3, <2>4, QuietKeeps
<1>2. CASE ZipThrows(c)
  <2>1. Shape' /\ job'[c].pc = "idle" /\ dl'[c].pc \notin {"zipping"}
    BY <1>2 DEF ZipThrows, DlFields
  <2>2. dl[c].pc = "zipping" => dl'[c] = NoDownload /\ ~download_ready'
    BY <1>2 DEF ZipThrows, DownloadInv
  <2>3. dl[c].pc # "zipping" => dl'[c] = dl[c]
    BY <1>2 DEF ZipThrows
  <2>4. dl[c].pc # "named" /\ download_ready' = download_ready
    BY <1>2 DEF ZipThrows, DownloadInv
  <2>5. QED
    BY <2>1, <2>2, <2>3, <2>4 DEF DownloadInv
<1>3. CASE ZipdlEnds(c)
  <2>1. job[c].pc = "zip" /\ job[c].op = "zipdl" /\ job' = [job EXCEPT ![c] = Idle]
    BY <1>3 DEF ZipdlEnds, Zipping
  <2>2. dl[c].pc = "zipping" /\ zipOmniFile = job[c].to /\ ~download_ready
    BY <2>1 DEF DownloadInv
  <2>3. zipOmniFile' = zipOmniFile
    BY <1>3 DEF ZipdlEnds
  <2>4. CASE /\ tree' = Zipped(c) /\ download_ready' = TRUE
             /\ dl' = [dl EXCEPT ![c].pc = "named", ![c].of = Entries(job[c].todo)]
    <3>1. Shape' /\ dl'[c].pc = "named" /\ dl'[c].of = Entries(job[c].todo)
      BY <2>1, <2>4 DEF DlFields
    <3>2. zipOmniFile' \in DOMAIN tree' /\ tree'[zipOmniFile'] = Zip(Entries(job[c].todo))
      BY <2>2, <2>3, <2>4 DEF Zipped, With
    <3>3. QED
      BY <2>1, <2>4, <3>1, <3>2 DEF DownloadInv, Paths, Zip
  <2>5. CASE dl' = [dl EXCEPT ![c] = NoDownload] /\ UNCHANGED <<tree, download_ready>>
    BY <2>1, <2>2, <2>5 DEF DownloadInv
  <2>6. QED
    BY <1>3, <2>4, <2>5 DEF ZipdlEnds
<1>4. CASE Fetch(c)
  <2>1. /\ dl[c].pc = "named" /\ download_ready
        /\ job[c].pc = "idle"
        /\ zipOmniFile \in Paths /\ tree[zipOmniFile] = Zip(dl[c].of)
    BY <1>4 DEF Fetch, DownloadInv
  <2>2. dl' = [dl EXCEPT ![c] = [@ EXCEPT !.pc = "got", !.got = tree[zipOmniFile]]]
    BY <1>4, <2>1 DEF Fetch
  <2>3. Shape' /\ dl'[c].pc = "got" /\ dl'[c].got = Zip(dl[c].of) /\ dl'[c].of = dl[c].of
    BY <1>4, <2>1, <2>2 DEF Fetch, DlFields
  <2>4. job'[c] = job[c] /\ ~download_ready'
    BY <1>4 DEF Fetch
  <2>5. QED
    BY <2>1, <2>3, <2>4 DEF DownloadInv, Zip
<1>5. CASE Leave(c)
  <2>1. job[c].pc = "idle" /\ job' = job
    BY <1>5 DEF Leave, DownloadInv
  <2>2. DOMAIN [NoDownload EXCEPT !.left = TRUE] = DlFields
        /\ [NoDownload EXCEPT !.left = TRUE].left /\ [NoDownload EXCEPT !.left = TRUE].pc = "none"
    BY DEF DlFields, NoDownload
  <2>3. Shape' /\ dl'[c].left /\ dl'[c].pc = "none"
    BY <1>5, <2>1, <2>2 DEF Leave
  <2>4. QED
    BY <2>1, <2>3 DEF DownloadInv
<1>6. QED
  BY <1>1, <1>2, <1>3, <1>4, <1>5 DEF Packing

\* zipdl's first request.
LEMMA ZipdlDownload ==
  ASSUME Shape, NEW c \in Clients, DownloadInv(c),
         NEW d, NEW T, Zipdl(c, d, T) \/ ZipdlTakenForFetch(c)
  PROVE  Shape' /\ DownloadInv(c)'
<1> USE FreshRecords DEF Shape, Fields, DlFields
<1>1. job[c].pc = "idle" /\ dl[c].pc \notin {"zipping", "named"}
  BY DEF Zipdl, ZipdlTakenForFetch, Begins
<1>2. CASE Zipdl(c, d, T)
  <2>1. Shape' /\ job'[c].pc = "zip" /\ job'[c].op = "zipdl" /\ job'[c].to = ArchivePath(d)
    BY <1>2 DEF Zipdl, ZipBegins, Idle, NoDownload
  <2>2. dl'[c].pc = "zipping" /\ ~download_ready' /\ zipOmniFile' = ArchivePath(d)
    BY <1>2 DEF Zipdl, NoDownload
  <2>3. QED
    BY <2>1, <2>2 DEF DownloadInv
<1>3. CASE ZipdlTakenForFetch(c)
  <2>1. dl[c].left /\ job' = job /\ ~download_ready'
    BY <1>1, <1>3 DEF ZipdlTakenForFetch, DownloadInv
  <2>2. Shape' /\ dl'[c].pc = "garbled" /\ dl'[c].left
    BY <1>3, <2>1 DEF ZipdlTakenForFetch
  <2>3. QED
    BY <1>1, <2>1, <2>2 DEF DownloadInv
<1>4. QED
  BY <1>2, <1>3

\* The service starts again with nothing under way.
LEMMA CrashDownload ==
  ASSUME Shape, NEW c \in Clients, Crash
  PROVE  Shape' /\ DownloadInv(c)'
BY FreshRecords DEF Crash, Shape, DownloadInv

\* Every step of the only client keeps what it knows of its download.
LEMMA NextDownload ==
  ASSUME NEW c \in Clients, \A d \in Clients : d = c
  PROVE  Shape /\ DownloadInv(c) /\ [Next]_vars => Shape' /\ DownloadInv(c)'
<1> SUFFICES ASSUME Shape, DownloadInv(c), [Next]_vars PROVE Shape' /\ DownloadInv(c)'
  OBVIOUS
<1>1. CASE AnyCommand(c)
  <2>1. ASSUME NEW d, NEW T, NEW e, NEW cut, NEW p, NEW b, NEW x, NEW a, NEW makedir,
               \/ Mkdir(c, d, b) \/ Mkfile(c, d, b) \/ Put(c, p, x) \/ Rename(c, p, b)
               \/ Rm(c, T) \/ Paste(c, T, e, cut) \/ Duplicate(c, T)
               \/ Archive(c, d, T, a) \/ Extract(c, p, makedir)
        PROVE  Shape' /\ DownloadInv(c)'
    BY <2>1, CommandQuiet, QuietKeeps
  <2>2. ASSUME NEW d, NEW T, Zipdl(c, d, T) \/ ZipdlTakenForFetch(c)
        PROVE  Shape' /\ DownloadInv(c)'
    BY <2>2, ZipdlDownload
  <2>3. QED
    BY <1>1, <2>1, <2>2 DEF AnyCommand
<1>2. CASE Copying(c)
  <2>1. /\ Shape' /\ dl' = dl /\ static' = static
        /\ job[c].pc \in {"next", "copy", "cut"} /\ job'[c].pc \in {"idle", "next", "copy", "cut"}
    BY <1>2, CopyingShape
  <2>2. Quiet(c)
    BY <2>1 DEF Quiet, DownloadInv
  <2>3. QED
    BY <2>1, <2>2, QuietKeeps
<1>3. CASE Packing(c)
  BY <1>3, PackingDownload
<1>4. CASE Crash
  BY <1>4, CrashDownload
<1>5. CASE UNCHANGED vars
  BY <1>5 DEF vars, static, Shape, DownloadInv, Paths
<1>6. QED
  BY <1>1, <1>2, <1>3, <1>4, <1>5 DEF Next

\* A client that is alone downloads the archive of what it asked for; only a
\* download that was given up makes the next one go wrong, once.
THEOREM AloneDownloadsItsOwn ==
  ASSUME NEW c \in Clients, \A d \in Clients : d = c
  PROVE  Spec => []DownloadIsOwn
<1>1. Init => Shape /\ DownloadInv(c)
  BY FreshRecords DEF Init, Shape, DownloadInv
<1>2. Shape /\ DownloadInv(c) /\ [Next]_vars => Shape' /\ DownloadInv(c)'
  BY NextDownload
<1>3. DownloadInv(c) => DownloadIsOwn
  BY DEF DownloadInv, DownloadIsOwn
<1>4. QED
  BY <1>1, <1>2, <1>3, PTL DEF Spec

-----------------------------------------------------------------------------
(* Paths.                                                                  *)

Path == Seq(Names)
Proper == Path \ {<<>>}

\* p is q, or q is in the folder p.
From(p, q) == q = p \/ Under(p, q)

\* The folders that a path is in, and what the path is there.
LEMMA PathBasics ==
  ASSUME NEW p \in Path
  PROVE  /\ Len(p) \in Nat /\ (p = <<>> <=> Len(p) = 0)
         /\ \A n \in 0..Len(p) :
              /\ SubSeq(p, 1, n) \in Path /\ Len(SubSeq(p, 1, n)) = n
              /\ \A i \in 1..n : SubSeq(p, 1, n)[i] = p[i]
              /\ \A m \in 0..n : SubSeq(SubSeq(p, 1, n), 1, m) = SubSeq(p, 1, m)
         /\ SubSeq(p, 1, 0) = <<>> /\ SubSeq(p, 1, Len(p)) = p
<1>1. Len(p) \in Nat /\ DOMAIN p = 1..Len(p) /\ \A i \in 1..Len(p) : p[i] \in Names
  BY LenProperties DEF Path
<1>2. p = <<>> <=> Len(p) = 0
  BY EmptySeq DEF Path
<1>3. ASSUME NEW n \in 0..Len(p)
      PROVE  /\ SubSeq(p, 1, n) \in Path /\ Len(SubSeq(p, 1, n)) = n
             /\ \A i \in 1..n : SubSeq(p, 1, n)[i] = p[i]
  <2>1. \A i \in 1..n : p[i] \in Names
    BY <1>1
  <2>2. /\ SubSeq(p, 1, n) \in Seq(Names)
        /\ Len(SubSeq(p, 1, n)) = IF 1 <= n THEN n - 1 + 1 ELSE 0
        /\ \A i \in 1..(n - 1 + 1) : SubSeq(p, 1, n)[i] = p[1 + i - 1]
    BY <1>1, <2>1, SubSeqProperties
  <2>3. n \in Nat
    BY <1>1
  <2>4. Len(SubSeq(p, 1, n)) = n
    BY <2>2, <2>3
  <2>5. \A i \in 1..n : SubSeq(p, 1, n)[i] = p[i]
    BY <2>2, <2>3
  <2>6. QED
    BY <2>2, <2>4, <2>5 DEF Path
<1>4. ASSUME NEW n \in 0..Len(p), NEW m \in 0..n
      PROVE  SubSeq(SubSeq(p, 1, n), 1, m) = SubSeq(p, 1, m)
  <2>1. m \in 0..Len(p) /\ n \in Nat /\ m \in Nat
    BY <1>1
  <2>2. /\ SubSeq(p, 1, n) \in Path /\ Len(SubSeq(p, 1, n)) = n
        /\ \A i \in 1..n : SubSeq(p, 1, n)[i] = p[i]
    BY <1>3
  <2>3. /\ SubSeq(p, 1, m) \in Path /\ Len(SubSeq(p, 1, m)) = m
        /\ \A i \in 1..m : SubSeq(p, 1, m)[i] = p[i]
    BY <1>3, <2>1
  <2> DEFINE s == SubSeq(p, 1, n)
  <2>4. \A i \in 1..m : s[i] \in Names
    BY <1>1, <2>1, <2>2
  <2>5. /\ SubSeq(s, 1, m) \in Seq(Names)
        /\ Len(SubSeq(s, 1, m)) = IF 1 <= m THEN m - 1 + 1 ELSE 0
        /\ \A i \in 1..(m - 1 + 1) : SubSeq(s, 1, m)[i] = s[1 + i - 1]
    <3> HIDE DEF s
    <3>1. QED
      BY <2>1, <2>4, SubSeqProperties
  <2>6. Len(SubSeq(s, 1, m)) = m /\ \A i \in 1..m : SubSeq(s, 1, m)[i] = p[i]
    BY <2>1, <2>2, <2>5
  <2>7. QED
    BY <2>3, <2>5, <2>6, SeqEqual DEF Path
<1>5. SubSeq(p, 1, 0) = <<>>
  BY SubSeqEmpty
<1>6. SubSeq(p, 1, Len(p)) = p
  BY SubSeqFull DEF Path
<1>7. QED
  BY <1>1, <1>2, <1>3, <1>4, <1>5, <1>6

\* A name in a folder.
LEMMA InFolder ==
  ASSUME NEW d \in Path, NEW n \in Names
  PROVE  /\ At(d, n) \in Proper /\ Len(At(d, n)) = Len(d) + 1
         /\ Parent(At(d, n)) = d /\ NameOf(At(d, n)) = n
         /\ \A m \in 0..Len(d) : SubSeq(At(d, n), 1, m) = SubSeq(d, 1, m)
<1> DEFINE p == At(d, n)
<1>1. p \in Path /\ Len(p) = Len(d) + 1 /\ \A i \in 1..Len(d) : p[i] = d[i]
  BY AppendProperties DEF Path, At
<1>2. p[Len(d) + 1] = n /\ Len(d) \in Nat
  BY DEF At, Path
<1>3. p # <<>>
  BY AppendProperties DEF At, Path
<1> HIDE DEF p
<1>4. ASSUME NEW m \in 0..Len(d)
      PROVE  SubSeq(p, 1, m) = SubSeq(d, 1, m)
  <2>1. m \in 0..Len(p) /\ m \in Nat
    BY <1>1, <1>2
  <2>2. /\ SubSeq(p, 1, m) \in Path /\ Len(SubSeq(p, 1, m)) = m
        /\ \A i \in 1..m : SubSeq(p, 1, m)[i] = p[i]
    BY <1>1, <2>1, PathBasics
  <2>3. /\ SubSeq(d, 1, m) \in Path /\ Len(SubSeq(d, 1, m)) = m
        /\ \A i \in 1..m : SubSeq(d, 1, m)[i] = d[i]
    BY PathBasics
  <2>4. \A i \in 1..m : p[i] = d[i]
    BY <1>1, <1>2
  <2>5. QED
    BY <2>2, <2>3, <2>4, SeqEqual DEF Path
<1>5. Parent(p) = d
  <2>1. Len(p) - 1 = Len(d) /\ Len(d) \in 0..Len(d)
    BY <1>1, <1>2
  <2>2. SubSeq(p, 1, Len(d)) = SubSeq(d, 1, Len(d))
    BY <1>4, <2>1
  <2>3. QED
    BY <2>1, <2>2, PathBasics DEF Parent
<1>6. QED
  BY <1>1, <1>2, <1>3, <1>4, <1>5 DEF Proper, NameOf, p

\* The folder a proper path is in, and its name there.
LEMMA ParentOf ==
  ASSUME NEW p \in Proper
  PROVE  /\ Parent(p) \in Path /\ Len(Parent(p)) = Len(p) - 1 /\ Len(p) \in Nat \ {0}
         /\ NameOf(p) \in Names /\ Under(Parent(p), p)
         /\ \A m \in 0..(Len(p) - 1) : SubSeq(Parent(p), 1, m) = SubSeq(p, 1, m)
<1>1. p \in Path /\ Len(p) \in Nat \ {0}
  BY PathBasics DEF Proper
<1>2. Len(p) - 1 \in 0..Len(p) /\ Len(p) \in 1..Len(p)
  BY <1>1
<1>3. /\ Parent(p) \in Path /\ Len(Parent(p)) = Len(p) - 1
      /\ \A m \in 0..(Len(p) - 1) : SubSeq(Parent(p), 1, m) = SubSeq(p, 1, m)
  BY <1>1, <1>2, PathBasics DEF Parent
<1>4. NameOf(p) \in Names
  BY <1>1, <1>2, ElementOfSeq DEF NameOf, Path
<1>5. Under(Parent(p), p)
  BY <1>1, <1>3 DEF Under, Parent
<1>6. QED
  BY <1>1, <1>3, <1>4, <1>5

\* What is in a folder of a folder is in that.
LEMMA UnderUnder ==
  ASSUME NEW p \in Path, NEW q \in Path, NEW r \in Path, From(p, q), From(q, r)
  PROVE  From(p, r) /\ (Under(p, q) \/ Under(q, r) => Under(p, r))
<1>1. /\ Len(p) \in Nat /\ Len(q) \in Nat /\ Len(r) \in Nat
      /\ Len(p) <= Len(q) /\ Len(q) <= Len(r)
  BY PathBasics DEF From, Under
<1>2. CASE q = p \/ r = q
  BY <1>2 DEF From
<1>3. CASE Under(p, q) /\ Under(q, r)
  <2>1. Len(q) \in 0..Len(r) /\ Len(p) \in 0..Len(q) /\ Len(r) > Len(p)
    BY <1>1, <1>3 DEF Under
  <2>2. SubSeq(SubSeq(r, 1, Len(q)), 1, Len(p)) = SubSeq(r, 1, Len(p))
    BY <2>1, PathBasics
  <2>3. SubSeq(r, 1, Len(p)) = p
    BY <1>3, <2>2 DEF Under
  <2>4. QED
    BY <2>1, <2>3 DEF From, Under
<1>4. QED
  BY <1>2, <1>3 DEF From, Under

\* The folders a path is in, above a folder it is in and below.
LEMMA Above ==
  ASSUME NEW p \in Path, NEW q \in Path, From(p, q), NEW n \in 0..Len(q)
  PROVE  /\ n <= Len(p) => SubSeq(q, 1, n) = SubSeq(p, 1, n)
         /\ n >= Len(p) => From(p, SubSeq(q, 1, n))
         /\ From(SubSeq(q, 1, n), q)
<1>1. Len(p) \in Nat /\ Len(q) \in Nat /\ Len(p) <= Len(q) /\ SubSeq(q, 1, Len(p)) = p
  BY PathBasics DEF From, Under
<1>2. n \in Nat /\ SubSeq(q, 1, n) \in Path /\ Len(SubSeq(q, 1, n)) = n
  BY <1>1, PathBasics
<1>3. ASSUME n <= Len(p)
      PROVE  SubSeq(q, 1, n) = SubSeq(p, 1, n)
  <2>1. n \in 0..Len(p) /\ Len(p) \in 0..Len(q)
    BY <1>1, <1>2, <1>3
  <2>2. SubSeq(SubSeq(q, 1, Len(p)), 1, n) = SubSeq(q, 1, n)
    BY <2>1, PathBasics
  <2>3. QED
    BY <1>1, <2>2
<1>4. ASSUME n >= Len(p)
      PROVE  From(p, SubSeq(q, 1, n))
  <2>1. Len(p) \in 0..n
    BY <1>1, <1>2, <1>4
  <2>2. SubSeq(SubSeq(q, 1, n), 1, Len(p)) = p
    BY <1>1, <2>1, PathBasics
  <2>3. CASE n = Len(p)
    BY <1>1, <2>3 DEF From
  <2>4. CASE n > Len(p)
    BY <1>2, <2>2, <2>4 DEF From, Under
  <2>5. n \in Int /\ Len(p) \in Int /\ n >= Len(p)
    BY <1>1, <1>2, <1>4
  <2>6. n = Len(p) \/ n > Len(p)
    BY <2>5
  <2>7. QED
    BY <2>3, <2>4, <2>6
<1>5. From(SubSeq(q, 1, n), q)
  <2>1. CASE n = Len(q)
    BY <2>1, PathBasics DEF From
  <2>2. CASE n < Len(q)
    BY <1>2, <2>2 DEF From, Under
  <2>3. QED
    BY <1>1, <1>2, <2>1, <2>2
<1>6. QED
  BY <1>3, <1>4, <1>5

\* A path seen from another folder,
LEMMA MovedPath ==
  ASSUME NEW p \in Path, NEW q \in Path, NEW r \in Path, From(p, q)
  PROVE  /\ Moved(q, p, r) \in Path
         /\ Len(p) <= Len(q)
         /\ Len(Moved(q, p, r)) = Len(r) + Len(q) - Len(p)
         /\ \A i \in 1..Len(r) : Moved(q, p, r)[i] = r[i]
         /\ \A i \in (Len(r) + 1)..(Len(r) + Len(q) - Len(p)) :
              Moved(q, p, r)[i] = q[i - Len(r) + Len(p)]
         /\ From(r, Moved(q, p, r))
<1> DEFINE s == SubSeq(q, Len(p) + 1, Len(q))
<1>1. /\ Len(p) \in Nat /\ Len(q) \in Nat /\ Len(r) \in Nat /\ Len(p) <= Len(q)
      /\ SubSeq(q, 1, Len(p)) = p
  BY PathBasics DEF From, Under
<1>2. \A i \in (Len(p) + 1)..Len(q) : q[i] \in Names
  BY <1>1, ElementOfSeq DEF Path
<1>3. /\ s \in Seq(Names)
      /\ Len(s) = IF Len(p) + 1 <= Len(q) THEN Len(q) - (Len(p) + 1) + 1 ELSE 0
      /\ \A i \in 1..(Len(q) - (Len(p) + 1) + 1) : s[i] = q[(Len(p) + 1) + i - 1]
  BY <1>1, <1>2, SubSeqProperties
<1>4. Len(s) = Len(q) - Len(p)
  BY <1>1, <1>3
<1>5. \A i \in 1..Len(s) : s[i] = q[i + Len(p)]
  BY <1>1, <1>3, <1>4
<1> HIDE DEF s
<1>6. /\ r \o s \in Seq(Names) /\ Len(r \o s) = Len(r) + Len(s)
      /\ \A i \in 1..(Len(r) + Len(s)) : (r \o s)[i] = IF i <= Len(r) THEN r[i] ELSE s[i - Len(r)]
  BY <1>3, ConcatProperties DEF Path
<1>7. Moved(q, p, r) = r \o s
  BY DEF Moved, s
<1>8. Moved(q, p, r) \in Path /\ Len(Moved(q, p, r)) = Len(r) + Len(q) - Len(p)
  BY <1>1, <1>4, <1>6, <1>7 DEF Path
<1>9. \A i \in 1..Len(r) : Moved(q, p, r)[i] = r[i]
  BY <1>1, <1>4, <1>6, <1>7
<1>10. ASSUME NEW i \in (Len(r) + 1)..(Len(r) + Len(q) - Len(p))
       PROVE  Moved(q, p, r)[i] = q[i - Len(r) + Len(p)]
  <2>1. i \in 1..(Len(r) + Len(s)) /\ ~(i <= Len(r)) /\ i - Len(r) \in 1..Len(s)
    BY <1>1, <1>4
  <2>2. QED
    BY <1>5, <1>6, <1>7, <2>1
<1>11. From(r, Moved(q, p, r))
  <2>1. Len(r) \in 0..Len(Moved(q, p, r))
    BY <1>1, <1>8
  <2>2. /\ SubSeq(Moved(q, p, r), 1, Len(r)) \in Path
        /\ Len(SubSeq(Moved(q, p, r), 1, Len(r))) = Len(r)
        /\ \A i \in 1..Len(r) : SubSeq(Moved(q, p, r), 1, Len(r))[i] = r[i]
    BY <1>8, <1>9, <2>1, PathBasics
  <2>3. SubSeq(Moved(q, p, r), 1, Len(r)) = r
    BY <2>2, SeqEqual DEF Path
  <2>4. CASE Len(q) = Len(p)
    <3>1. Len(Moved(q, p, r)) = Len(r)
      BY <1>1, <1>8, <2>4
    <3>2. QED
      BY <1>8, <2>3, <3>1, PathBasics DEF From
  <2>5. CASE Len(q) > Len(p)
    BY <1>1, <1>8, <2>3, <2>5 DEF From, Under
  <2>6. QED
    BY <1>1, <2>4, <2>5
<1>12. QED
  BY <1>1, <1>8, <1>9, <1>10, <1>11

\* and back.
LEMMA MovedBack ==
  ASSUME NEW p \in Path, NEW q \in Path, NEW r \in Path, From(p, q)
  PROVE  /\ Moved(Moved(q, p, r), r, p) = q
         /\ Moved(p, p, r) = r
         /\ Under(p, q) <=> Under(r, Moved(q, p, r))
<1> DEFINE m == Moved(q, p, r)
           b == Moved(m, r, p)
<1>1. Len(p) \in Nat /\ Len(q) \in Nat /\ Len(r) \in Nat
  BY PathBasics
<1>2. /\ m \in Path /\ Len(p) <= Len(q) /\ Len(m) = Len(r) + Len(q) - Len(p)
      /\ \A i \in (Len(r) + 1)..(Len(r) + Len(q) - Len(p)) : m[i] = q[i - Len(r) + Len(p)]
      /\ From(r, m)
  BY MovedPath
<1> HIDE DEF m
<1>3. /\ b \in Path /\ Len(b) = Len(p) + Len(m) - Len(r)
      /\ \A i \in 1..Len(p) : b[i] = p[i]
      /\ \A i \in (Len(p) + 1)..(Len(p) + Len(m) - Len(r)) : b[i] = m[i - Len(p) + Len(r)]
  BY <1>2, MovedPath
<1> HIDE DEF b
<1>4. Len(b) = Len(q)
  BY <1>1, <1>2, <1>3
<1>5. ASSUME NEW i \in 1..Len(q)
      PROVE  b[i] = q[i]
  <2>1. CASE i <= Len(p)
    <3>1. i \in 1..Len(p) /\ Len(p) \in 0..Len(q)
      BY <1>1, <1>2, <2>1
    <3>2. SubSeq(q, 1, Len(p)) = p /\ \A k \in 1..Len(p) : SubSeq(q, 1, Len(p))[k] = q[k]
      BY <3>1, PathBasics DEF From, Under
    <3>3. QED
      BY <1>3, <3>1, <3>2
  <2>2. CASE i > Len(p)
    <3>1. /\ i \in (Len(p) + 1)..(Len(p) + Len(m) - Len(r))
          /\ i - Len(p) + Len(r) \in (Len(r) + 1)..(Len(r) + Len(q) - Len(p))
          /\ (i - Len(p) + Len(r)) - Len(r) + Len(p) = i
      BY <1>1, <1>2, <2>2
    <3>2. QED
      BY <1>2, <1>3, <3>1
  <2>3. QED
    BY <1>1, <2>1, <2>2
<1>6. b = q
  BY <1>3, <1>4, <1>5, SeqEqual DEF Path
<1>7. Moved(p, p, r) = r
  <2>1. From(p, p)
    BY DEF From
  <2>2. /\ Moved(p, p, r) \in Path /\ Len(Moved(p, p, r)) = Len(r) + Len(p) - Len(p)
        /\ \A i \in 1..Len(r) : Moved(p, p, r)[i] = r[i]
    BY <2>1, MovedPath
  <2>3. Len(Moved(p, p, r)) = Len(r)
    BY <1>1, <2>2
  <2>4. QED
    BY <2>2, <2>3, SeqEqual DEF Path
<1>8. Under(p, q) <=> Under(r, m)
  <2>1. Under(p, q) <=> Len(q) > Len(p)
    BY <1>1 DEF From, Under
  <2>2. Under(r, m) <=> Len(m) > Len(r)
    BY <1>1, <1>2 DEF From, Under
  <2>3. Len(q) > Len(p) <=> Len(m) > Len(r)
    BY <1>1, <1>2
  <2>4. QED
    BY <2>1, <2>2, <2>3
<1>9. QED
  BY <1>6, <1>7, <1>8 DEF b, m

\* The folders it is in are those of the other folder, and those it was in, moved too.
LEMMA MovedAbove ==
  ASSUME NEW p \in Path, NEW q \in Path, NEW r \in Path, From(p, q),
         NEW n \in 0..Len(Moved(q, p, r))
  PROVE  /\ n <= Len(r) => SubSeq(Moved(q, p, r), 1, n) = SubSeq(r, 1, n)
         /\ n >= Len(r) =>
              /\ n - Len(r) + Len(p) \in 0..Len(q)
              /\ From(p, SubSeq(q, 1, n - Len(r) + Len(p)))
              /\ SubSeq(Moved(q, p, r), 1, n) = Moved(SubSeq(q, 1, n - Len(r) + Len(p)), p, r)
<1> DEFINE m == Moved(q, p, r)
           k == n - Len(r) + Len(p)
           s == SubSeq(q, 1, k)
<1>1. Len(p) \in Nat /\ Len(q) \in Nat /\ Len(r) \in Nat
  BY PathBasics
<1>2. /\ m \in Path /\ Len(p) <= Len(q) /\ Len(m) = Len(r) + Len(q) - Len(p)
      /\ \A i \in 1..Len(r) : m[i] = r[i]
      /\ \A i \in (Len(r) + 1)..(Len(r) + Len(q) - Len(p)) : m[i] = q[i - Len(r) + Len(p)]
      /\ From(r, m)
  BY MovedPath
<1> HIDE DEF m
<1>3. n \in 0..Len(m) /\ n \in Nat
  BY DEF m
<1>4. n <= Len(r) => SubSeq(m, 1, n) = SubSeq(r, 1, n)
  BY <1>2, <1>3, Above
<1>5. ASSUME n >= Len(r)
      PROVE  /\ k \in 0..Len(q) /\ From(p, s) /\ SubSeq(m, 1, n) = Moved(s, p, r)
  <2>1. k \in 0..Len(q) /\ k >= Len(p) /\ k \in Nat
    BY <1>1, <1>2, <1>3, <1>5
  <2> HIDE DEF k
  <2>2. s \in Path /\ Len(s) = k /\ From(p, s) /\ \A i \in 1..k : s[i] = q[i]
    BY <2>1, Above, PathBasics
  <2> HIDE DEF s
  <2>3. /\ Moved(s, p, r) \in Path /\ Len(Moved(s, p, r)) = Len(r) + k - Len(p)
        /\ \A i \in 1..Len(r) : Moved(s, p, r)[i] = r[i]
        /\ \A i \in (Len(r) + 1)..(Len(r) + k - Len(p)) :
             Moved(s, p, r)[i] = s[i - Len(r) + Len(p)]
    BY <2>2, MovedPath
  <2>4. Len(r) + k - Len(p) = n
    BY <1>1, <1>3, <2>1 DEF k
  <2>5. /\ SubSeq(m, 1, n) \in Path /\ Len(SubSeq(m, 1, n)) = n
        /\ \A i \in 1..n : SubSeq(m, 1, n)[i] = m[i]
    BY <1>2, <1>3, PathBasics
  <2>6. ASSUME NEW i \in 1..n
        PROVE  SubSeq(m, 1, n)[i] = Moved(s, p, r)[i]
    <3>1. CASE i <= Len(r)
      BY <1>1, <1>2, <2>3, <2>5, <3>1
    <3>2. CASE i > Len(r)
      <4>1. /\ i \in (Len(r) + 1)..(Len(r) + k - Len(p))
            /\ i \in (Len(r) + 1)..(Len(r) + Len(q) - Len(p))
            /\ i - Len(r) + Len(p) \in 1..k
        BY <1>1, <1>2, <1>3, <2>1, <2>4, <3>2
      <4>2. QED
        BY <1>2, <2>2, <2>3, <2>5, <4>1
    <3>3. QED
      BY <1>1, <1>3, <3>1, <3>2
  <2>7. QED
    BY <2>1, <2>2, <2>3, <2>4, <2>5, <2>6, SeqEqual DEF Path
<1>6. QED
  BY <1>4, <1>5 DEF m, k, s

-----------------------------------------------------------------------------
(* Trees.                                                                  *)

\* A tree that hangs together: finitely many paths, each in a folder, to the root.
Hung(t) ==
  /\ IsFiniteSet(DOMAIN t) /\ DOMAIN t \subseteq Path
  /\ <<>> \in DOMAIN t /\ t[<<>>] = Folder
  /\ \A p \in DOMAIN t \ {<<>>} : Parent(p) \in DOMAIN t /\ t[Parent(p)] = Folder

\* Every set of numbers but the empty one has a least member.
LEMMA SmallestNat ==
  ASSUME NEW S, S \subseteq Nat, S # {}
  PROVE  \E m \in S : \A n \in S : m <= n
<1>1. IsWellFoundedOn(OpToRel(<, Nat), Nat)
  BY NatLessThanWellFounded
<1>2. PICK m \in S : \A n \in S : ~(<<n, m>> \in OpToRel(<, Nat))
  BY <1>1, WFMin
<1>3. \A n \in S : ~(n < m)
  BY <1>2 DEF OpToRel
<1>4. QED
  BY <1>3

\* The kinds of bodies are apart.
LEMMA KindsApart ==
  /\ Folder.kind = "folder" /\ Part.kind = "part"
  /\ \A X : Text(X).kind = "text" /\ Text(X).of = X
  /\ \A X : Zip(X).kind = "zip" /\ Zip(X).of = X
BY DEF Folder, Part, Text, Zip

\* The paths a path is in are folders of the tree.
LEMMA InFolders ==
  ASSUME NEW t, Hung(t), NEW p \in DOMAIN t, NEW q \in Path, From(q, p)
  PROVE  q \in DOMAIN t /\ (Under(q, p) => t[q] = Folder)
<1> DEFINE Bad == {k \in 1..Len(p) : ~(/\ SubSeq(p, 1, Len(p) - k) \in DOMAIN t
                                       /\ t[SubSeq(p, 1, Len(p) - k)] = Folder)}
<1>1. p \in Path /\ Len(p) \in Nat /\ Len(q) \in Nat
  BY PathBasics DEF Hung
<1>2. Bad = {}
  <2> SUFFICES ASSUME Bad # {} PROVE FALSE
    OBVIOUS
  <2>1. PICK k \in Bad : \A n \in Bad : k <= n
    <3>1. Bad \subseteq Nat
      BY <1>1
    <3> HIDE DEF Bad
    <3>2. QED
      BY <3>1, SmallestNat
  <2>2. k \in 1..Len(p) /\ k \in Nat /\ k - 1 \notin Bad
    <3>1. k \in 1..Len(p) /\ k \in Nat /\ ~(k <= k - 1)
      BY <1>1, <2>1
    <3> HIDE DEF Bad
    <3>2. QED
      BY <2>1, <3>1
  <2> DEFINE s == SubSeq(p, 1, Len(p) - (k - 1))
  <2>3. s \in DOMAIN t
    <3>1. CASE k = 1
      <4>1. Len(p) - (k - 1) = Len(p)
        BY <1>1, <3>1
      <4>2. QED
        BY <1>1, <4>1, PathBasics
    <3>2. CASE k # 1
      BY <1>1, <2>2, <3>2
    <3>3. QED
      BY <3>1, <3>2
  <2>4. Len(p) - (k - 1) \in 1..Len(p) /\ Len(p) - (k - 1) \in 0..Len(p)
        /\ Len(p) - k \in 0..(Len(p) - (k - 1)) /\ (Len(p) - (k - 1)) - 1 = Len(p) - k
    BY <1>1, <2>2
  <2>5. s \in Path /\ Len(s) = Len(p) - (k - 1)
        /\ SubSeq(s, 1, Len(p) - k) = SubSeq(p, 1, Len(p) - k)
    BY <1>1, <2>4, PathBasics
  <2> HIDE DEF s
  <2>6. s # <<>>
    <3>1. Len(s) # 0
      BY <2>4, <2>5
    <3>2. QED
      BY <2>5, <3>1, PathBasics
  <2>7. Parent(s) = SubSeq(p, 1, Len(p) - k)
    BY <2>4, <2>5 DEF Parent
  <2>8. Parent(s) \in DOMAIN t /\ t[Parent(s)] = Folder
    <3> HIDE DEF Bad
    <3>1. s \in DOMAIN t \ {<<>>}
      BY <2>3, <2>6
    <3>2. QED
      BY <3>1 DEF Hung
  <2>9. QED
    BY <2>1, <2>7, <2>8
<1>3. CASE Under(q, p)
  <2>1. Len(p) - Len(q) \in 1..Len(p) /\ Len(p) - (Len(p) - Len(q)) = Len(q)
    BY <1>1, <1>3 DEF Under
  <2>2. SubSeq(p, 1, Len(q)) \in DOMAIN t /\ t[SubSeq(p, 1, Len(q))] = Folder
    BY <1>2, <2>1
  <2>3. QED
    BY <1>3, <2>2 DEF Under
<1>4. QED
  BY <1>1, <1>3 DEF From, Under

\* A file in a folder, or in the place of another.
LEMMA HungWith ==
  ASSUME NEW t, Hung(t), NEW p \in Proper, NEW w,
         Parent(p) \in DOMAIN t, t[Parent(p)] = Folder,
         p \notin DOMAIN t \/ t[p] # Folder,
         DOMAIN w = DOMAIN t \cup {p}, \A q \in DOMAIN t : q # p => w[q] = t[q]
  PROVE  Hung(w)
<1>1. IsFiniteSet(DOMAIN w)
  BY FS_AddElement DEF Hung
<1>2. DOMAIN w \subseteq Path /\ p # <<>>
  BY DEF Hung, Proper
<1>3. <<>> \in DOMAIN w /\ w[<<>>] = Folder
  BY <1>2 DEF Hung
<1>4. ASSUME NEW q \in DOMAIN w \ {<<>>}
      PROVE  Parent(q) \in DOMAIN w /\ w[Parent(q)] = Folder
  <2>1. Parent(q) \in DOMAIN t /\ t[Parent(q)] = Folder
    BY <1>4 DEF Hung
  <2>2. Parent(q) # p
    BY <2>1
  <2>3. QED
    BY <2>1, <2>2
<1>5. QED
  BY <1>1, <1>2, <1>3, <1>4 DEF Hung

\* What goes takes what is in it along.
LEMMA HungWithout ==
  ASSUME NEW t, Hung(t), NEW S, <<>> \notin S,
         \A q \in DOMAIN t \ {<<>>} : Parent(q) \in S => q \in S
  PROVE  Hung(Without(t, S))
<1> DEFINE w == Without(t, S)
<1>1. DOMAIN w = DOMAIN t \ S /\ \A q \in DOMAIN w : w[q] = t[q]
  BY DEF Without
<1> HIDE DEF w
<1>2. IsFiniteSet(DOMAIN w)
  BY <1>1, FS_Subset DEF Hung
<1>3. QED
  BY <1>1, <1>2 DEF Hung, w

\* makeUniqueName finds a name that is not taken, in the same folder.
LEMMA UniqueIsNew ==
  ASSUME Hung(tree), NEW p \in Proper
  PROVE  Unique(p) \in Proper \ Paths /\ Parent(Unique(p)) = Parent(p)
<1> DEFINE Named(k) == At(Parent(p), Tilde(NameOf(p), k))
           N == Cardinality(Paths)
           Free == {k \in 0..N : Named(k) \notin Paths}
<1>1. Parent(p) \in Path /\ NameOf(p) \in Names
  BY ParentOf
<1>2. IsFiniteSet(Paths) /\ N \in Nat
  BY FS_CardinalityType DEF Hung, Paths
<1>3. ASSUME NEW k \in Nat
      PROVE  /\ Named(k) \in Proper /\ Parent(Named(k)) = Parent(p)
             /\ NameOf(Named(k)).tildes = NameOf(p).tildes + k
  <2>1. /\ Tilde(NameOf(p), k) \in Names
        /\ Tilde(NameOf(p), k).tildes = NameOf(p).tildes + k
    BY <1>1 DEF Tilde, Names
  <2>2. QED
    BY <1>1, <2>1, InFolder
<1> HIDE DEF N
<1>4. Free # {}
  <2> SUFFICES ASSUME Free = {} PROVE FALSE
    OBVIOUS
  <2> DEFINE g == [k \in 0..N |-> Named(k)]
  <2>1. g \in [0..N -> Paths]
    BY DEF Named
  <2>2. IsFiniteSet(0..N) /\ Cardinality(0..N) = N + 1
    BY <1>2, FS_Interval
  <2>3. Cardinality(Paths) < Cardinality(0..N)
    BY <1>2, <2>2 DEF N
  <2>4. \A i \in 0..N : g[i] = Named(i)
    OBVIOUS
  <2> HIDE DEF g
  <2>5. PICK i, k \in 0..N : i # k /\ g[i] = g[k]
    BY <1>2, <2>1, <2>2, <2>3, FS_PigeonHole
  <2>6. Named(i) = Named(k)
    BY <2>4, <2>5
  <2> HIDE DEF Named
  <2>7. i \in Nat /\ k \in Nat
    BY <1>2
  <2>8. NameOf(p).tildes + i = NameOf(p).tildes + k
    BY <1>3, <2>6, <2>7
  <2>9. NameOf(p).tildes \in Nat
    BY <1>1 DEF Names
  <2>10. QED
    BY <2>5, <2>7, <2>8, <2>9
<1>5. PICK k \in Free : \A n \in Free : k <= n
  <2>1. Free \subseteq Nat
    BY <1>2
  <2> HIDE DEF Free
  <2>2. QED
    BY <1>4, <2>1, SmallestNat
<1>6. k \in 0..N /\ Named(k) \notin Paths /\ \A i \in 0..(k - 1) : Named(i) \in Paths
  <2>1. k \in 0..N /\ Named(k) \notin Paths
    BY <1>5
  <2>2. ASSUME NEW i \in 0..(k - 1) PROVE Named(i) \in Paths
    <3>1. i \in 0..N /\ ~(k <= i)
      BY <1>2, <2>1
    <3>2. i \notin Free
      <4> HIDE DEF Free
      <4>1. QED
        BY <1>5, <3>1
    <3>3. QED
      BY <3>1, <3>2
  <2>3. QED
    BY <2>1, <2>2
<1> DEFINE Is(n) == Named(n) \notin Paths /\ \A i \in 0..(n - 1) : Named(i) \in Paths
           u == CHOOSE n \in 0..N : Is(n)
<1>7. u \in 0..N /\ Is(u)
  <2>1. \E n \in 0..N : Is(n)
    BY <1>6
  <2> HIDE DEF Is
  <2>2. QED
    BY <2>1
<1>8. Unique(p) = Named(u)
  BY DEF Unique, N
<1> HIDE DEF u
<1>9. u \in Nat /\ Named(u) \notin Paths
  BY <1>2, <1>7
<1> HIDE DEF Named
<1>10. QED
  BY <1>3, <1>8, <1>9

\* The folder of a path seen from elsewhere is its folder seen from there.
LEMMA MovedParent ==
  ASSUME NEW p \in Path, NEW q \in Path, NEW r \in Path, Under(p, q)
  PROVE  /\ q \in Proper /\ Moved(q, p, r) \in Proper /\ From(p, Parent(q))
         /\ Parent(Moved(q, p, r)) = Moved(Parent(q), p, r)
<1> DEFINE m == Moved(q, p, r)
           n == Len(m) - 1
<1>1. /\ Len(p) \in Nat /\ Len(q) \in Nat /\ Len(r) \in Nat /\ Len(p) < Len(q) /\ From(p, q)
  BY PathBasics DEF Under, From
<1>2. m \in Path /\ Len(m) = Len(r) + Len(q) - Len(p)
  BY <1>1, MovedPath
<1> HIDE DEF m
<1>3. n \in 0..Len(m) /\ n >= Len(r) /\ n - Len(r) + Len(p) = Len(q) - 1
  BY <1>1, <1>2
<1>4. From(p, SubSeq(q, 1, Len(q) - 1)) /\ SubSeq(m, 1, n) = Moved(SubSeq(q, 1, Len(q) - 1), p, r)
  <2> HIDE DEF n
  <2>1. /\ From(p, SubSeq(q, 1, n - Len(r) + Len(p)))
        /\ SubSeq(m, 1, n) = Moved(SubSeq(q, 1, n - Len(r) + Len(p)), p, r)
    BY <1>1, <1>3, MovedAbove DEF m
  <2>2. QED
    BY <1>3, <2>1
<1>5. Len(m) # 0 /\ Len(q) # 0
  BY <1>1, <1>2
<1>6. m # <<>> /\ q # <<>>
  BY <1>2, <1>5, PathBasics
<1>7. QED
  BY <1>2, <1>4, <1>6 DEF Parent, Proper, m

\* As many paths as there were.
LEMMA FinitelyMoved ==
  ASSUME NEW S, IsFiniteSet(S), NEW p, NEW r
  PROVE  IsFiniteSet({Moved(q, p, r) : q \in S})
<1> DEFINE T == {Moved(q, p, r) : q \in S}
           g == [q \in S |-> Moved(q, p, r)]
<1>1. g \in Surjection(S, T)
  <2>1. g \in [S -> T]
    BY DEF Moved
  <2>2. \A t \in T : \E q \in S : g[q] = t
    BY DEF Moved
  <2>3. QED
    BY <2>1, <2>2 DEF Surjection
<1>2. QED
  BY <1>1, FS_Surjection

\* With a part that can be copied goes the folder it is in.
LEMMA FittingFolders ==
  ASSUME Hung(tree), NEW f \in Paths, NEW to \in Proper
  PROVE  \A q \in Fitting(f, to) \ {f} : Parent(q) \in Fitting(f, to)
<1> SUFFICES ASSUME NEW q \in Fitting(f, to) \ {f} PROVE Parent(q) \in Fitting(f, to)
  OBVIOUS
<1> DEFINE All == Below(f) \cup {f}
           Meet(s, r) == r \in Paths /\ IsFolder(r) # IsFolder(s)
<1>1. /\ q \in Paths /\ Under(f, q) /\ IsFolder(Parent(to))
      /\ \A p \in All : p = q \/ Under(p, q) => ~Meet(p, Moved(p, f, to))
  BY DEF Fitting, Below
<1>2. Paths \subseteq Path
  BY DEF Hung, Paths
<1>3. q \in Proper /\ From(f, Parent(q))
  BY <1>1, <1>2, MovedParent
<1>4. Parent(q) \in Paths /\ Parent(q) \in Path /\ Under(Parent(q), q)
  BY <1>1, <1>3, ParentOf DEF Hung, Paths, Proper
<1>5. Parent(q) \in All
  BY <1>3, <1>4 DEF Below, From
<1>6. \A p \in All : From(p, Parent(q)) => Under(p, q)
  BY <1>1, <1>2, <1>4, UnderUnder DEF Below, From
<1>7. \A p \in All : From(p, Parent(q)) => ~Meet(p, Moved(p, f, to))
  BY <1>1, <1>6
<1>8. QED
  BY <1>1, <1>5, <1>7 DEF Fitting, From

\* What a copy may leave: a tree that hangs together, where nothing changes
\* unless there is something under the new name.
LEMMA HungCopied ==
  ASSUME Hung(tree), NEW f \in Paths, NEW to \in Proper,
         NEW S, S \subseteq Fitting(f, to), \A q \in S \ {f} : Parent(q) \in S,
         NEW X, \A q \in X : ~IsFolder(q)
  PROVE  /\ Hung(Copied(f, to, S, X))
         /\ Paths \subseteq DOMAIN Copied(f, to, S, X)
         /\ \A s \in DOMAIN Copied(f, to, S, X) :
              Copied(f, to, S, X)[s] \in {tree[q] : q \in Paths} \cup {Part, Text({})}
         /\ to \notin Paths => \A s \in Paths : Copied(f, to, S, X)[s] = tree[s]
         /\ f \in S => to \in DOMAIN Copied(f, to, S, X)
         /\ f \in S /\ f \notin X => Copied(f, to, S, X)[to] = Read(f)
         /\ ~IsFolder(f) /\ f # to => Copied(f, to, S, X)[f] = tree[f]
         /\ \A s \in Paths : IsFolder(s) => Copied(f, to, S, X)[s] = Folder
<1> DEFINE m(q) == Moved(q, f, to)
           new == {m(q) : q \in S}
           Copy(q) == IF q \in X THEN Part ELSE Read(q)
           C == Copied(f, to, S, X)
<1>1. Paths \subseteq Path /\ to \in Path /\ f \in Path /\ IsFiniteSet(Paths)
  BY DEF Hung, Paths, Proper
<1>2. ASSUME NEW q \in S
      PROVE  /\ q \in Paths /\ q \in Path /\ From(f, q) /\ IsFolder(Parent(to))
             /\ (m(q) \in Paths => IsFolder(m(q)) = IsFolder(q))
  BY <1>1, <1>2 DEF Fitting, Below, From
<1>3. ASSUME NEW q \in S
      PROVE  m(q) \in Path /\ From(to, m(q)) /\ Moved(m(q), to, f) = q
  BY <1>1, <1>2, MovedPath, MovedBack
<1>4. m(f) = to
  BY <1>1, MovedBack DEF From
<1>5. C = [q \in Paths \cup new |-> IF q \in new THEN Copy(Moved(q, to, f)) ELSE tree[q]]
  BY DEF Copied
<1>6. /\ DOMAIN C = Paths \cup new
      /\ \A s \in Paths : s \notin new => C[s] = tree[s]
  BY <1>5
<1>7. ASSUME NEW q \in S PROVE m(q) \in new /\ C[m(q)] = Copy(q)
  <2>1. m(q) \in new
    OBVIOUS
  <2>2. C[m(q)] = Copy(Moved(m(q), to, f))
    <3> HIDE DEF new, m, Copy, C
    <3>1. QED
      BY <1>5, <2>1
  <2>3. QED
    BY <1>3, <2>1, <2>2
<1> HIDE DEF C
<1>8. \A q \in S : IsFolder(q) => C[m(q)] = Folder
  BY <1>7, KindsApart DEF Read, IsFolder
<1>9. ASSUME NEW s \in Paths, IsFolder(s)
      PROVE  C[s] = Folder
  <2>1. CASE s \in new
    <3>1. PICK q \in S : s = m(q)
      BY <2>1
    <3>2. IsFolder(q)
      BY <1>2, <1>9, <3>1
    <3>3. QED
      BY <1>8, <3>1, <3>2
  <2>2. CASE s \notin new
    BY <1>6, <1>9, <2>2 DEF IsFolder
  <2>3. QED
    BY <2>1, <2>2
<1>10. ASSUME NEW s \in DOMAIN C \ {<<>>}
       PROVE  Parent(s) \in DOMAIN C /\ C[Parent(s)] = Folder
  <2>1. CASE s \in new
    <3>1. PICK q \in S : s = m(q)
      BY <2>1
    <3>2. CASE q = f
      BY <1>2, <1>4, <1>6, <1>9, <3>1, <3>2 DEF IsFolder
    <3>3. CASE q # f
      <4>1. Parent(q) \in S /\ Under(f, q) /\ q \in Path /\ q \in Paths
        BY <1>2, <3>3 DEF From
      <4>2. q \in Proper /\ Parent(m(q)) = m(Parent(q))
        BY <1>1, <4>1, MovedParent
      <4>3. IsFolder(Parent(q))
        BY <4>1, <4>2 DEF Hung, Paths, IsFolder, Proper
      <4>4. QED
        BY <1>6, <1>7, <1>8, <3>1, <4>1, <4>2, <4>3
    <3>4. QED
      BY <3>2, <3>3
  <2>2. CASE s \notin new
    <3>1. s \in Paths \ {<<>>}
      BY <1>6, <1>10, <2>2
    <3>2. Parent(s) \in Paths /\ IsFolder(Parent(s))
      BY <3>1 DEF Hung, Paths, IsFolder
    <3>3. QED
      BY <1>6, <1>9, <3>2
  <2>3. QED
    BY <2>1, <2>2
<1>11. Hung(C)
  <2>1. IsFiniteSet(DOMAIN C)
    <3>1. IsFiniteSet(S)
      <4>1. S \in SUBSET Paths
        BY <1>2
      <4>2. QED
        BY <1>1, <4>1, FS_Subset
    <3>2. IsFiniteSet(new)
      BY <3>1, FinitelyMoved
    <3> HIDE DEF new
    <3>3. QED
      BY <1>1, <1>6, <3>2, FS_Union
  <2>2. DOMAIN C \subseteq Path
    BY <1>1, <1>3, <1>6
  <2>3. <<>> \in DOMAIN C /\ C[<<>>] = Folder
    <3>1. <<>> \in Paths /\ IsFolder(<<>>)
      BY DEF Hung, Paths, IsFolder
    <3>2. QED
      BY <1>6, <1>9, <3>1
  <2>4. QED
    BY <1>10, <2>1, <2>2, <2>3 DEF Hung
<1>12. ASSUME NEW s \in DOMAIN C
       PROVE  C[s] \in {tree[q] : q \in Paths} \cup {Part, Text({})}
  <2>1. CASE s \in new
    <3>1. PICK q \in S : s = m(q)
      BY <2>1
    <3>2. q \in Paths /\ C[s] = Copy(q)
      BY <1>2, <1>7, <3>1
    <3>3. QED
      BY <3>2 DEF Read
  <2>2. CASE s \notin new
    BY <1>6, <1>12, <2>2
  <2>3. QED
    BY <2>1, <2>2
<1>13. ASSUME to \notin Paths, NEW s \in Paths
       PROVE  C[s] = tree[s]
  <2>1. s \notin new
    <3> SUFFICES ASSUME NEW q \in S, s = m(q) PROVE FALSE
      OBVIOUS
    <3>1. From(to, s) /\ s \in DOMAIN tree
      BY <1>3 DEF Paths
    <3>2. to \in DOMAIN tree
      BY <1>1, <3>1, InFolders
    <3>3. QED
      BY <1>13, <3>2 DEF Paths
  <2>2. QED
    BY <1>6, <2>1
<1>14. f \in S => to \in DOMAIN C /\ C[to] = Copy(f)
  BY <1>4, <1>6, <1>7
<1>15. ASSUME ~IsFolder(f), f # to
       PROVE  C[f] = tree[f]
  <2>1. f \notin new
    <3> SUFFICES ASSUME NEW q \in S, f = m(q) PROVE FALSE
      OBVIOUS
    <3>1. q = f
      <4>1. Under(f, q) => IsFolder(f)
        BY <1>1, <1>2, InFolders DEF Paths, IsFolder, From
      <4>2. QED
        BY <1>2, <1>15, <4>1 DEF From
    <3>2. QED
      BY <1>4, <1>15, <3>1
  <2>2. QED
    BY <1>6, <2>1
<1>16. QED
  BY <1>6, <1>9, <1>11, <1>12, <1>13, <1>14, <1>15 DEF C

\* A copy that is made, stopped or cut short is of parts that can be copied.
LEMMA CopyParts ==
  ASSUME Hung(tree), NEW f \in Paths, NEW to \in Proper,
         NEW t, \/ t = Copied(f, to, Fitting(f, to), {})
                \/ t \in Stopped(f, to) \/ t \in Remains(f, to)
  PROVE  \E S, X : /\ t = Copied(f, to, S, X)
                   /\ S \subseteq Fitting(f, to) /\ (\A q \in S \ {f} : Parent(q) \in S)
                   /\ \A q \in X : ~IsFolder(q)
<1> DEFINE fit == Fitting(f, to)
<1>1. \A q \in fit \ {f} : Parent(q) \in fit
  BY FittingFolders
<1>2. CASE t = Copied(f, to, fit, {})
  BY <1>1, <1>2
<1>3. CASE t \in Stopped(f, to)
  BY <1>3 DEF Stopped, Begun
<1>4. CASE t \in Remains(f, to)
  <2>1. PICK S \in Begun(f, fit), X \in {{}} \cup {{q} : q \in {q \in fit : ~IsFolder(q)}} :
          t = Copied(f, to, S, X)
    BY <1>4 DEF Remains
  <2>2. \A q \in X : ~IsFolder(q)
    OBVIOUS
  <2>3. QED
    BY <2>1, <2>2 DEF Begun
<1>5. QED
  BY <1>2, <1>3, <1>4

\* What a copy may leave when it is made, stopped or cut short.
LEMMA CopiesHang ==
  ASSUME Hung(tree), NEW f \in Paths, NEW to \in Proper,
         NEW t, \/ t = Copied(f, to, Fitting(f, to), {})
                \/ t \in Stopped(f, to) \/ t \in Remains(f, to)
  PROVE  /\ Hung(t) /\ Paths \subseteq DOMAIN t
         /\ \A s \in DOMAIN t : t[s] \in {tree[q] : q \in Paths} \cup {Part, Text({})}
         /\ to \notin Paths => \A s \in Paths : t[s] = tree[s]
<1>1. PICK S, X : /\ t = Copied(f, to, S, X)
                  /\ S \subseteq Fitting(f, to) /\ (\A q \in S \ {f} : Parent(q) \in S)
                  /\ \A q \in X : ~IsFolder(q)
  BY CopyParts
<1>2. QED
  BY <1>1, HungCopied

\* What Rename makes of the tree.
Renamed(p, r) ==
  LET S == Below(p) \cup {p}
      new == {Moved(q, p, r) : q \in S}
  IN  [q \in (Paths \ S) \cup new |-> tree[IF q \in new THEN Moved(q, r, p) ELSE q]]

\* A renamed path keeps what is in it, and nothing else changes but what is replaced.
LEMMA HungRenamed ==
  ASSUME Hung(tree), NEW p \in Paths \ {<<>>}, NEW r \in Proper, Parent(r) = Parent(p),
         Below(r) = {}
  PROVE  /\ Hung(Renamed(p, r))
         /\ \A s \in DOMAIN Renamed(p, r) : Renamed(p, r)[s] \in {tree[q] : q \in Paths}
         /\ \A q \in Paths \ {r} : tree[q] \in {Renamed(p, r)[s] : s \in DOMAIN Renamed(p, r)}
<1> DEFINE S == Below(p) \cup {p}
           m(q) == Moved(q, p, r)
           new == {m(q) : q \in S}
           t == Renamed(p, r)
<1>0. t = [q \in (Paths \ S) \cup new |-> tree[IF q \in new THEN Moved(q, r, p) ELSE q]]
  BY DEF Renamed
<1> HIDE DEF t
<1>1. Paths \subseteq Path /\ p \in Path /\ r \in Path /\ IsFiniteSet(Paths) /\ p \in Proper
  BY DEF Hung, Paths, Proper
<1>2. /\ DOMAIN t = (Paths \ S) \cup new
      /\ \A q \in DOMAIN t : t[q] = tree[IF q \in new THEN Moved(q, r, p) ELSE q]
  BY <1>0
<1>3. ASSUME NEW q \in S
      PROVE  /\ q \in Paths /\ q \in Path /\ From(p, q)
             /\ m(q) \in Path /\ From(r, m(q)) /\ Moved(m(q), r, p) = q
  <2>1. q \in Paths /\ q \in Path /\ From(p, q)
    BY <1>1 DEF Below, From
  <2>2. QED
    BY <1>1, <2>1, MovedPath, MovedBack
<1>4. ASSUME NEW s \in Paths \ {r}
      PROVE  s \notin new
  <2> SUFFICES ASSUME NEW q \in S, s = m(q) PROVE FALSE
    OBVIOUS
  <2>1. From(r, s)
    BY <1>3
  <2>2. s \in Below(r)
    BY <2>1 DEF From, Below
  <2>3. QED
    BY <2>2
<1>5. ASSUME NEW q \in S PROVE m(q) \in DOMAIN t /\ t[m(q)] = tree[q]
  <2>1. m(q) \in new
    OBVIOUS
  <2>2. Moved(m(q), r, p) = q
    BY <1>3
  <2> HIDE DEF S, m, new
  <2>3. QED
    BY <1>2, <2>1, <2>2
<1>6. ASSUME NEW q \in Paths \ S, q # r PROVE q \in DOMAIN t /\ t[q] = tree[q]
  <2>1. q \notin new
    BY <1>4, <1>6
  <2> HIDE DEF S, m, new
  <2>2. QED
    BY <1>2, <2>1
<1>8. m(p) = r
  BY <1>1, MovedBack DEF From
<1>7. ASSUME NEW s \in DOMAIN t
      PROVE  (\E q \in S : s = m(q)) \/ (s \in Paths \ S /\ s # r)
  BY <1>2, <1>8
<1>9. Parent(p) \in Paths \ S /\ tree[Parent(p)] = Folder /\ Parent(p) # r
  <2>1. Parent(p) \in Paths /\ tree[Parent(p)] = Folder
    BY DEF Hung, Paths
  <2>2. Len(Parent(p)) = Len(p) - 1 /\ Len(p) \in Nat
    BY <1>1, ParentOf
  <2>3. Parent(p) \notin S
    BY <2>2 DEF Below, Under
  <2>4. Len(Parent(r)) = Len(r) - 1 /\ Len(r) \in Nat
    BY ParentOf
  <2>5. Parent(p) # r
    BY <2>4
  <2>6. QED
    BY <2>1, <2>3, <2>5
<1>10. ASSUME NEW s \in DOMAIN t \ {<<>>}
       PROVE  Parent(s) \in DOMAIN t /\ t[Parent(s)] = Folder
  <2>1. ASSUME NEW q \in S, s = m(q)
        PROVE  Parent(s) \in DOMAIN t /\ t[Parent(s)] = Folder
    <3>1. CASE q = p
      BY <1>6, <1>8, <1>9, <2>1, <3>1
    <3>2. CASE q # p
      <4>1. q \in Below(p)
        BY <3>2
      <4>2. Under(p, q) /\ q \in Path /\ q \in Paths
        BY <1>1, <4>1 DEF Below
      <4>3. q \in Proper /\ From(p, Parent(q)) /\ Parent(m(q)) = m(Parent(q))
        BY <1>1, <4>2, MovedParent
      <4>4. Parent(q) \in Paths /\ tree[Parent(q)] = Folder
        BY <4>2, <4>3 DEF Hung, Paths, Proper
      <4>5. Parent(q) \in S
        BY <4>3, <4>4 DEF From, Below
      <4>6. QED
        BY <1>5, <2>1, <4>3, <4>4, <4>5
    <3>3. QED
      BY <3>1, <3>2
  <2>2. ASSUME s \in Paths \ S, s # r
        PROVE  Parent(s) \in DOMAIN t /\ t[Parent(s)] = Folder
    <3>1. Parent(s) \in Paths /\ tree[Parent(s)] = Folder /\ s \in Proper
      BY <1>1, <1>10, <2>2 DEF Hung, Paths, Proper
    <3>2. Parent(s) \notin S
      <4> SUFFICES ASSUME Parent(s) \in S PROVE FALSE
        OBVIOUS
      <4>1. From(p, Parent(s)) /\ Under(Parent(s), s) /\ Parent(s) \in Path
        BY <1>3, <3>1, ParentOf
      <4>2. Under(p, s)
        BY <1>1, <3>1, <4>1, UnderUnder DEF From, Proper
      <4>3. QED
        BY <2>2, <4>2 DEF Below
    <3>3. Parent(s) # r
      <4> SUFFICES ASSUME Parent(s) = r PROVE FALSE
        OBVIOUS
      <4>1. Under(r, s)
        BY <3>1, ParentOf
      <4>2. s \in Below(r)
        BY <2>2, <4>1 DEF Below
      <4>3. QED
        BY <4>2
    <3>4. QED
      BY <1>6, <3>1, <3>2, <3>3
  <2>3. QED
    BY <1>7, <2>1, <2>2
<1>11. IsFiniteSet(DOMAIN t)
  <2>1. IsFiniteSet(S) /\ IsFiniteSet(Paths \ S)
    <3>1. S \in SUBSET Paths /\ (Paths \ S) \in SUBSET Paths
      BY <1>3
    <3> HIDE DEF S
    <3>2. QED
      BY <1>1, <3>1, FS_Subset
  <2> HIDE DEF S
  <2>2. IsFiniteSet(new)
    BY <2>1, FinitelyMoved
  <2> HIDE DEF new
  <2>3. IsFiniteSet((Paths \ S) \cup new)
    BY ONLY <2>1, <2>2, FS_Union
  <2>4. QED
    BY <1>2, <2>3
<1>12. DOMAIN t \subseteq Path
  BY <1>1, <1>3, <1>7
<1>13. <<>> \in DOMAIN t /\ t[<<>>] = Folder
  <2>1. <<>> \in Paths /\ tree[<<>>] = Folder
    BY DEF Hung, Paths
  <2>2. <<>> \notin S
    <3> SUFFICES ASSUME <<>> \in S PROVE FALSE
      OBVIOUS
    <3>1. Len(<<>>) > Len(p)
      BY DEF Below, Under
    <3>2. Len(<<>>) = 0 /\ Len(p) \in Nat
      BY <1>1, PathBasics
    <3>3. QED
      BY <3>1, <3>2
  <2>3. <<>> # r
    BY DEF Proper
  <2>4. QED
    BY <1>6, <2>1, <2>2, <2>3
<1>14. Hung(t)
  BY <1>10, <1>11, <1>12, <1>13 DEF Hung
<1>15. \A s \in DOMAIN t : t[s] \in {tree[q] : q \in Paths}
  BY <1>3, <1>5, <1>6, <1>7
<1>16. \A q \in Paths \ {r} : tree[q] \in {t[s] : s \in DOMAIN t}
  BY <1>5, <1>6
<1>17. QED
  BY <1>14, <1>15, <1>16 DEF t

\* mkdirs() makes the folders that were missing, and only those.
LEMMA HungMade ==
  ASSUME Hung(tree), NEW p \in Path, CanMake(p)
  PROVE  /\ Hung(Made(p)) /\ p \in DOMAIN Made(p) /\ Made(p)[p] = Folder
         /\ Paths \subseteq DOMAIN Made(p) /\ \A q \in Paths : Made(p)[q] = tree[q]
         /\ DOMAIN Made(p) = Paths \cup Prefixes(p)
         /\ \A q \in DOMAIN Made(p) : Made(p)[q] \in {tree[s] : s \in Paths} \cup {Folder}
<1> DEFINE M == Made(p)
<1>1. /\ DOMAIN M = Paths \cup Prefixes(p)
      /\ \A q \in Paths : M[q] = tree[q]
      /\ \A q \in DOMAIN M : q \notin Paths => M[q] = Folder
  BY DEF Made
<1> HIDE DEF M
<1>2. \A q \in Prefixes(p) : q \in DOMAIN M /\ M[q] = Folder
  BY <1>1 DEF CanMake, IsFolder
<1>3. Len(p) \in Nat /\ p \in Prefixes(p) /\ Prefixes(p) \subseteq Path
  <2>1. Len(p) \in Nat /\ SubSeq(p, 1, Len(p)) = p
        /\ \A n \in 0..Len(p) : SubSeq(p, 1, n) \in Path
    BY PathBasics
  <2>2. Len(p) \in 0..Len(p)
    BY <2>1
  <2>3. QED
    BY <2>1, <2>2 DEF Prefixes
<1>4. IsFiniteSet(DOMAIN M)
  <2> DEFINE g == [n \in 0..Len(p) |-> SubSeq(p, 1, n)]
  <2>1. g \in Surjection(0..Len(p), Prefixes(p))
    <3>1. g \in [0..Len(p) -> Prefixes(p)] /\ \A q \in Prefixes(p) : \E n \in 0..Len(p) : g[n] = q
      BY DEF Prefixes
    <3>2. QED
      BY <3>1 DEF Surjection
  <2> HIDE DEF g
  <2>2. IsFiniteSet(0..Len(p))
    BY <1>3, FS_Interval
  <2>3. IsFiniteSet(Prefixes(p))
    BY <2>1, <2>2, FS_Surjection
  <2>4. QED
    BY <1>1, <2>3, FS_Union DEF Hung, Paths
<1>5. ASSUME NEW q \in DOMAIN M \ {<<>>}
      PROVE  Parent(q) \in DOMAIN M /\ M[Parent(q)] = Folder
  <2>1. CASE q \in Paths
    BY <1>1, <2>1 DEF Hung, Paths
  <2>2. CASE q \in Prefixes(p)
    <3>1. PICK n \in 0..Len(p) : q = SubSeq(p, 1, n)
      BY <2>2 DEF Prefixes
    <3>2. Len(q) = n /\ \A k \in 0..n : SubSeq(q, 1, k) = SubSeq(p, 1, k)
      BY <3>1, PathBasics
    <3>3. n # 0
      BY <3>1, PathBasics
    <3>4. n - 1 \in 0..Len(p) /\ n - 1 \in 0..n
      BY <1>3, <3>3
    <3>5. Parent(q) = SubSeq(p, 1, n - 1)
      BY <3>2, <3>4 DEF Parent
    <3>6. Parent(q) \in Prefixes(p)
      BY <3>4, <3>5 DEF Prefixes
    <3>7. QED
      BY <1>2, <3>6
  <2>3. QED
    BY <1>1, <2>1, <2>2
<1>6. Hung(M)
  <2>1. DOMAIN M \subseteq Path /\ <<>> \in DOMAIN M /\ M[<<>>] = Folder
    BY <1>1, <1>3 DEF Hung, Paths
  <2>2. QED
    BY <1>4, <1>5, <2>1 DEF Hung
<1>7. QED
  BY <1>1, <1>2, <1>3, <1>6 DEF M

-----------------------------------------------------------------------------
(* What the commands make of the tree.                                     *)

\* The bodies that files have when they are made or written.
Basic == {Folder, Part} \cup {Text(X) : X \in SUBSET Texts}

\* A tree that hangs together, of bodies there were and basic ones.
Sound(t) ==
  Hung(t) /\ \A s \in DOMAIN t : t[s] \in {tree[q] : q \in Paths} \cup Basic

\* No text of the tree is missing in t.
Keeps(t) == TextsIn(tree) \subseteq TextsIn(t)

\* Where every path keeps its body, or at least the texts do.
LEMMA SameKeeps ==
  ASSUME NEW t, \A q \in Paths : tree[q].kind = "text" => tree[q] \in {t[s] : s \in DOMAIN t}
  PROVE  Keeps(t)
BY DEF Keeps, TextsIn, Paths

\* A body put where none was, or none that matters.
LEMMA SoundWith ==
  ASSUME Hung(tree), NEW p \in Proper, IsFolder(Parent(p)), ~IsFolder(p), NEW body
  PROVE  /\ Hung(With(tree, p, body))
         /\ body \in Basic => Sound(With(tree, p, body))
         /\ p \notin Paths \/ tree[p].kind # "text" => Keeps(With(tree, p, body))
<1> DEFINE w == With(tree, p, body)
<1>1. DOMAIN w = DOMAIN tree \cup {p} /\ w[p] = body /\ \A q \in DOMAIN tree : q # p => w[q] = tree[q]
  BY DEF With
<1> HIDE DEF w
<1>2. Hung(w)
  BY <1>1, HungWith DEF IsFolder, Paths
<1>3. body \in Basic => Sound(w)
  BY <1>1, <1>2 DEF Sound, Paths
<1>4. p \notin Paths \/ tree[p].kind # "text" => Keeps(w)
  BY <1>1, SameKeeps DEF Paths
<1>5. QED
  BY <1>2, <1>3, <1>4 DEF w

\* What a page shows are paths, and not the root.
LEMMA ShownProper ==
  ASSUME Hung(tree), NEW d \in Paths
  PROVE  Shown(d) \subseteq Proper
<1>1. ASSUME NEW q \in Children(d) PROVE q \in Proper
  <2>1. q \in Path /\ d \in Path /\ Len(q) > Len(d)
    BY DEF Children, Below, Under, Hung, Paths
  <2>2. Len(d) \in Nat /\ (q = <<>> <=> Len(q) = 0)
    BY <2>1, PathBasics
  <2>3. q # <<>>
    BY <2>1, <2>2
  <2>4. QED
    BY <2>1, <2>3 DEF Proper
<1>2. DOMAIN AtFirst \ {<<>>} \subseteq Proper
  BY ConstantsAssumption DEF Proper, Path
<1>3. QED
  BY <1>1, <1>2 DEF Shown

\* mkdir and mkfile.
LEMMA MakeFiles ==
  ASSUME Hung(tree), NEW c \in Clients, NEW d \in Paths, NEW b \in Bases,
         Mkdir(c, d, b) \/ Mkfile(c, d, b)
  PROVE  Sound(tree') /\ Keeps(tree') /\ job' = job /\ job[c].pc = "idle"
<1> DEFINE p == At(d, Name(b))
<1>1. PICK cmd \in {"mkdir", "mkfile"}, body \in {Folder, Text({})} : IsFolder(d) /\ Make(c, cmd, p, body)
  BY DEF Mkdir, Mkfile
<1>2. job' = job /\ job[c].pc = "idle"
  BY <1>1 DEF Make, Begins
<1>3. Name(b) \in Names /\ d \in Path
  BY DEF Name, Names, Hung, Paths
<1>4. p \in Proper /\ Parent(p) = d
  BY <1>3, InFolder
<1>5. CASE p \in Paths
  <2>1. tree' = tree
    BY <1>1, <1>5 DEF Make
  <2>2. QED
    BY <1>2, <2>1 DEF Sound, Keeps, Paths
<1>6. CASE p \notin Paths
  <2>1. tree' = With(tree, p, body) /\ ~IsFolder(p)
    BY <1>1, <1>6 DEF Make, IsFolder
  <2>2. body \in Basic
    BY DEF Basic
  <2> HIDE DEF p
  <2>3. QED
    BY <1>1, <1>2, <1>4, <1>6, <2>1, <2>2, SoundWith
<1>7. QED
  BY <1>5, <1>6

\* put.
LEMMA PutFiles ==
  ASSUME Hung(tree), NEW c \in Clients, NEW p \in Paths, NEW x \in Texts, Put(c, p, x)
  PROVE  Sound(tree') /\ job' = job /\ job[c].pc = "idle"
<1>1. job' = job /\ job[c].pc = "idle" /\ tree[p].kind \in {"text", "part"}
  BY DEF Put, Begins
<1>2. PICK body \in {Text({x}), Part} : tree' = [tree EXCEPT ![p] = body]
  BY DEF Put
<1>3. /\ DOMAIN tree' = DOMAIN tree \cup {p} /\ tree'[p] = body
      /\ \A q \in DOMAIN tree : q # p => tree'[q] = tree[q]
  BY <1>2 DEF Paths
<1>4. tree[p] # Folder
  BY <1>1, KindsApart
<1>5. p \in Proper
  BY <1>4 DEF Hung, Paths, Proper
<1>6. Parent(p) \in DOMAIN tree /\ tree[Parent(p)] = Folder
  BY <1>5 DEF Hung, Paths, Proper
<1>7. Hung(tree')
  BY <1>3, <1>4, <1>5, <1>6, HungWith
<1>8. body \in Basic
  BY DEF Basic
<1>9. QED
  BY <1>1, <1>3, <1>7, <1>8 DEF Sound, Paths

\* rename: no text goes but the one of a file that had the name.
LEMMA RenameFiles ==
  ASSUME Hung(tree), NEW c \in Clients, NEW p \in Paths, NEW b \in Bases, Rename(c, p, b)
  PROVE  /\ Sound(tree') /\ job' = job /\ job[c].pc = "idle"
         /\ At(Parent(p), Name(b)) \in Paths \/ Keeps(tree')
<1> DEFINE r == At(Parent(p), Name(b))
           S == Below(p) \cup {p}
           new == {Moved(q, p, r) : q \in S}
<1>1. /\ job' = job /\ job[c].pc = "idle" /\ p \in Paths \ {<<>>}
      /\ \/ /\ CanReplace(p, r)
            /\ tree' = [q \in (Paths \ S) \cup new |-> tree[IF q \in new THEN Moved(q, r, p) ELSE q]]
         \/ tree' = tree
  BY DEF Rename, Begins
<1>2. p \in Proper
  BY <1>1 DEF Hung, Paths, Proper
<1>3. Parent(p) \in Path /\ Name(b) \in Names
  BY <1>2, ParentOf DEF Name, Names
<1>4. r \in Proper /\ Parent(r) = Parent(p)
  BY <1>3, InFolder
<1>5. CASE tree' = tree
  BY <1>1, <1>5 DEF Sound, Keeps, Paths
<1>6. CASE /\ CanReplace(p, r)
           /\ tree' = [q \in (Paths \ S) \cup new |-> tree[IF q \in new THEN Moved(q, r, p) ELSE q]]
  <2>1. tree' = Renamed(p, r)
    BY <1>6 DEF Renamed
  <2> HIDE DEF r
  <2>2. Below(r) = {}
    <3> SUFFICES ASSUME NEW q \in Below(r) PROVE FALSE
      OBVIOUS
    <3>1. q \in DOMAIN tree /\ From(r, q) /\ Under(r, q) /\ r \in Path
      BY <1>4 DEF Below, From, Paths, Proper
    <3>2. IsFolder(r)
      BY <3>1, InFolders DEF IsFolder, Paths
    <3>3. r \in Paths
      BY <3>2 DEF IsFolder
    <3>4. QED
      BY <1>6, <3>2, <3>3 DEF CanReplace
  <2>3. /\ Hung(tree')
        /\ \A s \in DOMAIN tree' : tree'[s] \in {tree[q] : q \in Paths}
        /\ \A q \in Paths \ {r} : tree[q] \in {tree'[s] : s \in DOMAIN tree'}
    BY <1>1, <1>4, <2>1, <2>2, HungRenamed
  <2>4. Sound(tree')
    BY <2>3 DEF Sound
  <2>5. r \in Paths \/ Keeps(tree')
    BY <2>3, SameKeeps
  <2>6. QED
    BY <1>1, <2>4, <2>5 DEF r
<1>7. QED
  BY <1>1, <1>5, <1>6

\* rm.
LEMMA RmFiles ==
  ASSUME Hung(tree), NEW c \in Clients, NEW d \in Paths, NEW T \in SUBSET Shown(d), Rm(c, T)
  PROVE  Sound(tree') /\ job' = job /\ job[c].pc = "idle"
<1> DEFINE S == {q \in Paths : \E p \in T : q = p \/ Under(p, q)}
<1>1. job' = job /\ job[c].pc = "idle"
  BY DEF Rm, Begins
<1>2. T \subseteq Proper
  BY ShownProper
<1>3. \A q \in DOMAIN tree \ {<<>>} : q \in Proper /\ Under(Parent(q), q) /\ Parent(q) \in Path
  BY ParentOf DEF Hung, Proper
<1>4. <<>> \notin S
  <2> SUFFICES ASSUME NEW p \in T, Under(p, <<>>) PROVE FALSE
    BY <1>2 DEF Proper
  <2>1. Len(p) \in Nat /\ Len(<<>>) = 0 /\ Len(<<>>) > Len(p)
    BY <1>2, PathBasics DEF Under, Proper
  <2>2. QED
    BY <2>1
<1>5. PICK D : /\ D \subseteq S /\ tree' = Without(tree, D)
               /\ \A q \in DOMAIN tree \ {<<>>} : Parent(q) \in D => q \in D
  <2>1. CASE tree' = Without(tree, S)
    <3>1. ASSUME NEW q \in DOMAIN tree \ {<<>>}, Parent(q) \in S PROVE q \in S
      <4>1. PICK p \in T : From(p, Parent(q))
        BY <3>1 DEF From
      <4>2. Under(p, q)
        BY <1>2, <1>3, <4>1, UnderUnder DEF From, Proper
      <4>3. QED
        BY <4>2 DEF Paths
    <3>2. QED
      BY <2>1, <3>1
  <2>2. CASE \E D \in SUBSET S : (\A q \in D : Below(q) \subseteq D) /\ tree' = Without(tree, D)
    <3>1. PICK D \in SUBSET S : (\A q \in D : Below(q) \subseteq D) /\ tree' = Without(tree, D)
      BY <2>2
    <3>2. \A q \in DOMAIN tree \ {<<>>} : Parent(q) \in D => q \in D
      BY <1>3, <3>1 DEF Below, Paths
    <3>3. QED
      BY <3>1, <3>2
  <2>3. QED
    BY <2>1, <2>2 DEF Rm
<1>6. Hung(tree')
  BY <1>4, <1>5, HungWithout
<1>7. QED
  BY <1>1, <1>5, <1>6 DEF Sound, Without, Paths

-----------------------------------------------------------------------------
(* The tree and the commands under way.                                    *)

\* Bodies that an archive may hold, none of them in part, and the archives of them.
Closed(B) ==
  /\ Basic \subseteq B
  /\ \A b \in B : /\ b.kind \in Kinds
                  /\ b.kind = "zip" => \A e \in b.of : e[1] \in Proper /\ e[2] \in B \ {Part}

\* The tree and what is still to be unpacked are made of them.
Contents(c, B) ==
  /\ \A p \in Paths : tree[p] \in B
  /\ job[c].pc = "extract" => \A e \in job[c].todo : e[1] \in Proper /\ e[2] \in B \ {Part}

\* What a command is at: paths and, for a move, a copy of the source somewhere else;
\* for an archive, a file that waits to be written.
JobInv(c) ==
  LET j == job[c]
  IN  /\ j.pc \in {"idle", "next", "copy", "cut", "extract", "zip"}
      /\ j.pc \in {"next", "copy", "cut"} =>
           /\ j.todo \subseteq Proper /\ j.dst \in Path
           /\ j.cut => j.op # "duplicate" /\ \A p \in j.todo : Parent(p) # j.dst
      /\ j.pc \in {"copy", "cut"} =>
           j.from \in Proper /\ j.to \in Proper /\ (j.cut => j.from # j.to)
      /\ j.pc = "cut" =>
           /\ j.cut
           /\ j.from \in Paths /\ tree[j.from].kind = "text" =>
                j.to \in Paths /\ tree[j.to] = tree[j.from]
      /\ j.pc = "zip" => j.to \in Paths /\ tree[j.to] = Part
      /\ j.pc = "extract" => j.dst \in Path

FilesInv(c) == Hung(tree) /\ JobInv(c) /\ \E B : Closed(B) /\ Contents(c, B)

\* Where no new body comes from and what is unpacked is of an archive.
LEMMA SoundFiles ==
  ASSUME NEW c \in Clients, FilesInv(c), Sound(tree'), JobInv(c)',
         \/ job'[c].pc # "extract"
         \/ job[c].pc = "extract" /\ job'[c].todo \subseteq job[c].todo
         \/ \E z \in Paths : tree[z].kind = "zip" /\ job'[c].todo = tree[z].of
  PROVE  FilesInv(c)'
<1>1. PICK B : Closed(B) /\ Contents(c, B)
  BY DEF FilesInv
<1>2. \A p \in DOMAIN tree' : tree'[p] \in B
  BY <1>1 DEF Sound, Closed, Contents
<1>3. job'[c].pc = "extract" => \A e \in job'[c].todo : e[1] \in Proper /\ e[2] \in B \ {Part}
  <2>1. CASE job[c].pc = "extract" /\ job'[c].todo \subseteq job[c].todo
    BY <1>1, <2>1 DEF Contents
  <2>2. ASSUME NEW z \in Paths, tree[z].kind = "zip", job'[c].todo = tree[z].of
        PROVE  \A e \in job'[c].todo : e[1] \in Proper /\ e[2] \in B \ {Part}
    BY <1>1, <2>2 DEF Contents, Closed
  <2>3. QED
    BY <2>1, <2>2
<1>4. Contents(c, B)'
  BY <1>2, <1>3 DEF Contents, Paths
<1>5. QED
  BY <1>1, <1>4 DEF FilesInv, Sound

\* A command under way that ends, or stands where it stood.
LEMMA RestingJob ==
  ASSUME NEW c \in Clients, JobInv(c),
         job'[c].pc = "idle" \/ (job' = job /\ (job[c].pc = "idle" \/ tree' = tree))
  PROVE  JobInv(c)' /\ (job'[c].pc # "extract" \/ (job[c].pc = "extract" /\ job'[c].todo \subseteq job[c].todo))
<1>1. CASE job'[c].pc = "idle"
  BY <1>1 DEF JobInv
<1>2. CASE job' = job /\ job[c].pc = "idle"
  BY <1>2 DEF JobInv
<1>3. CASE job' = job /\ tree' = tree
  BY <1>3 DEF JobInv, Paths
<1>4. QED
  BY <1>1, <1>2, <1>3

\* The same tree is as sound.
LEMMA SameTree ==
  ASSUME Hung(tree), tree' = tree
  PROVE  Sound(tree') /\ Keeps(tree')
BY DEF Sound, Keeps, Paths

\* paste and duplicate begin.
LEMMA PasteFiles ==
  ASSUME Shape, NEW c \in Clients, FilesInv(c), NEW d \in Paths, NEW T \in SUBSET Shown(d),
         NEW e \in Paths, NEW cut \in BOOLEAN, Paste(c, T, e, cut) \/ Duplicate(c, T)
  PROVE  FilesInv(c)' /\ KeepsTexts
<1>1. Hung(tree) /\ T \subseteq Proper /\ e \in Path /\ <<>> \in Path
  BY ShownProper DEF FilesInv, Hung, Paths
<1>2. JobInv(c)' /\ job'[c].pc = "next" /\ tree' = tree
  <2>1. CASE Paste(c, T, e, cut)
    <3>1. /\ tree' = tree /\ (cut => \A p \in T : Parent(p) # e)
          /\ job' = [job EXCEPT ![c] = [Idle EXCEPT !.pc = "next", !.op = "paste", !.todo = T,
                                                    !.dst = e, !.cut = cut]]
      BY <2>1 DEF Paste
    <3>2. /\ job'[c].pc = "next" /\ job'[c].op = "paste" /\ job'[c].todo = T
          /\ job'[c].dst = e /\ job'[c].cut = cut
      BY <3>1 DEF Shape, Idle
    <3>3. QED
      BY <1>1, <3>1, <3>2 DEF JobInv
  <2>2. CASE Duplicate(c, T)
    <3>1. /\ tree' = tree
          /\ job' = [job EXCEPT ![c] = [Idle EXCEPT !.pc = "next", !.op = "duplicate", !.todo = T]]
      BY <2>2 DEF Duplicate
    <3>2. /\ job'[c].pc = "next" /\ job'[c].todo = T /\ job'[c].dst = <<>> /\ ~job'[c].cut
      BY <3>1 DEF Shape, Idle
    <3>3. QED
      BY <1>1, <3>1, <3>2 DEF JobInv
  <2>3. QED
    BY <2>1, <2>2
<1>3. Sound(tree') /\ Keeps(tree')
  BY <1>1, <1>2, SameTree
<1>4. QED
  BY <1>2, <1>3, SoundFiles DEF KeepsTexts, Keeps

\* Where an archive goes: into the folder its targets are in.
LEMMA ArchivePlace ==
  ASSUME Hung(tree), NEW d \in Paths, NEW T, Picked(d, T), NEW a \in ArchivePaths(d, T)
  PROVE  /\ IsFolder(d) /\ a \in Proper /\ Parent(a) = d
         /\ ArchivePath(d) \in ArchivePaths(d, T) \ Paths
<1>1. d \in Path
  BY DEF Hung, Paths
<1>2. ASSUME NEW q \in Children(d)
      PROVE  IsFolder(d) /\ q \in Proper /\ Parent(q) = d
  <2>1. q \in DOMAIN tree /\ From(d, q) /\ Under(d, q) /\ Len(q) = Len(d) + 1
    BY <1>2 DEF Children, Below, From, Paths
  <2>2. IsFolder(d)
    BY <1>1, <2>1, InFolders DEF IsFolder, Paths
  <2>3. q \in Proper
    BY ShownProper DEF Shown
  <2>4. Len(d) \in Nat /\ Len(q) - 1 = Len(d)
    BY <1>1, <2>1, PathBasics
  <2>5. Parent(q) = d
    BY <2>1, <2>4 DEF Parent, Under
  <2>6. QED
    BY <2>2, <2>3, <2>5
<1>3. IsFolder(d)
  <2>1. PICK q \in T : q \in Shown(d)
    BY DEF Picked
  <2>2. CASE q \in Children(d)
    BY <1>2, <2>2
  <2>3. CASE q \notin Children(d)
    BY <2>1, <2>3 DEF Shown
  <2>4. QED
    BY <2>2, <2>3
<1>4. ArchivePath(d) \in Proper \ Paths /\ Parent(ArchivePath(d)) = d
  <2>1. Name("Archive.zip") \in Names
    BY DEF Name, Names
  <2>2. At(d, Name("Archive.zip")) \in Proper /\ Parent(At(d, Name("Archive.zip"))) = d
    BY <1>1, <2>1, InFolder
  <2>3. QED
    BY <2>2, UniqueIsNew DEF ArchivePath
<1>5. QED
  BY <1>2, <1>3, <1>4 DEF ArchivePaths

\* archive and zipdl begin: no text goes but the one of a file that had the name.
LEMMA ZipFiles ==
  ASSUME Shape, NEW c \in Clients, FilesInv(c), NEW op, NEW T, NEW a \in Proper,
         IsFolder(Parent(a)), ~IsFolder(a), ZipBegins(c, op, T, a)
  PROVE  FilesInv(c)' /\ (a \in Paths \/ Keeps(tree'))
<1>1. Hung(tree)
  BY DEF FilesInv
<1>2. tree' = With(tree, a, Part) /\ Part \in Basic
  BY DEF ZipBegins, Basic
<1>3. Sound(tree') /\ (a \in Paths \/ Keeps(tree'))
  BY <1>1, <1>2, SoundWith
<1>4. job'[c].pc = "zip" /\ job'[c].to = a
  <2>1. job' = [job EXCEPT ![c] = [Idle EXCEPT !.pc = "zip", !.op = op, !.todo = T, !.to = a]]
    BY DEF ZipBegins
  <2>2. QED
    BY <2>1 DEF Shape, Idle
<1>5. JobInv(c)'
  BY <1>2, <1>4 DEF JobInv, With, Paths
<1>6. QED
  BY <1>3, <1>4, <1>5, SoundFiles

\* extract begins.
LEMMA ExtractFiles ==
  ASSUME Shape, NEW c \in Clients, FilesInv(c), NEW z \in Paths, NEW makedir \in BOOLEAN,
         Extract(c, z, makedir)
  PROVE  FilesInv(c)' /\ KeepsTexts
<1> DEFINE n == At(Parent(z), BaseName(NameOf(z)))
           made == Unique(n)
<1>1. Hung(tree) /\ z \in Path /\ tree[z].kind = "zip"
  BY DEF FilesInv, Hung, Paths, Extract
<1>2. z \in Proper /\ IsFolder(Parent(z))
  <2>1. z # <<>>
    BY <1>1, KindsApart DEF Hung
  <2>2. QED
    BY <1>1, <2>1 DEF Proper, Hung, IsFolder, Paths
<1>3. BaseName(NameOf(z)) \in Names /\ Parent(z) \in Path
  BY <1>2, ParentOf DEF BaseName, Names
<1>4. made \in Proper \ Paths /\ Parent(made) = Parent(z)
  <2>1. n \in Proper /\ Parent(n) = Parent(z)
    BY <1>3, InFolder
  <2> HIDE DEF n
  <2>2. QED
    BY <1>1, <2>1, UniqueIsNew
<1>5. tree' = (IF makedir THEN With(tree, made, Folder) ELSE tree)
  BY DEF Extract
<1>6. job'[c].pc = "extract" /\ job'[c].todo = tree[z].of
      /\ job'[c].dst = (IF makedir THEN made ELSE Parent(z))
  <2>1. job' = [job EXCEPT ![c] = [Idle EXCEPT !.pc = "extract", !.op = "extract", !.todo = tree[z].of,
                                               !.dst = IF makedir THEN made ELSE Parent(z),
                                               !.added = IF makedir THEN {made} ELSE {}]]
    BY DEF Extract
  <2> HIDE DEF made
  <2>2. QED
    BY <2>1 DEF Shape, Idle
<1> HIDE DEF made
<1>7. Sound(tree') /\ Keeps(tree')
  <2>1. CASE makedir
    <3>1. Folder \in Basic /\ ~IsFolder(made)
      BY <1>4 DEF Basic, IsFolder
    <3>2. QED
      BY <1>1, <1>2, <1>4, <1>5, <2>1, <3>1, SoundWith
  <2>2. CASE ~makedir
    BY <1>1, <1>5, <2>2, SameTree
  <2>3. QED
    BY <2>1, <2>2
<1>8. JobInv(c)'
  <2>1. job'[c].dst \in Path
    BY <1>3, <1>4, <1>6 DEF Proper
  <2>2. QED
    BY <1>6, <2>1 DEF JobInv
<1>9. QED
  BY <1>1, <1>6, <1>7, <1>8, SoundFiles DEF KeepsTexts, Keeps

\* A name is chosen.
LEMMA ChooseFiles ==
  ASSUME Shape, NEW c \in Clients, FilesInv(c), NEW f \in job[c].todo, Choose(c, f)
  PROVE  FilesInv(c)' /\ KeepsTexts
<1>1. PICK k \in 0..(Tries - 1) :
        job' = [job EXCEPT ![c].pc = "copy", ![c].todo = @ \ {f}, ![c].from = f,
                           ![c].to = Candidate(c, f, k)]
  BY DEF Choose
<1>2. /\ job'[c].pc = "copy" /\ job'[c].todo = job[c].todo \ {f} /\ job'[c].from = f
      /\ job'[c].to = Candidate(c, f, k) /\ job'[c].cut = job[c].cut
      /\ job'[c].dst = job[c].dst /\ job'[c].op = job[c].op
  BY <1>1 DEF Shape, Fields
<1>3. Hung(tree) /\ JobInv(c) /\ job[c].pc = "next" /\ tree' = tree
  BY DEF FilesInv, Choose
<1>4. f \in Proper /\ job[c].dst \in Path
  BY <1>3 DEF JobInv
<1>5. Parent(f) \in Path /\ Tilde(NameOf(f), k) \in Names
  <2>1. NameOf(f) \in Names /\ Parent(f) \in Path /\ k \in Nat
    BY <1>4, ParentOf, ConstantsAssumption
  <2>2. QED
    BY <2>1 DEF Tilde, Names
<1> DEFINE d == IF job[c].op = "duplicate" THEN Parent(f) ELSE job[c].dst
<1>6. Candidate(c, f, k) = At(d, Tilde(NameOf(f), k))
  BY DEF Candidate
<1>7. d \in Path
  BY <1>4, <1>5
<1> HIDE DEF d
<1>8. Candidate(c, f, k) \in Proper /\ Parent(Candidate(c, f, k)) = d
  BY <1>5, <1>6, <1>7, InFolder
<1>9. job[c].cut => Candidate(c, f, k) # f
  BY <1>3, <1>8 DEF JobInv, d
<1>10. JobInv(c)'
  BY <1>2, <1>3, <1>4, <1>8, <1>9 DEF JobInv
<1>11. Sound(tree') /\ Keeps(tree')
  BY <1>3, SameTree
<1>12. QED
  BY <1>2, <1>10, <1>11, SoundFiles DEF KeepsTexts, Keeps

\* What a copy leaves is sound; it keeps the texts unless the name was taken.
LEMMA CopyKeeps ==
  ASSUME Hung(tree), NEW f \in Paths, NEW to \in Proper,
         \/ tree' = Copied(f, to, Fitting(f, to), {})
         \/ tree' \in Stopped(f, to) \/ tree' \in Remains(f, to)
  PROVE  Sound(tree') /\ (Keeps(tree') \/ to \in Paths)
<1>1. /\ Hung(tree') /\ Paths \subseteq DOMAIN tree'
      /\ \A s \in DOMAIN tree' : tree'[s] \in {tree[q] : q \in Paths} \cup {Part, Text({})}
      /\ to \notin Paths => \A s \in Paths : tree'[s] = tree[s]
  BY CopiesHang
<1>2. Part \in Basic /\ Text({}) \in Basic
  BY DEF Basic
<1>3. Sound(tree')
  BY <1>1, <1>2 DEF Sound
<1>4. to \notin Paths => Keeps(tree')
  BY <1>1, SameKeeps
<1>5. QED
  BY <1>3, <1>4

\* The copy of a file is like it, and the source is as it was.
LEMMA CopyOfText ==
  ASSUME Hung(tree), NEW f \in Paths, NEW to \in Proper, f # to, Fits(f, to),
         tree' = Copied(f, to, Fitting(f, to), {}),
         f \in DOMAIN tree', tree'[f].kind = "text"
  PROVE  to \in DOMAIN tree' /\ tree'[to] = tree'[f]
<1>1. \A q \in Fitting(f, to) \ {f} : Parent(q) \in Fitting(f, to)
  BY FittingFolders
<1> DEFINE C == Copied(f, to, Fitting(f, to), {})
<1>2. /\ f \in Fitting(f, to) => to \in DOMAIN C /\ C[to] = Read(f)
      /\ ~IsFolder(f) => C[f] = tree[f]
      /\ IsFolder(f) => C[f] = Folder
  BY <1>1, HungCopied
<1>3. ~IsFolder(f)
  BY <1>2, KindsApart
<1>4. f \in Fitting(f, to)
  BY <1>3 DEF Fits
<1>5. tree[f] # Part
  BY <1>2, <1>3, KindsApart
<1>6. QED
  BY <1>2, <1>3, <1>4, <1>5 DEF Read

\* Copying.
LEMMA CopyingFiles ==
  ASSUME Shape, NEW c \in Clients, FilesInv(c), Copying(c)
  PROVE  FilesInv(c)' /\ KeepsTexts
<1> DEFINE f == job[c].from
           to == job[c].to
<1>1. Hung(tree) /\ JobInv(c)
  BY DEF FilesInv
<1>2. CASE \E g \in job[c].todo : Choose(c, g)
  BY <1>2, ChooseFiles
<1>3. CASE CopyWorks(c)
  <2>1. /\ job[c].pc = "copy" /\ f \in Paths /\ Fits(f, to)
        /\ tree' = Copied(f, to, Fitting(f, to), {})
        /\ job' = [job EXCEPT ![c].pc = IF job[c].cut THEN "cut" ELSE "next",
                              ![c].added = @ \cup {to}]
    BY <1>3 DEF CopyWorks
  <2>2. f \in Proper /\ to \in Proper /\ (job[c].cut => f # to)
    BY <1>1, <2>1 DEF JobInv
  <2>3. /\ job'[c].pc = (IF job[c].cut THEN "cut" ELSE "next") /\ job'[c].cut = job[c].cut
        /\ job'[c].todo = job[c].todo /\ job'[c].dst = job[c].dst /\ job'[c].op = job[c].op
        /\ job'[c].from = f /\ job'[c].to = to
    BY <2>1 DEF Shape, Fields
  <2>4. Sound(tree') /\ (Keeps(tree') \/ to \in Paths)
    <3> HIDE DEF f, to
    <3>1. QED
      BY <1>1, <2>1, <2>2, CopyKeeps
  <2>5. job[c].cut /\ f \in DOMAIN tree' /\ tree'[f].kind = "text" =>
          to \in DOMAIN tree' /\ tree'[to] = tree'[f]
    <3> HIDE DEF f, to
    <3>1. QED
      BY <1>1, <2>1, <2>2, CopyOfText
  <2>6. JobInv(c)'
    <3>1. /\ job[c].todo \subseteq Proper /\ job[c].dst \in Path
          /\ job[c].cut => job[c].op # "duplicate" /\ \A p \in job[c].todo : Parent(p) # job[c].dst
      BY <1>1, <2>1 DEF JobInv
    <3> HIDE DEF f, to
    <3>2. CASE job[c].cut
      BY <2>2, <2>3, <2>5, <3>1, <3>2 DEF JobInv, Paths
    <3>3. CASE ~job[c].cut
      BY <2>2, <2>3, <3>1, <3>3 DEF JobInv
    <3>4. QED
      BY <3>2, <3>3
  <2>7. job'[c].pc # "extract"
    BY <2>3
  <2>8. KeepsTexts
    BY <2>1, <2>4 DEF KeepsTexts, Keeps
  <2>9. QED
    BY <2>4, <2>6, <2>7, <2>8, SoundFiles
<1>4. CASE CopyFails(c)
  <2>1. job[c].pc = "copy" /\ job' = [job EXCEPT ![c].pc = "next"]
    BY <1>4 DEF CopyFails
  <2>2. f \in Proper /\ to \in Proper
    BY <1>1, <2>1 DEF JobInv
  <2>3. /\ job'[c].pc = "next" /\ job'[c].cut = job[c].cut
        /\ job'[c].todo = job[c].todo /\ job'[c].dst = job[c].dst /\ job'[c].op = job[c].op
    BY <2>1 DEF Shape, Fields
  <2>4. Sound(tree') /\ (Keeps(tree') \/ to \in Paths)
    <3>1. tree' = tree \/ (f \in Paths /\ (tree' \in Stopped(f, to) \/ tree' \in Remains(f, to)))
      BY <1>4 DEF CopyFails
    <3> HIDE DEF f, to
    <3>2. QED
      BY <1>1, <2>2, <3>1, CopyKeeps, SameTree
  <2>5. JobInv(c)'
    BY <1>1, <2>1, <2>3 DEF JobInv
  <2>6. QED
    BY <2>1, <2>3, <2>4, <2>5, SoundFiles DEF KeepsTexts, Keeps
<1>5. CASE CopyThrows(c)
  <2>1. /\ job[c].pc = "copy" /\ Opens(to) /\ tree' = With(tree, to, Part)
        /\ job' = [job EXCEPT ![c] = Idle]
    BY <1>5 DEF CopyThrows
  <2>2. to \in Proper /\ Part \in Basic /\ job'[c].pc = "idle"
    BY <1>1, <2>1, FreshRecords DEF JobInv, Basic, Shape
  <2>3. Sound(tree') /\ (Keeps(tree') \/ to \in Paths)
    <3> HIDE DEF to
    <3>1. QED
      BY <1>1, <2>1, <2>2, SoundWith DEF Opens
  <2>4. JobInv(c)'
    BY <1>1, <2>2, RestingJob
  <2>5. QED
    BY <2>1, <2>2, <2>3, <2>4, SoundFiles DEF KeepsTexts, Keeps
<1>6. CASE Cut(c)
  <2>1. job[c].pc = "cut" /\ f \in Proper /\ to \in Proper /\ f # to
    BY <1>1, <1>6 DEF Cut, JobInv
  <2>2. /\ job'[c].pc = "next" /\ job'[c].cut = job[c].cut
        /\ job'[c].todo = job[c].todo /\ job'[c].dst = job[c].dst /\ job'[c].op = job[c].op
    BY <1>6 DEF Cut, Shape, Fields
  <2>3. ASSUME f \in Paths, Below(f) = {}, tree' = Without(tree, {f})
        PROVE  Sound(tree') /\ Keeps(tree')
    <3>1. \A q \in DOMAIN tree \ {<<>>} : Parent(q) \in {f} => q \in {f}
      BY <1>1, <2>3, ParentOf DEF Below, Hung, Proper, Paths
    <3>2. <<>> \notin {f}
      BY <2>1 DEF Proper
    <3>3. Hung(tree')
      BY <1>1, <2>3, <3>1, <3>2, HungWithout
    <3>4. DOMAIN tree' = Paths \ {f} /\ \A q \in DOMAIN tree' : tree'[q] = tree[q]
      BY <2>3 DEF Without, Paths
    <3>5. tree[f].kind = "text" => to \in Paths /\ tree[to] = tree[f]
      BY <1>1, <2>1, <2>3 DEF JobInv
    <3>6. Sound(tree')
      BY <3>3, <3>4 DEF Sound
    <3>7. \A q \in Paths : tree[q].kind = "text" => tree[q] \in {tree'[s] : s \in DOMAIN tree'}
      BY <2>1, <3>4, <3>5
    <3>8. Keeps(tree')
      BY <3>7, SameKeeps
    <3>9. QED
      BY <3>6, <3>8
  <2>4. Sound(tree') /\ Keeps(tree')
    <3>1. tree' = tree \/ (f \in Paths /\ Below(f) = {} /\ tree' = Without(tree, {f}))
      BY <1>6 DEF Cut
    <3>2. QED
      BY <1>1, <2>3, <3>1, SameTree
  <2>5. JobInv(c)'
    BY <1>1, <2>1, <2>2 DEF JobInv
  <2>6. QED
    BY <2>2, <2>4, <2>5, SoundFiles DEF KeepsTexts, Keeps
<1>7. CASE PasteEnds(c)
  <2>1. job'[c].pc = "idle" /\ tree' = tree
    BY <1>7, FreshRecords DEF PasteEnds, Shape
  <2>2. Sound(tree') /\ Keeps(tree')
    BY <1>1, <2>1, SameTree
  <2>3. JobInv(c)'
    BY <1>1, <2>1, RestingJob
  <2>4. QED
    BY <2>1, <2>2, <2>3, SoundFiles DEF KeepsTexts, Keeps
<1>8. QED
  BY <1>2, <1>3, <1>4, <1>5, <1>6, <1>7 DEF Copying

\* An archive is written where its file waits.
LEMMA ZippedFiles ==
  ASSUME NEW c \in Clients, FilesInv(c), job[c].pc = "zip", CanZip(c), tree' = Zipped(c),
         job'[c].pc = "idle"
  PROVE  FilesInv(c)' /\ KeepsTexts
<1> DEFINE to == job[c].to
<1>0. PICK E : E = Entries(job[c].todo)
  OBVIOUS
<1>1. Hung(tree) /\ to \in Paths /\ tree[to] = Part /\ tree' = With(tree, to, Zip(E))
  BY <1>0 DEF FilesInv, JobInv, Zipped
<1>2. to \in Proper /\ IsFolder(Parent(to)) /\ ~IsFolder(to) /\ tree[to].kind # "text"
  <2>1. tree[to] # Folder /\ tree[to].kind # "text"
    BY <1>1, KindsApart
  <2>2. to # <<>>
    BY <1>1, <2>1 DEF Hung
  <2>3. QED
    BY <1>1, <2>1, <2>2 DEF Hung, Paths, Proper, IsFolder
<1>3. PICK B : Closed(B) /\ Contents(c, B)
  BY DEF FilesInv
<1>4. ASSUME NEW e \in E PROVE e[1] \in Proper /\ e[2] \in B \ {Part}
  <2>1. PICK p \in job[c].todo : e \in EntriesOf(p)
    BY <1>0 DEF Entries
  <2>2. p \in Paths /\ p \in Path
    BY <1>1 DEF CanZip, Hung, Paths
  <2>3. \A q \in Paths : Read(q) \in B \ {Part}
    BY <1>3, KindsApart DEF Read, Contents, Closed, Basic
  <2>4. CASE IsFolder(p)
    <3>1. PICK q \in Below(p) : e = <<Moved(q, p, <<>>), Read(q)>>
      BY <2>1, <2>4 DEF EntriesOf
    <3>2. q \in Paths /\ q \in Path /\ Under(p, q) /\ <<>> \in Path
      BY <1>1 DEF Below, Hung, Paths
    <3>3. Moved(q, p, <<>>) \in Proper
      BY <2>2, <3>2, MovedParent
    <3>4. QED
      BY <2>3, <3>1, <3>2, <3>3
  <2>5. CASE ~IsFolder(p)
    <3>1. e = <<<<NameOf(p)>>, Read(p)>>
      BY <2>1, <2>2, <2>5 DEF EntriesOf
    <3>2. p \in Proper
      BY <1>1, <2>2, <2>5 DEF IsFolder, Hung, Paths, Proper
    <3>3. NameOf(p) \in Names
      BY <3>2, ParentOf
    <3>4. <<NameOf(p)>> \in Proper
      BY <3>3 DEF Proper, Path
    <3>5. QED
      BY <2>2, <2>3, <3>1, <3>4
  <2>6. QED
    BY <2>4, <2>5
<1> DEFINE B2 == B \cup {Zip(E)}
<1> HIDE DEF to
<1>5. Closed(B2)
  <2>1. Zip(E).kind = "zip" /\ Zip(E).of = E /\ "zip" \in Kinds
    BY KindsApart DEF Kinds
  <2>2. QED
    BY <1>3, <1>4, <2>1 DEF Closed
<1>6. Contents(c, B2)'
  <2>1. \A p \in DOMAIN tree' : tree'[p] \in B2
    BY <1>1, <1>3 DEF With, Contents, Paths
  <2>2. job'[c].pc # "extract"
    OBVIOUS
  <2> HIDE DEF B2
  <2>3. QED
    BY <2>1, <2>2 DEF Contents, Paths
<1>7. Hung(tree') /\ Keeps(tree')
  BY <1>1, <1>2, SoundWith
<1>8. JobInv(c)'
  BY DEF JobInv
<1> HIDE DEF B2
<1>9. (\E B0 : Closed(B0) /\ Contents(c, B0))'
  BY <1>5, <1>6
<1>10. QED
  BY <1>7, <1>8, <1>9 DEF FilesInv, KeepsTexts, Keeps

\* The next file of an archive.
LEMMA UnpackedFile ==
  ASSUME NEW c \in Clients, FilesInv(c), NEW e \in job[c].todo, job[c].pc = "extract",
         NEW p, p = job[c].dst \o e[1], CanMake(Parent(p)), NEW body,
         tree' = With(Made(Parent(p)), Unique(p), body)
  PROVE  /\ Hung(tree') /\ Keeps(tree') /\ (body \in Basic => Sound(tree'))
         /\ \A s \in DOMAIN tree' : tree'[s] \in {tree[q] : q \in Paths} \cup Basic \cup {body}
<1> DEFINE f == Unique(p)
           M == Made(Parent(p))
<1>1. PICK B : Closed(B) /\ Contents(c, B)
  BY DEF FilesInv
<1>2. Hung(tree) /\ job[c].dst \in Path /\ e[1] \in Proper
  BY <1>1 DEF FilesInv, JobInv, Contents
<1>3. p \in Proper
  <2>1. e[1] \in Path /\ Len(e[1]) \in Nat \ {0} /\ Len(job[c].dst) \in Nat
    BY <1>2, ParentOf, PathBasics DEF Proper
  <2>2. p \in Path /\ Len(p) = Len(job[c].dst) + Len(e[1])
    BY <1>2, <2>1, ConcatProperties DEF Path
  <2>3. \A i \in Nat, k \in Nat \ {0} : i + k # 0
    OBVIOUS
  <2>4. Len(p) # 0
    BY <2>1, <2>2, <2>3
  <2>5. QED
    BY <2>2, <2>4, PathBasics DEF Proper
<1>4. f \in Proper \ Paths /\ Parent(f) = Parent(p)
  BY <1>2, <1>3, UniqueIsNew
<1>5. Parent(p) \in Path /\ Len(Parent(f)) = Len(f) - 1 /\ Len(f) \in Nat
  BY <1>3, <1>4, ParentOf
<1>6. /\ Hung(M) /\ Parent(p) \in DOMAIN M /\ M[Parent(p)] = Folder
      /\ Paths \subseteq DOMAIN M /\ (\A q \in Paths : M[q] = tree[q])
      /\ DOMAIN M = Paths \cup Prefixes(Parent(p))
      /\ \A q \in DOMAIN M : M[q] \in {tree[s] : s \in Paths} \cup {Folder}
  BY <1>2, <1>5, HungMade
<1>7. f \notin DOMAIN M
  <2>1. ASSUME f \in Prefixes(Parent(p)) PROVE FALSE
    <3>1. PICK n \in 0..Len(Parent(p)) : f = SubSeq(Parent(p), 1, n)
      BY <2>1 DEF Prefixes
    <3>2. Len(f) = n
      BY <1>5, <3>1, PathBasics
    <3>3. Len(f) - 1 = Len(Parent(p))
      BY <1>4, <1>5
    <3>4. QED
      BY <1>5, <3>1, <3>2, <3>3
  <2>2. QED
    BY <1>4, <1>6, <2>1
<1> HIDE DEF f, M
<1>8. /\ DOMAIN tree' = DOMAIN M \cup {f} /\ tree'[f] = body
      /\ \A q \in DOMAIN M : q # f => tree'[q] = M[q]
  BY DEF With, f, M
<1>9. Hung(tree')
  <2>1. f \in Proper /\ Parent(f) \in DOMAIN M /\ M[Parent(f)] = Folder
    BY <1>4, <1>6
  <2>2. QED
    BY ONLY <1>6, <1>7, <1>8, <2>1, HungWith
<1>10. \A q \in Paths : q \in DOMAIN tree' /\ tree'[q] = tree[q]
  BY <1>4, <1>6, <1>8
<1>11. Keeps(tree')
  BY <1>10, SameKeeps
<1>12. Folder \in Basic
  BY DEF Basic
<1>13. ASSUME NEW s \in DOMAIN tree'
       PROVE  tree'[s] \in {tree[q] : q \in Paths} \cup Basic \cup {body}
  BY <1>6, <1>8, <1>12
<1>14. body \in Basic => Sound(tree')
  BY <1>9, <1>13 DEF Sound
<1>15. QED
  BY <1>9, <1>11, <1>13, <1>14

\* Unpacking.
LEMMA UnpackingFiles ==
  ASSUME Shape, NEW c \in Clients, FilesInv(c), NEW e \in job[c].todo,
         ExtractFile(c, e) \/ ExtractFolder(c, e) \/ ExtractFails(c, e)
  PROVE  FilesInv(c)' /\ KeepsTexts
<1>1. Hung(tree) /\ JobInv(c) /\ job[c].pc = "extract" /\ job[c].dst \in Path
  BY DEF FilesInv, JobInv, ExtractFile, ExtractFolder, ExtractFails, IsNext
<1>2. PICK B : Closed(B) /\ Contents(c, B)
  BY DEF FilesInv
<1>3. e[1] \in Proper /\ e[2] \in B \ {Part}
  BY <1>1, <1>2 DEF Contents
<1> DEFINE p == job[c].dst \o e[1]
<1>4. CASE ExtractFile(c, e)
  <2>1. CanMake(Parent(p)) /\ tree' = With(Made(Parent(p)), Unique(p), e[2])
    BY <1>4 DEF ExtractFile
  <2>2. /\ job'[c].pc = "extract" /\ job'[c].dst = job[c].dst /\ job'[c].todo = job[c].todo \ {e}
    BY <1>1, <1>4 DEF ExtractFile, Shape, Fields
  <2> HIDE DEF p
  <2>3. /\ Hung(tree') /\ Keeps(tree')
        /\ \A s \in DOMAIN tree' : tree'[s] \in {tree[q] : q \in Paths} \cup Basic \cup {e[2]}
    BY <1>1, <2>1, UnpackedFile DEF p
  <2>4. Contents(c, B)'
    <3>1. \A s \in DOMAIN tree' : tree'[s] \in B
      BY <1>2, <1>3, <2>3 DEF Contents, Closed
    <3>2. \A g \in job'[c].todo : g[1] \in Proper /\ g[2] \in B \ {Part}
      BY <1>1, <1>2, <2>2 DEF Contents
    <3>3. QED
      BY <3>1, <3>2 DEF Contents, Paths
  <2>5. JobInv(c)'
    BY <1>1, <2>2 DEF JobInv
  <2>6. QED
    BY <1>2, <2>3, <2>4, <2>5 DEF FilesInv, KeepsTexts, Keeps
<1>5. CASE ExtractFolder(c, e)
  <2>1. /\ job'[c].pc = "extract" /\ job'[c].dst = job[c].dst /\ job'[c].todo \subseteq job[c].todo
    BY <1>1, <1>5 DEF ExtractFolder, Shape, Fields
  <2>2. \/ tree' = tree
        \/ e[1] \notin Paths /\ IsFolder(Parent(e[1])) /\ tree' = With(tree, e[1], Folder)
    BY <1>5 DEF ExtractFolder
  <2>3. Folder \in Basic /\ (e[1] \notin Paths => ~IsFolder(e[1]))
    BY DEF Basic, IsFolder
  <2>4. Sound(tree') /\ Keeps(tree')
    BY <1>1, <1>3, <2>2, <2>3, SameTree, SoundWith
  <2>5. JobInv(c)'
    BY <1>1, <2>1 DEF JobInv
  <2>6. QED
    BY <1>1, <2>1, <2>4, <2>5, SoundFiles DEF KeepsTexts, Keeps
<1>6. CASE ExtractFails(c, e)
  <2>1. job'[c].pc = "idle"
    BY <1>6, FreshRecords DEF ExtractFails, Shape
  <2>2. tree' = tree \/ (CanMake(Parent(p)) /\ tree' = With(Made(Parent(p)), Unique(p), Part))
    BY <1>6 DEF ExtractFails
  <2> HIDE DEF p
  <2>3. Part \in Basic
    BY DEF Basic
  <2>4. ASSUME CanMake(Parent(p)), tree' = With(Made(Parent(p)), Unique(p), Part)
        PROVE  Sound(tree') /\ Keeps(tree')
    BY <1>1, <2>3, <2>4, UnpackedFile DEF p
  <2>5. Sound(tree') /\ Keeps(tree')
    BY <1>1, <2>2, <2>4, SameTree
  <2>6. JobInv(c)'
    BY <1>1, <2>1, RestingJob
  <2>7. QED
    BY <2>1, <2>5, <2>6, SoundFiles DEF KeepsTexts, Keeps
<1>7. QED
  BY <1>4, <1>5, <1>6

\* Packing and unpacking.
LEMMA PackingFiles ==
  ASSUME Shape, NEW c \in Clients, FilesInv(c), Packing(c)
  PROVE  FilesInv(c)' /\ KeepsTexts
<1>1. Hung(tree) /\ JobInv(c)
  BY DEF FilesInv
<1>2. ASSUME tree' = tree, job'[c].pc = "idle" \/ job' = job
      PROVE  FilesInv(c)' /\ KeepsTexts
  <2>1. Sound(tree') /\ Keeps(tree')
    BY <1>1, <1>2, SameTree
  <2>2. JobInv(c)' /\ (job'[c].pc # "extract"
                       \/ (job[c].pc = "extract" /\ job'[c].todo \subseteq job[c].todo))
    BY <1>1, <1>2, RestingJob
  <2>3. QED
    BY <2>1, <2>2, SoundFiles DEF KeepsTexts, Keeps
<1>3. CASE ArchiveEnds(c) \/ ZipdlEnds(c)
  <2>1. job[c].pc = "zip" /\ job'[c].pc = "idle"
    BY <1>3, FreshRecords DEF ArchiveEnds, ZipdlEnds, Zipping, Shape
  <2>2. tree' = tree \/ (CanZip(c) /\ tree' = Zipped(c))
    BY <1>3 DEF ArchiveEnds, ZipdlEnds
  <2>3. QED
    BY <1>2, <2>1, <2>2, ZippedFiles
<1>4. CASE ZipThrows(c) \/ ExtractEnds(c)
  <2>1. job'[c].pc = "idle" /\ tree' = tree
    BY <1>4, FreshRecords DEF ZipThrows, ExtractEnds, Shape
  <2>2. QED
    BY <1>2, <2>1
<1>5. CASE Fetch(c) \/ Leave(c)
  BY <1>2, <1>5 DEF Fetch, Leave
<1>6. CASE \E e \in job[c].todo : ExtractFile(c, e) \/ ExtractFolder(c, e) \/ ExtractFails(c, e)
  BY <1>6, UnpackingFiles
<1>7. QED
  BY <1>3, <1>4, <1>5, <1>6 DEF Packing

\* The process ends.
LEMMA CrashFiles ==
  ASSUME NEW c \in Clients, \A d \in Clients : d = c, FilesInv(c), Crash
  PROVE  FilesInv(c)' /\ KeepsTexts
<1>1. Hung(tree) /\ JobInv(c) /\ job'[c].pc = "idle"
  BY FreshRecords DEF FilesInv, Crash
<1> DEFINE f == job[c].from
           to == job[c].to
<1>2. tree' = tree \/ (job[c].pc = "copy" /\ f \in Paths /\ tree' \in Remains(f, to))
  BY DEF Crash
<1>3. job[c].pc = "copy" => to \in Proper
  BY <1>1 DEF JobInv
<1>4. Sound(tree') /\ (Keeps(tree') \/ (job[c].pc = "copy" /\ to \in Paths))
  <2> HIDE DEF f, to
  <2>1. QED
    BY <1>1, <1>2, <1>3, CopyKeeps, SameTree
<1>5. JobInv(c)'
  BY <1>1, RestingJob
<1>6. QED
  BY <1>1, <1>4, <1>5, SoundFiles DEF KeepsTexts, Keeps

\* Where a client's download is, and the counter.
RestType(c) ==
  /\ dl[c].pc \in {"none", "zipping", "named", "got", "garbled"}
  /\ download_ready \in BOOLEAN /\ commands \in 0..MaxCommands

\* Every step of the only client keeps the tree in one piece, and the texts.
LEMMA NextFiles ==
  ASSUME NEW c \in Clients, \A d \in Clients : d = c, Shape, FilesInv(c), [Next]_vars
  PROVE  FilesInv(c)' /\ KeepsTexts
<1>1. CASE AnyCommand(c)
  <2>1. ASSUME NEW d \in Paths, NEW b \in Bases, Mkdir(c, d, b) \/ Mkfile(c, d, b)
        PROVE  FilesInv(c)' /\ KeepsTexts
    <3>1. Sound(tree') /\ Keeps(tree') /\ job' = job /\ job[c].pc = "idle"
      BY <2>1, MakeFiles DEF FilesInv
    <3>2. QED
      BY <3>1, RestingJob, SoundFiles DEF FilesInv, KeepsTexts, Keeps
  <2>2. ASSUME NEW p \in Paths, NEW x \in Texts, Put(c, p, x)
        PROVE  FilesInv(c)' /\ KeepsTexts
    <3>1. Sound(tree') /\ job' = job /\ job[c].pc = "idle"
      BY <2>2, PutFiles DEF FilesInv
    <3>2. QED
      BY <2>2, <3>1, RestingJob, SoundFiles DEF FilesInv, KeepsTexts, Keeps
  <2>3. ASSUME NEW p \in Paths, NEW b \in Bases, Rename(c, p, b)
        PROVE  FilesInv(c)' /\ KeepsTexts
    <3>1. /\ Sound(tree') /\ job' = job /\ job[c].pc = "idle"
          /\ At(Parent(p), Name(b)) \in Paths \/ Keeps(tree')
      BY <2>3, RenameFiles DEF FilesInv
    <3>2. FilesInv(c)'
      BY <3>1, RestingJob, SoundFiles DEF FilesInv
    <3>3. QED
      BY <2>3, <3>1, <3>2 DEF KeepsTexts, Keeps
  <2>4. ASSUME NEW d \in Paths, NEW T \in SUBSET Shown(d), Rm(c, T)
        PROVE  FilesInv(c)' /\ KeepsTexts
    <3>1. Sound(tree') /\ job' = job /\ job[c].pc = "idle"
      BY <2>4, RmFiles DEF FilesInv
    <3>2. QED
      BY <2>4, <3>1, RestingJob, SoundFiles DEF FilesInv, KeepsTexts, Keeps
  <2>5. ASSUME NEW d \in Paths, NEW T \in SUBSET Shown(d),
               (\E e \in Paths, cut \in BOOLEAN : Paste(c, T, e, cut)) \/ Duplicate(c, T)
        PROVE  FilesInv(c)' /\ KeepsTexts
    <3>1. ASSUME NEW e \in Paths, NEW cut \in BOOLEAN, Paste(c, T, e, cut)
          PROVE  FilesInv(c)' /\ KeepsTexts
      BY <3>1, PasteFiles
    <3>2. CASE Duplicate(c, T)
      <4>1. TRUE \in BOOLEAN
        OBVIOUS
      <4>2. QED
        BY <3>2, <4>1, PasteFiles
    <3>3. QED
      BY <2>5, <3>1, <3>2
  <2>6. ASSUME NEW d \in Paths, NEW T \in SUBSET Shown(d), Zipdl(c, d, T)
        PROVE  FilesInv(c)' /\ KeepsTexts
    <3> DEFINE a == ArchivePath(d)
    <3>1. Picked(d, T) /\ ZipBegins(c, "zipdl", T, a)
      BY <2>6 DEF Zipdl
    <3>2. Hung(tree) /\ a \in ArchivePaths(d, T)
      BY DEF FilesInv, ArchivePaths
    <3>3. IsFolder(d) /\ a \in Proper /\ Parent(a) = d /\ a \notin Paths
      BY <3>1, <3>2, ArchivePlace
    <3> HIDE DEF a
    <3>4. ~IsFolder(a)
      BY <3>3 DEF IsFolder
    <3>5. FilesInv(c)' /\ Keeps(tree')
      BY <3>1, <3>3, <3>4, ZipFiles
    <3>6. QED
      BY <3>5 DEF KeepsTexts, Keeps
  <2>10. ASSUME NEW d \in Paths, NEW T \in SUBSET Shown(d), NEW a \in ArchivePaths(d, T),
                Archive(c, d, T, a)
         PROVE  FilesInv(c)' /\ KeepsTexts
    <3>1. Picked(d, T) /\ Hung(tree) /\ JobInv(c) /\ job[c].pc = "idle"
      BY <2>10 DEF Archive, Begins, FilesInv
    <3>2. CASE IsFolder(a)
      <4>1. tree' = tree /\ job' = job
        BY <2>10, <3>2 DEF Archive
      <4>2. Sound(tree') /\ Keeps(tree')
        BY <3>1, <4>1, SameTree
      <4>3. FilesInv(c)'
        BY <3>1, <4>1, <4>2, RestingJob, SoundFiles
      <4>4. QED
        BY <4>2, <4>3 DEF KeepsTexts, Keeps
    <3>3. CASE ~IsFolder(a)
      <4>1. ZipBegins(c, "archive", T, a)
        BY <2>10, <3>3 DEF Archive
      <4>2. IsFolder(d) /\ a \in Proper /\ Parent(a) = d
        BY <3>1, ArchivePlace
      <4>3. FilesInv(c)' /\ (a \in Paths \/ Keeps(tree'))
        BY <3>3, <4>1, <4>2, ZipFiles
      <4>4. QED
        BY <2>10, <4>3 DEF KeepsTexts, Keeps
    <3>4. QED
      BY <3>2, <3>3
  <2>7. ASSUME NEW z \in Paths, NEW makedir \in BOOLEAN, Extract(c, z, makedir)
        PROVE  FilesInv(c)' /\ KeepsTexts
    BY <2>7, ExtractFiles
  <2>8. CASE ZipdlTakenForFetch(c)
    <3>1. tree' = tree /\ job' = job /\ Hung(tree) /\ JobInv(c)
      BY <2>8 DEF ZipdlTakenForFetch, FilesInv
    <3>2. JobInv(c)' /\ (job'[c].pc # "extract"
                         \/ (job[c].pc = "extract" /\ job'[c].todo \subseteq job[c].todo))
      BY <3>1, RestingJob
    <3>3. QED
      BY <3>1, <3>2, SameTree, SoundFiles DEF KeepsTexts, Keeps
  <2>9. QED
    BY <1>1, <2>1, <2>2, <2>3, <2>4, <2>5, <2>6, <2>7, <2>8, <2>10 DEF AnyCommand
<1>2. CASE Copying(c)
  BY <1>2, CopyingFiles
<1>3. CASE Packing(c)
  BY <1>3, PackingFiles
<1>4. CASE Crash
  BY <1>4, CrashFiles
<1>5. CASE UNCHANGED vars
  <2>1. tree' = tree /\ job' = job
    BY <1>5 DEF vars
  <2>2. FilesInv(c)'
    BY <2>1 DEF FilesInv, JobInv, Contents, Paths
  <2>3. KeepsTexts
    BY <2>1, SameTree DEF FilesInv, KeepsTexts, Keeps
  <2>4. QED
    BY <2>2, <2>3
<1>6. QED
  BY <1>1, <1>2, <1>3, <1>4, <1>5 DEF Next

\* Every step keeps the types of the rest.
LEMMA NextRest ==
  ASSUME NEW c \in Clients, \A d \in Clients : d = c, Shape, DownloadInv(c), RestType(c),
         [Next]_vars
  PROVE  RestType(c)'
<1> USE FreshRecords DEF Shape, DlFields
<1>1. ASSUME dl'[c].pc \in {"none", "zipping", "named", "got", "garbled"},
             download_ready' \in BOOLEAN, commands' = commands
      PROVE  RestType(c)'
  BY <1>1 DEF RestType
<1>2. ASSUME NEW cmd, Begins(c, cmd),
             dl'[c].pc \in {"none", "zipping", "named", "got", "garbled"},
             download_ready' \in BOOLEAN
      PROVE  RestType(c)'
  <2>1. commands < MaxCommands /\ commands' = commands + 1 /\ commands \in 0..MaxCommands
        /\ MaxCommands \in Nat
    BY <1>2, ConstantsAssumption DEF Begins, RestType
  <2>2. commands' \in 0..MaxCommands
    BY <2>1
  <2>3. QED
    BY <1>2, <2>2 DEF RestType
<1>3. dl[c].pc \in {"none", "zipping", "named", "got", "garbled"} /\ download_ready \in BOOLEAN
  BY DEF RestType
<1>4. CASE AnyCommand(c)
  <2>1. ASSUME NEW d, NEW T, NEW e, NEW cut, NEW p, NEW b, NEW x, NEW a, NEW makedir,
               \/ Mkdir(c, d, b) \/ Mkfile(c, d, b) \/ Put(c, p, x) \/ Rename(c, p, b)
               \/ Rm(c, T) \/ Paste(c, T, e, cut) \/ Duplicate(c, T)
               \/ Archive(c, d, T, a) \/ Extract(c, p, makedir)
        PROVE  RestType(c)'
    <3>1. dl' = dl /\ static' = static
      BY <2>1, CommandQuiet DEF Quiet
    <3>2. PICK cmd \in {"mkdir", "mkfile", "put", "rename", "rm", "paste", "duplicate", "archive",
                        "extract"} : Begins(c, cmd)
      BY <2>1 DEF Mkdir, Mkfile, Make, Put, Rename, Rm, Paste, Duplicate, Archive, Extract
    <3>3. QED
      BY <1>2, <1>3, <3>1, <3>2 DEF static
  <2>2. ASSUME NEW d, NEW T, Zipdl(c, d, T)
        PROVE  RestType(c)'
    <3>1. Begins(c, "zipdl") /\ dl'[c].pc = "zipping" /\ download_ready' = download_ready
      BY <2>2 DEF Zipdl, NoDownload
    <3>2. QED
      BY <1>2, <1>3, <3>1
  <2>3. CASE ZipdlTakenForFetch(c)
    <3>1. Begins(c, "zipdl") /\ dl'[c].pc = "garbled" /\ download_ready' = FALSE
      BY <2>3 DEF ZipdlTakenForFetch
    <3>2. QED
      BY <1>2, <3>1
  <2>4. QED
    BY <1>4, <2>1, <2>2, <2>3 DEF AnyCommand
<1>5. CASE Copying(c)
  <2>1. dl' = dl /\ static' = static
    BY <1>5, CopyingShape
  <2>2. commands' = commands
    BY <1>5 DEF Copying, Choose, CopyWorks, CopyFails, CopyThrows, Cut, PasteEnds
  <2>3. QED
    BY <1>1, <1>3, <2>1, <2>2 DEF static
<1>6. CASE Packing(c)
  <2>1. commands' = commands
    BY <1>6 DEF Packing, ArchiveEnds, ZipThrows, ZipdlEnds, Fetch, Leave, ExtractEnds,
                ExtractFile, ExtractFolder, ExtractFails
  <2>2. CASE ArchiveEnds(c) \/ ExtractEnds(c)
             \/ \E e \in job[c].todo : ExtractFile(c, e) \/ ExtractFolder(c, e) \/ ExtractFails(c, e)
    <3>1. dl' = dl /\ static' = static
      BY <2>2 DEF ArchiveEnds, ExtractEnds, ExtractFile, ExtractFolder, ExtractFails
    <3>2. QED
      BY <1>1, <1>3, <2>1, <3>1 DEF static
  <2>3. CASE ZipThrows(c)
    <3>1. download_ready' = download_ready
          /\ dl' = [dl EXCEPT ![c] = IF @.pc = "zipping" THEN NoDownload ELSE @]
      BY <2>3 DEF ZipThrows, static
    <3>2. QED
      BY <1>1, <1>3, <2>1, <3>1
  <2>4. CASE ZipdlEnds(c)
    <3>1. \/ dl' = [dl EXCEPT ![c].pc = "named", ![c].of = Entries(job[c].todo)] /\ download_ready'
          \/ dl' = [dl EXCEPT ![c] = NoDownload] /\ download_ready' = download_ready
      BY <2>4 DEF ZipdlEnds
    <3>2. dl'[c].pc \in {"named", "none"} /\ download_ready' \in BOOLEAN
      <4>1. CASE dl' = [dl EXCEPT ![c].pc = "named", ![c].of = Entries(job[c].todo)] /\ download_ready'
        <5>1. dl'[c].pc = "named"
          BY <4>1
        <5>2. download_ready' = TRUE
          BY <2>4, <4>1, <5>1 DEF ZipdlEnds
        <5>3. QED
          BY <5>1, <5>2
      <4>2. CASE dl' = [dl EXCEPT ![c] = NoDownload] /\ download_ready' = download_ready
        BY <1>3, <4>2
      <4>3. QED
        BY <3>1, <4>1, <4>2
    <3>3. QED
      BY <1>1, <2>1, <3>2
  <2>5. CASE Fetch(c)
    <3>1. download_ready' = FALSE /\ dl'[c].pc \in {"got", "garbled"}
      BY <2>5 DEF Fetch
    <3>2. QED
      BY <1>1, <2>1, <3>1
  <2>6. CASE Leave(c)
    <3>1. download_ready' = download_ready /\ dl'[c].pc = "none"
      BY <2>6 DEF Leave, NoDownload, static
    <3>2. QED
      BY <1>1, <1>3, <2>1, <3>1
  <2>7. QED
    BY <1>6, <2>2, <2>3, <2>4, <2>5, <2>6 DEF Packing
<1>7. CASE Crash
  <2>1. dl'[c].pc = "none" /\ download_ready' = FALSE /\ commands' = commands
    BY <1>7 DEF Crash
  <2>2. QED
    BY <1>1, <2>1
<1>8. CASE UNCHANGED vars
  BY <1>8 DEF vars, static, RestType
<1>9. QED
  BY <1>4, <1>5, <1>6, <1>7, <1>8 DEF Next

\* At first.
LEMMA InitFiles ==
  ASSUME Init, NEW c \in Clients
  PROVE  FilesInv(c) /\ RestType(c)
<1>1. tree = AtFirst /\ job[c].pc = "idle" /\ dl[c].pc = "none"
  BY FreshRecords DEF Init
<1>2. Hung(tree)
  <2>1. ASSUME NEW p \in DOMAIN tree \ {<<>>}
        PROVE  Parent(p) \in DOMAIN tree /\ tree[Parent(p)] = Folder
    <3>1. p \in Proper
      BY <1>1, <2>1, ConstantsAssumption DEF Proper, Path
    <3>2. Len(p) - 1 \in 0..(Len(p) - 1)
      BY <3>1, ParentOf
    <3>3. QED
      BY <1>1, <2>1, <3>2, ConstantsAssumption DEF Parent
  <2>2. QED
    BY <1>1, <2>1, ConstantsAssumption DEF Hung, Path
<1> DEFINE B == Basic \cup {tree[p] : p \in Paths}
                 \cup UNION {{e[2] : e \in tree[p].of} : p \in {p \in Paths : tree[p].kind = "zip"}}
<1>3. Closed(B)
  <2>1. ASSUME NEW b \in Basic PROVE b.kind \in Kinds /\ b.kind # "zip"
    BY KindsApart DEF Basic, Kinds
  <2>2. ASSUME NEW p \in Paths
        PROVE  tree[p].kind \in Kinds
    BY <1>1, ConstantsAssumption DEF Paths
  <2>3. ASSUME NEW p \in Paths, tree[p].kind = "zip", NEW e \in tree[p].of
        PROVE  e[1] \in Proper /\ e[2] \in B \ {Part} /\ e[2].kind \in Kinds /\ e[2].kind # "zip"
    <3>1. e[1] \in Seq(Names) \ {<<>>} /\ e[2].kind \in {"folder", "text"}
      BY <1>1, <2>3, ConstantsAssumption DEF Paths
    <3>2. e[2] # Part
      BY <3>1, KindsApart
    <3>3. e[2] \in B
      BY <2>3
    <3> HIDE DEF B
    <3>4. QED
      BY <3>1, <3>2, <3>3 DEF Proper, Path, Kinds
  <2>4. \A b \in B : b \in Basic \/ (\E p \in Paths : b = tree[p])
                     \/ \E p \in Paths : tree[p].kind = "zip" /\ \E e \in tree[p].of : b = e[2]
    OBVIOUS
  <2>5. Basic \subseteq B
    OBVIOUS
  <2> HIDE DEF B
  <2>6. QED
    BY <2>1, <2>2, <2>3, <2>4, <2>5 DEF Closed
<1>4. \A p \in Paths : tree[p] \in B
  OBVIOUS
<1> HIDE DEF B
<1>5. FilesInv(c)
  BY <1>1, <1>2, <1>3, <1>4 DEF FilesInv, JobInv, Contents
<1>6. RestType(c)
  <2>1. download_ready = FALSE /\ commands = 0 /\ MaxCommands \in Nat
    BY ConstantsAssumption DEF Init
  <2>2. download_ready \in BOOLEAN
    BY <2>1
  <2>3. commands \in 0..MaxCommands
    BY <2>1
  <2>4. QED
    BY <1>1, <2>2, <2>3 DEF RestType
<1>7. QED
  BY <1>5, <1>6

\* What a step may rely on.
Inv(c) == Shape /\ DownloadInv(c) /\ FilesInv(c) /\ RestType(c)

\* A client that is alone finds every path in a folder, up to the root, whatever
\* it asks for, whatever fails and whenever the service stops: no command leaves a
\* file where there is no folder for it, or a file in the place of a folder.
THEOREM AloneKeepsTreeWhole ==
  ASSUME NEW c \in Clients, \A d \in Clients : d = c
  PROVE  Spec => []TypeOK
<1>1. Init => Inv(c)
  <2>1. Init => Shape /\ DownloadInv(c)
    BY FreshRecords DEF Init, Shape, DownloadInv
  <2>2. QED
    BY <2>1, InitFiles DEF Inv
<1>2. Inv(c) /\ [Next]_vars => Inv(c)'
  BY NextDownload, NextFiles, NextRest DEF Inv
<1>3. Inv(c) => TypeOK
  <2> SUFFICES ASSUME Inv(c) PROVE TypeOK
    OBVIOUS
  <2>1. Hung(tree) /\ JobInv(c) /\ RestType(c) /\ Clients = {c}
    BY DEF Inv, FilesInv
  <2>2. PICK B : Closed(B) /\ Contents(c, B)
    BY DEF Inv, FilesInv
  <2>3. \A p \in Paths : tree[p].kind \in Kinds
    BY <2>2 DEF Closed, Contents
  <2>4. <<>> \in Paths /\ \A p \in Paths : p # <<>> => IsFolder(Parent(p))
    BY <2>1 DEF Hung, Paths, IsFolder
  <2>5. job[c].pc \in {"idle", "next", "copy", "cut", "extract", "zip"}
        /\ (job[c].pc \in {"copy", "cut"} => job[c].to # <<>>)
    BY <2>1 DEF JobInv, Proper
  <2>6. QED
    BY <2>1, <2>3, <2>4, <2>5 DEF TypeOK, RestType
<1>4. QED
  BY <1>1, <1>2, <1>3, PTL DEF Spec

\* A client that is alone loses no text but by rm, by put and by what goes to a name that
\* is taken, a copy's last one, or one that a rename or an archive was given: not by a
\* move that fails or that the end of the process cuts short, by names that meet in an
\* archive or by what is unpacked from one.
THEOREM AloneKeepsTexts ==
  ASSUME NEW c \in Clients, \A d \in Clients : d = c
  PROVE  Spec => TextsKept
<1>1. Init => Inv(c)
  <2>1. Init => Shape /\ DownloadInv(c)
    BY FreshRecords DEF Init, Shape, DownloadInv
  <2>2. QED
    BY <2>1, InitFiles DEF Inv
<1>2. Inv(c) /\ [Next]_vars => Inv(c)'
  BY NextDownload, NextFiles, NextRest DEF Inv
<1>3. Inv(c) /\ [Next]_vars => [KeepsTexts]_vars
  BY NextFiles DEF Inv
<1>4. QED
  BY <1>1, <1>2, <1>3, PTL DEF Spec, TextsKept

-----------------------------------------------------------------------------
(* What the answers say.                                                   *)

\* Where a copying command j is, in a tree t: all it copies comes from the folder s and
\* goes to the folder h, which for a move is another and none of what it takes away.
Between(j, t, h, s) ==
  /\ h \in Path /\ h \in DOMAIN t /\ t[h] = Folder
  /\ s \in Path /\ s \in DOMAIN t /\ t[s] = Folder
  /\ IF j.op = "duplicate" THEN h = s /\ ~j.cut ELSE j.dst = h
  /\ j.cut => h # s
  /\ \A p \in j.todo : p \in Proper /\ Parent(p) = s /\ (j.cut => p # h)
  /\ j.pc \in {"copy", "cut"} =>
       /\ j.from \in Proper /\ Parent(j.from) = s /\ (j.cut => j.from # h)
       /\ j.to \in Proper /\ Parent(j.to) = h

\* What it is going to say was added and removed.
AddedIs(j, t, h) ==
  \A p \in j.added :
    p \in Proper /\ Parent(p) = h /\ p \in DOMAIN t /\ (t[p] = Part => LastName(p))
RemovedIs(j, t, s) ==
  \A p \in j.removed : p \in Proper /\ Parent(p) = s /\ (p \in DOMAIN t => InLastName(p))

\* Where there is something under the name that was chosen, it is the last name.
Report(j, t, h, s) ==
  /\ Between(j, t, h, s) /\ AddedIs(j, t, h) /\ RemovedIs(j, t, s)
  /\ j.removed # {} => j.cut
  /\ j.pc = "copy" /\ j.to \in DOMAIN t => LastName(j.to)

\* The same of unpacking, where nothing is put in the place of another.
Unpacked(j, t) == \A p \in j.added \cup j.removed : p \in DOMAIN t /\ t[p] # Part

ReportInv(c) ==
  /\ job[c].pc \in {"next", "copy", "cut"} => \E h, s : Report(job[c], tree, h, s)
  /\ job[c].pc = "extract" => Unpacked(job[c], tree)

\* Of two paths in a folder, neither is in the other; nor is one in itself.
LEMMA Siblings ==
  ASSUME NEW p \in Proper, NEW q \in Proper
  PROVE  (Parent(p) = Parent(q) => ~Under(p, q)) /\ Parent(p) # p
<1>1. /\ Len(p) \in Nat /\ Len(q) \in Nat
      /\ Len(Parent(p)) = Len(p) - 1 /\ Len(Parent(q)) = Len(q) - 1
  BY ParentOf
<1>2. ASSUME Parent(p) = Parent(q) PROVE ~Under(p, q)
  <2>1. Len(p) = Len(q)
    BY <1>1, <1>2
  <2>2. ~(Len(q) > Len(p))
    BY <1>1, <2>1
  <2>3. QED
    BY <2>2 DEF Under
<1>3. Len(Parent(p)) # Len(p)
  BY <1>1
<1>4. QED
  BY <1>2, <1>3

\* A copy touches only what is under its name, and no folder.
LEMMA CopyTouches ==
  ASSUME Hung(tree), NEW f \in Paths, NEW to \in Proper,
         NEW t, \/ t = Copied(f, to, Fitting(f, to), {})
                \/ t \in Stopped(f, to) \/ t \in Remains(f, to)
  PROVE  /\ Paths \subseteq DOMAIN t
         /\ \A p \in DOMAIN t : p \in Paths \/ From(to, p)
         /\ \A p \in Paths : ~From(to, p) => t[p] = tree[p]
         /\ \A p \in Paths : tree[p] = Folder => t[p] = Folder
<1>1. PICK S, X : /\ t = Copied(f, to, S, X)
                  /\ S \subseteq Fitting(f, to) /\ (\A q \in S \ {f} : Parent(q) \in S)
                  /\ \A q \in X : ~IsFolder(q)
  BY CopyParts
<1> DEFINE new == {Moved(q, f, to) : q \in S}
<1>2. DOMAIN t = Paths \cup new /\ \A p \in Paths : p \notin new => t[p] = tree[p]
  BY <1>1 DEF Copied
<1>3. \A p \in new : From(to, p)
  <2> SUFFICES ASSUME NEW q \in S PROVE From(to, Moved(q, f, to))
    OBVIOUS
  <2>1. q \in Below(f) \cup {f} /\ Paths \subseteq Path /\ to \in Path
    BY <1>1 DEF Fitting, Hung, Paths, Proper
  <2>2. q \in Path /\ f \in Path /\ From(f, q)
    BY <2>1 DEF Below, From
  <2>3. QED
    BY <2>1, <2>2, MovedPath
<1>4. \A p \in Paths : tree[p] = Folder => t[p] = Folder
  <2>1. \A p \in Paths : IsFolder(p) => Copied(f, to, S, X)[p] = Folder
    BY <1>1, HungCopied
  <2>2. QED
    BY <1>1, <2>1 DEF IsFolder
<1> HIDE DEF new
<1>5. QED
  BY <1>2, <1>3, <1>4

\* A copy that works is there, and whole where nothing was.
LEMMA CopyIsThere ==
  ASSUME Hung(tree), NEW f \in Paths, NEW to \in Proper, IsFolder(Parent(to)),
         NEW t, t = Copied(f, to, Fitting(f, to), {})
  PROVE  to \in DOMAIN t /\ (t[to] = Part => to \in Paths)
<1>1. CASE f \in Fitting(f, to)
  <2>1. \A q \in Fitting(f, to) \ {f} : Parent(q) \in Fitting(f, to)
    BY FittingFolders
  <2>2. to \in DOMAIN t /\ t[to] = Read(f)
    BY <1>1, <2>1, HungCopied
  <2>3. Read(f) # Part
    BY KindsApart DEF Read
  <2>4. QED
    BY <2>2, <2>3
<1>2. CASE f \notin Fitting(f, to)
  <2>1. f \in Path /\ to \in Path /\ Paths \subseteq Path
    BY DEF Hung, Paths, Proper
  <2>2. PICK p \in Below(f) \cup {f} :
          (p = f \/ Under(p, f)) /\ Moved(p, f, to) \in Paths
    BY <1>2 DEF Fitting
  <2>3. p = f
    <3>1. ASSUME Under(f, p), Under(p, f) PROVE FALSE
      <4>1. p \in Path
        BY <2>1, <2>2 DEF Below
      <4>2. Len(f) \in Nat /\ Len(p) \in Nat /\ Len(p) > Len(f) /\ Len(f) > Len(p)
        BY <2>1, <3>1, <4>1, PathBasics DEF Under
      <4>3. QED
        BY <4>2
    <3>2. QED
      BY <2>2, <3>1 DEF Below
  <2>4. to \in Paths
    BY <2>1, <2>2, <2>3, MovedBack DEF From
  <2>5. QED
    BY <2>4, CopyTouches
<1>3. QED
  BY <1>1, <1>2

\* A report of a command that has copied.
LEMMA Reported ==
  ASSUME NEW c \in Clients, job'[c].pc \in {"next", "copy", "cut"},
         NEW h, NEW s, Report(job'[c], tree', h, s)
  PROVE  ReportInv(c)'
BY DEF ReportInv

\* The name that is chosen.
LEMMA ChooseReport ==
  ASSUME Shape, NEW c \in Clients, FilesInv(c), ReportInv(c), NEW f \in job[c].todo, Choose(c, f)
  PROVE  ReportInv(c)'
<1> DEFINE j == job[c]
           jj == job'[c]
<1>1. PICK k \in 0..(Tries - 1) :
        /\ IsChoice(c, f, k)
        /\ job' = [job EXCEPT ![c].pc = "copy", ![c].todo = @ \ {f}, ![c].from = f,
                              ![c].to = Candidate(c, f, k)]
  BY DEF Choose
<1>2. /\ jj.pc = "copy" /\ jj.todo = j.todo \ {f} /\ jj.from = f
      /\ jj.to = Candidate(c, f, k) /\ jj.cut = j.cut /\ jj.dst = j.dst /\ jj.op = j.op
      /\ jj.added = j.added /\ jj.removed = j.removed
  BY <1>1 DEF Shape, Fields
<1>3. j.pc = "next" /\ tree' = tree
  BY DEF Choose
<1>4. PICK h, s : Report(j, tree, h, s)
  BY <1>3 DEF ReportInv
<1>5. Between(j, tree, h, s) /\ f \in Proper /\ Parent(f) = s /\ (j.cut => f # h)
  BY <1>4 DEF Report, Between
<1> DEFINE n == Tilde(NameOf(f), k)
<1>6. k \in Nat /\ NameOf(f) \in Names /\ (k = Tries - 1 => n.tildes >= Tries - 1) /\ n \in Names
  <2>1. k \in Nat /\ NameOf(f) \in Names /\ Tries \in Nat
    BY <1>5, ParentOf, ConstantsAssumption
  <2>2. n \in Names /\ n.tildes = NameOf(f).tildes + k /\ NameOf(f).tildes \in Nat
    BY <2>1 DEF Tilde, Names
  <2>3. k = Tries - 1 => n.tildes >= Tries - 1
    BY <2>1, <2>2
  <2>4. QED
    BY <2>1, <2>2, <2>3
<1>7. Candidate(c, f, k) = At(h, n)
  BY <1>5 DEF Candidate, Between
<1>8. jj.to \in Proper /\ Parent(jj.to) = h /\ NameOf(jj.to) = n
  <2>1. h \in Path
    BY <1>5 DEF Between
  <2> HIDE DEF n, jj
  <2>2. QED
    BY <1>2, <1>6, <1>7, <2>1, InFolder
<1>9. jj.to \in Paths => LastName(jj.to)
  BY <1>1, <1>2, <1>6, <1>8 DEF IsChoice, LastName
<1> HIDE DEF n, j, jj
<1>10. Between(jj, tree, h, s)
  BY <1>2, <1>5, <1>8 DEF Between
<1>11. AddedIs(jj, tree, h) /\ RemovedIs(jj, tree, s) /\ (jj.removed # {} => jj.cut)
  BY <1>2, <1>4 DEF Report, AddedIs, RemovedIs
<1>12. Report(jj, tree', h, s)
  BY <1>2, <1>3, <1>9, <1>10, <1>11 DEF Report, Paths
<1>13. QED
  BY <1>2, <1>12, Reported DEF jj

\* What a copy leaves of what is to be reported: all of it, but for what is under the
\* last name.
LEMMA CopyReport ==
  ASSUME Shape, NEW c \in Clients, FilesInv(c), job[c].pc = "copy",
         NEW h, NEW s, Report(job[c], tree, h, s), job[c].from \in Paths,
         NEW t, \/ t = Copied(job[c].from, job[c].to, Fitting(job[c].from, job[c].to), {})
                \/ t \in Stopped(job[c].from, job[c].to) \/ t \in Remains(job[c].from, job[c].to)
  PROVE  Between(job[c], t, h, s) /\ AddedIs(job[c], t, h) /\ RemovedIs(job[c], t, s)
<1>0. PICK j, f, to : j = job[c] /\ f = job[c].from /\ to = job[c].to
  OBVIOUS
<1>1. /\ Between(j, tree, h, s) /\ AddedIs(j, tree, h) /\ RemovedIs(j, tree, s)
      /\ j.removed # {} => j.cut
      /\ to \in Paths => LastName(to)
  BY <1>0 DEF Report, Paths
<1>2. /\ to \in Proper /\ Parent(to) = h /\ f \in Paths /\ Hung(tree)
      /\ j.cut => h # s
      /\ s \in Path /\ s \in Paths
  BY <1>0, <1>1 DEF Between, FilesInv, Paths
<1>3. /\ Paths \subseteq DOMAIN t
      /\ \A p \in DOMAIN t : p \in Paths \/ From(to, p)
      /\ \A p \in Paths : ~From(to, p) => t[p] = tree[p]
      /\ \A p \in Paths : tree[p] = Folder => t[p] = Folder
  BY <1>0, <1>2, CopyTouches
<1>4. Between(j, t, h, s)
  BY <1>1, <1>3 DEF Between, Paths
<1>5. ASSUME NEW p \in j.added
      PROVE  p \in Proper /\ Parent(p) = h /\ p \in DOMAIN t /\ (t[p] = Part => LastName(p))
  <2>1. p \in Proper /\ Parent(p) = h /\ p \in Paths /\ (tree[p] = Part => LastName(p))
    BY <1>1, <1>5 DEF AddedIs, Paths
  <2>2. From(to, p) => p = to
    BY <1>2, <2>1, Siblings DEF From
  <2>3. QED
    BY <1>1, <1>3, <2>1, <2>2
<1>6. ASSUME NEW p \in j.removed
      PROVE  p \in Proper /\ Parent(p) = s /\ (p \in DOMAIN t => InLastName(p))
  <2>1. p \in Proper /\ Parent(p) = s /\ (p \in Paths => InLastName(p)) /\ h # s
    BY <1>1, <1>2, <1>6 DEF RemovedIs, Paths
  <2>2. ASSUME From(to, p) PROVE InLastName(p)
    <3>1. Under(to, p)
      BY <1>2, <2>1, <2>2 DEF From
    <3>2. /\ Len(to) \in Nat \ {0} /\ Len(p) \in Nat \ {0} /\ Len(p) > Len(to)
          /\ SubSeq(p, 1, Len(to)) = to
          /\ p \in Path /\ to \in Path
      BY <1>2, <2>1, <3>1, ParentOf DEF Under, Proper
    <3>3. Len(to) \in 1..(Len(p) - 1) /\ Len(to) \in 0..Len(p) /\ Len(p) - 1 \in 0..Len(p)
          /\ Len(p) - 1 >= Len(to)
      BY <3>2
    <3>4. From(to, Parent(p))
      <4>1. From(to, SubSeq(p, 1, Len(p) - 1))
        BY <2>2, <3>2, <3>3, Above
      <4>2. QED
        BY <4>1 DEF Parent
    <3>5. to \in Paths
      BY <1>2, <2>1, <3>2, <3>4, InFolders DEF Paths
    <3>6. LastName(to)
      BY <1>1, <3>5
    <3>7. QED
      BY <3>2, <3>3, <3>6 DEF InLastName
  <2>3. QED
    BY <1>3, <2>1, <2>2
<1>7. QED
  BY <1>0, <1>4, <1>5, <1>6 DEF AddedIs, RemovedIs

\* What is taken away is told, and is neither of what was added nor a folder it is in.
LEMMA CutReport ==
  ASSUME Shape, NEW c \in Clients, FilesInv(c), ReportInv(c), Cut(c)
  PROVE  ReportInv(c)'
<1>0. PICK j, f : j = job[c] /\ f = job[c].from
  OBVIOUS
<1>1. /\ j.pc = "cut" /\ j.cut /\ Hung(tree)
  BY <1>0 DEF Cut, FilesInv, JobInv
<1>2. PICK h, s : Report(j, tree, h, s)
  BY <1>0, <1>1 DEF ReportInv
<1>3. /\ Between(j, tree, h, s) /\ AddedIs(j, tree, h) /\ RemovedIs(j, tree, s)
      /\ f \in Proper /\ Parent(f) = s /\ f # h /\ h # s /\ f # s
  BY <1>0, <1>1, <1>2, Siblings DEF Report, Between
<1>4. /\ job'[c].pc = "next" /\ job'[c].cut = j.cut /\ job'[c].todo = j.todo
      /\ job'[c].dst = j.dst /\ job'[c].op = j.op /\ job'[c].added = j.added
  BY <1>0 DEF Cut, Shape, Fields
<1>5. CASE tree' = Without(tree, {f}) /\ job'[c].removed = j.removed \cup {f}
  <2>1. DOMAIN tree' = DOMAIN tree \ {f} /\ \A p \in DOMAIN tree' : tree'[p] = tree[p]
    BY <1>5 DEF Without
  <2>2. Between(job'[c], tree', h, s)
    BY <1>3, <1>4, <2>1 DEF Between
  <2>3. AddedIs(job'[c], tree', h)
    BY <1>3, <1>4, <2>1 DEF AddedIs
  <2>4. RemovedIs(job'[c], tree', s)
    BY <1>3, <1>4, <1>5, <2>1 DEF RemovedIs
  <2>5. QED
    BY <1>1, <1>4, <2>2, <2>3, <2>4, Reported DEF Report
<1>6. CASE tree' = tree /\ job'[c].removed = j.removed
  <2>1. Between(job'[c], tree', h, s) /\ AddedIs(job'[c], tree', h) /\ RemovedIs(job'[c], tree', s)
    BY <1>3, <1>4, <1>6 DEF Between, AddedIs, RemovedIs
  <2>2. QED
    BY <1>1, <1>4, <2>1, Reported DEF Report
<1>7. QED
  <2>1. \/ /\ tree' = Without(tree, {f})
           /\ job' = [job EXCEPT ![c].pc = "next", ![c].removed = @ \cup {f}]
        \/ job' = [job EXCEPT ![c].pc = "next"] /\ tree' = tree
    BY <1>0 DEF Cut
  <2>2. CASE /\ tree' = Without(tree, {f})
             /\ job' = [job EXCEPT ![c].pc = "next", ![c].removed = @ \cup {f}]
    BY <1>0, <1>5, <2>2 DEF Shape, Fields
  <2>3. CASE job' = [job EXCEPT ![c].pc = "next"] /\ tree' = tree
    BY <1>0, <1>6, <2>3 DEF Shape, Fields
  <2>4. QED
    BY <2>1, <2>2, <2>3

\* A copy that works is told, one that fails is not.
LEMMA CopiedReport ==
  ASSUME Shape, NEW c \in Clients, FilesInv(c), ReportInv(c), CopyWorks(c) \/ CopyFails(c)
  PROVE  ReportInv(c)'
<1>0. PICK j, f, to : j = job[c] /\ f = job[c].from /\ to = job[c].to
  OBVIOUS
<1>1. j.pc = "copy" /\ Hung(tree)
  BY <1>0 DEF CopyWorks, CopyFails, FilesInv
<1>2. PICK h, s : Report(j, tree, h, s)
  BY <1>0, <1>1 DEF ReportInv
<1>3. to \in Proper /\ Parent(to) = h /\ IsFolder(h) /\ (to \in Paths => LastName(to))
      /\ (j.removed # {} => j.cut)
  BY <1>0, <1>1, <1>2 DEF Report, Between, IsFolder, Paths
<1>4. CASE CopyWorks(c)
  <2>1. /\ f \in Paths /\ tree' = Copied(f, to, Fitting(f, to), {})
        /\ job' = [job EXCEPT ![c].pc = IF job[c].cut THEN "cut" ELSE "next",
                              ![c].added = @ \cup {to}]
    BY <1>0, <1>4 DEF CopyWorks
  <2>2. /\ job'[c].pc = (IF j.cut THEN "cut" ELSE "next") /\ job'[c].cut = j.cut
        /\ job'[c].todo = j.todo /\ job'[c].dst = j.dst /\ job'[c].op = j.op
        /\ job'[c].from = j.from /\ job'[c].to = j.to
        /\ job'[c].added = j.added \cup {to} /\ job'[c].removed = j.removed
    BY <1>0, <2>1 DEF Shape, Fields
  <2>3. job'[c].pc \in {"next", "cut"}
    <3>1. j.cut \/ ~j.cut
      OBVIOUS
    <3>2. QED
      BY <2>2, <3>1
  <2>4. Between(j, tree', h, s) /\ AddedIs(j, tree', h) /\ RemovedIs(j, tree', s)
    BY <1>0, <1>1, <1>2, <2>1, CopyReport
  <2>5. to \in DOMAIN tree' /\ (tree'[to] = Part => LastName(to))
    BY <1>1, <1>3, <2>1, CopyIsThere
  <2>6. Between(job'[c], tree', h, s)
    BY <1>1, <2>2, <2>4 DEF Between
  <2>7. AddedIs(job'[c], tree', h)
    BY <1>3, <2>2, <2>4, <2>5 DEF AddedIs
  <2>8. RemovedIs(job'[c], tree', s)
    BY <2>2, <2>4 DEF RemovedIs
  <2>9. QED
    BY <1>3, <2>2, <2>3, <2>6, <2>7, <2>8, Reported DEF Report
<1>5. CASE CopyFails(c)
  <2>1. job' = [job EXCEPT ![c].pc = "next"]
    BY <1>5 DEF CopyFails
  <2>2. /\ job'[c].pc = "next" /\ job'[c].cut = j.cut
        /\ job'[c].todo = j.todo /\ job'[c].dst = j.dst /\ job'[c].op = j.op
        /\ job'[c].added = j.added /\ job'[c].removed = j.removed
    BY <1>0, <2>1 DEF Shape, Fields
  <2>3. tree' = tree \/ (f \in Paths /\ (tree' \in Stopped(f, to) \/ tree' \in Remains(f, to)))
    BY <1>0, <1>5 DEF CopyFails
  <2>4. Between(j, tree', h, s) /\ AddedIs(j, tree', h) /\ RemovedIs(j, tree', s)
    BY <1>0, <1>1, <1>2, <2>3, CopyReport DEF Report
  <2>5. Between(job'[c], tree', h, s) /\ AddedIs(job'[c], tree', h) /\ RemovedIs(job'[c], tree', s)
    BY <2>2, <2>4 DEF Between, AddedIs, RemovedIs
  <2>6. QED
    BY <1>3, <2>2, <2>5, Reported DEF Report
<1>6. QED
  BY <1>4, <1>5

\* Answers are records for the clients.
Told == DOMAIN answer = Clients

\* The answer that c is given holds.
TellsTrue(c) ==
  (answer'[c] # answer[c] /\ answer'[c].ok) =>
     /\ \A p \in answer'[c].added : p \in DOMAIN tree' /\ (tree'[p] = Part => LastName(p))
     /\ \A p \in answer'[c].removed : p \in DOMAIN tree' => InLastName(p)

\* The answer at the end of a copying command.
LEMMA CopyingReport ==
  ASSUME Shape, Told, NEW c \in Clients, FilesInv(c), ReportInv(c), Copying(c)
  PROVE  Told' /\ ReportInv(c)' /\ TellsTrue(c)
<1>1. CASE \E f \in job[c].todo : Choose(c, f)
  <2>1. answer' = answer
    BY <1>1 DEF Choose
  <2>2. QED
    BY <1>1, <2>1, ChooseReport DEF TellsTrue, Told
<1>2. CASE CopyWorks(c) \/ CopyFails(c)
  <2>1. answer' = answer
    BY <1>2 DEF CopyWorks, CopyFails
  <2>2. QED
    BY <1>2, <2>1, CopiedReport DEF TellsTrue, Told
<1>3. CASE CopyThrows(c)
  <2>1. answer' = answer /\ job'[c].pc = "idle"
    BY <1>3, FreshRecords DEF CopyThrows, Shape
  <2>2. QED
    BY <2>1 DEF TellsTrue, ReportInv, Told
<1>4. CASE Cut(c)
  <2>1. answer' = answer
    BY <1>4 DEF Cut
  <2>2. QED
    BY <1>4, <2>1, CutReport DEF TellsTrue, Told
<1>5. CASE PasteEnds(c)
  <2>1. job'[c].pc = "idle" /\ job[c].pc = "next" /\ tree' = tree
        /\ Answers(c, TRUE, job[c].added, job[c].removed)
    BY <1>5, FreshRecords DEF PasteEnds, Shape
  <2>2. PICK h, s : Report(job[c], tree, h, s)
    BY <2>1 DEF ReportInv
  <2>3. answer'[c].added = job[c].added /\ answer'[c].removed = job[c].removed /\ Told'
    BY <2>1 DEF Answers, Told
  <2>4. QED
    BY <2>1, <2>2, <2>3 DEF Report, AddedIs, RemovedIs, TellsTrue, ReportInv
<1>6. QED
  BY <1>1, <1>2, <1>3, <1>4, <1>5 DEF Copying

\* What is shown in a folder is in it.
LEMMA ShownIn ==
  ASSUME Hung(tree), NEW d \in Paths, NEW p \in Shown(d)
  PROVE  p \in Proper /\ Parent(p) = d /\ IsFolder(d)
<1>1. p \in Proper
  BY ShownProper
<1>2. CASE p \in Children(d)
  <2>1. p \in DOMAIN tree /\ Under(d, p) /\ Len(p) = Len(d) + 1 /\ d \in Path /\ Len(d) \in Nat
    BY <1>2, PathBasics DEF Children, Below, Hung, Paths
  <2>2. Len(p) - 1 = Len(d) /\ SubSeq(p, 1, Len(d)) = d
    BY <2>1 DEF Under
  <2>3. Parent(p) = d
    BY <2>2 DEF Parent
  <2>4. IsFolder(d)
    BY <2>1, InFolders DEF From, IsFolder, Paths
  <2>5. QED
    BY <1>1, <2>3, <2>4
<1>3. CASE p \notin Children(d)
  BY <1>1, <1>3 DEF Shown
<1>4. QED
  BY <1>2, <1>3

\* A command that copies begins with nothing to tell.
LEMMA PasteReport ==
  ASSUME Shape, NEW c \in Clients, FilesInv(c), NEW d \in Paths, NEW T \in SUBSET Shown(d),
         NEW e \in Paths, NEW cut \in BOOLEAN, Paste(c, T, e, cut)
  PROVE  ReportInv(c)'
<1>1. Hung(tree) /\ T # {} /\ Paths \subseteq Path
  BY DEF FilesInv, Paste, Hung, Paths
<1>2. \A p \in T : p \in Proper /\ Parent(p) = d /\ IsFolder(d)
  BY <1>1, ShownIn
<1>3. /\ tree' = tree /\ IsFolder(e)
      /\ \A p \in T : e # p /\ (cut => Parent(p) # e)
      /\ job' = [job EXCEPT ![c] = [Idle EXCEPT !.pc = "next", !.op = "paste", !.todo = T,
                                                !.dst = e, !.cut = cut]]
  BY DEF Paste
<1>4. /\ job'[c].pc = "next" /\ job'[c].op = "paste" /\ job'[c].todo = T
      /\ job'[c].dst = e /\ job'[c].cut = cut /\ job'[c].added = {} /\ job'[c].removed = {}
  BY <1>3 DEF Shape, Idle
<1>5. Between(job'[c], tree', e, d)
  BY <1>1, <1>2, <1>3, <1>4 DEF Between, IsFolder, Paths
<1>6. Report(job'[c], tree', e, d)
  BY <1>4, <1>5 DEF Report, AddedIs, RemovedIs
<1>7. QED
  BY <1>4, <1>6, Reported

\* Neither has a duplication.
LEMMA DuplicateReport ==
  ASSUME Shape, NEW c \in Clients, FilesInv(c), NEW d \in Paths, NEW T \in SUBSET Shown(d),
         Duplicate(c, T)
  PROVE  ReportInv(c)'
<1>1. Hung(tree) /\ T # {} /\ Paths \subseteq Path
  BY DEF FilesInv, Duplicate, Hung, Paths
<1>2. \A p \in T : p \in Proper /\ Parent(p) = d /\ IsFolder(d)
  BY <1>1, ShownIn
<1>3. /\ tree' = tree
      /\ job' = [job EXCEPT ![c] = [Idle EXCEPT !.pc = "next", !.op = "duplicate", !.todo = T]]
  BY DEF Duplicate
<1>4. /\ job'[c].pc = "next" /\ job'[c].op = "duplicate" /\ job'[c].todo = T
      /\ ~job'[c].cut /\ job'[c].added = {} /\ job'[c].removed = {}
  BY <1>3 DEF Shape, Idle
<1>5. Between(job'[c], tree', d, d)
  BY <1>1, <1>2, <1>3, <1>4 DEF Between, IsFolder, Paths
<1>6. Report(job'[c], tree', d, d)
  BY <1>4, <1>5 DEF Report, AddedIs, RemovedIs
<1>7. QED
  BY <1>4, <1>6, Reported

\* Commands of one step tell what they have done.
LEMMA StepTells ==
  ASSUME Shape, Told, NEW c \in Clients,
         NEW d \in Paths, NEW T, NEW p, NEW b, NEW x,
         Mkdir(c, d, b) \/ Mkfile(c, d, b) \/ Put(c, p, x) \/ Rename(c, p, b) \/ Rm(c, T)
  PROVE  Told' /\ ReportInv(c)' /\ TellsTrue(c)
<1>1. job' = job /\ job[c].pc = "idle"
  BY DEF Mkdir, Mkfile, Make, Put, Rename, Rm, Begins
<1>2. ReportInv(c)'
  BY <1>1 DEF ReportInv
<1>3. ASSUME NEW cmd, NEW r, NEW body, Make(c, cmd, r, body), body # Part
      PROVE  Told' /\ TellsTrue(c)
  <2>1. CASE r \in Paths
    BY <1>3, <2>1 DEF Make, Answers, Told, TellsTrue
  <2>2. CASE r \notin Paths
    <3>1. tree' = With(tree, r, body) /\ Answers(c, TRUE, {r}, {})
      BY <1>3, <2>2 DEF Make
    <3>2. r \in DOMAIN tree' /\ tree'[r] = body
      BY <3>1 DEF With
    <3>3. answer'[c].added = {r} /\ answer'[c].removed = {} /\ Told'
      BY <3>1 DEF Answers, Told
    <3>4. QED
      BY <1>3, <3>2, <3>3 DEF TellsTrue
  <2>3. QED
    BY <2>1, <2>2
<1>4. CASE Mkdir(c, d, b) \/ Mkfile(c, d, b)
  BY <1>2, <1>3, <1>4, KindsApart DEF Mkdir, Mkfile
<1>5. CASE Put(c, p, x) \/ Rename(c, p, b)
  BY <1>2, <1>5 DEF Put, Rename, Answers, Told, TellsTrue
<1>6. CASE Rm(c, T)
  <2> DEFINE S == {q \in Paths : \E r \in T : q = r \/ Under(r, q)}
  <2>1. CASE tree' = Without(tree, S) /\ Answers(c, TRUE, {}, S)
    <3>1. DOMAIN tree' = DOMAIN tree \ S
      BY <2>1 DEF Without
    <3> HIDE DEF S
    <3>2. answer'[c].added = {} /\ answer'[c].removed = S /\ Told'
      BY <2>1 DEF Answers, Told
    <3>3. QED
      BY <1>2, <3>1, <3>2 DEF TellsTrue
  <2>2. CASE Answers(c, FALSE, {}, {})
    BY <1>2, <2>2 DEF Answers, Told, TellsTrue
  <2>3. QED
    BY <1>6, <2>1, <2>2 DEF Rm
<1>7. QED
  BY <1>4, <1>5, <1>6

\* Archives, and what is unpacked, where nothing was: what was told of before stays.
LEMMA UnpackedReport ==
  ASSUME Shape, Told, NEW c \in Clients, FilesInv(c), ReportInv(c), NEW e \in job[c].todo,
         ExtractFile(c, e) \/ ExtractFolder(c, e) \/ ExtractFails(c, e)
  PROVE  Told' /\ ReportInv(c)' /\ TellsTrue(c)
<1>1. job[c].pc = "extract" /\ Hung(tree) /\ job[c].dst \in Path
  BY DEF FilesInv, JobInv, ExtractFile, ExtractFolder, ExtractFails, IsNext
<1>2. e[1] \in Proper /\ e[2] # Part /\ Unpacked(job[c], tree)
  BY <1>1 DEF FilesInv, Contents, ReportInv
<1>3. ASSUME \A q \in Paths : q \in DOMAIN tree' /\ tree'[q] = tree[q]
      PROVE  Unpacked(job[c], tree')
  BY <1>2, <1>3 DEF Unpacked, Paths
<1> DEFINE p == job[c].dst \o e[1]
           f == Unique(p)
<1>4. ASSUME CanMake(Parent(p)), NEW body, tree' = With(Made(Parent(p)), f, body)
      PROVE  f \in DOMAIN tree' /\ tree'[f] = body /\ \A q \in Paths : q \in DOMAIN tree' /\ tree'[q] = tree[q]
  <2>1. f \notin Paths
    <3>1. p \in Proper
      <4>1. e[1] \in Path /\ Len(e[1]) \in Nat \ {0} /\ Len(job[c].dst) \in Nat
        BY <1>1, <1>2, ParentOf, PathBasics DEF Proper
      <4>2. p \in Path /\ Len(p) = Len(job[c].dst) + Len(e[1])
        BY <1>1, <4>1, ConcatProperties DEF Path
      <4>3. \A i \in Nat, k \in Nat \ {0} : i + k # 0
        OBVIOUS
      <4>4. Len(p) # 0
        BY <4>1, <4>2, <4>3
      <4>5. QED
        BY <4>2, <4>4, PathBasics DEF Proper
    <3> HIDE DEF p
    <3>2. QED
      BY <1>1, <3>1, UniqueIsNew
  <2> HIDE DEF f, p
  <2>2. QED
    BY <1>4, <2>1 DEF With, Made, Paths
<1>5. CASE ExtractFile(c, e)
  <2>1. CanMake(Parent(p)) /\ tree' = With(Made(Parent(p)), f, e[2]) /\ answer' = answer
    BY <1>5 DEF ExtractFile
  <2>2. job' = [job EXCEPT ![c].todo = @ \ {e}, ![c].added = @ \cup {f}]
    BY <1>5 DEF ExtractFile
  <2> HIDE DEF f, p
  <2>3. job'[c].pc = "extract" /\ job'[c].added = job[c].added \cup {f} /\ job'[c].removed = job[c].removed
    BY <1>1, <2>2 DEF Shape, Fields
  <2>4. f \in DOMAIN tree' /\ tree'[f] # Part /\ Unpacked(job[c], tree')
    BY <1>2, <1>3, <1>4, <2>1
  <2>5. Unpacked(job'[c], tree')
    BY <2>3, <2>4 DEF Unpacked
  <2>6. QED
    BY <2>1, <2>3, <2>5 DEF ReportInv, Told, TellsTrue
<1>6. CASE ExtractFolder(c, e)
  <2>1. job'[c].pc = "extract" /\ job'[c].added = job[c].added /\ answer' = answer
    BY <1>1, <1>6 DEF ExtractFolder, Shape, Fields
  <2>2. \/ tree' = tree /\ job'[c].removed = job[c].removed
        \/ /\ e[1] \notin Paths /\ tree' = With(tree, e[1], Folder)
           /\ job'[c].removed = job[c].removed \cup {e[1]}
    <3> DEFINE works == e[1] \notin Paths /\ IsFolder(Parent(e[1]))
    <3>1. /\ tree' = IF works THEN With(tree, e[1], Folder) ELSE tree
          /\ job' = [job EXCEPT ![c].todo = @ \ {e}, ![c].removed = IF works THEN @ \cup {e[1]} ELSE @]
      BY <1>6 DEF ExtractFolder
    <3>2. job'[c].removed = IF works THEN job[c].removed \cup {e[1]} ELSE job[c].removed
      BY <3>1 DEF Shape, Fields
    <3>3. QED
      BY <3>1, <3>2
  <2>3. Unpacked(job'[c], tree')
    <3>1. CASE tree' = tree /\ job'[c].removed = job[c].removed
      BY <1>2, <2>1, <3>1 DEF Unpacked
    <3>2. CASE /\ e[1] \notin Paths /\ tree' = With(tree, e[1], Folder)
               /\ job'[c].removed = job[c].removed \cup {e[1]}
      <4>1. /\ e[1] \in DOMAIN tree' /\ tree'[e[1]] # Part
            /\ \A q \in Paths : q \in DOMAIN tree' /\ tree'[q] = tree[q]
        BY <3>2, KindsApart DEF With, Paths
      <4>2. Unpacked(job[c], tree')
        BY <1>3, <4>1
      <4>3. QED
        BY <2>1, <3>2, <4>1, <4>2 DEF Unpacked
    <3>3. QED
      BY <2>2, <3>1, <3>2
  <2>4. QED
    BY <2>1, <2>3 DEF ReportInv, Told, TellsTrue
<1>7. CASE ExtractFails(c, e)
  <2>1. job'[c].pc = "idle" /\ Answers(c, TRUE, job[c].added, {})
        /\ (tree' = tree \/ (CanMake(Parent(p)) /\ tree' = With(Made(Parent(p)), f, Part)))
    BY <1>7, FreshRecords DEF ExtractFails, Shape
  <2> HIDE DEF f, p
  <2>2. Unpacked(job[c], tree')
    BY <1>2, <1>3, <1>4, <2>1
  <2>3. answer'[c].added = job[c].added /\ answer'[c].removed = {} /\ Told'
    BY <2>1 DEF Answers, Told
  <2>4. QED
    BY <2>1, <2>2, <2>3 DEF Unpacked, ReportInv, TellsTrue
<1>8. QED
  BY <1>5, <1>6, <1>7

\* Packing and unpacking.
LEMMA PackingReport ==
  ASSUME Shape, Told, NEW c \in Clients, FilesInv(c), ReportInv(c), Packing(c)
  PROVE  Told' /\ ReportInv(c)' /\ TellsTrue(c)
<1>1. CASE ArchiveEnds(c)
  <2>1. job'[c].pc = "idle" /\ job[c].pc = "zip"
    BY <1>1, FreshRecords DEF ArchiveEnds, Zipping, Shape
  <2>2. PICK to : to = job[c].to
    OBVIOUS
  <2>3. CASE tree' = Zipped(c) /\ Answers(c, TRUE, {to}, {})
    <3>1. to \in DOMAIN tree' /\ tree'[to] = Zip(Entries(job[c].todo))
      BY <2>2, <2>3 DEF Zipped, With
    <3>2. tree'[to] # Part
      BY <3>1, KindsApart
    <3>3. answer'[c].added = {to} /\ answer'[c].removed = {} /\ Told'
      BY <2>3 DEF Answers, Told
    <3>4. QED
      BY <2>1, <3>1, <3>2, <3>3 DEF ReportInv, TellsTrue
  <2>4. CASE Answers(c, FALSE, {to}, {})
    BY <2>1, <2>4 DEF Answers, Told, TellsTrue, ReportInv
  <2>5. QED
    BY <1>1, <2>2, <2>3, <2>4 DEF ArchiveEnds
<1>2. CASE ZipThrows(c) \/ ZipdlEnds(c)
  <2>1. answer' = answer /\ job'[c].pc = "idle"
    BY <1>2, FreshRecords DEF ZipThrows, ZipdlEnds, Zipping, Shape
  <2>2. QED
    BY <2>1 DEF Told, TellsTrue, ReportInv
<1>3. CASE Fetch(c) \/ Leave(c)
  <2>1. answer' = answer /\ job' = job /\ tree' = tree
    BY <1>3 DEF Fetch, Leave
  <2>2. QED
    BY <2>1 DEF Told, TellsTrue, ReportInv
<1>4. CASE ExtractEnds(c)
  <2>1. /\ job'[c].pc = "idle" /\ tree' = tree
        /\ Answers(c, TRUE, job[c].added \cup job[c].removed, {})
        /\ Unpacked(job[c], tree)
    BY <1>4, FreshRecords DEF ExtractEnds, Shape, ReportInv
  <2>2. answer'[c].added = job[c].added \cup job[c].removed /\ answer'[c].removed = {} /\ Told'
    BY <2>1 DEF Answers, Told
  <2>3. QED
    BY <2>1, <2>2 DEF Unpacked, ReportInv, TellsTrue
<1>5. CASE \E e \in job[c].todo : ExtractFile(c, e) \/ ExtractFolder(c, e) \/ ExtractFails(c, e)
  BY <1>5, UnpackedReport
<1>6. QED
  BY <1>1, <1>2, <1>3, <1>4, <1>5 DEF Packing

\* Commands that begin.
LEMMA CommandReport ==
  ASSUME Shape, Told, NEW c \in Clients, FilesInv(c), AnyCommand(c)
  PROVE  Told' /\ ReportInv(c)' /\ TellsTrue(c)
<1>1. ASSUME answer' = answer, ReportInv(c)'
      PROVE  Told' /\ ReportInv(c)' /\ TellsTrue(c)
  BY <1>1 DEF Told, TellsTrue
<1>2. ASSUME NEW d \in Paths, NEW T, NEW p, NEW b, NEW x,
             Mkdir(c, d, b) \/ Mkfile(c, d, b) \/ Put(c, p, x) \/ Rename(c, p, b) \/ Rm(c, T)
      PROVE  Told' /\ ReportInv(c)' /\ TellsTrue(c)
  BY <1>2, StepTells
<1>3. ASSUME NEW d \in Paths, NEW T \in SUBSET Shown(d),
             (\E e \in Paths, cut \in BOOLEAN : Paste(c, T, e, cut)) \/ Duplicate(c, T)
      PROVE  Told' /\ ReportInv(c)' /\ TellsTrue(c)
  <2>1. answer' = answer
    BY <1>3 DEF Paste, Duplicate
  <2>2. ASSUME NEW e \in Paths, NEW cut \in BOOLEAN, Paste(c, T, e, cut)
        PROVE  ReportInv(c)'
    BY <2>2, PasteReport
  <2>3. CASE Duplicate(c, T)
    BY <1>1, <2>1, <2>3, DuplicateReport
  <2>4. QED
    BY <1>1, <1>3, <2>1, <2>2, <2>3
<1>8. ASSUME NEW op, NEW T, NEW a, ZipBegins(c, op, T, a), answer' = answer
      PROVE  Told' /\ ReportInv(c)' /\ TellsTrue(c)
  <2>1. job'[c].pc = "zip"
    BY <1>8 DEF ZipBegins, Shape, Idle
  <2>2. QED
    BY <1>1, <1>8, <2>1 DEF ReportInv
<1>4. ASSUME NEW d \in Paths, NEW T, NEW a, Archive(c, d, T, a) \/ Zipdl(c, d, T)
      PROVE  Told' /\ ReportInv(c)' /\ TellsTrue(c)
  <2>1. CASE Zipdl(c, d, T)
    <3>1. ZipBegins(c, "zipdl", T, ArchivePath(d)) /\ answer' = answer
      BY <2>1 DEF Zipdl
    <3>2. QED
      BY <1>8, <3>1
  <2>2. CASE Archive(c, d, T, a) /\ IsFolder(a)
    <3>1. Answers(c, FALSE, {a}, {}) /\ job' = job /\ job[c].pc = "idle"
      BY <2>2 DEF Archive, Begins
    <3>2. ~answer'[c].ok /\ Told'
      BY <3>1 DEF Answers, Told
    <3>3. QED
      BY <3>1, <3>2 DEF ReportInv, TellsTrue
  <2>3. CASE Archive(c, d, T, a) /\ ~IsFolder(a)
    <3>1. ZipBegins(c, "archive", T, a) /\ answer' = answer
      BY <2>3 DEF Archive
    <3>2. QED
      BY <1>8, <3>1
  <2>4. QED
    BY <1>4, <2>1, <2>2, <2>3
<1>5. ASSUME NEW z \in Paths, NEW makedir \in BOOLEAN, Extract(c, z, makedir)
      PROVE  Told' /\ ReportInv(c)' /\ TellsTrue(c)
  <2>1. PICK made : /\ tree' = (IF makedir THEN With(tree, made, Folder) ELSE tree)
                    /\ job' = [job EXCEPT ![c] =
                                 [Idle EXCEPT !.pc = "extract", !.op = "extract", !.todo = tree[z].of,
                                              !.dst = IF makedir THEN made ELSE Parent(z),
                                              !.added = IF makedir THEN {made} ELSE {}]]
    BY <1>5 DEF Extract
  <2>2. /\ job'[c].pc = "extract" /\ job'[c].added = (IF makedir THEN {made} ELSE {})
        /\ job'[c].removed = {}
    BY <2>1 DEF Shape, Idle
  <2>3. makedir => made \in DOMAIN tree' /\ tree'[made] = Folder
    BY <2>1 DEF With
  <2>4. Unpacked(job'[c], tree')
    BY <2>2, <2>3, KindsApart DEF Unpacked
  <2>5. answer' = answer
    BY <1>5 DEF Extract
  <2>6. QED
    BY <1>1, <2>2, <2>4, <2>5 DEF ReportInv
<1>6. CASE ZipdlTakenForFetch(c)
  <2>1. answer' = answer /\ job' = job /\ job[c].pc = "idle"
    BY <1>6 DEF ZipdlTakenForFetch, Begins
  <2>2. QED
    BY <1>1, <2>1 DEF ReportInv
<1>7. QED
  BY <1>2, <1>3, <1>4, <1>5, <1>6 DEF AnyCommand

\* Every step of the only client: what the answers are made of stays true.
LEMMA NextReport ==
  ASSUME NEW c \in Clients, \A d \in Clients : d = c, Shape, Told, FilesInv(c), ReportInv(c),
         [Next]_vars
  PROVE  Told' /\ ReportInv(c)' /\ TellsTrue(c)
<1>1. CASE AnyCommand(c)
  BY <1>1, CommandReport
<1>2. CASE Copying(c)
  BY <1>2, CopyingReport
<1>3. CASE Packing(c)
  BY <1>3, PackingReport
<1>4. CASE Crash
  <2>1. answer' = answer /\ job'[c].pc = "idle"
    BY <1>4, FreshRecords DEF Crash
  <2>2. QED
    BY <2>1 DEF Told, TellsTrue, ReportInv
<1>5. CASE UNCHANGED vars
  <2>1. answer' = answer /\ job' = job /\ tree' = tree
    BY <1>5 DEF vars
  <2>2. QED
    BY <2>1 DEF Told, TellsTrue, ReportInv
<1>6. QED
  BY <1>1, <1>2, <1>3, <1>4, <1>5 DEF Next


\* A client that is alone may show what the answers say: what one names as added is
\* there, whole, and what one names as removed is not, whatever fails and however many targets
\* there are, but for what goes to a last name that is taken.
THEOREM AloneIsToldTrue ==
  ASSUME NEW c \in Clients, \A d \in Clients : d = c
  PROVE  Spec => AnswerIsTrue
<1> DEFINE I == Inv(c) /\ Told /\ ReportInv(c)
<1>1. Init => I
  <2>1. Init => Shape /\ DownloadInv(c)
    BY FreshRecords DEF Init, Shape, DownloadInv
  <2>2. Init => Told /\ ReportInv(c)
    BY FreshRecords DEF Init, Told, ReportInv
  <2>3. QED
    BY <2>1, <2>2, InitFiles DEF Inv
<1>2. I /\ [Next]_vars => I'
  BY NextDownload, NextFiles, NextRest, NextReport DEF Inv
<1>3. I /\ [Next]_vars => [AnswersHold]_vars
  <2> SUFFICES ASSUME I, [Next]_vars PROVE AnswersHold
    OBVIOUS
  <2>1. TellsTrue(c) /\ Clients = {c}
    BY NextReport DEF Inv
  <2>2. QED
    BY <2>1 DEF TellsTrue, AnswersHold
<1>4. QED
  BY <1>1, <1>2, <1>3, PTL DEF Spec, AnswerIsTrue
=============================================================================
