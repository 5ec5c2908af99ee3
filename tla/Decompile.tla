------------------------------ MODULE Decompile ------------------------------
(***************************************************************************)
(* probe/DecompileApk.java and probe/ProgressStream.java: the long-running *)
(* tools that take one app apart, each in a thread of its own, the stream  *)
(* of progress lines they share, and the page decompile.htm that starts    *)
(* them and polls for their state and lines.  Nothing but ProgressStream's *)
(* array is guarded by a lock: the fields of DecompileApk, the stream's    *)
(* writer and m_active_threads are read and written by every thread.       *)
(***************************************************************************)
EXTENDS Integers, Sequences, FiniteSets

CONSTANTS
  Threads,    \* threads of the tools, and of extract_apk's requests
  Polls,      \* status and log requests of the page that may be out at a time
  Order,      \* the tools in use, in the order getStatus asks for them
  AtFirst,    \* files that are there when the probe is made
  NoThread,   \* null, and 0 for a start time
  Env         \* what may happen, of Events

\* Bound: m_active_threads is only compared with 0, and may grow without end when
\* one request's count overwrites another's.
MaxCount == 2

\* The user does something else while the page still polls, or starts a tool
\* that is running; a tool fails with an error; clear_log, delete_package and
\* create_package, stop_thread.
Events == {"impatient", "again", "error", "clear", "delete", "stop"}

AllTools == {"unpack_apk", "dex2jar", "optimize_dex", "cfr", "jadx", "fern_flower"}
Tools == {Order[i] : i \in DOMAIN Order}

\* The file or folder whose existence stands for the tool's having run.
Artefact ==
  [unpack_apk |-> "dex", dex2jar |-> "jar", optimize_dex |-> "log",
   cfr |-> "srcCfr", jadx |-> "srcJadx", fern_flower |-> "srcFern"]
Files == {"folder", "apk"} \cup {Artefact[x] : x \in AllTools}

\* What a tool needs to have an output.
Needs ==
  [unpack_apk |-> {"apk"}, dex2jar |-> {"dex"}, optimize_dex |-> {"dex"},
   cfr |-> {"jar"}, jadx |-> {"dex"}, fern_flower |-> {"jar"}]

\* Tools that put a new stream, with a log file, in m_progressStream, and tools
\* that make their output folder before their thread.
Opens == {"unpack_apk", "optimize_dex", "cfr"}
MakesFolder == {"cfr", "jadx", "fern_flower"}

\* Tools whose start request calls getThreadStatus for its answer.
Counts == {"unpack_apk", "dex2jar"}

ASSUME ConstantsAssumption ==
  /\ NoThread \notin Threads
  /\ Order \in Seq(AllTools) /\ Order # <<>>
  /\ AtFirst \subseteq Files /\ "folder" \in AtFirst
  /\ Env \subseteq Events

VARIABLES
  exists,     \* files of the app's folder
  stream,     \* m_progressStream: named by the thread that opened it
  array,      \* m_array of each stream: lines not fetched, oldest first
  writer,     \* m_printWriter: "open", "closed" (not yet null) or "null"
  printed,    \* lines printed to the writer of each stream
  log,        \* lines in the log file of each tool that has one
  linked,     \* streams whose log file is the one in the folder, not a deleted one
  thread,     \* m_unpackApkThread ... m_fernThread
  time,       \* m_unpack_apk_time ... m_fern_time: whose start
  th,         \* the threads: [tool, pc, on (the stream being closed)]
  active,     \* m_active_threads
  poll,       \* requests of the page and what they have found so far
  shown,      \* the page's state of each tool
  page,       \* the page's log_array
  puts,       \* lines put so far: a line is its number and its author
  cleared,    \* of these, put before the last clear or restart
  cutOff      \* a restart has left the page without a request, which it does not repeat

files == <<exists, log, linked>>
streams == <<stream, array, writer, printed, puts>>
threads == <<thread, time, th>>
client == <<active, poll, shown, page>>
vars == <<exists, stream, array, writer, printed, log, linked, thread, time, th,
          active, poll, shown, page, puts, cleared, cutOff>>

Streams == Threads \cup {NoThread}
Line == [no : Nat, by : Streams]
State == {"running", "stopped", "empty"}

ThreadState ==
  [tool : AllTools \cup {"none", "extract_apk"}, on : Streams,
   pc : {"unborn", "open", "begin", "work", "end", "close", "null",
         "uncaught", "dead", "crashed"}]

PollState ==
  [pc : {"off", "started", "raise", "files", "reset", "check", "bump", "total", "drain", "answer"},
   have : SUBSET Files, next : 1..(Len(Order) + 1), tmp : 0..MaxCount,
   total : 0..MaxCount, seen : {<<>>} \cup [Tools -> State], lines : Seq(Line)]

Off == [pc |-> "off", have |-> {}, next |-> 1, tmp |-> 0, total |-> 0,
        seen |-> <<>>, lines |-> <<>>]
Asking == [Off EXCEPT !.pc = "files", !.seen = [x \in Tools |-> "empty"]]
AskingLog == [Off EXCEPT !.pc = "drain"]

\* The request that starts a tool, where it counts the tool's thread too.
Starting(x) == [Off EXCEPT !.pc = "started", !.next = CHOOSE i \in DOMAIN Order : Order[i] = x]

TypeOK ==
  /\ exists \subseteq Files
  /\ stream \in Streams
  /\ array \in [Streams -> Seq(Line)] /\ printed \in [Streams -> Seq(Line)]
  /\ log \in [Opens -> Seq(Line)] /\ linked \subseteq Threads
  /\ writer \in [Streams -> {"open", "closed", "null"}]
  /\ thread \in [Tools -> Streams] /\ time \in [Tools -> Streams]
  /\ th \in [Threads -> ThreadState]
  /\ active \in 0..MaxCount
  /\ poll \in [Polls -> PollState]
  /\ shown \in [Tools -> State]
  /\ page \in Seq(Line)
  /\ puts \in Nat /\ cleared \in 0..puts /\ cutOff \in BOOLEAN

Alive(t) == t # NoThread /\ th[t].pc \notin {"unborn", "dead", "crashed"}

\* A new DecompileApk, whose stream says "Decompiler ready".
FreshStreams ==
  /\ stream' = NoThread
  /\ array' = [s \in Streams |-> IF s = NoThread THEN <<[no |-> puts + 1, by |-> NoThread]>> ELSE <<>>]
  /\ puts' = puts + 1
  /\ writer' = [s \in Streams |-> "null"]
  /\ printed' = [s \in Streams |-> IF writer[s] = "open" THEN <<>> ELSE printed[s]]

Init ==
  /\ exists = AtFirst
  /\ stream = NoThread
  /\ array = [s \in Streams |-> IF s = NoThread THEN <<[no |-> 1, by |-> NoThread]>> ELSE <<>>]
  /\ writer = [s \in Streams |-> "null"]
  /\ printed = [s \in Streams |-> <<>>]
  /\ log = [x \in Opens |-> <<>>]
  /\ linked = {}
  /\ thread = [x \in Tools |-> NoThread]
  /\ time = [x \in Tools |-> NoThread]
  /\ th = [t \in Threads |-> [tool |-> "none", pc |-> "unborn", on |-> NoThread]]
  /\ active = 0
  /\ \E p \in Polls : poll = [q \in Polls |-> IF q = p THEN Asking ELSE Off]
  /\ shown = [x \in Tools |-> "empty"]
  /\ page = <<>>
  /\ puts = 1 /\ cleared = 0 /\ cutOff = FALSE

-----------------------------------------------------------------------------
(* ProgressStream.                                                         *)

\* putStream on the current stream; a closed writer swallows the line.
Put(t) ==
  LET line == [no |-> puts + 1, by |-> t]
  IN  /\ array' = [array EXCEPT ![stream] = Append(@, line)]
      /\ printed' = IF writer[stream] = "open"
                    THEN [printed EXCEPT ![stream] = Append(@, line)] ELSE printed
      /\ puts' = puts + 1

\* It may find m_printWriter set to null between its test and its use.
PutThrows(t) == writer[stream] = "closed" /\ Put(t)

\* A thread's next place, after what it calls.
Goes(t, pc) == th' = [th EXCEPT ![t].pc = pc]
Dies(t) == Goes(t, "uncaught")

-----------------------------------------------------------------------------
(* The run() of each tool.                                                 *)

\* new ProgressStream(log file), which appends to what is there: without the app's
\* folder it throws, which unpackApk catches and the others do not.
Open(t) ==
  /\ th[t].pc = "open"
  /\ IF "folder" \in exists
     THEN /\ stream' = t
          /\ array' = [array EXCEPT ![t] = <<>>]
          /\ writer' = [writer EXCEPT ![t] = "open"]
          /\ exists' = IF th[t].tool = "optimize_dex" THEN exists \cup {"log"} ELSE exists
          /\ linked' = linked \cup {t}
          /\ Goes(t, "begin")
          /\ UNCHANGED <<printed, puts>>
     ELSE /\ IF th[t].tool = "unpack_apk"
             THEN Put(t) /\ Goes(t, "end")
             ELSE Dies(t) /\ UNCHANGED <<array, printed, puts>>
          /\ UNCHANGED <<exists, linked, stream, writer>>
  /\ UNCHANGED <<log, thread, time, client, cleared, cutOff>>

\* "starting".  Only unpackApk's is inside its try block.
Begin(t) ==
  /\ th[t].pc = "begin"
  /\ \/ Put(t) /\ Goes(t, "work")
     \/ PutThrows(t) /\ IF th[t].tool = "unpack_apk" THEN Goes(t, "end") ELSE Dies(t)
  /\ UNCHANGED <<files, stream, writer, thread, time, client, cleared, cutOff>>

\* The files left by a tool that has what it needs, and by one that has not or
\* fails: optimizeDex deletes a DEX file whose classes are all excluded, dex2jar
\* deletes the JAR file before it writes it.
Output(x) ==
  IF x = "optimize_dex" THEN {exists, exists \ {"dex"}}
  ELSE {exists \cup {Artefact[x], "folder"}}

Failure(x) ==
  IF x = "dex2jar" /\ "dex" \in exists THEN {exists \ {"jar"}, exists} ELSE {exists}

\* The tool proper, and a line about it.  What it throws is caught and put, but
\* for some errors, and an exception of putStream outside the try blocks.
Work(t) ==
  LET x == th[t].tool
  IN  /\ th[t].pc = "work"
      /\ \/ /\ Needs[x] \subseteq exists /\ exists' \in Output(x)
            /\ Put(t) /\ Goes(t, "end")
         \/ /\ exists' \in Failure(x)
            /\ Put(t) /\ Goes(t, "end")
         \/ /\ PutThrows(t) /\ exists' \in Failure(x)
            /\ IF x = "optimize_dex" THEN Dies(t) ELSE Goes(t, "end")
         \/ /\ "error" \in Env /\ exists' \in Failure(x)
            /\ Dies(t)
            /\ UNCHANGED <<array, printed, puts>>
      /\ UNCHANGED <<log, linked, stream, writer, thread, time, client, cleared, cutOff>>

Zero(x) == time' = [time EXCEPT ![x] = NoThread]

\* Fault: the stream is not closed.
End_NoClose(t) ==
  LET x == th[t].tool
  IN  /\ th[t].pc = "end"
      /\ \/ Put(t) /\ Goes(t, "dead") /\ Zero(x)
         \/ PutThrows(t) /\ Dies(t) /\ UNCHANGED time
      /\ UNCHANGED <<files, stream, writer, thread, client, cleared, cutOff>>

\* "complete", and the start time set to 0: before it in unpackApk, after the
\* stream's closing in optimizeDex and cfr.
End(t) ==
  LET x == th[t].tool
  IN  /\ th[t].pc = "end"
      /\ \/ /\ Put(t)
            /\ Goes(t, IF x \in Opens THEN "close" ELSE "dead")
            /\ IF x \in {"optimize_dex", "cfr"} THEN UNCHANGED time ELSE Zero(x)
         \/ /\ PutThrows(t)
            /\ Dies(t)
            /\ IF x = "unpack_apk" THEN Zero(x) ELSE UNCHANGED time
      /\ UNCHANGED <<files, stream, writer, thread, client, cleared, cutOff>>

\* After m_progressStream.close(): the thread ends.
Closed(t) ==
  /\ Goes(t, "dead")
  /\ IF th[t].tool = "unpack_apk" THEN UNCHANGED time ELSE Zero(th[t].tool)

\* What is printed comes to the file of the tool that opened the stream, unless
\* the file has been deleted since.  (Bound: lines fit in BufferedWriter's buffer;
\* a longer run writes some of them earlier.)
Flush(s) ==
  log' = IF s \in linked THEN [log EXCEPT ![th[s].tool] = @ \o printed[s]] ELSE log

\* close() closes the writer of whatever stream the field names by now, and then
\* sets it to null; another thread that closes it too may meet the null.
Close(t) ==
  /\ th[t].pc = "close"
  /\ CASE writer[stream] = "null" -> Closed(t) /\ UNCHANGED <<log, writer>>
       [] writer[stream] = "closed" -> Dies(t) /\ UNCHANGED <<log, time, writer>>
       [] writer[stream] = "open" ->
            /\ Flush(stream)
            /\ writer' = [writer EXCEPT ![stream] = "closed"]
            /\ th' = [th EXCEPT ![t].pc = "null", ![t].on = stream]
            /\ UNCHANGED time
  /\ UNCHANGED <<exists, linked, stream, array, printed, puts, thread, client, cleared, cutOff>>

SetNull(t) ==
  /\ th[t].pc = "null"
  /\ writer' = [writer EXCEPT ![th[t].on] = "null"]
  /\ Closed(t)
  /\ UNCHANGED <<files, stream, array, printed, puts, thread, client, cleared, cutOff>>

\* The uncaught exception handler: a line, and no more of run().
Uncaught(t) ==
  /\ th[t].pc = "uncaught"
  /\ Put(t)
  /\ Goes(t, "crashed")
  /\ UNCHANGED <<files, stream, writer, thread, time, client, cleared, cutOff>>

Run(t) ==
  \/ Open(t) \/ Begin(t) \/ Work(t) \/ End(t)
  \/ Close(t) \/ SetNull(t) \/ Uncaught(t)

-----------------------------------------------------------------------------
(* getStatus, getStream and what a start request answers, one step per     *)
(* access to what threads share.                                           *)

ToPoll(p, r) == poll' = [poll EXCEPT ![p] = r]

\* getThreadStatus in the request that starts a tool: ++m_active_threads of a count
\* that any request may reset meanwhile.  The page asks for the state when it is answered.
CountStarted(p) ==
  /\ poll[p].pc = "started"
  /\ ToPoll(p, IF Alive(thread[Order[poll[p].next]])
               THEN [poll[p] EXCEPT !.pc = "raise", !.tmp = active] ELSE Asking)
  /\ UNCHANGED <<files, streams, threads, active, shown, page, cleared, cutOff>>

More(n) == IF n < MaxCount THEN n + 1 ELSE MaxCount

RaiseStarted(p) ==
  /\ poll[p].pc = "raise"
  /\ active' = More(poll[p].tmp)
  /\ ToPoll(p, Asking)
  /\ UNCHANGED <<files, streams, threads, shown, page, cleared, cutOff>>

ReadFiles(p) ==
  /\ poll[p].pc = "files"
  /\ ToPoll(p, [poll[p] EXCEPT !.pc = "reset", !.have = exists])
  /\ UNCHANGED <<files, streams, threads, active, shown, page, cleared, cutOff>>

ResetCount(p) ==
  /\ poll[p].pc = "reset"
  /\ active' = 0
  /\ ToPoll(p, [poll[p] EXCEPT !.pc = "check", !.next = 1])
  /\ UNCHANGED <<files, streams, threads, shown, page, cleared, cutOff>>

\* The poll once the status of tool i is known.
Advance(r, i, status) ==
  [r EXCEPT !.pc = IF i = Len(Order) THEN "total" ELSE "check",
            !.next = i + 1, !.seen[Order[i]] = status]

\* getThreadStatus, up to the read of ++m_active_threads.
Check(p) ==
  LET i == poll[p].next
      x == Order[i]
  IN  /\ poll[p].pc = "check"
      /\ ToPoll(p, IF Alive(thread[x])
                   THEN [poll[p] EXCEPT !.pc = "bump", !.tmp = active]
                   ELSE Advance(poll[p], i, IF Artefact[x] \in poll[p].have THEN "stopped" ELSE "empty"))
      /\ UNCHANGED <<files, streams, threads, active, shown, page, cleared, cutOff>>

\* Faults: the count goes down, or stays.
Bump_Down(p) ==
  /\ poll[p].pc = "bump"
  /\ active' = poll[p].tmp - 1
  /\ ToPoll(p, Advance(poll[p], poll[p].next, "running"))
  /\ UNCHANGED <<files, streams, threads, shown, page, cleared, cutOff>>

Bump_Not(p) ==
  /\ poll[p].pc = "bump"
  /\ active' = poll[p].tmp
  /\ ToPoll(p, Advance(poll[p], poll[p].next, "running"))
  /\ UNCHANGED <<files, streams, threads, shown, page, cleared, cutOff>>

Bump(p) ==
  /\ poll[p].pc = "bump"
  /\ active' = More(poll[p].tmp)
  /\ ToPoll(p, Advance(poll[p], poll[p].next, "running"))
  /\ UNCHANGED <<files, streams, threads, shown, page, cleared, cutOff>>

ReadTotal(p) ==
  /\ poll[p].pc = "total"
  /\ ToPoll(p, [poll[p] EXCEPT !.pc = "drain", !.total = active])
  /\ UNCHANGED <<files, streams, threads, active, shown, page, cleared, cutOff>>

\* Fault: the oldest line first.
Newest_Last(lines) == lines

Newest(lines) == [i \in DOMAIN lines |-> lines[Len(lines) + 1 - i]]

\* getStream: all lines of the current stream, newest first, and none left.
Drain(p) ==
  /\ poll[p].pc = "drain"
  /\ ToPoll(p, [poll[p] EXCEPT !.pc = "answer", !.lines = Newest(array[stream])])
  /\ array' = [array EXCEPT ![stream] = <<>>]
  /\ UNCHANGED <<files, stream, writer, printed, puts, threads, active, shown, page, cleared, cutOff>>

\* Faults: no further request, or only if more than one thread is active.
Answer_Once(p) ==
  /\ poll[p].pc = "answer"
  /\ page' = poll[p].lines \o page
  /\ shown' = IF poll[p].seen = <<>> THEN shown ELSE poll[p].seen
  /\ ToPoll(p, Off)
  /\ UNCHANGED <<files, streams, threads, active, cleared, cutOff>>

Answer_MoreThanOne(p) ==
  /\ poll[p].pc = "answer"
  /\ page' = poll[p].lines \o page
  /\ shown' = IF poll[p].seen = <<>> THEN shown ELSE poll[p].seen
  /\ ToPoll(p, IF poll[p].total > 1 THEN Asking ELSE Off)
  /\ UNCHANGED <<files, streams, threads, active, cleared, cutOff>>

\* The answer reaches the page: updateStatus, putLogTop, and another request
\* after a second if it says that threads are active.
Answer(p) ==
  /\ poll[p].pc = "answer"
  /\ page' = poll[p].lines \o page
  /\ shown' = IF poll[p].seen = <<>> THEN shown ELSE poll[p].seen
  /\ ToPoll(p, IF poll[p].total > 0 THEN Asking ELSE Off)
  /\ UNCHANGED <<files, streams, threads, active, cleared, cutOff>>

Poll(p) ==
  \/ CountStarted(p) \/ RaiseStarted(p)
  \/ ReadFiles(p) \/ ResetCount(p) \/ Check(p) \/ Bump(p)
  \/ ReadTotal(p) \/ Drain(p) \/ Answer(p)

-----------------------------------------------------------------------------
(* The user.                                                               *)

\* A thread not yet made: any, all are alike.
Unborn(t) == t = CHOOSE u \in Threads : th[u].pc = "unborn"
HasUnborn == \E t \in Threads : th[t].pc = "unborn"
Free(p) == poll[p].pc = "off"
Idle == \A p \in Polls : Free(p)
Ready == "impatient" \in Env \/ Idle

\* Fault: the start time is not noted.
Start_NoTime(t, x, p) ==
  /\ HasUnborn /\ Unborn(t) /\ Free(p) /\ Ready
  /\ Alive(thread[x]) => "again" \in Env
  /\ exists' = IF x \in MakesFolder THEN exists \cup {Artefact[x], "folder"} ELSE exists
  /\ thread' = [thread EXCEPT ![x] = t]
  /\ th' = [th EXCEPT ![t] = [tool |-> x, on |-> NoThread,
                               pc |-> IF x \in Opens THEN "open" ELSE "begin"]]
  /\ ToPoll(p, IF x \in Counts THEN Starting(x) ELSE Asking)
  /\ cutOff' = FALSE
  /\ cleared' = IF cutOff THEN puts ELSE cleared
  /\ UNCHANGED <<streams, log, linked, time, active, shown, page>>

\* decompile_action: the thread is made and started, the start time noted, and
\* the page starts to poll.  One that was cut off is not owed what it has missed.
Start(t, x, p) ==
  /\ HasUnborn /\ Unborn(t) /\ Free(p) /\ Ready
  /\ Alive(thread[x]) => "again" \in Env
  /\ exists' = IF x \in MakesFolder THEN exists \cup {Artefact[x], "folder"} ELSE exists
  /\ time' = [time EXCEPT ![x] = t]
  /\ thread' = [thread EXCEPT ![x] = t]
  /\ th' = [th EXCEPT ![t] = [tool |-> x, on |-> NoThread,
                               pc |-> IF x \in Opens THEN "open" ELSE "begin"]]
  /\ ToPoll(p, IF x \in Counts THEN Starting(x) ELSE Asking)
  /\ cutOff' = FALSE
  /\ cleared' = IF cutOff THEN puts ELSE cleared
  /\ UNCHANGED <<streams, log, linked, active, shown, page>>

\* extract_apk copies the APK in the request's own thread, with two lines in the
\* stream; the page then asks for the lines and for the state.
ExtractApk(t, p, q) ==
  LET line(n) == [no |-> puts + n, by |-> t]
  IN  /\ HasUnborn /\ Unborn(t) /\ p # q /\ Free(p) /\ Free(q) /\ Ready
      /\ exists' = IF "folder" \in exists THEN exists \cup {"apk"} ELSE exists
      /\ array' = [array EXCEPT ![stream] = @ \o <<line(1), line(2)>>]
      /\ printed' = IF writer[stream] = "open"
                    THEN [printed EXCEPT ![stream] = @ \o <<line(1), line(2)>>] ELSE printed
      /\ puts' = puts + 2
      /\ th' = [th EXCEPT ![t].tool = "extract_apk", ![t].pc = "dead"]
      /\ poll' = [poll EXCEPT ![p] = AskingLog, ![q] = Asking]
      /\ cutOff' = FALSE
      /\ UNCHANGED <<log, linked, stream, writer, thread, time, active, shown, page, cleared>>

\* clear_log, with the page's list.
ClearLog ==
  /\ "clear" \in Env /\ Ready
  /\ array' = [array EXCEPT ![stream] = <<>>]
  /\ page' = <<>> /\ cleared' = puts
  /\ UNCHANGED <<files, stream, writer, printed, puts, threads, active, poll, shown, cutOff>>

\* delete_package and create_package, from the page that lists the packages; the
\* probe and its threads live on, and write to log files that are no longer there.
DeletePackage ==
  /\ "delete" \in Env /\ "folder" \in exists
  /\ exists' = {}
  /\ log' = [x \in Opens |-> <<>>] /\ linked' = {}
  /\ UNCHANGED <<streams, threads, client, cleared, cutOff>>

CreatePackage ==
  /\ "delete" \in Env /\ "folder" \notin exists
  /\ exists' = {"folder"}
  /\ UNCHANGED <<log, linked, streams, threads, client, cleared, cutOff>>

\* stop_thread stops the whole process, which Android starts again: probe and
\* threads are gone, lines in the writers' buffers, and requests that are out.  The
\* page asks again after two seconds, and polls that are between two requests go on:
\* if the server is up by then, or their requests fail too and are not repeated.
\* (Bound: only while a tool runs, so that the user does not do it for ever.)
StopThread(x, p) ==
  /\ "stop" \in Env /\ shown[x] = "running"
  /\ \E t \in Threads : Alive(t)
  /\ FreshStreams
  /\ thread' = [y \in Tools |-> NoThread]
  /\ time' = [y \in Tools |-> NoThread]
  /\ th' = [t \in Threads |-> IF Alive(t) THEN [th[t] EXCEPT !.pc = "crashed"] ELSE th[t]]
  /\ active' = 0
  /\ \E up \in SUBSET ({p} \cup {q \in Polls : poll[q].pc = "files"}) :
       /\ poll' = [q \in Polls |-> IF q \in up THEN Asking ELSE Off]
       /\ cutOff' = (up = {})
  /\ cleared' = puts
  /\ UNCHANGED <<files, shown, page>>

User ==
  \/ \E t \in Threads, p \in Polls :
       \/ \E x \in Tools : Start(t, x, p)
       \/ \E q \in Polls : ExtractApk(t, p, q)
  \/ \E x \in Tools, p \in Polls : StopThread(x, p)
  \/ ClearLog \/ DeletePackage \/ CreatePackage

Next ==
  \/ \E t \in Threads : Run(t)
  \/ \E p \in Polls : Poll(p)
  \/ User

Spec == Init /\ [][Next]_vars

\* Threads are scheduled and the tools end; the page's requests are answered.
Fairness == (\A t \in Threads : WF_vars(Run(t))) /\ (\A p \in Polls : WF_vars(Poll(p)))
FairSpec == Spec /\ Fairness

-----------------------------------------------------------------------------
(* Properties.                                                             *)

\* "Polling stops when all threads on the server have completed", and not
\* before, though the requests that count them share one counter.
PageFollows == (\E t \in Threads : Alive(t)) => ~Idle

\* When it stops, the current stream has been read to its end: the thread's state is
\* taken before the lines are.  (Of lines in a stream that another tool has replaced
\* nothing is said: they are lost if no request came in between.)
NothingUntold == Idle /\ ~cutOff => array[stream] = <<>>

\* Every line put since the last clear or restart is on the page by then, the
\* newest on top, whichever streams it went through.
WholeLogOnTop ==
  Idle /\ ~cutOff => /\ Len(page) >= puts - cleared
                     /\ \A i \in 1..(puts - cleared) : page[i].no = puts + 1 - i

\* The lines at from and after it in a file are the thread's three, and no others are.
HasLines(file, t) ==
  \E from \in DOMAIN file :
    /\ from + 2 \in DOMAIN file
    /\ \A i \in DOMAIN file : file[i].by = t <=> i \in from..(from + 2)

\* The log file of a tool has lines of that tool's runs alone, run after run as they
\* were put; a run that has come to its end has closed it and has its "starting", its
\* own and its "complete" line in it, unless the file was deleted meanwhile.
LogTellsAll ==
  \A x \in Opens :
    /\ \A i \in DOMAIN log[x] : log[x][i].by \in Threads /\ th[log[x][i].by].tool = x
    /\ \A i, j \in DOMAIN log[x] : i < j => log[x][i].no < log[x][j].no
    /\ \A t \in linked : th[t].tool = x /\ th[t].pc = "dead" =>
         writer[t] = "null" /\ HasLines(log[x], t)

\* A tool reports the time since its own start.
KnowsItsStart ==
  \A t \in Threads : th[t].pc \in {"begin", "work", "end"} => time[th[t].tool] = t

\* The page does not show a tool as running for ever, but for one that is cut off.
EndIsShown == \A x \in Tools : shown[x] = "running" ~> shown[x] # "running" \/ cutOff
=============================================================================
