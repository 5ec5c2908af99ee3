--------------------------- MODULE DecompileProofs ---------------------------
(***************************************************************************)
(* That the page of the decompiler does not stop polling too early, for    *)
(* every number of threads, tools and requests side by side, though all    *)
(* requests count in one field, with a ++ that is no single step; and what *)
(* page and log files say when the user does one thing at a time, though   *)
(* the tools change the stream under each other.                           *)
(***************************************************************************)
EXTENDS Decompile, SequenceTheorems, TLAPS

\* Bodies of run() belong to tools; a poll that goes through the tools has a
\* state for each, and is at one of them.
Placed ==
  /\ \A t \in Threads : Alive(t) => th[t].tool \in Tools
  /\ \A p \in Polls :
       /\ poll[p].pc \in {"files", "reset", "check", "bump"} => poll[p].seen \in [Tools -> State]
       /\ poll[p].pc \in {"started", "raise", "check", "bump"} => poll[p].next \in DOMAIN Order

TypeInv == TypeOK /\ Placed

-----------------------------------------------------------------------------
(* Types.                                                                  *)

LEMMA OrderFacts ==
  /\ Tools \subseteq AllTools
  /\ \A i \in DOMAIN Order : Order[i] \in Tools
  /\ DOMAIN Order = 1..Len(Order) /\ Len(Order) \in Nat /\ Len(Order) > 0
BY ConstantsAssumption DEF Tools

LEMMA NewestTypes ==
  ASSUME NEW lines \in Seq(Line)
  PROVE  Newest(lines) \in Seq(Line)
<1>1. \A i \in 1..Len(lines) : lines[Len(lines) + 1 - i] \in Line
  OBVIOUS
<1>2. \A n \in Nat : [i \in 1..n |-> lines[Len(lines) + 1 - i]] \in [1..n -> Line]
         <=> \A i \in 1..n : lines[Len(lines) + 1 - i] \in Line
  OBVIOUS
<1>3. Newest(lines) \in [1..Len(lines) -> Line] /\ Len(lines) \in Nat
  BY <1>1, <1>2 DEF Newest
<1>4. QED
  BY <1>3, SeqDef

\* What putStream leaves.
LEMMA PutTypes ==
  ASSUME TypeOK, NEW t \in Streams, Put(t)
  PROVE  /\ array' \in [Streams -> Seq(Line)] /\ printed' \in [Streams -> Seq(Line)]
         /\ puts' \in Nat /\ cleared \in 0..puts'
<1>1. [no |-> puts + 1, by |-> t] \in Line
  BY DEF TypeOK, Line
<1>2. QED
  BY <1>1 DEF TypeOK, Put

LEMMA AskingTypes ==
  /\ Off \in PollState /\ Asking \in PollState /\ AskingLog \in PollState
  /\ Off.pc = "off" /\ Asking.pc = "files" /\ AskingLog.pc = "drain"
  /\ Asking.seen \in [Tools -> State]
<1>1. <<>> \in Seq(Line)
  OBVIOUS
<1>2. 1 \in 1..(Len(Order) + 1) /\ 0 \in 0..MaxCount /\ {} \in SUBSET Files
  BY OrderFacts DEF MaxCount
<1>3. [x \in Tools |-> "empty"] \in [Tools -> State]
  BY DEF State
<1>4. Off \in PollState /\ Off.pc = "off"
  BY <1>1, <1>2 DEF Off, PollState
<1>5. \A r \in PollState : LET d == [r EXCEPT !.pc = "drain"] IN d \in PollState /\ d.pc = "drain"
  BY DEF PollState
<1>6. \A r \in PollState : \A status \in [Tools -> State] :
        LET d == [r EXCEPT !.pc = "files", !.seen = status]
        IN  d \in PollState /\ d.pc = "files" /\ d.seen = status
  BY DEF PollState
<1>7. Asking \in PollState /\ Asking.pc = "files" /\ Asking.seen \in [Tools -> State]
  BY <1>3, <1>4, <1>6 DEF Asking
<1>8. AskingLog \in PollState /\ AskingLog.pc = "drain"
  BY <1>4, <1>5 DEF AskingLog
<1>9. QED
  BY <1>4, <1>7, <1>8

\* The request that starts a tool is at the tool.
LEMMA StartingTypes ==
  ASSUME NEW x \in Tools
  PROVE  /\ Starting(x) \in PollState /\ Starting(x).pc = "started"
         /\ Starting(x).next \in DOMAIN Order /\ Starting(x).lines = <<>>
<1> DEFINE i == CHOOSE j \in DOMAIN Order : Order[j] = x
<1>1. i \in DOMAIN Order /\ i \in 1..(Len(Order) + 1)
  BY OrderFacts DEF Tools
<1>2. Off \in PollState /\ Off.lines = <<>>
  BY AskingTypes DEF Off
<1> HIDE DEF i
<1>3. \A r \in PollState : LET d == [r EXCEPT !.pc = "started", !.next = i]
                            IN  d \in PollState /\ d.pc = "started" /\ d.next = i /\ d.lines = r.lines
  BY <1>1 DEF PollState
<1>4. Starting(x) = [Off EXCEPT !.pc = "started", !.next = i]
  BY DEF Starting, i
<1>5. QED
  BY <1>1, <1>2, <1>3, <1>4

LEMMA InitTypes == Init => TypeInv
<1> SUFFICES ASSUME Init PROVE TypeInv
  OBVIOUS
<1>1. <<[no |-> 1, by |-> NoThread]>> \in Seq(Line) /\ <<>> \in Seq(Line)
  BY DEF Line, Streams
<1>2. /\ array \in [Streams -> Seq(Line)] /\ printed \in [Streams -> Seq(Line)]
      /\ log \in [Opens -> Seq(Line)]
  BY <1>1 DEF Init
<1>3. /\ th \in [Threads -> ThreadState]
      /\ \A t \in Threads : ~Alive(t)
  BY DEF Init, Streams, Alive, ThreadState
<1>4. PICK p \in Polls : poll = [q \in Polls |-> IF q = p THEN Asking ELSE Off]
  BY DEF Init
<1>5. TypeOK
  <2>1. cutOff \in BOOLEAN
    BY DEF Init
  <2>2. QED
    BY <1>1, <1>2, <1>3, <1>4, <2>1, AskingTypes, ConstantsAssumption
       DEF Init, TypeOK, MaxCount, Streams, State
<1>6. Placed
  BY <1>3, <1>4, AskingTypes DEF Placed
<1>7. QED
  BY <1>5, <1>6 DEF TypeInv

\* A thread that is at a step of run() goes to another, or to its end.
LEMMA GoesTypes ==
  ASSUME TypeInv, NEW t \in Threads, th[t].pc \notin {"unborn", "dead", "crashed"},
         NEW pc \in {"begin", "work", "end", "close", "null", "uncaught", "dead", "crashed"},
         NEW s \in Streams,
         \/ th' = [th EXCEPT ![t].pc = pc]
         \/ th' = [th EXCEPT ![t].pc = pc, ![t].on = s],
         UNCHANGED poll
  PROVE  /\ th' \in [Threads -> ThreadState]
         /\ Placed'
<1>1. Alive(t)
  BY ConstantsAssumption DEF Alive
<1>2. /\ th' \in [Threads -> ThreadState]
      /\ \A u \in Threads : th'[u].tool = th[u].tool
      /\ \A u \in Threads \ {t} : th'[u].pc = th[u].pc
  <2>1. th \in [Threads -> ThreadState]
    BY DEF TypeInv, TypeOK
  <2>2. CASE th' = [th EXCEPT ![t].pc = pc]
    BY <2>1, <2>2 DEF ThreadState
  <2>3. CASE th' = [th EXCEPT ![t].pc = pc, ![t].on = s]
    BY <2>1, <2>3 DEF ThreadState
  <2>4. QED
    BY <2>2, <2>3
<1>3. \A u \in Threads : Alive(u)' => Alive(u)
  BY <1>1, <1>2 DEF Alive
<1>4. Placed'
  BY <1>2, <1>3 DEF TypeInv, Placed
<1>5. QED
  BY <1>2, <1>4

\* What closing a writer leaves in the log files.
LEMMA FlushTypes ==
  ASSUME TypeOK, NEW s \in Streams, Flush(s)
  PROVE  log' \in [Opens -> Seq(Line)]
<1>1. log \in [Opens -> Seq(Line)] /\ printed[s] \in Seq(Line)
  BY DEF TypeOK
<1>2. log' = log \/ log' = [log EXCEPT ![th[s].tool] = @ \o printed[s]]
  BY DEF Flush
<1>3. CASE log' = [log EXCEPT ![th[s].tool] = @ \o printed[s]]
  <2>1. \A x \in Opens : log[x] \o printed[s] \in Seq(Line)
    BY <1>1
  <2>2. log' = [x \in Opens |-> IF x = th[s].tool THEN log[x] \o printed[s] ELSE log[x]]
    BY <1>1, <1>3
  <2>3. QED
    BY <1>1, <2>1, <2>2
<1>4. QED
  BY <1>1, <1>2, <1>3

LEMMA RunTypes ==
  ASSUME TypeInv, NEW t \in Threads, Run(t)
  PROVE  TypeInv'
<1> USE DEF client
<1>a. t \in Streams
  BY DEF Streams
<1>b. <<>> \in Seq(Line)
  OBVIOUS
<1>c. "log" \in Files /\ \A x \in AllTools : Artefact[x] \in Files
  BY DEF Files, AllTools, Artefact
<1>d. th[t].pc \in {"open", "begin", "work", "end", "close", "null", "uncaught"} => th[t].tool \in AllTools
  BY ConstantsAssumption, OrderFacts DEF TypeInv, Placed, Alive
<1>1. CASE Open(t)
  <2>1. CASE "folder" \in exists
    <3>1. Goes(t, "begin")
      BY <1>1, <2>1 DEF Open
    <3>2. UNCHANGED poll
      BY <1>1 DEF Open
    <3>3. th' \in [Threads -> ThreadState] /\ Placed'
      BY <1>1, <1>a, <3>1, <3>2, GoesTypes DEF Open, Goes
    <3>4. QED
      <4>1. cutOff' \in BOOLEAN
        BY <1>1, Zenon DEF Open, TypeInv, TypeOK
      <4>2. log' \in [Opens -> Seq(Line)] /\ linked' \subseteq Threads /\ exists' \subseteq Files
        BY <1>1, <1>c, <2>1 DEF Open, TypeInv, TypeOK
      <4>3. /\ array' \in [Streams -> Seq(Line)] /\ printed' \in [Streams -> Seq(Line)]
            /\ writer' \in [Streams -> {"open", "closed", "null"}] /\ stream' \in Streams
        BY <1>1, <1>a, <1>b, <2>1 DEF Open, TypeInv, TypeOK
      <4>4. UNCHANGED <<thread, time, active, poll, shown, page, puts, cleared>>
        BY <1>1, <2>1 DEF Open
      <4>5. QED
        BY <3>3, <4>1, <4>2, <4>3, <4>4 DEF TypeInv, TypeOK
  <2>2. CASE "folder" \notin exists
    <3>1. \/ Put(t) /\ Goes(t, "end")
          \/ Goes(t, "uncaught") /\ UNCHANGED <<array, printed, puts>>
      BY <1>1, <2>2 DEF Open, Dies
    <3>2. UNCHANGED <<exists, log, linked, stream, writer, thread, time, active, poll, shown, page, cleared, cutOff>>
      BY <1>1, <2>2 DEF Open
    <3>3. th' \in [Threads -> ThreadState] /\ Placed'
      BY <1>1, <1>a, <3>1, <3>2, GoesTypes DEF Open, Goes
    <3>4. /\ array' \in [Streams -> Seq(Line)] /\ printed' \in [Streams -> Seq(Line)]
          /\ puts' \in Nat /\ cleared \in 0..puts'
      BY <1>a, <3>1, PutTypes DEF TypeInv, TypeOK
    <3>5. QED
      BY <3>2, <3>3, <3>4 DEF TypeInv, TypeOK
  <2>3. QED
    BY <2>1, <2>2
\* The other steps: at most a line, a file more or less, a start time set to 0.
<1>2. ASSUME NEW pc \in {"begin", "work", "end", "close", "null", "uncaught", "dead", "crashed"},
             th[t].pc \notin {"unborn", "dead", "crashed"}, Goes(t, pc),
             Put(t) \/ UNCHANGED <<array, printed, puts>>,
             exists' \subseteq Files,
             time' \in [Tools -> Streams],
             writer' \in [Streams -> {"open", "closed", "null"}],
             UNCHANGED <<log, linked, stream, thread, client, cleared, cutOff>>
      PROVE  TypeInv'
  <2>1. th' \in [Threads -> ThreadState] /\ Placed'
    BY <1>2, <1>a, GoesTypes DEF Goes
  <2>2. /\ array' \in [Streams -> Seq(Line)] /\ printed' \in [Streams -> Seq(Line)]
        /\ puts' \in Nat /\ cleared \in 0..puts'
    BY <1>2, <1>a, PutTypes DEF TypeInv, TypeOK
  <2>3. QED
    BY <1>2, <2>1, <2>2 DEF TypeInv, TypeOK
<1>3. CASE Begin(t)
  BY <1>2, <1>3 DEF Begin, PutThrows, Dies, files, TypeInv, TypeOK
<1>4. CASE Work(t)
  <2>1. exists' \subseteq Files
    BY <1>4, <1>c, <1>d DEF Work, Output, Failure, TypeInv, TypeOK, Files
  <2>2. \E pc \in {"end", "uncaught"} : Goes(t, pc)
    BY <1>4 DEF Work, Dies
  <2>3. Put(t) \/ UNCHANGED <<array, printed, puts>>
    BY <1>4 DEF Work, PutThrows
  <2>4. th[t].pc = "work" /\ UNCHANGED <<log, linked, stream, writer, thread, time, client, cleared, cutOff>>
    BY <1>4 DEF Work
  <2>5. QED
    BY <1>2, <2>1, <2>2, <2>3, <2>4 DEF TypeInv, TypeOK
<1>z. time \in [Tools -> Streams] /\ \A x : Zero(x) => time' \in [Tools -> Streams]
  BY DEF Zero, Streams, TypeInv, TypeOK
<1>5. CASE End(t)
  <2>1. \E pc \in {"close", "dead", "uncaught"} : Goes(t, pc)
    BY <1>5 DEF End, Dies
  <2>2. Put(t) /\ th[t].pc = "end" /\ UNCHANGED <<files, stream, writer, thread, client, cleared, cutOff>>
    BY <1>5 DEF End, PutThrows
  <2>3. time' \in [Tools -> Streams]
    BY <1>5, <1>z DEF End
  <2>4. QED
    BY <1>2, <2>1, <2>2, <2>3 DEF files, TypeInv, TypeOK
<1>6. CASE Close(t)
  <2>1. CASE writer[stream] = "null"
    <3>1. Goes(t, "dead") /\ time' \in [Tools -> Streams]
      BY <1>6, <1>z, <2>1 DEF Close, Closed
    <3>2. QED
      BY <1>2, <1>6, <2>1, <3>1 DEF Close, files, TypeInv, TypeOK
  <2>2. CASE writer[stream] = "closed"
    BY <1>2, <1>6, <2>2 DEF Close, Dies, files, TypeInv, TypeOK
  <2>3. CASE writer[stream] = "open"
    <3>1. /\ writer' = [writer EXCEPT ![stream] = "closed"]
          /\ th' = [th EXCEPT ![t].pc = "null", ![t].on = stream]
          /\ th[t].pc = "close"
          /\ Flush(stream)
          /\ UNCHANGED <<time, exists, linked, stream, array, printed, puts, thread, client, cleared, cutOff>>
      BY <1>6, <2>3 DEF Close
    <3>a. log' \in [Opens -> Seq(Line)]
      <4>1. TypeOK /\ stream \in Streams
        BY DEF TypeInv, TypeOK
      <4>2. QED
        BY <3>1, <4>1, FlushTypes
    <3>2. th' \in [Threads -> ThreadState] /\ Placed'
      BY <3>1, GoesTypes DEF TypeInv, TypeOK
    <3>3. QED
      BY <3>1, <3>2, <3>a DEF TypeInv, TypeOK
  <2>4. QED
    BY <2>1, <2>2, <2>3 DEF TypeInv, TypeOK
<1>7. CASE SetNull(t)
  <2>1. Goes(t, "dead") /\ time' \in [Tools -> Streams]
    BY <1>7, <1>z DEF SetNull, Closed
  <2>2. QED
    BY <1>2, <1>7, <2>1 DEF SetNull, files, TypeInv, TypeOK
<1>8. CASE Uncaught(t)
  BY <1>2, <1>8 DEF Uncaught, files, TypeInv, TypeOK
<1>9. QED
  BY <1>1, <1>3, <1>4, <1>5, <1>6, <1>7, <1>8 DEF Run

\* A poll that goes on: its record is one, and is at a place it has.
LEMMA ToPollTypes ==
  ASSUME TypeInv, NEW p \in Polls, NEW r \in PollState, ToPoll(p, r),
         r.pc \in {"files", "reset", "check", "bump"} => r.seen \in [Tools -> State],
         r.pc \in {"started", "raise", "check", "bump"} => r.next \in DOMAIN Order,
         UNCHANGED <<th, thread>>
  PROVE  poll' \in [Polls -> PollState] /\ Placed'
<1>1. poll' \in [Polls -> PollState] /\ \A q \in Polls : poll'[q] = IF q = p THEN r ELSE poll[q]
  BY DEF TypeInv, TypeOK, ToPoll
<1>2. \A t \in Threads : Alive(t)' <=> Alive(t)
  BY DEF Alive
<1>3. QED
  BY <1>1, <1>2 DEF TypeInv, Placed

LEMMA AdvanceTypes ==
  ASSUME NEW r \in PollState, NEW i \in DOMAIN Order, NEW status \in State,
         r.seen \in [Tools -> State]
  PROVE  LET d == Advance(r, i, status)
         IN  /\ d \in PollState
             /\ d.pc \in {"check", "total"} /\ d.seen \in [Tools -> State]
             /\ d.pc = "check" => i # Len(Order) /\ d.next \in DOMAIN Order
             /\ d.pc = "total" <=> i = Len(Order)
             /\ d.next = i + 1
<1>1. /\ Order[i] \in Tools /\ i \in 1..Len(Order) /\ i + 1 \in 1..(Len(Order) + 1)
      /\ i # Len(Order) => i + 1 \in DOMAIN Order
  BY OrderFacts
<1> DEFINE seen == [r.seen EXCEPT ![Order[i]] = status]
           place == IF i = Len(Order) THEN "total" ELSE "check"
<1>2. seen \in [Tools -> State]
  BY <1>1
<1>3. place \in {"total", "check"} /\ (place = "total" <=> i = Len(Order))
  OBVIOUS
<1> HIDE DEF seen, place
<1>4. LET d == [r EXCEPT !.pc = place, !.next = i + 1, !.seen = seen]
      IN  d \in PollState /\ d.pc = place /\ d.seen = seen /\ d.next = i + 1
  BY <1>1, <1>2, <1>3 DEF PollState
<1>5. Advance(r, i, status) = [r EXCEPT !.pc = place, !.next = i + 1, !.seen = seen]
  BY DEF Advance, PollState, seen, place
<1>6. QED
  BY <1>1, <1>2, <1>3, <1>4, <1>5

LEMMA PollTypes ==
  ASSUME TypeInv, NEW p \in Polls, Poll(p)
  PROVE  TypeInv'
<1>1. poll[p] \in PollState
  BY DEF TypeInv, TypeOK
\* A step that only moves the poll, and what all requests share.
<1>2. ASSUME NEW r \in PollState, ToPoll(p, r),
             r.pc \in {"files", "reset", "check", "bump"} => r.seen \in [Tools -> State],
             r.pc \in {"started", "raise", "check", "bump"} => r.next \in DOMAIN Order,
             array' \in [Streams -> Seq(Line)], active' \in 0..MaxCount,
             shown' \in [Tools -> State], page' \in Seq(Line),
             UNCHANGED <<files, stream, writer, printed, puts, threads, cleared, cutOff>>
      PROVE  TypeInv'
  <2>1. poll' \in [Polls -> PollState] /\ Placed'
    BY <1>2, ToPollTypes DEF threads
  <2>2. QED
    BY <1>2, <2>1 DEF TypeInv, TypeOK, threads, files
<1> USE DEF streams
<1>a. CASE CountStarted(p)
  <2> DEFINE r == [poll[p] EXCEPT !.pc = "raise", !.tmp = active]
  <2>1. active \in 0..MaxCount /\ poll[p].next \in DOMAIN Order
    BY <1>a DEF CountStarted, TypeInv, TypeOK, Placed
  <2>2. r \in PollState /\ r.pc = "raise" /\ r.next = poll[p].next
    BY <1>1, <2>1 DEF PollState
  <2>3. /\ ToPoll(p, r) \/ ToPoll(p, Asking)
        /\ UNCHANGED <<files, streams, threads, active, shown, page, cleared, cutOff>>
    BY <1>a DEF CountStarted
  <2> HIDE DEF r
  <2>4. CASE ToPoll(p, r)
    BY <1>2, <2>1, <2>2, <2>3, <2>4 DEF TypeInv, TypeOK
  <2>5. CASE ToPoll(p, Asking)
    BY <1>2, <2>3, <2>5, AskingTypes DEF TypeInv, TypeOK
  <2>6. QED
    BY <2>3, <2>4, <2>5
<1>b. CASE RaiseStarted(p)
  <2>1. active' \in 0..MaxCount
    BY <1>1, <1>b DEF RaiseStarted, More, PollState, MaxCount
  <2>2. ToPoll(p, Asking) /\ UNCHANGED <<files, streams, threads, shown, page, cleared, cutOff>>
    BY <1>b DEF RaiseStarted
  <2>3. QED
    BY <1>2, <2>1, <2>2, AskingTypes DEF TypeInv, TypeOK
<1>3. CASE ReadFiles(p)
  <2> DEFINE r == [poll[p] EXCEPT !.pc = "reset", !.have = exists]
  <2>1. exists \subseteq Files
    BY DEF TypeInv, TypeOK
  <2>2. r \in PollState /\ r.pc = "reset" /\ r.seen = poll[p].seen
    BY <1>1, <2>1 DEF PollState
  <2>3. r.seen \in [Tools -> State]
    BY <1>3, <2>2 DEF ReadFiles, TypeInv, Placed
  <2>4. ToPoll(p, r) /\ UNCHANGED <<files, streams, threads, active, shown, page, cleared, cutOff>>
    BY <1>3 DEF ReadFiles
  <2> HIDE DEF r
  <2>5. QED
    BY <1>2, <2>2, <2>3, <2>4 DEF TypeInv, TypeOK
<1>4. CASE ResetCount(p)
  <2> DEFINE r == [poll[p] EXCEPT !.pc = "check", !.next = 1]
  <2>1. 1 \in DOMAIN Order /\ 1 \in 1..(Len(Order) + 1)
    BY OrderFacts
  <2>2. r \in PollState /\ r.pc = "check" /\ r.seen = poll[p].seen /\ r.next = 1
    BY <1>1, <2>1 DEF PollState
  <2>3. r.seen \in [Tools -> State]
    BY <1>4, <2>2 DEF ResetCount, TypeInv, Placed
  <2>4. ToPoll(p, r) /\ active' = 0 /\ UNCHANGED <<files, streams, threads, shown, page, cleared, cutOff>>
    BY <1>4 DEF ResetCount
  <2>5. active' \in 0..MaxCount
    BY <2>4 DEF MaxCount
  <2> HIDE DEF r
  <2>6. QED
    BY <1>2, <2>1, <2>2, <2>3, <2>4, <2>5 DEF TypeInv, TypeOK
<1>5. CASE Check(p)
  <2> DEFINE i == poll[p].next
             x == Order[i]
             status == IF Artefact[x] \in poll[p].have THEN "stopped" ELSE "empty"
             r == [poll[p] EXCEPT !.pc = "bump", !.tmp = active]
  <2>1. i \in DOMAIN Order /\ poll[p].seen \in [Tools -> State] /\ status \in State
    BY <1>5 DEF Check, TypeInv, Placed, State
  <2>2. active \in 0..MaxCount
    BY DEF TypeInv, TypeOK
  <2>3. r \in PollState /\ r.pc = "bump" /\ r.seen = poll[p].seen /\ r.next = i
    BY <1>1, <2>2 DEF PollState
  <2>4. /\ ToPoll(p, r) \/ ToPoll(p, Advance(poll[p], i, status))
        /\ UNCHANGED <<files, streams, threads, active, shown, page, cleared, cutOff>>
    BY <1>5 DEF Check
  <2> HIDE DEF r, status, i
  <2>5. CASE ToPoll(p, r)
    BY <1>2, <2>1, <2>3, <2>4, <2>5 DEF TypeInv, TypeOK
  <2>6. CASE ToPoll(p, Advance(poll[p], i, status))
    BY <1>1, <1>2, <2>1, <2>4, <2>6, AdvanceTypes DEF TypeInv, TypeOK
  <2>7. QED
    BY <2>4, <2>5, <2>6
<1>6. CASE Bump(p)
  <2> DEFINE i == poll[p].next
  <2>1. i \in DOMAIN Order /\ poll[p].seen \in [Tools -> State] /\ "running" \in State
    BY <1>6 DEF Bump, TypeInv, Placed, State
  <2>2. active' \in 0..MaxCount
    BY <1>1, <1>6 DEF Bump, More, PollState, MaxCount
  <2>3. /\ ToPoll(p, Advance(poll[p], i, "running"))
        /\ UNCHANGED <<files, streams, threads, shown, page, cleared, cutOff>>
    BY <1>6 DEF Bump
  <2> HIDE DEF i
  <2>4. QED
    BY <1>1, <1>2, <2>1, <2>2, <2>3, AdvanceTypes DEF TypeInv, TypeOK
<1>7. CASE ReadTotal(p)
  <2> DEFINE r == [poll[p] EXCEPT !.pc = "drain", !.total = active]
  <2>1. active \in 0..MaxCount
    BY DEF TypeInv, TypeOK
  <2>2. r \in PollState /\ r.pc = "drain"
    BY <1>1, <2>1 DEF PollState
  <2>3. ToPoll(p, r) /\ UNCHANGED <<files, streams, threads, active, shown, page, cleared, cutOff>>
    BY <1>7 DEF ReadTotal
  <2> HIDE DEF r
  <2>4. QED
    BY <1>2, <2>2, <2>3 DEF TypeInv, TypeOK
<1>8. CASE Drain(p)
  <2> DEFINE r == [poll[p] EXCEPT !.pc = "answer", !.lines = Newest(array[stream])]
  <2>1. Newest(array[stream]) \in Seq(Line) /\ <<>> \in Seq(Line)
    BY NewestTypes DEF TypeInv, TypeOK
  <2>2. r \in PollState /\ r.pc = "answer"
    BY <1>1, <2>1 DEF PollState
  <2>3. /\ ToPoll(p, r) /\ array' = [array EXCEPT ![stream] = <<>>]
        /\ UNCHANGED <<files, stream, writer, printed, puts, threads, active, shown, page, cleared, cutOff>>
    BY <1>8 DEF Drain
  <2> HIDE DEF r
  <2>4. QED
    BY <1>2, <2>1, <2>2, <2>3 DEF TypeInv, TypeOK
<1>9. CASE Answer(p)
  <2>1. page' \in Seq(Line) /\ shown' \in [Tools -> State]
    BY <1>1, <1>9 DEF Answer, PollState, TypeInv, TypeOK
  <2>2. ToPoll(p, Asking) \/ ToPoll(p, Off)
    BY <1>9 DEF Answer
  <2>3. UNCHANGED <<files, streams, threads, active, cleared, cutOff>>
    BY <1>9 DEF Answer
  <2>4. QED
    BY <1>2, <2>1, <2>2, <2>3, AskingTypes DEF TypeInv, TypeOK
<1>10. QED
  BY <1>a, <1>b, <1>3, <1>4, <1>5, <1>6, <1>7, <1>8, <1>9 DEF Poll

-----------------------------------------------------------------------------
\* A tool begins: its thread takes a place that a tool has.
LEMMA StartTypes ==
  ASSUME TypeInv, NEW t \in Threads, NEW x \in Tools, NEW p \in Polls, Start(t, x, p)
  PROVE  TypeInv'
<1> DEFINE new == [tool |-> x, on |-> NoThread, pc |-> IF x \in Opens THEN "open" ELSE "begin"]
<1>1. new \in ThreadState /\ new.tool = x
  BY OrderFacts DEF ThreadState, Streams
<1> DEFINE r == IF x \in Counts THEN Starting(x) ELSE Asking
<1>2. th' = [th EXCEPT ![t] = new] /\ ToPoll(p, r)
  BY DEF Start
<1>r. /\ r \in PollState /\ r.pc \in {"started", "files"}
      /\ r.pc = "started" => r.next \in DOMAIN Order
      /\ r.pc = "files" => r.seen \in [Tools -> State]
  BY AskingTypes, StartingTypes
<1> HIDE DEF new, r
<1>3. /\ th' \in [Threads -> ThreadState]
      /\ \A u \in Threads : th'[u] = IF u = t THEN new ELSE th[u]
  BY <1>1, <1>2 DEF TypeInv, TypeOK
<1>4. /\ poll' \in [Polls -> PollState]
      /\ \A q \in Polls : poll'[q] = IF q = p THEN r ELSE poll[q]
  BY <1>2, <1>r DEF ToPoll, TypeInv, TypeOK
<1>5. Placed'
  BY <1>1, <1>3, <1>4, <1>r DEF TypeInv, Placed, Alive
<1>6. /\ exists' \subseteq Files
      /\ thread' \in [Tools -> Streams] /\ time' \in [Tools -> Streams]
  BY OrderFacts DEF Start, TypeInv, TypeOK, Streams, Files, AllTools, Artefact
<1>7. cleared' \in 0..puts' /\ cutOff' \in BOOLEAN
  <2>1. cleared' \in {puts, cleared} /\ puts' = puts
    BY Zenon DEF Start, streams
  <2>2. cleared' \in 0..puts'
    BY <2>1 DEF TypeInv, TypeOK
  <2>3. cutOff' \in BOOLEAN
    BY Zenon DEF Start
  <2>4. QED
    BY <2>2, <2>3
<1>8. QED
  BY <1>3, <1>4, <1>5, <1>6, <1>7 DEF Start, streams, TypeInv, TypeOK

LEMMA ExtractTypes ==
  ASSUME TypeInv, NEW t \in Threads, NEW p \in Polls, NEW q \in Polls, ExtractApk(t, p, q)
  PROVE  TypeInv'
<1> DEFINE line(n) == [no |-> puts + n, by |-> t]
           two == <<line(1), line(2)>>
<1>1. two \in Seq(Line)
  BY DEF Line, Streams, TypeInv, TypeOK
<1>2. /\ array' = [array EXCEPT ![stream] = @ \o two]
      /\ printed' = IF writer[stream] = "open" THEN [printed EXCEPT ![stream] = @ \o two] ELSE printed
  BY DEF ExtractApk
<1> HIDE DEF two
<1>3. array' \in [Streams -> Seq(Line)] /\ printed' \in [Streams -> Seq(Line)]
  BY <1>1, <1>2 DEF TypeInv, TypeOK
<1>4. /\ th' \in [Threads -> ThreadState]
      /\ \A u \in Threads \ {t} : th'[u] = th[u]
      /\ th'[t].pc = "dead"
  <2>1. th \in [Threads -> ThreadState]
    BY DEF TypeInv, TypeOK
  <2>2. th' = [th EXCEPT ![t].tool = "extract_apk", ![t].pc = "dead"]
    BY DEF ExtractApk
  <2>3. QED
    BY <2>1, <2>2 DEF ThreadState
<1>5. /\ poll' \in [Polls -> PollState]
      /\ \A r \in Polls : poll'[r] \in {Asking, AskingLog, poll[r]}
  BY AskingTypes DEF ExtractApk, TypeInv, TypeOK
<1>6. Placed'
  BY <1>4, <1>5, AskingTypes DEF TypeInv, Placed, Alive
<1>7. exists' \subseteq Files /\ puts' \in Nat /\ cleared \in 0..puts'
  BY DEF ExtractApk, Files, TypeInv, TypeOK
<1>8. QED
  BY <1>3, <1>4, <1>5, <1>6, <1>7 DEF ExtractApk, TypeInv, TypeOK

LEMMA StopTypes ==
  ASSUME TypeInv, NEW x \in Tools, NEW p \in Polls, StopThread(x, p)
  PROVE  TypeInv' /\ \A t \in Threads : ~Alive(t)'
<1>1. <<[no |-> puts + 1, by |-> NoThread]>> \in Seq(Line) /\ <<>> \in Seq(Line)
  BY DEF Line, Streams, TypeInv, TypeOK
<1>2. array' \in [Streams -> Seq(Line)] /\ printed' \in [Streams -> Seq(Line)]
  BY <1>1 DEF StopThread, FreshStreams, TypeInv, TypeOK
<1>3. th' \in [Threads -> ThreadState] /\ \A t \in Threads : ~Alive(t)'
  <2>1. th \in [Threads -> ThreadState]
    BY DEF TypeInv, TypeOK
  <2>2. th' = [t \in Threads |-> IF Alive(t) THEN [th[t] EXCEPT !.pc = "crashed"] ELSE th[t]]
    BY DEF StopThread
  <2>3. \A t \in Threads : LET d == [th[t] EXCEPT !.pc = "crashed"]
                           IN  d \in ThreadState /\ d.pc = "crashed"
    BY <2>1 DEF ThreadState
  <2>4. QED
    BY <2>1, <2>2, <2>3 DEF Alive
<1>4. /\ poll' \in [Polls -> PollState]
      /\ \A q \in Polls : poll'[q] \in {Asking, Off}
      /\ cutOff' \in BOOLEAN
  BY AskingTypes DEF StopThread
<1>5. Placed'
  BY <1>3, <1>4, AskingTypes DEF Placed
<1>6. /\ stream' \in Streams /\ puts' \in Nat /\ cleared' \in 0..puts' /\ active' \in 0..MaxCount
      /\ writer' \in [Streams -> {"open", "closed", "null"}]
      /\ thread' \in [Tools -> Streams] /\ time' \in [Tools -> Streams]
  BY DEF StopThread, FreshStreams, Streams, MaxCount, TypeInv, TypeOK
<1>7. QED
  BY <1>2, <1>3, <1>4, <1>5, <1>6 DEF StopThread, files, TypeInv, TypeOK

\* Commands about the log and the package: threads and polls go on.
LEMMA OtherTypes ==
  ASSUME TypeInv, ClearLog \/ DeletePackage \/ CreatePackage
  PROVE  TypeInv'
<1>1. <<>> \in Seq(Line) /\ "folder" \in Files
  BY DEF Files
<1>2. /\ array' \in [Streams -> Seq(Line)] /\ page' \in Seq(Line)
      /\ exists' \subseteq Files /\ cleared' \in 0..puts'
      /\ log' \in [Opens -> Seq(Line)] /\ linked' \subseteq Threads
      /\ UNCHANGED <<stream, writer, printed, puts, threads, active, poll, shown, cutOff>>
  <2>1. CASE ClearLog
    BY <1>1, <2>1 DEF ClearLog, files, TypeInv, TypeOK
  <2>2. CASE DeletePackage
    BY <2>2 DEF DeletePackage, streams, client, TypeInv, TypeOK
  <2>3. CASE CreatePackage
    BY <1>1, <2>3 DEF CreatePackage, streams, client, TypeInv, TypeOK
  <2>4. QED
    BY <2>1, <2>2, <2>3
<1>3. Placed'
  BY <1>2 DEF TypeInv, Placed, Alive, threads
<1>4. QED
  BY <1>2, <1>3 DEF TypeInv, TypeOK, threads

LEMMA StepTypes ==
  ASSUME TypeInv, [Next]_vars
  PROVE  TypeInv'
<1>1. ASSUME UNCHANGED vars PROVE TypeInv'
  BY <1>1 DEF vars, TypeInv, TypeOK, Placed, Alive
<1>2. ASSUME User PROVE TypeInv'
  BY <1>2, StartTypes, ExtractTypes, StopTypes, OtherTypes DEF User
<1>3. QED
  BY <1>1, <1>2, RunTypes, PollTypes DEF Next

\* Whatever the tools do and fail at, and however the page's requests interleave,
\* every variable keeps its type; the counter, which requests reset under each
\* other, never leaves 0..MaxCount.
THEOREM DecompileTypeCorrect == Spec => []TypeOK
<1>1. TypeInv => TypeOK
  BY DEF TypeInv
<1>2. QED
  BY <1>1, InitTypes, StepTypes, PTL DEF Spec

-----------------------------------------------------------------------------
(* The page follows.  All requests reset and raise one counter, so that the *)
(* count one of them answers may be another's.  But a reset only comes from *)
(* a request that still has every tool before it, and a count that has been *)
(* raised since is above 0 for all.                                         *)

\* A request that will find the k-th tool running if it is, or that has a count
\* above 0, and is followed by another.
WillSee(p, k) ==
  \/ poll[p].pc \in {"started", "raise", "files", "reset"}
  \/ poll[p].pc \in {"check", "bump"} /\ poll[p].next <= k
  \/ poll[p].pc \in {"check", "bump", "total"} /\ active > 0
  \/ poll[p].pc \in {"drain", "answer"} /\ poll[p].total > 0

\* A request that takes the lines of the stream, or is followed by one.
WillRead(p) ==
  \/ poll[p].pc \notin {"off", "answer"}
  \/ poll[p].pc = "answer" /\ poll[p].total > 0

IsTool(t, k) == Alive(t) /\ Order[k] = th[t].tool

FollowInv ==
  /\ \A t \in Threads : Alive(t) => thread[th[t].tool] = t
  /\ \A t \in Threads, k \in DOMAIN Order : IsTool(t, k) => \E p \in Polls : WillSee(p, k)
  /\ array[stream] # <<>> => cutOff \/ \E p \in Polls : WillRead(p)

\* A tool is started only when it has ended.
NotAgain == "again" \notin Env

\* While a thread runs, lines will be read.
LEMMA ThreadIsRead ==
  ASSUME TypeInv, FollowInv, NEW t \in Threads, Alive(t)
  PROVE  \E p \in Polls : WillRead(p)
<1>1. PICK k \in DOMAIN Order : Order[k] = th[t].tool
  BY DEF TypeInv, Placed, Tools
<1>2. PICK p \in Polls : WillSee(p, k)
  BY <1>1 DEF FollowInv, IsTool
<1>3. WillRead(p)
  BY <1>2 DEF WillSee, WillRead
<1>4. QED
  BY <1>3

\* Steps that leave requests, counts and the table of threads alone, and make no
\* thread run that did not: a line put meanwhile is one of a thread that runs.
LEMMA OthersFollow ==
  ASSUME TypeInv, FollowInv, UNCHANGED <<poll, active, thread, cutOff>>,
         \A t \in Threads : Alive(t)' => Alive(t) /\ th'[t].tool = th[t].tool,
         \/ array'[stream'] = <<>>
         \/ array[stream] = array'[stream']
         \/ \E t \in Threads : Alive(t)
  PROVE  FollowInv'
<1>1. \A p \in Polls : /\ WillRead(p) => WillRead(p)'
                       /\ \A k \in DOMAIN Order : WillSee(p, k) => WillSee(p, k)'
  BY DEF WillRead, WillSee
<1>2. \A t \in Threads : Alive(t)' => thread'[th'[t].tool] = t
  BY DEF FollowInv
<1>3. \A t \in Threads, k \in DOMAIN Order : IsTool(t, k)' => \E p \in Polls : WillSee(p, k)'
  BY <1>1 DEF FollowInv, IsTool
<1>4. array'[stream'] # <<>> => cutOff' \/ \E p \in Polls : WillRead(p)'
  BY <1>1, ThreadIsRead DEF FollowInv
<1>5. QED
  BY <1>2, <1>3, <1>4 DEF FollowInv

LEMMA RunFollows ==
  ASSUME TypeInv, FollowInv, NEW t \in Threads, Run(t)
  PROVE  FollowInv'
<1>1. th[t].pc \in {"open", "begin", "work", "end", "close", "null", "uncaught"}
  BY DEF Run, Open, Begin, Work, End, Close, SetNull, Uncaught
<1>2. Alive(t)
  BY <1>1, ConstantsAssumption DEF Alive
<1>3. UNCHANGED <<poll, active, thread, cutOff>>
  BY DEF Run, Open, Begin, Work, End, Close, SetNull, Uncaught, client
<1>4. \E pc \in {"begin", "work", "end", "close", "null", "uncaught", "dead", "crashed"} :
        \/ th' = [th EXCEPT ![t].pc = pc]
        \/ th' = [th EXCEPT ![t].pc = pc, ![t].on = stream]
  <2>1. CASE Open(t)
    BY <2>1 DEF Open, Goes, Dies
  <2>2. CASE Begin(t)
    BY <2>2 DEF Begin, Goes, Dies
  <2>3. CASE Work(t)
    BY <2>3 DEF Work, Goes, Dies
  <2>4. CASE End(t)
    BY <2>4 DEF End, Goes, Dies
  <2>5. CASE Close(t)
    BY <2>5 DEF Close, Goes, Dies, Closed, TypeInv, TypeOK
  <2>6. CASE SetNull(t)
    BY <2>6 DEF SetNull, Goes, Closed
  <2>7. CASE Uncaught(t)
    BY <2>7 DEF Uncaught, Goes
  <2>8. QED
    BY <2>1, <2>2, <2>3, <2>4, <2>5, <2>6, <2>7 DEF Run
<1>5. /\ \A u \in Threads : th'[u].tool = th[u].tool
      /\ \A u \in Threads \ {t} : th'[u].pc = th[u].pc
  <2>1. th \in [Threads -> ThreadState]
    BY DEF TypeInv, TypeOK
  <2>2. PICK pc : \/ th' = [th EXCEPT ![t].pc = pc]
                  \/ th' = [th EXCEPT ![t].pc = pc, ![t].on = stream]
    BY <1>4
  <2>3. CASE th' = [th EXCEPT ![t].pc = pc]
    BY <2>1, <2>3 DEF ThreadState
  <2>4. CASE th' = [th EXCEPT ![t].pc = pc, ![t].on = stream]
    BY <2>1, <2>4 DEF ThreadState
  <2>5. QED
    BY <2>2, <2>3, <2>4
<1>6. \A u \in Threads : Alive(u)' => Alive(u) /\ th'[u].tool = th[u].tool
  BY <1>2, <1>5 DEF Alive
<1>7. QED
  BY <1>2, <1>3, <1>6, OthersFollow

\* A request's step leaves some request that will see a thread that runs.
LEMMA PollSees ==
  ASSUME TypeInv, NEW p \in Polls, Poll(p),
         NEW k \in DOMAIN Order, Alive(thread[Order[k]]),
         NEW q \in Polls, WillSee(q, k)
  PROVE  \E r \in Polls : WillSee(r, k)'
<1>1. poll[p] \in PollState /\ poll \in [Polls -> PollState] /\ k \in 1..Len(Order)
  BY OrderFacts DEF TypeInv, TypeOK
<1>t. \A s \in PollState : ToPoll(p, s) => poll'[p] = s /\ \A r \in Polls \ {p} : poll'[r] = poll[r]
  BY <1>1 DEF ToPoll
\* Unless the counter changes, only the request's own prospects do.
<1>2. ASSUME NEW s \in PollState, ToPoll(p, s), active' = active, WillSee(p, k) => WillSee(p, k)'
      PROVE  \E r \in Polls : WillSee(r, k)'
  BY <1>2, <1>t DEF WillSee
<1>a. CASE CountStarted(p)
  <2> DEFINE s == [poll[p] EXCEPT !.pc = "raise", !.tmp = active]
  <2>1. s \in PollState /\ s.pc = "raise"
    BY <1>1 DEF PollState, TypeInv, TypeOK
  <2>2. ToPoll(p, s) \/ ToPoll(p, Asking)
    BY <1>a DEF CountStarted
  <2> HIDE DEF s
  <2>3. poll'[p].pc \in {"raise", "files"}
    BY <1>t, <2>1, <2>2, AskingTypes
  <2>4. QED
    BY <2>3 DEF WillSee
<1>b. CASE RaiseStarted(p)
  <2>1. poll'[p].pc = "files"
    BY <1>b, <1>t, AskingTypes DEF RaiseStarted
  <2>2. QED
    BY <2>1 DEF WillSee
<1>3. CASE ReadFiles(p)
  <2> DEFINE s == [poll[p] EXCEPT !.pc = "reset", !.have = exists]
  <2>1. s \in PollState /\ s.pc = "reset"
    BY <1>1 DEF PollState, TypeInv, TypeOK
  <2>2. ToPoll(p, s) /\ active' = active
    BY <1>3 DEF ReadFiles
  <2>3. QED
    BY <1>t, <1>2, <2>1, <2>2 DEF WillSee
<1>4. CASE ResetCount(p)
  <2> DEFINE s == [poll[p] EXCEPT !.pc = "check", !.next = 1]
  <2>1. 1 \in 1..(Len(Order) + 1)
    BY OrderFacts
  <2>2. s \in PollState /\ s.pc = "check" /\ s.next = 1
    BY <1>1, <2>1 DEF PollState
  <2>3. ToPoll(p, s)
    BY <1>4 DEF ResetCount
  <2> HIDE DEF s
  <2>4. poll'[p].pc = "check" /\ poll'[p].next <= k
    BY <1>1, <1>t, <2>2, <2>3
  <2>5. QED
    BY <2>4 DEF WillSee
<1>5. CASE Check(p)
  <2> DEFINE i == poll[p].next
             x == Order[i]
             status == IF Artefact[x] \in poll[p].have THEN "stopped" ELSE "empty"
             s == [poll[p] EXCEPT !.pc = "bump", !.tmp = active]
  <2>1. i \in DOMAIN Order /\ poll[p].seen \in [Tools -> State] /\ status \in State
    BY <1>5 DEF Check, TypeInv, Placed, State
  <2>2. s \in PollState /\ s.pc = "bump" /\ s.next = i
    BY <1>1 DEF PollState, TypeInv, TypeOK
  <2>3. /\ \/ ToPoll(p, s)
           \/ ~Alive(thread[x]) /\ ToPoll(p, Advance(poll[p], i, status))
        /\ poll[p].pc = "check" /\ active' = active
    BY <1>5 DEF Check
  <2>4. i \in 1..Len(Order) /\ poll[p].next = i
    BY <2>1, OrderFacts
  <2> HIDE DEF s, status
  <2>5. CASE ToPoll(p, s)
    <3>1. WillSee(p, k) => WillSee(p, k)'
      BY <1>t, <2>2, <2>3, <2>5 DEF WillSee
    <3>2. QED
      BY <1>2, <2>2, <2>3, <2>5, <3>1
  <2>6. CASE ~Alive(thread[x]) /\ ToPoll(p, Advance(poll[p], i, status))
    <3> DEFINE d == Advance(poll[p], i, status)
    <3>1. /\ d \in PollState /\ d.pc \in {"check", "total"} /\ d.next = i + 1
          /\ d.pc = "total" <=> i = Len(Order)
      BY <1>1, <2>1, AdvanceTypes
    <3>2. k # i
      BY <2>6
    <3> HIDE DEF d
    <3>3. poll'[p] = d
      BY <1>t, <2>6, <3>1 DEF d
    <3> HIDE DEF i
    <3>4. WillSee(p, k) => WillSee(p, k)'
      BY <1>1, <2>3, <2>4, <3>1, <3>2, <3>3 DEF WillSee
    <3>5. QED
      BY <1>2, <2>3, <2>6, <3>1, <3>4 DEF d
  <2>7. QED
    BY <2>3, <2>5, <2>6
<1>6. CASE Bump(p)
  <2> DEFINE i == poll[p].next
             d == Advance(poll[p], i, "running")
  <2>1. i \in DOMAIN Order /\ poll[p].seen \in [Tools -> State] /\ "running" \in State
    BY <1>6 DEF Bump, TypeInv, Placed, State
  <2>2. active' > 0
    BY <1>1, <1>6 DEF Bump, More, PollState, MaxCount
  <2>3. d \in PollState /\ d.pc \in {"check", "total"}
    BY <1>1, <2>1, AdvanceTypes
  <2>4. ToPoll(p, d)
    BY <1>6 DEF Bump
  <2> HIDE DEF d
  <2>5. QED
    BY <1>t, <2>2, <2>3, <2>4 DEF WillSee
<1>7. CASE ReadTotal(p)
  <2> DEFINE s == [poll[p] EXCEPT !.pc = "drain", !.total = active]
  <2>1. s \in PollState /\ s.pc = "drain" /\ s.total = active
    BY <1>1 DEF PollState, TypeInv, TypeOK
  <2>2. ToPoll(p, s) /\ active' = active /\ poll[p].pc = "total"
    BY <1>7 DEF ReadTotal
  <2> HIDE DEF s
  <2>3. WillSee(p, k) => WillSee(p, k)'
    BY <1>t, <2>1, <2>2 DEF WillSee
  <2>4. QED
    BY <1>2, <2>1, <2>2, <2>3
<1>8. CASE Drain(p)
  <2> DEFINE s == [poll[p] EXCEPT !.pc = "answer", !.lines = Newest(array[stream])]
  <2>1. s \in PollState /\ s.pc = "answer" /\ s.total = poll[p].total
    BY <1>1, NewestTypes DEF PollState, TypeInv, TypeOK
  <2>2. ToPoll(p, s) /\ active' = active /\ poll[p].pc = "drain"
    BY <1>8 DEF Drain
  <2> HIDE DEF s
  <2>3. WillSee(p, k) => WillSee(p, k)'
    BY <1>t, <2>1, <2>2 DEF WillSee
  <2>4. QED
    BY <1>2, <2>1, <2>2, <2>3
<1>9. CASE Answer(p)
  <2>1. /\ ToPoll(p, IF poll[p].total > 0 THEN Asking ELSE Off)
        /\ active' = active /\ poll[p].pc = "answer"
    BY <1>9 DEF Answer
  <2>2. WillSee(p, k) => WillSee(p, k)'
    BY <1>t, <2>1, AskingTypes DEF WillSee
  <2>3. QED
    BY <1>2, <2>1, <2>2, AskingTypes
<1>10. QED
  BY <1>a, <1>b, <1>3, <1>4, <1>5, <1>6, <1>7, <1>8, <1>9 DEF Poll

\* A request's step leaves some request that will read, or nothing to read.
LEMMA PollReads ==
  ASSUME TypeInv, NEW p \in Polls, Poll(p),
         array[stream] # <<>> => cutOff \/ \E q \in Polls : WillRead(q)
  PROVE  array'[stream'] # <<>> => cutOff' \/ \E q \in Polls : WillRead(q)'
<1>1. poll[p] \in PollState /\ poll \in [Polls -> PollState]
  BY DEF TypeInv, TypeOK
<1>2. (\A q \in Polls \ {p} : WillRead(q) => WillRead(q)') /\ cutOff' = cutOff
  BY <1>1 DEF Poll, CountStarted, RaiseStarted, ReadFiles, ResetCount, Check, Bump, ReadTotal, Drain, Answer, ToPoll, WillRead
<1>3. CASE Drain(p)
  BY <1>3 DEF Drain, TypeInv, TypeOK
<1>4. CASE Answer(p)
  <2>1. ToPoll(p, IF poll[p].total > 0 THEN Asking ELSE Off) /\ UNCHANGED <<array, stream>>
    BY <1>4 DEF Answer, streams
  <2>2. poll'[p] = IF poll[p].total > 0 THEN Asking ELSE Off
    BY <1>1, <2>1 DEF ToPoll
  <2>3. WillRead(p) => WillRead(p)'
    BY <1>4, <2>2, AskingTypes DEF WillRead, Answer
  <2>4. QED
    BY <1>2, <2>1, <2>3
<1>5. CASE \/ CountStarted(p) \/ RaiseStarted(p)
           \/ ReadFiles(p) \/ ResetCount(p) \/ Check(p) \/ Bump(p) \/ ReadTotal(p)
  <2>1. WillRead(p) /\ UNCHANGED <<array, stream>>
    BY <1>5 DEF CountStarted, RaiseStarted, ReadFiles, ResetCount, Check, Bump, ReadTotal, WillRead, streams
  <2>2. poll'[p].pc \in {"raise", "files", "reset", "check", "bump", "total", "drain"}
    <3>a. CASE CountStarted(p) \/ RaiseStarted(p)
      <4>1. poll'[p] = Asking \/ poll'[p] = [poll[p] EXCEPT !.pc = "raise", !.tmp = active]
        BY <1>1, <3>a DEF CountStarted, RaiseStarted, ToPoll
      <4>2. QED
        BY <1>1, <4>1, AskingTypes DEF PollState
    <3>1. CASE Check(p)
      <4> DEFINE bump == [poll[p] EXCEPT !.pc = "bump", !.tmp = active]
      <4>1. /\ poll[p].next \in DOMAIN Order /\ poll[p].seen \in [Tools -> State]
            /\ \/ ToPoll(p, bump)
               \/ \E status \in State : ToPoll(p, Advance(poll[p], poll[p].next, status))
        BY <3>1 DEF Check, TypeInv, Placed, State
      <4>2. bump.pc = "bump"
        BY <1>1 DEF PollState
      <4>3. \A status \in State : Advance(poll[p], poll[p].next, status).pc \in {"check", "total"}
        BY <1>1, <4>1, AdvanceTypes
      <4> HIDE DEF bump
      <4>4. QED
        BY <1>1, <4>1, <4>2, <4>3 DEF ToPoll
    <3>2. CASE Bump(p)
      <4>1. /\ poll[p].next \in DOMAIN Order /\ poll[p].seen \in [Tools -> State]
            /\ ToPoll(p, Advance(poll[p], poll[p].next, "running")) /\ "running" \in State
        BY <3>2 DEF Bump, TypeInv, Placed, State
      <4>2. Advance(poll[p], poll[p].next, "running").pc \in {"check", "total"}
        BY <1>1, <4>1, AdvanceTypes
      <4>3. QED
        BY <1>1, <4>1, <4>2 DEF ToPoll
    <3>3. CASE ReadFiles(p) \/ ResetCount(p) \/ ReadTotal(p)
      BY <1>1, <3>3 DEF ReadFiles, ResetCount, ReadTotal, ToPoll, PollState
    <3>4. QED
      BY <1>5, <3>a, <3>1, <3>2, <3>3
  <2>3. WillRead(p)'
    BY <2>2 DEF WillRead
  <2>4. QED
    BY <2>3
<1>6. QED
  BY <1>3, <1>4, <1>5 DEF Poll

LEMMA PollFollows ==
  ASSUME TypeInv, FollowInv, NEW p \in Polls, Poll(p)
  PROVE  FollowInv'
<1>1. UNCHANGED <<thread, th>>
  BY DEF Poll, CountStarted, RaiseStarted, ReadFiles, ResetCount, Check, Bump, ReadTotal, Drain, Answer, threads
<1>2. \A t \in Threads : Alive(t)' <=> Alive(t)
  BY <1>1 DEF Alive
<1>3. ASSUME NEW t \in Threads, NEW k \in DOMAIN Order, IsTool(t, k)'
      PROVE  \E q \in Polls : WillSee(q, k)'
  <2>1. IsTool(t, k) /\ Alive(thread[Order[k]])
    BY <1>1, <1>2, <1>3 DEF IsTool, FollowInv
  <2>2. QED
    BY <2>1, PollSees DEF FollowInv
<1>4. QED
  BY <1>1, <1>2, <1>3, PollReads DEF FollowInv

\* A request that is new will see every tool.
LEMMA NewSees ==
  ASSUME NEW p \in Polls, poll'[p].pc \in {"started", "files"}
  PROVE  WillRead(p)' /\ \A k \in DOMAIN Order : WillSee(p, k)'
BY DEF WillRead, WillSee

LEMMA UserFollows ==
  ASSUME TypeInv, FollowInv, NotAgain, User
  PROVE  FollowInv'
<1>1. ASSUME NEW t \in Threads, NEW x \in Tools, NEW p \in Polls, Start(t, x, p)
      PROVE  FollowInv'
  <2>1. poll'[p].pc \in {"started", "files"}
    <3>1. poll'[p] = IF x \in Counts THEN Starting(x) ELSE Asking
      BY <1>1 DEF Start, ToPoll, TypeInv, TypeOK
    <3>2. QED
      BY <3>1, AskingTypes, StartingTypes
  <2>2. /\ th'[t].tool = x
        /\ \A u \in Threads \ {t} : th'[u] = th[u]
        /\ thread'[x] = t
        /\ \A y \in Tools \ {x} : thread'[y] = thread[y]
        /\ ~Alive(thread[x])
    BY <1>1 DEF Start, NotAgain, TypeInv, TypeOK
  <2>3. \A u \in Threads \ {t} : Alive(u)' => Alive(u) /\ th[u].tool \in Tools \ {x}
    BY <2>2 DEF FollowInv, TypeInv, Placed, Alive
  <2>4. \A u \in Threads : Alive(u)' => thread'[th'[u].tool] = u
    BY <2>2, <2>3 DEF FollowInv
  <2>5. QED
    BY <2>1, <2>4, NewSees DEF FollowInv
<1>2. ASSUME NEW t \in Threads, NEW p \in Polls, NEW q \in Polls, ExtractApk(t, p, q)
      PROVE  FollowInv'
  <2>1. poll'[q].pc = "files"
    BY <1>2, AskingTypes DEF ExtractApk, TypeInv, TypeOK
  <2>2. th \in [Threads -> ThreadState] /\ th' = [th EXCEPT ![t].tool = "extract_apk", ![t].pc = "dead"]
    BY <1>2 DEF ExtractApk, TypeInv, TypeOK
  <2>3. \A u \in Threads \ {t} : th'[u] = th[u]
    BY <2>2
  <2>4. th'[t].pc = "dead"
    BY <2>2 DEF ThreadState
  <2>5. \A u \in Threads : Alive(u)' => Alive(u) /\ th'[u] = th[u]
    BY <2>3, <2>4 DEF Alive
  <2>6. \A u \in Threads : Alive(u)' => thread'[th'[u].tool] = u
    BY <1>2, <2>5 DEF ExtractApk, FollowInv
  <2>7. QED
    BY <2>1, <2>6, NewSees DEF FollowInv
<1>3. ASSUME NEW x \in Tools, NEW p \in Polls, StopThread(x, p)
      PROVE  FollowInv'
  <2>1. (cutOff' \/ \E q \in Polls : poll'[q] = Asking) /\ \A t \in Threads : ~Alive(t)'
    BY <1>3, StopTypes DEF StopThread
  <2>2. QED
    BY <2>1, NewSees, AskingTypes DEF FollowInv, IsTool
<1>4. CASE ClearLog \/ DeletePackage \/ CreatePackage
  <2>1. UNCHANGED <<poll, active, thread, th, cutOff>>
    BY <1>4 DEF ClearLog, DeletePackage, CreatePackage, threads, client
  <2>2. array'[stream'] = <<>> \/ array[stream] = array'[stream']
    BY <1>4 DEF ClearLog, DeletePackage, CreatePackage, streams, TypeInv, TypeOK
  <2>3. \A t \in Threads : Alive(t)' => Alive(t) /\ th'[t].tool = th[t].tool
    BY <2>1 DEF Alive
  <2>4. QED
    BY <2>1, <2>2, <2>3, OthersFollow
<1>5. QED
  BY <1>1, <1>2, <1>3, <1>4 DEF User

LEMMA Following == NotAgain => (Spec => [](TypeInv /\ FollowInv))
<1> SUFFICES ASSUME NotAgain PROVE Spec => [](TypeInv /\ FollowInv)
  OBVIOUS
<1>1. Init => TypeInv /\ FollowInv
  <2> SUFFICES ASSUME Init PROVE FollowInv
    BY InitTypes
  <2>1. \A t \in Threads : ~Alive(t)
    BY DEF Init, Alive
  <2>2. PICK p \in Polls : poll[p] = Asking
    BY DEF Init
  <2>3. WillRead(p)
    BY <2>2, AskingTypes DEF WillRead
  <2>4. QED
    BY <2>1, <2>3 DEF FollowInv, IsTool
<1>2. TypeInv /\ FollowInv /\ [Next]_vars => TypeInv' /\ FollowInv'
  <2> SUFFICES ASSUME TypeInv, FollowInv, [Next]_vars PROVE FollowInv'
    BY StepTypes
  <2>1. CASE UNCHANGED vars
    <3>1. /\ UNCHANGED <<poll, active, thread, array, stream, cutOff>>
          /\ \A t \in Threads : Alive(t)' => Alive(t) /\ th'[t].tool = th[t].tool
      BY <2>1 DEF vars, Alive
    <3>2. QED
      BY <3>1, OthersFollow
  <2>2. QED
    BY <2>1, RunFollows, PollFollows, UserFollows DEF Next
<1>3. QED
  BY <1>1, <1>2, PTL DEF Spec

\* "Polling stops when all threads on the server have completed", and not before:
\* whatever runs side by side and however many requests count at a time, the ones
\* that start a tool included, as long as no tool is started while it runs.
THEOREM PageSeesTheEnd == NotAgain => (Spec => []PageFollows)
<1>1. TypeInv /\ FollowInv => PageFollows
  <2> SUFFICES ASSUME TypeInv, FollowInv, NEW t \in Threads, Alive(t) PROVE ~Idle
    BY DEF PageFollows
  <2>1. PICK p \in Polls : WillRead(p)
    BY ThreadIsRead
  <2>2. QED
    BY <2>1 DEF WillRead, Idle, Free
<1>2. QED
  BY <1>1, Following, PTL

\* And no line is left in the current stream when it has stopped, but by a restart
\* that cut the page off.  (Lines in a stream that another tool has replaced may be
\* lost; of them this says nothing.)
THEOREM NothingIsLeftUntold == NotAgain => (Spec => []NothingUntold)
<1>1. TypeInv /\ FollowInv => NothingUntold
  BY DEF FollowInv, NothingUntold, WillRead, Idle, Free
<1>2. QED
  BY <1>1, Following, PTL

-----------------------------------------------------------------------------
\* The start time of a tool is that of its thread from start() on: it is set to 0
\* by a thread of the tool alone, and of these only one runs.
StartInv ==
  \A t \in Threads : th[t].pc \in {"open", "begin", "work", "end"} => time[th[t].tool] = t

LEMMA RunKeepsStart ==
  ASSUME TypeInv, FollowInv, StartInv, NEW t \in Threads, Run(t)
  PROVE  StartInv'
<1>1. /\ th \in [Threads -> ThreadState] /\ time \in [Tools -> Streams]
      /\ \A u \in Threads : Alive(u) => th[u].tool \in Tools /\ thread[th[u].tool] = u
  BY DEF TypeInv, TypeOK, Placed, FollowInv
<1>2. \A u \in Threads : th[u].pc \notin {"unborn", "dead", "crashed"} => Alive(u)
  BY ConstantsAssumption DEF Alive
<1>3. ASSUME NEW pc, NEW s,
             \/ th' = [th EXCEPT ![t].pc = pc]
             \/ th' = [th EXCEPT ![t].pc = pc, ![t].on = s],
             Alive(t),
             \/ UNCHANGED time /\ (pc \in {"begin", "work", "end"} =>
                                    th[t].pc \in {"open", "begin", "work", "end"})
             \/ time' = [time EXCEPT ![th[t].tool] = NoThread] /\ pc \notin {"open", "begin", "work", "end"},
             pc # "open"
      PROVE  StartInv'
  <2>1. /\ \A u \in Threads : th'[u].tool = th[u].tool
        /\ \A u \in Threads \ {t} : th'[u].pc = th[u].pc
        /\ th'[t].pc = pc
    <3>1. CASE th' = [th EXCEPT ![t].pc = pc]
      BY <1>1, <3>1 DEF ThreadState
    <3>2. CASE th' = [th EXCEPT ![t].pc = pc, ![t].on = s]
      BY <1>1, <3>2 DEF ThreadState
    <3>3. QED
      BY <1>3, <3>1, <3>2
  <2>2. \A u \in Threads \ {t} : Alive(u) => th[u].tool # th[t].tool
    BY <1>1, <1>3
  <2>3. ASSUME NEW u \in Threads \ {t}, th'[u].pc \in {"open", "begin", "work", "end"}
        PROVE  time'[th'[u].tool] = u
    BY <1>1, <1>2, <1>3, <2>1, <2>2, <2>3 DEF StartInv
  <2>4. ASSUME th'[t].pc \in {"open", "begin", "work", "end"}
        PROVE  time'[th'[t].tool] = t
    BY <1>3, <2>1, <2>4 DEF StartInv
  <2>5. QED
    BY <2>3, <2>4 DEF StartInv
<1>4. CASE Open(t)
  BY <1>2, <1>3, <1>4 DEF Open, Goes, Dies
<1>5. CASE Begin(t)
  BY <1>2, <1>3, <1>5 DEF Begin, Goes, Dies
<1>6. CASE Work(t)
  BY <1>2, <1>3, <1>6 DEF Work, Goes, Dies
<1>7. CASE End(t)
  BY <1>2, <1>3, <1>7 DEF End, Goes, Dies, Zero
<1>8. CASE Close(t)
  <2>1. CASE writer[stream] = "null"
    BY <1>2, <1>3, <1>8, <2>1 DEF Close, Closed, Goes, Zero
  <2>2. CASE writer[stream] = "closed"
    BY <1>2, <1>3, <1>8, <2>2 DEF Close, Dies, Goes
  <2>3. CASE writer[stream] = "open"
    BY <1>2, <1>3, <1>8, <2>3 DEF Close
  <2>4. QED
    BY <2>1, <2>2, <2>3 DEF TypeInv, TypeOK
<1>9. CASE SetNull(t)
  BY <1>2, <1>3, <1>9 DEF SetNull, Closed, Goes, Zero
<1>10. CASE Uncaught(t)
  BY <1>2, <1>3, <1>10 DEF Uncaught, Goes, client
<1>11. QED
  BY <1>4, <1>5, <1>6, <1>7, <1>8, <1>9, <1>10 DEF Run

LEMMA OthersKeepStart ==
  ASSUME TypeInv, FollowInv, StartInv, NotAgain,
         (\E p \in Polls : Poll(p)) \/ User \/ UNCHANGED vars
  PROVE  StartInv'
<1>1. CASE UNCHANGED <<th, time>>
  BY <1>1 DEF StartInv
<1>2. ASSUME NEW t \in Threads, NEW x \in Tools, NEW p \in Polls, Start(t, x, p)
      PROVE  StartInv'
  <2>1. /\ th'[t].tool = x
        /\ \A u \in Threads \ {t} : th'[u] = th[u]
        /\ time'[x] = t
        /\ \A y \in Tools \ {x} : time'[y] = time[y]
        /\ ~Alive(thread[x])
    BY <1>2 DEF Start, NotAgain, TypeInv, TypeOK
  <2>2. \A u \in Threads \ {t} : th[u].pc \in {"open", "begin", "work", "end"} => th[u].tool \in Tools \ {x}
    BY <2>1, ConstantsAssumption DEF FollowInv, TypeInv, Placed, Alive
  <2>3. QED
    BY <2>1, <2>2 DEF StartInv
<1>3. ASSUME NEW t \in Threads, NEW p \in Polls, NEW q \in Polls, ExtractApk(t, p, q)
      PROVE  StartInv'
  <2>1. th \in [Threads -> ThreadState] /\ th' = [th EXCEPT ![t].tool = "extract_apk", ![t].pc = "dead"]
    BY <1>3 DEF ExtractApk, TypeInv, TypeOK
  <2>2. \A u \in Threads \ {t} : th'[u] = th[u]
    BY <2>1
  <2>3. th'[t].pc = "dead"
    BY <2>1 DEF ThreadState
  <2>4. QED
    BY <1>3, <2>2, <2>3 DEF ExtractApk, StartInv
<1>4. ASSUME NEW x \in Tools, NEW p \in Polls, StopThread(x, p)
      PROVE  StartInv'
  BY <1>4, StopTypes, ConstantsAssumption DEF Alive, StartInv
<1>5. CASE ClearLog \/ DeletePackage \/ CreatePackage
  BY <1>1, <1>5 DEF ClearLog, DeletePackage, CreatePackage, threads
<1>6. CASE \E p \in Polls : Poll(p)
  BY <1>1, <1>6 DEF Poll, CountStarted, RaiseStarted, ReadFiles, ResetCount, Check, Bump, ReadTotal, Drain, Answer, threads
<1>7. QED
  BY <1>1, <1>2, <1>3, <1>4, <1>5, <1>6 DEF User, vars

\* A tool that works reports the time since its own start, whichever of its
\* predecessors is still closing its stream.
THEOREM OwnStart == NotAgain => (Spec => []KnowsItsStart)
<1> SUFFICES ASSUME NotAgain PROVE Spec => []KnowsItsStart
  OBVIOUS
<1>1. Init => StartInv
  BY DEF Init, StartInv
<1>2. TypeInv /\ FollowInv /\ StartInv /\ [Next]_vars => StartInv'
  BY RunKeepsStart, OthersKeepStart DEF Next
<1>3. StartInv => KnowsItsStart
  BY DEF StartInv, KnowsItsStart
<1>4. QED
  BY <1>1, <1>2, <1>3, Following, PTL DEF Spec

-----------------------------------------------------------------------------
(* One thing at a time: the user waits for the page, whose requests come    *)
(* one after the other.                                                     *)

InTurn == NotAgain /\ "impatient" \notin Env /\ \E p : Polls = {p}

\* One thread runs at most, and opens its stream when the one before is read, or after
\* the page was cut off and is owed nothing; lines are in a request only between the
\* reading and its answer.
AloneInv ==
  /\ \A t, u \in Threads : Alive(t) /\ Alive(u) => t = u
  /\ \A t \in Threads : th[t].pc = "open" =>
       \/ array[stream] = <<>>
       \/ cleared = puts /\ \A p \in Polls : poll[p].lines = <<>>
  /\ \A p \in Polls : poll[p].pc # "answer" => poll[p].lines = <<>>

\* Of the n lines put, those after the first c are on the page, in a request's hands or
\* waiting in the stream: numbered without a gap, the newest on top of the page and of
\* the request, at the end of the stream.
Told(waiting, fetched, top, n, c) ==
  LET old == n - Len(waiting)
      older == old - Len(fetched)
  IN  /\ \A i \in DOMAIN waiting : waiting[i].no = old + i
      /\ \A i \in DOMAIN fetched : fetched[i].no = old + 1 - i
      /\ older - c <= Len(top)
      /\ \A i \in 1..(older - c) : top[i].no = older + 1 - i

ToldInv == \A p \in Polls : Told(array[stream], poll[p].lines, page, puts, cleared)

\* A line is put, the lines are taken by a request, the page shows what it brings.
LEMMA ToldPut ==
  ASSUME NEW w \in Seq(Line), NEW f \in Seq(Line), NEW top \in Seq(Line), NEW n \in Nat, NEW c \in Nat,
         Told(w, f, top, n, c), NEW t \in Streams
  PROVE  Told(Append(w, [no |-> n + 1, by |-> t]), f, top, n + 1, c)
<1> DEFINE line == [no |-> n + 1, by |-> t]
           v == Append(w, line)
<1>1. line.no = n + 1
  OBVIOUS
<1> HIDE DEF line
<1>2. /\ Len(v) = Len(w) + 1 /\ DOMAIN v = 1..(Len(w) + 1) /\ DOMAIN w = 1..Len(w)
      /\ Len(w) \in Nat /\ Len(f) \in Nat
      /\ \A i \in 1..Len(w) : v[i] = w[i]
      /\ v[Len(w) + 1] = line
  OBVIOUS
<1> HIDE DEF v
<1>3. (n + 1) - Len(v) = n - Len(w)
  BY <1>2
<1>4. ASSUME NEW i \in DOMAIN v
      PROVE  v[i].no = n - Len(w) + i
  <2>1. CASE i \in 1..Len(w)
    <3>1. w[i].no = n - Len(w) + i
      BY <1>2, <2>1 DEF Told
    <3>2. QED
      BY <1>2, <2>1, <3>1
  <2>2. CASE i = Len(w) + 1
    BY <1>1, <1>2, <2>2
  <2>3. QED
    BY <1>2, <2>1, <2>2
<1>5. Told(v, f, top, n + 1, c)
  BY <1>3, <1>4 DEF Told
<1>6. QED
  BY <1>5 DEF v, line

LEMMA ToldFetch ==
  ASSUME NEW w \in Seq(Line), NEW top \in Seq(Line), NEW n \in Nat, NEW c \in Nat,
         Told(w, <<>>, top, n, c)
  PROVE  Told(<<>>, Newest(w), top, n, c)
<1>1. Len(w) \in Nat /\ DOMAIN w = 1..Len(w) /\ Len(<<>>) = 0 /\ DOMAIN <<>> = {}
  OBVIOUS
<1>2. Newest(w) \in Seq(Line) /\ DOMAIN Newest(w) = 1..Len(w)
  BY <1>1, NewestTypes DEF Newest
<1>3. Len(Newest(w)) = Len(w)
  BY <1>1, <1>2
<1>4. ASSUME NEW i \in 1..Len(w)
      PROVE  Newest(w)[i].no = n + 1 - i
  <2>1. Len(w) + 1 - i \in 1..Len(w) /\ Newest(w)[i] = w[Len(w) + 1 - i]
    BY <1>1 DEF Newest
  <2>2. w[Len(w) + 1 - i].no = n - Len(w) + (Len(w) + 1 - i)
    BY <1>1, <2>1 DEF Told
  <2>3. QED
    BY <1>1, <2>1, <2>2
<1>5. QED
  BY <1>1, <1>2, <1>3, <1>4 DEF Told

LEMMA ToldShown ==
  ASSUME NEW w \in Seq(Line), NEW f \in Seq(Line), NEW top \in Seq(Line), NEW n \in Nat, NEW c \in Nat,
         Told(w, f, top, n, c)
  PROVE  Told(w, <<>>, f \o top, n, c)
<1> DEFINE old == n - Len(w)
<1>1. /\ Len(f) \in Nat /\ DOMAIN f = 1..Len(f) /\ Len(w) \in Nat /\ Len(top) \in Nat
      /\ Len(<<>>) = 0 /\ DOMAIN <<>> = {}
      /\ Len(f \o top) = Len(f) + Len(top)
      /\ \A i \in 1..Len(f) : (f \o top)[i] = f[i]
      /\ \A i \in (Len(f) + 1)..(Len(f) + Len(top)) : (f \o top)[i] = top[i - Len(f)]
  OBVIOUS
<1>a. Len(f) \in Nat /\ Len(w) \in Nat /\ DOMAIN f = 1..Len(f)
  OBVIOUS
<1>b. \A i \in DOMAIN f : f[i].no = n - Len(w) + 1 - i
  BY DEF Told
<1>2. ASSUME NEW i \in 1..(old - c)
      PROVE  (f \o top)[i].no = old + 1 - i
  <2>0. i \in Nat /\ 1 <= i /\ i <= old - c
    BY <1>a
  <2>1. CASE i <= Len(f)
    <3>1. f[i].no = old + 1 - i
      <4>1. i \in DOMAIN f
        BY <1>a, <2>0, <2>1
      <4>2. QED
        BY <1>b, <4>1
    <3>2. QED
      BY <1>1, <2>0, <2>1, <3>1
  <2>2. CASE i > Len(f)
    <3>1. i - Len(f) \in 1..(old - Len(f) - c) /\ old - Len(f) - c <= Len(top)
      BY <1>1, <2>2 DEF Told
    <3>2. top[i - Len(f)].no = old - Len(f) + 1 - (i - Len(f))
      BY <3>1 DEF Told
    <3>3. i \in (Len(f) + 1)..(Len(f) + Len(top))
      BY <1>1, <2>2, <3>1
    <3>4. QED
      BY <1>1, <3>2, <3>3
  <2>3. i <= Len(f) \/ i > Len(f)
    BY <1>a, <2>0
  <2>4. QED
    BY <2>1, <2>2, <2>3, Zenon
<1>3. QED
  BY <1>1, <1>2 DEF Told

\* And where it begins.
LEMMA ToldFresh ==
  ASSUME NEW top \in Seq(Line), NEW n \in Nat, NEW t \in Streams
  PROVE  /\ Told(<<[no |-> n + 1, by |-> t]>>, <<>>, top, n + 1, n)
         /\ Told(<<>>, <<>>, top, n, n)
BY DEF Told

-----------------------------------------------------------------------------
\* What a step of a thread may do to the others and to the lines.
LEMMA RunSteps ==
  ASSUME TypeInv, NEW t \in Threads, Run(t)
  PROVE  /\ Alive(t)
         /\ \A u \in Threads \ {t} : th'[u] = th[u]
         /\ th'[t].tool = th[t].tool /\ th'[t].pc # "open"
         /\ UNCHANGED <<poll, page, cleared, cutOff>>
         /\ \/ Put(t) /\ stream' = stream
            \/ UNCHANGED <<array, puts>> /\ stream' = stream
            \/ th[t].pc = "open" /\ puts' = puts /\ stream' = t /\ array' = [array EXCEPT ![t] = <<>>]
<1> USE DEF client, files
<1>1. th[t].pc \notin {"unborn", "dead", "crashed"}
  BY DEF Run, Open, Begin, Work, End, Close, SetNull, Uncaught
<1>2. Alive(t)
  BY <1>1, ConstantsAssumption DEF Alive
<1>3. ASSUME NEW pc, NEW s, pc # "open",
             \/ th' = [th EXCEPT ![t].pc = pc]
             \/ th' = [th EXCEPT ![t].pc = pc, ![t].on = s]
      PROVE  /\ \A u \in Threads \ {t} : th'[u] = th[u]
             /\ th'[t].tool = th[t].tool /\ th'[t].pc # "open"
  BY <1>3 DEF TypeInv, TypeOK, ThreadState
<1>4. /\ \A u \in Threads \ {t} : th'[u] = th[u]
      /\ th'[t].tool = th[t].tool /\ th'[t].pc # "open"
  <2>1. CASE Open(t) \/ Begin(t) \/ Work(t)
    BY <1>3, <2>1 DEF Open, Begin, Work, Goes, Dies
  <2>2. CASE End(t) \/ Uncaught(t)
    BY <1>3, <2>2 DEF End, Uncaught, Goes, Dies
  <2>3. CASE Close(t)
    <3>1. writer[stream] \in {"open", "closed", "null"}
      BY DEF TypeInv, TypeOK
    <3>2. QED
      BY <1>3, <2>3, <3>1 DEF Close, Closed, Goes, Dies
  <2>4. CASE SetNull(t)
    BY <1>3, <2>4 DEF SetNull, Closed, Goes
  <2>5. QED
    BY <2>1, <2>2, <2>3, <2>4 DEF Run
<1>5. UNCHANGED <<poll, page, cleared, cutOff>>
  BY DEF Run, Open, Begin, Work, End, Close, SetNull, Uncaught
<1>6. \/ Put(t) /\ stream' = stream
      \/ UNCHANGED <<array, puts>> /\ stream' = stream
      \/ th[t].pc = "open" /\ puts' = puts /\ stream' = t /\ array' = [array EXCEPT ![t] = <<>>]
  BY DEF Run, Open, Begin, Work, End, Close, SetNull, Uncaught, PutThrows
<1>7. QED
  BY <1>2, <1>4, <1>5, <1>6

\* A request's step, by what becomes of the lines.
LEMMA PollSteps ==
  ASSUME TypeInv, AloneInv, NEW p \in Polls, Poll(p)
  PROVE  /\ \A q \in Polls \ {p} : poll'[q] = poll[q]
         /\ UNCHANGED <<files, stream, writer, printed, puts, thread, time, th, cleared, cutOff>>
         /\ poll'[p].pc # "answer" => poll'[p].lines = <<>>
         /\ \/ UNCHANGED <<array, page>> /\ poll'[p].lines = poll[p].lines
            \/ /\ array' = [array EXCEPT ![stream] = <<>>] /\ page' = page
               /\ poll[p].lines = <<>> /\ poll'[p].lines = Newest(array[stream])
            \/ /\ array' = array /\ page' = poll[p].lines \o page
               /\ poll'[p].lines = <<>>
<1> USE DEF streams, threads
<1>1. poll[p] \in PollState /\ poll \in [Polls -> PollState]
  BY DEF TypeInv, TypeOK
<1>2. /\ \A q \in Polls \ {p} : poll'[q] = poll[q]
      /\ UNCHANGED <<files, stream, writer, printed, puts, thread, time, th, cleared, cutOff>>
  BY <1>1 DEF Poll, CountStarted, RaiseStarted, ReadFiles, ResetCount, Check, Bump, ReadTotal, Drain, Answer, ToPoll
<1>a. CASE CountStarted(p) \/ RaiseStarted(p)
  <2>1. poll'[p] = Asking \/ poll'[p] = [poll[p] EXCEPT !.pc = "raise", !.tmp = active]
    BY <1>1, <1>a DEF CountStarted, RaiseStarted, ToPoll
  <2>2. poll[p].pc # "answer" /\ UNCHANGED <<array, page>>
    BY <1>a DEF CountStarted, RaiseStarted
  <2>3. poll[p].lines = <<>> /\ Asking.lines = <<>>
    BY <2>2 DEF AloneInv, Asking, Off
  <2>4. poll'[p].lines = <<>> /\ poll'[p].pc # "answer"
    BY <1>1, <2>1, <2>3, AskingTypes DEF PollState
  <2>5. QED
    BY <1>2, <2>2, <2>3, <2>4
<1>3. CASE ReadFiles(p) \/ ResetCount(p) \/ ReadTotal(p)
  <2>1. /\ poll'[p].lines = poll[p].lines /\ poll'[p].pc # "answer" /\ poll[p].pc # "answer"
        /\ UNCHANGED <<array, page>>
    <3>1. CASE ReadFiles(p)
      BY <1>1, <3>1 DEF ReadFiles, ToPoll, PollState
    <3>2. CASE ResetCount(p)
      BY <1>1, <3>2 DEF ResetCount, ToPoll, PollState
    <3>3. CASE ReadTotal(p)
      BY <1>1, <3>3 DEF ReadTotal, ToPoll, PollState
    <3>4. QED
      BY <1>3, <3>1, <3>2, <3>3
  <2>2. QED
    BY <1>2, <2>1 DEF AloneInv
<1>4. CASE Check(p) \/ Bump(p)
  <2> DEFINE bump == [poll[p] EXCEPT !.pc = "bump", !.tmp = active]
  <2>1. bump.lines = poll[p].lines /\ bump.pc # "answer"
    BY <1>1 DEF PollState
  <2> HIDE DEF bump
  <2>2. \A i, status : LET d == Advance(poll[p], i, status)
                       IN  d.lines = poll[p].lines /\ d.pc # "answer"
    BY <1>1 DEF Advance, PollState
  <2>3. /\ ToPoll(p, bump) \/ \E i, status : ToPoll(p, Advance(poll[p], i, status))
        /\ poll[p].pc # "answer" /\ UNCHANGED <<array, page>>
    BY <1>4 DEF Check, Bump, bump
  <2>4. poll'[p].lines = poll[p].lines /\ poll'[p].pc # "answer"
    BY <1>1, <2>1, <2>2, <2>3 DEF ToPoll
  <2>5. QED
    BY <1>2, <2>3, <2>4 DEF AloneInv
<1>5. CASE Drain(p)
  <2>1. /\ poll'[p].lines = Newest(array[stream]) /\ poll'[p].pc = "answer" /\ poll[p].pc = "drain"
        /\ array' = [array EXCEPT ![stream] = <<>>] /\ page' = page
    BY <1>1, <1>5 DEF Drain, ToPoll, PollState
  <2>2. QED
    BY <1>2, <2>1 DEF AloneInv
<1>6. CASE Answer(p)
  <2>1. Asking.lines = <<>> /\ Off.lines = <<>>
    BY DEF Asking, Off
  <2>2. poll'[p] \in {Asking, Off} /\ array' = array /\ page' = poll[p].lines \o page
    BY <1>1, <1>6 DEF Answer, ToPoll
  <2>3. QED
    BY <1>2, <2>1, <2>2, AskingTypes
<1>7. QED
  BY <1>a, <1>3, <1>4, <1>5, <1>6 DEF Poll

\* A line that is put is Told's next.
LEMMA PutTells ==
  ASSUME TypeInv, ToldInv, NEW t \in Streams, Put(t), UNCHANGED <<stream, poll, page, cleared>>
  PROVE  ToldInv'
<1>1. /\ array'[stream] = Append(array[stream], [no |-> puts + 1, by |-> t])
      /\ puts' = puts + 1
  BY DEF Put, TypeInv, TypeOK
<1>2. ASSUME NEW p \in Polls
      PROVE  Told(array'[stream'], poll'[p].lines, page', puts', cleared')
  <2>1. /\ array[stream] \in Seq(Line) /\ poll[p].lines \in Seq(Line) /\ page \in Seq(Line)
        /\ puts \in Nat /\ cleared \in Nat
    BY DEF TypeInv, TypeOK, PollState
  <2>2. Told(array[stream], poll[p].lines, page, puts, cleared)
    BY DEF ToldInv
  <2>3. QED
    BY <1>1, <2>1, <2>2, ToldPut
<1>3. QED
  BY <1>2 DEF ToldInv, Told

LEMMA RunTells ==
  ASSUME TypeInv, AloneInv, ToldInv, NEW t \in Threads, Run(t)
  PROVE  AloneInv' /\ ToldInv'
<1>1. /\ Alive(t)
      /\ \A u \in Threads \ {t} : th'[u] = th[u]
      /\ th'[t].tool = th[t].tool /\ th'[t].pc # "open"
      /\ UNCHANGED <<poll, page, cleared, cutOff>>
      /\ \/ Put(t) /\ stream' = stream
         \/ UNCHANGED <<array, puts>> /\ stream' = stream
         \/ th[t].pc = "open" /\ puts' = puts /\ stream' = t /\ array' = [array EXCEPT ![t] = <<>>]
  BY RunSteps
<1>2. \A u \in Threads \ {t} : ~Alive(u) /\ ~Alive(u)'
  BY <1>1 DEF AloneInv, Alive
<1>3. \A u \in Threads \ {t} : th'[u].pc # "open"
  BY <1>1, <1>2, ConstantsAssumption DEF Alive
<1>4. AloneInv'
  BY <1>1, <1>2, <1>3 DEF AloneInv
<1>5. CASE Put(t) /\ stream' = stream
  BY <1>1, <1>4, <1>5, PutTells DEF Streams
<1>6. CASE UNCHANGED <<array, puts>> /\ stream' = stream
  BY <1>1, <1>4, <1>6 DEF ToldInv, Told
<1>7. CASE th[t].pc = "open" /\ puts' = puts /\ stream' = t /\ array' = [array EXCEPT ![t] = <<>>]
  <2>1. array'[stream'] = <<>>
    BY <1>7 DEF Streams, TypeInv, TypeOK
  <2>2. CASE array[stream] = <<>>
    BY <1>1, <1>4, <1>7, <2>1, <2>2 DEF ToldInv, Told
  <2>3. CASE cleared = puts /\ \A p \in Polls : poll[p].lines = <<>>
    <3>1. page \in Seq(Line) /\ puts \in Nat /\ t \in Streams
      BY DEF TypeInv, TypeOK, Streams
    <3>2. Told(<<>>, <<>>, page, puts, puts)
      BY <3>1, ToldFresh
    <3>3. QED
      BY <1>1, <1>4, <1>7, <2>1, <2>3, <3>2 DEF ToldInv, Told
  <2>4. QED
    BY <1>7, <2>2, <2>3 DEF AloneInv
<1>8. QED
  BY <1>1, <1>4, <1>5, <1>6, <1>7

LEMMA PollTells ==
  ASSUME TypeInv, AloneInv, ToldInv, InTurn, NEW p \in Polls, Poll(p)
  PROVE  AloneInv' /\ ToldInv'
<1>1. /\ \A q \in Polls \ {p} : poll'[q] = poll[q]
      /\ UNCHANGED <<files, stream, writer, printed, puts, thread, time, th, cleared, cutOff>>
      /\ poll'[p].pc # "answer" => poll'[p].lines = <<>>
      /\ \/ UNCHANGED <<array, page>> /\ poll'[p].lines = poll[p].lines
         \/ /\ array' = [array EXCEPT ![stream] = <<>>] /\ page' = page
            /\ poll[p].lines = <<>> /\ poll'[p].lines = Newest(array[stream])
         \/ /\ array' = array /\ page' = poll[p].lines \o page
            /\ poll'[p].lines = <<>>
  BY PollSteps
<1>2. array'[stream'] = array[stream] \/ array'[stream'] = <<>>
  BY <1>1 DEF TypeInv, TypeOK
<1>3. AloneInv'
  <2>1. \A u \in Threads : Alive(u)' <=> Alive(u)
    BY <1>1 DEF Alive
  <2>2. \A u \in Threads : th'[u].pc = "open" =>
          \/ array'[stream'] = <<>>
          \/ cleared' = puts' /\ \A q \in Polls : poll'[q].lines = <<>>
    <3>1. SUFFICES ASSUME NEW u \in Threads, th'[u].pc = "open", array'[stream'] # <<>>
                   PROVE  cleared' = puts' /\ \A q \in Polls : poll'[q].lines = <<>>
      OBVIOUS
    <3>2. array[stream] # <<>> /\ array'[stream'] = array[stream]
      BY <1>2, <3>1
    <3>3. cleared = puts /\ \A q \in Polls : poll[q].lines = <<>>
      BY <1>1, <3>1, <3>2 DEF AloneInv
    <3>4. poll'[p].lines = <<>>
      BY <1>1, <3>1, <3>3 DEF TypeInv, TypeOK
    <3>5. QED
      BY <1>1, <3>3, <3>4
  <2>3. \A q \in Polls : poll'[q].pc # "answer" => poll'[q].lines = <<>>
    BY <1>1 DEF AloneInv
  <2>4. QED
    BY <2>1, <2>2, <2>3 DEF AloneInv
<1>4. Polls = {p}
  BY DEF InTurn
<1>5. /\ array[stream] \in Seq(Line) /\ poll[p].lines \in Seq(Line) /\ page \in Seq(Line)
      /\ puts \in Nat /\ cleared \in Nat
  BY DEF TypeInv, TypeOK, PollState
<1>6. Told(array[stream], poll[p].lines, page, puts, cleared)
  BY DEF ToldInv
<1>7. Told(array'[stream'], poll'[p].lines, page', puts', cleared')
  <2>1. CASE UNCHANGED <<array, page>> /\ poll'[p].lines = poll[p].lines
    BY <1>1, <1>6, <2>1
  <2>2. CASE /\ array' = [array EXCEPT ![stream] = <<>>] /\ page' = page
             /\ poll[p].lines = <<>> /\ poll'[p].lines = Newest(array[stream])
    <3>1. array'[stream'] = <<>>
      BY <1>1, <2>2 DEF TypeInv, TypeOK
    <3>2. Told(<<>>, Newest(array[stream]), page, puts, cleared)
      BY <1>5, <1>6, <2>2, ToldFetch
    <3>3. QED
      BY <1>1, <2>2, <3>1, <3>2
  <2>3. CASE /\ array' = array /\ page' = poll[p].lines \o page
             /\ poll'[p].lines = <<>>
    <3>1. Told(array[stream], <<>>, poll[p].lines \o page, puts, cleared)
      BY <1>5, <1>6, ToldShown
    <3>2. QED
      BY <1>1, <2>3, <3>1
  <2>4. QED
    BY <1>1, <2>1, <2>2, <2>3
<1>8. ToldInv'
  BY <1>4, <1>7 DEF ToldInv, Told
<1>9. QED
  BY <1>3, <1>8

\* When the page is idle nothing runs and nothing waits: that is when the user acts.
LEMMA IdleIsQuiet ==
  ASSUME TypeInv, FollowInv, AloneInv, Idle
  PROVE  /\ \A t \in Threads : ~Alive(t)
         /\ array[stream] = <<>> \/ cutOff
         /\ \A p \in Polls : poll[p].lines = <<>>
BY ThreadIsRead DEF WillRead, Idle, Free, FollowInv, AloneInv

LEMMA UserTells ==
  ASSUME TypeInv, FollowInv, AloneInv, ToldInv, InTurn, User
  PROVE  AloneInv' /\ ToldInv'
<1>t. Asking.lines = <<>> /\ Off.lines = <<>>
  BY DEF Asking, Off
<1>1. ASSUME NEW t \in Threads, NEW x \in Tools, NEW p \in Polls, Start(t, x, p)
      PROVE  AloneInv' /\ ToldInv'
  <2>1. /\ \A u \in Threads : ~Alive(u)
        /\ array[stream] = <<>> \/ cutOff
        /\ \A q \in Polls : poll[q].lines = <<>>
    BY <1>1, IdleIsQuiet DEF Start, Ready, InTurn
  <2>2. /\ \A u \in Threads \ {t} : th'[u] = th[u]
        /\ \A q \in Polls : poll'[q] = IF q # p THEN poll[q]
                                        ELSE IF x \in Counts THEN Starting(x) ELSE Asking
        /\ UNCHANGED <<array, stream, page, puts>>
        /\ cleared' = IF cutOff THEN puts ELSE cleared
    BY <1>1 DEF Start, ToPoll, streams, TypeInv, TypeOK
  <2>3. \A u \in Threads : Alive(u)' => u = t
    BY <2>1, <2>2 DEF Alive
  <2>4. \A q \in Polls : poll'[q].lines = <<>>
    BY <1>t, <2>1, <2>2, StartingTypes
  <2>5. AloneInv'
    BY <2>1, <2>2, <2>3, <2>4 DEF AloneInv
  <2>6. ToldInv'
    <3>1. CASE ~cutOff
      BY <2>1, <2>2, <2>4, <3>1 DEF ToldInv, Told
    <3>2. CASE cutOff
      <4>1. SUFFICES ASSUME NEW q \in Polls
                     PROVE  Told(array'[stream'], poll'[q].lines, page', puts', cleared')
        BY DEF ToldInv, Told
      <4>2. Told(array[stream], <<>>, page, puts, cleared)
        BY <2>1 DEF ToldInv
      <4>3. /\ array[stream] \in Seq(Line) /\ page \in Seq(Line) /\ puts \in Nat /\ cleared \in 0..puts
            /\ Len(array[stream]) \in Nat /\ Len(page) \in Nat /\ Len(<<>>) = 0
        BY DEF TypeInv, TypeOK
      <4>4. Told(array[stream], <<>>, page, puts, puts)
        BY <4>2, <4>3 DEF Told
      <4>5. QED
        BY <2>2, <2>4, <3>2, <4>4
    <3>3. QED
      BY <3>1, <3>2
  <2>7. QED
    BY <2>5, <2>6
<1>2. ASSUME NEW t \in Threads, NEW p \in Polls, NEW q \in Polls, ExtractApk(t, p, q)
      PROVE  AloneInv' /\ ToldInv'
  BY <1>2 DEF ExtractApk, InTurn
<1>3. ASSUME NEW x \in Tools, NEW p \in Polls, StopThread(x, p)
      PROVE  AloneInv' /\ ToldInv'
  <2>1. /\ \A u \in Threads : ~Alive(u)'
        /\ \A q \in Polls : poll'[q].lines = <<>>
        /\ page' = page /\ puts' = puts + 1 /\ cleared' = puts /\ stream' = NoThread
        /\ array'[NoThread] = <<[no |-> puts + 1, by |-> NoThread]>>
    BY <1>3, <1>t, StopTypes DEF StopThread, FreshStreams, Streams
  <2>2. \A u \in Threads : th'[u].pc # "open"
    BY <2>1, ConstantsAssumption DEF Alive
  <2>3. page \in Seq(Line) /\ puts \in Nat /\ NoThread \in Streams
    BY DEF TypeInv, TypeOK, Streams
  <2>4. Told(<<[no |-> puts + 1, by |-> NoThread]>>, <<>>, page, puts + 1, puts)
    BY <2>3, ToldFresh
  <2>5. ToldInv'
    BY <2>1, <2>4 DEF ToldInv, Told
  <2>6. QED
    BY <2>1, <2>2, <2>5 DEF AloneInv
<1>4. CASE ClearLog
  <2>1. \A p \in Polls : poll[p].lines = <<>>
    BY <1>4, IdleIsQuiet DEF ClearLog, Ready, InTurn
  <2>2. /\ array'[stream'] = <<>> /\ page' = <<>> /\ cleared' = puts
        /\ UNCHANGED <<poll, th, puts>>
    BY <1>4 DEF ClearLog, threads, TypeInv, TypeOK
  <2>3. <<>> \in Seq(Line) /\ puts \in Nat /\ NoThread \in Streams
    BY DEF TypeInv, TypeOK, Streams
  <2>4. Told(<<>>, <<>>, <<>>, puts, puts)
    BY <2>3, ToldFresh
  <2>5. QED
    BY <2>1, <2>2, <2>4 DEF AloneInv, ToldInv, Told, Alive
<1>5. CASE DeletePackage \/ CreatePackage
  <2>1. UNCHANGED <<stream, array, puts, th, poll, page, cleared>>
    BY <1>5 DEF DeletePackage, CreatePackage, streams, threads, client
  <2>2. QED
    BY <2>1 DEF AloneInv, ToldInv, Told, Alive
<1>6. QED
  BY <1>1, <1>2, <1>3, <1>4, <1>5 DEF User

LEMMA Telling == InTurn => (Spec => [](TypeInv /\ FollowInv /\ AloneInv /\ ToldInv))
<1> SUFFICES ASSUME InTurn PROVE Spec => [](TypeInv /\ FollowInv /\ AloneInv /\ ToldInv)
  OBVIOUS
<1>1. Init => AloneInv /\ ToldInv
  <2> SUFFICES ASSUME Init PROVE AloneInv /\ ToldInv
    OBVIOUS
  <2>1. Asking.lines = <<>> /\ Off.lines = <<>>
    BY DEF Asking, Off
  <2>2. /\ \A t \in Threads : ~Alive(t) /\ th[t].pc # "open"
        /\ \A p \in Polls : poll[p].lines = <<>>
        /\ array[stream] = <<[no |-> 1, by |-> NoThread]>> /\ page = <<>> /\ puts = 1 /\ cleared = 0
    BY <2>1 DEF Init, Alive, Streams
  <2>3. <<>> \in Seq(Line) /\ 0 \in Nat /\ NoThread \in Streams
    BY DEF Streams
  <2>4. Told(<<[no |-> 0 + 1, by |-> NoThread]>>, <<>>, <<>>, 0 + 1, 0)
    BY <2>3, ToldFresh
  <2>5. 0 + 1 = 1
    OBVIOUS
  <2>6. QED
    BY <2>2, <2>4, <2>5 DEF AloneInv, ToldInv
<1>2. TypeInv /\ FollowInv /\ AloneInv /\ ToldInv /\ [Next]_vars => (AloneInv /\ ToldInv)'
  <2> SUFFICES ASSUME TypeInv, FollowInv, AloneInv, ToldInv, [Next]_vars PROVE (AloneInv /\ ToldInv)'
    OBVIOUS
  <2>1. CASE UNCHANGED vars
    BY <2>1 DEF vars, AloneInv, ToldInv, Told, Alive
  <2>2. QED
    BY <2>1, RunTells, PollTells, UserTells DEF Next
<1>3. NotAgain
  BY DEF InTurn
<1>4. QED
  BY <1>1, <1>2, <1>3, Following, PTL DEF Spec

\* When the user waits for the page and its requests come one at a time, then whenever
\* polling has stopped every line put since the last clear or restart is on the page,
\* the newest on top and none missing, through however many streams the tools put them,
\* but for a page that a restart has cut off, until it starts something again.
THEOREM LogIsOnTop == InTurn => (Spec => []WholeLogOnTop)
<1> SUFFICES ASSUME InTurn PROVE Spec => []WholeLogOnTop
  OBVIOUS
<1>1. ASSUME TypeInv, FollowInv, AloneInv, ToldInv
      PROVE  WholeLogOnTop
  <2>1. SUFFICES ASSUME Idle, ~cutOff
                 PROVE  /\ Len(page) >= puts - cleared
                        /\ \A i \in 1..(puts - cleared) : page[i].no = puts + 1 - i
    BY DEF WholeLogOnTop
  <2>2. PICK p \in Polls : TRUE
    BY DEF InTurn
  <2>3. Told(<<>>, <<>>, page, puts, cleared)
    BY <1>1, <2>1, <2>2, IdleIsQuiet DEF ToldInv
  <2>4. Len(<<>>) = 0 /\ puts \in Nat /\ cleared \in Nat /\ Len(page) \in Nat
    BY <1>1 DEF TypeInv, TypeOK
  <2>5. QED
    BY <2>3, <2>4 DEF Told
<1>2. QED
  BY <1>1, Telling, PTL
-----------------------------------------------------------------------------
(* What a tool's log file says.                                            *)

\* The numbers of a file's lines grow, up to n.
Grows(file, n) ==
  /\ \A i \in DOMAIN file : file[i].no <= n
  /\ \A i, j \in DOMAIN file : i < j => file[i].no < file[j].no

\* A tool's log file is of runs of the tool that have closed it.
FileInv(x) ==
  /\ Grows(log[x], puts)
  /\ \A i \in DOMAIN log[x] :
       LET a == log[x][i].by
       IN  a \in Threads /\ th[a].tool = x /\ th[a].pc \in {"null", "dead", "crashed"}

\* The current stream is the thread's own, and has n lines for the tool's log, all
\* its own and to come after what is there.
Writes(t, n) ==
  /\ stream = t /\ writer[t] = "open" /\ Len(printed[t]) = n
  /\ \A i \in DOMAIN printed[t] : printed[t][i].by = t
  /\ Grows(log[th[t].tool] \o printed[t], puts)

\* Where the log of a thread that has one is at each step of run().
LogIsAt(t, pc) ==
  /\ pc = "begin" => Writes(t, 0)
  /\ pc = "work"  => Writes(t, 1)
  /\ pc = "end"   => Writes(t, 2)
  /\ pc = "close" => Writes(t, 3)
  /\ pc = "null"  => th[t].on = t /\ writer[t] = "closed" /\ HasLines(log[th[t].tool], t)
  /\ pc = "dead"  => writer[t] = "null" /\ HasLines(log[th[t].tool], t)

\* A thread that found no folder, or whose log was deleted since, has none, and then
\* no other thread has one either: what it closes comes to no file.
ThreadInv(t) ==
  /\ th[t].pc \in {"unborn", "open"} => writer[t] = "null" /\ printed[t] = <<>> /\ t \notin linked
  /\ th[t].pc \in {"open", "close", "null"} => th[t].tool \in Opens
  /\ th[t].tool \in Opens /\ th[t].pc \in {"begin", "work", "end", "close", "null"} =>
       t \in linked \/ linked = {}
  /\ t \in linked => th[t].tool \in Opens /\ LogIsAt(t, th[t].pc)

LogInv ==
  /\ "folder" \notin exists => linked = {}
  /\ \A x \in Opens : FileInv(x)
  /\ \A t \in Threads : ThreadInv(t)

LEMMA GrowsPut ==
  ASSUME NEW f \in Seq(Line), NEW n \in Nat, Grows(f, n), NEW l \in Line, l.no = n + 1
  PROVE  Grows(Append(f, l), n + 1)
<1>a. \A k \in Line : k.no \in Nat
  BY DEF Line
<1>b. /\ DOMAIN Append(f, l) = 1..(Len(f) + 1) /\ DOMAIN f = 1..Len(f) /\ Len(f) \in Nat
      /\ \A i \in 1..Len(f) : Append(f, l)[i] = f[i] /\ f[i] \in Line
      /\ Append(f, l)[Len(f) + 1] = l
  OBVIOUS
<1>1. /\ DOMAIN Append(f, l) = 1..(Len(f) + 1) /\ DOMAIN f = 1..Len(f) /\ Len(f) \in Nat
      /\ \A i \in 1..Len(f) : Append(f, l)[i] = f[i] /\ f[i].no \in Nat
      /\ Append(f, l)[Len(f) + 1] = l
  BY <1>a, <1>b
<1>2. \A i \in 1..Len(f) : f[i].no <= n
  BY <1>1 DEF Grows
<1>3. \A i, j \in 1..Len(f) : i < j => f[i].no < f[j].no
  BY <1>1 DEF Grows
<1>4. ASSUME NEW i \in DOMAIN Append(f, l)
      PROVE  Append(f, l)[i].no <= n + 1
  BY <1>1, <1>2
<1>5. ASSUME NEW i \in DOMAIN Append(f, l), NEW j \in DOMAIN Append(f, l), i < j
      PROVE  Append(f, l)[i].no < Append(f, l)[j].no
  <2>1. i \in 1..Len(f)
    BY <1>1, <1>5
  <2>2. CASE j \in 1..Len(f)
    BY <1>1, <1>3, <1>5, <2>1, <2>2
  <2>3. CASE j = Len(f) + 1
    BY <1>1, <1>2, <2>1, <2>3
  <2>4. QED
    BY <1>1, <2>2, <2>3
<1>6. QED
  BY <1>4, <1>5 DEF Grows

LEMMA GrowsOn ==
  ASSUME NEW f \in Seq(Line), NEW n \in Nat, NEW m \in Nat, Grows(f, n), n <= m
  PROVE  Grows(f, m)
<1>a. \A k \in Line : k.no \in Nat
  BY DEF Line
<1>b. \A i \in DOMAIN f : f[i] \in Line
  OBVIOUS
<1>1. \A i \in DOMAIN f : f[i].no \in Nat
  BY <1>a, <1>b
<1>2. \A i \in DOMAIN f : f[i].no <= m
  BY <1>1 DEF Grows
<1>3. QED
  BY <1>2 DEF Grows

\* A thread's three lines at the end of the file, and other threads' after them.
LEMMA JoinLines ==
  ASSUME NEW f \in Seq(Line), NEW w \in Seq(Line), NEW t
  PROVE  /\ Len(w) = 3 /\ (\A i \in DOMAIN w : w[i].by = t) /\ (\A i \in DOMAIN f : f[i].by # t)
              => HasLines(f \o w, t)
         /\ HasLines(f, t) /\ (\A i \in DOMAIN w : w[i].by # t) => HasLines(f \o w, t)
<1>1. /\ DOMAIN (f \o w) = 1..(Len(f) + Len(w)) /\ DOMAIN f = 1..Len(f) /\ DOMAIN w = 1..Len(w)
      /\ Len(f) \in Nat /\ Len(w) \in Nat
      /\ \A i \in 1..Len(f) : (f \o w)[i] = f[i]
      /\ \A i \in (Len(f) + 1)..(Len(f) + Len(w)) : (f \o w)[i] = w[i - Len(f)] /\ i - Len(f) \in 1..Len(w)
  OBVIOUS
<1>2. ASSUME Len(w) = 3, \A i \in DOMAIN w : w[i].by = t, \A i \in DOMAIN f : f[i].by # t
      PROVE  HasLines(f \o w, t)
  <2>1. Len(f) + 1 \in DOMAIN (f \o w) /\ Len(f) + 1 + 2 \in DOMAIN (f \o w)
    BY <1>1, <1>2
  <2>2. ASSUME NEW i \in DOMAIN (f \o w)
        PROVE  (f \o w)[i].by = t <=> i \in (Len(f) + 1)..(Len(f) + 1 + 2)
    <3>1. CASE i \in 1..Len(f)
      BY <1>1, <1>2, <3>1
    <3>2. CASE i \in (Len(f) + 1)..(Len(f) + Len(w))
      BY <1>1, <1>2, <3>2
    <3>3. QED
      BY <1>1, <3>1, <3>2
  <2>3. QED
    BY <2>1, <2>2 DEF HasLines
<1>3. ASSUME HasLines(f, t), \A i \in DOMAIN w : w[i].by # t
      PROVE  HasLines(f \o w, t)
  <2>1. PICK from \in DOMAIN f : /\ from + 2 \in DOMAIN f
                                 /\ \A i \in DOMAIN f : f[i].by = t <=> i \in from..(from + 2)
    BY <1>3 DEF HasLines
  <2>2. from \in DOMAIN (f \o w) /\ from + 2 \in DOMAIN (f \o w)
    BY <1>1, <2>1
  <2>3. ASSUME NEW i \in DOMAIN (f \o w)
        PROVE  (f \o w)[i].by = t <=> i \in from..(from + 2)
    <3>1. CASE i \in 1..Len(f)
      BY <1>1, <2>1, <3>1
    <3>2. CASE i \in (Len(f) + 1)..(Len(f) + Len(w))
      BY <1>1, <1>3, <2>1, <3>2
    <3>3. QED
      BY <1>1, <3>1, <3>2
  <2>4. QED
    BY <2>2, <2>3 DEF HasLines
<1>4. QED
  BY <1>2, <1>3

\* What a line does: a writer that is null gets none, and the thread's own is one longer.
LEMMA PutWrites ==
  ASSUME TypeInv, NEW t \in Threads, Put(t)
  PROVE  /\ \A u \in Streams : writer[u] = "null" => printed'[u] = printed[u]
         /\ \A n \in {0, 1, 2} :
              /\ Writes(t, n) /\ th[t].tool \in Opens
              /\ UNCHANGED <<writer, stream, log>> /\ th'[t].tool = th[t].tool
              => Writes(t, n + 1)'
<1>1. /\ printed \in [Streams -> Seq(Line)] /\ stream \in Streams /\ t \in Streams
      /\ puts \in Nat /\ log \in [Opens -> Seq(Line)]
  BY DEF TypeInv, TypeOK, Streams
<1> DEFINE line == [no |-> puts + 1, by |-> t]
<1>2. /\ printed' = IF writer[stream] = "open"
                    THEN [printed EXCEPT ![stream] = Append(@, line)] ELSE printed
      /\ puts' = puts + 1
  BY DEF Put
<1>3. line \in Line /\ line.no = puts + 1 /\ line.by = t
  BY <1>1 DEF Line
<1> HIDE DEF line
<1>4. \A u \in Streams : writer[u] = "null" => printed'[u] = printed[u]
  BY <1>1, <1>2
<1>5. ASSUME NEW n \in {0, 1, 2}, Writes(t, n), th[t].tool \in Opens,
             UNCHANGED <<writer, stream, log>>, th'[t].tool = th[t].tool
      PROVE  Writes(t, n + 1)'
  <2> DEFINE w == printed[t]
             f == log[th[t].tool]
  <2>1. printed'[t] = Append(w, line) /\ w \in Seq(Line) /\ f \in Seq(Line)
    BY <1>1, <1>2, <1>5 DEF Writes
  <2>2. Len(w) = n /\ (\A i \in DOMAIN w : w[i].by = t) /\ Grows(f \o w, puts)
    BY <1>5 DEF Writes
  <2>3. log'[th'[t].tool] = f /\ stream' = t /\ writer'[t] = "open"
    BY <1>5 DEF Writes
  <2> HIDE DEF w, f
  <2>4. Len(Append(w, line)) = n + 1 /\ \A i \in DOMAIN Append(w, line) : Append(w, line)[i].by = t
    <3>1. /\ Len(Append(w, line)) = Len(w) + 1
          /\ DOMAIN Append(w, line) = 1..(Len(w) + 1) /\ DOMAIN w = 1..Len(w) /\ Len(w) \in Nat
          /\ \A i \in 1..Len(w) : Append(w, line)[i] = w[i]
          /\ Append(w, line)[Len(w) + 1] = line
      BY <1>3, <2>1
    <3>2. QED
      BY <1>3, <2>2, <3>1
  <2>5. f \o Append(w, line) = Append(f \o w, line) /\ f \o w \in Seq(Line)
    BY <1>3, <2>1
  <2>6. Grows(f \o Append(w, line), puts + 1)
    BY <1>1, <1>3, <2>2, <2>5, GrowsPut
  <2>7. QED
    BY <1>2, <2>1, <2>3, <2>4, <2>6 DEF Writes, Grows
<1>6. QED
  BY <1>4, <1>5

\* A thread that does not run keeps what is claimed of its log.
LEMMA RestKeepsLog ==
  ASSUME NEW t \in Threads, ThreadInv(t), th[t].pc \in {"unborn", "dead", "crashed"}, th'[t] = th[t],
         writer[t] = "null" => writer'[t] = "null" /\ printed'[t] = printed[t],
         t \in linked' => /\ t \in linked
                          /\ HasLines(log[th[t].tool], t) => HasLines(log'[th[t].tool], t)
  PROVE  ThreadInv(t)'
BY DEF ThreadInv, LogIsAt

\* A file that does not change.
LEMMA FileStays ==
  ASSUME TypeInv, NEW x \in Opens, FileInv(x), log'[x] = log[x], puts' \in Nat, puts <= puts',
         \A u \in Threads : th[u].pc \in {"null", "dead", "crashed"} =>
           th'[u].pc \in {"null", "dead", "crashed"} /\ th'[u].tool = th[u].tool
  PROVE  FileInv(x)'
<1>1. log[x] \in Seq(Line) /\ puts \in Nat
  BY DEF TypeInv, TypeOK
<1>2. Grows(log[x], puts')
  BY <1>1, GrowsOn DEF FileInv
<1>3. QED
  BY <1>2 DEF FileInv, Grows

\* One step of the thread itself, by where it goes.
LEMMA RunLogs ==
  ASSUME TypeInv, LogInv, NEW t \in Threads, Run(t)
  PROVE  /\ ThreadInv(t)'
         /\ \A u \in Streams \ {t} : writer[u] = "null" => writer'[u] = "null" /\ printed'[u] = printed[u]
         /\ linked' \subseteq linked \cup {t} /\ linked \subseteq linked'
         /\ \/ log' = log
            \/ /\ th[t].tool \in Opens /\ th[t].pc = "close" /\ th'[t].pc = "null" /\ Writes(t, 3)
               /\ log' = [log EXCEPT ![th[t].tool] = @ \o printed[t]]
         /\ "folder" \in exists => "folder" \in exists'
<1> USE DEF client, files
<1>1. /\ th \in [Threads -> ThreadState] /\ writer \in [Streams -> {"open", "closed", "null"}]
      /\ printed \in [Streams -> Seq(Line)] /\ t \in Streams /\ stream \in Streams
      /\ log \in [Opens -> Seq(Line)] /\ linked \subseteq Threads
  BY DEF TypeInv, TypeOK, Streams
<1>2. ASSUME NEW pc, Goes(t, pc)
      PROVE  th'[t].pc = pc /\ th'[t].tool = th[t].tool /\ th'[t].on = th[t].on
  BY <1>1, <1>2 DEF Goes, ThreadState
<1>3. ThreadInv(t)
  BY DEF LogInv
<1>4. Put(t) => /\ \A u \in Streams : writer[u] = "null" => printed'[u] = printed[u]
                /\ \A n \in {0, 1, 2} :
                     /\ Writes(t, n) /\ th[t].tool \in Opens
                     /\ UNCHANGED <<writer, stream, log>> /\ th'[t].tool = th[t].tool
                     => Writes(t, n + 1)'
  BY PutWrites
<1>5. t \in linked => th[t].tool \in Opens
  BY <1>3 DEF ThreadInv
<1>6. \A n : Writes(t, n) => ~PutThrows(t)
  BY DEF Writes, PutThrows
\* From a step of run() to a later one.
<1>7. ASSUME NEW pc \in {"work", "end", "close", "null", "dead", "uncaught", "crashed"},
             th[t].pc \in {"begin", "work", "end", "close", "null", "uncaught"},
             th'[t].pc = pc, th'[t].tool = th[t].tool, linked' = linked,
             pc \notin {"dead", "crashed", "uncaught"} => th[t].pc # "uncaught",
             pc \in {"close", "null"} => th[t].tool \in Opens,
             t \in linked => LogIsAt(t, pc)'
      PROVE  ThreadInv(t)'
  BY <1>3, <1>7 DEF ThreadInv
<1>8. CASE Open(t)
  <2>1. th[t].pc = "open" /\ th[t].tool \in Opens /\ writer[t] = "null" /\ printed[t] = <<>> /\ log' = log
    BY <1>3, <1>8 DEF Open, ThreadInv
  <2>2. CASE "folder" \in exists
    <3>1. /\ stream' = t /\ writer' = [writer EXCEPT ![t] = "open"] /\ printed' = printed /\ puts' = puts
          /\ th'[t].pc = "begin" /\ th'[t].tool = th[t].tool /\ linked' = linked \cup {t}
          /\ "folder" \in exists'
      BY <1>2, <1>8, <2>2 DEF Open
    <3>2. writer'[t] = "open" /\ \A u \in Streams \ {t} : writer'[u] = writer[u]
      BY <1>1, <3>1
    <3>3. Grows(log[th[t].tool], puts)
      BY <2>1 DEF LogInv, FileInv
    <3>4. /\ log[th[t].tool] \o <<>> = log[th[t].tool] /\ Len(<<>>) = 0 /\ DOMAIN <<>> = {}
      BY <1>1, <2>1
    <3>a. printed'[t] = <<>> /\ log'[th'[t].tool] \o printed'[t] = log[th[t].tool]
      BY <2>1, <3>1, <3>4
    <3>b. Grows(log'[th'[t].tool] \o printed'[t], puts')
      BY <3>1, <3>3, <3>a
    <3>5. Writes(t, 0)'
      BY <3>1, <3>2, <3>4, <3>a, <3>b DEF Writes, Grows
    <3>6. ThreadInv(t)'
      BY <2>1, <3>1, <3>5 DEF ThreadInv, LogIsAt
    <3>7. QED
      BY <2>1, <3>1, <3>2, <3>6
  <2>3. CASE "folder" \notin exists
    <3>1. /\ th'[t].pc \in {"end", "uncaught"} /\ th'[t].tool = th[t].tool
          /\ linked' = linked /\ writer' = writer
          /\ Put(t) \/ UNCHANGED printed
      BY <1>2, <1>8, <2>3 DEF Open, Dies
    <3>2. linked = {}
      BY <2>3 DEF LogInv
    <3>3. ThreadInv(t)'
      BY <3>1, <3>2 DEF ThreadInv
    <3>4. QED
      BY <1>4, <2>1, <2>3, <3>1, <3>3
  <2>4. QED
    BY <2>2, <2>3
<1>9. CASE Begin(t)
  <2>1. th[t].pc = "begin" /\ UNCHANGED <<exists, log, linked, stream, writer>> /\ Put(t)
    BY <1>9 DEF Begin, PutThrows
  <2>2. t \in linked => Writes(t, 0)
    BY <1>3, <2>1 DEF ThreadInv, LogIsAt
  <2>3. /\ th'[t].tool = th[t].tool /\ th'[t].pc \in {"work", "end", "uncaught"}
        /\ th'[t].pc \in {"end", "uncaught"} => PutThrows(t)
    BY <1>2, <1>9 DEF Begin, Dies
  <2>4. t \in linked => Writes(t, 1)'
    BY <1>4, <1>5, <2>1, <2>2, <2>3
  <2>5. t \in linked => LogIsAt(t, th[t].pc)'
    BY <1>6, <2>2, <2>3, <2>4 DEF LogIsAt
  <2>6. ThreadInv(t)'
    BY <1>7, <2>1, <2>3, <2>5
  <2>7. QED
    BY <1>4, <2>1, <2>6
<1>10. CASE Work(t)
  <2>1. /\ th[t].pc = "work" /\ UNCHANGED <<log, linked, stream, writer>> /\ (Put(t) \/ UNCHANGED printed)
        /\ "folder" \in exists => "folder" \in exists'
    BY <1>10 DEF Work, PutThrows, Output, Failure
  <2>2. t \in linked => Writes(t, 1)
    BY <1>3, <2>1 DEF ThreadInv, LogIsAt
  <2>3. th'[t].tool = th[t].tool /\ th'[t].pc \in {"end", "uncaught"} /\ (th'[t].pc = "end" => Put(t))
    BY <1>2, <1>10 DEF Work, Dies, PutThrows
  <2>4. t \in linked /\ Put(t) => Writes(t, 2)'
    BY <1>4, <1>5, <2>1, <2>2, <2>3
  <2>5. t \in linked => LogIsAt(t, th[t].pc)'
    BY <2>3, <2>4 DEF LogIsAt
  <2>6. ThreadInv(t)'
    BY <1>7, <2>1, <2>3, <2>5
  <2>7. QED
    BY <1>4, <2>1, <2>6
<1>11. CASE End(t)
  <2>1. th[t].pc = "end" /\ UNCHANGED <<exists, log, linked, stream, writer>> /\ Put(t)
    BY <1>11 DEF End, PutThrows
  <2>2. t \in linked => Writes(t, 2)
    BY <1>3, <2>1 DEF ThreadInv, LogIsAt
  <2>3. /\ th'[t].tool = th[t].tool /\ th'[t].pc \in {"close", "dead", "uncaught"}
        /\ th'[t].pc = "close" => th[t].tool \in Opens
        /\ th'[t].pc = "dead" => th[t].tool \notin Opens
    BY <1>2, <1>11 DEF End, Dies
  <2>4. t \in linked => Writes(t, 3)'
    BY <1>4, <1>5, <2>1, <2>2, <2>3
  <2>5. t \in linked => LogIsAt(t, th[t].pc)'
    BY <1>5, <2>3, <2>4 DEF LogIsAt
  <2>6. ThreadInv(t)'
    BY <1>7, <2>1, <2>3, <2>5
  <2>7. QED
    BY <1>4, <2>1, <2>6
<1>12. CASE Close(t)
  <2>1. /\ th[t].pc = "close" /\ UNCHANGED <<exists, linked, stream, printed, puts>> /\ th[t].tool \in Opens
        /\ t \in linked => Writes(t, 3)
        /\ t \in linked \/ linked = {}
    BY <1>3, <1>12 DEF Close, ThreadInv, LogIsAt
  <2>2. CASE writer[stream] # "open"
    <3>1. /\ th'[t].pc \in {"dead", "uncaught"} /\ th'[t].tool = th[t].tool /\ writer' = writer /\ log' = log
      BY <1>1, <1>2, <1>12, <2>2 DEF Close, Closed, Dies
    <3>2. t \notin linked
      BY <2>1, <2>2 DEF Writes
    <3>3. ThreadInv(t)'
      BY <1>7, <2>1, <3>1, <3>2
    <3>4. QED
      BY <2>1, <3>1, <3>3
  <2>3. CASE writer[stream] = "open"
    <3>1. /\ writer' = [writer EXCEPT ![stream] = "closed"]
          /\ th' = [th EXCEPT ![t].pc = "null", ![t].on = stream]
          /\ Flush(stream)
      BY <1>12, <2>3 DEF Close
    <3>2. th'[t].pc = "null" /\ th'[t].on = stream /\ th'[t].tool = th[t].tool
      BY <1>1, <3>1 DEF ThreadState
    <3>3. \A u \in Streams : writer'[u] = IF u = stream THEN "closed" ELSE writer[u]
      BY <1>1, <3>1
    <3>4. CASE t \in linked
      <4>1. stream = t /\ log' = [log EXCEPT ![th[t].tool] = @ \o printed[t]] /\ Writes(t, 3)
        BY <2>1, <3>1, <3>4 DEF Flush, Writes
      <4>2. HasLines(log[th[t].tool] \o printed[t], t)
        <5>1. Len(printed[t]) = 3 /\ \A i \in DOMAIN printed[t] : printed[t][i].by = t
          BY <4>1 DEF Writes
        <5>2. \A i \in DOMAIN log[th[t].tool] : log[th[t].tool][i].by # t
          <6>1. FileInv(th[t].tool)
            BY <2>1 DEF LogInv
          <6>2. QED
            BY <2>1, <6>1 DEF FileInv
        <5>3. QED
          <6>1. log[th[t].tool] \in Seq(Line) /\ printed[t] \in Seq(Line)
            BY <1>1, <2>1
          <6>2. QED
            BY <5>1, <5>2, <6>1, JoinLines
      <4>3. log'[th[t].tool] = log[th[t].tool] \o printed[t]
        BY <1>1, <2>1, <4>1
      <4>4. LogIsAt(t, "null")'
        BY <1>1, <3>2, <3>3, <4>1, <4>2, <4>3 DEF LogIsAt
      <4>5. ThreadInv(t)'
        BY <1>7, <2>1, <3>2, <4>4
      <4>6. QED
        BY <2>1, <2>3, <3>2, <3>3, <4>1, <4>5
    <3>5. CASE linked = {}
      <4>1. log' = log
        BY <3>1, <3>5 DEF Flush
      <4>2. ThreadInv(t)'
        BY <1>7, <2>1, <3>2, <3>5
      <4>3. QED
        BY <2>1, <2>3, <3>2, <3>3, <4>1, <4>2
    <3>6. QED
      BY <2>1, <3>4, <3>5
  <2>4. QED
    BY <2>2, <2>3
<1>13. CASE SetNull(t)
  <2>1. /\ th[t].pc = "null" /\ UNCHANGED <<exists, log, linked, stream, printed>>
        /\ writer' = [writer EXCEPT ![th[t].on] = "null"]
        /\ th'[t].pc = "dead" /\ th'[t].tool = th[t].tool
    BY <1>2, <1>13 DEF SetNull, Closed
  <2>2. t \in linked => th[t].on = t /\ HasLines(log[th[t].tool], t)
    BY <1>3, <2>1 DEF ThreadInv, LogIsAt
  <2>3. \A u \in Streams : writer'[u] = IF u = th[t].on THEN "null" ELSE writer[u]
    BY <1>1, <2>1
  <2>4. t \in linked => LogIsAt(t, "dead")'
    BY <1>1, <2>1, <2>2, <2>3 DEF LogIsAt
  <2>5. ThreadInv(t)'
    BY <1>7, <2>1, <2>4
  <2>6. QED
    BY <2>1, <2>3, <2>5
<1>14. CASE Uncaught(t)
  <2>1. /\ th[t].pc = "uncaught" /\ UNCHANGED <<exists, log, linked, writer>> /\ Put(t)
        /\ th'[t].pc = "crashed" /\ th'[t].tool = th[t].tool
    BY <1>2, <1>14 DEF Uncaught
  <2>2. LogIsAt(t, "crashed")'
    BY DEF LogIsAt
  <2>3. ThreadInv(t)'
    BY <1>7, <2>1, <2>2
  <2>4. QED
    BY <1>4, <2>1, <2>3
<1>15. QED
  BY <1>8, <1>9, <1>10, <1>11, <1>12, <1>13, <1>14 DEF Run

\* The files after it, and what is claimed of the threads that are at rest.
LEMMA RunKeepsLogs ==
  ASSUME TypeInv, AloneInv, LogInv, NEW t \in Threads, Run(t)
  PROVE  LogInv'
<1>1. /\ Alive(t) /\ th'[t].tool = th[t].tool
      /\ \A u \in Threads \ {t} : th'[u] = th[u]
  BY RunSteps
<1>2. /\ ThreadInv(t)'
      /\ \A u \in Streams \ {t} : writer[u] = "null" => writer'[u] = "null" /\ printed'[u] = printed[u]
      /\ linked' \subseteq linked \cup {t} /\ linked \subseteq linked'
      /\ \/ log' = log
         \/ /\ th[t].tool \in Opens /\ th[t].pc = "close" /\ th'[t].pc = "null" /\ Writes(t, 3)
            /\ log' = [log EXCEPT ![th[t].tool] = @ \o printed[t]]
      /\ "folder" \in exists => "folder" \in exists'
  BY RunLogs
<1>3. \A u \in Threads \ {t} : th[u].pc \in {"unborn", "dead", "crashed"}
  BY <1>1, ConstantsAssumption DEF AloneInv, Alive
<1>4. /\ log \in [Opens -> Seq(Line)] /\ printed[t] \in Seq(Line) /\ puts \in Nat /\ t \in Streams
      /\ linked \subseteq Threads
  BY DEF TypeInv, TypeOK, Streams
<1>5. puts' \in Nat /\ puts <= puts'
  <2>1. puts' = puts \/ puts' = puts + 1
    BY RunSteps DEF Put
  <2>2. QED
    BY <1>4, <2>1
<1>6. "folder" \notin exists' => linked' = {}
  <2>1. SUFFICES ASSUME "folder" \notin exists' PROVE linked' = {}
    OBVIOUS
  <2>2. linked = {}
    BY <1>2, <2>1 DEF LogInv
  <2>3. CASE Open(t)
    BY <2>1, <2>2, <2>3, <1>2 DEF Open
  <2>4. CASE ~Open(t)
    BY <2>2, <2>4 DEF Run, Begin, Work, End, Close, SetNull, Uncaught, files
  <2>5. QED
    BY <2>3, <2>4
<1>7. \A u \in Threads : th[u].pc \in {"null", "dead", "crashed"} =>
        th'[u].pc \in {"null", "dead", "crashed"} /\ th'[u].tool = th[u].tool
  <2>1. th[t].pc \in {"null", "dead", "crashed"} => th'[t].pc = "dead"
    <3>1. SUFFICES ASSUME th[t].pc \in {"null", "dead", "crashed"} PROVE th'[t].pc = "dead"
      OBVIOUS
    <3>2. SetNull(t)
      BY <3>1 DEF Run, Open, Begin, Work, End, Close, Uncaught
    <3>3. th \in [Threads -> ThreadState] /\ th' = [th EXCEPT ![t].pc = "dead"]
      BY <3>2 DEF SetNull, Closed, Goes, TypeInv, TypeOK
    <3>4. QED
      BY <3>3 DEF ThreadState
  <2>2. QED
    BY <1>1, <2>1
<1>8. ASSUME NEW u \in Threads \ {t}
      PROVE  ThreadInv(u)'
  <2>1. ThreadInv(u) /\ u \in Streams \ {t}
    BY DEF LogInv, Streams
  <2>2. ASSUME u \in linked, HasLines(log[th[u].tool], u)
        PROVE  HasLines(log'[th[u].tool], u)
    <3>1. CASE log' = log
      BY <2>2, <3>1
    <3>2. CASE log' = [log EXCEPT ![th[t].tool] = @ \o printed[t]] /\ Writes(t, 3)
      <4>1. th[u].tool \in Opens
        BY <2>1, <2>2 DEF ThreadInv
      <4>2. \A i \in DOMAIN printed[t] : printed[t][i].by # u
        BY <3>2 DEF Writes
      <4>3. HasLines(log[th[u].tool] \o printed[t], u)
        BY <1>4, <2>2, <4>1, <4>2, JoinLines
      <4>4. log'[th[u].tool] \in {log[th[u].tool], log[th[u].tool] \o printed[t]}
        BY <1>4, <3>2, <4>1
      <4>5. QED
        BY <2>2, <4>3, <4>4
    <3>3. QED
      BY <1>2, <3>1, <3>2
  <2>3. QED
    BY <1>1, <1>2, <1>3, <2>1, <2>2, RestKeepsLog
<1>9. ASSUME NEW x \in Opens
      PROVE  FileInv(x)'
  <2>1. FileInv(x)
    BY DEF LogInv
  <2>2. CASE log'[x] = log[x]
    BY <1>5, <1>7, <2>1, <2>2, FileStays
  <2>3. CASE /\ th'[t].pc = "null" /\ Writes(t, 3) /\ x = th[t].tool
             /\ log' = [log EXCEPT ![th[t].tool] = @ \o printed[t]]
    <3>1. log'[x] = log[x] \o printed[t] /\ log[x] \in Seq(Line) /\ log[x] \o printed[t] \in Seq(Line)
      <4>1. x = th[t].tool /\ log' = [log EXCEPT ![th[t].tool] = @ \o printed[t]]
        BY <2>3
      <4>2. log'[x] = log[x] \o printed[t] /\ log[x] \in Seq(Line)
        BY <1>4, <4>1
      <4>3. QED
        BY <1>4, <4>2
    <3>2. Grows(log[x] \o printed[t], puts')
      BY <1>4, <1>5, <2>3, <3>1, GrowsOn DEF Writes
    <3>3. /\ DOMAIN (log[x] \o printed[t]) = 1..(Len(log[x]) + Len(printed[t]))
          /\ DOMAIN log[x] = 1..Len(log[x]) /\ DOMAIN printed[t] = 1..Len(printed[t])
          /\ Len(log[x]) \in Nat /\ Len(printed[t]) \in Nat
          /\ \A i \in 1..Len(log[x]) : (log[x] \o printed[t])[i] = log[x][i]
          /\ \A i \in (Len(log[x]) + 1)..(Len(log[x]) + Len(printed[t])) :
               (log[x] \o printed[t])[i] = printed[t][i - Len(log[x])] /\ i - Len(log[x]) \in 1..Len(printed[t])
      BY <1>4, <3>1
    <3>4. ASSUME NEW i \in DOMAIN (log[x] \o printed[t])
          PROVE  LET a == (log[x] \o printed[t])[i].by
                 IN  a \in Threads /\ th'[a].tool = x /\ th'[a].pc \in {"null", "dead", "crashed"}
      <4>1. CASE i \in 1..Len(log[x])
        BY <1>7, <2>1, <3>3, <4>1 DEF FileInv
      <4>2. CASE i \in (Len(log[x]) + 1)..(Len(log[x]) + Len(printed[t]))
        <5>a. \A j \in 1..Len(printed[t]) : printed[t][j].by = t
          BY <2>3, <3>3 DEF Writes
        <5>1. (log[x] \o printed[t])[i].by = t
          BY <3>3, <4>2, <5>a
        <5>2. QED
          BY <1>1, <2>3, <5>1
      <4>3. i \in 1..Len(log[x]) \/ i \in (Len(log[x]) + 1)..(Len(log[x]) + Len(printed[t]))
        <5>1. \A m, n \in Nat : \A j \in 1..(m + n) : j \in 1..m \/ j \in (m + 1)..(m + n)
          OBVIOUS
        <5>2. i \in 1..(Len(log[x]) + Len(printed[t])) /\ Len(log[x]) \in Nat /\ Len(printed[t]) \in Nat
          BY <3>3, Zenon
        <5>3. QED
          BY <5>1, <5>2
      <4>4. QED
        BY <4>1, <4>2, <4>3
    <3>5. QED
      BY <3>1, <3>2, <3>4 DEF FileInv, Grows
  <2>4. QED
    BY <1>2, <1>4, <2>2, <2>3
<1>10. QED
  BY <1>2, <1>6, <1>8, <1>9 DEF LogInv

LEMMA NextLogs ==
  ASSUME TypeInv, FollowInv, AloneInv, InTurn, LogInv, [Next]_vars
  PROVE  LogInv'
<1>1. ASSUME UNCHANGED <<log, linked, stream, writer, printed, puts, th>>,
             "folder" \in exists => "folder" \in exists'
      PROVE  LogInv'
  <2>1. \A x \in Opens : FileInv(x)'
    BY <1>1 DEF LogInv, FileInv, Grows
  <2>2. ASSUME NEW t \in Threads
        PROVE  ThreadInv(t)'
    <3>1. LogIsAt(t, th[t].pc) => LogIsAt(t, th[t].pc)'
      BY <1>1 DEF LogIsAt, Writes, Grows
    <3>2. ThreadInv(t)
      BY DEF LogInv
    <3>3. QED
      BY <1>1, <3>1, <3>2 DEF ThreadInv
  <2>3. QED
    BY <1>1, <2>1, <2>2 DEF LogInv
<1>2. ASSUME NEW t \in Threads, Run(t)
      PROVE  LogInv'
  BY <1>2, RunKeepsLogs
<1>3. ASSUME NEW p \in Polls, Poll(p)
      PROVE  LogInv'
  BY <1>1, <1>3, PollSteps DEF files
<1>4. ASSUME NEW t \in Threads, NEW x \in Tools, NEW p \in Polls, Start(t, x, p)
      PROVE  LogInv'
  <2>1. \A u \in Threads : ~Alive(u)
    BY <1>4, IdleIsQuiet DEF Start, Ready, InTurn
  <2>2. th[t].pc = "unborn"
    BY <1>4 DEF Start, HasUnborn, Unborn
  <2>3. /\ \A u \in Threads \ {t} : th'[u] = th[u]
        /\ th'[t].tool = x /\ th'[t].pc = IF x \in Opens THEN "open" ELSE "begin"
        /\ UNCHANGED <<log, linked, stream, writer, printed, puts>>
        /\ "folder" \in exists => "folder" \in exists'
    BY <1>4 DEF Start, streams, TypeInv, TypeOK
  <2>4. \A u \in Threads \ {t} : th[u].pc \in {"unborn", "dead", "crashed"}
    BY <2>1, ConstantsAssumption DEF Alive
  <2>5. ThreadInv(t)'
    <3>1. writer[t] = "null" /\ printed[t] = <<>> /\ t \notin linked
      BY <2>2 DEF LogInv, ThreadInv
    <3>2. QED
      BY <2>3, <3>1 DEF ThreadInv
  <2>6. \A u \in Threads \ {t} : ThreadInv(u)'
    BY <2>3, <2>4, RestKeepsLog DEF LogInv
  <2>7. \A u \in Threads : th[u].pc \in {"null", "dead", "crashed"} =>
          th'[u].pc \in {"null", "dead", "crashed"} /\ th'[u].tool = th[u].tool
    BY <2>2, <2>3
  <2>8. puts' \in Nat /\ puts <= puts'
    BY <2>3 DEF TypeInv, TypeOK
  <2>9. \A y \in Opens : FileInv(y)'
    BY <2>3, <2>7, <2>8, FileStays DEF LogInv
  <2>10. QED
    BY <2>3, <2>5, <2>6, <2>9 DEF LogInv
<1>5. ASSUME NEW t \in Threads, NEW p \in Polls, NEW q \in Polls, ExtractApk(t, p, q)
      PROVE  LogInv'
  BY <1>5 DEF ExtractApk, InTurn
<1>6. ASSUME NEW x \in Tools, NEW p \in Polls, StopThread(x, p)
      PROVE  LogInv'
  <2>1. /\ \A u \in Threads : th'[u] = IF Alive(u) THEN [th[u] EXCEPT !.pc = "crashed"] ELSE th[u]
        /\ \A u \in Streams : writer'[u] = "null" /\ (writer[u] = "null" => printed'[u] = printed[u])
        /\ UNCHANGED <<log, linked, exists>> /\ puts' = puts + 1
    BY <1>6 DEF StopThread, FreshStreams, files
  <2>2. \A u \in Threads : u \in Streams /\ u # NoThread
    BY ConstantsAssumption DEF Streams
  <2>3. \A u \in Threads : Alive(u) => th'[u].pc = "crashed" /\ th'[u].tool = th[u].tool
    BY <2>1 DEF TypeInv, TypeOK, ThreadState
  <2>4. ASSUME NEW u \in Threads
        PROVE  ThreadInv(u)'
    <3>1. ThreadInv(u)
      BY DEF LogInv
    <3>2. CASE Alive(u)
      BY <2>1, <2>3, <3>1, <3>2 DEF ThreadInv, LogIsAt
    <3>3. CASE ~Alive(u)
      <4>1. /\ th[u].pc \in {"unborn", "dead", "crashed"} /\ th'[u] = th[u]
            /\ writer[u] = "null" => writer'[u] = "null" /\ printed'[u] = printed[u]
        BY <2>1, <2>2, <3>3 DEF Alive
      <4>2. QED
        BY <2>1, <3>1, <4>1, RestKeepsLog
    <3>4. QED
      BY <3>2, <3>3
  <2>5. \A u \in Threads : th[u].pc \in {"null", "dead", "crashed"} =>
          th'[u].pc \in {"null", "dead", "crashed"} /\ th'[u].tool = th[u].tool
    BY <2>1, <2>3
  <2>6. puts' \in Nat /\ puts <= puts'
    BY <2>1 DEF TypeInv, TypeOK
  <2>7. \A y \in Opens : FileInv(y)'
    BY <2>1, <2>5, <2>6, FileStays DEF LogInv
  <2>8. QED
    BY <2>1, <2>4, <2>7 DEF LogInv
<1>7. CASE ClearLog \/ CreatePackage
  BY <1>1, <1>7 DEF ClearLog, CreatePackage, files, streams, threads
<1>8. CASE DeletePackage
  <2>1. /\ \A x \in Opens : log'[x] = <<>>
        /\ linked' = {} /\ UNCHANGED <<stream, writer, printed, puts, th>>
    BY <1>8 DEF DeletePackage, streams, threads
  <2>2. \A x \in Opens : FileInv(x)'
    BY <2>1 DEF FileInv, Grows
  <2>3. \A t \in Threads : ThreadInv(t)'
    BY <2>1 DEF LogInv, ThreadInv
  <2>4. QED
    BY <2>1, <2>2, <2>3 DEF LogInv
<1>9. CASE UNCHANGED vars
  BY <1>1, <1>9 DEF vars
<1>10. QED
  BY <1>2, <1>3, <1>4, <1>5, <1>6, <1>7, <1>8, <1>9 DEF Next, User

\* Under the same conditions a tool's log file has lines of that tool's runs alone, in
\* the order they were put, though all tools write to whatever stream is current; and a
\* run that has come to its end has closed the file and has its three lines in it side
\* by side, unless the file was deleted after the run had opened it.
THEOREM LogsTellAll == InTurn => (Spec => []LogTellsAll)
<1> SUFFICES ASSUME InTurn PROVE Spec => []LogTellsAll
  OBVIOUS
<1>1. Init => LogInv
  <2> SUFFICES ASSUME Init PROVE LogInv
    OBVIOUS
  <2>1. /\ \A x \in Opens : log[x] = <<>>
        /\ linked = {} /\ \A t \in Threads : writer[t] = "null" /\ printed[t] = <<>> /\ th[t].pc = "unborn"
    BY DEF Init, Streams
  <2>2. \A x \in Opens : FileInv(x)
    BY <2>1 DEF FileInv, Grows
  <2>3. QED
    BY <2>1, <2>2 DEF LogInv, ThreadInv
<1>2. TypeInv /\ FollowInv /\ AloneInv /\ LogInv /\ [Next]_vars => LogInv'
  BY NextLogs
<1>3. TypeInv /\ LogInv => LogTellsAll
  <2> SUFFICES ASSUME TypeInv, LogInv, NEW x \in Opens
               PROVE  /\ \A i \in DOMAIN log[x] : log[x][i].by \in Threads /\ th[log[x][i].by].tool = x
                      /\ \A i, j \in DOMAIN log[x] : i < j => log[x][i].no < log[x][j].no
                      /\ \A t \in linked : th[t].tool = x /\ th[t].pc = "dead" =>
                           writer[t] = "null" /\ HasLines(log[x], t)
    BY DEF LogTellsAll
  <2>1. FileInv(x)
    BY DEF LogInv
  <2>2. ASSUME NEW t \in linked, th[t].tool = x, th[t].pc = "dead"
        PROVE  writer[t] = "null" /\ HasLines(log[x], t)
    <3>1. t \in Threads
      BY DEF TypeInv, TypeOK
    <3>2. QED
      BY <2>2, <3>1 DEF LogInv, ThreadInv, LogIsAt
  <2>3. QED
    BY <2>1, <2>2 DEF FileInv, Grows
<1>4. QED
  BY <1>1, <1>2, <1>3, Telling, PTL DEF Spec
=============================================================================
