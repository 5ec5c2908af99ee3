--------------------------- MODULE FinderRequests ---------------------------
(***************************************************************************)
(* How the file manager in the browser (elFinder, js/elfinder.full.js)     *)
(* sends its requests to the connector: `this.request`.                    *)
(*                                                                         *)
(* At most MaxConn requests are on the wire.  The others wait in           *)
(* requestQueue, and the end of each request lets one that waits go.  A    *)
(* request that opens a folder goes to the head of the queue, ends the     *)
(* open requests that are on the wire, and makes those that still wait     *)
(* give up when their turn comes (requestQueueSkipOpen).                   *)
(*                                                                         *)
(* JavaScript has one thread: a handler runs to its end before the next    *)
(* event.  What a handler does in a loop is a step for each turn of the    *)
(* loop, and nothing else is enabled in between (`opening`, `syncing`, `leaving`).    *)
(***************************************************************************)
EXTENDS Naturals, Sequences, FiniteSets

CONSTANTS
    Requests,       \* everything this page will ask for
    Cmd,            \* the command of each request
    Navigations,    \* the opens of the user; any other open is one of sync()
    Cancelable,     \* requests whose notification has a cancel button
    Dirs, Root,     \* folders, and the one that is shown at first
    Parent,         \* the folder each is in
    MaxConn,        \* options.requestMaxConn
    None

Opens == {r \in Requests : Cmd[r] = "open"}
Syncs == Opens \ Navigations

\* abortCmdsOnOpen: what only the folder that is shown has a use for.
CwdOnly == {r \in Requests : Cmd[r] \in {"tmb", "parents"}}

ASSUME ConstantsAssumption ==
    /\ IsFiniteSet(Requests)
    /\ Cmd \in [Requests -> STRING]
    /\ Navigations \subseteq Opens
    /\ Cancelable \cap (Opens \cup CwdOnly) = {}
    /\ Root \in Dirs
    /\ Parent \in [Dirs -> Dirs]
    /\ MaxConn \in Nat \ {0}
    /\ None \notin Requests \cup Dirs

VARIABLES
    place,                  \* where a request is: "new", "waits", "wire", "over", "dropped"
    dfrd,                   \* the state of its Deferred: "elsewhere" is resolved, with another
                            \* folder; "failed" is rejected by the server's answer
    target,                 \* data.target of an open
    requestCnt,
    requestQueue,
    requestQueueSkipOpen,
    queue,                  \* open requests that have been sent
    cwdQueue,               \* CwdOnly requests that have been sent
    cwd,
    opening,                \* the open whose request() is under way
    listeners,              \* the abort() handlers bound to unload and destroy
    syncing,                \* the sync() of an open that failed is due (syncOnFail)
    leaving,                \* trigger('destroy'): handler to call next, number of handlers
    left,
    asked                   \* history: the opens in the order they were asked for

lists == <<requestCnt, requestQueue, requestQueueSkipOpen, queue, cwdQueue>>
vars == <<place, dfrd, target, lists, cwd, opening, listeners, syncing, leaving, left, asked>>

NotLeaving == [next |-> 1, last |-> 0]

Init ==
    /\ place = [r \in Requests |-> "new"]
    /\ dfrd = [r \in Requests |-> "pending"]
    /\ target = [r \in Requests |-> Root]
    /\ requestCnt = 0
    /\ requestQueue = <<>>
    /\ requestQueueSkipOpen = FALSE
    /\ queue = {}
    /\ cwdQueue = {}
    /\ cwd = Root
    /\ opening = None
    /\ listeners = <<>>
    /\ syncing = FALSE
    /\ leaving = NotLeaving
    /\ left = FALSE
    /\ asked = <<>>

\* No handler is in the middle of a loop.
EventLoop == opening = None /\ ~syncing /\ leaving.next > leaving.last

-----------------------------------------------------------------------------
(* Plausible faults: operators that replace the definition they are named  *)
(* after, to check that the properties below would notice.                 *)

\* One connection more than requestMaxConn.
Free_OffByOne == requestCnt <= MaxConn

\* The abort() handlers of requests that have ended stay bound.
Without_Kept(s, r) == s

\* An open waits behind the others.
Queued_Last(r) == Append(requestQueue, r)

\* The count goes up before an open is found to be too late.
Skip_Counted(r, cnt, q, pl, df, lis) ==
    /\ r \in Opens /\ requestQueueSkipOpen
    /\ place' = [pl EXCEPT ![r] = "over"]
    /\ dfrd' = [df EXCEPT ![r] = "rejected"]
    /\ requestCnt' = cnt + 1
    /\ requestQueue' = q
    /\ listeners' = lis
    /\ UNCHANGED <<requestQueueSkipOpen, opening>>

\* The connection is given back and none of those that wait is told.
Released_Silent(q, pl, df, lis) ==
    /\ requestQueueSkipOpen' = FALSE
    /\ requestCnt' = requestCnt - 1
    /\ requestQueue' = q
    /\ place' = pl
    /\ dfrd' = df
    /\ listeners' = lis
    /\ UNCHANGED opening

\* An open ends what the folder before it needed, and no other open.
ToEnd_NoOpen == IF cwd # target[opening] THEN cwdQueue ELSE {}

-----------------------------------------------------------------------------
\* A connection is free.
Free == requestCnt < MaxConn

\* unbind(): the first of them that is found is spliced out.
Without(s, r) ==
    IF \E i \in DOMAIN s : s[i] = r
    THEN LET first == CHOOSE i \in DOMAIN s : s[i] = r /\ \A j \in 1..(i - 1) : s[j] # r
         IN  [i \in 1..(Len(s) - 1) |-> IF i < first THEN s[i] ELSE s[i + 1]]
    ELSE s

\* $.grep(requestQueue): all but the requests of command c, in their order.
ButThoseOf(c, q) ==
    LET upTo[n \in 0..Len(q)] ==
          IF n = 0 THEN <<>>
          ELSE IF Cmd[q[n]] = c THEN upTo[n - 1] ELSE Append(upTo[n - 1], q[n])
    IN  upTo[Len(q)]

\* An open waits before all others.
Queued(r) == IF r \in Opens THEN <<r>> \o requestQueue ELSE Append(requestQueue, r)

Waiting == {requestQueue[i] : i \in DOMAIN requestQueue}

-----------------------------------------------------------------------------
(* request(): what happens when a request's turn has come.  The parameters *)
(* are the values the caller has already given to what it changes itself.  *)

\* An open gives up if a later one has gone before it.
Skip(r, cnt, q, pl, df, lis) ==
    /\ r \in Opens /\ requestQueueSkipOpen
    /\ place' = [pl EXCEPT ![r] = "over"]
    /\ dfrd' = [df EXCEPT ![r] = "rejected"]
    /\ requestCnt' = cnt
    /\ requestQueue' = q
    /\ listeners' = lis
    /\ UNCHANGED <<requestQueueSkipOpen, opening>>

\* An open takes its connection, and then ends other requests (EndForOpen).
BeginOpen(r, cnt, q, pl, df, lis) ==
    /\ r \in Opens /\ ~requestQueueSkipOpen
    /\ opening' = r
    /\ requestQueueSkipOpen' = TRUE
    /\ requestCnt' = cnt + 1
    /\ requestQueue' = q
    /\ place' = pl
    /\ dfrd' = df
    /\ listeners' = lis

\* Any other request is sent at once.  If it was cancelled while it waited it is
\* sent all the same, and those of its command that wait behind it are dropped.
SendOther(r, cnt, q, pl, df, lis) ==
    LET dead == df[r] = "rejected"
        kept == IF dead THEN ButThoseOf(Cmd[r], q) ELSE q
        gone == {q[i] : i \in DOMAIN q} \ {kept[i] : i \in DOMAIN kept}
    IN  /\ r \notin Opens
        /\ requestCnt' = cnt + 1
        /\ requestQueue' = kept
        /\ place' = [x \in Requests |-> CASE x = r -> "wire"
                                         [] x \in gone -> "dropped"
                                         [] OTHER -> pl[x]]
        /\ dfrd' = df
        /\ listeners' = IF dead THEN lis ELSE Append(lis, r)
        /\ UNCHANGED <<requestQueueSkipOpen, opening>>

TakeTurn(r, cnt, q, pl, df, lis) ==
    \/ Skip(r, cnt, q, pl, df, lis)
    \/ BeginOpen(r, cnt, q, pl, df, lis)
    \/ SendOther(r, cnt, q, pl, df, lis)

\* transport.send(...).always: a connection is free, the first that waits has its turn.
Released(q, pl, df, lis) ==
    IF q = <<>>
    THEN /\ requestQueueSkipOpen' = FALSE
         /\ requestCnt' = requestCnt - 1
         /\ requestQueue' = q
         /\ place' = pl
         /\ dfrd' = df
         /\ listeners' = lis
         /\ UNCHANGED opening
    ELSE TakeTurn(Head(q), requestCnt - 1, Tail(q), pl, df, lis)

\* The request whose turn Released(q, ...) brings, if it is an open that goes.
OpenNext(q) ==
    IF q # <<>> /\ Head(q) \in Opens /\ ~requestQueueSkipOpen THEN Head(q) ELSE None

\* Which lists a request that is sent with this action is in afterwards.
CwdQueueWith(cq) ==
    cq \cup {r \in CwdOnly : place'[r] = "wire" /\ place[r] # "wire" /\ dfrd'[r] = "pending"}

-----------------------------------------------------------------------------
(* Asking.                                                                 *)

\* this.request(): an open goes to the head of the queue, all others to its end.
Request(r, d) ==
    /\ place[r] = "new"
    /\ target' = [target EXCEPT ![r] = d]
    /\ asked' = IF r \in Opens THEN Append(asked, r) ELSE asked
    /\ IF Free
       THEN IF r \in Opens
            THEN /\ opening' = r
                 /\ requestQueueSkipOpen' = TRUE
                 /\ requestCnt' = requestCnt + 1
                 /\ UNCHANGED <<requestQueue, place, dfrd, listeners, cwdQueue>>
            ELSE /\ SendOther(r, requestCnt, requestQueue, place, dfrd, listeners)
                 /\ cwdQueue' = CwdQueueWith(cwdQueue)
       ELSE /\ place' = [place EXCEPT ![r] = "waits"]
            /\ requestQueue' = Queued(r)
            /\ requestQueueSkipOpen' = (r \notin Opens /\ requestQueueSkipOpen)
            /\ UNCHANGED <<requestCnt, opening, dfrd, listeners, cwdQueue>>
    /\ UNCHANGED <<queue, cwd, leaving, left>>

\* d is where the user wants to go; sync() asks for the folder that is shown.
Ask(r, d) ==
    /\ EventLoop /\ ~left
    /\ r \in Navigations \/ d = cwd
    /\ Request(r, d)
    /\ UNCHANGED syncing

\* sync() of an open of the user that failed.
Sync ==
    /\ syncing /\ opening = None
    /\ syncing' = FALSE
    /\ IF \E s \in Syncs : place[s] = "new"       \* the bound on Requests
       THEN \E s \in Syncs : Request(s, cwd)
       ELSE UNCHANGED <<place, dfrd, target, lists, cwd, opening, listeners, leaving, left, asked>>

\* The requests that the open under way must still end: all opens, and what is
\* of use to the present folder only, if it goes to another.
ToEnd ==
    IF queue # {} THEN queue
    ELSE IF cwd # target[opening] THEN cwdQueue ELSE {}

\* queueAbort(): the Deferred is rejected, the request aborted, and the connection
\* goes to the first that waits.
EndForOpen ==
    /\ opening # None
    /\ \E x \in ToEnd :
         /\ Released(requestQueue, [place EXCEPT ![x] = "over"],
                     [dfrd EXCEPT ![x] = "rejected"], Without(listeners, x))
         /\ queue' = queue \ {x}
         /\ cwdQueue' = CwdQueueWith(cwdQueue \ {x})
    /\ UNCHANGED <<target, cwd, syncing, leaving, left, asked>>

\* No other is left: the open is sent.
SendOpen ==
    /\ opening # None /\ ToEnd = {}
    /\ place' = [place EXCEPT ![opening] = "wire"]
    /\ queue' = {opening}
    /\ listeners' = Append(listeners, opening)
    /\ opening' = None
    /\ UNCHANGED <<dfrd, target, requestCnt, requestQueue, requestQueueSkipOpen, cwdQueue,
                   cwd, syncing, leaving, left, asked>>

-----------------------------------------------------------------------------
(* Answers.  The connection is given on before the answer is looked at: an *)
(* open that goes now ends the request that has just been answered, as it  *)
(* ends those that have not.                                               *)

Overtaken(r) ==
    LET o == OpenNext(requestQueue)
    IN  o # None /\ (r \in queue \/ (r \in cwdQueue /\ cwd # target[o]))

\* The answer's data.cwd: a folder that has gone is answered with the one it was in.
DataCwd(r, d) == IF d = "elsewhere" THEN Parent[target[r]] ELSE target[r]

Answers == {"resolved", "elsewhere", "failed"}

\* Answers are told apart only where something here depends on it: sync() looks at no
\* data.cwd.  What is shown is the folder in the answer, not the one that was asked for.
Answer(r, a) ==
    LET d == IF Overtaken(r) THEN "rejected" ELSE a
        df == IF dfrd[r] = "pending" THEN [dfrd EXCEPT ![r] = d] ELSE dfrd
        shows == r \in Navigations /\ dfrd[r] = "pending" /\ d \in {"resolved", "elsewhere"}
    IN  /\ EventLoop
        /\ place[r] = "wire"
        /\ a = "failed" => r \in Opens
        /\ a = "elsewhere" => r \in Navigations
        /\ Released(requestQueue, [place EXCEPT ![r] = "over"], df, Without(listeners, r))
        /\ queue' = queue \ {r}
        /\ cwdQueue' = CwdQueueWith(cwdQueue \ {r})
        /\ cwd' = IF shows THEN DataCwd(r, d) ELSE cwd
        /\ syncing' = (r \in Navigations /\ dfrd[r] = "pending" /\ d = "failed")
        /\ UNCHANGED <<target, leaving, left, asked>>

\* The cancel button of the notification: reject(0).  What waits with the same
\* command is dropped before the connection is given on.
Cancel(r) ==
    LET kept == ButThoseOf(Cmd[r], requestQueue)
        pl == [x \in Requests |-> CASE x = r -> "over"
                                    [] x \in Waiting /\ Cmd[x] = Cmd[r] -> "dropped"
                                    [] OTHER -> place[x]]
        df == [dfrd EXCEPT ![r] = "rejected"]
    IN  /\ EventLoop /\ ~left
        /\ r \in Cancelable
        /\ dfrd[r] = "pending"
        /\ \/ /\ place[r] = "waits"
              /\ dfrd' = df
              /\ UNCHANGED <<place, lists, opening, listeners>>
           \/ /\ place[r] = "wire"
              /\ Released(kept, pl, df, Without(listeners, r))
              /\ cwdQueue' = CwdQueueWith(cwdQueue \ {r})
              /\ UNCHANGED queue
        /\ UNCHANGED <<target, cwd, syncing, leaving, left, asked>>

-----------------------------------------------------------------------------
(* Leaving the page, or destroy(): trigger() calls the handlers by their   *)
(* index, in the list from which each handler, being called, removes its   *)
(* own entry.                                                              *)

Leave ==
    /\ EventLoop /\ ~left
    /\ left' = TRUE
    /\ leaving' = [next |-> 1, last |-> Len(listeners)]
    /\ UNCHANGED <<place, dfrd, target, lists, cwd, opening, listeners, syncing, asked>>

\* A request that is aborted fails without a message, but not without sync().
CallAbort ==
    /\ opening = None /\ ~syncing /\ leaving.next <= leaving.last
    /\ leaving' = [leaving EXCEPT !.next = @ + 1]
    /\ IF leaving.next \in DOMAIN listeners
       THEN LET r == listeners[leaving.next]
            IN  /\ Released(requestQueue, [place EXCEPT ![r] = "over"],
                            [dfrd EXCEPT ![r] = "rejected"], Without(listeners, r))
                /\ queue' = queue \ {r}
                /\ cwdQueue' = CwdQueueWith(cwdQueue \ {r})
                /\ syncing' = (r \in Navigations)
       ELSE UNCHANGED <<place, dfrd, lists, opening, listeners, syncing>>
    /\ UNCHANGED <<target, cwd, left, asked>>

-----------------------------------------------------------------------------
Next ==
    \/ \E r \in Requests, d \in Dirs : Ask(r, d)
    \/ Sync
    \/ EndForOpen
    \/ SendOpen
    \/ \E r \in Requests, a \in Answers : Answer(r, a)
    \/ \E r \in Requests : Cancel(r)
    \/ Leave
    \/ CallAbort

\* Handlers run to their end, and as long as something is on the wire the server
\* answers something, with an error or without.
Fairness ==
    /\ WF_vars(Sync \/ EndForOpen \/ SendOpen \/ CallAbort)
    /\ WF_vars(\E r \in Requests, a \in Answers : Answer(r, a))

Spec == Init /\ [][Next]_vars /\ Fairness

-----------------------------------------------------------------------------
(* Properties.                                                             *)

Places == {"new", "waits", "wire", "over", "dropped"}

TypeOK ==
    /\ place \in [Requests -> Places]
    /\ dfrd \in [Requests -> {"pending", "resolved", "elsewhere", "rejected", "failed"}]
    /\ target \in [Requests -> Dirs]
    /\ requestCnt \in 0..MaxConn
    /\ requestQueue \in Seq(Requests)
    /\ requestQueueSkipOpen \in BOOLEAN
    /\ queue \subseteq Opens
    /\ cwdQueue \subseteq CwdOnly
    /\ cwd \in Dirs
    /\ opening \in Opens \cup {None}
    /\ listeners \in Seq(Requests)
    /\ syncing \in BOOLEAN
    /\ leaving \in [next : Nat, last : Nat]
    /\ left \in BOOLEAN
    /\ asked \in Seq(Opens)

OnWire == {r \in Requests : place[r] = "wire"}

\* requestCnt, "Current number of connections", is that number: whatever is
\* skipped, aborted, cancelled or answered gives its connection back exactly once.
CountIsConnections ==
    requestCnt = Cardinality(OnWire) + (IF opening = None THEN 0 ELSE 1)

\* Whoever may still need an abort or an answer can be reached by it: the lists
\* of queueAbort() and of the abort() handlers hold what is on the wire, and no more.
ListsAreCurrent ==
    /\ queue = OnWire \cap Opens \/ opening # None
    /\ queue \subseteq OnWire
    /\ cwdQueue = OnWire \cap CwdOnly
    /\ {listeners[i] : i \in DOMAIN listeners} = {r \in OnWire : dfrd[r] = "pending"}
    /\ Len(listeners) = Cardinality(OnWire \cap {r \in Requests : dfrd[r] = "pending"})

LastAsked == asked[Len(asked)]

AtRest == EventLoop /\ OnWire = {} /\ requestQueue = <<>>

\* When all is quiet the last open that was asked for has had its way, and what is
\* shown is the folder its own answer lists, unless the server refused it or the page
\* was left.
LastOpenIsShown ==
    AtRest /\ ~left /\ asked # <<>> =>
      \/ dfrd[LastAsked] = "failed"
      \/ /\ dfrd[LastAsked] \in {"resolved", "elsewhere"}
         /\ cwd = DataCwd(LastAsked, dfrd[LastAsked])

Promise == INSTANCE LastOpenWins
    WITH Nothing <- None,
         wanted <- IF asked # <<>> /\ dfrd[LastAsked] = "pending" THEN target[LastAsked]
                   ELSE None

\* The folder changes only to what was asked for last, or to the folder that was in, and
\* each wish is settled.
KeepsPromise == Promise!FairSpec

\* The end of each request lets one that waits go: none waits for ever, if there
\* are never more opens waiting than connections.  (An open that is skipped lets no
\* other go, so that with more of them the last connection may be given up while
\* another request waits.)
NoneWaitsForEver ==
    [](Cardinality(Waiting \cap Opens) <= MaxConn) => <>[](requestQueue = <<>>)
=============================================================================
