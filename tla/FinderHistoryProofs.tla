------------------------- MODULE FinderHistoryProofs -------------------------
(***************************************************************************)
(* What holds of the file manager's history for every set of requests and  *)
(* folders, and any number of connections.                                 *)
(***************************************************************************)
EXTENDS FinderHistory, FinderRequestsProofs

\* Every open is for a folder, and a folder is shown.
FoldersInv == target \in [Requests -> Dirs] /\ cwd \in Dirs

\* The index is a place in the list.
HistoryInv == history \in Seq(Dirs) /\ current \in 1..Len(history)

HInv == FoldersInv /\ HistoryInv

-----------------------------------------------------------------------------
\* A request that is made opens a folder.
LEMMA RequestFolders ==
    ASSUME FoldersInv, NEW r \in Requests, NEW d \in Dirs, Request(r, d)
    PROVE  FoldersInv'
BY DEF Request, FoldersInv

\* No step of the requests shows anything but a folder.
LEMMA NextFolders == FoldersInv /\ Next => FoldersInv'
<1> SUFFICES ASSUME FoldersInv, Next PROVE FoldersInv'
  OBVIOUS
<1>1. ASSUME NEW r \in Requests, NEW d \in Dirs, Ask(r, d)
      PROVE  FoldersInv'
  BY <1>1, RequestFolders DEF Ask
<1>2. CASE Sync
  <2>1. CASE \E s \in Syncs : Request(s, cwd)
    BY <2>1, RequestFolders DEF FoldersInv, Syncs, Opens
  <2>2. CASE UNCHANGED <<target, cwd>>
    BY <2>2 DEF FoldersInv
  <2>3. QED
    BY <1>2, <2>1, <2>2 DEF Sync
<1>3. ASSUME NEW r \in Requests, NEW a \in Answers, Answer(r, a)
      PROVE  FoldersInv'
  <2>1. UNCHANGED target /\ cwd' \in {target[r], Parent[target[r]], cwd}
    BY <1>3 DEF Answer, DataCwd
  <2>2. QED
    BY <2>1, ConstantsAssumption DEF FoldersInv
<1>4. ASSUME UNCHANGED <<target, cwd>>
      PROVE  FoldersInv'
  BY <1>4 DEF FoldersInv
<1>5. ASSUME NEW r \in Requests, Cancel(r)
      PROVE  FoldersInv'
  BY <1>4, <1>5 DEF Cancel
<1>6. CASE EndForOpen \/ SendOpen \/ Leave \/ CallAbort
  BY <1>4, <1>6 DEF EndForOpen, SendOpen, Leave, CallAbort
<1>7. QED
  BY <1>1, <1>2, <1>3, <1>5, <1>6 DEF Next

-----------------------------------------------------------------------------
\* After reset() the index is at the only folder of the list.
LEMMA ResetHistory ==
    ASSUME NEW f \in Dirs, Reset(f)
    PROVE  HistoryInv'
<1>1. <<f>> \in Seq(Dirs) /\ Len(<<f>>) = 1
  OBVIOUS
<1>2. QED
  BY <1>1 DEF Reset, HistoryInv

\* What is recorded last is the folder that is shown.
LEMMA RecordedIsShown ==
    ASSUME FoldersInv, HistoryInv
    PROVE  /\ Recorded \in Seq(Dirs) /\ Len(Recorded) >= 1
           /\ Recorded[Len(Recorded)] = cwd
<1> DEFINE past == SubSeq(history, 1, current)
<1>1. past \in Seq(Dirs) /\ Len(past) = current /\ current \in Nat /\ current >= 1
  BY DEF HistoryInv
<1> HIDE DEF past
<1>2. CASE cwd = past[current]
  BY <1>1, <1>2 DEF Recorded, past
<1>3. CASE cwd # past[current]
  <2>1. Recorded = Append(past, cwd)
    BY <1>3 DEF Recorded, past
  <2>2. QED
    BY <1>1, <2>1 DEF FoldersInv
<1>4. QED
  BY <1>2, <1>3

\* Every step keeps the history in order.
LEMMA NextHistory == HInv /\ [HNext]_allvars => HInv'
<1> SUFFICES ASSUME HInv, [HNext]_allvars PROVE HInv'
  OBVIOUS
<1>1. ASSUME UNCHANGED <<history, current>>
      PROVE  HistoryInv'
  BY <1>1 DEF HInv, HistoryInv
<1>2. cwd \in Dirs
  BY DEF HInv, FoldersInv
<1>3. ASSUME UNCHANGED vars
      PROVE  FoldersInv'
  BY <1>3 DEF HInv, FoldersInv, vars
<1>4. CASE Next /\ Follow
  BY <1>1, <1>2, <1>4, NextFolders, ResetHistory DEF Follow, HInv
<1>5. ASSUME NEW r \in Requests, NEW fwd \in BOOLEAN, Go(r, fwd)
      PROVE  HInv'
  <2> DEFINE to == IF fwd THEN current + 1 ELSE current - 1
  <2>1. /\ CanGo(fwd) /\ Ask(r, history[to])
        /\ current' = to /\ UNCHANGED history
    BY <1>5 DEF Go
  <2>2. to \in 1..Len(history)
    BY <2>1 DEF CanGo, HInv, HistoryInv
  <2>3. history[to] \in Dirs
    BY <2>2 DEF HInv, HistoryInv
  <2>4. FoldersInv'
    BY <2>1, <2>3, RequestFolders DEF Ask, HInv
  <2>5. HistoryInv'
    BY <2>1, <2>2 DEF HInv, HistoryInv
  <2>6. QED
    BY <2>4, <2>5 DEF HInv
<1>6. ASSUME NEW fwd \in BOOLEAN, GoRefused(fwd)
      PROVE  HInv'
  BY <1>2, <1>3, <1>6, ResetHistory DEF GoRefused, HInv
<1>7. CASE Opened
  <2>1. FoldersInv'
    BY <1>3, <1>7 DEF Opened
  <2>2. CASE update
    <3>1. history' = Recorded /\ current' = Len(Recorded)
      BY <1>7, <2>2 DEF Opened
    <3>2. QED
      BY <2>1, <3>1, RecordedIsShown DEF HInv, HistoryInv
  <2>3. CASE ~update
    BY <1>1, <1>7, <2>1, <2>3 DEF Opened, HInv
  <2>4. QED
    BY <2>2, <2>3
<1>8. CASE UNCHANGED allvars
  BY <1>1, <1>3, <1>8 DEF allvars, hvars, HInv
<1>9. QED
  BY <1>4, <1>5, <1>6, <1>7, <1>8 DEF HNext

\* At first nothing was visited but the root.
LEMMA InitHistory == HInit => HInv
<1> SUFFICES ASSUME HInit PROVE HInv
  OBVIOUS
<1>1. FoldersInv
  BY ConstantsAssumption DEF HInit, Init, FoldersInv
<1>2. <<Root>> \in Seq(Dirs) /\ Len(<<Root>>) = 1
  BY ConstantsAssumption
<1>3. QED
  BY <1>1, <1>2 DEF HInit, HInv, HistoryInv

-----------------------------------------------------------------------------
(* The history follows the folder.                                         *)

NoneGoneIsPending == \A g \in gone : dfrd[g] # "pending"

\* The folder that was in is shown, for one that go() asked for and that has gone.
InsteadOf(r) == dfrd[r] = "elsewhere" /\ history[current] = target[r] /\ cwd = Parent[target[r]]

Follows == history[current] = cwd \/ \E r \in gone : InsteadOf(r)

\* Once no open of go() is under way and no event is due, the history is at the folder
\* that is shown, or at the one that it is shown for.  An event that is due puts it there, unless it is not recorded; and
\* then the index is already at the folder of the open that go() has asked for.
FollowInv ==
    /\ due \in Nat /\ update \in BOOLEAN
    /\ gone \subseteq Navigations /\ \A g \in gone : UnderWay(g)
    /\ NoneGoneIsPending /\ due = 0 => update
    /\ NoneGoneIsPending /\ (due = 0 \/ (due = 1 /\ ~update)) => Follows
    /\ \A g \in gone : asked # <<>> /\ g = LastAsked /\ dfrd[g] = "pending" /\ due = 0 /\ ~update
                         => history[current] = target[g]

FInv == RInv /\ OversInv /\ HInv /\ FollowInv

\* Asking for an open is the one of go(), or another one that comes after it.
LEMMA LastStays ==
    ASSUME RestTypes, OpensSettle, NEW g \in Opens, UnderWay(g), asked' # <<>>, g = LastAsked'
    PROVE  asked # <<>> /\ g = LastAsked /\ UNCHANGED asked
<1>1. CASE UNCHANGED asked
  BY <1>1 DEF LastAsked
<1>2. ASSUME NEW r \in Opens, ~UnderWay(r), asked' = Append(asked, r)
      PROVE  FALSE
  <2>1. LastAsked' = r
    BY <1>2 DEF RestTypes, LastAsked
  <2>2. QED
    BY <1>2, <2>1
<1>3. QED
  BY <1>1, <1>2 DEF OpensSettle

\* The folders that are shown with a step are counted.
LEMMA DueCounts ==
    ASSUME due \in Nat, Follow
    PROVE  /\ due' \in Nat /\ due' >= due
           /\ (\E r \in Navigations : Settled(r, Arrivals)) => due' >= due + 1
           /\ ~(\E r \in Navigations : Settled(r, Arrivals)) => due' = due
<1> DEFINE shown == {r \in Navigations : Settled(r, Arrivals)}
<1>1. due' = due + Cardinality(shown)
  BY DEF Follow, Arrivals
<1>2. shown \in SUBSET Requests
  BY ConstantsAssumption DEF Opens
<1>3. IsFiniteSet(shown)
  BY <1>2, ConstantsAssumption, FS_Subset
<1>4. Cardinality(shown) \in Nat /\ (Cardinality(shown) = 0 <=> shown = {})
  BY <1>3, FS_CardinalityType, FS_EmptySet
<1>5. shown = {} <=> ~(\E r \in Navigations : Settled(r, Arrivals))
  OBVIOUS
<1> HIDE DEF shown
<1>6. QED
  BY <1>1, <1>4, <1>5

\* A place in the history that is right stays so as long as no folder is shown.
LEMMA FollowsStays ==
    ASSUME OpensSettle, gone \subseteq Opens, \A g \in gone : UnderWay(g), Follows,
           UNCHANGED <<history, current, cwd, gone>>
    PROVE  Follows'
<1>1. CASE history[current] = cwd
  BY <1>1 DEF Follows
<1>2. ASSUME NEW r \in gone, InsteadOf(r)
      PROVE  Follows'
  <2>1. dfrd'[r] = dfrd[r] /\ target'[r] = target[r]
    BY <1>2 DEF OpensSettle, InsteadOf
  <2>2. InsteadOf(r)' /\ r \in gone'
    BY <1>2, <2>1 DEF InsteadOf
  <2>3. QED
    BY <2>2 DEF Follows
<1>3. QED
  BY <1>1, <1>2 DEF Follows

\* A step of the requests, as the history follows it.
LEMMA FollowKeeps ==
    ASSUME FInv, RInv', Next, Follow
    PROVE  FollowInv'
<1> DEFINE resolved == \E r \in Navigations : Settled(r, Arrivals)
           refused == \E r \in gone : Settled(r, {"rejected", "failed"})
<1>1. RInv /\ RestTypes /\ OversInv /\ OpensSettle /\ FollowInv /\ Navigations \subseteq Opens
  BY NextSettles, ConstantsAssumption DEF FInv, RInv
<1>2. /\ due' \in Nat /\ due' >= due /\ due \in Nat
      /\ resolved => due' >= due + 1
      /\ ~resolved => due' = due
  BY <1>1, DueCounts DEF FollowInv
<1>3. gone' = gone /\ gone \subseteq Opens /\ \A g \in gone : UnderWay(g)
  BY <1>1 DEF Follow, FollowInv
<1>4. \A g \in gone : UnderWay(g)' /\ target'[g] = target[g]
  BY <1>1, <1>3 DEF OpensSettle
<1>5. ~resolved => cwd' = cwd
  BY <1>1 DEF OpensSettle, Settled
<1>6. \A r \in Opens : dfrd'[r] \in DStates
  <2>1. dfrd' \in [Requests -> DStates]
    BY DEF RInv, ListsInv, Orderly, ListTypes
  <2>2. QED
    BY <2>1 DEF Opens
<1>7. CASE refused
  <2>1. history' = <<cwd>> /\ current' = 1 /\ update' = TRUE
    BY <1>7 DEF Follow, Reset
  <2>2. due' = 0 => Follows'
    BY <1>2, <1>5, <2>1 DEF Follows
  <2> HIDE DEF resolved, refused
  <2>3. QED
    BY <1>1, <1>2, <1>3, <1>4, <2>1, <2>2 DEF FollowInv
<1>8. CASE ~refused
  <2>1. UNCHANGED <<history, current, update>>
    BY <1>8 DEF Follow
  <2>2. ASSUME NEW g \in gone, dfrd[g] = "pending", dfrd'[g] # "pending"
        PROVE  /\ asked # <<>> /\ g = LastAsked /\ dfrd'[g] \in Arrivals
               /\ cwd' = DataCwd(g, dfrd'[g])
               /\ resolved
    <3>1. g \in Opens /\ g \in Navigations
      BY <1>1, <1>3 DEF FollowInv
    <3>2. dfrd'[g] \in Arrivals
      BY <1>6, <1>8, <2>2, <3>1 DEF Settled, DStates, Arrivals
    <3>3. QED
      BY <1>1, <2>2, <3>1, <3>2 DEF OpensSettle, Settled
  <2> HIDE DEF resolved, refused
  <2>3. ASSUME NoneGoneIsPending', due' = 0
        PROVE  update' /\ Follows'
    <3>1. ~resolved /\ due = 0
      BY <1>2, <2>3
    <3>2. NoneGoneIsPending
      BY <1>3, <2>2, <2>3, <3>1 DEF NoneGoneIsPending
    <3>3. update
      BY <1>1, <3>1, <3>2 DEF FollowInv
    <3>4. Follows
      BY <1>1, <3>1, <3>2 DEF FollowInv
    <3>5. QED
      BY <1>1, <1>3, <1>5, <2>1, <3>1, <3>3, <3>4, FollowsStays
  <2>4. ASSUME NoneGoneIsPending', due' = 1, ~update'
        PROVE  Follows'
    <3>1. CASE resolved
      <4>1. due = 0 /\ ~update
        BY <1>2, <2>1, <2>4, <3>1
      <4>2. PICK g \in gone : dfrd[g] = "pending"
        BY <1>1, <4>1 DEF FollowInv, NoneGoneIsPending
      <4>3. /\ asked # <<>> /\ g = LastAsked /\ dfrd'[g] \in Arrivals
            /\ cwd' = DataCwd(g, dfrd'[g])
        BY <1>3, <2>2, <2>4, <4>2 DEF NoneGoneIsPending
      <4>4. history'[current'] = target'[g] /\ target'[g] = target[g] /\ g \in gone'
        BY <1>1, <1>3, <1>4, <2>1, <4>1, <4>2, <4>3 DEF FollowInv
      <4>5. QED
        BY <4>3, <4>4 DEF Follows, InsteadOf, DataCwd, Arrivals
    <3>2. CASE ~resolved
      <4>1. NoneGoneIsPending /\ due = 1 /\ ~update /\ cwd' = cwd
        BY <1>2, <1>3, <1>5, <2>1, <2>2, <2>4, <3>2 DEF NoneGoneIsPending
      <4>2. Follows
        BY <1>1, <4>1 DEF FollowInv
      <4>3. QED
        BY <1>1, <1>3, <2>1, <4>1, <4>2, FollowsStays
    <3>3. QED
      BY <3>1, <3>2
  <2>5. ASSUME NEW g \in gone, asked' # <<>>, g = LastAsked', dfrd'[g] = "pending",
               due' = 0, ~update'
        PROVE  history'[current'] = target'[g]
    <3>1. asked # <<>> /\ g = LastAsked
      BY <1>1, <1>3, <2>5, LastStays
    <3>2. dfrd[g] = "pending"
      BY <1>1, <1>3, <2>5 DEF OpensSettle
    <3>3. due = 0 /\ ~update
      BY <1>2, <2>1, <2>5
    <3>4. QED
      BY <1>1, <1>4, <2>1, <3>1, <3>2, <3>3 DEF FollowInv
  <2>6. update' \in BOOLEAN /\ gone' \subseteq Navigations /\ \A g \in gone' : UnderWay(g)'
    BY <1>1, <1>3, <1>4, <2>1 DEF FollowInv
  <2>7. QED
    BY <1>2, <1>3, <2>3, <2>4, <2>5, <2>6 DEF FollowInv
<1>9. QED
  BY <1>7, <1>8

\* Back and forward: the index is at once where the open will lead.
LEMMA GoKeeps ==
    ASSUME FInv, NEW r \in Requests, NEW fwd \in BOOLEAN, Go(r, fwd)
    PROVE  RInv' /\ OversInv' /\ FollowInv'
<1> DEFINE to == IF fwd THEN current + 1 ELSE current - 1
<1>1. /\ CanGo(fwd) /\ r \in Navigations /\ Ask(r, history[to])
      /\ current' = to /\ update' = FALSE /\ gone' = gone \cup {r} /\ UNCHANGED <<history, due>>
  BY DEF Go
<1>2. to \in 1..Len(history) /\ history[to] \in Dirs
  <2>1. to \in 1..Len(history)
    BY <1>1 DEF CanGo, FInv, HInv, HistoryInv
  <2>2. QED
    BY <2>1 DEF FInv, HInv, HistoryInv
<1> HIDE DEF to
<1>3. Next
  BY <1>1, <1>2 DEF Next
<1>4. RInv' /\ OversInv' /\ OpensSettle
  BY <1>3, NextLast, NextSettles DEF FInv
<1>5. /\ r \in Opens /\ opening = None /\ Request(r, history[to]) /\ place[r] = "new"
      /\ asked' = Append(asked, r) /\ target' = [target EXCEPT ![r] = history[to]]
  BY <1>1, ConstantsAssumption DEF Ask, EventLoop, Request
<1>6. asked' # <<>> /\ LastAsked' = r /\ target'[r] = history[to]
  BY <1>5 DEF FInv, RInv, RestTypes, LastAsked
<1>7. AskedOpen(r)
  BY <1>5, RequestKeeps DEF FInv, RInv
<1>8. dfrd'[r] = "pending"
  <2>1. dfrd[r] = "pending"
    BY <1>5, OpensArePending DEF FInv, RInv
  <2>2. QED
    BY <1>7, <2>1 DEF AskedOpen
<1>9. UnderWay(r)'
  <2>1. place \in [Requests -> Places]
    BY DEF FInv, RInv, ListsInv, Orderly, ListTypes
  <2>2. QED
    BY <1>7, <2>1 DEF AskedOpen, UnderWay
<1>10. \A g \in gone : UnderWay(g)'
  BY <1>4, ConstantsAssumption DEF OpensSettle, FInv, FollowInv
<1>11. ~NoneGoneIsPending'
  BY <1>1, <1>8 DEF NoneGoneIsPending
<1>12. QED
  BY <1>1, <1>4, <1>6, <1>9, <1>10, <1>11 DEF FInv, FollowInv

\* Nothing of the requests moves.
LEMMA RequestsRest ==
    ASSUME RInv, OversInv, UNCHANGED vars
    PROVE  /\ RInv' /\ OversInv'
           /\ UNCHANGED <<place, dfrd, target, cwd, opening, asked, LastAsked>>
           /\ \A r \in Requests : UnderWay(r) => UnderWay(r)'
<1>1. RInv'
  BY NextLast
<1>2. UNCHANGED <<place, dfrd, target, cwd, opening, asked, LastAsked>>
  BY DEF vars, LastAsked
<1>3. QED
  BY <1>1, <1>2 DEF OversInv, UnderWay

\* Every step of requests, buttons and events keeps the history on the folder.
LEMMA NextFollows == FInv /\ [HNext]_allvars => FInv'
<1> SUFFICES ASSUME FInv, [HNext]_allvars PROVE FInv'
  OBVIOUS
<1>1. HInv'
  BY NextHistory DEF FInv
<1> SUFFICES RInv' /\ OversInv' /\ FollowInv'
  BY <1>1 DEF FInv
<1>2. FollowInv /\ gone \subseteq Requests /\ cwd \in Dirs
  BY ConstantsAssumption DEF FInv, FollowInv, Opens, HInv, FoldersInv
<1>3. CASE Next /\ Follow
  <2>1. RInv' /\ OversInv'
    BY <1>3, NextLast, NextSettles DEF FInv
  <2>2. QED
    BY <1>3, <2>1, FollowKeeps
<1>4. ASSUME NEW r \in Requests, NEW fwd \in BOOLEAN, Go(r, fwd)
      PROVE  RInv' /\ OversInv' /\ FollowInv'
  BY <1>4, GoKeeps
<1>5. ASSUME UNCHANGED vars
      PROVE  /\ RInv' /\ OversInv' /\ UNCHANGED <<dfrd, target, cwd, asked, LastAsked>>
             /\ \A g \in gone : UnderWay(g)'
  BY <1>2, <1>5, RequestsRest DEF FInv, FollowInv
<1>6. ASSUME NEW fwd \in BOOLEAN, GoRefused(fwd)
      PROVE  RInv' /\ OversInv' /\ FollowInv'
  <2>1. /\ UNCHANGED <<gone, due>> /\ UNCHANGED vars
        /\ history' = <<cwd>> /\ current' = 1 /\ update' = TRUE
    BY <1>6 DEF GoRefused, Reset
  <2>2. /\ RInv' /\ OversInv' /\ UNCHANGED <<dfrd, target, cwd, asked, LastAsked>>
        /\ \A g \in gone : UnderWay(g)'
    BY <1>5, <2>1
  <2>3. Follows'
    BY <2>1, <2>2 DEF Follows
  <2>4. QED
    BY <1>2, <2>1, <2>2, <2>3 DEF FollowInv
<1>7. CASE Opened
  <2>1. /\ UNCHANGED <<gone>> /\ UNCHANGED vars /\ due > 0 /\ due' = due - 1 /\ update' = TRUE
        /\ history' = IF update THEN Recorded ELSE history
        /\ current' = IF update THEN Len(Recorded) ELSE current
    BY <1>7 DEF Opened
  <2>2. /\ RInv' /\ OversInv' /\ UNCHANGED <<dfrd, target, cwd, asked, LastAsked>>
        /\ \A g \in gone : UnderWay(g)'
    BY <1>5, <2>1
  <2>3. due' \in Nat /\ (due' = 0 => due = 1)
    BY <1>2, <2>1 DEF FollowInv
  <2>4. ASSUME NoneGoneIsPending', due' = 0
        PROVE  Follows'
    <3>1. NoneGoneIsPending
      BY <2>1, <2>2, <2>4 DEF NoneGoneIsPending
    <3>2. CASE update
      BY <2>1, <2>2, <3>2, RecordedIsShown DEF FInv, HInv, Follows
    <3>3. CASE ~update
      <4>1. Follows /\ UNCHANGED <<history, current>>
        BY <1>2, <2>1, <2>3, <2>4, <3>1, <3>3 DEF FollowInv
      <4>2. QED
        BY <2>1, <2>2, <4>1 DEF Follows, InsteadOf
    <3>4. QED
      BY <3>2, <3>3
  <2>5. QED
    BY <1>2, <2>1, <2>2, <2>3, <2>4 DEF FollowInv
<1>8. CASE UNCHANGED allvars
  <2>1. UNCHANGED vars /\ UNCHANGED <<history, current, update, gone, due>>
    BY <1>8 DEF allvars, hvars
  <2>2. /\ RInv' /\ OversInv' /\ UNCHANGED <<dfrd, target, cwd, asked, LastAsked>>
        /\ \A g \in gone : UnderWay(g)'
    BY <1>5, <2>1
  <2>3. NoneGoneIsPending' <=> NoneGoneIsPending
    BY <2>1, <2>2 DEF NoneGoneIsPending
  <2>4. Follows => Follows'
    BY <2>1, <2>2 DEF Follows, InsteadOf
  <2>5. FollowInv'
    BY <1>2, <2>1, <2>2, <2>3, <2>4 DEF FollowInv
  <2>6. QED
    BY <2>2, <2>5
<1>9. QED
  BY <1>3, <1>4, <1>6, <1>7, <1>8 DEF HNext

\* However fast back, forward and opens are pressed, and whichever of them fail, come
\* late or are overtaken: when all is done the history is at the folder that is shown, or at one
\* that go() asked for and that has gone, of which the folder it was in is shown.
THEOREM HistoryIsTrue == HSpec => []HistoryFollows
<1>1. HInit => FInv
  <2> SUFFICES ASSUME HInit PROVE FInv
    OBVIOUS
  <2>1. RInv
    BY InitLast DEF HInit
  <2>2. OversInv
    BY DEF HInit, Init, OversInv, Opens
  <2>3. HInv
    BY InitHistory
  <2>4. FollowInv
    BY DEF HInit, Init, FollowInv, NoneGoneIsPending, Follows
  <2>5. QED
    BY <2>1, <2>2, <2>3, <2>4 DEF FInv
<1>2. FInv => HistoryFollows
  <2> SUFFICES ASSUME FInv, EventLoop, due = 0,
                      \A r \in Navigations : place[r] \notin {"waits", "wire"}
               PROVE  Follows /\ update
    BY DEF HistoryFollows, Follows, InsteadOf
  <2>1. ASSUME NEW g \in gone
        PROVE  dfrd[g] # "pending"
    <3>1. g \in Navigations /\ g \in Opens /\ g \in Requests /\ UnderWay(g)
      BY ConstantsAssumption DEF FInv, FollowInv, Opens
    <3>2. place[g] \in Places /\ place[g] # "dropped"
      BY <3>1 DEF FInv, RInv, ListsInv, Orderly, ListTypes, Undecided
    <3>3. opening # g
      BY <3>1, ConstantsAssumption DEF EventLoop
    <3>4. place[g] = "over"
      BY <3>1, <3>2, <3>3 DEF UnderWay, Places
    <3>5. QED
      BY <3>1, <3>4 DEF FInv, OversInv
  <2>2. FollowInv /\ NoneGoneIsPending
    BY <2>1 DEF FInv, NoneGoneIsPending
  <2>3. update
    BY <2>2 DEF FollowInv
  <2>4. Follows
    BY <2>2 DEF FollowInv
  <2>5. QED
    BY <2>3, <2>4
<1>3. QED
  BY <1>1, <1>2, NextFollows, PTL DEF HSpec

=============================================================================
