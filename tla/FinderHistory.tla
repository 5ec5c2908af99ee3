---------------------------- MODULE FinderHistory ----------------------------
(***************************************************************************)
(* The folders visited, and the buttons back and forward (elFinder.history *)
(* in js/elfinder.full.js), on top of the requests of FinderRequests.      *)
(*                                                                         *)
(* go() moves the index at once and asks for the folder; the list itself   *)
(* is brought up to date by the `open` event, which is fired a frame or    *)
(* more after the answer has changed the folder.  In between, and while    *)
(* the request is under way, any other button may be pressed.              *)
(***************************************************************************)
EXTENDS FinderRequests

VARIABLES
    history,        \* folders visited
    current,        \* the place in it of the folder that is shown
    update,         \* is the next `open` event recorded?
    gone,           \* the opens that go() has asked for, with `.fail(reset)`
    due             \* answers whose `open` event is still to be fired

hvars == <<history, current, update, gone, due>>
allvars == <<vars, hvars>>

HInit ==
    /\ Init
    /\ history = <<Root>>
    /\ current = 1
    /\ update = TRUE
    /\ gone = {}
    /\ due = 0

-----------------------------------------------------------------------------
(* Plausible faults.                                                       *)

\* go() without .fail(reset).
Reset_Not(f) == UNCHANGED <<history, current, update>>

-----------------------------------------------------------------------------
\* reset(): nothing was visited but the folder that is shown.
Reset(f) ==
    /\ history' = <<f>>
    /\ current' = 1
    /\ update' = TRUE

Settled(r, state) == dfrd[r] = "pending" /\ dfrd'[r] \in state

\* What the history makes of a step of the requests.
Follow ==
    /\ IF \E r \in gone : Settled(r, {"rejected", "failed"})
       THEN Reset(cwd)
       ELSE UNCHANGED <<history, current, update>>
    /\ due' = due + Cardinality({r \in Navigations : Settled(r, {"resolved", "elsewhere"})})
    /\ UNCHANGED gone

CanGo(fwd) == IF fwd THEN current < Len(history) ELSE current > 1

\* go(): the folder is asked for with open.
Go(r, fwd) ==
    LET to == IF fwd THEN current + 1 ELSE current - 1
    IN  /\ CanGo(fwd)
        /\ r \in Navigations
        /\ Ask(r, history[to])
        /\ current' = to
        /\ update' = FALSE
        /\ gone' = gone \cup {r}
        /\ UNCHANGED <<history, due>>

\* go(), and the open command refuses: the folder is not in the cache any more, or
\* may not be read.
GoRefused(fwd) ==
    /\ EventLoop /\ ~left
    /\ CanGo(fwd)
    /\ Reset(cwd)
    /\ UNCHANGED <<vars, gone, due>>

\* The list after an `open` event that is recorded: what was ahead is forgotten.
Recorded ==
    LET past == SubSeq(history, 1, current)
    IN  IF cwd = past[current] THEN past ELSE Append(past, cwd)

\* The `open` event.
Opened ==
    /\ EventLoop /\ ~left
    /\ due > 0
    /\ due' = due - 1
    /\ history' = IF update THEN Recorded ELSE history
    /\ current' = IF update THEN Len(Recorded) ELSE current
    /\ update' = TRUE
    /\ UNCHANGED <<vars, gone>>

HNext ==
    \/ Next /\ Follow
    \/ \E r \in Requests, fwd \in BOOLEAN : Go(r, fwd)
    \/ \E fwd \in BOOLEAN : GoRefused(fwd)
    \/ Opened

HSpec == HInit /\ [][HNext]_allvars /\ Fairness /\ WF_allvars(Opened)

-----------------------------------------------------------------------------
(* Properties.                                                             *)

HTypeOK ==
    /\ history \in Seq(Dirs)
    /\ current \in DOMAIN history
    /\ update \in BOOLEAN
    /\ gone \subseteq Navigations
    /\ due \in 0..Cardinality(Navigations)

\* However fast the buttons are pressed and whatever fails: when no open of the user
\* is under way and every `open` event has been fired, the history is at the folder
\* that is shown, so that back leads to the one before it.  Only back or forward to a
\* folder that has gone leaves it there, while the folder that was in is shown.
HistoryFollows ==
    EventLoop /\ due = 0 /\ (\A r \in Navigations : place[r] \notin {"waits", "wire"})
      => /\ update
         /\ \/ history[current] = cwd
            \/ \E r \in gone : /\ dfrd[r] = "elsewhere"
                             /\ history[current] = target[r] /\ cwd = Parent[target[r]]
=============================================================================
