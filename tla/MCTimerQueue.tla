---------------------------- MODULE MCTimerQueue ----------------------------
(***************************************************************************)
(* Values of TimerQueue's constants for TLC, and its specification with    *)
(* two history variables, for what holds only until the wall clock is set  *)
(* or a timer is asked for in the past.                                    *)
(***************************************************************************)
EXTENDS TimerQueue

VARIABLES wasSet, wasPast

mcVars == <<vars, wasSet, wasPast>>

\* runAt with a time in the past, now, and in the future.
MCOffsets == {-1, 0, 2}

MCInit == Init /\ wasSet = FALSE /\ wasPast = FALSE

Noted ==
  /\ wasSet' = (wasSet \/ skew' # skew)
  /\ wasPast' = (wasPast \/ (InUserCode /\ \E p \in timers_' \ timers_ : p[1] < Wall))

MCNext ==
  \/ (Tick /\ Noted) \/ (SetWallClock /\ Noted) \/ (Expire /\ Noted)
  \/ (RunAt /\ Noted) \/ (RunEvery /\ Noted) \/ (\E timer \in Addr : Cancel(timer) /\ Noted)
  \/ (Poll /\ Noted) \/ (EndBatch /\ Noted) \/ (HandleIo /\ Noted) \/ (IoReturns /\ Noted)
  \/ (HandleRead /\ Noted) \/ (ReadFails /\ Noted) \/ (RunTimer /\ Noted)
  \/ (CallbackReturns /\ Noted) \/ (Reset /\ Noted)

MCSpec == MCInit /\ [][MCNext]_mcVars /\ Fairness

\* While the wall clock is not set, the timerfd expires no later than the earliest pending
\* timer is due, or MinDelay from now if that is later, and no callback is started before
\* its timer is due.
Punctual == ~wasSet => ArmedInTime /\ NeverEarly

\* A due timer is served: it leaves timers_, because handleRead has collected it or
\* the user has cancelled it, unless readTimerfd's assert has stopped the process.
\* (Only if the clock is not set and nobody calls runAt with a time in the past: whoever
\* keeps doing that sets the timerfd again each time, before it has expired.)
DueIsServed ==
  \A a \in Addr : (\E p \in timers_ : p[2] = a /\ p[1] <= Wall)
                     ~> (a \notin Timers(timers_) \/ pc = "aborted" \/ wasSet \/ wasPast)
=============================================================================
