-------------------------- MODULE TimerQueueProofs --------------------------
(***************************************************************************)
(* Theorems about TimerQueue, for every set of addresses, every offset and *)
(* interval, every bound on time, and every way the wall clock is set.     *)
(* MCTimerQueue is extended for its history variable wasSet: Punctual is   *)
(* about the time until somebody sets the wall clock.                      *)
(***************************************************************************)
EXTENDS MCTimerQueue, TLAPS

(***************************************************************************)
(* The safety properties of the queue are inductive only together with     *)
(* what handleRead's local variables hold at each point of its body, and   *)
(* with who may still be cancelled while a batch runs.                     *)
(***************************************************************************)
BatchOK ==
  /\ callingExpiredTimers_ <=> InHandleRead
  /\ ~InHandleRead => expired = {}
  /\ pc # "callback" => running = NoTimer
  /\ pc = "callback" => running \in Timers(expired) \ Timers(toRun)
  /\ InHandleRead => now > 0

\* Timestamps in use are valid(), so that reset always sets the timerfd again.
KeysValid == \A p \in timers_ \cup expired : p[1] > 0

\* Of a batch, the user holds handles to the timers that will be started again and to
\* those that have not run, except the ones that cancelingTimers_ holds.
BatchHandles ==
  InHandleRead =>
    /\ cancelingTimers_ \subseteq Timers(expired)
    /\ cancelingTimers_ \cap handles = {}
    /\ \A a \in Timers(expired) :
         interval_[a] > 0 \/ a \in Timers(toRun) => a \in handles \cup cancelingTimers_
    /\ \A a \in Timers(expired) \ Timers(toRun) :
         interval_[a] = 0 /\ a \in handles => a = running

\* Inductive together with TypeOK.
Safe ==
  /\ OwnedOnce
  /\ NoDanglingHandle
  /\ CancelledStaysCancelled
  /\ BatchOK
  /\ KeysValid
  /\ BatchHandles
-----------------------------------------------------------------------------
LEMMA InitType == Init => TypeOK
  <1> SUFFICES ASSUME Init PROVE TypeOK
    OBVIOUS
  <1>1. active \in Seq({"timerfd", "io"})
    BY DEF Init
  <1>2. \E s \in Skews : skew = s
    BY DEF Init
  <1>3. /\ expiration_ \in [Addr -> Int] /\ interval_ \in [Addr -> Nat]
        /\ clock \in Nat /\ now \in Nat
    BY DEF Init
  <1> QED BY <1>1, <1>2, <1>3 DEF Init, TypeOK

\* Setting the timerfd always leaves it armed: howMuchTimeFromNow is positive.
LEMMA ResetArms ==
  ASSUME TypeOK, NEW when \in Int, ResetTimerfd(when)
  PROVE  /\ deadline' \in Nat /\ fired' = FALSE
         /\ deadline' # Disarmed
  BY TimeAssumption DEF TypeOK, ResetTimerfd, Later, Wall, Disarmed

LEMMA AddTimerType ==
  ASSUME TypeOK, NEW timer \in Addr, NEW when \in Int, NEW interval \in Nat,
         AddTimer(timer, when, interval)
  PROVE  TypeOK'
  <1>1. deadline' \in Nat \cup {Disarmed} /\ fired' \in BOOLEAN
    <2>1. CASE EarliestChanged(when)
      BY <2>1, ResetArms DEF AddTimer
    <2>2. CASE ~EarliestChanged(when)
      BY <2>2 DEF AddTimer, TypeOK
    <2> QED BY <2>1, <2>2
  <1>2. timers_' \subseteq Pairs
    BY DEF AddTimer, TypeOK, Pairs
  <1> QED BY <1>1, <1>2
    DEF AddTimer, TypeOK, batchVars, loopVars

LEMMA ResetType ==
  ASSUME TypeOK, Reset
  PROVE  TypeOK'
  <1> DEFINE again == {a \in Timers(expired) : Restarts(a)}
  <1>1. Timers(expired) \subseteq Addr
    BY DEF TypeOK, Timers, Pairs
  <1>2. /\ expiration_' \in [Addr -> Int]
        /\ timers_' \subseteq Pairs
    BY <1>1 DEF Reset, TypeOK, Pairs
  <1>3. deadline' \in Nat \cup {Disarmed} /\ fired' \in BOOLEAN
    <2>1. CASE UNCHANGED <<deadline, fired>>
      BY <2>1 DEF TypeOK
    <2>2. CASE \E next \in {p[1] : p \in timers_'} : ResetTimerfd(next)
      <3>1. PICK next \in {p[1] : p \in timers_'} : ResetTimerfd(next)
        BY <2>2
      <3>2. next \in Int
        BY <1>2 DEF Pairs
      <3> QED BY <3>1, <3>2, ResetArms
    <2> QED BY <2>1, <2>2 DEF Reset, Rearm
  <1> QED BY <1>2, <1>3 DEF Reset, BatchDone, TypeOK

LEMMA TailType ==
  ASSUME TypeOK, active # <<>>
  PROVE  Tail(active) \in Seq({"timerfd", "io"})
  BY DEF TypeOK

LEMMA NextType == TypeOK /\ [Next]_vars => TypeOK'
  <1> SUFFICES ASSUME TypeOK, [Next]_vars PROVE TypeOK'
    OBVIOUS
  <1>1. CASE Tick
    BY <1>1 DEF Tick, TypeOK, heapVars, queueVars, batchVars, loopVars
  <1>2. CASE SetWallClock
    BY <1>2 DEF SetWallClock, TypeOK, heapVars, queueVars, batchVars, loopVars
  <1>3. CASE Expire
    BY <1>3 DEF Expire, TypeOK, heapVars, queueVars, batchVars, loopVars
  <1>4. CASE RunAt
    <2>1. PICK timer \in Addr, d \in Offsets : AddTimer(timer, Wall + d, 0)
      BY <1>4 DEF RunAt
    <2>2. Wall + d \in Int
      BY TimeAssumption DEF TypeOK, Wall
    <2> QED BY <2>1, <2>2, AddTimerType
  <1>5. CASE RunEvery
    <2>1. PICK timer \in Addr, interval \in Intervals :
            AddTimer(timer, Wall + interval, interval)
      BY <1>5 DEF RunEvery
    <2>2. Wall + interval \in Int /\ interval \in Nat
      BY TimeAssumption DEF TypeOK, Wall
    <2> QED BY <2>1, <2>2, AddTimerType
  <1>6. ASSUME NEW timer \in Addr, Cancel(timer) PROVE TypeOK'
    BY <1>6 DEF Cancel, TypeOK, kernelVars, batchVars, loopVars
  <1>7. CASE Poll
    <2>1. \/ active' = <<"timerfd">> \/ active' = <<"timerfd", "io">>
          \/ active' = <<"io", "timerfd">> \/ active' = <<"io">>
      BY <1>7 DEF Poll
    <2>2. active' \in Seq({"timerfd", "io"})
      <3>1. <<"timerfd">> \in Seq({"timerfd", "io"}) /\ <<"io">> \in Seq({"timerfd", "io"})
        OBVIOUS
      <3>2. <<"timerfd", "io">> \in Seq({"timerfd", "io"})
        OBVIOUS
      <3>3. <<"io", "timerfd">> \in Seq({"timerfd", "io"})
        OBVIOUS
      <3> QED BY <2>1, <3>1, <3>2, <3>3
    <2> QED BY <1>7, <2>2 DEF Poll, TypeOK, kernelVars, heapVars, queueVars, batchVars
  <1>8. CASE EndBatch
    BY <1>8 DEF EndBatch, TypeOK, kernelVars, heapVars, queueVars, batchVars
  <1>9. CASE HandleIo
    BY <1>9, TailType DEF HandleIo, TypeOK, kernelVars, heapVars, queueVars, batchVars
  <1>10. CASE IoReturns
    BY <1>10 DEF IoReturns, TypeOK, kernelVars, heapVars, queueVars, batchVars
  <1>11. CASE HandleRead
    <2>1. Wall \in Nat
      BY TimeAssumption DEF TypeOK, Wall
    <2> QED BY <1>11, <2>1, TailType
      DEF HandleRead, ClearCanceling, Collected, Remaining, TypeOK, heapVars
  <1>12. CASE ReadFails
    BY <1>12 DEF ReadFails, TypeOK, kernelVars, heapVars, queueVars, batchVars
  <1>13. CASE RunTimer
    <2>1. PICK p \in toRun : toRun' = toRun \ {p} /\ running' = p[2]
      BY <1>13 DEF RunTimer
    <2>2. p[2] \in Addr
      BY DEF TypeOK, Pairs
    <2> QED BY <1>13, <2>1, <2>2 DEF RunTimer, TypeOK, kernelVars, heapVars, queueVars
  <1>14. CASE CallbackReturns
    BY <1>14 DEF CallbackReturns, TypeOK, kernelVars, heapVars, queueVars
  <1>15. CASE Reset
    BY <1>15, ResetType
  <1>16. CASE UNCHANGED vars
    BY <1>16 DEF TypeOK, vars, kernelVars, heapVars, queueVars, batchVars, loopVars
  <1> QED
    BY <1>1, <1>2, <1>3, <1>4, <1>5, <1>6, <1>7, <1>8, <1>9, <1>10, <1>11, <1>12,
       <1>13, <1>14, <1>15, <1>16 DEF Next, LoopStep

\* Every variable of the event loop and its timer queue keeps its type.
THEOREM TypeCorrect == Spec => []TypeOK
  BY InitType, NextType, PTL DEF Spec
-----------------------------------------------------------------------------
LEMMA InitSafe == Init => Safe
  <1> SUFFICES ASSUME Init PROVE Safe
    OBVIOUS
  <1>1. Timers({}) = {}
    BY DEF Timers
  <1>2. ~InHandleRead /\ pc # "callback"
    BY DEF Init, InHandleRead
  <1>3. OwnedOnce /\ NoDanglingHandle /\ CancelledStaysCancelled
    <2>1. /\ timers_ = {} /\ expired = {} /\ toRun = {} /\ allocated = {} /\ handles = {}
      BY DEF Init
    <2> QED BY <1>1, <1>2, <2>1 DEF OwnedOnce, NoDanglingHandle, CancelledStaysCancelled
  <1>4. BatchOK /\ KeysValid /\ BatchHandles
    BY <1>2 DEF Init, BatchOK, KeysValid, BatchHandles
  <1> QED BY <1>3, <1>4 DEF Safe

\* Two entries of the set and the vector that name the same timer are the same entry.
LEMMA OneEntry ==
  ASSUME TypeOK, OwnedOnce, NEW p \in timers_ \cup expired, NEW q \in timers_ \cup expired,
         p[2] = q[2]
  PROVE  p = q
  <1>1. p[1] = q[1]
    BY DEF OwnedOnce
  <1>2. p \in Pairs /\ q \in Pairs
    BY DEF TypeOK
  <1> QED BY <1>1, <1>2 DEF Pairs

\* TimerQueue::cancel finds every timer that is in timers_.
LEMMA CancelFinds ==
  ASSUME TypeOK, OwnedOnce, NEW timer \in Addr
  PROVE  timer \in Timers(timers_) <=> <<expiration_[timer], timer>> \in timers_
  <1>1. ASSUME timer \in Timers(timers_) PROVE <<expiration_[timer], timer>> \in timers_
    <2>1. PICK p \in timers_ : p[2] = timer
      BY <1>1 DEF Timers
    <2>2. p = <<expiration_[timer], timer>>
      BY <2>1 DEF OwnedOnce, TypeOK, Pairs
    <2> QED BY <2>2
  <1>2. ASSUME <<expiration_[timer], timer>> \in timers_ PROVE timer \in Timers(timers_)
    BY <1>2 DEF Timers
  <1> QED BY <1>1, <1>2

\* Steps of the kernel and of the loop that leave the queue alone.
LEMMA QuietSafe ==
  ASSUME Safe,
         UNCHANGED <<heapVars, queueVars, batchVars, handles>>,
         \/ pc' = pc
         \/ /\ pc \in {"poll", "dispatch", "io"}
            /\ pc' \in {"poll", "dispatch", "io", "aborted"}
  PROVE  Safe'
  <1>1. InHandleRead' = InHandleRead /\ (pc' = "callback" <=> pc = "callback")
    <2>1. CASE pc' = pc
      BY <2>1 DEF InHandleRead
    <2>2. CASE /\ pc \in {"poll", "dispatch", "io"}
               /\ pc' \in {"poll", "dispatch", "io", "aborted"}
      BY <2>2 DEF InHandleRead
    <2> QED BY <2>1, <2>2
  <1>3. /\ Timers(timers_)' = Timers(timers_) /\ Timers(expired)' = Timers(expired)
        /\ Timers(toRun)' = Timers(toRun)
        /\ UNCHANGED <<allocated, expiration_, interval_, timers_, cancelingTimers_,
                       callingExpiredTimers_, expired, toRun, now, running, handles>>
    BY DEF heapVars, queueVars, batchVars, Timers
  <1>4. OwnedOnce' /\ NoDanglingHandle' /\ CancelledStaysCancelled'
    BY <1>1, <1>3 DEF Safe, OwnedOnce, NoDanglingHandle, CancelledStaysCancelled
  <1>5. BatchOK' /\ KeysValid'
    BY <1>1, <1>3 DEF Safe, BatchOK, KeysValid
  <1>6. BatchHandles'
    BY <1>1, <1>3 DEF Safe, BatchHandles
  <1> QED BY <1>4, <1>5, <1>6 DEF Safe

LEMMA TimersAdd ==
  ASSUME NEW S, NEW when, NEW timer
  PROVE  Timers(S \cup {<<when, timer>>}) = Timers(S) \cup {timer}
  <1>1. <<when, timer>>[2] = timer
    OBVIOUS
  <1>2. Timers(S \cup {<<when, timer>>}) \subseteq Timers(S) \cup {timer}
    BY <1>1 DEF Timers
  <1>3. Timers(S) \subseteq Timers(S \cup {<<when, timer>>})
    BY DEF Timers
  <1>4. timer \in Timers(S \cup {<<when, timer>>})
    BY <1>1 DEF Timers
  <1> QED BY <1>2, <1>3, <1>4

LEMMA AddTimerSafe ==
  ASSUME TypeOK, Safe, NEW timer \in Addr, NEW when \in Int, when > 0, NEW interval \in Nat,
         AddTimer(timer, when, interval)
  PROVE  Safe'
  <1> USE DEF Safe
  <1>1. /\ timer \notin allocated
        /\ timer \notin Timers(timers_) /\ timer \notin Timers(expired)
    BY DEF AddTimer, OwnedOnce
  <1>2. /\ Timers(timers_)' = Timers(timers_) \cup {timer}
        /\ Timers(expired)' = Timers(expired) /\ Timers(toRun)' = Timers(toRun)
        /\ \A a \in Addr \ {timer} : expiration_'[a] = expiration_[a]
                                      /\ interval_'[a] = interval_[a]
        /\ expiration_'[timer] = when
        /\ InHandleRead' = InHandleRead /\ pc' = pc
    <2>1. UNCHANGED <<expired, toRun, pc>> /\ timers_' = timers_ \cup {<<when, timer>>}
      BY DEF AddTimer, batchVars, loopVars
    <2>2. \A a \in Addr \ {timer} : expiration_'[a] = expiration_[a]
                                     /\ interval_'[a] = interval_[a]
      BY DEF AddTimer, TypeOK
    <2>3. expiration_'[timer] = when
      BY DEF AddTimer, TypeOK
    <2>4. InHandleRead' = InHandleRead
      BY <2>1 DEF InHandleRead
    <2>5. /\ Timers(timers_)' = Timers(timers_) \cup {timer}
          /\ Timers(expired)' = Timers(expired) /\ Timers(toRun)' = Timers(toRun)
      BY <2>1, TimersAdd DEF Timers
    <2> QED BY <2>1, <2>2, <2>3, <2>4, <2>5
  <1>3. \A p \in timers_ \cup expired : p[2] \in Addr \ {timer}
    BY <1>1 DEF Timers, TypeOK, Pairs
  <1>4. OwnedOnce'
    <2>1. allocated' = (Timers(timers_) \cup Timers(expired))'
      BY <1>2 DEF AddTimer, OwnedOnce
    <2>2. (Timers(timers_) \cap Timers(expired) = {})'
      BY <1>1, <1>2 DEF OwnedOnce
    <2>3. \A p \in timers_' \cup expired' : p[1] = expiration_'[p[2]]
      BY <1>2, <1>3 DEF AddTimer, OwnedOnce, batchVars
    <2> QED BY <2>1, <2>2, <2>3 DEF OwnedOnce
  <1>5. NoDanglingHandle'
    BY DEF AddTimer, NoDanglingHandle, batchVars, loopVars
  <1>6. CancelledStaysCancelled'
    BY <1>2 DEF AddTimer, CancelledStaysCancelled
  <1>7. BatchOK' /\ KeysValid'
    BY <1>2 DEF AddTimer, BatchOK, KeysValid, batchVars
  <1>8. BatchHandles'
    <2> SUFFICES ASSUME InHandleRead PROVE BatchHandles'
      BY <1>2 DEF BatchHandles
    <2>1. Timers(expired) \subseteq Addr \ {timer}
      BY <1>1, <1>3 DEF Timers
    <2>2. \A a \in Timers(expired) : interval_'[a] = interval_[a]
      BY <1>2, <2>1
    <2>3. cancelingTimers_' = cancelingTimers_ /\ handles' = handles \cup {timer}
          /\ running' = running
      BY DEF AddTimer, batchVars
    <2> QED BY <1>1, <1>2, <2>1, <2>2, <2>3 DEF BatchHandles
  <1> QED BY <1>4, <1>5, <1>6, <1>7, <1>8

LEMMA CancelSafe ==
  ASSUME TypeOK, Safe, NEW timer \in Addr, Cancel(timer)
  PROVE  Safe'
  <1> USE DEF Safe
  <1> DEFINE key == <<expiration_[timer], timer>>
  <1>1. /\ InHandleRead' = InHandleRead /\ pc' = pc
        /\ UNCHANGED <<expiration_, interval_, callingExpiredTimers_, expired, toRun, now, running>>
        /\ handles' = handles \ {timer} /\ timer \in handles
        /\ Timers(expired)' = Timers(expired) /\ Timers(toRun)' = Timers(toRun)
    BY DEF Cancel, batchVars, loopVars, InHandleRead, Timers
  <1>2. CASE /\ key \in timers_
             /\ timers_' = timers_ \ {key}
             /\ allocated' = allocated \ {timer}
             /\ UNCHANGED cancelingTimers_
    <2>1. timer \in Timers(timers_) /\ timer \notin Timers(expired)
      BY <1>2, CancelFinds DEF OwnedOnce
    <2>2. Timers(timers_)' = Timers(timers_) \ {timer}
      <3>1. ASSUME NEW p \in timers_, p[2] = timer PROVE p = key
        BY <1>2, <3>1, OneEntry
      <3> QED BY <1>2, <3>1 DEF Timers
    <2>3. OwnedOnce'
      BY <1>1, <1>2, <2>1, <2>2 DEF OwnedOnce
    <2>4. NoDanglingHandle'
      <3>1. pc = "callback" => running # timer
        BY <2>1 DEF BatchOK
      <3> QED BY <1>1, <1>2, <3>1 DEF NoDanglingHandle
    <2>5. CancelledStaysCancelled'
      <3>1. timer \notin Timers(toRun)
        BY <2>1 DEF TypeOK, Timers
      <3> QED BY <1>1, <1>2, <2>2, <3>1 DEF CancelledStaysCancelled
    <2>6. BatchOK' /\ KeysValid'
      BY <1>1, <1>2 DEF BatchOK, KeysValid
    <2>7. BatchHandles'
      BY <1>1, <1>2, <2>1 DEF BatchHandles
    <2> QED BY <2>3, <2>4, <2>5, <2>6, <2>7
  <1>3. CASE /\ key \notin timers_
             /\ cancelingTimers_' = IF callingExpiredTimers_
                                    THEN cancelingTimers_ \cup {timer} ELSE cancelingTimers_
             /\ UNCHANGED <<timers_, allocated>>
    <2>1. timer \in Timers(expired) /\ timer \notin Timers(timers_)
      BY <1>1, <1>3, CancelFinds DEF OwnedOnce, NoDanglingHandle
    <2>2. InHandleRead /\ callingExpiredTimers_
      BY <2>1 DEF BatchOK, Timers
    <2>3. cancelingTimers_' = cancelingTimers_ \cup {timer}
      BY <1>3, <2>2
    <2>4. Timers(timers_)' = Timers(timers_)
      BY <1>3 DEF Timers
    <2>5. OwnedOnce' /\ NoDanglingHandle' /\ BatchOK' /\ KeysValid'
      BY <1>1, <1>3, <2>4 DEF OwnedOnce, NoDanglingHandle, BatchOK, KeysValid
    <2>6. CancelledStaysCancelled'
      BY <1>1, <2>1, <2>3, <2>4 DEF CancelledStaysCancelled
    <2>7. BatchHandles'
      BY <1>1, <2>1, <2>2, <2>3 DEF BatchHandles
    <2> QED BY <2>5, <2>6, <2>7
  <1> QED BY <1>2, <1>3 DEF Cancel

LEMMA HandleReadSafe ==
  ASSUME TypeOK, Safe, HandleRead
  PROVE  Safe'
  <1> USE DEF Safe
  <1>1. /\ pc = "dispatch" /\ pc' = "run"
        /\ ~InHandleRead /\ InHandleRead' /\ expired = {} /\ Timers(expired) = {}
    BY DEF HandleRead, InHandleRead, BatchOK, Timers
  <1>2. /\ cancelingTimers_' = {} /\ callingExpiredTimers_' = TRUE
        /\ expired' \cup timers_' = timers_ /\ expired' \cap timers_' = {}
        /\ toRun' = expired' /\ now' = Wall
        /\ UNCHANGED <<allocated, expiration_, interval_, running, handles>>
    BY DEF HandleRead, ClearCanceling, Collected, Remaining, heapVars
  <1>3. /\ Timers(timers_) = Timers(timers_)' \cup Timers(expired)'
        /\ Timers(toRun)' = Timers(expired)'
    BY <1>2 DEF Timers
  <1>4. Timers(timers_)' \cap Timers(expired)' = {}
    <2> SUFFICES ASSUME NEW p \in timers_', NEW q \in expired', p[2] = q[2] PROVE FALSE
      BY DEF Timers
    <2> QED BY <1>2, OneEntry
  <1>5. OwnedOnce'
    BY <1>1, <1>2, <1>3, <1>4 DEF OwnedOnce
  <1>6. NoDanglingHandle' /\ CancelledStaysCancelled'
    BY <1>1, <1>2, <1>3 DEF NoDanglingHandle, CancelledStaysCancelled
  <1>7. Wall > 0
    BY TimeAssumption DEF TypeOK, Wall
  <1>8. BatchOK' /\ KeysValid'
    BY <1>1, <1>2, <1>7 DEF BatchOK, KeysValid
  <1>9. BatchHandles'
    BY <1>1, <1>2, <1>3 DEF BatchHandles, CancelledStaysCancelled
  <1> QED BY <1>5, <1>6, <1>8, <1>9

LEMMA RunTimerSafe ==
  ASSUME TypeOK, Safe, RunTimer
  PROVE  Safe'
  <1> USE DEF Safe
  <1>1. PICK p \in toRun : toRun' = toRun \ {p} /\ running' = p[2]
    BY DEF RunTimer
  <1>2. /\ pc = "run" /\ pc' = "callback" /\ InHandleRead /\ InHandleRead'
        /\ UNCHANGED <<allocated, expiration_, interval_, timers_, cancelingTimers_,
                       callingExpiredTimers_, expired, now, handles>>
        /\ Timers(timers_)' = Timers(timers_) /\ Timers(expired)' = Timers(expired)
    BY DEF RunTimer, InHandleRead, heapVars, queueVars, Timers
  <1>3. p \in expired /\ running' \in Timers(expired)
    BY <1>1 DEF TypeOK, Timers
  <1>4. Timers(toRun)' = Timers(toRun) \ {running'}
    <2>1. ASSUME NEW q \in toRun, q[2] = p[2] PROVE q = p
      BY <1>3, <2>1, OneEntry DEF TypeOK
    <2> QED BY <1>1, <2>1 DEF Timers
  <1>5. OwnedOnce' /\ KeysValid'
    BY <1>2 DEF OwnedOnce, KeysValid
  <1>6. NoDanglingHandle' /\ CancelledStaysCancelled'
    BY <1>2, <1>3, <1>4 DEF NoDanglingHandle, CancelledStaysCancelled, OwnedOnce
  <1>7. BatchOK'
    BY <1>2, <1>3, <1>4 DEF BatchOK
  <1>8. BatchHandles'
    <2>1. running = NoTimer /\ NoTimer \notin Addr
      BY <1>2, AddrAssumption DEF BatchOK, NoTimer
    <2>2. Timers(expired) \subseteq Addr
      BY DEF Timers, TypeOK, Pairs
    <2> QED BY <1>2, <1>4, <2>1, <2>2 DEF BatchHandles
  <1> QED BY <1>5, <1>6, <1>7, <1>8

LEMMA CallbackReturnsSafe ==
  ASSUME TypeOK, Safe, CallbackReturns
  PROVE  Safe'
  <1> USE DEF Safe
  <1>1. /\ pc = "callback" /\ pc' = "run" /\ InHandleRead /\ InHandleRead'
        /\ running' = NoTimer
        /\ UNCHANGED <<allocated, expiration_, interval_, timers_, cancelingTimers_,
                       callingExpiredTimers_, expired, toRun, now>>
        /\ Timers(timers_)' = Timers(timers_) /\ Timers(expired)' = Timers(expired)
        /\ Timers(toRun)' = Timers(toRun)
    BY DEF CallbackReturns, InHandleRead, heapVars, queueVars, Timers
  <1>2. running \in Timers(expired) \ Timers(toRun) /\ running \notin Timers(timers_)
    BY <1>1 DEF BatchOK, OwnedOnce
  <1>3. /\ handles' \subseteq handles /\ handles \ {running} \subseteq handles'
        /\ interval_[running] # 0 => handles' = handles
        /\ interval_[running] = 0 => handles' = handles \ {running}
    BY DEF CallbackReturns
  <1>4. OwnedOnce' /\ KeysValid' /\ NoDanglingHandle'
    BY <1>1, <1>3 DEF OwnedOnce, KeysValid, NoDanglingHandle
  <1>5. CancelledStaysCancelled'
    BY <1>1, <1>2, <1>3 DEF CancelledStaysCancelled
  <1>6. BatchOK'
    BY <1>1 DEF BatchOK
  <1>7. BatchHandles'
    <2>1. Timers(expired) \subseteq Addr
      BY DEF Timers, TypeOK, Pairs
    <2>2. \A a \in Timers(expired) : interval_[a] \in Nat
      BY <2>1 DEF TypeOK
    <2> QED BY <1>1, <1>2, <1>3, <2>2 DEF BatchHandles
  <1> QED BY <1>4, <1>5, <1>6, <1>7

LEMMA ResetSafe ==
  ASSUME TypeOK, Safe, Reset
  PROVE  Safe'
  <1> USE DEF Safe
  <1> DEFINE again == {a \in Timers(expired) : Restarts(a)}
             entries == {<<now + interval_[a], a>> : a \in again}
  <1>1. /\ pc = "run" /\ pc' = "dispatch" /\ InHandleRead /\ ~InHandleRead'
        /\ toRun = {} /\ Timers(toRun) = {} /\ running = NoTimer
        /\ expired' = {} /\ Timers(expired)' = {} /\ callingExpiredTimers_' = FALSE
        /\ UNCHANGED <<interval_, cancelingTimers_, toRun, running, handles>>
    BY DEF Reset, BatchDone, InHandleRead, Timers, BatchOK
  <1>2. /\ allocated' = allocated \ (Timers(expired) \ again)
        /\ expiration_' = [a \in Addr |-> IF a \in again THEN now + interval_[a] ELSE expiration_[a]]
        /\ timers_' = timers_ \cup entries
    BY DEF Reset
  <1>3. Timers(expired) \subseteq Addr /\ again \subseteq Addr
    BY DEF Timers, TypeOK, Pairs
  <1>4. Timers(entries) = again
    <2>1. \A a : <<now + interval_[a], a>>[2] = a
      OBVIOUS
    <2> QED BY <2>1 DEF Timers
  <1>5. Timers(timers_)' = Timers(timers_) \cup again
    <2>1. Timers(timers_ \cup entries) = Timers(timers_) \cup Timers(entries)
      BY DEF Timers
    <2>2. Timers(timers_)' = Timers(timers_ \cup entries)
      BY <1>2 DEF Timers
    <2> QED BY <1>4, <2>1, <2>2
  <1>6. \A p \in timers_ : p[2] \in Addr \ again
    BY DEF OwnedOnce, TypeOK, Pairs, Timers
  <1>7. OwnedOnce'
    <2>1. allocated' = (Timers(timers_) \cup Timers(expired))'
      BY <1>1, <1>2, <1>5 DEF OwnedOnce
    <2>2. \A p \in timers_' : p[1] = expiration_'[p[2]]
      <3>1. ASSUME NEW p \in timers_ PROVE p[1] = expiration_'[p[2]]
        BY <1>2, <1>6 DEF OwnedOnce
      <3>2. ASSUME NEW p \in entries PROVE p[1] = expiration_'[p[2]]
        BY <1>2, <1>3
      <3> QED BY <1>2, <3>1, <3>2
    <2> QED BY <1>1, <2>1, <2>2 DEF OwnedOnce
  \* The timers that are deleted are those the user no longer has a handle to.
  <1>8. \A a \in Timers(expired) : a \in handles <=> a \in again
    <2> SUFFICES ASSUME NEW a \in Timers(expired) PROVE a \in handles <=> a \in again
      OBVIOUS
    <2>1. interval_[a] \in Nat /\ a # NoTimer
      BY <1>3, AddrAssumption DEF TypeOK, NoTimer
    <2> QED BY <1>1, <2>1 DEF BatchHandles, Restarts
  <1>9. NoDanglingHandle'
    BY <1>1, <1>2, <1>8 DEF NoDanglingHandle
  <1>10. CancelledStaysCancelled'
    BY <1>1, <1>5, <1>8 DEF CancelledStaysCancelled
  <1>11. BatchOK' /\ BatchHandles'
    BY <1>1 DEF BatchOK, BatchHandles
  <1>12. KeysValid'
    <2>1. now > 0 /\ now \in Nat
      BY <1>1 DEF BatchOK, TypeOK
    <2>2. ASSUME NEW p \in entries PROVE p[1] > 0
      BY <1>3, <2>1 DEF TypeOK
    <2> QED BY <1>1, <1>2, <2>2 DEF KeysValid
  <1> QED BY <1>7, <1>9, <1>10, <1>11, <1>12

LEMMA NextSafe == TypeOK /\ Safe /\ [Next]_vars => Safe'
  <1> SUFFICES ASSUME TypeOK, Safe, [Next]_vars PROVE Safe'
    OBVIOUS
  <1>1. CASE Tick \/ SetWallClock \/ Expire
    <2>1. UNCHANGED <<heapVars, queueVars, batchVars, handles>> /\ pc' = pc
      BY <1>1 DEF Tick, SetWallClock, Expire, loopVars
    <2> QED BY <2>1, QuietSafe
  <1>2. CASE RunAt
    <2>1. PICK timer \in Addr, d \in Offsets : AddTimer(timer, Wall + d, 0)
      BY <1>2 DEF RunAt
    <2>2. Wall + d \in Int /\ Wall + d > 0
      <3>1. skew + d > 0 /\ d \in Int /\ skew \in Nat /\ clock \in Nat
        BY TimeAssumption DEF TypeOK
      <3> QED BY <3>1 DEF Wall
    <2> QED BY <2>1, <2>2, AddTimerSafe
  <1>3. CASE RunEvery
    <2>1. PICK timer \in Addr, interval \in Intervals :
            AddTimer(timer, Wall + interval, interval)
      BY <1>3 DEF RunEvery
    <2>2. Wall + interval \in Int /\ Wall + interval > 0 /\ interval \in Nat
      BY TimeAssumption DEF TypeOK, Wall
    <2> QED BY <2>1, <2>2, AddTimerSafe
  <1>4. ASSUME NEW timer \in Addr, Cancel(timer) PROVE Safe'
    BY <1>4, CancelSafe
  <1>5. CASE Poll \/ EndBatch \/ HandleIo \/ IoReturns \/ ReadFails
    <2>1. UNCHANGED <<heapVars, queueVars, batchVars, handles>>
      BY <1>5 DEF Poll, EndBatch, HandleIo, IoReturns, ReadFails
    <2>2. pc \in {"poll", "dispatch", "io"} /\ pc' \in {"poll", "dispatch", "io", "aborted"}
      BY <1>5 DEF Poll, EndBatch, HandleIo, IoReturns, ReadFails
    <2> QED BY <2>1, <2>2, QuietSafe
  <1>6. CASE HandleRead
    BY <1>6, HandleReadSafe
  <1>7. CASE RunTimer
    BY <1>7, RunTimerSafe
  <1>8. CASE CallbackReturns
    BY <1>8, CallbackReturnsSafe
  <1>9. CASE Reset
    BY <1>9, ResetSafe
  <1>10. CASE UNCHANGED vars
    BY <1>10, QuietSafe DEF vars, loopVars
  <1> QED
    BY <1>1, <1>2, <1>3, <1>4, <1>5, <1>6, <1>7, <1>8, <1>9, <1>10 DEF Next, LoopStep

LEMMA AlwaysSafe == Spec => [](TypeOK /\ Safe)
  <1>1. Init => TypeOK /\ Safe
    BY InitType, InitSafe
  <1>2. TypeOK /\ Safe /\ [Next]_vars => (TypeOK /\ Safe)'
    BY NextType, NextSafe
  <1> QED BY <1>1, <1>2, PTL DEF Spec

\* No Timer is leaked, deleted twice or reachable after its delete.
THEOREM OwnedOnceTheorem == Spec => []OwnedOnce
  <1>1. Safe => OwnedOnce
    BY DEF Safe
  <1> QED BY <1>1, AlwaysSafe, PTL

\* A careful caller never passes a dangling Timer* to cancel.
THEOREM NoDanglingHandleTheorem == Spec => []NoDanglingHandle
  <1>1. Safe => NoDanglingHandle
    BY DEF Safe
  <1> QED BY <1>1, AlwaysSafe, PTL

\* What is cancelled stays cancelled.
THEOREM CancelledTheorem == Spec => []CancelledStaysCancelled
  <1>1. Safe => CancelledStaysCancelled
    BY DEF Safe
  <1> QED BY <1>1, AlwaysSafe, PTL
-----------------------------------------------------------------------------
LEMMA AddTimerArmed ==
  ASSUME TypeOK, ArmedWhilePending, NEW timer \in Addr, NEW when \in Int, NEW interval \in Nat,
         AddTimer(timer, when, interval)
  PROVE  ArmedWhilePending'
  <1>1. CASE EarliestChanged(when)
    BY <1>1, ResetArms DEF AddTimer, ArmedWhilePending
  <1>2. CASE ~EarliestChanged(when)
    <2>1. timers_ # {}
      BY <1>2 DEF EarliestChanged
    <2>2. UNCHANGED <<deadline, fired, pc>>
      BY <1>2 DEF AddTimer, loopVars
    <2> QED BY <2>1, <2>2 DEF ArmedWhilePending, InHandleRead
  <1> QED BY <1>1, <1>2

LEMMA ResetArmed ==
  ASSUME TypeOK, TypeOK', KeysValid', Reset
  PROVE  ArmedWhilePending'
  <1> SUFFICES ASSUME timers_' # {} PROVE deadline' # Disarmed
    BY DEF ArmedWhilePending
  <1>1. PICK next \in {p[1] : p \in timers_'} :
          IF next > 0 THEN ResetTimerfd(next) ELSE UNCHANGED <<deadline, fired>>
    BY DEF Reset, Rearm
  <1>2. next \in Int /\ next > 0
    BY DEF TypeOK, Pairs, KeysValid
  <1> QED BY <1>1, <1>2, ResetArms

LEMMA NextArmed == TypeOK /\ Safe /\ ArmedWhilePending /\ [Next]_vars => ArmedWhilePending'
  <1> SUFFICES ASSUME TypeOK, Safe, ArmedWhilePending, [Next]_vars PROVE ArmedWhilePending'
    OBVIOUS
  <1> USE DEF ArmedWhilePending
  <1>1. CASE Tick \/ SetWallClock \/ UNCHANGED vars
    BY <1>1
    DEF Tick, SetWallClock, vars, kernelVars, queueVars, loopVars, InHandleRead
  <1>2. CASE Expire
    BY <1>2 DEF Expire
  <1>3. CASE RunAt
    <2>1. PICK timer \in Addr, d \in Offsets : AddTimer(timer, Wall + d, 0)
      BY <1>3 DEF RunAt
    <2>2. Wall + d \in Int
      BY TimeAssumption DEF TypeOK, Wall
    <2> QED BY <2>1, <2>2, AddTimerArmed
  <1>4. CASE RunEvery
    <2>1. PICK timer \in Addr, interval \in Intervals :
            AddTimer(timer, Wall + interval, interval)
      BY <1>4 DEF RunEvery
    <2>2. Wall + interval \in Int /\ interval \in Nat
      BY TimeAssumption DEF TypeOK, Wall
    <2> QED BY <2>1, <2>2, AddTimerArmed
  <1>5. ASSUME NEW timer \in Addr, Cancel(timer) PROVE ArmedWhilePending'
    <2>1. UNCHANGED <<deadline, fired, pc>> /\ timers_' \subseteq timers_
      BY <1>5 DEF Cancel, kernelVars, loopVars
    <2> QED BY <2>1 DEF InHandleRead
  <1>6. CASE Poll \/ EndBatch \/ HandleIo \/ IoReturns \/ ReadFails
    <2>1. UNCHANGED <<deadline, fired, timers_>> /\ ~InHandleRead
      BY <1>6
      DEF Poll, EndBatch, HandleIo, IoReturns, ReadFails, kernelVars, queueVars, InHandleRead
    <2> QED BY <2>1
  <1>7. CASE HandleRead \/ RunTimer \/ CallbackReturns
    <2>1. InHandleRead'
      BY <1>7 DEF HandleRead, RunTimer, CallbackReturns, InHandleRead
    <2> QED BY <2>1
  <1>8. CASE Reset
    <2>1. TypeOK' /\ KeysValid'
      BY NextType, NextSafe DEF Safe
    <2> QED BY <1>8, <2>1, ResetArmed
  <1> QED
    BY <1>1, <1>2, <1>3, <1>4, <1>5, <1>6, <1>7, <1>8 DEF Next, LoopStep

\* No pending timer is forgotten, however the wall clock is set.
THEOREM ArmedTheorem == Spec => []ArmedWhilePending
  <1>1. Init => ArmedWhilePending
    BY DEF Init, ArmedWhilePending
  <1>2. TypeOK /\ Safe /\ ArmedWhilePending /\ [Next]_vars => ArmedWhilePending'
    BY NextArmed
  <1> QED BY <1>1, <1>2, AlwaysSafe, PTL DEF Spec
-----------------------------------------------------------------------------
(***************************************************************************)
(* Punctual: from one setting of the wall clock to the next.  What         *)
(* handleRead has collected was due then, and stays due.                   *)
(***************************************************************************)
Prompt == ArmedInTime /\ NeverEarly /\ \A p \in expired : p[1] <= Wall

\* The time by which the timerfd must have expired for a timer that is due at when.
LatestExpiry(when) == Later(when - skew, clock + MinDelay)

LEMMA Numbers ==
  ASSUME TypeOK
  PROVE  /\ clock \in Nat /\ skew \in Nat /\ MinDelay \in Nat /\ deadline \in Int
         /\ expiration_ \in [Addr -> Int]
         /\ \A p \in timers_ \cup expired : p[1] \in Int /\ p[2] \in Addr
  BY TimeAssumption DEF TypeOK, Disarmed, Pairs

LEMMA ResetInTime ==
  ASSUME TypeOK, NEW when \in Int, ResetTimerfd(when)
  PROVE  /\ deadline' # Disarmed /\ deadline' = LatestExpiry(when)
         /\ \A later \in Int : when <= later => deadline' <= LatestExpiry(later)
  <1>1. deadline' = clock + Later(MinDelay, when - (clock + skew)) /\ deadline' # Disarmed
    BY ResetArms DEF ResetTimerfd, Wall
  <1> QED BY <1>1, Numbers DEF LatestExpiry, Later

\* Of two timers, the later one lets the timerfd expire later.
LEMMA LatestOrder ==
  ASSUME TypeOK, NEW a \in Int, NEW b \in Int, a <= b
  PROVE  LatestExpiry(a) <= LatestExpiry(b) /\ LatestExpiry(a) \in Int
  BY Numbers DEF LatestExpiry, Later

LEMMA AddTimerPrompt ==
  ASSUME TypeOK, Safe, Prompt, NEW timer \in Addr, NEW when \in Int, NEW interval \in Nat,
         AddTimer(timer, when, interval)
  PROVE  Prompt'
  <1>1. /\ UNCHANGED <<clock, skew, expired, running, pc>> /\ timers_' = timers_ \cup {<<when, timer>>}
        /\ timer \notin allocated /\ \A a \in Addr \ {timer} : expiration_'[a] = expiration_[a]
    BY DEF AddTimer, batchVars, loopVars, TypeOK
  <1>2. ASSUME ~InHandleRead, NEW p \in timers_'
        PROVE  fired' \/ (deadline' # Disarmed /\ deadline' <= LatestExpiry(p[1]))
    <2>1. p \in timers_ \/ p[1] = when
      BY <1>1
    <2>2. \A q \in timers_ : fired \/ (deadline # Disarmed /\ deadline <= LatestExpiry(q[1]))
      BY <1>2 DEF Prompt, ArmedInTime, LatestExpiry
    <2>3. CASE EarliestChanged(when)
      <3>1. p[1] \in Int /\ when <= p[1]
        BY <2>1, <2>3, Numbers DEF EarliestChanged
      <3>2. ResetTimerfd(when)
        BY <2>3 DEF AddTimer
      <3> QED BY <3>1, <3>2, ResetInTime
    <2>4. CASE ~EarliestChanged(when)
      <3>1. PICK q \in timers_ : ~(when < q[1])
        BY <2>4 DEF EarliestChanged
      <3>2. UNCHANGED <<deadline, fired>>
        BY <2>4 DEF AddTimer
      <3>3. q[1] \in Int /\ q[1] <= when
        BY <3>1, Numbers
      <3>4. LatestExpiry(q[1]) <= LatestExpiry(when) /\ LatestExpiry(q[1]) \in Int
            /\ LatestExpiry(when) \in Int
        BY <3>3, LatestOrder
      <3>5. fired \/ (deadline # Disarmed /\ deadline <= LatestExpiry(when))
        BY <2>2, <3>4, Numbers
      <3> QED BY <2>1, <2>2, <3>2, <3>5
    <2> QED BY <2>3, <2>4
  <1>3. ArmedInTime'
    BY <1>1, <1>2 DEF ArmedInTime, LatestExpiry, InHandleRead
  <1>4. NeverEarly'
    <2>1. pc = "callback" => running \in Addr \ {timer}
      BY <1>1 DEF Safe, NoDanglingHandle, TypeOK
    <2> QED BY <1>1, <2>1 DEF Prompt, NeverEarly, Wall
  <1> QED BY <1>1, <1>3, <1>4 DEF Prompt, Wall

LEMMA ResetPrompt ==
  ASSUME TypeOK, TypeOK', KeysValid', Reset
  PROVE  Prompt'
  <1>1. pc' = "dispatch" /\ expired' = {} /\ UNCHANGED <<clock, skew>>
    BY DEF Reset
  <1>2. ASSUME NEW p \in timers_'
        PROVE  deadline' # Disarmed /\ deadline' <= LatestExpiry(p[1])
    <2>1. PICK next \in {q[1] : q \in timers_'} :
            /\ \A q \in timers_' : next <= q[1]
            /\ IF next > 0 THEN ResetTimerfd(next) ELSE UNCHANGED <<deadline, fired>>
      BY <1>2 DEF Reset, Rearm
    <2>2. next > 0 /\ next \in Int /\ p[1] \in Int /\ next <= p[1]
      BY <1>2, <2>1 DEF KeysValid, TypeOK, Pairs
    <2> QED BY <2>1, <2>2, ResetInTime
  <1> QED BY <1>1, <1>2 DEF Prompt, ArmedInTime, NeverEarly, LatestExpiry, InHandleRead

LEMMA RunTimerPrompt ==
  ASSUME TypeOK, Safe, Prompt, RunTimer
  PROVE  Prompt'
  <1>1. /\ UNCHANGED <<clock, skew, expiration_, expired>> /\ pc' = "callback"
        /\ \E p \in toRun : running' = p[2]
    BY DEF RunTimer, kernelVars, heapVars
  <1>2. expiration_[running'] <= Wall
    BY <1>1 DEF TypeOK, Prompt, Safe, OwnedOnce
  <1> QED BY <1>1, <1>2 DEF Prompt, ArmedInTime, NeverEarly, InHandleRead, Wall

LEMMA NextPrompt ==
  ASSUME TypeOK, Safe, TypeOK', Safe', Prompt, [Next]_vars, skew' = skew
  PROVE  Prompt'
  <1>1. CASE Tick
    <2>1. UNCHANGED <<skew, deadline, fired, timers_, expired, expiration_, running, pc>> /\ clock' = clock + 1
      BY <1>1 DEF Tick, heapVars, queueVars, batchVars, loopVars
    <2>2. \A p \in timers_ : Later(p[1] - skew, clock + MinDelay) <= Later(p[1] - skew, clock + 1 + MinDelay)
                             /\ Later(p[1] - skew, clock + MinDelay) \in Int
                             /\ Later(p[1] - skew, clock + 1 + MinDelay) \in Int
      BY Numbers DEF Later
    <2>3. ArmedInTime'
      BY <2>1, <2>2, Numbers DEF Prompt, ArmedInTime, InHandleRead
    <2>4. NeverEarly'
      BY <2>1, Numbers DEF Prompt, NeverEarly, Wall, Safe, NoDanglingHandle, TypeOK
    <2> QED BY <2>1, <2>3, <2>4, Numbers DEF Prompt, Wall
  <1>2. CASE Expire
    BY <1>2 DEF Expire, heapVars, queueVars, batchVars, loopVars, Prompt, ArmedInTime, NeverEarly, Wall
  <1>3. CASE RunAt \/ RunEvery
    <2>1. PICK timer \in Addr, when \in Int, interval \in Nat : AddTimer(timer, when, interval)
      BY <1>3, Numbers, TimeAssumption DEF RunAt, RunEvery, Wall
    <2> QED BY <2>1, AddTimerPrompt
  <1>4. ASSUME NEW timer \in Addr, Cancel(timer) PROVE Prompt'
    <2>1. UNCHANGED <<clock, skew, deadline, fired, expired, expiration_, running, pc>> /\ timers_' \subseteq timers_
      BY <1>4 DEF Cancel, kernelVars, batchVars, loopVars
    <2> QED BY <2>1 DEF Prompt, ArmedInTime, NeverEarly, InHandleRead, Wall
  <1>5. CASE Poll \/ EndBatch \/ HandleIo \/ IoReturns \/ ReadFails \/ UNCHANGED vars
    <2>1. UNCHANGED <<clock, skew, deadline, fired, expired, expiration_, running, timers_>>
          /\ (InHandleRead' <=> InHandleRead) /\ (pc' = "callback" => pc = "callback")
      BY <1>5 DEF Poll, EndBatch, HandleIo, IoReturns, ReadFails, vars, kernelVars, heapVars, queueVars,
                  batchVars, loopVars, InHandleRead
    <2> QED BY <2>1 DEF Prompt, ArmedInTime, NeverEarly, Wall
  <1>6. CASE HandleRead
    BY <1>6 DEF HandleRead, Prompt, ArmedInTime, NeverEarly, InHandleRead, Collected, Wall
  <1>7. CASE RunTimer
    BY <1>7, RunTimerPrompt
  <1>8. CASE CallbackReturns
    BY <1>8 DEF CallbackReturns, Prompt, ArmedInTime, NeverEarly, InHandleRead, Wall, kernelVars, queueVars
  <1>9. CASE Reset
    BY <1>9, ResetPrompt DEF Safe
  <1>10. CASE SetWallClock
    BY <1>10, Numbers DEF SetWallClock
  <1> QED BY <1>1, <1>2, <1>3, <1>4, <1>5, <1>6, <1>7, <1>8, <1>9, <1>10 DEF Next, LoopStep

\* As long as the wall clock is not set, timerfd_settime has been called for a time that is
\* early enough for every timer in timers_, and no callback is called before its time.
THEOREM PunctualTheorem == MCSpec => []Punctual
  <1>1. MCSpec => Spec
    <2>1. MCInit => Init
      BY DEF MCInit
    <2>2. [MCNext]_mcVars => [Next]_vars
      BY DEF MCNext, Next, LoopStep, mcVars
    <2> QED BY <2>1, <2>2, PTL DEF MCSpec, Spec
  <1> DEFINE I == ~wasSet => Prompt
  <1>2. MCInit => I
    BY DEF MCInit, Init, Prompt, ArmedInTime, NeverEarly
  <1>3. ASSUME TypeOK, Safe, TypeOK', Safe', I, [MCNext]_mcVars PROVE I'
    <2> SUFFICES ASSUME ~wasSet' PROVE Prompt'
      OBVIOUS
    <2>1. ~wasSet /\ skew' = skew
      <3>1. CASE MCNext
        <4>1. Noted
          BY <3>1 DEF MCNext
        <4> QED BY <4>1 DEF Noted
      <3>2. CASE UNCHANGED mcVars
        BY <3>2 DEF mcVars, vars, kernelVars
      <3> QED BY <1>3, <3>1, <3>2
    <2>2. [Next]_vars
      BY <1>3 DEF MCNext, Next, LoopStep, mcVars
    <2> QED BY <1>3, <2>1, <2>2, NextPrompt
  <1>4. I => Punctual
    BY DEF Prompt, Punctual
  <1> QED BY <1>1, <1>2, <1>3, <1>4, AlwaysSafe, PTL DEF MCSpec
-----------------------------------------------------------------------------
(***************************************************************************)
(* TimerQueue implements TimerService: each step of the queue is a step of *)
(* the service or leaves it as it is.                                      *)
(***************************************************************************)
LEMMA SameStatus ==
  ASSUME UNCHANGED <<timers_, cancelingTimers_, expired, toRun>>
  PROVE  UNCHANGED Service!vars
  BY DEF Service!vars, status, Timers

LEMMA AddTimerImplements ==
  ASSUME TypeOK, Safe, NEW timer \in Addr, NEW when \in Int, NEW interval \in Nat,
         AddTimer(timer, when, interval)
  PROVE  Service!Schedule(timer)
  <1>1. timer \notin Timers(timers_) /\ timer \notin Timers(expired)
    BY DEF AddTimer, Safe, OwnedOnce
  <1>2. /\ Timers(timers_)' = Timers(timers_) \cup {timer}
        /\ Timers(expired)' = Timers(expired) /\ Timers(toRun)' = Timers(toRun)
        /\ cancelingTimers_' = cancelingTimers_
    BY TimersAdd DEF AddTimer, batchVars, Timers
  <1>3. status[timer] = "free"
    BY <1>1 DEF status
  <1>4. status' = [status EXCEPT ![timer] = "waiting"]
    BY <1>1, <1>2 DEF status
  <1> QED BY <1>2, <1>3, <1>4 DEF Service!Schedule

LEMMA CancelImplements ==
  ASSUME TypeOK, Safe, NEW timer \in Addr, Cancel(timer)
  PROVE  Service!Cancel(timer)
  <1> USE DEF Safe
  <1> DEFINE key == <<expiration_[timer], timer>>
  <1>1. UNCHANGED <<expired, toRun>> /\ timer \in handles
        /\ Timers(expired)' = Timers(expired) /\ Timers(toRun)' = Timers(toRun)
    BY DEF Cancel, batchVars, Timers
  <1>2. CASE key \in timers_
    <2>1. timers_' = timers_ \ {key} /\ cancelingTimers_' = cancelingTimers_
      BY <1>2 DEF Cancel
    <2>2. timer \in Timers(timers_) /\ timer \notin Timers(expired)
      BY <1>2, CancelFinds DEF OwnedOnce
    <2>3. Timers(timers_)' = Timers(timers_) \ {timer}
      <3>1. ASSUME NEW p \in timers_, p[2] = timer PROVE p = key
        BY <1>2, <3>1, OneEntry
      <3> QED BY <2>1, <3>1 DEF Timers
    <2>4. status[timer] = "waiting"
      BY <2>2 DEF status
    <2>5. status' = [status EXCEPT ![timer] = "free"]
      BY <1>1, <2>1, <2>2, <2>3 DEF status
    <2> QED BY <1>1, <2>4, <2>5 DEF Service!Cancel
  <1>3. CASE key \notin timers_
    <2>1. timer \in Timers(expired) /\ timer \notin Timers(timers_)
      BY <1>1, <1>3, CancelFinds DEF OwnedOnce, NoDanglingHandle
    <2>2. InHandleRead /\ callingExpiredTimers_
      BY <2>1 DEF BatchOK, Timers
    <2>3. cancelingTimers_' = cancelingTimers_ \cup {timer} /\ timers_' = timers_
      BY <1>3, <2>2 DEF Cancel
    <2>4. timer \notin cancelingTimers_
      BY <1>1, <2>2 DEF BatchHandles
    <2>5. status[timer] = "due"
      BY <2>1, <2>4 DEF status
    <2>6. Timers(timers_)' = Timers(timers_)
      BY <2>3 DEF Timers
    <2>7. status' = [status EXCEPT ![timer] = "cancelled"]
      BY <1>1, <2>1, <2>3, <2>6 DEF status
    <2> QED BY <1>1, <2>5, <2>7 DEF Service!Cancel
  <1> QED BY <1>2, <1>3

LEMMA BatchIsExpired ==
  ASSUME TypeOK, Safe
  PROVE  Service!Batch = Timers(expired)
  <1>1. Timers(expired) \subseteq Addr
    BY DEF TypeOK, Timers, Pairs
  <1> QED BY <1>1 DEF Safe, OwnedOnce, Service!Batch, status

LEMMA HandleReadImplements ==
  ASSUME TypeOK, Safe, HandleRead
  PROVE  \E S \in SUBSET Addr : Service!Collect(S)
  <1> USE DEF Safe
  <1> DEFINE S == Timers(Collected(Wall))
  <1>1. expired = {} /\ Timers(expired) = {}
    BY DEF HandleRead, InHandleRead, BatchOK, Timers
  <1>2. /\ cancelingTimers_' = {} /\ expired' = Collected(Wall) /\ toRun' = Collected(Wall)
        /\ timers_' = timers_ \ Collected(Wall) /\ Collected(Wall) \subseteq timers_
    BY DEF HandleRead, ClearCanceling, Collected, Remaining
  <1>3. Timers(expired)' = S /\ Timers(toRun)' = S /\ S \subseteq Timers(timers_)
    BY <1>2 DEF Timers
  <1>4. Timers(timers_)' = Timers(timers_) \ S
    <2>1. ASSUME NEW p \in timers_, NEW q \in Collected(Wall), p[2] = q[2] PROVE p = q
      BY <1>2, <2>1, OneEntry
    <2> QED BY <1>2, <2>1 DEF Timers
  <1>5. S \subseteq Addr
    BY <1>2 DEF TypeOK, Timers, Pairs
  <1>6. \A a \in S : status[a] = "waiting"
    BY <1>3, <1>5 DEF status
  <1>7. status' = [a \in Addr |-> IF a \in S THEN "due" ELSE status[a]]
    BY <1>1, <1>2, <1>3, <1>4 DEF status
  <1>8. Service!Collect(S)
    BY <1>1, <1>3, <1>6, <1>7, BatchIsExpired DEF Service!Collect
  <1> QED BY <1>5, <1>8

LEMMA RunTimerImplements ==
  ASSUME TypeOK, Safe, RunTimer
  PROVE  \E a \in Addr : Service!Serve(a)
  <1> USE DEF Safe
  <1>1. PICK p \in toRun : toRun' = toRun \ {p}
    BY DEF RunTimer
  <1>2. p[2] \in Addr /\ p[2] \in Timers(toRun)
    BY DEF TypeOK, Pairs, Timers
  <1>3. Timers(toRun)' = Timers(toRun) \ {p[2]}
    <2>1. ASSUME NEW q \in toRun, q[2] = p[2] PROVE q = p
      BY <2>1, OneEntry DEF TypeOK
    <2> QED BY <1>1, <2>1 DEF Timers
  <1>4. status' = status
    BY DEF RunTimer, queueVars, status, Timers
  <1> QED BY <1>2, <1>3, <1>4 DEF Service!Serve

LEMMA ResetImplements ==
  ASSUME TypeOK, Safe, Reset
  PROVE  \E S \in SUBSET Addr : Service!Finish(S)
  <1> USE DEF Safe
  <1> DEFINE again == {a \in Timers(expired) : Restarts(a)}
             entries == {<<now + interval_[a], a>> : a \in again}
  <1>1. /\ Timers(toRun) = {} /\ Timers(toRun)' = {} /\ Timers(expired)' = {}
        /\ timers_' = timers_ \cup entries
    BY DEF Reset, BatchDone, Timers
  <1>2. Timers(expired) \subseteq Addr
    BY DEF Timers, TypeOK, Pairs
  <1>3. Timers(entries) = again
    <2>1. \A a : <<now + interval_[a], a>>[2] = a
      OBVIOUS
    <2> QED BY <2>1 DEF Timers
  <1>4. Timers(timers_)' = Timers(timers_) \cup again
    <2>1. Timers(timers_ \cup entries) = Timers(timers_) \cup Timers(entries)
      BY DEF Timers
    <2> QED BY <1>1, <1>3, <2>1 DEF Timers
  <1>5. \A a \in again : status[a] = "due"
    BY <1>2 DEF status, Restarts, OwnedOnce
  <1>6. status' = [a \in Addr |-> IF a \in again THEN "waiting"
                                  ELSE IF a \in Timers(expired) THEN "free" ELSE status[a]]
    BY <1>1, <1>4 DEF status, OwnedOnce
  <1>7. Service!Finish(again)
    BY <1>1, <1>5, <1>6, BatchIsExpired DEF Service!Finish
  <1> QED BY <1>2, <1>7

LEMMA StepImplements == TypeOK /\ Safe /\ [Next]_vars => [Service!Next]_(Service!vars)
  <1> SUFFICES ASSUME TypeOK, Safe, [Next]_vars PROVE [Service!Next]_(Service!vars)
    OBVIOUS
  <1>1. CASE RunAt
    <2>1. PICK timer \in Addr, d \in Offsets : AddTimer(timer, Wall + d, 0)
      BY <1>1 DEF RunAt
    <2>2. Wall + d \in Int
      BY TimeAssumption DEF TypeOK, Wall
    <2>3. Service!Schedule(timer)
      BY <2>1, <2>2, AddTimerImplements
    <2> QED BY <2>3 DEF Service!Next
  <1>2. CASE RunEvery
    <2>1. PICK timer \in Addr, interval \in Intervals :
            AddTimer(timer, Wall + interval, interval)
      BY <1>2 DEF RunEvery
    <2>2. Wall + interval \in Int /\ interval \in Nat
      BY TimeAssumption DEF TypeOK, Wall
    <2>3. Service!Schedule(timer)
      BY <2>1, <2>2, AddTimerImplements
    <2> QED BY <2>3 DEF Service!Next
  <1>3. ASSUME NEW timer \in Addr, Cancel(timer) PROVE Service!Next
    BY <1>3, CancelImplements DEF Service!Next
  <1>4. CASE HandleRead
    BY <1>4, HandleReadImplements DEF Service!Next
  <1>5. CASE RunTimer
    BY <1>5, RunTimerImplements DEF Service!Next
  <1>6. CASE Reset
    BY <1>6, ResetImplements DEF Service!Next
  <1>7. CASE \/ Tick \/ SetWallClock \/ Expire \/ Poll \/ EndBatch \/ HandleIo \/ IoReturns
             \/ ReadFails \/ CallbackReturns \/ UNCHANGED vars
    <2>1. UNCHANGED <<timers_, cancelingTimers_, expired, toRun>>
      BY <1>7
      DEF Tick, SetWallClock, Expire, Poll, EndBatch, HandleIo, IoReturns, ReadFails,
          CallbackReturns, vars, queueVars, batchVars
    <2> QED BY <2>1, SameStatus
  <1> QED BY <1>1, <1>2, <1>3, <1>4, <1>5, <1>6, <1>7 DEF Next, LoopStep

\* The queue does what TimerService promises, whatever its callers and the clocks do.
THEOREM ImplementsTheorem == Spec => Implements
  <1>1. Init => Service!Init
    BY DEF Init, Service!Init, status, Timers
  <1> QED BY <1>1, AlwaysSafe, StepImplements, PTL DEF Spec, Implements, Service!Spec
=============================================================================
