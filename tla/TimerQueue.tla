----------------------------- MODULE TimerQueue -----------------------------
(***************************************************************************)
(* The timers of an event loop: TimerQueue, Timer, EventLoop::runAt,       *)
(* runAfter, runEvery and cancel, the timerfd that wakes the loop, and the *)
(* part of EventLoop::loop that decides when TimerQueue::handleRead runs   *)
(* between the callbacks of other channels.                                *)
(*                                                                         *)
(* Everything here happens on the loop's only thread.  What makes it hard  *)
(* is that user callbacks, which may add and cancel timers, run in the     *)
(* middle of handleRead, and before or after it in the same epoll batch,   *)
(* while both clocks keep moving.                                          *)
(*                                                                         *)
(* A definition marked "mutant" is part of no behaviour: it is a form that *)
(* a bug would give to the definition after it, and which the runs reject. *)
(***************************************************************************)
EXTENDS Integers, Sequences

CONSTANTS
  Addr,       \* addresses at which a Timer may be allocated (ordered, as in std::set)
  Offsets,    \* what a caller of runAt adds to the wall clock; negative: in the past
  Intervals,  \* intervals a caller of runEvery asks for
  MinDelay,   \* howMuchTimeFromNow never returns less (100 us)
  Skews,      \* values of (wall clock - monotonic clock): several if it gets set
  MaxTime     \* bound on the monotonic clock

ASSUME AddrAssumption == Addr \subseteq Nat
ASSUME TimeAssumption ==
  /\ MaxTime \in Nat
  /\ MinDelay \in Nat \ {0}
  /\ Intervals \subseteq Nat \ {0}
  /\ Skews \subseteq Nat \ {0} /\ Skews # {}
  /\ Offsets \subseteq Int
  \* A Timestamp counts microseconds since 1970, so that the ones in use are valid().
  /\ \A s \in Skews, d \in Offsets : s + d > 0

VARIABLES
  clock,                  \* CLOCK_MONOTONIC, which drives the timerfd
  skew,                   \* Timestamp::now() is gettimeofday: clock + skew
  deadline,               \* when the timerfd expires, or Disarmed
  fired,                  \* the timerfd has expirations to read
  allocated,              \* addresses that hold a live Timer
  expiration_, interval_, \* members of the Timer at an address (interval 0: one shot)
  timers_,                \* std::set<pair<Timestamp, Timer*>>
  cancelingTimers_, callingExpiredTimers_,
  expired,                \* handleRead's local vector
  toRun,                  \* the elements of expired its loop has not reached
  now,                    \* handleRead's local Timestamp
  running,                \* the timer whose callback is on the stack
  active,                 \* rest of activeChannels_
  pc,                     \* where the loop's thread is
  handles                 \* timers the user may still cancel: see CallbackReturns

kernelVars == <<clock, skew, deadline, fired>>
heapVars   == <<allocated, expiration_, interval_>>
queueVars  == <<timers_, cancelingTimers_, callingExpiredTimers_>>
batchVars  == <<expired, toRun, now, running>>
loopVars   == <<active, pc>>
vars == <<kernelVars, heapVars, queueVars, batchVars, loopVars, handles>>

Disarmed == -1
NoTimer == -1
Wall == clock + skew
Later(a, b) == IF a < b THEN b ELSE a

\* The addresses in a set of (expiration, timer) pairs.
Timers(pairs) == {p[2] : p \in pairs}

\* The order of std::set<pair<Timestamp, Timer*>>.
NotAfter(p, q) == p[1] < q[1] \/ (p[1] = q[1] /\ p[2] <= q[2])

(***************************************************************************)
(* timerfd_settime also discards expirations nobody has read yet.          *)
(***************************************************************************)
ArmUnclamped(expiration) ==  \* mutant: without the 100 us, an it_value of 0 disarms
  /\ deadline' = IF expiration <= Wall THEN Disarmed ELSE clock + expiration - Wall
  /\ fired' = FALSE

ResetTimerfd(expiration) ==
  /\ deadline' = clock + Later(MinDelay, expiration - Wall)
  /\ fired' = FALSE

Init ==
  /\ clock = 0 /\ skew \in Skews
  /\ deadline = Disarmed /\ fired = FALSE
  /\ allocated = {}
  /\ expiration_ = [a \in Addr |-> 0] /\ interval_ = [a \in Addr |-> 0]
  /\ timers_ = {} /\ cancelingTimers_ = {} /\ callingExpiredTimers_ = FALSE
  /\ expired = {} /\ toRun = {} /\ now = 0 /\ running = NoTimer
  /\ active = <<>> /\ pc = "poll"
  /\ handles = {}
-----------------------------------------------------------------------------
(***************************************************************************)
(* The kernel: time passes, the wall clock is set, the timerfd expires.    *)
(* At the end of modelled time a timerfd armed for later expires all the   *)
(* same, so that no behaviour is stuck because the clock has a bound.      *)
(***************************************************************************)
Tick ==
  /\ clock < MaxTime
  /\ clock' = clock + 1
  /\ UNCHANGED <<skew, deadline, fired, heapVars, queueVars, batchVars, loopVars, handles>>

SetWallClock ==
  /\ skew' \in Skews \ {skew}
  /\ UNCHANGED <<clock, deadline, fired, heapVars, queueVars, batchVars, loopVars, handles>>

Expire ==
  /\ deadline # Disarmed
  /\ deadline <= clock \/ clock = MaxTime
  /\ deadline' = Disarmed
  /\ fired' = TRUE
  /\ UNCHANGED <<clock, skew, heapVars, queueVars, batchVars, loopVars, handles>>
-----------------------------------------------------------------------------
(***************************************************************************)
(* Operations a user callback may call, any number of times: from another  *)
(* channel's handler ("io") or from a timer's callback ("callback").       *)
(***************************************************************************)
InUserCode == pc \in {"io", "callback"}

\* What TimerQueue::insert tells its caller.
FirstInserted(when) == timers_ = {}  \* mutant
EarliestChanged(when) == \A p \in timers_ : when < p[1]

AddTimer(timer, when, interval) ==
  /\ InUserCode
  /\ timer \notin allocated
  /\ allocated' = allocated \cup {timer}
  /\ expiration_' = [expiration_ EXCEPT ![timer] = when]
  /\ interval_' = [interval_ EXCEPT ![timer] = interval]
  /\ timers_' = timers_ \cup {<<when, timer>>}
  /\ IF EarliestChanged(when)
     THEN ResetTimerfd(when)
     ELSE UNCHANGED <<deadline, fired>>
  /\ handles' = handles \cup {timer}
  /\ UNCHANGED <<clock, skew, cancelingTimers_, callingExpiredTimers_, batchVars, loopVars>>

RunAt == \E timer \in Addr, d \in Offsets : AddTimer(timer, Wall + d, 0)

RunEvery == \E timer \in Addr, interval \in Intervals : AddTimer(timer, Wall + interval, interval)

CancelAndDelete(timer) ==  \* mutant: deletes a timer of the batch under way
  /\ InUserCode
  /\ timer \in handles
  /\ handles' = handles \ {timer}
  /\ timers_' = timers_ \ {<<expiration_[timer], timer>>}
  /\ allocated' = allocated \ {timer}
  /\ UNCHANGED <<kernelVars, expiration_, interval_, cancelingTimers_, callingExpiredTimers_,
                 batchVars, loopVars>>

Cancel(timer) ==
  /\ InUserCode
  /\ timer \in handles
  /\ handles' = handles \ {timer}
  /\ LET key == <<expiration_[timer], timer>> IN
     \/ /\ key \in timers_
        /\ timers_' = timers_ \ {key}
        /\ allocated' = allocated \ {timer}
        /\ UNCHANGED cancelingTimers_
     \/ /\ key \notin timers_
        /\ cancelingTimers_' = IF callingExpiredTimers_
                               THEN cancelingTimers_ \cup {timer} ELSE cancelingTimers_
        /\ UNCHANGED <<timers_, allocated>>
  /\ UNCHANGED <<kernelVars, expiration_, interval_, callingExpiredTimers_, batchVars, loopVars>>
-----------------------------------------------------------------------------
(***************************************************************************)
(* EventLoop::loop.  epoll_wait reports the timerfd whenever it has fired, *)
(* and other channels in any order around it.                              *)
(***************************************************************************)
Poll ==
  /\ pc = "poll"
  /\ active' \in IF fired THEN {<<"timerfd">>, <<"timerfd", "io">>, <<"io", "timerfd">>}
                          ELSE {<<"io">>}
  /\ pc' = "dispatch"
  /\ UNCHANGED <<kernelVars, heapVars, queueVars, batchVars, handles>>

EndBatch ==
  /\ pc = "dispatch" /\ active = <<>>
  /\ pc' = "poll"
  /\ UNCHANGED <<kernelVars, heapVars, queueVars, batchVars, active, handles>>

HandleIo ==
  /\ pc = "dispatch" /\ active # <<>> /\ Head(active) = "io"
  /\ active' = Tail(active)
  /\ pc' = "io"
  /\ UNCHANGED <<kernelVars, heapVars, queueVars, batchVars, handles>>

IoReturns ==
  /\ pc = "io"
  /\ pc' = "dispatch"
  /\ UNCHANGED <<kernelVars, heapVars, queueVars, batchVars, active, handles>>
-----------------------------------------------------------------------------
(***************************************************************************)
(* TimerQueue::handleRead: up to the loop over the expired timers, one     *)
(* callback of that loop, and what follows the loop.                       *)
(***************************************************************************)
\* The timers getExpired collects, and what it leaves in timers_.
Collected(t) == {p \in timers_ : p[1] <= t}
KeepsAll(t) == timers_  \* mutant
Remaining(t) == timers_ \ Collected(t)

KeepCanceling == UNCHANGED cancelingTimers_  \* mutant
ClearCanceling == cancelingTimers_' = {}

HandleRead ==
  /\ pc = "dispatch" /\ active # <<>> /\ Head(active) = "timerfd"
  /\ fired
  /\ active' = Tail(active)
  /\ now' = Wall
  /\ fired' = FALSE
  /\ ClearCanceling
  /\ expired' = Collected(Wall)
  /\ toRun' = expired'
  /\ timers_' = Remaining(Wall)
  /\ callingExpiredTimers_' = TRUE
  /\ pc' = "run"
  /\ UNCHANGED <<clock, skew, deadline, heapVars, running, handles>>

\* readTimerfd's assert: nothing to read, because the timerfd has been set again
\* since epoll_wait reported it.
ReadFails ==
  /\ pc = "dispatch" /\ active # <<>> /\ Head(active) = "timerfd"
  /\ ~fired
  /\ pc' = "aborted"
  /\ UNCHANGED <<kernelVars, heapVars, queueVars, batchVars, active, handles>>

RunTimer ==
  /\ pc = "run"
  /\ \E p \in toRun :
       /\ \A q \in toRun : NotAfter(p, q)
       /\ toRun' = toRun \ {p}
       /\ running' = p[2]
  /\ pc' = "callback"
  /\ UNCHANGED <<kernelVars, heapVars, queueVars, expired, now, active, handles>>

(***************************************************************************)
(* A Timer* is the only name a caller has for a timer, and nothing tells   *)
(* the caller when it dangles.  The model's caller is the careful one: it  *)
(* forgets a one-shot timer once its callback has returned, and any timer  *)
(* it has cancelled.                                                       *)
(***************************************************************************)
CallbackReturns ==
  /\ pc = "callback"
  /\ pc' = "run"
  /\ handles' = IF interval_[running] = 0 THEN handles \ {running} ELSE handles
  /\ running' = NoTimer
  /\ UNCHANGED <<kernelVars, heapVars, queueVars, expired, toRun, now, active>>

\* The condition in reset under which an expired timer is started again.
Restarts(timer) == interval_[timer] > 0 /\ timer \notin cancelingTimers_

\* Sets the timerfd for the first of the timers there are now.
NoRearm == UNCHANGED <<deadline, fired>>  \* mutant
Rearm ==
  IF timers_' = {}
  THEN UNCHANGED <<deadline, fired>>
  ELSE \E next \in {p[1] : p \in timers_'} :
         /\ \A p \in timers_' : next <= p[1]
         /\ IF next > 0 THEN ResetTimerfd(next) ELSE UNCHANGED <<deadline, fired>>

BatchDone == pc = "run" /\ toRun = {}

Reset ==
  /\ BatchDone
  /\ LET again == {a \in Timers(expired) : Restarts(a)} IN
     /\ allocated' = allocated \ (Timers(expired) \ again)
     /\ expiration_' = [a \in Addr |-> IF a \in again THEN now + interval_[a] ELSE expiration_[a]]
     /\ timers_' = timers_ \cup {<<now + interval_[a], a>> : a \in again}
  /\ Rearm
  /\ callingExpiredTimers_' = FALSE
  /\ expired' = {} /\ now' = 0
  /\ pc' = "dispatch"
  /\ UNCHANGED <<clock, skew, interval_, cancelingTimers_, toRun, running, active, handles>>
-----------------------------------------------------------------------------
LoopStep == \/ Poll \/ EndBatch \/ HandleIo \/ IoReturns
            \/ HandleRead \/ ReadFails \/ RunTimer \/ CallbackReturns \/ Reset

Next ==
  \/ Tick \/ SetWallClock \/ Expire
  \/ RunAt \/ RunEvery \/ \E timer \in Addr : Cancel(timer)
  \/ LoopStep

Spec == Init /\ [][Next]_vars

(***************************************************************************)
(* The kernel raises an armed timerfd, callbacks return, and the loop's    *)
(* thread gets to run.  Nothing obliges anybody to call the API.           *)
(***************************************************************************)
Fairness == WF_vars(Tick) /\ WF_vars(Expire) /\ WF_vars(LoopStep)
FairSpec == Spec /\ Fairness
-----------------------------------------------------------------------------
Pairs == Int \X Addr

\* Every variable holds a value of its type.
TypeOK ==
  /\ clock \in Nat /\ skew \in Skews
  /\ deadline \in Nat \cup {Disarmed} /\ fired \in BOOLEAN
  /\ allocated \subseteq Addr
  /\ expiration_ \in [Addr -> Int] /\ interval_ \in [Addr -> Nat]
  /\ timers_ \subseteq Pairs
  /\ cancelingTimers_ \subseteq Addr /\ callingExpiredTimers_ \in BOOLEAN
  /\ expired \subseteq Pairs /\ toRun \subseteq expired /\ now \in Nat
  /\ running \in Addr \cup {NoTimer}
  /\ active \in Seq({"timerfd", "io"})
  /\ pc \in {"poll", "dispatch", "io", "run", "callback", "aborted"}
  /\ handles \subseteq Addr

InHandleRead == pc \in {"run", "callback"}

\* A Timer is owned exactly once: by timers_, or, while handleRead runs, by the vector
\* of expired timers.  None is leaked, none is reachable after its delete, and the key
\* under which the set or the vector holds it is the expiration_ it has, so that
\* TimerQueue::cancel finds it.
OwnedOnce ==
  /\ allocated = Timers(timers_) \cup Timers(expired)
  /\ Timers(timers_) \cap Timers(expired) = {}
  /\ \A p \in timers_ \cup expired : p[1] = expiration_[p[2]]

\* No caller that follows the rule of CallbackReturns passes a dangling Timer* to
\* TimerQueue::cancel, and the timer whose callback runs is alive for as long as it runs.
NoDanglingHandle ==
  /\ handles \subseteq allocated
  /\ pc = "callback" => running \in allocated

\* What has been cancelled stays cancelled: a timer in timers_, which a later handleRead
\* will run, is one nobody has cancelled; one that is cancelled while its batch runs
\* can run once more, in this batch only, because cancelingTimers_ remembers it.
CancelledStaysCancelled ==
  /\ Timers(timers_) \subseteq handles
  /\ Timers(toRun) \subseteq handles \cup cancelingTimers_

\* Whenever the loop may block in epoll_wait with timers pending, the timerfd is armed
\* or has fired, even if the wall clock is set: no timer is forgotten.
ArmedWhilePending ==
  ~InHandleRead /\ timers_ # {} => deadline # Disarmed \/ fired

\* While the wall clock is not set (one value of skew), the timerfd expires no later
\* than the earliest pending timer is due, or MinDelay from now if that is later.
ArmedInTime ==
  ~InHandleRead => \A p \in timers_ :
    fired \/ (deadline # Disarmed /\ deadline <= Later(p[1] - skew, clock + MinDelay))

\* While the wall clock is not set, no callback is started before its timer is due.
NeverEarly == pc = "callback" => expiration_[running] <= Wall

\* TimerQueue.cpp:39-42 asserts that a timerfd epoll_wait has reported can be read.
ReadSucceeds == pc # "aborted"

(***************************************************************************)
(* What the queue promises is TimerService: a timer is waiting for its     *)
(* time, or due (collected by handleRead), or due although cancelled.      *)
(***************************************************************************)
status == [a \in Addr |-> IF a \in Timers(timers_) THEN "waiting"
                          ELSE IF a \notin Timers(expired) THEN "free"
                          ELSE IF a \in cancelingTimers_ THEN "cancelled" ELSE "due"]

Service == INSTANCE TimerService WITH Timer <- Addr, toServe <- Timers(toRun)

\* TimerQueue implements TimerService.
Implements == Service!Spec
=============================================================================
