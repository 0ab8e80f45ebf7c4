----------------------------- MODULE DummyLoad -----------------------------
(***************************************************************************)
(* The dummyload program: the threads that burn CPU while g_busy is set,   *)
(* the thread that sets it slot by slot (load), for a load that it         *)
(* corrects against the measured one (fixed) or that follows a curve       *)
(* (cosine, sawtooth), and the HTTP thread that changes g_percent.         *)
(*                                                                         *)
(* A critical section under LockGuard is one action, up to a wait inside   *)
(* it.  The program's 100 slots, which are also its 100 percent, are a     *)
(* constant.                                                               *)
(*                                                                         *)
(* A definition marked "mutant" is part of no behaviour: it is a form that *)
(* a bug would give to the definition after it, and which the runs reject. *)
(***************************************************************************)
EXTENDS Integers, FiniteSets

CONSTANTS
  Worker,     \* threads that run threadFunc
  Slots,      \* slots of one call of load: 100
  Initial,    \* g_percent at the start: 2
  Requests,   \* what atoi makes of the queries to /percent
  Ints        \* how many values an int has: 2^32

ASSUME LoadAssumption ==
  /\ IsFiniteSet(Worker)
  /\ Slots \in Nat \ {0}
  /\ Initial \in 0 .. Slots
  /\ Requests \subseteq Int
  /\ Ints \in Nat \ {0}

VARIABLES
  g_percent, g_busy, g_done,
  waiting,            \* threads in g_cond.wait()
  worker,             \* what each thread of threadFunc is doing
  type,               \* dummyload's argument: fixed, cosine, sawtooth or none of them
  percent, su,        \* locals of fixed, cosine and sawtooth
  goal, err, count, i, busy,   \* the argument and the locals of load
  pc                  \* where the control thread is

controlVars == <<type, percent, su>>
loadVars == <<goal, err, count, i, busy>>
vars == <<g_percent, g_busy, g_done, waiting, worker, controlVars, loadVars, pc>>

Percent == 0 .. Slots

\* The switch of dummyload: fixed, cosine and sawtooth never end.
selected == IF type \in 1 .. 3 THEN "control" ELSE "finish"

Init ==
  /\ g_percent = Initial /\ g_busy = FALSE /\ g_done = FALSE
  /\ waiting = {} /\ worker = [w \in Worker |-> "test"]
  /\ percent = 0 /\ su = 0
  /\ goal = 0 /\ err = 0 /\ count = 0 /\ i = 0 /\ busy = FALSE
  /\ type \in 1 .. 4
  /\ pc = selected
-----------------------------------------------------------------------------
(***************************************************************************)
(* The HTTP thread: onRequest calls setGlobalPercent if it is asked for    *)
(* /percent with a query, and changes nothing otherwise.                   *)
(***************************************************************************)
OnRequest(p) ==
  /\ g_percent' = IF p \in Percent THEN p ELSE g_percent
  /\ UNCHANGED <<g_busy, g_done, waiting, worker, controlVars, loadVars, pc>>

(***************************************************************************)
(* threadFunc: the test of g_done, the critical section, busy.             *)
(***************************************************************************)
TestDone(w) ==
  /\ worker[w] = "test"
  /\ worker' = [worker EXCEPT ![w] = IF g_done THEN "exit" ELSE "lock"]
  /\ UNCHANGED <<g_percent, g_busy, g_done, waiting, controlVars, loadVars, pc>>

WaitBusy(w) ==
  /\ worker[w] = "lock" /\ w \notin waiting
  /\ ~g_busy
  /\ waiting' = waiting \cup {w}
  /\ UNCHANGED <<g_percent, g_busy, g_done, worker, controlVars, loadVars, pc>>

GoBusy(w) ==
  /\ worker[w] = "lock" /\ w \notin waiting
  /\ g_busy
  /\ worker' = [worker EXCEPT ![w] = "burn"]
  /\ UNCHANGED <<g_percent, g_busy, g_done, waiting, controlVars, loadVars, pc>>

BusyReturns(w) ==
  /\ worker[w] = "burn"
  /\ worker' = [worker EXCEPT ![w] = "test"]
  /\ UNCHANGED <<g_percent, g_busy, g_done, waiting, controlVars, loadVars, pc>>

\* pthread_cond_wait may return although nobody has notified.
SpuriousWakeup(w) ==
  /\ w \in waiting
  /\ waiting' = waiting \ {w}
  /\ UNCHANGED <<g_percent, g_busy, g_done, worker, controlVars, loadVars, pc>>
-----------------------------------------------------------------------------
(***************************************************************************)
(* fixed, cosine and sawtooth read the goal and call load: fixed with su,  *)
(* corrected against the measured load, the others with a part of it.      *)
(***************************************************************************)
ReadPercent ==
  /\ pc = "control"
  /\ percent' = g_percent
  /\ pc' = "goal"
  /\ UNCHANGED <<g_percent, g_busy, g_done, waiting, worker, type, su, loadVars>>

(***************************************************************************)
(* getCpuTime.  Jiffies are counted in ints that may have wrapped, and so  *)
(* are the differences i and a of two counts, of idle ones and of all, and *)
(* the product.  The first call finds what has been counted since the      *)
(* machine was started.  0 / 0 converts to the least int.                  *)
(***************************************************************************)
half == Ints \div 2
Word == -half .. Ints - half - 1
int(x) == ((x + half) % Ints) - half

clamp(t) == IF t < 0 THEN 0 ELSE IF t > Slots THEN Slots ELSE t
Rate(i_, a) ==
  LET used == int((a - i_) * Slots) IN
  clamp(IF a > 0 THEN used \div a ELSE IF a < 0 THEN (-used) \div (-a) ELSE -half)

\* Slots if /proc/stat cannot be read.
getCpuTime == {Slots} \cup {Rate(i_, a) : i_, a \in Word}

\* One step towards the goal, kept at 0 or more, and back at the goal if it passes 100.
Restless(s, rate) ==  \* mutant
  IF rate >= percent THEN IF s = 0 THEN 0 ELSE s - 1 ELSE IF s = Slots THEN s ELSE s + 1
Corrected(s, rate) ==
  LET step == IF rate > percent THEN s - 1 ELSE IF rate < percent THEN s + 1 ELSE s
  IN IF step < 0 THEN 0 ELSE IF step > Slots THEN percent ELSE step

\* What err starts from and how it goes on: Bresenham's line algorithm.
Unbiased(p) == 2 * p  \* mutant: does not start in the middle of a slot
FirstErr(p) == 2 * p - Slots
NextErr(e, b) == IF b THEN e + 2 * (goal - Slots) ELSE e + 2 * goal

\* The start of load.
StartLoad(p) ==
  /\ goal' = clamp(p)
  /\ err' = FirstErr(goal')
  /\ count' = 0 /\ i' = 0 /\ busy' = FALSE
  /\ pc' = "slot"

Measure(rate) ==
  /\ pc = "goal" /\ type = 1
  /\ su' = Corrected(su, rate)
  /\ StartLoad(su')
  /\ UNCHANGED <<g_percent, g_busy, g_done, waiting, worker, type, percent>>

\* cosine and sawtooth: the share lies between 0 and 1.
Curve ==
  /\ pc = "goal" /\ type \in {2, 3}
  /\ \E share \in 0 .. percent : StartLoad(share)
  /\ UNCHANGED <<g_percent, g_busy, g_done, waiting, worker, controlVars>>

NextSlot ==
  /\ pc = "slot" /\ i < Slots
  /\ busy' = (err > 0)
  /\ err' = NextErr(err, busy')
  /\ count' = IF busy' THEN count + 1 ELSE count
  /\ pc' = "publish"
  /\ UNCHANGED <<g_percent, g_busy, g_done, waiting, worker, controlVars, goal, i>>

\* Under g_mutex, and the sleep after it.
NotifyOne(waiters) == IF waiters = {} THEN {{}} ELSE {waiters \ {w} : w \in waiters}  \* mutant
NotifyAll(waiters) == {{}}

Publish ==
  /\ pc = "publish"
  /\ g_busy' = busy
  /\ waiting' \in NotifyAll(waiting)
  /\ i' = i + 1
  /\ pc' = "slot"
  /\ UNCHANGED <<g_percent, g_done, worker, controlVars, goal, err, count, busy>>

LoadReturns ==
  /\ pc = "slot" /\ i = Slots
  /\ pc' = IF count = goal THEN "control" ELSE "aborted"
  /\ UNCHANGED <<g_percent, g_busy, g_done, waiting, worker, controlVars, loadVars>>
-----------------------------------------------------------------------------
(***************************************************************************)
(* The end of dummyload.                                                   *)
(***************************************************************************)
SetDone ==
  /\ pc = "finish"
  /\ g_done' = TRUE
  /\ pc' = "wake"
  /\ UNCHANGED <<g_percent, g_busy, waiting, worker, controlVars, loadVars>>

WakeIdle ==  \* mutant: without g_busy the threads go back to sleep
  /\ pc = "wake"
  /\ waiting' \in NotifyAll(waiting)
  /\ pc' = "join"
  /\ UNCHANGED <<g_percent, g_busy, g_done, worker, controlVars, loadVars>>

WakeAll ==
  /\ pc = "wake"
  /\ g_busy' = TRUE
  /\ waiting' \in NotifyAll(waiting)
  /\ pc' = "join"
  /\ UNCHANGED <<g_percent, g_done, worker, controlVars, loadVars>>

JoinAll ==
  /\ pc = "join"
  /\ \A w \in Worker : worker[w] = "exit"
  /\ pc' = "returned"
  /\ UNCHANGED <<g_percent, g_busy, g_done, waiting, worker, controlVars, loadVars>>
-----------------------------------------------------------------------------
WorkerStep(w) == TestDone(w) \/ WaitBusy(w) \/ GoBusy(w) \/ BusyReturns(w)
ControlStep == \/ ReadPercent \/ Curve \/ \E rate \in getCpuTime : Measure(rate)
               \/ NextSlot \/ Publish \/ LoadReturns \/ SetDone \/ WakeAll \/ JoinAll

Next ==
  \/ \E p \in Requests : OnRequest(p)
  \/ \E w \in Worker : WorkerStep(w) \/ SpuriousWakeup(w)
  \/ ControlStep

Spec == Init /\ [][Next]_vars

\* Every thread that can run gets to run, and busy returns.
FairSpec == Spec /\ WF_vars(ControlStep) /\ \A w \in Worker : WF_vars(WorkerStep(w))
-----------------------------------------------------------------------------
\* Every variable holds a value of its type; su, which fixed corrects step by step, stays
\* a percentage, so that the clamps of load have nothing to do.
TypeOK ==
  /\ g_percent \in Percent /\ g_busy \in BOOLEAN /\ g_done \in BOOLEAN
  /\ waiting \subseteq {w \in Worker : worker[w] = "lock"}
  /\ worker \in [Worker -> {"test", "lock", "burn", "exit"}]
  /\ type \in 1 .. 4 /\ percent \in Percent /\ su \in Percent
  /\ goal \in Percent /\ err \in Int /\ count \in Nat /\ i \in 0 .. Slots
  /\ busy \in BOOLEAN
  /\ pc \in {"control", "goal", "slot", "publish", "aborted", "finish", "wake", "join", "returned"}

\* load spreads the busy slots evenly: after each slot, their number is within half a slot
\* of the share of the goal that is due by then.
EvenlySpread ==
  pc = "slot" => /\ 2 * (Slots * count - goal * i) <= Slots
                 /\ 2 * (goal * i - Slots * count) <= Slots

\* The assert at the end of load holds: exactly percent of the slots were busy, although
\* g_percent changes meanwhile.
CountIsPercent == pc # "aborted"

\* No thread sleeps through a busy slot: whoever waits has tested g_busy after it was last
\* cleared, and all are told when it is set.
NobodySleepsWhenBusy == waiting # {} => ~g_busy

\* A dummyload that gets to its end returns: every thread leaves its wait, however late it
\* has tested g_done.
ThreadsEnd == (pc = "finish") ~> (pc = "returned")
=============================================================================
