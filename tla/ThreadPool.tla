----------------------------- MODULE ThreadPool -----------------------------
(***************************************************************************)
(* base/ThreadPool: a queue of tasks, its mutex and two condition          *)
(* variables, the threads that take tasks from it, the callers of run, and *)
(* the owner that starts and stops the pool.                               *)
(*                                                                         *)
(* A critical section under LockGuard is one action, up to a wait inside   *)
(* it: nobody else changes what it reads.  What is read without the lock,  *)
(* running_ in runInThread and threads_.empty() in run, is an action of    *)
(* its own.  (A stale value read there is the value of an earlier moment,  *)
(* which is one of the interleavings.)                                     *)
(*                                                                         *)
(* A definition marked "mutant" is part of no behaviour: it is a form that *)
(* a bug would give to the definition after it, and which the runs reject. *)
(***************************************************************************)
EXTENDS Integers, Sequences, FiniteSets

CONSTANTS
  N,           \* start(N)
  Producer,    \* threads outside the pool that call run
  Submitters,  \* threads that call run: producers, or pool threads from a task
  Task, NoTask,
  maxQueue_    \* setMaxQueueSize; 0: no limit

Worker == 1 .. N
Thread == Worker \cup Producer

ASSUME PoolAssumption ==
  /\ N \in Nat \ {0}
  /\ IsFiniteSet(Producer) /\ Producer \cap Worker = {}
  /\ Submitters \subseteq Thread
  /\ NoTask \notin Task
  /\ maxQueue_ \in Nat

VARIABLES
  running_, threads_,    \* threads_: how many have been started
  queue_,
  notEmpty_, notFull_,   \* threads that wait on each condition variable
  pc,                    \* what each thread is doing
  arg,                   \* the task a thread is calling run with
  owner,                 \* what the owner of the pool is doing
  fresh, begun           \* tasks nobody has submitted; tasks that were begun

vars == <<running_, threads_, queue_, notEmpty_, notFull_, pc, arg, owner, fresh, begun>>

Init ==
  /\ running_ = FALSE /\ threads_ = 0
  /\ queue_ = <<>> /\ notEmpty_ = {} /\ notFull_ = {}
  /\ pc = [t \in Thread |-> IF t \in Worker THEN "none" ELSE "idle"]
  /\ arg = [t \in Thread |-> NoTask]
  /\ owner = "new"
  /\ fresh = Task /\ begun = {}

(***************************************************************************)
(* Condition::notify wakes one of the threads that wait, if there is one.  *)
(***************************************************************************)
NotifyNobody(waiters) == {waiters}  \* mutant
Notify(waiters) == IF waiters = {} THEN {{}} ELSE {waiters \ {w} : w \in waiters}
NotifyAll(waiters) == {}

\* pthread_cond_wait may return although nobody has notified.
SpuriousWakeup(t) ==
  /\ t \in notEmpty_ \cup notFull_
  /\ notEmpty_' = notEmpty_ \ {t} /\ notFull_' = notFull_ \ {t}
  /\ UNCHANGED <<running_, threads_, queue_, pc, arg, owner, fresh, begun>>
-----------------------------------------------------------------------------
(***************************************************************************)
(* The owner: start, stop (by itself or from the destructor).              *)
(***************************************************************************)
Start ==
  /\ owner = "new"
  /\ running_' = TRUE
  /\ owner' = "starting"
  /\ UNCHANGED <<threads_, queue_, notEmpty_, notFull_, pc, arg, fresh, begun>>

AllStarted(n) == n = N

StartThread ==
  /\ owner = "starting"
  /\ threads_' = threads_ + 1
  /\ pc' = [pc EXCEPT ![threads_ + 1] = "test"]
  /\ owner' = IF AllStarted(threads_') THEN "started" ELSE "starting"
  /\ UNCHANGED <<running_, queue_, notEmpty_, notFull_, arg, fresh, begun>>

StopUnnotified ==  \* mutant: the threads that wait for a task are not told
  /\ owner = "started"
  /\ running_' = FALSE
  /\ owner' = "joining"
  /\ UNCHANGED <<threads_, queue_, notEmpty_, notFull_, pc, arg, fresh, begun>>

Stop ==
  /\ owner = "started"
  /\ running_' = FALSE
  /\ notEmpty_' = NotifyAll(notEmpty_)
  /\ owner' = "joining"
  /\ UNCHANGED <<threads_, queue_, notFull_, pc, arg, fresh, begun>>

JoinAll ==
  /\ owner = "joining"
  /\ \A w \in Worker : pc[w] = "exit"
  /\ owner' = "stopped"
  /\ UNCHANGED <<running_, threads_, queue_, notEmpty_, notFull_, pc, arg, fresh, begun>>
-----------------------------------------------------------------------------
(***************************************************************************)
(* run: called by a producer, or by a task on a thread of the pool.        *)
(***************************************************************************)
Caller(t) == IF t \in Worker THEN "task" ELSE "idle"

RunInline(t) ==
  /\ t \in Submitters /\ pc[t] = Caller(t)
  /\ threads_ = 0
  /\ \E task \in fresh : fresh' = fresh \ {task} /\ begun' = begun \cup {task}
  /\ UNCHANGED <<running_, threads_, queue_, notEmpty_, notFull_, pc, arg, owner>>

CallRun(t) ==
  /\ t \in Submitters /\ pc[t] = Caller(t)
  /\ threads_ > 0
  /\ \E task \in fresh : fresh' = fresh \ {task} /\ arg' = [arg EXCEPT ![t] = task]
  /\ pc' = [pc EXCEPT ![t] = "run"]
  /\ UNCHANGED <<running_, threads_, queue_, notEmpty_, notFull_, owner, begun>>

isFull == maxQueue_ > 0 /\ Len(queue_) >= maxQueue_

\* A thread that has the lock and is not (or no longer) waiting tests isFull, every time.
WaitNotFull(t) ==
  /\ pc[t] = "run" /\ t \notin notFull_
  /\ isFull
  /\ notFull_' = notFull_ \cup {t}
  /\ UNCHANGED <<running_, threads_, queue_, notEmpty_, pc, arg, owner, fresh, begun>>

PushFront(task) == <<task>> \o queue_  \* mutant
PushBack(task) == Append(queue_, task)

Push(t) ==
  /\ pc[t] = "run" /\ t \notin notFull_
  /\ ~isFull
  /\ queue_' = PushBack(arg[t])
  /\ notEmpty_' \in Notify(notEmpty_)
  /\ pc' = [pc EXCEPT ![t] = Caller(t)]
  /\ arg' = [arg EXCEPT ![t] = NoTask]
  /\ UNCHANGED <<running_, threads_, notFull_, owner, fresh, begun>>
-----------------------------------------------------------------------------
(***************************************************************************)
(* runInThread and take.                                                   *)
(***************************************************************************)
TestRunning(w) ==
  /\ pc[w] = "test"
  /\ pc' = [pc EXCEPT ![w] = IF running_ THEN "take" ELSE "exit"]
  /\ UNCHANGED <<running_, threads_, queue_, notEmpty_, notFull_, arg, owner, fresh, begun>>

WaitNotEmpty(w) ==
  /\ pc[w] = "take" /\ w \notin notEmpty_
  /\ queue_ = <<>> /\ running_
  /\ notEmpty_' = notEmpty_ \cup {w}
  /\ UNCHANGED <<running_, threads_, queue_, notFull_, pc, arg, owner, fresh, begun>>

\* take tells the callers of run about the place it has made, if they can wait for one.
NeverTells == {notFull_}  \* mutant
ToldOfPlace == IF maxQueue_ > 0 THEN Notify(notFull_) ELSE {notFull_}

TakeTask(w) ==
  /\ pc[w] = "take" /\ w \notin notEmpty_
  /\ queue_ # <<>>
  /\ queue_' = Tail(queue_)
  /\ begun' = begun \cup {Head(queue_)}
  /\ notFull_' \in ToldOfPlace
  /\ pc' = [pc EXCEPT ![w] = "task"]
  /\ UNCHANGED <<running_, threads_, notEmpty_, arg, owner, fresh>>

\* An empty Task, which runInThread does not call.
TakeNothing(w) ==
  /\ pc[w] = "take" /\ w \notin notEmpty_
  /\ queue_ = <<>> /\ ~running_
  /\ pc' = [pc EXCEPT ![w] = "test"]
  /\ UNCHANGED <<running_, threads_, queue_, notEmpty_, notFull_, arg, owner, fresh, begun>>

TaskReturns(w) ==
  /\ pc[w] = "task"
  /\ pc' = [pc EXCEPT ![w] = "test"]
  /\ UNCHANGED <<running_, threads_, queue_, notEmpty_, notFull_, arg, owner, fresh, begun>>
-----------------------------------------------------------------------------
OwnerStep == Start \/ StartThread \/ Stop \/ JoinAll
RunStep(t) == WaitNotFull(t) \/ Push(t)
WorkerStep(w) == \/ TestRunning(w) \/ WaitNotEmpty(w) \/ TakeTask(w)
                 \/ TakeNothing(w) \/ TaskReturns(w)

Next ==
  \/ OwnerStep
  \/ \E t \in Thread : RunInline(t) \/ CallRun(t) \/ RunStep(t) \/ SpuriousWakeup(t)
  \/ \E w \in Worker : WorkerStep(w)

Spec == Init /\ [][Next]_vars

(***************************************************************************)
(* Threads that can run get to run, and tasks return.  Nobody has to call  *)
(* run or stop.                                                            *)
(***************************************************************************)
Fairness ==
  /\ WF_vars(StartThread) /\ WF_vars(JoinAll)
  /\ \A t \in Thread : WF_vars(RunStep(t))
  /\ \A w \in Worker : WF_vars(WorkerStep(w))

FairSpec == Spec /\ Fairness
-----------------------------------------------------------------------------
\* Threads about to test the condition they wait for: new, or woken.
Taking == {w \in Worker : pc[w] = "take" /\ w \notin notEmpty_}
Running == {t \in Thread : pc[t] = "run" /\ t \notin notFull_}

\* Every variable holds a value of its type; who waits is where it can wait.
TypeOK ==
  /\ running_ \in BOOLEAN /\ threads_ \in 0 .. N
  /\ queue_ \in Seq(Task)
  /\ notEmpty_ \subseteq {w \in Worker : pc[w] = "take"}
  /\ notFull_ \subseteq {t \in Thread : pc[t] = "run"}
  /\ pc \in [Thread -> {"none", "idle", "test", "take", "task", "run", "exit"}]
  /\ arg \in [Thread -> Task \cup {NoTask}]
  /\ \A t \in Thread : pc[t] = "run" <=> arg[t] # NoTask
  /\ owner \in {"new", "starting", "started", "joining", "stopped"}
  /\ fresh \subseteq Task /\ begun \subseteq Task

\* The queue never holds more than setMaxQueueSize allows, however many callers of run
\* are woken, spuriously or not, or arrive at the same time.
QueueBounded == maxQueue_ > 0 => Len(queue_) <= maxQueue_

\* No wakeup of a thread that waits in take is lost: while threads wait, and are needed,
\* as many threads as there are tasks are on their way to the queue.
NoLostTaker == notEmpty_ # {} => Len(queue_) <= Cardinality(Taking)

\* No wakeup of a caller that waits in run is lost: while callers wait, as many callers
\* as there are free places are on their way to the queue.
NoLostCaller == notFull_ # {} => maxQueue_ - Len(queue_) <= Cardinality(Running)

\* No wakeup is lost, on either condition variable of the pool.
NoLostWakeup == NoLostTaker /\ NoLostCaller

\* Every thread of the pool runs a task that waits in run for a place in the queue, which
\* nobody can make: tasks that call run can block the whole pool.
Jammed == \A w \in Worker : w \in notFull_

\* A task that run has accepted is begun, unless the pool is stopped before, or jammed.
AcceptedRuns ==
  \A task \in Task :
    (\E i \in DOMAIN queue_ : queue_[i] = task) ~> (task \in begun \/ ~running_ \/ Jammed)

\* A caller blocked in run returns, unless the pool is jammed or stopped before (stop does
\* not notify notFull_), provided that the other callers do not go on for ever: run lets a
\* late caller pass one that has been woken.
CallerReturns ==
  \A p \in Producer : (pc[p] = "run") ~> (pc[p] = "idle" \/ ~running_ \/ Jammed)

\* stop returns, unless a task waits in run: stop does not wake it.
StopReturns == (owner = "joining") ~> (owner = "stopped" \/ Worker \cap notFull_ # {})

Queue == INSTANCE TaskQueue WITH Capacity <- maxQueue_, waiting <- queue_

\* ThreadPool implements TaskQueue.
Implements == Queue!Spec
=============================================================================
