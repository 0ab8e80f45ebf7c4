-------------------------- MODULE ThreadPoolProofs --------------------------
(***************************************************************************)
(* Theorems about ThreadPool, for any number of threads of the pool, any   *)
(* callers of run inside and outside of it, and any limit of the queue.    *)
(***************************************************************************)
EXTENDS ThreadPool, FiniteSetTheorems, TLAPS

\* threads_ and pc agree: threads not started yet take no step.
StartedOK ==
  /\ owner = "new" => threads_ = 0
  /\ owner = "starting" => threads_ < N
  /\ \A w \in Worker : pc[w] = "none" <=> w > threads_

Typed == TypeOK /\ StartedOK
-----------------------------------------------------------------------------
LEMMA InitTyped == Init => Typed
  <1> SUFFICES ASSUME Init PROVE Typed
    OBVIOUS
  <1>1. threads_ \in 0 .. N /\ queue_ \in Seq(Task)
    BY PoolAssumption DEF Init
  <1>2. /\ pc \in [Thread -> {"none", "idle", "test", "take", "task", "run", "exit"}]
        /\ arg \in [Thread -> Task \cup {NoTask}]
        /\ \A t \in Thread : pc[t] # "run" /\ arg[t] = NoTask
        /\ \A w \in Worker : pc[w] = "none"
    BY DEF Init, Worker, Thread
  <1>3. TypeOK
    BY <1>1, <1>2 DEF Init, TypeOK
  <1>4. StartedOK
    BY <1>2, PoolAssumption DEF Init, StartedOK, Worker
  <1> QED BY <1>3, <1>4 DEF Typed

LEMMA NotifySubset ==
  ASSUME NEW S, NEW R \in Notify(S) PROVE R \subseteq S
  BY DEF Notify

LEMMA NextTyped == Typed /\ [Next]_vars => Typed'
  <1> SUFFICES ASSUME Typed, [Next]_vars PROVE Typed'
    OBVIOUS
  <1> USE PoolAssumption DEF Typed, TypeOK, StartedOK
  <1> DEFINE States == {"none", "idle", "test", "take", "task", "run", "exit"}
  <1>1. CASE Start
    BY <1>1 DEF Start
  <1>2. CASE StartThread
    <2> DEFINE new == threads_ + 1
    <2>1. new \in Worker /\ new \in Thread /\ pc[new] = "none"
      BY <1>2 DEF StartThread, Worker, Thread
    <2>2. /\ pc' = [pc EXCEPT ![new] = "test"] /\ threads_' = new
          /\ UNCHANGED <<running_, queue_, notEmpty_, notFull_, arg, fresh, begun>>
      BY <1>2 DEF StartThread
    <2>3. TypeOK'
      BY <1>2, <2>1, <2>2 DEF StartThread, AllStarted, Worker
    <2>4. StartedOK'
      BY <1>2, <2>1, <2>2 DEF StartThread, AllStarted, Worker
    <2> QED BY <2>3, <2>4
  <1>3. CASE Stop
    BY <1>3 DEF Stop, NotifyAll
  <1>4. CASE JoinAll
    BY <1>4 DEF JoinAll
  <1>5. ASSUME NEW t \in Thread, RunInline(t) PROVE Typed'
    BY <1>5 DEF RunInline
  <1>6. ASSUME NEW t \in Thread, CallRun(t) PROVE Typed'
    BY <1>6 DEF CallRun, Caller, Worker, Thread
  <1>7. ASSUME NEW t \in Thread, WaitNotFull(t) PROVE Typed'
    BY <1>7 DEF WaitNotFull
  <1>8. ASSUME NEW t \in Thread, Push(t) PROVE Typed'
    <2>1. notEmpty_' \subseteq notEmpty_ /\ arg[t] \in Task
      BY <1>8, NotifySubset DEF Push
    <2>2. queue_' \in Seq(Task)
      BY <1>8, <2>1 DEF Push, PushBack
    <2>3. /\ pc' = [pc EXCEPT ![t] = Caller(t)] /\ pc[t] = "run"
          /\ arg' = [arg EXCEPT ![t] = NoTask]
          /\ Caller(t) \in {"task", "idle"}
          /\ UNCHANGED <<running_, threads_, notFull_, owner, fresh, begun>>
          /\ t \notin notFull_
      BY <1>8 DEF Push, Caller
    <2>4. TypeOK'
      BY <2>1, <2>2, <2>3
    <2>5. StartedOK'
      BY <2>3 DEF Worker, Thread
    <2> QED BY <2>4, <2>5
  <1>9. ASSUME NEW t \in Thread, SpuriousWakeup(t) PROVE Typed'
    BY <1>9 DEF SpuriousWakeup
  <1>10. ASSUME NEW w \in Worker, TestRunning(w) PROVE Typed'
    BY <1>10 DEF TestRunning, Worker, Thread
  <1>11. ASSUME NEW w \in Worker, WaitNotEmpty(w) PROVE Typed'
    BY <1>11 DEF WaitNotEmpty
  <1>12. ASSUME NEW w \in Worker, TakeTask(w) PROVE Typed'
    <2>1. notFull_' \subseteq notFull_ /\ Head(queue_) \in Task /\ Tail(queue_) \in Seq(Task)
      BY <1>12, NotifySubset DEF TakeTask, ToldOfPlace
    <2>2. /\ pc' = [pc EXCEPT ![w] = "task"] /\ pc[w] = "take" /\ w \notin notEmpty_
          /\ UNCHANGED <<running_, threads_, notEmpty_, arg, owner, fresh>>
          /\ queue_' = Tail(queue_) /\ begun' = begun \cup {Head(queue_)}
          /\ w \in Thread
      BY <1>12 DEF TakeTask, Thread
    <2>3. TypeOK'
      BY <2>1, <2>2
    <2>4. StartedOK'
      BY <2>2 DEF Worker, Thread
    <2> QED BY <2>3, <2>4
  <1>13. ASSUME NEW w \in Worker, TakeNothing(w) PROVE Typed'
    BY <1>13 DEF TakeNothing, Worker, Thread
  <1>14. ASSUME NEW w \in Worker, TaskReturns(w) PROVE Typed'
    BY <1>14 DEF TaskReturns, Worker, Thread
  <1>15. CASE UNCHANGED vars
    BY <1>15 DEF vars
  <1> QED
    BY <1>1, <1>2, <1>3, <1>4, <1>5, <1>6, <1>7, <1>8, <1>9, <1>10, <1>11, <1>12,
       <1>13, <1>14, <1>15 DEF Next, OwnerStep, RunStep, WorkerStep

\* Every variable of the pool keeps its type, and only who waits is waiting.
THEOREM TypeCorrect == Spec => []TypeOK
  <1>1. Spec => []Typed
    BY InitTyped, NextTyped, PTL DEF Spec
  <1>2. Typed => TypeOK
    BY DEF Typed
  <1> QED BY <1>1, <1>2, PTL
-----------------------------------------------------------------------------
LEMMA NextBounded == Typed /\ QueueBounded /\ [Next]_vars => QueueBounded'
  <1> SUFFICES ASSUME Typed, QueueBounded, [Next]_vars PROVE QueueBounded'
    OBVIOUS
  <1> USE PoolAssumption DEF QueueBounded, Typed, TypeOK
  <1>1. ASSUME NEW t \in Thread, Push(t) PROVE QueueBounded'
    <2>1. arg[t] \in Task
      BY <1>1 DEF Push
    <2>2. Len(queue_') = Len(queue_) + 1
      BY <1>1, <2>1 DEF Push, PushBack
    <2> QED BY <1>1, <2>2 DEF Push, isFull
  <1>2. ASSUME NEW w \in Worker, TakeTask(w) PROVE QueueBounded'
    BY <1>2 DEF TakeTask
  <1>3. CASE UNCHANGED queue_
    BY <1>3
  <1> QED
    BY <1>1, <1>2, <1>3
    DEF Next, OwnerStep, RunStep, WorkerStep, Start, StartThread, Stop, JoinAll, RunInline,
        CallRun, WaitNotFull, SpuriousWakeup, TestRunning, WaitNotEmpty, TakeNothing,
        TaskReturns, vars

\* The queue never grows beyond its limit.
THEOREM BoundedTheorem == Spec => []QueueBounded
  <1>1. Init => QueueBounded
    BY PoolAssumption DEF Init, QueueBounded
  <1>2. Spec => []Typed
    BY InitTyped, NextTyped, PTL DEF Spec
  <1> QED BY <1>1, <1>2, NextBounded, PTL DEF Spec
-----------------------------------------------------------------------------
LEMMA FiniteThreads ==
  /\ IsFiniteSet(Worker) /\ IsFiniteSet(Thread)
  /\ \A S : S \subseteq Thread => IsFiniteSet(S) /\ Cardinality(S) \in Nat
  <1>1. IsFiniteSet(Worker)
    BY FS_Interval, PoolAssumption DEF Worker
  <1>2. IsFiniteSet(Thread)
    BY <1>1, FS_Union, PoolAssumption DEF Thread
  <1> QED BY <1>1, <1>2, FS_Subset, FS_CardinalityType

\* One thread fewer, one more: what a step does to the number of threads on their way.
LEMMA OneLess ==
  ASSUME NEW S, NEW T, S \subseteq Thread, T \subseteq Thread, NEW t, S \ {t} \subseteq T
  PROVE  Cardinality(S) - 1 <= Cardinality(T)
  <1>1. IsFiniteSet(S) /\ IsFiniteSet(T) /\ Cardinality(S) \in Nat /\ Cardinality(T) \in Nat
    BY FiniteThreads
  <1>2. Cardinality(S \ {t}) >= Cardinality(S) - 1 /\ Cardinality(S \ {t}) \in Nat
    <2>1. IsFiniteSet(S \ {t}) /\ Cardinality(S \ {t}) = IF t \in S THEN Cardinality(S) - 1
                                                                      ELSE Cardinality(S)
      BY <1>1, FS_RemoveElement
    <2>2. Cardinality(S \ {t}) \in Nat
      BY <2>1, FS_CardinalityType
    <2> QED BY <1>1, <2>1, <2>2
  <1>3. Cardinality(S \ {t}) <= Cardinality(T)
    BY <1>1, FS_Subset
  <1> QED BY <1>1, <1>2, <1>3

LEMMA NoLess ==
  ASSUME NEW S, NEW T, T \subseteq Thread, S \subseteq T
  PROVE  Cardinality(S) <= Cardinality(T)
  BY FiniteThreads, FS_Subset

LEMMA OneMoreThread ==
  ASSUME NEW S, NEW T, T \subseteq Thread, NEW t \in T, t \notin S, S \subseteq T
  PROVE  Cardinality(S) + 1 <= Cardinality(T)
  <1>1. IsFiniteSet(S) /\ IsFiniteSet(T) /\ S \subseteq Thread
    BY FiniteThreads
  <1>2. Cardinality(S \cup {t}) = Cardinality(S) + 1
    BY <1>1, FS_AddElement
  <1>3. Cardinality(S \cup {t}) <= Cardinality(T)
    BY <1>1, FS_Subset
  <1> QED BY <1>2, <1>3

LEMMA NextTaker == Typed /\ NoLostTaker /\ [Next]_vars => NoLostTaker'
  <1> SUFFICES ASSUME Typed, NoLostTaker, [Next]_vars, notEmpty_' # {} PROVE NoLostTaker'
    BY DEF NoLostTaker
  <1> USE DEF NoLostTaker, Typed
  <1>1. Len(queue_) \in Nat /\ Len(queue_') \in Nat
    BY NextTyped DEF TypeOK
  <1>2. /\ Taking \subseteq Thread /\ Taking' \subseteq Thread
        /\ Cardinality(Taking) \in Nat /\ Cardinality(Taking') \in Nat
    BY FiniteThreads DEF Taking, Thread
  <1>3. CASE UNCHANGED queue_ /\ notEmpty_' = notEmpty_ /\ Taking \subseteq Taking'
    <2>1. Cardinality(Taking) <= Cardinality(Taking')
      BY <1>2, <1>3, NoLess
    <2> QED BY <1>1, <1>2, <1>3, <2>1
  <1>4. ASSUME NEW t \in Thread, SpuriousWakeup(t) PROVE NoLostTaker'
    <2>1. UNCHANGED queue_ /\ notEmpty_ # {}
      BY <1>4 DEF SpuriousWakeup
    <2>2. Taking \subseteq Taking'
      BY <1>4 DEF SpuriousWakeup, Taking
    <2>3. Cardinality(Taking) <= Cardinality(Taking')
      BY <1>2, <2>2, NoLess
    <2> QED BY <1>1, <1>2, <2>1, <2>3
  <1>5. ASSUME NEW t \in Thread, Push(t) PROVE NoLostTaker'
    <2>1. arg[t] \in Task /\ pc[t] = "run"
      BY <1>5 DEF Push, TypeOK
    <2>2. Len(queue_') = Len(queue_) + 1
      BY <1>5, <2>1 DEF Push, PushBack, TypeOK
    <2>3. notEmpty_ # {}
      BY <1>5 DEF Push, Notify
    <2>4. PICK w \in notEmpty_ : notEmpty_' = notEmpty_ \ {w}
      BY <1>5, <2>3 DEF Push, Notify
    <2>5. w \in Worker /\ pc[w] = "take" /\ w # t
      BY <2>1, <2>4 DEF TypeOK
    <2>6. \A v \in Worker : pc[v] = "take" => pc'[v] = "take"
      BY <1>5, <2>1 DEF Push, TypeOK, Thread
    <2>7. Taking \subseteq Taking' /\ w \in Taking' /\ w \notin Taking
      BY <2>4, <2>5, <2>6 DEF Taking
    <2>8. Cardinality(Taking) + 1 <= Cardinality(Taking')
      BY <1>2, <2>7, OneMoreThread
    <2> QED BY <1>1, <1>2, <2>2, <2>3, <2>8
  <1>6. ASSUME NEW w \in Worker, TakeTask(w) PROVE NoLostTaker'
    <2>1. Len(queue_') = Len(queue_) - 1 /\ notEmpty_' = notEmpty_
      BY <1>6 DEF TakeTask, TypeOK
    <2>2. Taking \ {w} \subseteq Taking'
      BY <1>6 DEF TakeTask, Taking, TypeOK, Thread
    <2>3. Cardinality(Taking) - 1 <= Cardinality(Taking')
      BY <1>2, <2>2, OneLess
    <2> QED BY <1>1, <1>2, <2>1, <2>3
  <1>7. ASSUME NEW w \in Worker, WaitNotEmpty(w) PROVE NoLostTaker'
    <2>1. Len(queue_') = 0
      BY <1>7 DEF WaitNotEmpty
    <2> QED BY <1>2, <2>1
  <1>8. ASSUME NEW w \in Worker, TakeNothing(w) PROVE NoLostTaker'
    <2>1. Len(queue_') = 0
      BY <1>8 DEF TakeNothing
    <2> QED BY <1>2, <2>1
  <1>9. CASE Stop
    BY <1>9 DEF Stop, NotifyAll
  <1>10. CASE StartThread
    <2>1. UNCHANGED <<queue_, notEmpty_>>
      BY <1>10 DEF StartThread
    <2>2. threads_ + 1 \in Worker /\ pc[threads_ + 1] = "none"
      BY <1>10, PoolAssumption DEF StartThread, StartedOK, TypeOK, Worker
    <2>3. Taking \subseteq Taking'
      BY <1>10, <2>1, <2>2 DEF StartThread, Taking, TypeOK, Thread
    <2> QED BY <1>3, <2>1, <2>3
  <1>11. CASE Start \/ JoinAll \/ UNCHANGED vars
    BY <1>3, <1>11 DEF Start, JoinAll, vars, Taking
  <1>12. ASSUME NEW t \in Thread, RunInline(t) \/ WaitNotFull(t) PROVE NoLostTaker'
    BY <1>3, <1>12 DEF RunInline, WaitNotFull, Taking
  <1>13. ASSUME NEW t \in Thread, CallRun(t) PROVE NoLostTaker'
    <2>1. UNCHANGED <<queue_, notEmpty_>> /\ pc[t] # "take"
      BY <1>13 DEF CallRun, Caller
    <2>2. Taking \subseteq Taking'
      BY <1>13, <2>1 DEF CallRun, Taking, TypeOK, Thread
    <2> QED BY <1>3, <2>1, <2>2
  <1>14. ASSUME NEW w \in Worker, TestRunning(w) \/ TaskReturns(w) PROVE NoLostTaker'
    <2>1. UNCHANGED <<queue_, notEmpty_>> /\ pc[w] # "take"
      BY <1>14 DEF TestRunning, TaskReturns
    <2>2. Taking \subseteq Taking'
      BY <1>14, <2>1 DEF TestRunning, TaskReturns, Taking, TypeOK, Thread
    <2> QED BY <1>3, <2>1, <2>2
  <1> QED
    BY <1>4, <1>5, <1>6, <1>7, <1>8, <1>9, <1>10, <1>11, <1>12, <1>13, <1>14
    DEF Next, OwnerStep, RunStep, WorkerStep

\* No thread of the pool sleeps through a task it is needed for.
THEOREM TakerTheorem == Spec => []NoLostTaker
  <1>1. Init => NoLostTaker
    BY DEF Init, NoLostTaker
  <1>2. Spec => []Typed
    BY InitTyped, NextTyped, PTL DEF Spec
  <1> QED BY <1>1, <1>2, NextTaker, PTL DEF Spec
-----------------------------------------------------------------------------
LEMMA NextCaller == Typed /\ NoLostCaller /\ [Next]_vars => NoLostCaller'
  <1> SUFFICES ASSUME Typed, NoLostCaller, [Next]_vars, notFull_' # {} PROVE NoLostCaller'
    BY DEF NoLostCaller
  <1> USE DEF NoLostCaller, Typed
  <1>1. Len(queue_) \in Nat /\ Len(queue_') \in Nat /\ maxQueue_ \in Nat
    BY NextTyped, PoolAssumption DEF TypeOK
  <1>2. /\ Running \subseteq Thread /\ Running' \subseteq Thread
        /\ Cardinality(Running) \in Nat /\ Cardinality(Running') \in Nat
    BY FiniteThreads DEF Running
  <1>3. CASE UNCHANGED queue_ /\ (notFull_' # {} => notFull_ # {}) /\ Running \subseteq Running'
    <2>1. Cardinality(Running) <= Cardinality(Running')
      BY <1>2, <1>3, NoLess
    <2> QED BY <1>1, <1>2, <1>3, <2>1
  <1>4. ASSUME NEW t \in Thread, SpuriousWakeup(t) PROVE NoLostCaller'
    BY <1>3, <1>4 DEF SpuriousWakeup, Running
  <1>5. ASSUME NEW t \in Thread, Push(t) PROVE NoLostCaller'
    <2>1. arg[t] \in Task
      BY <1>5 DEF Push, TypeOK
    <2>2. Len(queue_') = Len(queue_) + 1 /\ notFull_' = notFull_
      BY <1>5, <2>1 DEF Push, PushBack, TypeOK
    <2>3. Running \ {t} \subseteq Running'
      BY <1>5 DEF Push, Running, TypeOK
    <2>4. Cardinality(Running) - 1 <= Cardinality(Running')
      BY <1>2, <2>3, OneLess
    <2> QED BY <1>1, <1>2, <2>2, <2>4
  <1>6. ASSUME NEW w \in Worker, TakeTask(w) PROVE NoLostCaller'
    <2>1. Len(queue_') = Len(queue_) - 1
      BY <1>6 DEF TakeTask, TypeOK
    <2>2. CASE maxQueue_ = 0
      BY <1>1, <1>2, <2>2
    <2>3. CASE maxQueue_ > 0
      <3>1. notFull_' \in Notify(notFull_)
        BY <1>6, <2>3 DEF TakeTask, ToldOfPlace
      <3>2. notFull_ # {}
        BY <3>1 DEF Notify
      <3>3. PICK t \in notFull_ : notFull_' = notFull_ \ {t}
        BY <3>1, <3>2 DEF Notify
      <3>4. t \in Thread /\ pc[t] = "run" /\ t # w
        BY <1>6, <3>3 DEF TakeTask, TypeOK
      <3>5. \A v \in Thread : pc[v] = "run" => pc'[v] = "run"
        BY <1>6 DEF TakeTask, TypeOK, Thread
      <3>6. Running \subseteq Running' /\ t \in Running' /\ t \notin Running
        BY <3>3, <3>4, <3>5 DEF Running
      <3>7. Cardinality(Running) + 1 <= Cardinality(Running')
        BY <1>2, <3>6, OneMoreThread
      <3> QED BY <1>1, <1>2, <2>1, <3>2, <3>7
    <2> QED BY <1>1, <2>2, <2>3
  <1>7. ASSUME NEW t \in Thread, WaitNotFull(t) PROVE NoLostCaller'
    <2>1. maxQueue_ - Len(queue_') <= 0
      BY <1>1, <1>7 DEF WaitNotFull, isFull
    <2> QED BY <1>1, <1>2, <2>1
  <1>8. CASE StartThread
    <2>1. UNCHANGED <<queue_, notFull_>>
      BY <1>8 DEF StartThread
    <2>2. threads_ + 1 \in Worker /\ pc[threads_ + 1] = "none"
      BY <1>8, PoolAssumption DEF StartThread, StartedOK, TypeOK, Worker
    <2>3. Running \subseteq Running'
      BY <1>8, <2>1, <2>2 DEF StartThread, Running, TypeOK, Thread
    <2> QED BY <1>3, <2>1, <2>3
  <1>9. CASE Start \/ Stop \/ JoinAll \/ UNCHANGED vars
    BY <1>3, <1>9 DEF Start, Stop, JoinAll, vars, Running
  <1>10. ASSUME NEW t \in Thread, RunInline(t) PROVE NoLostCaller'
    BY <1>3, <1>10 DEF RunInline, Running
  <1>11. ASSUME NEW t \in Thread, CallRun(t) PROVE NoLostCaller'
    <2>1. UNCHANGED <<queue_, notFull_>>
      BY <1>11 DEF CallRun
    <2>2. Running \subseteq Running'
      BY <1>11, <2>1 DEF CallRun, Running, TypeOK
    <2> QED BY <1>3, <2>1, <2>2
  <1>12. ASSUME NEW w \in Worker,
                TestRunning(w) \/ WaitNotEmpty(w) \/ TakeNothing(w) \/ TaskReturns(w)
         PROVE  NoLostCaller'
    <2>1. UNCHANGED <<queue_, notFull_>> /\ pc[w] # "run"
      BY <1>12 DEF TestRunning, WaitNotEmpty, TakeNothing, TaskReturns
    <2>2. Running \subseteq Running'
      BY <1>12, <2>1
      DEF TestRunning, WaitNotEmpty, TakeNothing, TaskReturns, Running, TypeOK, Thread
    <2> QED BY <1>3, <2>1, <2>2
  <1> QED
    BY <1>4, <1>5, <1>6, <1>7, <1>8, <1>9, <1>10, <1>11, <1>12
    DEF Next, OwnerStep, RunStep, WorkerStep

\* No caller of run sleeps through a place that is free.
THEOREM CallerTheorem == Spec => []NoLostCaller
  <1>1. Init => NoLostCaller
    BY DEF Init, NoLostCaller
  <1>2. Spec => []Typed
    BY InitTyped, NextTyped, PTL DEF Spec
  <1> QED BY <1>1, <1>2, NextCaller, PTL DEF Spec

\* No thread sleeps through a task that is queued, and no caller through a free place.
THEOREM WakeupTheorem == Spec => []NoLostWakeup
  <1>1. NoLostTaker /\ NoLostCaller => NoLostWakeup
    BY DEF NoLostWakeup
  <1> QED BY <1>1, TakerTheorem, CallerTheorem, PTL
-----------------------------------------------------------------------------
(***************************************************************************)
(* ThreadPool implements TaskQueue because a task is in one place only.    *)
(***************************************************************************)
InQueue == {queue_[i] : i \in DOMAIN queue_}

OnePlace ==
  /\ fresh \cap (begun \cup InQueue) = {}
  /\ \A t \in Thread : arg[t] # NoTask =>
       /\ arg[t] \notin fresh \cup begun \cup InQueue
       /\ \A u \in Thread : arg[u] = arg[t] => u = t

LEMMA PushInQueue ==
  ASSUME TypeOK, NEW task \in Task, queue_' = Append(queue_, task)
  PROVE  InQueue' = InQueue \cup {task}
  <1>1. /\ DOMAIN queue_ = 1 .. Len(queue_) /\ Len(queue_) \in Nat
        /\ DOMAIN queue_' = 1 .. Len(queue_) + 1
        /\ \A i \in DOMAIN queue_ : queue_'[i] = queue_[i]
        /\ queue_'[Len(queue_) + 1] = task
    BY DEF TypeOK
  <1> QED BY <1>1 DEF InQueue

LEMMA TailInQueue ==
  ASSUME TypeOK, queue_ # <<>>, queue_' = Tail(queue_)
  PROVE  InQueue' \subseteq InQueue /\ Head(queue_) \in InQueue
  <1>1. /\ DOMAIN queue_ = 1 .. Len(queue_) /\ Len(queue_) \in Nat /\ Len(queue_) > 0
        /\ DOMAIN queue_' = 1 .. Len(queue_) - 1
        /\ \A i \in DOMAIN queue_' : queue_'[i] = queue_[i + 1]
        /\ Head(queue_) = queue_[1]
    BY DEF TypeOK
  <1> QED BY <1>1 DEF InQueue

LEMMA InitOnePlace == Init => OnePlace
  BY DEF Init, OnePlace, InQueue

LEMMA NextOnePlace == Typed /\ OnePlace /\ [Next]_vars => OnePlace'
  <1> SUFFICES ASSUME Typed, OnePlace, [Next]_vars PROVE OnePlace'
    OBVIOUS
  <1> USE DEF OnePlace, Typed
  <1>1. CASE UNCHANGED <<queue_, arg, fresh, begun>>
    BY <1>1 DEF InQueue
  <1>2. ASSUME NEW t \in Thread, RunInline(t) PROVE OnePlace'
    BY <1>2 DEF RunInline, InQueue
  <1>3. ASSUME NEW t \in Thread, CallRun(t) PROVE OnePlace'
    <2>1. PICK task \in fresh : fresh' = fresh \ {task} /\ arg' = [arg EXCEPT ![t] = task]
      BY <1>3 DEF CallRun
    <2>2. UNCHANGED <<queue_, begun>> /\ InQueue' = InQueue
      BY <1>3 DEF CallRun, InQueue
    <2>3. task \in Task /\ task # NoTask
      BY <2>1, PoolAssumption DEF TypeOK
    <2>4. \A u \in Thread : arg'[u] = IF u = t THEN task ELSE arg[u]
      BY <2>1 DEF TypeOK
    <2> QED BY <2>1, <2>2, <2>3, <2>4
  <1>4. ASSUME NEW t \in Thread, Push(t) PROVE OnePlace'
    <2>1. arg[t] \in Task /\ arg[t] # NoTask
      BY <1>4 DEF Push, TypeOK
    <2>2. InQueue' = InQueue \cup {arg[t]}
      BY <1>4, <2>1, PushInQueue DEF Push, PushBack
    <2>3. UNCHANGED <<fresh, begun>>
      BY <1>4 DEF Push
    <2>4. \A u \in Thread : arg'[u] = IF u = t THEN NoTask ELSE arg[u]
      BY <1>4 DEF Push, TypeOK
    <2> QED BY <2>1, <2>2, <2>3, <2>4
  <1>5. ASSUME NEW w \in Worker, TakeTask(w) PROVE OnePlace'
    <2>1. InQueue' \subseteq InQueue /\ Head(queue_) \in InQueue
      BY <1>5, TailInQueue DEF TakeTask
    <2>2. UNCHANGED <<fresh, arg>> /\ begun' = begun \cup {Head(queue_)}
      BY <1>5 DEF TakeTask
    <2> QED BY <2>1, <2>2
  <1> QED
    BY <1>1, <1>2, <1>3, <1>4, <1>5
    DEF Next, OwnerStep, RunStep, WorkerStep, Start, StartThread, Stop, JoinAll,
        WaitNotFull, SpuriousWakeup, TestRunning, WaitNotEmpty, TakeNothing,
        TaskReturns, vars

LEMMA StepImplements ==
  Typed /\ OnePlace /\ [Next]_vars => [Queue!Next]_(Queue!vars)
  <1> SUFFICES ASSUME Typed, OnePlace, [Next]_vars PROVE [Queue!Next]_(Queue!vars)
    OBVIOUS
  <1> USE DEF Typed
  <1>1. CASE UNCHANGED <<queue_, begun>>
    BY <1>1 DEF Queue!vars
  <1>2. ASSUME NEW t \in Thread, RunInline(t) PROVE Queue!Next
    <2>1. PICK task \in fresh : begun' = begun \cup {task}
      BY <1>2 DEF RunInline
    <2>2. task \in Task /\ task \notin Queue!Seen
      BY <2>1 DEF TypeOK, OnePlace, InQueue, Queue!Seen
    <2>3. Queue!RunInline(task)
      BY <1>2, <2>1, <2>2 DEF RunInline, Queue!RunInline
    <2> QED BY <2>2, <2>3 DEF Queue!Next
  <1>3. ASSUME NEW t \in Thread, Push(t) PROVE Queue!Next
    <2>1. arg[t] \in Task /\ arg[t] # NoTask
      BY <1>3 DEF Push, TypeOK
    <2>2. arg[t] \notin Queue!Seen
      BY <2>1 DEF OnePlace, InQueue, Queue!Seen
    <2>3. maxQueue_ = 0 \/ Len(queue_) < maxQueue_
      BY <1>3, PoolAssumption DEF Push, isFull, TypeOK
    <2>4. Queue!Accept(arg[t])
      BY <1>3, <2>2, <2>3 DEF Push, PushBack, Queue!Accept
    <2> QED BY <2>1, <2>4 DEF Queue!Next
  <1>4. ASSUME NEW w \in Worker, TakeTask(w) PROVE Queue!Next
    BY <1>4 DEF TakeTask, Queue!Begin, Queue!Next
  <1> QED
    BY <1>1, <1>2, <1>3, <1>4
    DEF Next, OwnerStep, RunStep, WorkerStep, Start, StartThread, Stop, JoinAll, CallRun,
        WaitNotFull, SpuriousWakeup, TestRunning, WaitNotEmpty, TakeNothing,
        TaskReturns, vars

\* Whatever the interleaving, the pool is a bounded first-in first-out queue whose tasks
\* are begun at most once.
THEOREM ImplementsTheorem == Spec => Implements
  <1>1. Init => Queue!Init
    BY DEF Init, Queue!Init
  <1>2. Spec => []Typed
    BY InitTyped, NextTyped, PTL DEF Spec
  <1>3. Spec => []OnePlace
    BY <1>2, InitOnePlace, NextOnePlace, PTL DEF Spec
  <1> QED BY <1>1, <1>2, <1>3, StepImplements, PTL DEF Spec, Implements, Queue!Spec
=============================================================================
