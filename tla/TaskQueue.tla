----------------------------- MODULE TaskQueue -----------------------------
(***************************************************************************)
(* What ThreadPool promises to the callers of run: a task is run at most   *)
(* once; tasks that wait are taken in the order in which run accepted them *)
(* and there are never more of them than setMaxQueueSize allows.           *)
(***************************************************************************)
EXTENDS Naturals, Sequences

CONSTANTS Task, Capacity   \* Capacity 0: no limit

VARIABLES
  waiting,  \* tasks that run has accepted, oldest first
  begun     \* tasks a thread has begun to run

vars == <<waiting, begun>>

Seen == begun \cup {waiting[i] : i \in DOMAIN waiting}

Init == waiting = <<>> /\ begun = {}

Accept(t) ==
  /\ t \notin Seen
  /\ Capacity = 0 \/ Len(waiting) < Capacity
  /\ waiting' = Append(waiting, t)
  /\ UNCHANGED begun

\* By the caller itself, when the pool has no threads.
RunInline(t) ==
  /\ t \notin Seen
  /\ begun' = begun \cup {t}
  /\ UNCHANGED waiting

Begin ==
  /\ waiting # <<>>
  /\ begun' = begun \cup {Head(waiting)}
  /\ waiting' = Tail(waiting)

Next == Begin \/ \E t \in Task : Accept(t) \/ RunInline(t)

Spec == Init /\ [][Next]_vars
=============================================================================
