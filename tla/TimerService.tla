---------------------------- MODULE TimerService ----------------------------
(***************************************************************************)
(* What TimerQueue promises to its users, without clocks, ordering or      *)
(* memory: timers are scheduled and cancelled one at a time; those whose   *)
(* time has come are collected as a batch, each of a batch is served once, *)
(* and at the end of the batch the ones that repeat, and were not          *)
(* cancelled meanwhile, wait again.                                        *)
(***************************************************************************)
CONSTANT Timer

VARIABLES
  status,   \* what each timer is doing
  toServe   \* timers of the batch whose callback has not been started

vars == <<status, toServe>>

Status == {"free", "waiting", "due", "cancelled"}
Batch == {t \in Timer : status[t] \in {"due", "cancelled"}}

Init == status = [t \in Timer |-> "free"] /\ toServe = {}

Schedule(t) ==
  /\ status[t] = "free"
  /\ status' = [status EXCEPT ![t] = "waiting"]
  /\ UNCHANGED toServe

\* A waiting timer is gone at once; one that is due may be served once more.
Cancel(t) ==
  /\ \/ status[t] = "waiting" /\ status' = [status EXCEPT ![t] = "free"]
     \/ status[t] = "due" /\ status' = [status EXCEPT ![t] = "cancelled"]
  /\ UNCHANGED toServe

Collect(S) ==
  /\ Batch = {}
  /\ \A t \in S : status[t] = "waiting"
  /\ status' = [t \in Timer |-> IF t \in S THEN "due" ELSE status[t]]
  /\ toServe' = S

Serve(t) ==
  /\ t \in toServe
  /\ toServe' = toServe \ {t}
  /\ UNCHANGED status

\* The batch ends: of the timers that were due, those in S wait again.
Finish(S) ==
  /\ toServe = {}
  /\ \A t \in S : status[t] = "due"
  /\ status' = [t \in Timer |-> IF t \in S THEN "waiting"
                                ELSE IF t \in Batch THEN "free" ELSE status[t]]
  /\ UNCHANGED toServe

Next ==
  \/ \E t \in Timer : Schedule(t) \/ Cancel(t) \/ Serve(t)
  \/ \E S \in SUBSET Timer : Collect(S) \/ Finish(S)

Spec == Init /\ [][Next]_vars
=============================================================================
