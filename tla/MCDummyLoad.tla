---------------------------- MODULE MCDummyLoad -----------------------------
(***************************************************************************)
(* DummyLoad closed by the machine it runs on: getCpuTime measures what    *)
(* the last load has made of the machine, whose other programs use a       *)
(* constant share of it.                                                   *)
(***************************************************************************)
EXTENDS DummyLoad

VARIABLE background  \* the load without dummyload

\* Below 0 and above the number of slots, and two percentages.
MCRequests == {-1, 0, 7, 11}

mcVars == <<vars, background>>

\* The last load was that of goal.
Measured == clamp(goal + background)

MCInit == Init /\ background \in {0, 3}
MCNext == Next /\ UNCHANGED background
MCSpec == /\ MCInit /\ [][MCNext]_mcVars
          /\ WF_mcVars(ControlStep /\ UNCHANGED background)
          /\ \A w \in Worker : WF_mcVars(WorkerStep(w) /\ UNCHANGED background)

\* fixed has measured that load, and not what it finds in the first call, from counters that
\* have wrapped, or when /proc/stat cannot be read.
MeasuredRight == pc = "goal" /\ pc' = "slot" /\ type = 1 => su' = Corrected(su, Measured)

\* Once g_percent is left alone and the load is measured right, however often it was measured
\* wrong before, fixed comes to measure just that load and keeps it (or has no load of its
\* own, if the machine's is above): its steps neither miss nor pass the goal.
Settles ==
  <>[][g_percent' = g_percent /\ MeasuredRight]_mcVars =>
    <>[](pc = "control" /\ type = 1 =>
           Measured = g_percent \/ (goal = 0 /\ background > g_percent))

\* getCpuTime is right: if the machine has been idle for i of a jiffies, and 100 times the
\* others fit into an int, it returns the percentage, although the counters wrap.
ASSUME \A a \in 1 .. half \div Slots : \A i_ \in 0 .. a : \A last \in Word :
         LET now == int(last + a)  idle == int(last + i_) IN
         Rate(int(idle - last), int(now - last)) = ((a - i_) * Slots) \div a
=============================================================================
