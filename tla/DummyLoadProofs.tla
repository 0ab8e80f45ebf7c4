-------------------------- MODULE DummyLoadProofs --------------------------
(***************************************************************************)
(* DummyLoad's invariants, for any number of threads, of slots and of      *)
(* requests.  What load promises about count follows from the account that *)
(* err keeps, which is inductive; the rest is inductive as it stands.      *)
(***************************************************************************)
EXTENDS DummyLoad, TLAPS

\* The slots that load has decided on: one more than i until g_busy is set.
Decided == IF pc = "publish" THEN i + 1 ELSE i

\* What err is at any time in load, and the bounds it never leaves.
Account ==
  pc \in {"slot", "publish"} =>
    /\ err = 2 * goal - Slots + 2 * (goal * Decided) - 2 * (Slots * count)
    /\ 2 * goal - 2 * Slots < err /\ err <= 2 * goal
    /\ pc = "publish" => i < Slots

IInv == TypeOK /\ Account /\ CountIsPercent /\ NobodySleepsWhenBusy
-----------------------------------------------------------------------------
\* Products, which the arithmetic of the backends does not expand.
LEMMA NextMultiple == ASSUME NEW a \in Int, NEW b \in Int PROVE a * (b + 1) = a * b + a
  OBVIOUS

LEMMA SmallMultiple ==
  ASSUME NEW s \in Nat \ {0}, NEW c \in Int, NEW p \in Int,
         -s < 2 * (p * s) - 2 * (s * c), 2 * (p * s) - 2 * (s * c) <= s
  PROVE  c = p
<1> DEFINE d == p - c
<1>1. d \in Int /\ p * s - s * c = s * d  OBVIOUS
<1>2. CASE d >= 1
  <2>1. s * d = s + s * (d - 1) /\ s * (d - 1) >= 0  BY <1>1, <1>2
  <2>2. s * d >= s  BY <1>1, <2>1
  <2>3. s * d \in Int  BY <1>1
  <2>. HIDE DEF d
  <2>4. p * s \in Int /\ s * c \in Int  OBVIOUS
  <2>. QED  BY <1>1, <2>2, <2>3, <2>4
<1>3. CASE d <= -1
  <2>1. s * d = s * (d + 1) - s /\ s * (d + 1) <= 0  BY <1>1, <1>3
  <2>2. s * d <= -s  BY <1>1, <2>1
  <2>3. s * d \in Int  BY <1>1
  <2>. HIDE DEF d
  <2>4. p * s \in Int /\ s * c \in Int  OBVIOUS
  <2>. QED  BY <1>1, <2>2, <2>3, <2>4
<1>4. CASE d = 0  BY <1>4
<1>. QED  BY <1>1, <1>2, <1>3, <1>4
LEMMA NoMultiple == ASSUME NEW a \in Int PROVE a * 0 = 0
  OBVIOUS
-----------------------------------------------------------------------------
\* The program starts in IInv: no thread waits, and load is not under way.
LEMMA InitInvariant == Init => IInv
<1>. SUFFICES ASSUME Init PROVE IInv  OBVIOUS
<1>1. TypeOK
  <2>1. 0 \in 0 .. Slots /\ Initial \in 0 .. Slots  BY LoadAssumption DEF LoadAssumption
  <2>2. /\ g_percent \in Percent /\ percent \in Percent /\ su \in Percent /\ goal \in Percent
        /\ i \in 0 .. Slots /\ err \in Int /\ count \in Nat
    BY <2>1 DEF Init, Percent
  <2>3. /\ waiting \subseteq {w \in Worker : worker[w] = "lock"}
        /\ worker \in [Worker -> {"test", "lock", "burn", "exit"}]
    BY DEF Init
  <2>4. type \in 1 .. 4 /\ pc \in {"control", "finish"}  BY DEF Init, selected
  <2>. QED  BY <2>2, <2>3, <2>4 DEF Init, TypeOK
<1>2. Account /\ CountIsPercent /\ NobodySleepsWhenBusy
  BY DEF Init, selected, Account, CountIsPercent, NobodySleepsWhenBusy
<1>. QED  BY <1>1, <1>2 DEF IInv

\* Whatever is measured, clamped or corrected is a percentage.
LEMMA ClampInPercent == ASSUME NEW t \in Int PROVE clamp(t) \in Percent
  BY LoadAssumption DEF LoadAssumption, clamp, Percent

LEMMA MeasuredInPercent == getCpuTime \subseteq Percent
<1>. SUFFICES ASSUME NEW rate \in getCpuTime PROVE rate \in Percent  OBVIOUS
<1>0. Slots \in Nat \ {0} /\ Ints \in Nat \ {0}  BY LoadAssumption DEF LoadAssumption
<1>1. CASE rate = Slots  BY <1>0, <1>1 DEF Percent
<1>2. CASE \E i_, a \in Word : rate = Rate(i_, a)
  <2>1. PICK i_ \in Word, a \in Word : rate = Rate(i_, a)  BY <1>2
  <2>2. half \in Int  BY <1>0 DEF half
  <2>3. i_ \in Int /\ a \in Int  BY <1>0, <2>2 DEF Word
  <2> DEFINE used == int((a - i_) * Slots)
  <2>4. (a - i_) * Slots \in Int  BY <1>0, <2>3
  <2>5. used \in Int
    <3> DEFINE x == (a - i_) * Slots
    <3>1. x \in Int  BY <2>4
    <3>. HIDE DEF x
    <3>2. int(x) \in Int  BY <1>0, <2>2, <3>1 DEF int
    <3>. QED  BY <3>2 DEF x
  <2>6. rate = clamp(IF a > 0 THEN used \div a ELSE IF a < 0 THEN (-used) \div (-a) ELSE -half)
    BY <2>1 DEF Rate
  <2>. HIDE DEF used
  <2>7. CASE a > 0  BY <2>3, <2>5, <2>6, <2>7, ClampInPercent
  <2>8. CASE a < 0  BY <2>3, <2>5, <2>6, <2>8, ClampInPercent
  <2>9. CASE a = 0  BY <2>2, <2>6, <2>9, ClampInPercent
  <2>. QED  BY <2>3, <2>7, <2>8, <2>9
<1>. QED  BY <1>1, <1>2 DEF getCpuTime

\* Every step keeps the types: the one that matters is Measure's correction of su.
LEMMA TypeStep == TypeOK /\ Account /\ [Next]_vars => TypeOK'
<1>. SUFFICES ASSUME TypeOK, Account, [Next]_vars PROVE TypeOK'  OBVIOUS
<1>. USE LoadAssumption DEF TypeOK
<1>1. ASSUME NEW p \in Requests, OnRequest(p) PROVE TypeOK'
  BY <1>1 DEF OnRequest, controlVars, loadVars
<1>2. ASSUME NEW w \in Worker, WorkerStep(w) PROVE TypeOK'
  BY <1>2 DEF WorkerStep, TestDone, WaitBusy, GoBusy, BusyReturns, controlVars, loadVars
<1>3. ASSUME NEW w \in Worker, SpuriousWakeup(w) PROVE TypeOK'
  BY <1>3 DEF SpuriousWakeup, controlVars, loadVars
<1>4. CASE ReadPercent  BY <1>4 DEF ReadPercent, loadVars
<1>5. ASSUME NEW p \in Int, StartLoad(p)
      PROVE  /\ goal' \in Percent /\ err' \in Int /\ count' \in Nat /\ i' \in 0 .. Slots
             /\ busy' \in BOOLEAN /\ pc' = "slot"
  <2>1. goal' \in Percent  BY <1>5, ClampInPercent DEF StartLoad
  <2>2. err' \in Int  BY <1>5, <2>1 DEF StartLoad, FirstErr, Percent
  <2>3. 0 \in 0 .. Slots  OBVIOUS
  <2>4. count' = 0 /\ i' = 0 /\ busy' = FALSE /\ pc' = "slot"  BY <1>5 DEF StartLoad
  <2>. QED  BY <2>1, <2>2, <2>3, <2>4
<1>13. ASSUME NEW rate \in getCpuTime, Measure(rate) PROVE TypeOK'
  <2>1. rate \in Percent /\ su' = Corrected(su, rate)  BY <1>13, MeasuredInPercent DEF Measure
  <2>2. su' \in Percent  BY <2>1 DEF Corrected, Percent
  <2>3. su' \in Int /\ StartLoad(su')  BY <1>13, <2>2 DEF Measure, Percent
  <2>4. UNCHANGED <<g_percent, g_busy, g_done, waiting, worker, type, percent>>
    BY <1>13 DEF Measure
  <2>. QED  BY <1>5, <2>2, <2>3, <2>4
<1>14. CASE Curve
  <2>1. PICK share \in 0 .. percent : StartLoad(share)  BY <1>14 DEF Curve
  <2>2. share \in Int  BY <2>1
  <2>3. UNCHANGED <<g_percent, g_busy, g_done, waiting, worker, controlVars>>  BY <1>14 DEF Curve
  <2>. QED  BY <1>5, <2>1, <2>2, <2>3 DEF controlVars
<1>6. CASE NextSlot  BY <1>6 DEF NextSlot, NextErr, controlVars, Percent
<1>7. CASE Publish
  <2>1. i' = i + 1 /\ i < Slots  BY <1>7 DEF Publish, Account
  <2>2. i' \in 0 .. Slots  BY <2>1
  <2>. QED  BY <1>7, <2>2 DEF Publish, NotifyAll, controlVars
<1>8. CASE LoadReturns  BY <1>8 DEF LoadReturns, controlVars, loadVars
<1>9. CASE SetDone  BY <1>9 DEF SetDone, controlVars, loadVars
<1>10. CASE WakeAll  BY <1>10 DEF WakeAll, NotifyAll, controlVars, loadVars
<1>11. CASE JoinAll  BY <1>11 DEF JoinAll, controlVars, loadVars
<1>12. CASE UNCHANGED vars  BY <1>12 DEF vars, controlVars, loadVars
<1>. QED  BY <1>1, <1>2, <1>3, <1>4, <1>5, <1>6, <1>7, <1>8, <1>9, <1>10, <1>11, <1>12, <1>13, <1>14
          DEF Next, ControlStep

\* Every step keeps the account, and so the assert at the end of load holds.
LEMMA AccountStep ==
  TypeOK /\ TypeOK' /\ Account /\ CountIsPercent /\ [Next]_vars => Account' /\ CountIsPercent'
<1>. SUFFICES ASSUME TypeOK, TypeOK', Account, CountIsPercent, [Next]_vars
              PROVE  Account' /\ CountIsPercent'
  OBVIOUS
<1>. USE LoadAssumption DEF Account, CountIsPercent, Decided
<1>0. /\ goal \in Nat /\ goal <= Slots /\ i \in Nat /\ i <= Slots
      /\ err \in Int /\ count \in Nat /\ Slots \in Nat \ {0}
  BY DEF TypeOK, Percent
<1>1. ASSUME NEW p, StartLoad(p) PROVE Account' /\ CountIsPercent'
  <2>1. goal' \in Nat /\ i' = 0 /\ count' = 0  BY <1>1 DEF StartLoad, TypeOK, Percent
  <2>2. goal' * 0 = 0 /\ Slots * 0 = 0
    <3>. HIDE DEF Account, CountIsPercent, Decided
    <3>1. goal' \in Int /\ Slots \in Int  BY <1>0, <2>1
    <3>. QED  BY ONLY <3>1, NoMultiple
  <2>. QED  BY <1>0, <1>1, <2>1, <2>2 DEF StartLoad, FirstErr
<1>2. CASE NextSlot
  <2>1. goal * (i + 1) = goal * i + goal  BY <1>0, NextMultiple
  <2>2. Slots * (count + 1) = Slots * count + Slots  BY <1>0, NextMultiple
  <2>3. goal * i \in Int /\ Slots * count \in Int  BY <1>0
  <2>4. CASE err > 0
    <3>0. busy'  BY <1>2, <2>4 DEF NextSlot
    <3>1. /\ err' = err + 2 * (goal - Slots) /\ count' = count + 1
          /\ goal' = goal /\ i' = i /\ pc' = "publish" /\ pc = "slot" /\ i < Slots
      BY <1>2, <3>0 DEF NextSlot, NextErr
    <3>. QED  BY <1>0, <2>1, <2>2, <2>3, <2>4, <3>1
  <2>5. CASE ~(err > 0)
    <3>0. ~busy'  BY <1>2, <2>5 DEF NextSlot
    <3>1. /\ err' = err + 2 * goal /\ count' = count
          /\ goal' = goal /\ i' = i /\ pc' = "publish" /\ pc = "slot" /\ i < Slots
      BY <1>0, <1>2, <3>0 DEF NextSlot, NextErr
    <3>. QED  BY <1>0, <2>1, <2>3, <2>5, <3>1
  <2>. QED  BY <2>4, <2>5
<1>3. CASE Publish
  <2>1. /\ pc = "publish" /\ pc' = "slot" /\ i' = i + 1
        /\ goal' = goal /\ err' = err /\ count' = count
    BY <1>3 DEF Publish
  <2>. QED  BY <2>1
<1>4. CASE LoadReturns
  <2>1. /\ pc = "slot" /\ i = Slots /\ UNCHANGED loadVars
        /\ pc' = IF count = goal THEN "control" ELSE "aborted"
    BY <1>4 DEF LoadReturns
  <2>2. goal * Slots \in Int /\ Slots * count \in Int  BY <1>0
  <2>3. /\ -Slots < 2 * (goal * Slots) - 2 * (Slots * count)
        /\ 2 * (goal * Slots) - 2 * (Slots * count) <= Slots
    BY <1>0, <2>1, <2>2
  <2>4. count = goal  BY <1>0, <2>3, SmallMultiple
  <2>. QED  BY <2>1, <2>4
<1>5. CASE UNCHANGED <<loadVars, pc>>  BY <1>5 DEF loadVars
<1>6. CASE ReadPercent \/ SetDone \/ WakeAll \/ JoinAll
  BY <1>6 DEF ReadPercent, SetDone, WakeAll, JoinAll
<1>7. ASSUME NEW p \in Requests, OnRequest(p) PROVE UNCHANGED <<loadVars, pc>>
  BY <1>7 DEF OnRequest
<1>8. ASSUME NEW w \in Worker, WorkerStep(w) \/ SpuriousWakeup(w) PROVE UNCHANGED <<loadVars, pc>>
  BY <1>8 DEF WorkerStep, TestDone, WaitBusy, GoBusy, BusyReturns, SpuriousWakeup
<1>9. CASE UNCHANGED vars  BY <1>5, <1>9 DEF vars
<1>10. CASE Curve \/ \E rate \in getCpuTime : Measure(rate)
  <2>. HIDE DEF Account, CountIsPercent, Decided
  <2>. QED  BY <1>1, <1>10 DEF Curve, Measure
<1>. QED  BY <1>2, <1>3, <1>4, <1>5, <1>6, <1>7, <1>8, <1>9, <1>10 DEF Next, ControlStep

\* Every step keeps the sleepers out of busy slots.
LEMMA SleepStep == TypeOK /\ NobodySleepsWhenBusy /\ [Next]_vars => NobodySleepsWhenBusy'
<1>. SUFFICES ASSUME TypeOK, NobodySleepsWhenBusy, [Next]_vars PROVE NobodySleepsWhenBusy'
  OBVIOUS
<1>. USE DEF NobodySleepsWhenBusy
<1>1. CASE Publish \/ WakeAll  BY <1>1 DEF Publish, WakeAll, NotifyAll
<1>2. ASSUME NEW w \in Worker, WaitBusy(w) PROVE NobodySleepsWhenBusy'  BY <1>2 DEF WaitBusy
<1>3. ASSUME NEW w \in Worker, SpuriousWakeup(w) PROVE NobodySleepsWhenBusy'
  BY <1>3 DEF SpuriousWakeup
<1>4. CASE UNCHANGED <<waiting, g_busy>>  BY <1>4
<1>9. CASE Curve \/ \E rate \in getCpuTime : Measure(rate)  BY <1>9 DEF Curve, Measure
<1>5. CASE ReadPercent \/ NextSlot \/ LoadReturns \/ SetDone \/ JoinAll
  BY <1>5 DEF ReadPercent, NextSlot, LoadReturns, SetDone, JoinAll
<1>6. ASSUME NEW w \in Worker, TestDone(w) \/ GoBusy(w) \/ BusyReturns(w)
      PROVE  UNCHANGED <<waiting, g_busy>>
  BY <1>6 DEF TestDone, GoBusy, BusyReturns
<1>7. ASSUME NEW p \in Requests, OnRequest(p) PROVE UNCHANGED <<waiting, g_busy>>
  BY <1>7 DEF OnRequest
<1>8. CASE UNCHANGED vars  BY <1>4, <1>8 DEF vars
<1>. QED  BY <1>1, <1>2, <1>3, <1>4, <1>5, <1>6, <1>7, <1>8, <1>9 DEF Next, ControlStep, WorkerStep

LEMMA Invariant == Spec => []IInv
<1>1. Init => IInv  BY InitInvariant
<1>2. IInv /\ [Next]_vars => IInv'  BY TypeStep, AccountStep, SleepStep DEF IInv
<1>. QED  BY <1>1, <1>2, PTL DEF Spec
-----------------------------------------------------------------------------
\* The types hold; in particular su, corrected step by step, stays a percentage.
THEOREM TypeCorrect == Spec => []TypeOK
<1>1. IInv => TypeOK  BY DEF IInv
<1>. QED  BY <1>1, Invariant, PTL

\* The busy slots of load are spread evenly: the account, solved for count.
THEOREM EvenlySpreadTheorem == Spec => []EvenlySpread
<1>1. IInv => EvenlySpread
  <2>. SUFFICES ASSUME IInv, pc = "slot"
                PROVE  /\ 2 * (Slots * count - goal * i) <= Slots
                       /\ 2 * (goal * i - Slots * count) <= Slots
    BY DEF EvenlySpread
  <2>1. /\ goal \in Nat /\ i \in Nat /\ err \in Int /\ count \in Nat /\ Slots \in Nat \ {0}
    BY LoadAssumption DEF IInv, TypeOK, Percent
  <2>2. goal * i \in Int /\ Slots * count \in Int  BY <2>1
  <2>3. /\ err = 2 * goal - Slots + 2 * (goal * i) - 2 * (Slots * count)
        /\ 2 * goal - 2 * Slots < err /\ err <= 2 * goal
    BY DEF IInv, Account, Decided
  <2>. QED  BY <2>1, <2>2, <2>3
<1>. QED  BY <1>1, Invariant, PTL

\* The assert at the end of load (dummyload.cpp:113) holds, for every percentage and
\* every number of slots.
THEOREM CountTheorem == Spec => []CountIsPercent
<1>1. IInv => CountIsPercent  BY DEF IInv
<1>. QED  BY <1>1, Invariant, PTL

\* No thread of threadFunc sleeps through a busy slot.
THEOREM NobodySleepsTheorem == Spec => []NobodySleepsWhenBusy
<1>1. IInv => NobodySleepsWhenBusy  BY DEF IInv
<1>. QED  BY <1>1, Invariant, PTL
=============================================================================
