-------------------------- MODULE SystemInfoProofs --------------------------
(***************************************************************************)
(* The two tables of SystemInfo agree, rates are right where stat could be *)
(* parsed, answers show the busiest processes, and a scan that gets to its *)
(* end is right: for any pids, programs, width of an int, values of what   *)
(* has not been initialized and numbers of samples kept, whatever          *)
(* processes do while they are scanned.                                    *)
(*                                                                         *)
(* TablesAgree is not inductive by itself: the lists of the host are drawn *)
(* as well, and must be bounded too (HostLists); and the program that is   *)
(* stored is what status told a step before (the types).  RatesAreRight    *)
(* needs that what is stored of the last stat is what an int keeps of it   *)
(* (Samples), and some arithmetic of ints.  ScanIsRight needs what holds   *)
(* in the middle of a scan (Scan, below).                                  *)
(***************************************************************************)
EXTENDS SystemInfo, SequenceTheorems, FiniteSetTheorems, TLAPS

HostLists ==
  /\ cpuRate_ \in Seq({OfHost}) /\ memRate_ \in Seq({OfHost})
  /\ Len(cpuRate_) <= Kept /\ Len(memRate_) <= Kept

Samples ==
  \A p \in DOMAIN sample :
    /\ process_[p].lastUtime_ = int(sample[p].utime) /\ process_[p].lastStime_ = int(sample[p].stime)
    /\ sample[p].same => p \in Alive /\ sample[p].utime <= utime[p] /\ sample[p].stime <= stime[p]

Inv == TypeOK /\ HostLists /\ TablesAgree /\ Samples
-----------------------------------------------------------------------------
(***************************************************************************)
(* Ints.                                                                   *)
(***************************************************************************)
\* Numbers that are a multiple apart and lie in the same interval of that width are equal.
LEMMA SameWord ==
  ASSUME NEW a \in Word, NEW b \in Word, NEW k \in Int, a = b + 2 * half * k
  PROVE  a = b
  <1>1. half \in Nat /\ half > 0
    BY SystemInfoAssumption
  <1>2. PICK w : w = 2 * half
    OBVIOUS
  <1>3. w \in Int /\ a \in Int /\ b \in Int /\ a - b < w /\ b - a < w /\ a = b + w * k
    BY <1>1, <1>2 DEF Word
  <1>4. k > 0 => w * k >= w
    BY <1>3, <1>1, <1>2
  <1>5. k < 0 => w * k <= -w
    BY <1>3, <1>1, <1>2
  <1> QED BY <1>3, <1>4, <1>5

LEMMA DivMod ==
  ASSUME NEW y \in Int, NEW w \in Nat \ {0}
  PROVE  \E q \in Int, r \in 0 .. w - 1 : q = y \div w /\ r = y % w /\ y = w * q + r
  <1>1. y = w * (y \div w) + (y % w)
    BY Z3
  <1>2. (y \div w) \in Int /\ y % w \in 0 .. w - 1
    OBVIOUS
  <1>3. PICK q \in Int, r \in 0 .. w - 1 : q = y \div w /\ r = y % w
    BY <1>2
  <1> QED BY <1>1, <1>3

LEMMA IntType ==
  ASSUME NEW x \in Int
  PROVE  int(x) \in Word /\ \E k \in Int : int(x) = x + 2 * half * k
  <1>1. half \in Nat /\ half > 0
    BY SystemInfoAssumption
  <1>2. PICK w : w = 2 * half
    OBVIOUS
  <1>3. w \in Nat \ {0}
    BY <1>1, <1>2
  <1>4. PICK y : y = x + half
    OBVIOUS
  <1>5. y \in Int
    BY <1>1, <1>4
  <1>6. PICK q \in Int, r \in 0 .. w - 1 : y = w * q + r /\ y % w = r
    BY <1>3, <1>5, DivMod
  <1>7. int(x) = r - half
    BY <1>2, <1>4, <1>6 DEF int
  <1>8. int(x) \in Word
    BY <1>1, <1>2, <1>6, <1>7 DEF Word
  <1>9. w * (-q) = -(w * q) /\ w * q \in Int
    BY <1>3
  <1>10. int(x) = x + w * (-q)
    <2>1. PICK z \in Int : z = w * q
      BY <1>9
    <2>2. y = z + r /\ w * (-q) = -z
      BY <1>6, <1>9, <2>1
    <2> QED BY <1>1, <1>4, <1>6, <1>7, <2>1, <2>2
  <1> QED BY <1>2, <1>8, <1>10

\* What fits is kept.
LEMMA IntFits ==
  ASSUME NEW x \in Word
  PROVE  int(x) = x
  <1>1. x \in Int
    BY SystemInfoAssumption DEF Word
  <1>2. int(x) \in Word
    BY <1>1, IntType
  <1>3. PICK k \in Int : int(x) = x + 2 * half * k
    BY <1>1, IntType
  <1> QED BY <1>2, <1>3, SameWord

\* A difference that fits is kept also if the older value was not.
LEMMA IntDifference ==
  ASSUME NEW new \in Int, NEW last \in Int, new - last \in Word
  PROVE  int(new - int(last)) = new - last
  <1>1. half \in Nat
    BY SystemInfoAssumption
  <1>2. PICK k \in Int : int(last) = last + 2 * half * k
    BY IntType
  <1>3. PICK x : x = new - int(last)
    OBVIOUS
  <1>4. int(last) \in Int
    BY <1>1, IntType DEF Word
  <1>5. x \in Int
    BY <1>3, <1>4
  <1>6. int(x) \in Word
    BY <1>5, IntType
  <1>7. PICK j \in Int : int(x) = x + 2 * half * j
    BY <1>5, IntType
  <1>8. 2 * half * (j - k) = 2 * half * j - 2 * half * k
    BY <1>1
  <1>9. int(x) = (new - last) + 2 * half * (j - k) /\ j - k \in Int
    <2> DEFINE J == 2 * half * j  K == 2 * half * k  D == 2 * half * (j - k)
    <2>1. J \in Int /\ K \in Int /\ D = J - K /\ int(x) = x + J /\ int(last) = last + K
      BY <1>1, <1>2, <1>7, <1>8
    <2> HIDE DEF J, K, D
    <2>2. int(x) = (new - last) + D
      BY <1>3, <1>4, <2>1
    <2> QED BY <2>2 DEF D
  <1>10. PICK i \in Int : i = j - k
    BY <1>9
  <1>11. PICK d \in Word : d = new - last
    OBVIOUS
  <1> QED BY <1>3, <1>6, <1>9, <1>10, <1>11, SameWord
LEMMA TicksType ==
  ASSUME NEW new \in Int, NEW last \in Word
  PROVE  TicksUsed(new, last) \in 0 .. half - 1
  <1>1. half \in Nat /\ half > 0
    BY SystemInfoAssumption
  <1>2. PICK x : x = new - last
    OBVIOUS
  <1>3. x \in Int
    BY <1>1, <1>2 DEF Word
  <1>4. int(x) \in Word
    BY <1>3, IntType
  <1> QED BY <1>1, <1>2, <1>4 DEF TicksUsed, Word

LEMMA RatesType ==
  ASSUME NEW stat \in [utime : Int, stime : Int], NEW ctime \in Jiffies, NEW old \in Process,
         NEW rate \in Rates(stat, ctime, old)
  PROVE  rate \in Rate
  <1>1. half \in Nat /\ half > 0
    BY SystemInfoAssumption
  <1>2. /\ old.lastUtime_ \in Word /\ old.lastStime_ \in Word /\ old.lastCtime_ \in Word
        /\ stat.utime \in Int /\ stat.stime \in Int /\ ctime \in Word
    BY SystemInfoAssumption DEF Process
  <1>3. PICK u \in 0 .. half - 1, s \in 0 .. half - 1 :
          /\ u = TicksUsed(stat.utime, old.lastUtime_) /\ s = TicksUsed(stat.stime, old.lastStime_)
    BY <1>2, TicksType
  <1>4. PICK x : x = ctime - old.lastCtime_
    OBVIOUS
  <1>5. int(x) \in Word /\ int(u + s) \in Word
    <2>1. x \in Int /\ u + s \in Int
      BY <1>1, <1>2, <1>3, <1>4 DEF Word
    <2> QED BY <2>1, IntType
  <1>6. rate \in [ticks : {u + s, int(u + s)}, per : {IF int(x) < 1 THEN 1 ELSE int(x)}]
    BY <1>3, <1>4 DEF Rates, Sums
  <1>7. u + s \in -half .. 2 * half - 2 /\ int(u + s) \in -half .. 2 * half - 2
    BY <1>1, <1>3, <1>5 DEF Word
  <1>8. (IF int(x) < 1 THEN 1 ELSE int(x)) \in 1 .. half
    BY <1>1, <1>5 DEF Word
  <1> QED BY <1>6, <1>7, <1>8 DEF Rate

LEMMA NoRateType == NoRate \in Rate
  BY SystemInfoAssumption DEF NoRate, Rate
-----------------------------------------------------------------------------
(***************************************************************************)
(* Lists, and what stat tells.                                             *)
(***************************************************************************)
LEMMA PushedType ==
  ASSUME NEW S, NEW list \in Seq(S), NEW x \in S, NEW n \in Nat
  PROVE  Pushed(list, x, n) \in Seq(S)
  <1> DEFINE all == <<x>> \o list
             m == IF Len(list) < n THEN Len(list) + 1 ELSE n
  <1>1. all \in Seq(S) /\ Len(all) = Len(list) + 1 /\ all[1] = x /\ Len(list) \in Nat
    OBVIOUS
  <1>2. m \in Nat /\ m <= Len(all)
    BY <1>1
  <1>3. Pushed(list, x, n) = SubSeq(all, 1, m)
    BY DEF Pushed
  <1> HIDE DEF all, m
  <1>4. SubSeq(all, 1, m) \in Seq(S)
    BY <1>1, <1>2
  <1> QED BY <1>3, <1>4

LEMMA PushedLen ==
  ASSUME NEW S, NEW list \in Seq(S), NEW x \in S, NEW n \in Nat
  PROVE  Len(Pushed(list, x, n)) = IF Len(list) < n THEN Len(list) + 1 ELSE n
  <1> DEFINE all == <<x>> \o list
             m == IF Len(list) < n THEN Len(list) + 1 ELSE n
  <1>1. all \in Seq(S) /\ Len(all) = Len(list) + 1 /\ all[1] = x /\ Len(list) \in Nat
    OBVIOUS
  <1>2. m \in Nat /\ m <= Len(all)
    BY <1>1
  <1>3. Pushed(list, x, n) = SubSeq(all, 1, m)
    BY DEF Pushed
  <1> HIDE DEF all, m
  <1>4. Len(SubSeq(all, 1, m)) = m
    BY <1>1, <1>2
  <1> QED BY <1>3, <1>4 DEF m

LEMMA PushedHead ==
  ASSUME NEW S, NEW list \in Seq(S), NEW x \in S, NEW n \in Nat \ {0}
  PROVE  Pushed(list, x, n)[1] = x
  <1> DEFINE all == <<x>> \o list
             m == IF Len(list) < n THEN Len(list) + 1 ELSE n
  <1>1. all \in Seq(S) /\ Len(all) = Len(list) + 1 /\ all[1] = x /\ Len(list) \in Nat
    OBVIOUS
  <1>2. m \in Nat \ {0} /\ m <= Len(all)
    BY <1>1
  <1>3. Pushed(list, x, n) = SubSeq(all, 1, m)
    BY DEF Pushed
  <1> HIDE DEF all, m
  <1>4. SubSeq(all, 1, m)[1] = all[1]
    BY <1>1, <1>2
  <1> QED BY <1>1, <1>3, <1>4

\* The two lists of a process, which get one sample each.
LEMMA PushedPair ==
  ASSUME NEW a \in Seq(Rate), NEW b \in Seq(Nat), Len(a) = Len(b), NEW x \in Rate, NEW y \in Nat
  PROVE  /\ Pushed(a, x, Kept) \in Seq(Rate) /\ Pushed(b, y, Kept) \in Seq(Nat)
         /\ Len(Pushed(a, x, Kept)) = Len(Pushed(b, y, Kept)) /\ Len(Pushed(a, x, Kept)) \in 1 .. Kept
         /\ Head(Pushed(a, x, Kept)) = x /\ Head(Pushed(b, y, Kept)) = y
  <1>1. Kept \in Nat \ {0} /\ Kept \in Nat /\ Len(a) \in Nat
    BY SystemInfoAssumption
  <1>2. Pushed(a, x, Kept) \in Seq(Rate) /\ Pushed(b, y, Kept) \in Seq(Nat)
    BY <1>1, PushedType, Zenon
  <1>3. Len(Pushed(a, x, Kept)) = IF Len(a) < Kept THEN Len(a) + 1 ELSE Kept
    BY <1>1, PushedLen, Zenon
  <1>4. Len(Pushed(b, y, Kept)) = IF Len(b) < Kept THEN Len(b) + 1 ELSE Kept
    BY <1>1, PushedLen, Zenon
  <1>5. Pushed(a, x, Kept)[1] = x
    BY <1>1, PushedHead
  <1>6. Pushed(b, y, Kept)[1] = y
    <2>1. PICK N : N = Nat
      OBVIOUS
    <2>2. b \in Seq(N) /\ y \in N
      BY <2>1
    <2> QED BY <1>1, <2>2, PushedHead
  <1>7. Head(Pushed(a, x, Kept)) = x /\ Head(Pushed(b, y, Kept)) = y
    BY <1>2, <1>5, <1>6
  <1> QED BY <1>1, <1>2, <1>3, <1>4, <1>7

\* A list of the host, with or without a new value.
LEMMA MeasuredType ==
  ASSUME NEW list \in Seq({OfHost}), Len(list) <= Kept, NEW new \in Measured(list)
  PROVE  new \in Seq({OfHost}) /\ Len(new) <= Kept
  <1>1. Kept - 1 \in Nat /\ Kept \in Nat /\ OfHost \in {OfHost}
    BY SystemInfoAssumption
  <1>2. /\ Pushed(list, OfHost, Kept - 1) \in Seq({OfHost})
        /\ Len(Pushed(list, OfHost, Kept - 1)) = IF Len(list) < Kept - 1 THEN Len(list) + 1 ELSE Kept - 1
    BY <1>1, PushedType, PushedLen
  <1>3. Len(list) \in Nat
    OBVIOUS
  <1>4. Len(Pushed(list, OfHost, Kept - 1)) <= Kept
    BY <1>1, <1>2, <1>3
  <1> QED BY <1>2, <1>4 DEF Measured

LEMMA ParseType ==
  ASSUME TypeOK, NEW p \in Alive, NEW stat \in parse(p)
  PROVE  /\ stat \in [utime : Int, stime : Int]
         /\ running[p] \notin blanks => stat = [utime |-> utime[p], stime |-> stime[p]]
  <1>1. p \in Pid /\ utime[p] \in Nat /\ stime[p] \in Nat
    BY DEF Alive, TypeOK
  <1>2. CASE running[p] \in blanks
    <2>1. stat \in [utime : Garbage, stime : Garbage] /\ Garbage \subseteq Int
      BY <1>2, SystemInfoAssumption DEF parse
    <2> QED BY <1>2, <2>1
  <1>3. CASE running[p] \notin blanks
    <2>1. stat = [utime |-> utime[p], stime |-> stime[p]]
      BY <1>3 DEF parse
    <2> QED BY <1>1, <2>1
  <1> QED BY <1>2, <1>3

LEMMA EntryType ==
  ASSUME NEW program \in Program, NEW mem \in Seq(Nat), NEW cpu \in Seq(Rate),
         NEW stat \in [utime : Int, stime : Int], NEW ctime \in Jiffies
  PROVE  Entry(program, mem, cpu, stat, ctime) \in Process
  <1>1. int(stat.utime) \in Word /\ int(stat.stime) \in Word /\ ctime \in Word
    BY IntType, SystemInfoAssumption
  <1> QED BY <1>1 DEF Entry, Process

\* What history says of the last stat is right after a turn of the loop.
LEMMA StoredSample ==
  ASSUME TypeOK, Samples, Stored, ps.pid \in Alive, ps.pid \in Known',
         Known \subseteq Known', Known' \subseteq Pid,
         \A q \in Known \ {ps.pid} : process_'[q] = process_[q],
         running[ps.pid] \notin blanks =>
           /\ process_'[ps.pid].lastUtime_ = int(utime[ps.pid])
           /\ process_'[ps.pid].lastStime_ = int(stime[ps.pid])
  PROVE  /\ DOMAIN sample' \subseteq Known'
         /\ \A p \in DOMAIN sample' : sample'[p] \in [utime : Nat, stime : Nat, same : BOOLEAN]
         /\ Samples'
  <1> DEFINE p == ps.pid
  <1>1. /\ DOMAIN sample \subseteq Known
        /\ \A q \in DOMAIN sample : sample[q] \in [utime : Nat, stime : Nat, same : BOOLEAN]
        /\ p \in Pid /\ utime[p] \in Nat /\ stime[p] \in Nat
    BY DEF TypeOK, Alive
  <1>2. UNCHANGED <<running, utime, stime>> /\ Alive' = Alive
    BY DEF Stored, kernelVars, Alive
  <1>3. CASE running[p] \in blanks
    <2>1. sample' = [q \in DOMAIN sample \ {p} |-> sample[q]]
      BY <1>3 DEF Stored, Forget
    <2>2. DOMAIN sample' = DOMAIN sample \ {p} /\ \A q \in DOMAIN sample' : sample'[q] = sample[q]
      BY <2>1
    <2> QED BY <1>1, <1>2, <2>2 DEF Samples
  <1>4. CASE running[p] \notin blanks
    <2> DEFINE new == [utime |-> utime[p], stime |-> stime[p], same |-> TRUE]
    <2>1. sample' = [q \in DOMAIN sample \cup {p} |-> IF q = p THEN new ELSE sample[q]]
      BY <1>4 DEF Stored, Remember
    <2>2. /\ DOMAIN sample' = DOMAIN sample \cup {p} /\ sample'[p] = new
          /\ \A q \in DOMAIN sample \ {p} : sample'[q] = sample[q]
      BY <2>1
    <2>3. new \in [utime : Nat, stime : Nat, same : BOOLEAN]
      BY <1>1
    <2>4. ASSUME NEW q \in DOMAIN sample'
          PROVE  /\ process_'[q].lastUtime_ = int(sample'[q].utime)
                 /\ process_'[q].lastStime_ = int(sample'[q].stime)
                 /\ sample'[q].same => q \in Alive /\ sample'[q].utime <= utime[q] /\ sample'[q].stime <= stime[q]
      <3>1. CASE q = p
        BY <1>1, <1>4, <2>2, <3>1
      <3>2. CASE q # p
        BY <1>1, <2>2, <3>2 DEF Samples
      <3> QED BY <3>1, <3>2
    <2> QED BY <1>1, <1>2, <2>2, <2>3, <2>4 DEF Samples
  <1> QED BY <1>3, <1>4

LEMMA InitInv == Init => Inv
  <1> SUFFICES ASSUME Init PROVE Inv
    OBVIOUS
  <1>1. /\ process_ = <<>> /\ minProcessData_ = <<>> /\ sample = <<>>
        /\ DOMAIN process_ = {} /\ DOMAIN minProcessData_ = {} /\ DOMAIN sample = {}
    BY DEF Init
  <1>2. TypeOK
    <2>1. utime \in [Pid -> Nat] /\ stime \in [Pid -> Nat] /\ changes \in 0 .. MaxChanges
      BY SystemInfoAssumption DEF Init
    <2>2. Known = {} /\ DOMAIN minProcessData_ = {} /\ DOMAIN sample = {}
      BY <1>1 DEF Known
    <2>3. running \in [Pid -> Program \cup {None}]
      BY SystemInfoAssumption DEF Init
    <2> QED BY <2>1, <2>2, <2>3 DEF Init, TypeOK
  <1>3. HostLists
    BY SystemInfoAssumption DEF Init, HostLists
  <1>4. TablesAgree
    BY <1>1, SystemInfoAssumption DEF Init, TablesAgree, NoGraph, Known
  <1>5. Samples
    BY <1>1 DEF Samples
  <1> QED BY <1>2, <1>3, <1>4, <1>5 DEF Inv

\* Steps that leave the tables, the lists and the graph alone keep all but the types and
\* what history says.
LEMMA SameTables ==
  ASSUME Inv, TypeOK', Samples', UNCHANGED <<tableVars, hostVars, graph>> PROVE Inv'
  BY DEF Inv, HostLists, TablesAgree, tableVars, hostVars, Known

LEMMA SameSamples ==
  ASSUME Inv, UNCHANGED <<kernelVars, process_, sample>> PROVE Samples'
  BY DEF Inv, Samples, kernelVars, Alive

(***************************************************************************)
(* The two steps that write to the tables.                                 *)
(***************************************************************************)
LEMMA FirstStatInv == ASSUME Inv, FirstStat PROVE Inv'
  <1> USE DEF Known
  <1> DEFINE p == ps.pid
             entry(stat, ctime) == Entry(ps.program, <<0>>, <<NoRate>>, stat, ctime)
             min == [program |-> ps.program, mem |-> 0, cpu |-> NoRate]
  <1>1. p \in Alive /\ p \in Pid /\ ps.program \in Program /\ p \notin Known
    BY DEF FirstStat, Inv, TypeOK, Alive
  <1>2. PICK stat \in parse(p), ctime \in Jiffies :
          process_' = [q \in Known \cup {p} |-> IF q = p THEN entry(stat, ctime) ELSE process_[q]]
    BY DEF FirstStat
  <1>3. minProcessData_' = [q \in DOMAIN minProcessData_ \cup {p} |->
                              IF q = p THEN min ELSE minProcessData_[q]]
    BY DEF FirstStat, insertMin
  <1>4. DOMAIN minProcessData_ = Known
    BY DEF Inv, TablesAgree
  <1>5. Known' = Known \cup {p} /\ DOMAIN minProcessData_' = Known'
    BY <1>2, <1>3, <1>4
  <1>6. /\ stat \in [utime : Int, stime : Int]
        /\ running[p] \notin blanks => stat = [utime |-> utime[p], stime |-> stime[p]]
    BY <1>1, <1>2, ParseType DEF Inv
  <1>7. /\ process_'[p] = entry(stat, ctime) /\ minProcessData_'[p] = min
        /\ \A q \in Known : process_'[q] = process_[q] /\ minProcessData_'[q] = minProcessData_[q]
    BY <1>1, <1>2, <1>3, <1>4
  <1>8. entry(stat, ctime) \in Process /\ min \in MinProcessData
    <2>1. <<0>> \in Seq(Nat) /\ <<NoRate>> \in Seq(Rate)
      BY NoRateType
    <2>2. entry(stat, ctime) \in Process
      BY <1>1, <1>2, <1>6, <2>1, EntryType
    <2> QED BY <1>1, <2>2, NoRateType DEF MinProcessData
  <1>9. /\ entry(stat, ctime).program = ps.program
        /\ Len(entry(stat, ctime).cpu) = 1 /\ Len(entry(stat, ctime).mem) = 1
        /\ Head(entry(stat, ctime).cpu) = NoRate /\ Head(entry(stat, ctime).mem) = 0
        /\ entry(stat, ctime).lastUtime_ = int(stat.utime) /\ entry(stat, ctime).lastStime_ = int(stat.stime)
    BY DEF Entry
  <1> HIDE DEF entry, p
  <1>10. Stored
    BY DEF FirstStat
  <1>11. Known' \subseteq Pid /\ DOMAIN minProcessData_' \subseteq Pid
    BY <1>1, <1>5 DEF Inv, TypeOK
  <1>12. /\ DOMAIN sample' \subseteq Known'
         /\ \A q \in DOMAIN sample' : sample'[q] \in [utime : Nat, stime : Nat, same : BOOLEAN]
         /\ Samples'
    <2>1. running[p] \notin blanks => process_'[p].lastUtime_ = int(utime[p]) /\ process_'[p].lastStime_ = int(stime[p])
      BY <1>6, <1>7, <1>9
    <2> QED BY <1>1, <1>5, <1>7, <1>10, <1>11, <2>1, StoredSample DEF Inv, p
  <1>13. TypeOK'
    <2>1. \A q \in Known' : process_'[q] \in Process
      BY <1>5, <1>7, <1>8 DEF Inv, TypeOK
    <2>2. \A q \in DOMAIN minProcessData_' : minProcessData_'[q] \in MinProcessData
      BY <1>4, <1>5, <1>7, <1>8 DEF Inv, TypeOK
    <2> QED BY <1>10, <1>11, <1>12, <2>1, <2>2
        DEF Stored, Inv, TypeOK, kernelVars, totalVars, scanHistory
  <1>14. TablesAgree'
    <2>1. UNCHANGED graph
      BY <1>10 DEF Stored, answerVars
    <2>2. ASSUME NEW q \in Known'
          PROVE  /\ Len(process_'[q].cpu) = Len(process_'[q].mem) /\ Len(process_'[q].cpu) \in 1 .. Kept
                 /\ minProcessData_'[q] = [program |-> process_'[q].program,
                                           mem |-> Head(process_'[q].mem), cpu |-> Head(process_'[q].cpu)]
      <3>1. CASE q = p
        <4>1. 1 \in 1 .. Kept
          BY SystemInfoAssumption
        <4> QED BY <1>7, <1>9, <3>1, <4>1
      <3>2. CASE q \in Known
        BY <1>7, <3>2 DEF Inv, TablesAgree
      <3> QED BY <1>5, <3>1, <3>2
    <2> QED BY <1>5, <2>1, <2>2 DEF Inv, TablesAgree
  <1>15. HostLists'
    BY <1>10 DEF Stored, hostVars, Inv, HostLists
  <1> QED BY <1>12, <1>13, <1>14, <1>15 DEF Inv

\* What a process that is known gets: a rate, and the memory it has, before those there were.
LEMMA StatAgainEntry ==
  ASSUME Inv, StatAgain
  PROVE  LET p == ps.pid  m == rss[ps.program]  old == process_[p] IN
         \E stat \in parse(p), ctime \in Jiffies : \E rate \in Rates(stat, ctime, old) :
           /\ process_' = [process_ EXCEPT ![p] = process_'[p]]
           /\ minProcessData_' = [minProcessData_ EXCEPT ![p] = minProcessData_'[p]]
           /\ process_'[p] \in Process /\ minProcessData_'[p] \in MinProcessData
           /\ Len(process_'[p].cpu) = Len(process_'[p].mem) /\ Len(process_'[p].cpu) \in 1 .. Kept
           /\ minProcessData_'[p] = [program |-> process_'[p].program, mem |-> m, cpu |-> rate]
           /\ Head(process_'[p].mem) = m /\ Head(process_'[p].cpu) = rate
           /\ process_'[p].lastUtime_ = int(stat.utime) /\ process_'[p].lastStime_ = int(stat.stime)
  <1> USE DEF Known
  <1> DEFINE p == ps.pid
             old == process_[p]
             m == rss[ps.program]
  <1>1. p \in Alive /\ ps.program \in Program /\ p \in Known
    BY DEF StatAgain, Inv, TypeOK
  <1>2. PICK stat \in parse(p), ctime \in Jiffies : \E rate \in Rates(stat, ctime, old) :
          /\ process_' = [process_ EXCEPT ![p] =
               Entry(old.program, Pushed(old.mem, m, Kept), Pushed(old.cpu, rate, Kept), stat, ctime)]
          /\ minProcessData_' = [minProcessData_ EXCEPT ![p] = [program |-> @.program, mem |-> m, cpu |-> rate]]
    BY DEF StatAgain
  <1>3. PICK rate \in Rates(stat, ctime, old) :
          /\ process_' = [process_ EXCEPT ![p] =
               Entry(old.program, Pushed(old.mem, m, Kept), Pushed(old.cpu, rate, Kept), stat, ctime)]
          /\ minProcessData_' = [minProcessData_ EXCEPT ![p] = [program |-> @.program, mem |-> m, cpu |-> rate]]
    BY <1>2
  <1>4. /\ old \in Process /\ old.program \in Program /\ old.mem \in Seq(Nat) /\ old.cpu \in Seq(Rate)
        /\ Len(old.cpu) = Len(old.mem) /\ DOMAIN minProcessData_ = Known
        /\ minProcessData_[p].program = old.program
    BY <1>1 DEF Inv, TypeOK, TablesAgree, Process
  <1>5. stat \in [utime : Int, stime : Int]
    BY <1>1, <1>2, ParseType DEF Inv
  <1>6. rate \in Rate /\ m \in Nat /\ Kept \in Nat /\ Kept > 0
    <2>1. rate \in Rate
      BY <1>2, <1>3, <1>4, <1>5, RatesType
    <2>2. m \in Nat /\ Kept \in Nat /\ Kept > 0
      BY <1>1, SystemInfoAssumption
    <2> QED BY <2>1, <2>2
  <1> DEFINE cpu == Pushed(old.cpu, rate, Kept)
             mem == Pushed(old.mem, m, Kept)
             entry == Entry(old.program, mem, cpu, stat, ctime)
             min == [program |-> old.program, mem |-> m, cpu |-> rate]
  <1>7. process_'[p] = entry /\ minProcessData_'[p] = min
    BY <1>1, <1>3, <1>4
  <1>8. /\ process_' = [process_ EXCEPT ![p] = process_'[p]]
        /\ minProcessData_' = [minProcessData_ EXCEPT ![p] = minProcessData_'[p]]
    BY <1>1, <1>3, <1>4
  <1>9. /\ cpu \in Seq(Rate) /\ mem \in Seq(Nat) /\ Len(cpu) = Len(mem) /\ Len(cpu) \in 1 .. Kept
        /\ Head(cpu) = rate /\ Head(mem) = m
    <2> DEFINE a == old.cpu  b == old.mem
    <2>1. a \in Seq(Rate) /\ b \in Seq(Nat) /\ Len(a) = Len(b)
      BY <1>4
    <2> HIDE DEF a, b, m
    <2>2. /\ Pushed(a, rate, Kept) \in Seq(Rate) /\ Pushed(b, m, Kept) \in Seq(Nat)
          /\ Len(Pushed(a, rate, Kept)) = Len(Pushed(b, m, Kept)) /\ Len(Pushed(a, rate, Kept)) \in 1 .. Kept
          /\ Head(Pushed(a, rate, Kept)) = rate /\ Head(Pushed(b, m, Kept)) = m
      BY <1>6, <2>1, PushedPair
    <2> QED BY <2>2 DEF a, b
  <1> HIDE DEF cpu, mem
  <1>10. entry \in Process /\ min \in MinProcessData
    BY <1>2, <1>4, <1>5, <1>6, <1>9, EntryType DEF MinProcessData
  <1>11. /\ entry.program = old.program /\ entry.cpu = cpu /\ entry.mem = mem
         /\ entry.lastUtime_ = int(stat.utime) /\ entry.lastStime_ = int(stat.stime)
    BY DEF Entry
  <1> HIDE DEF entry
  <1>12. minProcessData_'[p] = [program |-> process_'[p].program, mem |-> m, cpu |-> rate]
    BY <1>7, <1>11
  <1> QED BY <1>2, <1>3, <1>7, <1>8, <1>9, <1>10, <1>11, <1>12

LEMMA StatAgainInv == ASSUME Inv, StatAgain PROVE Inv'
  <1> USE DEF Known
  <1> DEFINE p == ps.pid
             m == rss[ps.program]
             old == process_[p]
  <1>1. p \in Alive /\ p \in Pid /\ p \in Known
    BY DEF StatAgain, Inv, TypeOK, Alive
  <1>2. PICK stat \in parse(p), ctime \in Jiffies : \E rate \in Rates(stat, ctime, old) :
          /\ process_' = [process_ EXCEPT ![p] = process_'[p]]
          /\ minProcessData_' = [minProcessData_ EXCEPT ![p] = minProcessData_'[p]]
          /\ process_'[p] \in Process /\ minProcessData_'[p] \in MinProcessData
          /\ Len(process_'[p].cpu) = Len(process_'[p].mem) /\ Len(process_'[p].cpu) \in 1 .. Kept
          /\ minProcessData_'[p] = [program |-> process_'[p].program, mem |-> m, cpu |-> rate]
          /\ Head(process_'[p].mem) = m /\ Head(process_'[p].cpu) = rate
          /\ process_'[p].lastUtime_ = int(stat.utime) /\ process_'[p].lastStime_ = int(stat.stime)
    BY StatAgainEntry
  <1>3. DOMAIN minProcessData_ = Known
    BY DEF Inv, TablesAgree
  <1>4. /\ Known' = Known /\ DOMAIN minProcessData_' = Known'
        /\ \A q \in Known \ {p} : process_'[q] = process_[q] /\ minProcessData_'[q] = minProcessData_[q]
    BY <1>2, <1>3
  <1>5. running[p] \notin blanks =>
          process_'[p].lastUtime_ = int(utime[p]) /\ process_'[p].lastStime_ = int(stime[p])
    BY <1>1, <1>2, ParseType DEF Inv
  <1> HIDE DEF p, m, old
  <1>6. Stored
    BY DEF StatAgain
  <1>7. Known' \subseteq Pid /\ DOMAIN minProcessData_' \subseteq Pid
    BY <1>4 DEF Inv, TypeOK
  <1>8. /\ DOMAIN sample' \subseteq Known'
        /\ \A q \in DOMAIN sample' : sample'[q] \in [utime : Nat, stime : Nat, same : BOOLEAN]
        /\ Samples'
    BY <1>1, <1>4, <1>5, <1>6, <1>7, StoredSample DEF Inv, p
  <1>9. TypeOK'
    <2>1. \A q \in Known' : process_'[q] \in Process
      BY <1>2, <1>4 DEF Inv, TypeOK
    <2>2. \A q \in DOMAIN minProcessData_' : minProcessData_'[q] \in MinProcessData
      BY <1>2, <1>3, <1>4 DEF Inv, TypeOK
    <2> QED BY <1>6, <1>7, <1>8, <2>1, <2>2
        DEF Stored, Inv, TypeOK, kernelVars, totalVars, scanHistory
  <1>10. TablesAgree'
    <2>1. UNCHANGED graph
      BY <1>6 DEF Stored, answerVars
    <2>2. ASSUME NEW q \in Known'
          PROVE  /\ Len(process_'[q].cpu) = Len(process_'[q].mem) /\ Len(process_'[q].cpu) \in 1 .. Kept
                 /\ minProcessData_'[q] = [program |-> process_'[q].program,
                                           mem |-> Head(process_'[q].mem), cpu |-> Head(process_'[q].cpu)]
      <3>1. CASE q = p
        BY <1>2, <3>1
      <3>2. CASE q \in Known \ {p}
        BY <1>4, <3>2 DEF Inv, TablesAgree
      <3> QED BY <1>4, <3>1, <3>2
    <2> QED BY <1>4, <2>1, <2>2 DEF Inv, TablesAgree
  <1>11. HostLists'
    BY <1>6 DEF Stored, hostVars, Inv, HostLists
  <1> QED BY <1>8, <1>9, <1>10, <1>11 DEF Inv
-----------------------------------------------------------------------------
(***************************************************************************)
(* The other steps.                                                        *)
(***************************************************************************)
LEMMA MachineInv ==
  ASSUME Inv, NEW p \in Pid, Exit(p) \/ Run(p) \/ \E program \in Program : Fork(p, program)
  PROVE  Inv'
  <1> USE DEF Known
  <1>1. changes' \in 0 .. MaxChanges
    BY SystemInfoAssumption DEF Exit, Run, Fork, Change, Inv, TypeOK
  <1>2. running' \in [Pid -> Program \cup {None}] /\ utime' \in [Pid -> Nat] /\ stime' \in [Pid -> Nat]
    BY DEF Exit, Run, Fork, Inv, TypeOK
  <1>3. lived' \subseteq Pid /\ quiet' \in BOOLEAN
    BY DEF Exit, Run, Fork, historyVars, scanHistory, Inv, TypeOK
  <1>4. UNCHANGED <<tableVars, totalVars, hostVars, scanVars, graph, pc>>
    BY DEF Exit, Run, Fork, answerVars
  <1>5. /\ DOMAIN sample' = DOMAIN sample
        /\ \A q \in DOMAIN sample : sample'[q] \in [utime : Nat, stime : Nat, same : BOOLEAN]
    <2>1. CASE Exit(p)
      BY <2>1 DEF Exit, Inv, TypeOK
    <2>2. CASE Run(p) \/ \E program \in Program : Fork(p, program)
      BY <2>2 DEF Run, Fork, historyVars, Inv, TypeOK
    <2> QED BY <2>1, <2>2
  <1>6. Samples'
    <2>1. ASSUME NEW q \in DOMAIN sample
          PROVE  /\ sample'[q].utime = sample[q].utime /\ sample'[q].stime = sample[q].stime
                 /\ sample'[q].same => /\ q \in Alive' /\ sample[q].utime <= utime'[q]
                                       /\ sample[q].stime <= stime'[q]
      <3>1. /\ q \in Pid /\ sample[q] \in [utime : Nat, stime : Nat, same : BOOLEAN]
            /\ sample[q].same => q \in Alive /\ sample[q].utime <= utime[q] /\ sample[q].stime <= stime[q]
        BY DEF Inv, TypeOK, Samples
      <3>2. CASE Exit(p)
        <4>1. /\ sample'[q] = [sample[q] EXCEPT !.same = @ /\ q # p]
              /\ q # p => running'[q] = running[q] /\ utime'[q] = utime[q] /\ stime'[q] = stime[q]
          BY <3>1, <3>2 DEF Exit, Inv, TypeOK
        <4> QED BY <3>1, <4>1 DEF Alive
      <3>3. CASE Run(p)
        <4>1. /\ sample' = sample /\ running' = running
              /\ utime'[q] >= utime[q] /\ stime'[q] >= stime[q] /\ utime'[q] \in Nat /\ stime'[q] \in Nat
              /\ utime[q] \in Nat /\ stime[q] \in Nat
          BY <3>1, <3>3 DEF Run, historyVars, Inv, TypeOK
        <4> QED BY <3>1, <4>1 DEF Alive
      <3>4. CASE \E program \in Program : Fork(p, program)
        <4>1. /\ sample' = sample /\ p \notin Alive
              /\ q # p => running'[q] = running[q] /\ utime'[q] = utime[q] /\ stime'[q] = stime[q]
          BY <3>1, <3>4 DEF Fork, Inv, TypeOK
        <4> QED BY <3>1, <4>1 DEF Alive
      <3> QED BY <3>2, <3>3, <3>4
    <2> QED BY <1>4, <1>5, <2>1 DEF Inv, Samples, tableVars
  <1>7. TypeOK'
    BY <1>1, <1>2, <1>3, <1>4, <1>5 DEF tableVars, totalVars, scanVars, Inv, TypeOK
  <1> QED BY <1>4, <1>6, <1>7, SameTables

LEMMA BeginInv == ASSUME Inv, Begin PROVE Inv'
  <1> USE DEF Known
  <1>1. TypeOK'
    BY DEF Begin, Alive, Inv, TypeOK, kernelVars, tableVars, totalVars
  <1>2. HostLists'
    <2>1. cpuRate_' \in Seq({OfHost}) /\ Len(cpuRate_') <= Kept
      BY MeasuredType DEF Begin, Inv, HostLists
    <2>2. memRate_' \in Seq({OfHost}) /\ Len(memRate_') <= Kept
      BY MeasuredType DEF Begin, Inv, HostLists
    <2> QED BY <2>1, <2>2 DEF HostLists
  <1>3. TablesAgree'
    BY DEF Begin, Inv, TablesAgree, tableVars, answerVars
  <1>4. Samples'
    BY SameSamples DEF Begin, tableVars
  <1> QED BY <1>1, <1>2, <1>3, <1>4 DEF Inv

LEMMA ReadStatusInv == ASSUME Inv, ReadStatus PROVE Inv'
  <1> USE DEF Known
  <1>1. First \in Pid /\ running[First] \in Program
    BY DEF ReadStatus, Alive, Inv, TypeOK
  <1>2. ps' \in [pid : Pid, program : Program] /\ threads[ps'.program] \in Nat
    BY <1>1, SystemInfoAssumption DEF ReadStatus
  <1>3. processNum' \in Nat /\ threadsNum' \in Nat
    BY <1>2 DEF ReadStatus, Count, Inv, TypeOK
  <1>4. TypeOK'
    BY <1>2, <1>3 DEF ReadStatus, Inv, TypeOK, kernelVars, tableVars, totalVars, historyVars, scanHistory
  <1>5. UNCHANGED <<tableVars, hostVars, graph, kernelVars, sample>>
    BY DEF ReadStatus, answerVars, historyVars
  <1> QED BY <1>4, <1>5, SameTables, SameSamples DEF tableVars

LEMMA LeaveInv == ASSUME Inv, NoStatus \/ NoStat \/ End PROVE Inv'
  <1> USE DEF Known
  <1>1. UNCHANGED <<kernelVars, tableVars, hostVars, answerVars, sample>> /\ Leave
    BY DEF NoStatus, NoStat, GiveUp, End
  <1>2. processNum_' \in Nat /\ threadsNum_' \in Nat
    BY DEF NoStatus, NoStat, GiveUp, End, Totals, totalVars, Inv, TypeOK
  <1>3. TypeOK'
    BY <1>1, <1>2 DEF Leave, Inv, TypeOK, kernelVars, tableVars
  <1> QED BY <1>1, <1>3, SameTables, SameSamples DEF answerVars, tableVars

LEMMA TimerInv == ASSUME Inv, Timer PROVE Inv'
  <1> USE DEF Known
  <1>1. TypeOK'
    BY DEF Timer, Inv, TypeOK, kernelVars, tableVars, totalVars, scanVars, historyVars, scanHistory
  <1>2. graph'.of = None /\ Len(graph'.cpu) = 0 /\ Len(graph'.mem) = 0
    BY DEF Timer, NoGraph
  <1>3. HostLists'
    BY DEF Timer, hostVars, Inv, HostLists
  <1>4. TablesAgree'
    BY <1>2, SystemInfoAssumption DEF Timer, tableVars, Inv, TablesAgree
  <1>5. Samples'
    BY SameSamples DEF Timer, tableVars, historyVars
  <1> QED BY <1>1, <1>3, <1>4, <1>5 DEF Inv

LEMMA AnswerInv == ASSUME Inv, NEW query, Answer(query) PROVE Inv'
  <1>1. TypeOK'
    BY DEF Answer, Inv, TypeOK, Known, kernelVars, tableVars, totalVars, scanVars, historyVars, scanHistory
  <1>2. graph'.of = None /\ Len(graph'.cpu) = 0 /\ Len(graph'.mem) = 0
    BY DEF Answer, NoGraph
  <1>3. HostLists'
    BY DEF Answer, hostVars, Inv, HostLists
  <1>4. TablesAgree'
    BY <1>2, SystemInfoAssumption DEF Answer, tableVars, Inv, TablesAgree, Known
  <1>5. Samples'
    BY SameSamples DEF Answer, tableVars, historyVars
  <1> QED BY <1>1, <1>3, <1>4, <1>5 DEF Inv

\* The lists of a graph are one longer than those they are made of.
LEMMA GraphInv ==
  ASSUME Inv, NEW A, NEW B, NEW cpu \in Seq(A), NEW mem \in Seq(B), NEW of,
         Len(cpu) <= Kept, Len(mem) <= Kept, of # None => Len(cpu) = Len(mem), Graph(of, cpu, mem)
  PROVE  Inv'
  <1>1. TypeOK'
    BY DEF Graph, Inv, TypeOK, Known, kernelVars, tableVars, totalVars, scanVars, historyVars, scanHistory
  <1>2. graph'.of = of /\ Len(graph'.cpu) = Len(cpu) + 1 /\ Len(graph'.mem) = Len(mem) + 1
    <2>1. Len(<<OfHost>> \o cpu) = Len(cpu) + 1
      BY DEF OfHost
    <2>2. Len(<<OfHost>> \o mem) = Len(mem) + 1
      BY DEF OfHost
    <2> QED BY <2>1, <2>2 DEF Graph
  <1>3. Len(cpu) \in Nat /\ Len(mem) \in Nat /\ Kept \in Nat
    BY SystemInfoAssumption
  <1>4. HostLists'
    BY DEF Graph, hostVars, Inv, HostLists
  <1>5. /\ graph'.of # None => Len(graph'.cpu) = Len(graph'.mem)
        /\ Len(graph'.cpu) <= Kept + 1 /\ Len(graph'.mem) <= Kept + 1
    BY <1>2, <1>3
  <1>6. TablesAgree'
    BY <1>5 DEF Graph, tableVars, Inv, TablesAgree, Known
  <1>7. Samples'
    BY SameSamples DEF Graph, tableVars, historyVars
  <1> QED BY <1>1, <1>4, <1>6, <1>7 DEF Inv

LEMMA NextInv == Inv /\ [Next]_vars => Inv'
  <1> SUFFICES ASSUME Inv, [Next]_vars PROVE Inv'
    OBVIOUS
  <1>1. ASSUME NEW p \in Pid, AnswerPid(p) PROVE Inv'
    <2>1. CASE p \in Known
      <3>1. /\ process_[p].cpu \in Seq(Rate) /\ process_[p].mem \in Seq(Nat)
            /\ Len(process_[p].cpu) = Len(process_[p].mem) /\ Len(process_[p].cpu) <= Kept
        BY <2>1 DEF Inv, TypeOK, TablesAgree, Process
      <3> QED BY <1>1, <2>1, <3>1, GraphInv DEF AnswerPid
    <2>2. CASE p \notin Known
      <3>1. <<>> \in Seq(Nat) /\ Len(<<>>) <= Kept
        BY EmptySeq, SystemInfoAssumption
      <3> QED BY <1>1, <2>2, <3>1, GraphInv DEF AnswerPid
    <2> QED BY <2>1, <2>2
  <1>2. CASE AnswerHost
    <2>1. /\ cpuRate_ \in Seq({OfHost}) /\ memRate_ \in Seq({OfHost})
          /\ Len(cpuRate_) <= Kept /\ Len(memRate_) <= Kept
      BY DEF Inv, HostLists
    <2> QED BY <1>2, <2>1, GraphInv DEF AnswerHost
  <1>3. CASE UNCHANGED vars
    <2>1. Samples'
      BY <1>3, SameSamples DEF vars, tableVars, historyVars
    <2> QED BY <1>3, <2>1 DEF vars, kernelVars, tableVars, totalVars, hostVars, scanVars, answerVars,
                historyVars, scanHistory, Inv, TypeOK, HostLists, TablesAgree, Known
  <1> QED
    BY <1>1, <1>2, <1>3, MachineInv, BeginInv, ReadStatusInv, LeaveInv, FirstStatInv,
       StatAgainInv, TimerInv, AnswerInv
    DEF Next, Update

\* Every variable always holds a value of its type: what is stored of the CPU times are ints,
\* and a rate is the sum of two that are not negative, or what is left of it in an int,
\* divided by what is not less than one, whatever stat has left uninitialized.
THEOREM TypeCorrect == Spec => []TypeOK
  <1>1. Inv => TypeOK
    BY DEF Inv
  <1> QED BY <1>1, InitInv, NextInv, PTL DEF Spec

\* process_ and minProcessData_ tell the same of every process, and the lists that an answer
\* to /pid draws side by side have the same length, whatever processes come, go and come
\* back during a scan and whichever files cannot be read; no list grows without bound.
THEOREM TablesAgreeTheorem == Spec => []TablesAgree
  <1>1. Inv => TablesAgree
    BY DEF Inv
  <1> QED BY <1>1, InitInv, NextInv, PTL DEF Spec
-----------------------------------------------------------------------------
(***************************************************************************)
(* RatesAreRight.                                                          *)
(***************************************************************************)
LEMMA Summed ==
  ASSUME NEW u \in Nat, NEW s \in Nat, u + s < half, NEW x \in Sums(u, s)
  PROVE  x = u + s
  <1>1. u + s \in Word
    BY SystemInfoAssumption DEF Word
  <1> QED BY <1>1, IntFits DEF Sums

LEMMA TicksOfSame ==
  ASSUME NEW new \in Nat, NEW last \in Nat, last <= new, new - last < half
  PROVE  TicksUsed(new, int(last)) = new - last
  <1>1. new - last \in Word
    BY SystemInfoAssumption DEF Word
  <1>2. int(new - int(last)) = new - last
    BY <1>1, IntDifference
  <1> QED BY <1>2 DEF TicksUsed

LEMMA TicksOfOther ==
  ASSUME NEW new \in Nat, NEW last \in Nat, last < half, new < half
  PROVE  TicksUsed(new, int(last)) \in 0 .. new
  <1>1. new - last \in Word
    BY SystemInfoAssumption DEF Word
  <1>2. int(new - int(last)) = new - last
    BY <1>1, IntDifference
  <1> QED BY <1>2 DEF TicksUsed

LEMMA RateStep ==
  ASSUME Inv, StatAgain, ps.pid \in DOMAIN sample, running[ps.pid] \notin blanks
  PROVE  LET p == ps.pid  last == sample[p]  ticks == Head(process_'[p].cpu).ticks
             total == utime[p] + stime[p]  used == total - last.utime - last.stime
         IN /\ last.same /\ used < half => ticks = used
            /\ ~last.same /\ last.utime < half /\ last.stime < half /\ total < half => ticks \in 0 .. total
  <1> DEFINE p == ps.pid
             last == sample[p]
             old == process_[p]
             ticks == Head(process_'[p].cpu).ticks
  <1>0. PICK stat \in parse(p), ctime \in Jiffies : Head(process_'[p].cpu) \in Rates(stat, ctime, old)
    BY StatAgainEntry
  <1>1. PICK rate \in Rates(stat, ctime, old) : Head(process_'[p].cpu) = rate
    BY <1>0
  <1>2. p \in Alive /\ p \in Pid /\ stat = [utime |-> utime[p], stime |-> stime[p]]
    BY <1>0, ParseType DEF StatAgain, Inv, Alive
  <1>3. PICK u, s : u = utime[p] /\ s = stime[p]
    OBVIOUS
  <1>4. PICK lu, ls : lu = last.utime /\ ls = last.stime
    OBVIOUS
  <1>5. /\ u \in Nat /\ s \in Nat /\ lu \in Nat /\ ls \in Nat
        /\ old.lastUtime_ = int(lu) /\ old.lastStime_ = int(ls)
        /\ last.same => lu <= u /\ ls <= s
    BY <1>2, <1>3, <1>4 DEF Inv, TypeOK, Samples
  <1>6. ticks \in Sums(TicksUsed(u, int(lu)), TicksUsed(s, int(ls)))
    BY <1>1, <1>2, <1>3, <1>5 DEF Rates
  <1> HIDE DEF ticks, last, old, p
  <1>7. half \in Nat
    BY SystemInfoAssumption
  <1>8. ASSUME last.same, (u + s) - lu - ls < half PROVE ticks = (u + s) - lu - ls
    <2>1. lu <= u /\ ls <= s /\ u - lu < half /\ s - ls < half /\ u - lu \in Nat /\ s - ls \in Nat
      BY <1>5, <1>7, <1>8
    <2>2. TicksUsed(u, int(lu)) = u - lu /\ TicksUsed(s, int(ls)) = s - ls
      BY <1>5, <2>1, TicksOfSame
    <2>3. ticks = (u - lu) + (s - ls)
      BY <1>5, <1>6, <1>7, <1>8, <2>1, <2>2, Summed
    <2> QED BY <1>5, <2>3
  <1>9. ASSUME lu < half, ls < half, u + s < half PROVE ticks \in 0 .. u + s
    <2>0. u < half /\ s < half
      BY <1>5, <1>7, <1>9
    <2>1. PICK x \in 0 .. u : x = TicksUsed(u, int(lu))
      BY <1>5, <1>9, <2>0, TicksOfOther
    <2>2. PICK y \in 0 .. s : y = TicksUsed(s, int(ls))
      BY <1>5, <1>9, <2>0, TicksOfOther
    <2>3. x \in Nat /\ y \in Nat /\ x + y < half /\ x + y \in 0 .. u + s
      BY <1>5, <1>7, <1>9, <2>1, <2>2
    <2>4. ticks = x + y
      BY <1>6, <2>1, <2>2, <2>3, Summed
    <2> QED BY <2>3, <2>4
  <1>10. (utime[p] + stime[p]) - last.utime - last.stime = (u + s) - lu - ls
    BY <1>3, <1>4 DEF p, last
  <1>11. last.same /\ (utime[p] + stime[p]) - last.utime - last.stime < half =>
           ticks = (utime[p] + stime[p]) - last.utime - last.stime
    BY <1>8, <1>10
  <1>12. last.utime < half /\ last.stime < half /\ utime[p] + stime[p] < half => ticks \in 0 .. utime[p] + stime[p]
    BY <1>3, <1>4, <1>9 DEF p, last
  <1> QED BY <1>11, <1>12 DEF p, last, ticks

\* Where the stat before could be parsed, the ticks of a new rate are those that the process
\* has used since then, although only ints are kept of its counters; and those of a process
\* whose pid another one had before are not negative, nor more than it has used.
THEOREM RatesAreRightTheorem == Spec => RatesAreRight
  <1> DEFINE Right ==
        LET p == ps.pid  last == sample[p]  ticks == Head(process_'[p].cpu).ticks
            total == utime[p] + stime[p]  used == total - last.utime - last.stime
        IN StatAgain /\ p \in DOMAIN sample /\ running[p] \notin blanks =>
             /\ last.same /\ used < half => ticks = used
             /\ ~last.same /\ last.utime < half /\ last.stime < half /\ total < half => ticks \in 0 .. total
  <1>1. Inv => Right
    BY RateStep
  <1> HIDE DEF Right
  <1>2. Spec => [][Right]_vars
    BY <1>1, InitInv, NextInv, PTL DEF Spec
  <1> QED BY <1>2 DEF RatesAreRight, Right
-----------------------------------------------------------------------------
(***************************************************************************)
(* TopShown.                                                               *)
(***************************************************************************)
LEMMA SelectedType ==
  ASSUME Inv, NEW query
  PROVE  /\ IsFiniteSet(Selected(query)) /\ Cardinality(Selected(query)) \in Nat
         /\ \A p \in Selected(query) : minProcessData_[p].cpu \in Rate /\ minProcessData_[p].mem \in Nat
  <1>1. Selected(query) \subseteq DOMAIN minProcessData_ /\ DOMAIN minProcessData_ \subseteq Pid
    BY DEF Selected, Inv, TypeOK
  <1>2. IsFiniteSet(Selected(query))
    BY <1>1, SystemInfoAssumption, FS_Subset
  <1>3. \A p \in DOMAIN minProcessData_ : minProcessData_[p].cpu \in Rate /\ minProcessData_[p].mem \in Nat
    BY DEF Inv, TypeOK, MinProcessData
  <1> QED BY <1>1, <1>2, <1>3, FS_CardinalityType

\* What is sorted has every process that was selected, as often as it has places.
LEMMA SortedHasAll ==
  ASSUME NEW S, IsFiniteSet(S), NEW s \in Sorted(S)
  PROVE  /\ s \in Seq(S) /\ Len(s) = Cardinality(S) /\ DOMAIN s = 1 .. Len(s)
         /\ \A p \in S : \E j \in DOMAIN s : s[j] = p
  <1> DEFINE n == Cardinality(S)
  <1>1. n \in Nat
    BY FS_CardinalityType
  <1>2. /\ s \in [1 .. n -> S]
        /\ \A i, j \in DOMAIN s : i < j => s[i] # s[j]
    BY DEF Sorted
  <1> HIDE DEF n
  <1>3. s \in Seq(S) /\ Len(s) = n /\ DOMAIN s = 1 .. Len(s)
    BY <1>1, <1>2
  <1>4. s \in Injection(1 .. n, S)
    <2>1. \A i, j \in 1 .. n : s[i] = s[j] => i = j
      <3>1. ASSUME NEW i \in 1 .. n, NEW j \in 1 .. n, s[i] = s[j] PROVE i = j
        <4>1. i \in Int /\ j \in Int /\ ~(i < j) /\ ~(j < i)
          BY <1>1, <1>2, <3>1
        <4> QED BY <4>1
      <3> QED BY <3>1
    <2> QED BY <1>2, <2>1 DEF Injection, IsInjective
  <1>5. Cardinality(1 .. n) = n
    BY <1>1, FS_Interval
  <1>6. s \in Surjection(1 .. n, S)
    BY <1>4, <1>5, FS_Injection DEF n
  <1>7. \A p \in S : \E j \in DOMAIN s : s[j] = p
    BY <1>2, <1>6 DEF Surjection
  <1> QED BY <1>3, <1>7 DEF n

LEMMA CutType ==
  ASSUME NEW S, NEW s \in Seq(S)
  PROVE  /\ Len(Cut(s)) = IF Len(s) < Shown THEN Len(s) ELSE Shown
         /\ DOMAIN Cut(s) = 1 .. Len(Cut(s))
         /\ \A i \in DOMAIN Cut(s) : i \in DOMAIN s /\ Cut(s)[i] = s[i]
  <1> DEFINE m == IF Len(s) < Shown THEN Len(s) ELSE Shown
  <1>1. Len(s) \in Nat /\ Shown \in Nat /\ DOMAIN s = 1 .. Len(s)
    BY SystemInfoAssumption
  <1>2. m \in 0 .. Len(s)
    BY <1>1
  <1>3. Cut(s) = SubSeq(s, 1, m)
    BY DEF Cut
  <1> HIDE DEF m
  <1>4. SubSeq(s, 1, m) = [i \in 1 .. m |-> s[i]]
    BY <1>1, <1>2
  <1>5. Len(Cut(s)) = m /\ DOMAIN Cut(s) = 1 .. m
    BY <1>1, <1>2, <1>3, <1>4
  <1>6. \A i \in 1 .. m : i \in 1 .. Len(s) /\ Cut(s)[i] = s[i]
    BY <1>1, <1>2, <1>3, <1>4
  <1> QED BY <1>1, <1>5, <1>6 DEF m

\* A score is the integer part of the rate, in parts of Scale.
LEMMA ScoreFloor ==
  ASSUME NEW r \in Rate, Fits(r)
  PROVE  /\ score(r) \in Nat /\ r.per \in Nat \ {0} /\ r.ticks \in Nat
         /\ score(r) * r.per <= r.ticks * Scale /\ r.ticks * Scale < (score(r) + 1) * r.per
  <1>1. half \in Nat \ {0} /\ Scale \in Nat \ {0}
    BY SystemInfoAssumption
  <1>2. r.ticks \in Nat /\ r.per \in Nat \ {0} /\ r.ticks * Scale < half * r.per
    BY <1>1 DEF Rate, Fits
  <1>3. PICK a \in Nat, b \in Nat \ {0} : a = r.ticks * Scale /\ b = r.per
    BY <1>1, <1>2
  <1>4. a < half * b
    BY <1>2, <1>3
  <1>5. PICK q \in Int, w \in 0 .. b - 1 : q = a \div b /\ a = b * q + w
    <2>1. a \in Int /\ b \in Nat \ {0}
      BY <1>3
    <2> QED BY <2>1, DivMod, Zenon
  <1>6. b * q <= a /\ a < b * (q + 1)
    <2>1. PICK z \in Int : z = b * q /\ b * (q + 1) = z + b
      BY <1>3
    <2>2. a = z + w
      BY <1>5, <2>1
    <2> QED BY <1>3, <2>1, <2>2
  <1>7. q \in Nat
    <2>1. q < 0 => b * (q + 1) <= 0
      BY <1>3
    <2>2. b * (q + 1) \in Int
      BY <1>3
    <2> QED BY <1>3, <1>6, <2>1, <2>2
  <1>8. q < half
    <2>1. q >= half => b * q >= half * b
      BY <1>1, <1>3
    <2>2. b * q \in Int /\ half * b \in Int
      BY <1>1, <1>3
    <2> QED BY <1>1, <1>4, <1>6, <2>1, <2>2
  <1>9. score(r) = q
    <2>1. Truncated(a, b) = q
      BY <1>3, <1>5 DEF Truncated
    <2>2. q \in Word
      BY <1>1, <1>7, <1>8 DEF Word
    <2> QED BY <1>3, <2>1, <2>2 DEF score
  <1>10. b * q = q * b /\ b * (q + 1) = (q + 1) * b
    BY <1>3
  <1> QED BY <1>2, <1>3, <1>6, <1>7, <1>9, <1>10

LEMMA Multiply ==
  ASSUME NEW x \in Nat, NEW y \in Nat, NEW z \in Nat
  PROVE  /\ x <= y => x * z <= y * z
         /\ x < y /\ z > 0 => x * z < y * z
  OBVIOUS

\* What the order of scores says of the rates.
LEMMA ScoresCompare ==
  ASSUME NEW r \in Rate, NEW t \in Rate, Fits(r), Fits(t), score(r) <= score(t)
  PROVE  ~FarAbove(r, t) /\ (score(r) < score(t) => Above(t, r))
  <1>0. /\ score(r) \in Nat /\ r.per \in Nat \ {0} /\ r.ticks * Scale \in Nat
        /\ score(r) * r.per <= r.ticks * Scale /\ r.ticks * Scale < (score(r) + 1) * r.per
        /\ score(t) \in Nat /\ t.per \in Nat \ {0} /\ t.ticks * Scale \in Nat
        /\ score(t) * t.per <= t.ticks * Scale /\ t.ticks * Scale < (score(t) + 1) * t.per
    BY ScoreFloor, SystemInfoAssumption
  <1>1. PICK c \in Nat, a \in Nat \ {0}, x \in Nat :
          /\ c = score(r) /\ a = r.per /\ x = r.ticks * Scale /\ c * a <= x /\ x < (c + 1) * a
    BY <1>0
  <1>2. PICK d \in Nat, b \in Nat \ {0}, y \in Nat :
          /\ d = score(t) /\ b = t.per /\ y = t.ticks * Scale /\ d * b <= y /\ y < (d + 1) * b
    BY <1>0
  <1>3. x * b <= (c + 1) * a * b /\ x * b < (c + 1) * a * b
    <2>1. (c + 1) * a \in Nat
      BY <1>1
    <2> QED BY <1>1, <1>2, <2>1, Multiply
  <1>4. d * b * a <= y * a
    <2>1. d * b \in Nat
      BY <1>2
    <2> QED BY <1>1, <1>2, <2>1, Multiply
  <1>5. c <= d => (c + 1) * (a * b) <= (d + 1) * (a * b)
    <2>1. c + 1 \in Nat /\ d + 1 \in Nat /\ a * b \in Nat
      BY <1>1, <1>2
    <2> QED BY <1>1, <1>2, <2>1, Multiply
  <1>6. c + 1 <= d => (c + 1) * (a * b) <= d * (a * b)
    <2>1. c + 1 \in Nat /\ a * b \in Nat
      BY <1>1, <1>2
    <2> QED BY <1>2, <2>1, Multiply
  <1>7. /\ (c + 1) * a * b = (c + 1) * (a * b) /\ d * b * a = d * (a * b)
        /\ (d + 1) * (a * b) = d * (a * b) + b * a /\ (y + b) * a = y * a + b * a
    <2>1. c + 1 \in Nat /\ a \in Nat /\ b \in Nat /\ d \in Nat /\ y \in Nat
      BY <1>1, <1>2
    <2>2. \A i, j, k \in Nat : i * j * k = i * (j * k)
      OBVIOUS
    <2>3. \A i, j \in Nat : i * j = j * i
      OBVIOUS
    <2>4. \A i, j, k \in Nat : (i + j) * k = i * k + j * k
      OBVIOUS
    <2>5. a * b \in Nat /\ a * b = b * a /\ 1 * (a * b) = a * b
      BY <2>1
    <2>6. (c + 1) * a * b = (c + 1) * (a * b) /\ d * b * a = d * (b * a)
      BY <2>1, <2>2
    <2>7. (d + 1) * (a * b) = d * (a * b) + 1 * (a * b) /\ (y + b) * a = y * a + b * a
      BY <2>1, <2>4, <2>5
    <2> QED BY <2>5, <2>6, <2>7
  <1>8. PICK A \in Int, B \in Int, C \in Int, D \in Int, E \in Int, F \in Int :
          /\ A = x * b /\ B = y * a /\ C = (c + 1) * (a * b) /\ D = d * (a * b) /\ E = b * a
          /\ F = (d + 1) * (a * b)
    <2>1. /\ x * b \in Int /\ y * a \in Int /\ (c + 1) * (a * b) \in Int /\ d * (a * b) \in Int
          /\ b * a \in Int /\ (d + 1) * (a * b) \in Int
      BY <1>1, <1>2
    <2> QED BY <2>1
  <1>9. /\ A < C /\ D <= B /\ F = D + E /\ (y + b) * a = B + E
        /\ (c <= d => C <= F) /\ (c + 1 <= d => C <= D)
    BY <1>3, <1>4, <1>5, <1>6, <1>7, <1>8
  <1>10. c <= d => ~(x * b > (y + b) * a)
    BY <1>8, <1>9
  <1>11. c < d => x * b < y * a
    BY <1>1, <1>2, <1>8, <1>9
  <1>12. ~FarAbove(r, t)
    BY <1>1, <1>2, <1>10 DEF FarAbove
  <1>13. ASSUME c < d PROVE Above(t, r)
    <2>1. PICK u \in Nat, v \in Nat, s \in Nat \ {0} : u = r.ticks /\ v = t.ticks /\ s = Scale
      BY ScoreFloor, SystemInfoAssumption
    <2>2. x * b = (u * b) * s /\ y * a = (v * a) * s /\ u * b \in Nat /\ v * a \in Nat
      BY <1>1, <1>2, <2>1
    <2>3. v * a <= u * b => (v * a) * s <= (u * b) * s
      BY <2>1, <2>2, Multiply
    <2>4. PICK U \in Nat, V \in Nat : U = u * b /\ V = v * a
      BY <2>2
    <2>5. U * s < V * s /\ (V <= U => V * s <= U * s) /\ U * s \in Nat /\ V * s \in Nat
      BY <1>11, <1>13, <2>1, <2>2, <2>3, <2>4
    <2>6. U < V
      BY <2>4, <2>5
    <2> QED BY <1>1, <1>2, <2>1, <2>4, <2>6 DEF Above
  <1> QED BY <1>1, <1>2, <1>12, <1>13

\* What it means that one is not put before another.
LEMMA NotBefore ==
  ASSUME NEW m, NEW q, m.cpu \in Rate, q.cpu \in Rate, m.mem \in Nat, q.mem \in Nat, ~before(m, q)
  PROVE  Fits(q.cpu) /\ Fits(m.cpu) =>
           ~FarAbove(m.cpu, q.cpu) /\ (Above(q.cpu, m.cpu) \/ q.mem >= m.mem)
  <1> SUFFICES ASSUME Fits(q.cpu), Fits(m.cpu)
               PROVE  ~FarAbove(m.cpu, q.cpu) /\ (Above(q.cpu, m.cpu) \/ q.mem >= m.mem)
    OBVIOUS
  <1>1. score(m.cpu) \in Nat /\ score(q.cpu) \in Nat
    BY ScoreFloor
  <1>2. /\ score(m.cpu) <= score(q.cpu)
        /\ score(m.cpu) < score(q.cpu) \/ q.mem >= m.mem
    BY <1>1 DEF before
  <1> QED BY <1>2, ScoresCompare

LEMMA TopStep ==
  ASSUME Inv, NEW query, Answer(query)
  PROVE  /\ Len(shown') <= Shown
         /\ \A i \in DOMAIN shown' : shown'[i] \in Selected(query)
         /\ \A p \in Selected(query) \ {shown'[i] : i \in DOMAIN shown'} :
            /\ Len(shown') = Shown
            /\ \A i \in DOMAIN shown' :
                 LET q == minProcessData_[shown'[i]]  m == minProcessData_[p] IN
                 Fits(q.cpu) /\ Fits(m.cpu) =>
                   ~FarAbove(m.cpu, q.cpu) /\ (Above(q.cpu, m.cpu) \/ q.mem >= m.mem)
  <1> DEFINE S == Selected(query)
  <1>1. PICK s \in Sorted(S) : shown' = Cut(s)
    BY DEF Answer
  <1>2. /\ IsFiniteSet(S) /\ Cardinality(S) \in Nat
        /\ \A p \in S : minProcessData_[p].cpu \in Rate /\ minProcessData_[p].mem \in Nat
    BY SelectedType
  <1>3. \A i, j \in DOMAIN s : i < j => ~before(minProcessData_[s[j]], minProcessData_[s[i]])
    BY DEF Sorted
  <1> HIDE DEF S
  <1>4. /\ s \in Seq(S) /\ Len(s) = Cardinality(S) /\ DOMAIN s = 1 .. Len(s)
        /\ \A p \in S : \E j \in DOMAIN s : s[j] = p
    BY <1>2, SortedHasAll
  <1>5. /\ Len(shown') = IF Len(s) < Shown THEN Len(s) ELSE Shown
        /\ DOMAIN shown' = 1 .. Len(shown')
        /\ \A i \in DOMAIN shown' : i \in DOMAIN s /\ shown'[i] = s[i]
    BY <1>1, <1>4, CutType
  <1>6. Len(s) \in Nat /\ Shown \in Nat
    BY <1>2, <1>4, SystemInfoAssumption
  <1>7. Len(shown') <= Shown /\ \A i \in DOMAIN shown' : shown'[i] \in S
    BY <1>4, <1>5, <1>6
  <1>8. ASSUME NEW p \in S \ {shown'[i] : i \in DOMAIN shown'}
        PROVE  /\ Len(shown') = Shown
               /\ \A i \in DOMAIN shown' :
                    LET q == minProcessData_[shown'[i]]  m == minProcessData_[p] IN
                    Fits(q.cpu) /\ Fits(m.cpu) =>
                      ~FarAbove(m.cpu, q.cpu) /\ (Above(q.cpu, m.cpu) \/ q.mem >= m.mem)
    <2>1. PICK j \in DOMAIN s : s[j] = p
      BY <1>4
    <2>2. j \notin DOMAIN shown'
      BY <1>5, <2>1
    <2>3. Len(shown') = Shown /\ \A i \in DOMAIN shown' : i < j
      BY <1>4, <1>5, <1>6, <2>2
    <2>4. ASSUME NEW i \in DOMAIN shown'
          PROVE  LET q == minProcessData_[shown'[i]]  m == minProcessData_[p] IN
                 Fits(q.cpu) /\ Fits(m.cpu) =>
                   ~FarAbove(m.cpu, q.cpu) /\ (Above(q.cpu, m.cpu) \/ q.mem >= m.mem)
      <3>1. i \in DOMAIN s /\ shown'[i] = s[i] /\ s[i] \in S /\ i < j
        BY <1>4, <1>5, <2>3
      <3>2. ~before(minProcessData_[p], minProcessData_[shown'[i]])
        BY <1>3, <2>1, <3>1
      <3>3. /\ minProcessData_[p].cpu \in Rate /\ minProcessData_[p].mem \in Nat
            /\ minProcessData_[shown'[i]].cpu \in Rate /\ minProcessData_[shown'[i]].mem \in Nat
        BY <1>2, <3>1
      <3> QED BY <3>2, <3>3, NotBefore
    <2> QED BY <2>3, <2>4
  <1> QED BY <1>7, <1>8 DEF S

\* An answer to /proc leaves out no process whose rate is higher than one that is shown by
\* more than one part of Scale, nor one that is as busy or busier and bigger, however
\* std::sort orders equals, and shows no more than there is room for; of rates that fit.
THEOREM TopShownTheorem == Spec => TopShown
  <1> DEFINE Top == \A query \in Queries : Answer(query) =>
       /\ Len(shown') <= Shown
       /\ \A i \in DOMAIN shown' : shown'[i] \in Selected(query)
       /\ \A p \in Selected(query) \ {shown'[i] : i \in DOMAIN shown'} :
          /\ Len(shown') = Shown
          /\ \A i \in DOMAIN shown' :
               LET q == minProcessData_[shown'[i]]  m == minProcessData_[p] IN
               Fits(q.cpu) /\ Fits(m.cpu) =>
                 ~FarAbove(m.cpu, q.cpu) /\ (Above(q.cpu, m.cpu) \/ q.mem >= m.mem)
  <1>1. Inv => Top
    BY TopStep
  <1> HIDE DEF Top
  <1>2. Spec => [][Top]_vars
    BY <1>1, InitInv, NextInv, PTL DEF Spec
  <1> QED BY <1>2 DEF TopShown, Top
-----------------------------------------------------------------------------
(***************************************************************************)
(* ScanIsRight.  Scan is what a scan has done so far: of the processes     *)
(* that have been there all the time those that are no longer in the       *)
(* listing are in the tables, but for the one whose stat is still to be    *)
(* read; and the counters have counted them, if nothing came or went.      *)
(***************************************************************************)
Seen(p) == p \in Known /\ (Head(process_[p].mem) = rss[running[p]] \/ Len(process_[p].mem) = 1)

Visited ==
  /\ lived \subseteq Alive
  /\ pc \in {"update", "idle"} => lived = {}
  /\ pc = "stat" /\ ps.pid \in lived => ps.program = running[ps.pid]
  /\ \A p \in lived : p \in listing \/ (pc = "stat" /\ p = ps.pid) \/ Seen(p)

Counted ==
  quiet => /\ pc \in {"next", "stat"} /\ listing \subseteq Alive
           /\ processNum = Cardinality(Alive \ listing)
           /\ threadsNum = ThreadsOf(Alive \ listing)

Scan == Visited /\ Counted

Less == {p \in Nat \X Nat : p[1] < p[2]}

\* readdir returns one of those it has not returned.
LEMMA FirstIsListed ==
  ASSUME Inv, listing # {}
  PROVE  First \in listing
  <1>1. listing \subseteq Nat
    BY SystemInfoAssumption DEF Inv, TypeOK
  <1>2. IsWellFoundedOn(Less, Nat)
    BY NatLessThanWellFounded DEF OpToRel, Less
  <1>3. PICK m \in listing : \A n \in listing : ~(<<n, m>> \in Less)
    BY <1>1, <1>2, WFMin
  <1>4. ASSUME NEW n \in listing PROVE m <= n
    <2>1. m \in Nat /\ n \in Nat
      BY <1>1
    <2>2. n < m => <<n, m>> \in Less
      BY <2>1 DEF Less
    <2> QED BY <1>3, <2>1, <2>2
  <1> QED BY <1>4 DEF First, Min

\* One more process has its threads, which no other has.
LEMMA ThreadsAdd ==
  ASSUME Inv, NEW S, S \subseteq Alive, NEW p \in Alive, p \notin S
  PROVE  /\ Cardinality(S \cup {p}) = Cardinality(S) + 1
         /\ ThreadsOf(S \cup {p}) = ThreadsOf(S) + threads[running[p]]
  <1> DEFINE of(q) == {q} \X (1 .. threads[running[q]])
             A == {of(q) : q \in S}
  <1>1. IsFiniteSet(S)
    BY SystemInfoAssumption, FS_Subset DEF Alive
  <1>2. \A q \in Alive : threads[running[q]] \in Nat
    BY SystemInfoAssumption DEF Alive, Inv, TypeOK
  <1>3. ASSUME NEW q \in Alive
        PROVE  IsFiniteSet(of(q)) /\ Cardinality(of(q)) = threads[running[q]]
    <2> DEFINE k == threads[running[q]]
    <2>1. k \in Nat
      BY <1>2
    <2> HIDE DEF k
    <2>2. IsFiniteSet(1 .. k) /\ Cardinality(1 .. k) = k
      BY <2>1, FS_Interval
    <2>3. IsFiniteSet({q}) /\ Cardinality({q}) = 1
      BY FS_Singleton
    <2> DEFINE one == {q}  all == 1 .. k
    <2>4. IsFiniteSet(one) /\ IsFiniteSet(all) /\ Cardinality(one) = 1 /\ Cardinality(all) = k
      BY <2>2, <2>3
    <2> HIDE DEF one, all
    <2>5. IsFiniteSet(one \X all) /\ Cardinality(one \X all) = Cardinality(one) * Cardinality(all)
      BY <2>4, FS_Product
    <2>6. 1 * k = k
      BY <2>1
    <2> QED BY <2>4, <2>5, <2>6 DEF k, one, all
  <1>4. IsFiniteSet(UNION A)
    <2> DEFINE f == [q \in S |-> of(q)]
    <2>1. f \in Surjection(S, A)
      BY DEF Surjection
    <2>2. \A T \in A : IsFiniteSet(T)
      BY <1>3
    <2> HIDE DEF f, A
    <2>3. IsFiniteSet(A)
      BY <1>1, <2>1, FS_Surjection
    <2> QED BY <2>2, <2>3, FS_UNION
  <1>5. ThreadsIn(S) = UNION A /\ ThreadsIn(S \cup {p}) = (UNION A) \cup of(p)
    BY DEF ThreadsIn
  <1>6. (UNION A) \cap of(p) = {}
    <2>1. ASSUME NEW T \in A, NEW x \in T, x \in of(p) PROVE FALSE
      <3>1. PICK q \in S : T = of(q)
        OBVIOUS
      <3>2. x[1] = q /\ x[1] = p
        BY <2>1, <3>1
      <3> QED BY <3>2
    <2> QED BY <2>1
  <1> HIDE DEF A, of
  <1>7. Cardinality((UNION A) \cup of(p)) = Cardinality(UNION A) + Cardinality(of(p)) - Cardinality({})
    BY <1>3, <1>4, <1>6, FS_Union
  <1>8. Cardinality({}) = 0 /\ Cardinality(UNION A) \in Nat
    BY <1>4, FS_EmptySet, FS_CardinalityType
  <1>9. Cardinality(S \cup {p}) = Cardinality(S) + 1
    BY <1>1, FS_AddElement
  <1>10. threads[running[p]] \in Nat /\ Cardinality(of(p)) = threads[running[p]]
    BY <1>2, <1>3
  <1>11. Cardinality((UNION A) \cup of(p)) = Cardinality(UNION A) + threads[running[p]]
    BY <1>7, <1>8, <1>10
  <1> QED BY <1>5, <1>9, <1>11 DEF ThreadsOf

LEMMA MachineScan ==
  ASSUME Inv, Scan, NEW p \in Pid, Exit(p) \/ Run(p) \/ \E program \in Program : Fork(p, program)
  PROVE  Scan'
  <1>1. UNCHANGED <<process_, listing, ps, processNum, threadsNum, pc>>
    BY DEF Exit, Run, Fork, tableVars, scanVars
  <1>2. CASE Run(p)
    BY <1>1, <1>2 DEF Run, historyVars, scanHistory, Scan, Visited, Counted, Seen, Known, Alive, ThreadsOf, ThreadsIn
  <1>3. CASE Exit(p) \/ \E program \in Program : Fork(p, program)
    <2>1. /\ ~quiet' /\ lived' \subseteq lived \ {p}
          /\ \A q \in Pid \ {p} : running'[q] = running[q]
      BY <1>3 DEF Exit, Fork, Scan, Visited, Inv, TypeOK
    <2>2. \A q \in lived' : q \in Pid \ {p} /\ running'[q] = running[q] /\ q \in lived
      BY <2>1 DEF Inv, TypeOK
    <2>3. \A q \in lived' : Seen(q) => Seen(q)'
      BY <1>1, <2>2 DEF Seen, Known
    <2> QED BY <1>1, <2>1, <2>2, <2>3 DEF Scan, Visited, Counted, Alive
  <1> QED BY <1>2, <1>3

LEMMA BeginScan == ASSUME Inv, Scan, Begin PROVE Scan'
  <1>1. Alive' = Alive /\ lived' = Alive /\ listing' = Alive /\ processNum' = 0 /\ threadsNum' = 0 /\ pc' = "next"
    BY DEF Begin, kernelVars, Alive
  <1>2. Alive \ Alive = {} /\ Cardinality({}) = 0
    BY FS_EmptySet
  <1>3. ThreadsOf({})' = 0
    BY <1>2 DEF ThreadsOf, ThreadsIn
  <1> QED BY <1>1, <1>2, <1>3 DEF Scan, Visited, Counted

LEMMA ReadStatusScan == ASSUME Inv, Scan, ReadStatus PROVE Scan'
  <1> DEFINE f == First
  <1>1. /\ pc = "next" /\ pc' = "stat" /\ f \in Alive /\ ps' = [pid |-> f, program |-> running[f]]
        /\ processNum' = processNum + 1 /\ threadsNum' = threadsNum + threads[running[f]]
        /\ listing' = listing \ {f}
        /\ UNCHANGED <<running, process_, lived, quiet>>
    BY DEF ReadStatus, Count, kernelVars, tableVars, historyVars, scanHistory
  <1>2. f \in listing
    BY FirstIsListed DEF ReadStatus
  <1>3. Alive' = Alive
    BY <1>1 DEF Alive
  <1> HIDE DEF f
  <1>4. Visited'
    <2>1. \A p \in lived : Seen(p) => Seen(p)'
      BY <1>1 DEF Seen, Known
    <2> QED BY <1>1, <1>3, <2>1 DEF Scan, Visited
  <1>5. Counted'
    <2> SUFFICES ASSUME quiet PROVE Counted'
      BY <1>1 DEF Counted
    <2>1. /\ listing \subseteq Alive /\ processNum = Cardinality(Alive \ listing)
          /\ threadsNum = ThreadsOf(Alive \ listing)
      BY DEF Scan, Counted
    <2>2. Alive \ listing' = (Alive \ listing) \cup {f}
      BY <1>1, <1>2, <2>1
    <2>3. /\ Cardinality((Alive \ listing) \cup {f}) = Cardinality(Alive \ listing) + 1
          /\ ThreadsOf((Alive \ listing) \cup {f}) = ThreadsOf(Alive \ listing) + threads[running[f]]
      BY <1>1, <1>2, ThreadsAdd
    <2>4. processNum' = Cardinality(Alive' \ listing')
      BY <1>1, <1>3, <2>1, <2>2, <2>3
    <2>5. threadsNum' = ThreadsOf(Alive \ listing')
      BY <1>1, <2>1, <2>2, <2>3
    <2>6. ThreadsOf(Alive \ listing)' = ThreadsOf(Alive \ listing')
      BY <1>1, <1>3 DEF ThreadsOf, ThreadsIn
    <2> QED BY <1>1, <1>3, <2>1, <2>4, <2>5, <2>6 DEF Counted
  <1> QED BY <1>4, <1>5 DEF Scan

\* The process whose stat has been read is in the table, with its memory or for the first time.
LEMMA StatScan == ASSUME Inv, Scan, FirstStat \/ StatAgain PROVE Scan'
  <1>0. PICK p : p = ps.pid
    OBVIOUS
  <1>1. /\ pc = "stat" /\ pc' = "next" /\ ps' = NoProcess
        /\ UNCHANGED <<running, listing, processNum, threadsNum, lived, quiet>>
    BY DEF FirstStat, StatAgain, Stored, kernelVars, scanHistory
  <1>2. Alive' = Alive
    BY <1>1 DEF Alive
  <1>3. /\ p \in Known' /\ \A q \in Known \ {p} : q \in Known' /\ process_'[q] = process_[q]
        /\ Len(process_'[p].mem) = 1 \/ Head(process_'[p].mem) = rss[ps.program]
    <2>1. CASE FirstStat
      BY <1>0, <2>1 DEF FirstStat, Known, Entry
    <2>2. CASE StatAgain
      <3>1. /\ p \in Known /\ process_' = [process_ EXCEPT ![p] = process_'[p]]
            /\ Head(process_'[p].mem) = rss[ps.program]
        BY <1>0, <2>2, StatAgainEntry DEF StatAgain
      <3> QED BY <3>1 DEF Known
    <2> QED BY <2>1, <2>2
  <1>4. p \in lived => Seen(p)'
    BY <1>0, <1>1, <1>3 DEF Seen, Scan, Visited
  <1>5. \A q \in lived \ {p} : q \in listing \/ Seen(q)'
    BY <1>0, <1>1, <1>3 DEF Seen, Scan, Visited
  <1>6. ThreadsOf(Alive \ listing)' = ThreadsOf(Alive \ listing)
    BY <1>1, <1>2 DEF ThreadsOf, ThreadsIn
  <1> QED BY <1>0, <1>1, <1>2, <1>4, <1>5, <1>6 DEF Scan, Visited, Counted

LEMMA NextScan == Inv /\ Scan /\ [Next]_vars => Scan'
  <1> SUFFICES ASSUME Inv, Scan, [Next]_vars PROVE Scan'
    OBVIOUS
  <1>1. CASE NoStatus \/ NoStat \/ End
    BY <1>1 DEF NoStatus, NoStat, End, GiveUp, Leave, Scan, Visited, Counted
  <1>2. ASSUME \/ Timer \/ (\E query \in Queries : Answer(query))
               \/ (\E p \in Pid : AnswerPid(p)) \/ AnswerHost \/ UNCHANGED vars
        PROVE  Scan'
    <2>1. UNCHANGED <<running, process_, listing, ps, processNum, threadsNum, lived, quiet>>
          /\ (pc' = pc \/ (pc = "idle" /\ pc' = "update"))
      BY <1>2 DEF Timer, Answer, AnswerPid, AnswerHost, Graph, vars, kernelVars, tableVars, scanVars, historyVars, scanHistory
    <2>2. Alive' = Alive /\ Known' = Known /\ ThreadsOf(Alive \ listing)' = ThreadsOf(Alive \ listing)
      BY <2>1 DEF Alive, Known, ThreadsOf, ThreadsIn
    <2> QED BY <2>1, <2>2 DEF Scan, Visited, Counted, Seen
  <1> QED BY <1>1, <1>2, MachineScan, BeginScan, ReadStatusScan, StatScan DEF Next, Update

LEMMA EndStep ==
  ASSUME Inv, Scan, End
  PROVE  /\ \A p \in lived : p \in Known /\ (Head(process_[p].mem) = rss[running[p]] \/ Len(process_[p].mem) = 1)
         /\ quiet => processNum_' = Cardinality(Alive) /\ threadsNum_' = ThreadsOf(Alive)
  <1>1. pc = "next" /\ listing = {} /\ processNum_' = processNum /\ threadsNum_' = threadsNum
    BY DEF End, Totals
  <1>2. Alive \ listing = Alive
    BY <1>1
  <1> QED BY <1>1, <1>2 DEF Scan, Visited, Counted, Seen

\* updateProcess, when it gets to its end, has missed no process that was there all the time,
\* and processNum_ and threadsNum_ are right if none came or went.
THEOREM ScanIsRightTheorem == Spec => ScanIsRight
  <1> DEFINE Right == End =>
        /\ \A p \in lived : p \in Known /\ (Head(process_[p].mem) = rss[running[p]] \/ Len(process_[p].mem) = 1)
        /\ quiet => processNum_' = Cardinality(Alive) /\ threadsNum_' = ThreadsOf(Alive)
  <1>1. Init => Scan
    BY DEF Init, Scan, Visited, Counted
  <1>2. Inv /\ Scan => Right
    BY EndStep
  <1> HIDE DEF Right
  <1>3. Spec => [][Right]_vars
    BY <1>1, <1>2, InitInv, NextInv, NextScan, PTL DEF Spec
  <1> QED BY <1>3 DEF ScanIsRight, Right
=============================================================================
