----------------------------- MODULE SystemInfo -----------------------------
(***************************************************************************)
(* procmon: SystemInfo, which samples /proc every two seconds, and         *)
(* Procmon::onRequest, which answers from what it has sampled.             *)
(*                                                                         *)
(* One thread runs both.  What is hard is /proc: processes start, run and  *)
(* exit while updateProcess reads one file after the other, a pid may come *)
(* back as another process, a file that cannot be read ends the scan, and  *)
(* a blank in the name of a command makes the line of stat unreadable.     *)
(*                                                                         *)
(* CPU time is counted in ticks, which are longs in stat and ints here.    *)
(* Doubles are exact: a rate is a fraction.  The values that are sampled   *)
(* of the host are left out.  Users have names: a user without one would   *)
(* make getpwuid return NULL, which nobody tests.                          *)
(*                                                                         *)
(* A definition marked "mutant" is part of no behaviour: it is a form that *)
(* a bug would give to the definition after it, and which the runs reject. *)
(***************************************************************************)
EXTENDS Integers, Sequences, FiniteSets, FiniteSetsExt

CONSTANTS
  Pid,          \* process ids
  Program,      \* what a process may run; stands for its command and its user
  threads, rss, \* of a program: Threads and VmRSS (0 if there is none)
  blanks,       \* programs whose command has a blank in its name
  half,         \* 2^31: an int lies between -half and half - 1
  AtStart,      \* what may run when it starts
  StartTicks,   \* what a process that was there before has used
  Garbage,      \* what a variable that has not been initialized may hold
  Jiffies,      \* what getCpuTime may return; 0 if it cannot read /proc/stat
  Scale,        \* 10000: rates are compared in such parts
  OutOfRange,   \* what a double converts to that is no int: -half on x86
  None,         \* no program; as a query, one for everything
  Kept,         \* samples kept: 512
  Shown,        \* processes shown: 20
  MaxChanges    \* bound: how often a process starts, runs for a tick or exits

Word == -half .. half - 1
int(x) == ((x + half) % (2 * half)) - half

ASSUME SystemInfoAssumption ==
  /\ Pid \subseteq Nat /\ IsFiniteSet(Pid)
  /\ None \notin Program
  /\ threads \in [Program -> Nat \ {0}] /\ rss \in [Program -> Nat]
  /\ blanks \subseteq Program /\ Garbage \subseteq Int
  /\ half \in Nat \ {0} /\ StartTicks \in Nat
  /\ AtStart \subseteq [Pid -> Program \cup {None}]
  /\ Jiffies \subseteq Word /\ 0 \in Jiffies
  /\ Scale \in Nat \ {0} /\ OutOfRange \in Word
  /\ Kept \in Nat \ {0} /\ Shown \in Nat \ {0} /\ MaxChanges \in Nat

VARIABLES
  running, utime, stime,  \* the kernel: program and CPU time of each process
  changes,
  process_, minProcessData_, processNum_, threadsNum_,
  cpuRate_, memRate_,   \* of the host
  listing, ps,          \* updateProcess: what readdir still has; what status has told
  processNum, threadsNum,
  shown, graph,         \* the answers to requests for /proc, and for /pid and /host
  pc,
  lived, quiet,         \* history: processes there since the scan began; none came or went
  sample                \* history: the last stat that could be parsed, and whether of this process

kernelVars == <<running, utime, stime, changes>>
tableVars == <<process_, minProcessData_>>
totalVars == <<processNum_, threadsNum_>>
hostVars == <<cpuRate_, memRate_>>
scanVars == <<listing, ps, processNum, threadsNum>>
answerVars == <<shown, graph>>
scanHistory == <<lived, quiet>>
historyVars == <<scanHistory, sample>>
vars == <<kernelVars, tableVars, totalVars, hostVars, scanVars, answerVars, pc, historyVars>>

NoProcess == [pid |-> 0, program |-> None]
NoGraph == [of |-> None, cpu |-> <<>>, mem |-> <<>>]
Alive == {p \in Pid : running[p] # None}

\* The constructor calls update.
Init ==
  /\ running \in AtStart /\ changes = 0
  /\ utime = [p \in Pid |-> StartTicks] /\ stime = [p \in Pid |-> StartTicks]
  /\ process_ = <<>> /\ minProcessData_ = <<>>
  /\ processNum_ = 0 /\ threadsNum_ = 0
  /\ cpuRate_ = <<>> /\ memRate_ = <<>>
  /\ listing = {} /\ ps = NoProcess /\ processNum = 0 /\ threadsNum = 0
  /\ shown = <<>> /\ graph = NoGraph
  /\ pc = "update"
  /\ lived = {} /\ quiet = FALSE /\ sample = <<>>
-----------------------------------------------------------------------------
(***************************************************************************)
(* The processes of the machine.                                           *)
(***************************************************************************)
Change == changes < MaxChanges /\ changes' = changes + 1

Fork(p, program) ==
  /\ Change /\ p \notin Alive
  /\ running' = [running EXCEPT ![p] = program]
  /\ utime' = [utime EXCEPT ![p] = 0] /\ stime' = [stime EXCEPT ![p] = 0]
  /\ quiet' = FALSE
  /\ UNCHANGED <<tableVars, totalVars, hostVars, scanVars, answerVars, pc, lived, sample>>

Exit(p) ==
  /\ Change /\ p \in Alive
  /\ running' = [running EXCEPT ![p] = None]
  /\ utime' = [utime EXCEPT ![p] = 0] /\ stime' = [stime EXCEPT ![p] = 0]
  /\ lived' = lived \ {p} /\ quiet' = FALSE
  /\ sample' = [q \in DOMAIN sample |-> [sample[q] EXCEPT !.same = @ /\ q # p]]
  /\ UNCHANGED <<tableVars, totalVars, hostVars, scanVars, answerVars, pc>>

Run(p) ==
  /\ Change /\ p \in Alive
  /\ \/ utime' = [utime EXCEPT ![p] = @ + 1] /\ UNCHANGED stime
     \/ stime' = [stime EXCEPT ![p] = @ + 1] /\ UNCHANGED utime
  /\ UNCHANGED <<running, tableVars, totalVars, hostVars, scanVars, answerVars, pc, historyVars>>
-----------------------------------------------------------------------------
OfHost == 0  \* for any value sampled of the host

\* push_front, and pop_back when there are more than n.
Pushed(list, x, n) == SubSeq(<<x>> \o list, 1, IF Len(list) < n THEN Len(list) + 1 ELSE n)

(***************************************************************************)
(* update: updateMem and updateCpu, whose lists get one element less than  *)
(* those of a process, or none if their file cannot be read, and the start *)
(* of updateProcess.                                                       *)
(***************************************************************************)
Measured(list) == {list, Pushed(list, OfHost, Kept - 1)}

Begin ==
  /\ pc = "update"
  /\ memRate_' \in Measured(memRate_) /\ cpuRate_' \in Measured(cpuRate_)
  /\ listing' = Alive  \* opendir; a buffer of readdir holds them all
  /\ processNum' = 0 /\ threadsNum' = 0
  /\ pc' = "next"
  /\ lived' = Alive /\ quiet' = TRUE
  /\ UNCHANGED <<kernelVars, tableVars, totalVars, ps, answerVars, sample>>

\* readdir: in the order of the pids.
First == Min(listing)

CountKnown(p) ==  \* mutant: continue before it is counted
  IF p.pid \in DOMAIN process_
  THEN processNum' = processNum + 1 /\ threadsNum' = threadsNum + threads[p.program]
  ELSE UNCHANGED <<processNum, threadsNum>>
Count(p) == processNum' = processNum + 1 /\ threadsNum' = threadsNum + threads[p.program]

\* The status of the next process.
ReadStatus ==
  /\ pc = "next" /\ listing # {}
  /\ First \in Alive
  /\ ps' = [pid |-> First, program |-> running[First]]
  /\ Count(ps')
  /\ listing' = listing \ {First}
  /\ pc' = "stat"
  /\ UNCHANGED <<kernelVars, tableVars, totalVars, hostVars, answerVars, historyVars>>

\* The locals of updateProcess, and what history says of the scan, go with its end.
Leave ==
  /\ listing' = {} /\ ps' = NoProcess /\ processNum' = 0 /\ threadsNum' = 0
  /\ lived' = {} /\ quiet' = FALSE
  /\ pc' = "idle"

\* A file cannot be read, because its process has exited or for want of a descriptor: the
\* scan ends as it is.
GiveUp ==
  /\ Leave
  /\ UNCHANGED <<kernelVars, tableVars, totalVars, hostVars, answerVars, sample>>

NoStatus == pc = "next" /\ listing # {} /\ GiveUp
NoStat == pc = "stat" /\ GiveUp

Known == DOMAIN process_

\* The CPU times that StatData::parse leaves.  It takes a word for the command, so that
\* after a blank a letter stands where ppid should be, and nothing more is read.
parse(p) ==
  IF running[p] \in blanks THEN [utime : Garbage, stime : Garbage]
  ELSE {[utime |-> utime[p], stime |-> stime[p]]}

Forget(p) == [q \in DOMAIN sample \ {p} |-> sample[q]]
Remember(p) ==
  [q \in DOMAIN sample \cup {p} |->
     IF q = p THEN [utime |-> utime[p], stime |-> stime[p], same |-> TRUE] ELSE sample[q]]

\* A turn of the loop is done, and its locals are gone.
Stored ==
  /\ sample' = IF running[ps.pid] \in blanks THEN Forget(ps.pid) ELSE Remember(ps.pid)
  /\ ps' = NoProcess
  /\ pc' = "next"
  /\ UNCHANGED <<kernelVars, totalVars, hostVars, listing, processNum, threadsNum, answerVars, scanHistory>>

Entry(program, mem, cpu, stat, ctime) ==
  [program |-> program, mem |-> mem, cpu |-> cpu, lastUtime_ |-> int(stat.utime),
   lastStime_ |-> int(stat.stime), lastCtime_ |-> ctime]

\* A process seen for the first time has no rate yet.
NoRate == [ticks |-> 0, per |-> 1]

InsertMem(p) ==  \* mutant: the memory there is
  minProcessData_' = [q \in DOMAIN minProcessData_ \cup {p} |->
    IF q = p THEN [program |-> ps.program, mem |-> rss[ps.program], cpu |-> NoRate] ELSE minProcessData_[q]]
insertMin(p) ==
  minProcessData_' = [q \in DOMAIN minProcessData_ \cup {p} |->
    IF q = p THEN [program |-> ps.program, mem |-> 0, cpu |-> NoRate] ELSE minProcessData_[q]]

FirstStat ==
  /\ pc = "stat" /\ ps.pid \in Alive
  /\ ps.pid \notin Known
  /\ \E stat \in parse(ps.pid), ctime \in Jiffies :
       process_' = [q \in Known \cup {ps.pid} |->
         IF q = ps.pid THEN Entry(ps.program, <<0>>, <<NoRate>>, stat, ctime) ELSE process_[q]]
  /\ insertMin(ps.pid)
  /\ Stored

\* A pid that has come back may have used less CPU time than before.
Uncast(new, last) == IF new < last THEN 0 ELSE new - last  \* mutant: the difference is a long
TicksUsed(new, last) == IF int(new - last) < 0 THEN 0 ELSE int(new - last)

\* The sum of two ints that overflows is undefined: builds let it wrap, or widen it before
\* they convert it to a double.
Sums(u, s) == {u + s, int(u + s)}

Rates(stat, ctime, old) ==
  [ticks : Sums(TicksUsed(stat.utime, old.lastUtime_), TicksUsed(stat.stime, old.lastStime_)),
   per : {IF int(ctime - old.lastCtime_) < 1 THEN 1 ELSE int(ctime - old.lastCtime_)}]

\* The entry keeps its program, also if the pid has come back as another one.
StatAgain ==
  /\ pc = "stat" /\ ps.pid \in Alive
  /\ ps.pid \in Known
  /\ LET old == process_[ps.pid]  mem == rss[ps.program] IN
     \E stat \in parse(ps.pid), ctime \in Jiffies : \E rate \in Rates(stat, ctime, old) :
       /\ process_' = [process_ EXCEPT ![ps.pid] =
            Entry(old.program, Pushed(old.mem, mem, Kept), Pushed(old.cpu, rate, Kept), stat, ctime)]
       /\ minProcessData_' = [minProcessData_ EXCEPT ![ps.pid] =
            [program |-> @.program, mem |-> mem, cpu |-> rate]]
  /\ Stored

NoTotals == UNCHANGED totalVars  \* mutant
Totals == processNum_' = processNum /\ threadsNum_' = threadsNum

\* The end of updateProcess.
End ==
  /\ pc = "next" /\ listing = {}
  /\ Totals
  /\ Leave
  /\ UNCHANGED <<kernelVars, tableVars, hostVars, answerVars, sample>>

\* runEvery calls update again.
Timer ==
  /\ pc = "idle"
  /\ shown' = <<>> /\ graph' = NoGraph  \* the answers have been sent
  /\ pc' = "update"
  /\ UNCHANGED <<kernelVars, tableVars, totalVars, hostVars, scanVars, historyVars>>
-----------------------------------------------------------------------------
(***************************************************************************)
(* onRequest, when asked for /proc: those that the query selects, by rate  *)
(* in parts of Scale and then by memory, at most Shown of them.            *)
(***************************************************************************)
Truncated(a, b) == IF a >= 0 THEN a \div b ELSE -((-a) \div b)
score(rate) ==
  LET x == Truncated(rate.ticks * Scale, rate.per) IN IF x \in Word THEN x ELSE OutOfRange

OnlyByCpu(p, q) == score(p.cpu) > score(q.cpu)  \* mutant
before(p, q) ==
  \/ score(p.cpu) > score(q.cpu)
  \/ score(p.cpu) = score(q.cpu) /\ p.mem > q.mem

Queries == {None} \cup Pid \cup Program

\* A query selects by pid, or by the name of the command or of the user.
Selected(query) ==
  {p \in DOMAIN minProcessData_ : query = None \/ query = p \/ query = minProcessData_[p].program}

\* std::sort leaves the order of equals open.
Sorted(S) ==
  {s \in [1 .. Cardinality(S) -> S] :
     \A i, j \in DOMAIN s : i < j => s[i] # s[j] /\ ~before(minProcessData_[s[j]], minProcessData_[s[i]])}

AllShown(s) == s  \* mutant
Cut(s) == SubSeq(s, 1, IF Len(s) < Shown THEN Len(s) ELSE Shown)

Answer(query) ==
  /\ pc = "idle"
  /\ \E s \in Sorted(Selected(query)) : shown' = Cut(s)
  /\ graph' = NoGraph  \* an earlier answer has been sent
  /\ UNCHANGED <<kernelVars, tableVars, totalVars, hostVars, scanVars, pc, historyVars>>

\* /pid, where there may be no such process, and /host: the lists of samples, after the
\* host's share of CPU and its memory.
Graph(of, cpu, mem) ==
  /\ pc = "idle"
  /\ graph' = [of |-> of, cpu |-> <<OfHost>> \o cpu, mem |-> <<OfHost>> \o mem]
  /\ shown' = <<>>
  /\ UNCHANGED <<kernelVars, tableVars, totalVars, hostVars, scanVars, pc, historyVars>>

AnswerPid(p) ==
  IF p \in Known THEN Graph(p, process_[p].cpu, process_[p].mem) ELSE Graph(p, <<>>, <<>>)
AnswerHost == Graph(None, cpuRate_, memRate_)
-----------------------------------------------------------------------------
Update ==
  \/ Begin \/ ReadStatus \/ NoStatus \/ NoStat \/ FirstStat \/ StatAgain \/ End \/ Timer

Next ==
  \/ \E p \in Pid : Exit(p) \/ Run(p) \/ \E program \in Program : Fork(p, program)
  \/ Update
  \/ \E query \in Queries : Answer(query)
  \/ \E p \in Pid : AnswerPid(p)
  \/ AnswerHost

Spec == Init /\ [][Next]_vars

\* The timer is served and the thread runs.
FairSpec == Spec /\ WF_vars(Update)
-----------------------------------------------------------------------------
Rate == [ticks : -half .. 2 * half - 2, per : 1 .. half]
Process ==
  [program : Program, mem : Seq(Nat), cpu : Seq(Rate),
   lastUtime_ : Word, lastStime_ : Word, lastCtime_ : Word]
MinProcessData == [program : Program, mem : Nat, cpu : Rate]

TypeOK ==
  /\ running \in [Pid -> Program \cup {None}] /\ changes \in 0 .. MaxChanges
  /\ utime \in [Pid -> Nat] /\ stime \in [Pid -> Nat]
  /\ Known \subseteq Pid /\ DOMAIN minProcessData_ \subseteq Pid
  /\ \A p \in Known : process_[p] \in Process
  /\ \A p \in DOMAIN minProcessData_ : minProcessData_[p] \in MinProcessData
  /\ processNum_ \in Nat /\ threadsNum_ \in Nat /\ processNum \in Nat /\ threadsNum \in Nat
  /\ listing \subseteq Pid /\ lived \subseteq Pid /\ quiet \in BOOLEAN
  /\ DOMAIN sample \subseteq Known
  /\ \A p \in DOMAIN sample : sample[p] \in [utime : Nat, stime : Nat, same : BOOLEAN]
  /\ pc \in {"update", "next", "stat", "idle"}
  /\ pc = "stat" => ps \in [pid : Pid, program : Program]

\* The two tables, from which /proc and /pid are answered, tell the same of a process at any
\* moment, although pids come back and stat may be unreadable; the two lists that an answer
\* to /pid draws side by side have the same length, and every list is bounded.  (The lists
\* of /host part when one of its two files cannot be read.)
TablesAgree ==
  /\ DOMAIN minProcessData_ = Known
  /\ \A p \in Known :
       /\ Len(process_[p].cpu) = Len(process_[p].mem) /\ Len(process_[p].cpu) \in 1 .. Kept
       /\ minProcessData_[p] = [program |-> process_[p].program, mem |-> Head(process_[p].mem),
                                cpu |-> Head(process_[p].cpu)]
  /\ graph.of # None => Len(graph.cpu) = Len(graph.mem)
  /\ Len(graph.cpu) <= Kept + 1 /\ Len(graph.mem) <= Kept + 1

\* Where the stat before could be parsed, the rate of a process is that of the CPU time it
\* has used since then, also when its counters have passed what an int holds.  If the pid
\* has come back and the counters are ints, its rate is not negative and counts no more
\* than what the new process has used.
RatesAreRight ==
  [][LET p == ps.pid  last == sample[p]  ticks == Head(process_'[p].cpu).ticks
         total == utime[p] + stime[p]  used == total - last.utime - last.stime
     IN StatAgain /\ p \in DOMAIN sample /\ running[p] \notin blanks =>
          /\ last.same /\ used < half => ticks = used
          /\ ~last.same /\ last.utime < half /\ last.stime < half /\ total < half => ticks \in 0 .. total]_vars

\* How many threads a set of processes has.
ThreadsIn(S) == UNION {{p} \X (1 .. threads[running[p]]) : p \in S}
ThreadsOf(S) == Cardinality(ThreadsIn(S))

\* A scan that gets to its end has each process that was there all the time in the tables,
\* with the memory of the process that the pid is now (or none, the first time); if nothing
\* came or went meanwhile, its totals are those of the machine.
ScanIsRight ==
  [][End => /\ \A p \in lived : p \in Known /\ (Head(process_[p].mem) = rss[running[p]] \/ Len(process_[p].mem) = 1)
            /\ quiet => processNum_' = Cardinality(Alive) /\ threadsNum_' = ThreadsOf(Alive)]_vars

\* Rates whose parts of Scale fit an int; one is above another, or above it by more than
\* one such part.
Fits(r) == 0 <= r.ticks /\ r.ticks * Scale < half * r.per
Above(r, q) == r.ticks * q.per > q.ticks * r.per
FarAbove(r, q) == r.ticks * Scale * q.per > (q.ticks * Scale + q.per) * r.per

\* An answer to /proc shows no more than 20 of those selected, and leaves out none whose
\* rate is higher than one that it shows by more than 1/10000, nor one that is as busy or
\* busier at all and bigger.
TopShown ==
  [][\A query \in Queries : Answer(query) =>
       /\ Len(shown') <= Shown
       /\ \A i \in DOMAIN shown' : shown'[i] \in Selected(query)
       /\ \A p \in Selected(query) \ {shown'[i] : i \in DOMAIN shown'} :
          /\ Len(shown') = Shown
          /\ \A i \in DOMAIN shown' :
               LET q == minProcessData_[shown'[i]]  m == minProcessData_[p] IN
               Fits(q.cpu) /\ Fits(m.cpu) =>
                 ~FarAbove(m.cpu, q.cpu) /\ (Above(q.cpu, m.cpu) \/ q.mem >= m.mem)]_vars

\* The scan ends although the process is there.
Starved == (NoStatus /\ First \in Alive) \/ (NoStat /\ ps.pid \in Alive)

\* Once processes have stopped coming and going, and their files can be read, the totals
\* come to be right and stay so.
TotalsSettle ==
  <>[][running' = running /\ ~Starved]_vars =>
    <>[](processNum_ = Cardinality(Alive) /\ threadsNum_ = ThreadsOf(Alive))
=============================================================================
