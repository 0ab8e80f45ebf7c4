# TLA+ models of the dummyload network library

The repository is a small network library in the manner of muduo and three programs built on it. An event loop
around `epoll` runs timers, accepts TCP connections and reads and writes them; `base/` adds mutexes, condition
variables, threads and a thread pool; `http/` is an HTTP server; `examples/dummyload` burns a chosen share of CPU
time under control of an HTTP request, `examples/procmon` draws graphs of `/proc`, `examples/simple` echoes.

This directory holds models of the parts where the order of events matters, configurations that check them with TLC on
small instances, and proofs, checked by TLAPS, of what holds for every instance. Everything is written from the code;
where a doc, comment or assert promises something the code does not do, a run shows it (section 5).

    tlc -config TimerQueue.cfg MCTimerQueue      # check a run (PROJECT.json lists module and cfg of each)
    tlapm TimerQueueProofs.tla                          # check the proofs of a module

## 1. Inventory

**Event loop and timers** (`src/EventLoop`, `TimerQueue`, `Timer`, `Timestamp`, a timerfd). State: `timers_`, a set of
(expiration, `Timer*`) pairs; the vector of timers that `handleRead` is running; `cancelingTimers_`; the heap of
`Timer` objects; the timerfd. Operations: `runAt`, `runAfter`, `runEvery`, `cancel`, called by user code from any
callback; `handleRead`, called by the loop. Hard: user code runs in the middle of `handleRead`; names of timers
are raw pointers, and addresses are used again; expirations are wall-clock times while the timerfd runs on the
monotonic clock; the timerfd may be set again between epoll's report and the read. Correct means: every `Timer` has
one owner; what is cancelled stays cancelled; nothing runs early; nothing is forgotten.

**TCP server side** (`EPoller`, `Channel`, `Acceptor`, `TcpServer`, `TcpConnection`). State: the map of connections,
`TcpConnection::state_`, `Channel::state_` and `events_`, the kernel's epoll registrations, the rest of the batch that
`epoll_wait` returned, reference counts. Operations: the handlers of a channel (read, write, close), accept, and from
user code `send`, `shutdown` and dropping a `shared_ptr`. Interaction: the loop calls `Channel::handleEvent`, which
calls `TcpConnection`, which calls user code, which calls `TcpConnection` again. Hard: that re-entrance; raw `Channel*`
in a batch whose earlier handlers may destroy connections; the destruction of a connection from inside its own
handler. Correct means: epoll and the channels agree; no dangling pointer is dispatched; up and down are reported once
each, in order; a connection whose peer is gone leaves the map.

**One connection's output** (`TcpConnection::send`, `handleWrite`, `shutdown`, `handleClose`). State: `outputBuffer_`,
whether EPOLLOUT is wanted, the socket's send buffer. Hard: messages are written in pieces, with other calls between
the pieces. Correct means: the peer reads what `send` took, in order, and after `shutdown` the stream ends behind
the last byte.

**Buffer.** State: a vector and two indexes. Operations: `append`, `readFd`, `prepend`, `retrieve`, `unwrite`, and
those of integers in network order; the private `makeSpace` moves the readable bytes or grows the vector. Hard: index
arithmetic over long sequences of calls. Correct means: it is a queue of bytes; its asserts hold; it grows only when
it must; integers come out as they were put in.

**Thread pool** (`base/ThreadPool`, `Condition`, `Mutex`, `Thread`). State: `queue_`, `running_`, `threads_`, the threads
that wait on `notEmpty_` and `notFull_`. Operations: `start`, `stop`, `run`, and `take` in each thread. Hard: one
notification for each task, spurious wakeups, a bounded queue, `stop` at any moment, tasks that call `run`. Correct
means: FIFO, at most once, bounded, no lost wakeup, `stop` returns.

**dummyload** (`examples/dummyload/dummyload.cpp`). State: `g_percent`, `g_busy`, `g_done`, the threads that wait on
`g_cond`, the locals of `fixed` and `load`, and the jiffies that `getCpuTime` reads. Three kinds of threads: those
that burn, the one that controls, the HTTP loop. Correct means: exactly the chosen share of the slots is busy, spread
evenly; no thread sleeps through a busy slot; the load that is measured comes to rest at the goal; the program ends.

**HTTP server** (`http/`). State: `HttpContext::state_` and the request, one context for each message, and the
connection's input buffer; what the client still sends. Operations: `onMessage`, `parseRequest`, the user's callback,
`onRequest`. Hard: requests cut across reads, or several in one; messages that go on arriving behind an answer that has
shut the connection down. Correct means: answers match requests, one for one and in order; the client can tell where an
answer ends; who waits for answers gets them and does not bring the server down.

**TCP client side** (`Connector`, `TcpClient`). State: `state_`, the channel of the connect under way, `connection_`; the
descriptors, which the kernel gives out again. Operations: `start`, `handleWrite`, `handleError`, `newConnection`,
`removeConnection`. Hard: EPOLLERR and EPOLLOUT in one event, two channels that use one descriptor in turn. Correct
means: every descriptor is closed by exactly one owner, epoll knows what waits, only accepted connections are
reported up, and each start comes to an end that its caller notices.

**procmon** (`examples/procmon/SystemInfo`, `main`). State: `process_`, with the samples of each pid, `minProcessData_`,
from which lists are answered, and the totals. Operations: `updateProcess`, every two seconds, and `onRequest`. Hard:
processes start, run and exit while the files of `/proc` are read one by one; a file that cannot be read ends the scan; pids
come back; `stat` cannot always be parsed; CPU times are longs that are stored and subtracted as ints, and rates are
compared in parts of 1/10000. Correct means: the tables agree, rates are right where `stat` could be parsed, a whole scan
is right, answers show the busiest, and the totals come to be right.

**The rest**: `Imagepng` (drawing), `ReadSmallFile` (pure input), `jsonxx` (vendored), `InetAddress`, `Atomic`,
`CurrentThread` (thin wrappers), the `simple` and `http` examples (callbacks that print and echo), `build/`, `bin/`,
`lib/`, CMake files.

The hazards each part is exposed to, with their lines and the properties that would catch them, are in `PROJECT.json`.

## 2. Modules

| module | stands for | implements |
|---|---|---|
| `TimerService` | what users of timers are promised | |
| `TimerQueue` | `TimerQueue`, `Timer`, the loop around `handleRead`, the timerfd and both clocks | `TimerService` |
| `TimerQueueProofs` | proofs | |
| `TaskQueue` | what callers of `ThreadPool::run` are promised | |
| `ThreadPool` | `ThreadPool`, its condition variables, its threads and its callers | `TaskQueue` |
| `ThreadPoolProofs` | proofs | |
| `TcpServer` | loop, `EPoller`, `Channel`, `Acceptor`, `TcpServer`, the life of `TcpConnection` | |
| `TcpServerProofs` | proofs | |
| `TcpStream` | the bytes one `TcpConnection` sends, the socket's send buffer and the peer | |
| `TcpStreamProofs` | proofs | |
| `Connector` | `Connector`, `TcpClient`, and what they use of `TcpConnection`, `Channel`, `EPoller`, `Socket` | |
| `ConnectorProofs` | proofs | |
| `ByteQueue` | what users of `Buffer` are promised | |
| `Buffer` | `Buffer`, `Buffer::readFd` | `ByteQueue` |
| `BufferNumbers` | `Buffer` with `appendInt8` to `prependInt64`, `peekInt8` to `readInt64` | |
| `Http` | one connection of `HttpServer`: `HttpContext`, `HttpRequest`, `HttpResponse`, its client | |
| `InputProofs` | proofs about `Buffer`, `BufferNumbers` and `Http` | |
| `DummyLoad` | `threadFunc`, `load`, `fixed`, `cosine`, `sawtooth`, `getCpuTime`, `setGlobalPercent`, `dummyload` | |
| `MCDummyLoad` | `DummyLoad` closed by the machine it loads, whose load `getCpuTime` measures, rightly or not | |
| `DummyLoadProofs` | proofs | |
| `SystemInfo` | `SystemInfo`, `Procmon::onRequest`, and the processes of the machine | |
| `SystemInfoProofs` | proofs | |
| `MC...` | values of constants that a cfg cannot express; history variables | |

Conventions. Variables and actions have the names the code uses where TLA+ allows it (`AppendData` is
`Buffer::append`: `Append` is taken). A definition marked *mutant* is part of no behaviour: it is how a plausible bug
would write the definition after it, kept so that it can be substituted to see that the property notices.

How actions correspond to code:

- *One thread* (`TimerQueue`, `TcpServer`, `TcpStream`, `Connector`, `Http`). A handler is one action up to the point
  where it calls user code, and another from where user code returns; `pc` says whose code is on the stack. User code
  is a state in which any API action may happen any number of times. Everything a handler does before and after a
  callback (a trailing `resetTimerfd`, the end of a `shared_ptr`) is inside those actions.
- *Several threads* (`ThreadPool`, `DummyLoad`). A critical section is one action up to a `wait` in it; what is read
  without the lock is an action of its own. A condition variable is the set of threads waiting on it: `notify` takes one
  element away, `notifyAll` empties it, a spurious wakeup takes one away at any time.
- *One thread against the machine* (`SystemInfo`). Each file of a process that is read is an action, with everything done
  until the next one is opened: what can change in between is what the other processes do. Any file may be unreadable
  at any time: `updateMem` and `updateCpu` then leave their list as it is, `getCpuTime` returns 0, `updateProcess` ends.
  Ints have a width (`half` is 2^31): casts wrap, the sum of `userTime` and `sysTime` may wrap or be widened, as builds
  do, and what `sscanf` leaves unset is any value of `Garbage`, one for each variable. A rate is a fraction, `score` is its
  `(int)(cpu * 10000)`.
- *Text* (`Http`). Words, blanks, colons, CR and LF are tokens; a request is any method, path, query and version, any
  number of headers, and a body as long as they say. Each turn of `parseRequest`'s loop is an action. A read
  brings any number of tokens; a token is never cut.
- *Objects* (`Buffer`). The functions are operators from an object to an object, as they call one another in the code;
  an action is a call of a public one. `failed` records that an assert inside the class did not hold.

Modelled environment. The kernel: time passes; the wall clock may be set; a timerfd expires; `epoll_wait` reports any
order; a write takes any part of what fits; a peer sends, closes or resets at any moment; a reset is reported once;
writing after it raises SIGPIPE (`killed`); `Socket::shutdownWrite` on a connection that is gone aborts the process
(`aborted`), as its error handling does. Callers keep to the rules without which the code promises nothing, and each rule
is stated in the module: a caller forgets a one-shot timer when its callback has returned
(`TimerQueue!CallbackReturns`); user code does not `send` on a connection that it has been told is down (`TcpServer`);
`start` and `stop` of the pool are called once each; Buffer's callers keep to the asserts on its arguments;
`TcpClient::start` is called before the loop or from the callback that tells of a connection's end, never while a
connect is under way (`Connector!MayStart`).

`TcpServer` and `TcpStream` share `TcpConnection`: the first has its registration, callbacks and lifetime with output
reduced to "there is some", the second its bytes with the loop reduced to "EPOLLOUT is handled some time"; `Http` puts
the parser and the answers above a connection whose writing is done at once or later. `TcpServer`
contains the loop, the poller, the channels, the acceptor and the server, because the hazards are in how these call one
another.

## 3. Runs

| run | instance | states | shows |
|---|---|---|---|
| `timer` | two addresses, offsets -1, 0 and 2, interval 1, three instants, two clock skews, fairness | 575,192 | the wall clock set at any moment: `OwnedOnce`, `NoDanglingHandle`, `ArmedWhilePending`, `TimerQueue` implements `TimerService`; until it is set: the timerfd is armed in time and nothing is early (`Punctual`); unless somebody asks for the past: `DueIsServed` |
| `timer_read_fails` | clock not set | | finding 1 |
| `pool` | two threads, two producers, five tasks, queue of two, tasks call `run`, fairness | 126,183 | `NoLostWakeup`, implements `TaskQueue`, `AcceptedRuns`, `CallerReturns`, `StopReturns` |
| `server` | two connections and the acceptor, fairness | 576,765 | `EpollAgrees`, `NoStaleChannel`, `CallbacksInOrder`, `OnlyClosedDestroyed`, `ClosedIsRemoved` |
| `server_self_destroy` | one connection | | finding 2 |
| `stream` | messages of 1 and 3 bytes, seven bytes in all, send buffer of 2, fairness | 4,435 | `StreamIntact`, `ShutAfterOutput`, `AcceptedArrives`, `ShutdownEnds` |
| `stream_dropped` | as `stream` | | finding 3 |
| `connector` | three starts, fairness | 5,052 | `UpIsConnected`, `OneOwner`, `Registrations`, `StartResolves` |
| `http` | two of five requests: with a query, with a body, closing, of HTTP/1.0 kept alive, of an unknown method; fairness | 109,671 | `RightAnswers`, `NotKilled`, `CloseAnnounced`, `Answered` |
| `buffer` | two values of a byte, 2 bytes kept free, initial size 1, `extrabuf` of 2, at most 3 readable, integers of 1 and 2 bytes | 4,760 | the asserts hold, integers are kept (`NumbersKept`), `Buffer` implements `ByteQueue` |
| `dummyload` | two burning threads, ten slots, four requests, a machine with and without a load of its own, fairness | 83,560 | `EvenlySpread`, `NobodySleepsWhenBusy`, `ThreadsEnd`, and, however often the load was measured wrong before, the control comes to rest at the goal (`Settles`) |
| `systeminfo` | two pids, two programs, two changes of the machine, ints of 3 bits, `Scale` 1, two samples kept, one process shown, fairness | 971,508 | `TablesAgree`, `ScanIsRight`, `RatesAreRight`, `TopShown`, `TotalsSettle` |

Why the bounds are enough. *Timers*: every hazard is between two timers (one cancels the other, or is allocated where
the other was) or between a timer and the timerfd; equal expirations are ordered by address, so addresses are numbers
and no symmetry is used. Time stops at `MaxTime`; an armed timerfd expires then all the same, so that nothing is stuck
for want of a tick. The proofs lift the safety properties to any number of timers and times. *Pool*: two threads and two
producers are what it takes for a wakeup to be stolen; five tasks over a queue of two make it full and empty again in
the same behaviour. *Server*: two connections and the acceptor give every order of three handlers in a batch, and one
connection that another one's callback can touch. Each connects once: nothing a new connection does depends on one that
is gone. *Stream*: 3 is more than the send buffer, 1 is less, and seven bytes fill it, leave output behind and send
again behind that. *Connector*: a descriptor is used by the second start that the first has given up, and by the third
when user code still keeps the second's. *Http*: what an answer depends on is its own request and what is left of the
one before it. *Buffer*: three readable bytes fit, wrap past the initial size, use the bytes kept free and pass through
`extrabuf`. *dummyload*: ten slots instead of a hundred; the arithmetic is the same and is proved for every number;
jiffies are counted modulo 64, where they wrap. *systeminfo*: a pid exits and comes back, or starts and runs, between
any two files of a scan; with two pids one of them is read before and one after the change, and the one that stays gives
the other something to be compared with. An int holds -4 to 3 and a process that was there at the start has used 3 ticks
of each kind: one more and what is stored has wrapped; `Garbage` (6) is no int, either. Jiffies of 0 and 2 give rates
with denominators 1 and 2, of which some are equal in whole parts (`Scale`) and some are not. One sample has no rate,
the second one has, and two are kept.

Most cfgs say `CHECK_DEADLOCK FALSE` because the bounded system may stop: `poll` blocks when no descriptor is ready, all
tasks are done, every byte allowed has been given, the program has ended. "Somebody must move" is stated where it matters,
as liveness.

Fairness, and why the code justifies it:

- `TimerQueue`: time passes, an armed timerfd expires (the kernel), the loop's thread runs and callbacks return. Calls of
  the API are never assumed. `DueIsServed` holds only where nobody calls `runAt` with a time in the past (`wasPast`):
  each such call sets the timerfd again before it has expired, and whoever goes on for ever starves the loop.
- `ThreadPool`: each thread that can take a step takes one in the end; nobody has to call `run` or `stop`. Mutexes are not
  modelled as fair: `run` lets a late caller pass one that was woken, so `CallerReturns` needs the other callers to
  stop, which a finite set of tasks makes them do. `AcceptedRuns` and `CallerReturns` hold until `stop`: it drops what
  is queued, and it does not notify `notFull_`. Tasks that block in `run` on a full queue can occupy every thread, and
  nothing in the code prevents that: the liveness properties except this state (`Jammed`), and `StopReturns` a task
  that waits in `run`, which `stop` does not wake.
- `TcpServer`: the loop runs and callbacks return.
- `TcpStream`: EPOLLOUT is handled, callbacks return, and the peer goes on reading what there is; a peer that closes or a
  SIGPIPE ends the promise.
- `Connector`: the loop runs, callbacks return, and the kernel answers a connect or gives it up.
- `Http`: the loop runs and what waits to be written is written. Nothing is assumed of the client: a request counts
  when it has been sent.
- `DummyLoad`: threads that can run do, and `busy` returns.
- `DummyLoad` closed (`MCDummyLoad`): nothing is assumed of requests and measurements. `Settles` says, in the property,
  that from some moment on `g_percent` is left alone and measurements are right; any number may be wrong before.
- `SystemInfo`: the timer is served and the thread runs. `TotalsSettle` assumes, in the property, that from some moment on
  processes do not come and go, and that the files of those that are there can be read.

Exceptions that are part of the properties. `ClosedIsRemoved` excepts a process that was ended by SIGPIPE (nothing ignores
it, and `HttpServer` answers requests that come after a response with which it has shut the connection down), by
`Socket::shutdownWrite`'s abort (the peer may reset between the last event and the call), or by the use of a destroyed
`Channel`. `ShutAfterOutput` excepts a `writeCompleteCallback_` that itself sends and shuts down (`chatty`):
`handleWrite` looks at `state_` after that callback and then shuts the socket down behind new output. The properties of
`Http` except a request that a read has ended inside of, behind its first line (`cut`): `onMessage` parses each message
with a new `HttpContext`, so that the rest of the request is taken for another one and costs a 400, or, if what is missing
is a part of the body, `parseRequest` does not return. A client that sends its requests without waiting
(`pipelines`) may find that an answer waits for more input, as one message is answered once, or that one behind a closing
answer raises SIGPIPE. A 400 of `onMessage` has neither `Content-Length` nor `Connection: close`: the stream ends with it,
which is all that tells (`CloseAnnounced`).

`RatesAreRight` says nothing of the rate right after a sample whose `stat` could not be parsed, nor of one whose
difference does not fit an int: `userTime + sysTime` may then overflow, and the rate be negative. `TopShown` says what
`(int)(cpu * 10000)` keeps of an order by rate and memory: a process left out may be busier than one shown by at most a
10000th, and is then not bigger. Rates of which 10000 parts do not fit an int are excepted: what they convert to is
undefined.

## 4. Theorems

Checked by `tlapm` for every value of the constants that satisfies the modules' assumptions (addresses are naturals,
intervals positive, timestamps valid; a pool of at least one thread, finitely many callers; at least one slot; a byte to
fill with, and for integers finitely many, which are digits; messages and send buffers that are not empty; finitely many
clients; at least one sample kept, ints of any width, anything in what is not initialized; requests as their senders
mean them, `Http!RequestType`). The assumptions are named `...Assumption`, and TLC evaluates them on every run. A
`TypeOK` that is proved is in no cfg.

**`TimerQueueProofs`**: `TypeCorrect`, `OwnedOnceTheorem`, `NoDanglingHandleTheorem`, `CancelledTheorem`,
`ArmedTheorem`, `PunctualTheorem`, `ImplementsTheorem` (the queue refines `TimerService`). None of these is inductive
by itself. The invariant `Safe` adds: outside `handleRead` there is no batch and `callingExpiredTimers_` is false,
within it the flag is true (`BatchOK`: without it `cancel` could forget to note a timer of the batch); the keys in
`timers_` are valid times (`KeysValid`: without it `reset` would not arm the timerfd); a timer of the batch that
repeats is in `handles` or noted as cancelled (`BatchHandles`: what makes the restart in `reset` safe). One lemma for
each action shows that it keeps `Safe`, and refinement follows from the same lemmas with `Poll`, `Tick` and the like
as stuttering. `PunctualTheorem` is about `MCSpec`, which is `Spec` with a variable that remembers whether the wall
clock has been set. Its invariant, `Prompt`, adds that what `handleRead` has collected is due and stays so; the
arithmetic is in one lemma, `ResetInTime`: a timerfd set for a timer expires when that timer is due, or `MinDelay`
from now if that is later, and so in time for every later timer.

**`ThreadPoolProofs`**: `TypeCorrect`, `BoundedTheorem` (the queue never exceeds its bound), `WakeupTheorem` (from
`TakerTheorem` and `CallerTheorem`), `ImplementsTheorem`. The wakeup properties are counts: *while somebody waits,
there are at least as many threads on their way as tasks* (or free places). A `Push` adds a task and, if it notifies,
a thread on its way; a `TakeTask` takes one of each away; a wakeup only adds. With the types (and `StartedOK`: which
threads exist while `start` is under way) the counts are inductive, over finite sets of any size. Refinement needs one
more, `OnePlace`: a task is in one place only, not submitted yet, in the hands of one caller, in the queue, or begun.

**`InputProofs`**, about what a connection reads. For `Buffer`: `TypeCorrect`, `AssertsTheorem`, `GrowthTheorem`,
`ImplementsTheorem`. The lemmas are about the functions on any valid object (`EnsureWritable`, `CopyIn`, `AppendBytes`,
`Narrowed`): they keep it valid, their asserts hold, and the readable bytes afterwards are the ones before with the
data put on. `readFd` composes two of them with the split of the data at the writable bytes. The invariant is the
types and `AssertsHold`. `GrowthTheorem` (the vector grows only when its content does not fit) is proved and in no cfg.

For `BufferNumbers`: `NumbersKeptTheorem`. The invariant `NumbersInv` says that the readable bytes are the encodings of
`numbers`, one behind the other. That an integer is what its bytes say is `ReadBack`: the value of the first `k` bytes
is the integer without its other digits (by induction on `k`), and the sign comes back because `Number(n)` has one
representative of each class modulo `Values[n]`. Induction is over sets of naturals (`Induction`, from a least
counterexample, which the well-founded order of the naturals has); functions defined by a step, and `FlattenSeq`, are
brought within its reach by `Recursion` and the laws that follow from it (`FlattenEmpty`, `FlattenCons`,
`FlattenAppend`).

For `Http`: `RightAnswersTheorem`, `NotKilledTheorem`, `CloseAnnouncedTheorem`, from one invariant, `HttpInv`, since
none of them is inductive alone: a right answer needs the parser to stand where the request says, and not to be killed
needs that at most one request is under way, which depends on the answers being right. `Placed` says where the server is,
in one conjunction for each of the parser's states: what it has not taken off the stream (the buffer and then the
kernel) is exactly the text of what is left of the current request and of those behind it, and `request_` has the
headers that were taken off (`Holds`). Behind a 400 or a cut, `Lost`: that text begins with a line that is no request line,
and goes on doing so, as nothing takes it off. `Waits` is about a client that waits for its answers: one request
under way, none after an answer that closes, nothing left to read behind a 400. What the parser finds is in two lemmas:
in a text that begins with a line (without line ends) and CR LF, `findCRLF` finds the end of that line once it has been
read, and nothing before (`LineFound`, `LineMissing`). Lemmas about each part of a request say which line that is
(`FirstLineRead`, `HeaderRead`, `EndRead`) and that headers, ends and bodies are no request lines (`LeftLine`).
Concatenation is there an operator `++` of its own, with the laws it needs, so that the provers do not unfold it. One
lemma for each action.

**`DummyLoadProofs`**: `TypeCorrect`, `EvenlySpreadTheorem`, `CountTheorem`, `NobodySleepsTheorem`. The invariant is
Bresenham's account (`Account`): `err` is an exact function of `goal`, the slots decided so far and `count`, and lies
between two bounds that depend only on `goal`. At the last slot these leave one value of `count`, which is `goal`: the
assert at the end of `load`.

**`TcpStreamProofs`**: `TypeCorrect`, `StreamIntactTheorem`, `ShutAfterOutputTheorem`. The first two are inductive
once cutting a sequence in two and joining the parts is known to change nothing (`Joined`, `Moved`, `ReadMoved`): each
action moves bytes between neighbours among `received`, `kernel` and `outputBuffer_`. The third needs `Waits`:
EPOLLOUT is asked for exactly while there is output, a quiet `writeCompleteCallback_` runs only when there is none,
and a socket that has been shut down belongs to a connection that is no longer `kConnected`.

**`SystemInfoProofs`**: `TypeCorrect`, `TablesAgreeTheorem`, `RatesAreRightTheorem`, `TopShownTheorem`,
`ScanIsRightTheorem`. The lists that are drawn are copied from those of the host and of a process, so the invariant adds
that the former are bounded, too (`HostLists`); that the program stored is the one `status` told of a step before is among
the types. Lemmas about `push_front` with a bound (`PushedType`, `PushedLen`, `PushedHead`, `PushedPair`) do the rest.
`RatesAreRight` is about one step, from an invariant about the last `stat` that could be parsed (`Samples`, with the
history variable `sample`): what is stored is the int that is left of it, and a process that is still the same has used no
less since. The arithmetic is modulo the width of an int: two ints that are a multiple of it apart are equal (`SameWord`),
so that a difference which fits is right although what was stored had wrapped (`IntDifference`). `TopShown` is about one
step, too: the list is what is left of a sorted one, and since `before` is total on what it compares, nothing behind the
cut is before something in it (`SortedHasAll`, by counting: a list without repetition that is as long as the set has
all of it). What that says of the rates is `NotBefore`: `score` is a fraction rounded down (`ScoreFloor`), so that unequal
ones are in the order of the fractions and equal ones stand for fractions less than one part apart (`ScoresCompare`).
`ScanIsRight` needs what holds in the middle of a scan (`Scan`): each process that has been there all the time is
still to be listed, or in the tables, or the one whose `stat` comes next (`Visited`); and the counters hold the number
of processes, and of their threads, that are no longer to be listed, unless something came or went (`Counted`, from
`FS_AddElement` and `FS_Union` for one process more).

**`TcpServerProofs`**: `TypeCorrect`, `EpollAgreesTheorem`, `NoStaleChannelTheorem`, `CallbacksInOrderTheorem`,
`OnlyClosedDestroyedTheorem`. The invariant has a conjunct for each way in which the parts could come apart.
`Objects`: a connection that is open is in the map, one that is neither in the map nor held is destroyed, and a closed
one is in the map only while `handleClose` runs. `CallsAgree`: what user code was told is a function of `state_`.
`Channels`: an open connection is registered with `events_`, and EPOLLOUT is wanted exactly while there is output; a
closed one is not registered. `Batch`: what waits in `activeChannels_` is open, in it once, and not the connection
being handled. `Where`: the state of that connection at each `pc`. The step that matters is the close: only the
connection that is handled can be closed or destroyed, and it is not in the rest of the batch. That `epoll_wait`'s
answer has each channel once is the pigeonhole principle (`OrderedOnce`).

**`ConnectorProofs`**: `TypeCorrect`, `UpIsConnectedTheorem`, `OneOwnerTheorem`, `RegistrationsTheorem`. A handler
runs with the `Channel` that was reported, whatever the one before it has done, so the invariant says where a handler
finds itself: one that runs for a connector's channel does so while that connect is under way, or behind
`handleError`, when the descriptor is closed and none has been opened (`AtConnector`). `Descriptors`: who is
connecting or has a connection that lives owns an open descriptor, each open one has one such owner, and no start has
a descriptor above its own number, as the kernel gives out the lowest that is free (`LeastExists`). `Epolled`: those
and no other are registered.

Inductive invariants were checked with TLC before they were proved: `ConnectorProofs!Inv` on two and on four starts,
`TcpServerProofs!Inv`, `SystemInfoProofs!Scan`, `InputProofs!NumbersInv` and `InputProofs!HttpInv` on the instances of
`server`, `systeminfo`, `buffer` and `http` (the last in an earlier form, with sets that TLC can enumerate where it now
quantifies over all texts).

Only model-checked: liveness. Every safety invariant and every refinement that a run checks is proved; what a run shows
under fairness (`~>`, and the properties that say a call returns or a load settles) is outside the prover's reach, as is
`ENABLED`.

## 5. Where the code disagrees with what it says

1. `TimerQueue.cpp:39-42` asserts that a timerfd reported by epoll can be read. A handler before it in the same batch may
   cancel the expired timer and add one; setting the timerfd discards the expiration, the read fails and the process
   aborts (`timer_read_fails`).
2. `Connector.cpp:64` says a `Channel` may not be reset inside its `handleEvent`. `TcpConnection::handleClose` does that
   on the normal path: the connection, and its channel, are destroyed before `handleEvent` has read `revents_` for
   the last time (`server_self_destroy`).
3. `TcpConnection.h:38` and `:66`: `send` sends the message, `outputBuffer_` is the send buffer. When the socket's
   buffer is full and nothing waits, `write` returns -1, which the comparison as `size_t` takes for "all written": the
   message is dropped (`stream_dropped`).

The passing runs hold with these behaviours in the models.

## 6. Not modelled, and why

- *Timers*: the destructor of `TimerQueue` (the loop has ended), and the end of the loop itself: the model's loop has not
  been told to `quit` (`EventLoop.cpp:29`), which `TcpServer` has; intervals below a microsecond, which `addTime` makes 0
  while `repeat` stays true, so that such a timer would expire for ever (nobody uses one); the undefined read of an erased
  `std::set` node in `cancel` (the model takes what builds find there).
- *Pool*: a second `start` after `stop`, for which `threads_` would have to be cleared; data races on `threads_`'s own
  pointers, between `start` and a `run` that does not wait for it.
- *Connections*: a `send` to a connection that user code was told is down, and a `start` while a connect is under way: the
  code gives both up to its callers, and leaks a registered, destroyed `Channel` if they do it. `socket` failing in
  `Connector`, which aborts the process (`Socket.cpp:79-81`): nothing comes after it.
- *Buffer*: `findEOL` (nobody calls it), `swap` (exchanges two objects).
- *HTTP*: tokens that are cut (to the parser a cut word is as good as none); tabs and other space besides blanks, CR and
  LF, and numbers below 0 as `Content-Length`: requests have none; the wording of an answer.
- *dummyload*: `findCycles` and `getcpunum` (run once, before there are threads). `getCpuTime` may return whatever two
  counts of jiffies, in any state of the counters, can give. `type` is any of 1 to 4, as `dummyload` handles them,
  although `main` passes 1 only (`dummyload.cpp:311`), for which the control never ends.
- *procmon*: rounding of doubles (a rate is a fraction); the values sampled of the host, drawing (`Imagepng`), reading
  of a file (`ReadSmallFile`); `getpwuid` for a user without a name and `opendir` failing return NULL, which
  `SystemInfo` uses and which ends the process, and `/pid` without a query reads behind the end of an empty string: the
  model's machine has names, and its queries are not empty. The tables never shrink: the code keeps an entry for every
  pid it has ever seen.
- The components that section 1 calls "the rest".

## 7. What could come next

1. `TcpStream` and `Http` meet in one place, an answer that the socket's buffer takes nothing of (finding 3): a module
   that composes them would show what a client sees of it.
2. `DummyLoad`: the number of slots between two busy ones, which `Account` bounds, as a theorem of its own.
3. `TimerQueue`: a second thread that calls `cancel` through `runInLoop`, when the library has one.
