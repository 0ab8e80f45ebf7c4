----------------------------- MODULE TcpServer -----------------------------
(***************************************************************************)
(* The life of a server's connections: EventLoop::loop, EPoller, Channel,  *)
(* Acceptor, TcpServer and the part of TcpConnection that registers,       *)
(* handles and destroys (what its buffers hold is TcpStream's subject).    *)
(*                                                                         *)
(* One thread runs everything.  What is hard is that it runs user code in  *)
(* the middle of Channel::handleEvent, that the channels of a batch were   *)
(* reported before the handlers of the batch ran, and that a connection's  *)
(* object is destroyed when its last shared_ptr goes.                      *)
(*                                                                         *)
(* A definition marked "mutant" is part of no behaviour: it is a form that *)
(* a bug would give to the definition after it, and which the runs reject. *)
(***************************************************************************)
EXTENDS Integers, Sequences, FiniteSets

CONSTANTS Conn,   \* connections that clients may open
          acceptor

ASSUME ServerAssumption == IsFiniteSet(Conn) /\ acceptor \notin Conn

VARIABLES
  peer,          \* what the client at the other end has done
  unread,        \* connections with data to read in the kernel
  connections_,  \* TcpServer::connections_
  state_,        \* TcpConnection::state_ ("none": no object yet)
  chState,       \* Channel::state_
  events_,       \* Channel::events_
  epoll,         \* what the kernel has registered: connection -> events
  output,        \* connections whose outputBuffer_ is not empty
  shut,          \* connections whose socket has been shut down for writing
  destroyed,     \* connections whose object (and Channel, and Socket) is gone
  held,          \* connections to which user code keeps a shared_ptr
  activeChannels_, cur, revents_,  \* rest of the batch; the channel being handled
  quit_,
  pc,
  calls          \* connectionCallback_ calls each connection has had

sockVars == <<peer, unread>>
connVars == <<connections_, state_, output, shut, destroyed, held, calls>>
chanVars == <<chState, events_, epoll>>
loopVars == <<activeChannels_, cur, revents_, quit_, pc>>
vars == <<sockVars, connVars, chanVars, loopVars>>

\* The thread goes on at next; what handleEvent keeps is gone when it has returned.
returns(next) ==
  /\ pc' = next
  /\ cur' = IF next = "dispatch" THEN acceptor ELSE cur
  /\ revents_' = IF next = "dispatch" THEN {} ELSE revents_

Callbacks == {"up", "message", "down", "complete"}
Stopped == {"aborted", "killed", "crashed", "ended"}

Init ==
  /\ peer = [c \in Conn |-> "none"] /\ unread = {}
  /\ connections_ = {} /\ state_ = [c \in Conn |-> "none"]
  /\ output = {} /\ shut = {} /\ destroyed = {} /\ held = {} /\ calls = [c \in Conn |-> <<>>]
  /\ chState = [c \in Conn |-> "kNew"] /\ events_ = [c \in Conn |-> {}]
  /\ epoll = <<>>
  /\ activeChannels_ = <<>> /\ cur = acceptor /\ revents_ = {} /\ quit_ = FALSE
  /\ pc = "loop"
-----------------------------------------------------------------------------
(***************************************************************************)
(* The clients, through the kernel, which refuses them before listen.      *)
(***************************************************************************)
listening == pc \notin {"loop", "server", "start"}

Connect(c) ==
  /\ peer[c] = "none" /\ listening
  /\ peer' = [peer EXCEPT ![c] = "backlog"]
  /\ UNCHANGED <<unread, connVars, chanVars, loopVars>>

PeerSends(c) ==
  /\ peer[c] = "open" /\ c \notin destroyed
  /\ unread' = unread \cup {c}
  /\ UNCHANGED <<peer, connVars, chanVars, loopVars>>

PeerCloses(c) ==
  /\ peer[c] = "open" /\ c \notin destroyed
  /\ peer' = [peer EXCEPT ![c] = "closed"]
  /\ UNCHANGED <<unread, connVars, chanVars, loopVars>>

\* "reset" until a call has reported it, then "gone"; after the end of the stream no
\* read reports it.
PeerResets(c) ==
  /\ peer[c] \in {"open", "closed"} /\ c \notin destroyed
  /\ peer' = [peer EXCEPT ![c] = IF @ = "open" THEN "reset" ELSE "gone"]
  /\ unread' = unread \ {c}
  /\ UNCHANGED <<connVars, chanVars, loopVars>>
-----------------------------------------------------------------------------
(***************************************************************************)
(* Channel::enableReading and the like, and EPoller::updateChannel, which  *)
(* they all call.  The first conjunct of each is the new events_.          *)
(***************************************************************************)
Registered == DOMAIN epoll

\* Functions that are changed in one place.
Register(c, es) == [d \in Registered \cup {c} |-> IF d = c THEN es ELSE epoll[d]]
Unregister(c) == [d \in Registered \ {c} |-> epoll[d]]

AddOnly(c, es) ==  \* mutant: a channel that wants nothing stays registered
  /\ events_' = [events_ EXCEPT ![c] = es]
  /\ chState' = [chState EXCEPT ![c] = "kAdded"]
  /\ epoll' = IF es = {} THEN epoll ELSE Register(c, es)

updateChannel(c, es) ==
  /\ events_' = [events_ EXCEPT ![c] = es]
  /\ IF chState[c] = "kAdded" /\ es = {}
     THEN /\ chState' = [chState EXCEPT ![c] = "kDeleted"]
          /\ epoll' = Unregister(c)
     ELSE /\ chState' = [chState EXCEPT ![c] = "kAdded"]
          /\ epoll' = Register(c, es)

isWriting(c) == "out" \in events_[c]
-----------------------------------------------------------------------------
(***************************************************************************)
(* The constructors of EventLoop and TcpServer, TcpServer::start and       *)
(* EventLoop::loop.  What the kernel refuses aborts the process; only what *)
(* follows listen depends on it.  epoll_wait reports what is ready, in any *)
(* order; there is room for all (EPoller asks for 16).                     *)
(***************************************************************************)
mayAbort(next) ==
  /\ pc' \in {next, "aborted"}
  /\ UNCHANGED <<sockVars, connVars, chanVars, activeChannels_, cur, revents_, quit_>>

ConstructLoop == pc = "loop" /\ mayAbort("server")  \* epoll_create
ConstructServer == pc = "server" /\ mayAbort("start")  \* socket and bind
Start == pc = "start" /\ mayAbort("poll")  \* listen

Backlog == {c \in Conn : peer[c] = "backlog"}

\* What epoll_wait may report for a connection: EPOLLIN when a read would not block;
\* EPOLLOUT when there is room to write, which the model leaves open.
CanReport(c) ==
  LET in == IF "in" \in epoll[c] /\ (c \in unread \/ peer[c] \in {"closed", "reset", "gone"})
            THEN {"in"} ELSE {}
  IN {in} \cup (IF "out" \in epoll[c] THEN {in \cup {"out"}} ELSE {})

\* The orders in which the elements of a set can be listed.
Orders(S) == {s \in [1 .. Cardinality(S) -> S] : \A x \in S : \E i \in DOMAIN s : s[i] = x}

Poll ==
  /\ pc = "poll" /\ ~quit_
  /\ \E report \in [Registered -> SUBSET {"in", "out"}] :
       /\ \A c \in Registered : report[c] \in CanReport(c)
       /\ LET ready == {<<c, report[c]>> : c \in {d \in Registered : report[d] # {}}}
                         \cup (IF Backlog = {} THEN {} ELSE {<<acceptor, {"in"}>>})
          IN ready # {} /\ activeChannels_' \in Orders(ready)
  /\ pc' = "dispatch"
  /\ UNCHANGED <<sockVars, connVars, chanVars, cur, revents_, quit_>>

EndBatch ==
  /\ pc = "dispatch" /\ activeChannels_ = <<>>
  /\ pc' = "poll"
  /\ UNCHANGED <<sockVars, connVars, chanVars, activeChannels_, cur, revents_, quit_>>

\* Channel::handleEvent of a connection is entered.
HandleEvent ==
  /\ pc = "dispatch" /\ activeChannels_ # <<>>
  /\ Head(activeChannels_)[1] # acceptor
  /\ cur' = Head(activeChannels_)[1] /\ revents_' = Head(activeChannels_)[2]
  /\ activeChannels_' = Tail(activeChannels_)
  /\ pc' = "read"
  /\ UNCHANGED <<sockVars, connVars, chanVars, quit_>>

(***************************************************************************)
(* Acceptor::handleRead, TcpServer::newConnection and connectEstablished,  *)
(* up to the connectionCallback_.                                          *)
(***************************************************************************)
Accept(c) ==
  /\ pc = "dispatch" /\ activeChannels_ # <<>>
  /\ Head(activeChannels_)[1] = acceptor
  /\ c \in Backlog
  /\ activeChannels_' = Tail(activeChannels_)
  /\ peer' = [peer EXCEPT ![c] = "open"]
  /\ connections_' = connections_ \cup {c}
  /\ state_' = [state_ EXCEPT ![c] = "kConnected"]
  /\ updateChannel(c, {"in"})
  /\ calls' = [calls EXCEPT ![c] = Append(@, "up")]
  /\ cur' = c /\ pc' = "up"
  /\ UNCHANGED <<unread, output, shut, destroyed, held, revents_, quit_>>

\* No descriptor is left: the connection stays in the backlog, and is reported again.
AcceptFails ==
  /\ pc = "dispatch" /\ activeChannels_ # <<>>
  /\ Head(activeChannels_)[1] = acceptor
  /\ activeChannels_' = Tail(activeChannels_)
  /\ UNCHANGED <<sockVars, connVars, chanVars, cur, revents_, quit_, pc>>

UpReturns ==
  /\ pc = "up"
  /\ held' \in {held, held \cup {cur}}
  /\ returns("dispatch")
  /\ UNCHANGED <<sockVars, connections_, state_, output, shut, destroyed, calls, chanVars,
                 activeChannels_, quit_>>
-----------------------------------------------------------------------------
(***************************************************************************)
(* handleEvent's EPOLLIN part: TcpConnection::handleRead.                  *)
(***************************************************************************)
SkipRead ==
  /\ pc = "read" /\ "in" \notin revents_
  /\ pc' = "write"
  /\ UNCHANGED <<sockVars, connVars, chanVars, activeChannels_, cur, revents_, quit_>>

ReadData ==
  /\ pc = "read" /\ "in" \in revents_
  /\ cur \in unread
  /\ unread' = unread \ {cur}
  /\ pc' = "message"
  /\ UNCHANGED <<peer, connVars, chanVars, activeChannels_, cur, revents_, quit_>>

MessageReturns ==
  /\ pc = "message"
  /\ pc' = "write"
  /\ UNCHANGED <<sockVars, connVars, chanVars, activeChannels_, cur, revents_, quit_>>

\* read returns -1: a reset is reported once, and after that as the end of the stream.
ReadError ==
  /\ pc = "read" /\ "in" \in revents_
  /\ cur \notin unread /\ peer[cur] = "reset"
  /\ peer' = [peer EXCEPT ![cur] = "gone"]
  /\ pc' = "write"
  /\ UNCHANGED <<unread, connVars, chanVars, activeChannels_, cur, revents_, quit_>>

\* What handleClose does with the channel.
LeaveEnabled(c) == UNCHANGED chanVars  \* mutant
disableAll(c) == updateChannel(c, {})

\* handleClose, up to the connectionCallback_.
ReadEof ==
  /\ pc = "read" /\ "in" \in revents_
  /\ cur \notin unread /\ peer[cur] \in {"closed", "gone"}
  /\ state_' = [state_ EXCEPT ![cur] = "kDisconnected"]
  /\ disableAll(cur)
  /\ calls' = [calls EXCEPT ![cur] = Append(@, "down")]
  /\ pc' = "down"
  /\ UNCHANGED <<sockVars, connections_, output, shut, destroyed, held, activeChannels_, cur,
                 revents_, quit_>>

\* closeCallback_, TcpServer::removeConnection, and the end of handleClose's shared_ptr.
KeepInMap(c) == UNCHANGED connections_  \* mutant
removeConnection(c) == connections_' = connections_ \ {c}

\* The object of a connection goes with its last shared_ptr, and its descriptor with it.
destroy(gone) ==
  /\ destroyed' = destroyed \cup gone
  /\ epoll' = [d \in Registered \ gone |-> epoll[d]]

NotInMap(c) == {c} \ connections_'  \* mutant
Unreferenced(c) == {c} \ (connections_' \cup held)

DownReturns ==
  /\ pc = "down"
  /\ removeConnection(cur)
  /\ destroy(Unreferenced(cur))
  /\ pc' = "write"
  /\ UNCHANGED <<sockVars, state_, output, shut, held, calls, chState, events_, activeChannels_,
                 cur, revents_, quit_>>
-----------------------------------------------------------------------------
(***************************************************************************)
(* handleEvent's EPOLLOUT part.  If the object is gone, handleEvent reads  *)
(* revents_ and writeCallback_ of a Channel that no longer exists: as a    *)
(* rule it finds what was there, and then it may not come back.            *)
(***************************************************************************)
handleWrites == cur \notin destroyed /\ "out" \in revents_ /\ isWriting(cur)

SkipWrite ==
  /\ pc = "write"
  /\ ~handleWrites
  /\ \/ returns("dispatch")
     \/ cur \in destroyed /\ "out" \in revents_ /\ returns("crashed")
  /\ UNCHANGED <<sockVars, connVars, chanVars, activeChannels_, quit_>>

\* A write to a connection that was reset fails, once; after that, and after this side
\* has shut the connection down, it raises SIGPIPE, which nobody handles or ignores.
Lost(c) == peer[c] \in {"reset", "gone"}
writeFails(c) == Lost(c) \/ c \in shut
failedWrite(c, next) ==
  /\ writeFails(c)
  /\ returns(IF peer[c] = "reset" THEN next ELSE "killed")
  /\ peer' = [peer EXCEPT ![c] = IF @ = "reset" THEN "gone" ELSE @]

WriteFails ==
  /\ pc = "write" /\ handleWrites
  /\ failedWrite(cur, "dispatch")
  /\ UNCHANGED <<unread, connVars, chanVars, activeChannels_, quit_>>

\* TcpConnection::handleWrite: nothing, or not everything, has been written.
WriteSome ==
  /\ pc = "write" /\ handleWrites
  /\ ~writeFails(cur)
  /\ returns("dispatch")
  /\ UNCHANGED <<sockVars, connVars, chanVars, activeChannels_, quit_>>

\* Everything has been written: disableWriting, then the writeCompleteCallback_.
WriteAll ==
  /\ pc = "write" /\ handleWrites
  /\ ~writeFails(cur)
  /\ output' = output \ {cur}
  /\ updateChannel(cur, events_[cur] \ {"out"})
  /\ pc' = "complete"
  /\ UNCHANGED <<sockVars, connections_, state_, shut, destroyed, held, calls, activeChannels_,
                 cur, revents_, quit_>>

\* Socket::shutdownWrite aborts the process if the connection is no longer there: reset,
\* or closed by both sides, as it may be after an earlier shutdownWrite.
shutdownWrite(c, next) ==
  /\ shut' = shut \cup {c}
  /\ \/ ~Lost(c) /\ returns(next)
     \/ Lost(c) /\ returns("aborted")
     \/ peer[c] = "closed" /\ c \in shut /\ returns("aborted")

CompleteReturns ==
  /\ pc = "complete"
  /\ IF state_[cur] = "kDisconnecting"
     THEN shutdownWrite(cur, "dispatch")
     ELSE returns("dispatch") /\ UNCHANGED shut
  /\ UNCHANGED <<sockVars, connections_, state_, output, destroyed, held, calls, chanVars,
                 activeChannels_, quit_>>
-----------------------------------------------------------------------------
(***************************************************************************)
(* What user code may do from a callback: with the connection it was given *)
(* and those it holds, and with the loop.  send asks nothing of the connection; the model's   *)
(* user does not send to one that it has been told is down.                *)
(***************************************************************************)
InCallback == pc \in Callbacks
Known == held \cup {cur}

\* TcpConnection::send when the kernel does not take everything.  (When it does, send
\* changes nothing here; writeCompleteCallback_ is then more of the same callback.)
SendBuffered(c) ==
  /\ InCallback
  /\ c \in Known /\ state_[c] # "kDisconnected"
  /\ isWriting(c) \/ ~writeFails(c)
  /\ output' = output \cup {c}
  /\ updateChannel(c, events_[c] \cup {"out"})
  /\ UNCHANGED <<sockVars, connections_, state_, shut, destroyed, held, calls, loopVars>>

\* The same when write fails; the message is not kept (see TcpStream).
SendFails(c) ==
  /\ InCallback
  /\ c \in Known /\ state_[c] # "kDisconnected"
  /\ ~isWriting(c) /\ failedWrite(c, pc)
  /\ UNCHANGED <<unread, connVars, chanVars, activeChannels_, quit_>>

\* TcpConnection::shutdown.
Shutdown(c) ==
  /\ InCallback
  /\ c \in Known /\ state_[c] = "kConnected"
  /\ state_' = [state_ EXCEPT ![c] = "kDisconnecting"]
  /\ IF isWriting(c) THEN returns(pc) /\ UNCHANGED shut ELSE shutdownWrite(c, pc)
  /\ UNCHANGED <<sockVars, connections_, output, destroyed, held, calls, chanVars,
                 activeChannels_, quit_>>

\* User code drops a shared_ptr.  In a callback the caller holds another one for cur.
DropsInHandler(c) == destroy({c} \ {cur})  \* mutant
LastPointer(c) == destroy({c} \ (connections_ \cup {cur}))

Release(c) ==
  /\ InCallback
  /\ c \in held
  /\ held' = held \ {c}
  /\ LastPointer(c)
  /\ UNCHANGED <<sockVars, connections_, state_, output, shut, calls, chState, events_, loopVars>>
EventLoop_quit ==
  /\ InCallback
  /\ quit_' = TRUE
  /\ UNCHANGED <<sockVars, connVars, chanVars, activeChannels_, cur, revents_, pc>>

\* loop returns, and TcpServer's destructor lets go of the connections in its map.
LoopReturns ==
  /\ pc = "poll" /\ quit_
  /\ connections_' = {}
  /\ destroy(connections_ \ held)
  /\ pc' = "ended"
  /\ UNCHANGED <<sockVars, state_, output, shut, held, calls, chState, events_,
                 activeChannels_, cur, revents_, quit_>>
-----------------------------------------------------------------------------
LoopStep ==
  \/ ConstructLoop \/ ConstructServer \/ Start \/ Poll \/ LoopReturns \/ EndBatch \/ HandleEvent \/ (\E c \in Conn : Accept(c)) \/ AcceptFails
  \/ UpReturns \/ SkipRead \/ ReadData \/ MessageReturns \/ ReadError \/ ReadEof \/ DownReturns
  \/ SkipWrite \/ WriteFails \/ WriteSome \/ WriteAll \/ CompleteReturns

Next ==
  \/ \E c \in Conn : Connect(c) \/ PeerSends(c) \/ PeerCloses(c) \/ PeerResets(c)
  \/ \E c \in Conn : SendBuffered(c) \/ SendFails(c) \/ Shutdown(c) \/ Release(c)
  \/ EventLoop_quit
  \/ LoopStep

Spec == Init /\ [][Next]_vars

\* The loop's thread runs and callbacks return.
FairSpec == Spec /\ WF_vars(LoopStep)
-----------------------------------------------------------------------------
Live == {c \in Conn : state_[c] # "none"} \ destroyed

\* Every variable holds a value of its type.
TypeOK ==
  /\ peer \in [Conn -> {"none", "backlog", "open", "closed", "reset", "gone"}]
  /\ unread \subseteq Conn /\ output \subseteq Conn /\ shut \subseteq Conn
  /\ connections_ \subseteq Live /\ held \subseteq Live /\ destroyed \subseteq Conn
  /\ state_ \in [Conn -> {"none", "kConnected", "kDisconnecting", "kDisconnected"}]
  /\ chState \in [Conn -> {"kNew", "kAdded", "kDeleted"}]
  /\ events_ \in [Conn -> SUBSET {"in", "out"}]
  /\ Registered \subseteq Live /\ \A c \in Registered : epoll[c] \subseteq {"in", "out"}
  /\ \A i \in DOMAIN activeChannels_ : activeChannels_[i][1] \in Conn \cup {acceptor}
  /\ cur \in Conn \cup {acceptor} /\ revents_ \subseteq {"in", "out"} /\ quit_ \in BOOLEAN
  /\ pc \in {"loop", "server", "start", "poll", "dispatch", "read", "write"} \cup Callbacks \cup Stopped
  /\ calls \in [Conn -> Seq({"up", "down"})]

\* epoll and the channels agree: a live channel is registered exactly if it thinks so, for
\* the events it wants, and it wants EPOLLOUT exactly while there is output to write.
EpollAgrees ==
  \A c \in Live :
    /\ c \in Registered <=> chState[c] = "kAdded"
    /\ c \in Registered => epoll[c] = events_[c] /\ events_[c] # {}
    /\ state_[c] # "kDisconnected" => (isWriting(c) <=> c \in output)

\* No pointer in the rest of a batch dangles, whatever the handlers before it have done:
\* no connection is destroyed between epoll_wait and its turn.
NoStaleChannel ==
  \A i \in DOMAIN activeChannels_ : activeChannels_[i][1] \notin destroyed

\* The map has a connection from before its first callback until after its last one, and
\* user code is told that it is up and that it is down, once each, in this order (but not
\* that it is down when the server itself goes).
CallbacksInOrder ==
  \A c \in Conn :
    /\ calls[c] \in {<<>>, <<"up">>, <<"up", "down">>}
    /\ calls[c] = <<"up">> /\ pc # "ended" => c \in connections_ /\ state_[c] # "kDisconnected"
    /\ calls[c] = <<"up", "down">> /\ c \in connections_ =>
         pc \in {"down"} \cup Stopped /\ cur = c

\* A connection in use is not destroyed: only one that is closed and not held, as long as
\* there is the server; with it go those that are not held, nothing else.
OnlyClosedDestroyed ==
  IF pc = "ended" THEN destroyed = {c \in Conn : state_[c] # "none"} \ held
  ELSE destroyed \subseteq {c \in Conn : state_[c] = "kDisconnected"} \ (connections_ \cup held)

\* A connection whose peer has closed or reset it is removed, unless Socket::shutdownWrite,
\* SIGPIPE or the use of a destroyed Channel has ended the process.
ClosedIsRemoved ==
  \A c \in Conn : (peer[c] \in {"closed", "reset", "gone"}) ~> (c \notin connections_ \/ pc \in Stopped)

\* Connector.cpp:64: a Channel may not go away while its handleEvent is running.
ChannelOutlivesHandler == pc = "write" => cur \notin destroyed
=============================================================================
