----------------------------- MODULE Connector -----------------------------
(***************************************************************************)
(* The client side: Connector, TcpClient and the part of TcpConnection,    *)
(* Channel, EPoller and EventLoop that they use, in a program of one       *)
(* thread, which starts again, if at all, from the callback that tells it  *)
(* that its connection is down.                                            *)
(*                                                                         *)
(* What is hard: two Channels in turn use one descriptor; a failed connect *)
(* is reported as EPOLLERR and EPOLLOUT of one event, so that handleError  *)
(* and then handleWrite disable the Channel and close the descriptor; the  *)
(* errors of epoll_ctl and close go unnoticed; and a descriptor's number   *)
(* is used again as soon as it is closed.                                  *)
(*                                                                         *)
(* A definition marked "mutant" is part of no behaviour: it is a form that *)
(* a bug would give to the definition after it, and which the runs reject. *)
(***************************************************************************)
EXTENDS Integers

CONSTANT MaxStarts  \* bound: calls of TcpClient::start

ASSUME ConnectorAssumption == MaxStarts \in Nat \ {0}

Attempt == 1 .. MaxStarts            \* a call of start, and the connection it leads to
Channel == {"connector", "connection"} \X Attempt
None == 0

VARIABLES
  started,             \* how often start has been called
  fd,                  \* the descriptor of each attempt, None before it
  sock,                \* the kernel's socket behind each descriptor
  state_, channel_,    \* of the Connector; channel_ is the attempt it was made for
  conn, connection_,   \* TcpConnection::state_; TcpClient::connection_
  held,                \* connections to which user code keeps a shared_ptr
  chState, events_,    \* Channel::state_, Channel::events_
  epoll,               \* what the kernel has registered: descriptor -> channel, events
  cur, revents_, pc, quit_

clientVars == <<started, fd, state_, channel_, conn, connection_, held>>
channelVars == <<chState, events_, epoll>>
loopVars == <<cur, revents_, pc, quit_>>
vars == <<clientVars, sock, channelVars, loopVars>>

Fd == 1 .. MaxStarts + 1
Open == {f \in Fd : sock[f] # "none"}

Init ==
  /\ started = 0 /\ fd = [k \in Attempt |-> None] /\ sock = [f \in Fd |-> "none"]
  /\ state_ = "kDisconnected" /\ channel_ = None
  /\ conn = [k \in Attempt |-> "none"] /\ connection_ = None /\ held = {}
  /\ chState = [ch \in Channel |-> "kNew"] /\ events_ = [ch \in Channel |-> {}]
  /\ epoll = <<>>
  /\ cur = <<"connector", 1>> /\ revents_ = {} /\ pc = "main" /\ quit_ = FALSE
-----------------------------------------------------------------------------
(***************************************************************************)
(* The kernel and the server.  A socket whose connect is under way comes   *)
(* to be open, or refused (for which a time-out stands, too).  An error    *)
(* stays with the socket until it has been asked for.                      *)
(***************************************************************************)
Changes(from, to) ==
  /\ \E f \in Fd : sock[f] = from /\ sock' = [sock EXCEPT ![f] = to]
  /\ UNCHANGED <<clientVars, channelVars, loopVars>>

Handshake == Changes("connecting", "open") \/ Changes("connecting", "refused")
PeerCloses == Changes("open", "eof")
PeerResets == Changes("open", "reset") \/ Changes("eof", "eof reset")

HasError(s) == s \in {"refused", "reset", "eof reset"}

\* What epoll_wait reports of a socket to one who has asked for es: EPOLLERR unasked.
Ready(s, es) ==
  (IF HasError(s) THEN {"err"} ELSE {}) \cup
  (es \cap (CASE s = "connecting" -> {} [] s = "open" -> {"out"} [] OTHER -> {"in", "out"}))
-----------------------------------------------------------------------------
(***************************************************************************)
(* Channel::enableWriting and the like, with EPoller::updateChannel and    *)
(* update; epoll_ctl refuses a descriptor that is closed, and to add one   *)
(* that it has.  close takes the descriptor out of epoll.                  *)
(***************************************************************************)
Registration(ch, es) == [channel |-> ch, events |-> es]

\* epoll without f, and with f as r.
Without(f) == [g \in DOMAIN epoll \ {f} |-> epoll[g]]
With(f, r) == [g \in DOMAIN epoll \cup {f} |-> IF g = f THEN r ELSE epoll[g]]

\* The three results of updateChannel(ch) that has es as its new events_.
newEvents(ch, es) == events_' = [events_ EXCEPT ![ch] = es]
newState(ch, es) ==
  chState' = [chState EXCEPT ![ch] = IF @ = "kAdded" /\ es = {} THEN "kDeleted" ELSE "kAdded"]
newEpoll(ch, f, es) ==
  IF f \notin Open THEN epoll
  ELSE IF chState[ch] # "kAdded" THEN IF f \in DOMAIN epoll THEN epoll ELSE With(f, Registration(ch, es))
  ELSE IF es = {} THEN Without(f)
  ELSE IF f \in DOMAIN epoll THEN With(f, Registration(ch, es)) ELSE epoll

NeverClosed(f) == sock  \* mutant
close(f) == [sock EXCEPT ![f] = "none"]
-----------------------------------------------------------------------------
(***************************************************************************)
(* TcpClient::start, which is Connector::start: main calls it before the   *)
(* loop, and user code from the callback that tells of a connection's end; *)
(* it starts nothing while a connect that it has started is under way,     *)
(* which would destroy the Channel of that one and leave it registered.    *)
(***************************************************************************)
MayStart == started < MaxStarts /\ pc \in {"main", "down"} /\ state_ # "kConnecting"
NewFd == CHOOSE f \in Fd \ Open : \A g \in Fd \ Open : f <= g  \* the lowest, as POSIX has it
Started == pc' = IF pc = "main" THEN "loop" ELSE pc

\* connect returns 0, EINPROGRESS or EINTR.
StartConnecting ==
  /\ MayStart
  /\ LET k == started + 1  f == NewFd  ch == <<"connector", k>> IN
     /\ started' = k /\ fd' = [fd EXCEPT ![k] = f]
     /\ \E s \in {"connecting", "open"} : sock' = [sock EXCEPT ![f] = s]
     /\ state_' = "kConnecting" /\ channel_' = k
     /\ newEvents(ch, {"out"}) /\ newState(ch, {"out"})
     /\ epoll' = With(f, Registration(ch, {"out"}))
  /\ Started
  /\ UNCHANGED <<conn, connection_, held, cur, revents_, quit_>>

\* Any other errno: the descriptor is closed again, and nothing else has changed.
StartFails ==
  /\ MayStart
  /\ started' = started + 1
  /\ quit_' = TRUE
  /\ Started
  /\ UNCHANGED <<fd, sock, state_, channel_, conn, connection_, held, channelVars, cur, revents_>>
-----------------------------------------------------------------------------
(***************************************************************************)
(* EventLoop::loop.  There is never more than one channel to report, which *)
(* Registrations confirms.                                                 *)
(***************************************************************************)
Poll ==
  /\ pc = "loop" /\ ~quit_
  /\ \E f \in DOMAIN epoll :
       /\ revents_' = Ready(sock[f], epoll[f].events) /\ revents_' # {}
       /\ cur' = epoll[f].channel
  /\ pc' = "error"
  /\ UNCHANGED <<clientVars, sock, channelVars, quit_>>

LoopReturns ==
  /\ pc = "loop" /\ quit_
  /\ pc' = "ended"
  /\ UNCHANGED <<clientVars, sock, channelVars, cur, revents_, quit_>>

\* Channel::handleEvent of cur: errorCallback_, readCallback_, writeCallback_.
OfConnector == cur[1] = "connector"
me == cur[2]
myFd == fd[cur[2]]

SkipError ==
  /\ pc = "error" /\ ~("err" \in revents_ /\ OfConnector)
  /\ pc' = "read"
  /\ UNCHANGED <<clientVars, sock, channelVars, cur, revents_, quit_>>

\* Connector::handleError: disableAll, and the close that takes the descriptor from epoll.
NoQuit == UNCHANGED quit_  \* mutant
Quit == quit_' = TRUE

HandleError ==
  /\ pc = "error" /\ "err" \in revents_ /\ OfConnector
  /\ newEvents(cur, {}) /\ newState(cur, {})
  /\ state_' = "kDisconnected"
  /\ sock' = close(myFd) /\ epoll' = Without(myFd)
  /\ Quit
  /\ pc' = "read"
  /\ UNCHANGED <<started, fd, channel_, conn, connection_, held, cur, revents_>>

SkipRead ==
  /\ pc = "read" /\ (OfConnector \/ "in" \notin revents_)
  /\ pc' = "write"
  /\ UNCHANGED <<clientVars, sock, channelVars, cur, revents_, quit_>>

\* TcpConnection::handleRead: an error is only reported, the end of the stream closes.
ReadError ==
  /\ pc = "read" /\ ~OfConnector /\ "in" \in revents_
  /\ sock[myFd] = "reset"
  /\ sock' = [sock EXCEPT ![myFd] = "gone"]
  /\ pc' = "write"
  /\ UNCHANGED <<clientVars, channelVars, cur, revents_, quit_>>

\* handleClose, up to the connectionCallback_.
ReadEof ==
  /\ pc = "read" /\ ~OfConnector /\ "in" \in revents_
  /\ sock[myFd] # "reset"
  /\ conn' = [conn EXCEPT ![me] = "kDisconnected"]
  /\ newEvents(cur, {}) /\ newState(cur, {}) /\ epoll' = newEpoll(cur, myFd, {})
  /\ pc' = "down"
  /\ UNCHANGED <<started, fd, sock, state_, channel_, connection_, held, cur, revents_, quit_>>

\* closeCallback_, TcpClient::removeConnection, and the end of handleClose's shared_ptr:
\* with the last one go the TcpConnection, its Channel and its Socket.
KeepPointer == UNCHANGED connection_  \* mutant
removeConnection == connection_' = None

destroy(gone) ==
  /\ conn' = [k \in Attempt |-> IF k \in gone THEN "destroyed" ELSE conn[k]]
  /\ sock' = [f \in Fd |-> IF \E k \in gone : fd[k] = f THEN "none" ELSE sock[f]]
  /\ epoll' = [f \in {g \in DOMAIN epoll : \A k \in gone : fd[k] # g} |-> epoll[f]]

DownReturns ==
  /\ pc = "down"
  /\ removeConnection
  /\ \E keeps \in BOOLEAN : held' = IF keeps THEN held \cup {me} ELSE held
  /\ destroy({me} \ (held' \cup {connection_'}))
  /\ pc' = "write"
  /\ UNCHANGED <<started, fd, state_, channel_, chState, events_, cur, revents_, quit_>>

\* A connection's writeCallback_ finds nothing to write.
SkipWrite ==
  /\ pc = "write" /\ ~(OfConnector /\ "out" \in revents_)
  /\ pc' = "loop"
  /\ UNCHANGED <<clientVars, sock, channelVars, cur, revents_, quit_>>

\* Connector::handleWrite.  getSocketError fails on a descriptor that has been closed.
NoSocketError == FALSE  \* mutant: connected as soon as the socket can be written to
getSocketError == myFd \notin Open \/ HasError(sock[myFd])

ConnectFailed ==
  /\ pc = "write" /\ OfConnector /\ "out" \in revents_
  /\ getSocketError
  /\ newEvents(cur, {}) /\ newState(cur, {})
  /\ state_' = "kDisconnected"
  /\ sock' = close(myFd) /\ epoll' = Without(myFd)
  /\ Quit
  /\ pc' = "loop"
  /\ UNCHANGED <<started, fd, channel_, conn, connection_, held, cur, revents_>>

\* TcpClient::newConnection and connectEstablished, up to the connectionCallback_: the
\* connection's own Channel takes over the descriptor.
LeaveRegistered(f) == epoll  \* mutant: handleWrite without disableAll
disabled(f) == newEpoll(cur, f, {})

Connected ==
  /\ pc = "write" /\ OfConnector /\ "out" \in revents_
  /\ ~getSocketError
  /\ state_' = "kConnected"
  /\ conn' = [conn EXCEPT ![me] = "kConnected"] /\ connection_' = me
  /\ LET ch == <<"connection", me>> IN
     /\ events_' = [events_ EXCEPT ![cur] = {}, ![ch] = {"in"}]
     /\ chState' = [chState EXCEPT ![cur] = "kDeleted", ![ch] = "kAdded"]
     /\ epoll' = LET before == disabled(myFd) IN
                 IF myFd \in DOMAIN before THEN before ELSE With(myFd, Registration(ch, {"in"}))
  /\ pc' = "up"
  /\ UNCHANGED <<started, fd, sock, channel_, held, cur, revents_, quit_>>

\* User code has been told that the connection is up.
UpReturns ==
  /\ pc = "up"
  /\ \E keeps \in BOOLEAN : held' = IF keeps THEN held \cup {me} ELSE held
  /\ pc' = "loop"
  /\ UNCHANGED <<started, fd, sock, state_, channel_, conn, connection_, channelVars, cur,
                 revents_, quit_>>

UserQuits ==
  /\ pc \in {"up", "down"}
  /\ quit_' = TRUE
  /\ UNCHANGED <<clientVars, sock, channelVars, cur, revents_, pc>>

\* User code drops a shared_ptr; while a connection is up or its handler runs there is another.
Release(k) ==
  /\ pc \in {"up", "down"}
  /\ k \in held
  /\ held' = held \ {k}
  /\ destroy({k} \ {connection_, me})
  /\ UNCHANGED <<started, fd, state_, channel_, connection_, chState, events_, loopVars>>
-----------------------------------------------------------------------------
LoopStep ==
  \/ StartConnecting \/ StartFails \/ Poll \/ LoopReturns
  \/ SkipError \/ HandleError \/ SkipRead \/ ReadError \/ ReadEof \/ DownReturns
  \/ SkipWrite \/ ConnectFailed \/ Connected \/ UpReturns

Next ==
  \/ Handshake \/ PeerCloses \/ PeerResets
  \/ LoopStep
  \/ UserQuits \/ \E k \in Attempt : Release(k)

Spec == Init /\ [][Next]_vars

\* The thread runs and callbacks return; a handshake is answered or times out.
FairSpec == Spec /\ WF_vars(LoopStep) /\ WF_vars(Handshake)
-----------------------------------------------------------------------------
TypeOK ==
  /\ started \in 0 .. MaxStarts /\ fd \in [Attempt -> Fd \cup {None}]
  /\ sock \in [Fd -> {"none", "connecting", "open", "eof", "refused", "reset", "eof reset", "gone"}]
  /\ state_ \in {"kDisconnected", "kConnecting", "kConnected"}
  /\ channel_ \in Attempt \cup {None} /\ connection_ \in Attempt \cup {None}
  /\ conn \in [Attempt -> {"none", "kConnected", "kDisconnected", "destroyed"}]
  /\ held \subseteq Attempt
  /\ chState \in [Channel -> {"kNew", "kAdded", "kDeleted"}]
  /\ events_ \in [Channel -> SUBSET {"in", "out"}]
  /\ DOMAIN epoll \subseteq Fd
  /\ \A f \in DOMAIN epoll : epoll[f] \in [channel : Channel, events : SUBSET {"in", "out"}]
  /\ cur \in Channel /\ revents_ \subseteq {"in", "out", "err"} /\ quit_ \in BOOLEAN
  /\ pc \in {"main", "loop", "error", "read", "down", "write", "up", "ended"}

\* User code is only told of a connection that the server has accepted, on an open socket,
\* and it is then the one that connection_ holds.
UpIsConnected ==
  \A k \in Attempt : conn[k] = "kConnected" =>
    connection_ = k /\ sock[fd[k]] \notin {"none", "connecting", "refused"}

\* Those that will close a descriptor: the Connector while it connects, a TcpConnection.
Owners == {<<"connection", k>> : k \in {j \in Attempt : conn[j] \in {"kConnected", "kDisconnected"}}} \cup
          {<<"connector", k>> : k \in {channel_} \ (IF state_ = "kConnecting" THEN {} ELSE {channel_})}

\* Every open descriptor has exactly one owner and every owner's descriptor is open:
\* nothing leaks, and ~Socket, which aborts when close fails, never finds it closed.
OneOwner ==
  /\ Open = {fd[o[2]] : o \in Owners}
  /\ \A o, p \in Owners : fd[o[2]] = fd[p[2]] => o = p

\* epoll has exactly the channels that wait for something: that of a connect under way and
\* that of the connection that is up; each is alive, with its descriptor and its events.
Registrations ==
  /\ {epoll[f].channel : f \in DOMAIN epoll} =
       {o \in Owners : o[1] = "connector" \/ conn[o[2]] = "kConnected"}
  /\ \A f \in DOMAIN epoll : LET ch == epoll[f].channel IN
       fd[ch[2]] = f /\ chState[ch] = "kAdded" /\ epoll[f].events = events_[ch] /\ events_[ch] # {}
  /\ \A f, g \in DOMAIN epoll : f = g

\* start comes to an end that its caller notices: a connection is up, or the loop returns.
StartResolves == \A k \in Attempt : (started >= k) ~> (conn[k] # "none" \/ pc = "ended")
=============================================================================
