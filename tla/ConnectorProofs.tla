--------------------------- MODULE ConnectorProofs ---------------------------
(***************************************************************************)
(* The client holds its descriptors without a leak or a second owner, and  *)
(* epoll has the channels that wait and no other, however often user code  *)
(* starts the client again.                                                *)
(*                                                                         *)
(* The argument: none of the three properties is inductive, since a        *)
(* handler runs with the Channel that was reported, whatever the handler   *)
(* before it has done.  Inv adds where a handler may find itself: one that *)
(* runs for a Connector's channel does so while that connect is under way, *)
(* or behind handleError, when the descriptor is closed and none has been  *)
(* opened (AtConnector); and a new descriptor is the lowest free one,      *)
(* which is no greater than the attempt that takes it.                     *)
(***************************************************************************)
EXTENDS Connector, WellFoundedInduction, TLAPS

Connecting(k) == state_ = "kConnecting" /\ channel_ = k
Live(k) == conn[k] \in {"kConnected", "kDisconnected"}
Holds(k) == Live(k) \/ Connecting(k)

\* What attempts have come to: those to come are untouched, and of the others one at most
\* is connecting or connected.
Lives ==
  /\ \A k \in Attempt : k > started => conn[k] = "none" /\ ~Connecting(k)
  /\ state_ = "kConnecting" => channel_ \in Attempt /\ conn[channel_] = "none"
  /\ \A k \in Attempt : conn[k] = "kConnected" => connection_ = k /\ state_ = "kConnected"
  /\ \A k \in held : Live(k)

Descriptors ==
  /\ \A k \in Attempt : fd[k] <= k
  /\ \A k \in Attempt : Holds(k) => fd[k] \in Open
  /\ \A f \in Open : \E k \in Attempt : Holds(k) /\ fd[k] = f
  /\ \A j, k \in Attempt : Holds(j) /\ Holds(k) /\ fd[j] = fd[k] => j = k

Registered(ch, f, es) ==
  /\ chState[ch] = "kAdded" /\ events_[ch] = es
  /\ f \in DOMAIN epoll /\ epoll[f] = Registration(ch, es)

Epolled ==
  /\ \A k \in Attempt : Connecting(k) => Registered(<<"connector", k>>, fd[k], {"out"})
  /\ \A k \in Attempt : conn[k] = "kConnected" =>
       /\ Registered(<<"connection", k>>, fd[k], {"in"})
       /\ sock[fd[k]] \notin {"none", "connecting", "refused"}
  /\ \A f \in DOMAIN epoll :
       \E k \in Attempt : fd[k] = f /\ (Connecting(k) \/ conn[k] = "kConnected")

AtConnector ==
  \/ Connecting(me) /\ sock[myFd] # "connecting"
  \/ pc # "error" /\ state_ = "kDisconnected" /\ myFd \notin Open

Handled ==
  /\ pc = "main" => started = 0
  /\ pc \in {"error", "read", "write"} /\ OfConnector => AtConnector
  /\ pc \in {"error", "read"} /\ ~OfConnector => conn[me] = "kConnected"
  /\ pc = "down" => ~OfConnector /\ conn[me] = "kDisconnected" /\ connection_ = me
  /\ pc = "up" => OfConnector /\ conn[me] = "kConnected"

Inv == TypeOK /\ Lives /\ Descriptors /\ Epolled /\ Handled
-----------------------------------------------------------------------------
(***************************************************************************)
(* The descriptor that socket returns.                                     *)
(***************************************************************************)
Less == {p \in Nat \X Nat : p[1] < p[2]}

LEMMA LeastExists ==
  ASSUME NEW S, S \subseteq Nat, S # {}
  PROVE  \E m \in S : \A n \in S : m <= n
  <1>1. IsWellFoundedOn(Less, Nat)
    BY NatLessThanWellFounded DEF OpToRel, Less
  <1>2. PICK m \in S : \A n \in S : ~(<<n, m>> \in Less)
    BY <1>1, WFMin
  <1>3. ASSUME NEW n \in S PROVE m <= n
    <2>1. m \in Nat /\ n \in Nat
      OBVIOUS
    <2>2. n < m => <<n, m>> \in Less
      BY <2>1 DEF Less
    <2> QED BY <1>2, <2>1, <2>2
  <1> QED BY <1>3

\* The open descriptors are no greater than the attempts before this one, so one is free.
LEMMA NewFdIsFree ==
  ASSUME Inv, MayStart
  PROVE  /\ started + 1 \in Attempt
         /\ NewFd \in Fd \ Open /\ NewFd <= started + 1
  <1>1. started \in Nat /\ started + 1 \in Attempt /\ started + 1 \in Fd
    <2>1. MaxStarts \in Nat /\ started \in 0 .. MaxStarts /\ started < MaxStarts
      BY ConnectorAssumption DEF Inv, TypeOK, MayStart
    <2> QED BY <2>1 DEF Attempt, Fd
  <1>2. started + 1 \notin Open
    <2> SUFFICES ASSUME started + 1 \in Open PROVE FALSE
      OBVIOUS
    <2>1. PICK k \in Attempt : Holds(k) /\ fd[k] = started + 1
      BY DEF Inv, Descriptors
    <2>2. k <= started
      BY <1>1, <2>1 DEF Inv, Lives, Holds, Live, Attempt
    <2>3. fd[k] <= k
      BY DEF Inv, Descriptors
    <2> QED BY <1>1, <2>1, <2>2, <2>3 DEF Attempt
  <1> DEFINE S == Fd \ Open
  <1>3. S \subseteq Nat /\ started + 1 \in S
    BY <1>1, <1>2 DEF Fd
  <1>4. \E m \in S : \A n \in S : m <= n
    <2> HIDE DEF S
    <2> QED BY <1>3, LeastExists
  <1>5. NewFd \in S /\ \A n \in S : NewFd <= n
    BY <1>4 DEF NewFd
  <1> QED BY <1>1, <1>3, <1>5
-----------------------------------------------------------------------------
(***************************************************************************)
(* Inv is inductive.                                                       *)
(***************************************************************************)
LEMMA InitInv == Init => Inv
  <1> SUFFICES ASSUME Init PROVE Inv
    OBVIOUS
  <1>1. 1 \in Attempt /\ 0 \in 0 .. MaxStarts /\ None \notin Attempt
    BY ConnectorAssumption DEF Attempt, None
  <1>2. TypeOK
    <2>1. DOMAIN epoll = {}
      BY DEF Init
    <2>2. cur \in Channel
      BY <1>1 DEF Init, Channel
    <2>3. started \in 0 .. MaxStarts /\ fd \in [Attempt -> Fd \cup {None}]
      BY <1>1 DEF Init
    <2> QED BY <2>1, <2>2, <2>3 DEF Init, TypeOK
  <1>3. Lives /\ Descriptors /\ Epolled /\ Handled
    BY <1>1 DEF Init, Lives, Descriptors, Epolled, Handled, Holds, Live, Connecting, Open, Attempt,
                None
  <1> QED BY <1>2, <1>3 DEF Inv

\* What a step leaves alone that touches neither sockets nor channels nor the client.
LEMMA Untouched ==
  ASSUME Inv, UNCHANGED <<clientVars, sock, channelVars>>
  PROVE  Lives' /\ Descriptors' /\ Epolled'
  <1> USE DEF Inv, clientVars, channelVars, Connecting, Live, Holds
  <1>1. Lives'
    BY DEF Lives
  <1>2. Descriptors'
    BY DEF Descriptors, Open
  <1>3. Epolled'
    BY DEF Epolled, Registered
  <1> QED BY <1>1, <1>2, <1>3

LEMMA QuietInv ==
  ASSUME Inv, LoopReturns \/ SkipError \/ SkipRead \/ SkipWrite \/ UserQuits \/ UNCHANGED vars
  PROVE  Inv'
  <1>1. UNCHANGED <<clientVars, sock, channelVars>>
    BY DEF LoopReturns, SkipError, SkipRead, SkipWrite, UserQuits, vars
  <1>2. UNCHANGED <<cur, revents_>> /\ quit_' \in BOOLEAN
        /\ pc' \in {"main", "loop", "error", "read", "down", "write", "up", "ended"}
    BY DEF LoopReturns, SkipError, SkipRead, SkipWrite, UserQuits, vars, loopVars, Inv, TypeOK
  <1>3. TypeOK'
    BY <1>1, <1>2 DEF Inv, TypeOK, clientVars, channelVars
  <1>4. Handled'
    BY <1>1, <1>2 DEF LoopReturns, SkipError, SkipRead, SkipWrite, UserQuits, vars, loopVars,
         Inv, Handled, AtConnector, Connecting, OfConnector, me, myFd, Open, clientVars, channelVars
  <1> QED BY <1>1, <1>3, <1>4, Untouched DEF Inv

LEMMA PollInv == ASSUME Inv, Poll PROVE Inv'
  <1>1. UNCHANGED <<clientVars, sock, channelVars>> /\ pc' = "error"
    BY DEF Poll
  <1>2. PICK f \in DOMAIN epoll :
          /\ revents_' = Ready(sock[f], epoll[f].events) /\ revents_' # {}
          /\ cur' = epoll[f].channel
    BY DEF Poll
  <1>3. epoll[f] \in [channel : Channel, events : SUBSET {"in", "out"}]
    BY DEF Inv, TypeOK
  <1>4. TypeOK'
    <2>1. cur' \in Channel /\ revents_' \subseteq {"in", "out", "err"}
      BY <1>2, <1>3 DEF Ready
    <2> QED BY <1>1, <2>1 DEF Inv, TypeOK, clientVars, channelVars, Poll
  <1>5. sock[f] # "connecting"
    BY <1>2 DEF Ready, HasError
  <1>6. PICK k \in Attempt : fd[k] = f /\ (Connecting(k) \/ conn[k] = "kConnected")
    BY DEF Inv, Epolled
  <1>7. CASE Connecting(k)
    <2>1. cur' = <<"connector", k>>
      <3>1. epoll[f] = Registration(<<"connector", k>>, {"out"})
        BY <1>6, <1>7 DEF Inv, Epolled, Registered
      <3> QED BY <1>2, <3>1 DEF Registration
    <2> QED BY <1>1, <1>4, <1>5, <1>6, <1>7, <2>1, Untouched
            DEF Inv, Handled, OfConnector, AtConnector, Connecting, me, myFd, clientVars
  <1>8. CASE conn[k] = "kConnected"
    <2>1. cur' = <<"connection", k>>
      <3>1. epoll[f] = Registration(<<"connection", k>>, {"in"})
        BY <1>6, <1>8 DEF Inv, Epolled, Registered
      <3> QED BY <1>2, <3>1 DEF Registration
    <2> QED BY <1>1, <1>4, <1>8, <2>1, Untouched DEF Inv, Handled, OfConnector, me, clientVars
  <1> QED BY <1>6, <1>7, <1>8

\* A socket that changes stays open, and a connect that has come to an end is not under way again.
LEMMA ChangesInv ==
  ASSUME Inv, NEW from, NEW to, Changes(from, to), from # "none",
         to \in {"open", "refused", "eof", "reset", "eof reset"},
         to = "refused" => from = "connecting"
  PROVE  Inv'
  <1> USE DEF Inv
  <1>1. PICK f \in Fd : sock[f] = from /\ sock' = [sock EXCEPT ![f] = to]
    BY DEF Changes
  <1>2. UNCHANGED <<clientVars, channelVars, loopVars>>
    BY DEF Changes
  <1>3. TypeOK'
    BY <1>1, <1>2 DEF TypeOK, clientVars, channelVars, loopVars
  <1>4. /\ Open' = Open
        /\ \A g \in Fd : sock'[g] = "connecting" => sock[g] = "connecting"
        /\ \A g \in Fd : sock[g] \notin {"none", "connecting", "refused"} =>
             sock'[g] \notin {"none", "connecting", "refused"}
    BY <1>1 DEF Open, TypeOK
  <1>5. Lives'
    BY <1>2 DEF Lives, Live, Connecting, clientVars
  <1>6. Descriptors'
    BY <1>2, <1>4 DEF Descriptors, Holds, Live, Connecting, clientVars
  <1>7. Epolled'
    <2>1. \A k \in Attempt : Connecting(k)' => Registered(<<"connector", k>>, fd[k], {"out"})'
      BY <1>2 DEF Epolled, Registered, Connecting, clientVars, channelVars
    <2>2. ASSUME NEW k \in Attempt, conn'[k] = "kConnected"
          PROVE  /\ Registered(<<"connection", k>>, fd[k], {"in"})'
                 /\ sock'[fd'[k]] \notin {"none", "connecting", "refused"}
      <3>1. conn[k] = "kConnected" /\ fd'[k] = fd[k]
        BY <1>2, <2>2 DEF clientVars
      <3>2. fd[k] \in Fd /\ sock[fd[k]] \notin {"none", "connecting", "refused"}
        BY <3>1 DEF Epolled, Descriptors, Holds, Live, Open
      <3> QED BY <1>2, <1>4, <3>1, <3>2 DEF Epolled, Registered, clientVars, channelVars
    <2>3. \A g \in DOMAIN epoll' :
            \E k \in Attempt : fd'[k] = g /\ (Connecting(k)' \/ conn'[k] = "kConnected")
      BY <1>2 DEF Epolled, Connecting, clientVars, channelVars
    <2> QED BY <2>1, <2>2, <2>3 DEF Epolled
  <1>8. Handled'
    <2>1. ASSUME AtConnector, pc \in {"error", "read", "write"} PROVE AtConnector'
      <3>1. CASE Connecting(me) /\ sock[myFd] # "connecting"
        <4>1. me \in Attempt /\ fd[me] \in Fd
          BY <3>1 DEF TypeOK, Channel, me, Descriptors, Holds, Open
        <4> QED BY <1>2, <1>4, <3>1, <4>1
                DEF AtConnector, Connecting, me, myFd, clientVars, loopVars
      <3>2. CASE pc # "error" /\ state_ = "kDisconnected" /\ myFd \notin Open
        BY <1>2, <1>4, <3>2 DEF AtConnector, myFd, clientVars, loopVars
      <3> QED BY <2>1, <3>1, <3>2 DEF AtConnector
    <2> QED BY <1>2, <2>1 DEF Handled, OfConnector, me, clientVars, loopVars
  <1> QED BY <1>3, <1>5, <1>6, <1>7, <1>8

LEMMA StartFailsInv == ASSUME Inv, StartFails PROVE Inv'
  <1> USE DEF Inv
  <1>1. /\ UNCHANGED <<fd, sock, state_, channel_, conn, connection_, held, channelVars, cur, revents_>>
        /\ pc \in {"main", "down"} /\ pc' \in {"loop", "down"} /\ (pc' = "down" => pc = "down")
    BY DEF StartFails, Started, MayStart
  <1>2. started' = started + 1 /\ started' \in 0 .. MaxStarts /\ started \in Nat
    <2>1. started' = started + 1 /\ started + 1 \in Attempt
      BY NewFdIsFree DEF StartFails
    <2>2. started \in 0 .. MaxStarts /\ MaxStarts \in Nat
      BY ConnectorAssumption DEF TypeOK
    <2> QED BY <2>1, <2>2 DEF Attempt
  <1>3. TypeOK'
    <2>1. quit_' \in BOOLEAN
      BY DEF StartFails
    <2> QED BY <1>1, <1>2, <2>1 DEF TypeOK, channelVars
  <1>4. Lives'
    BY <1>1, <1>2 DEF Lives, Live, Connecting, Attempt
  <1>5. Descriptors'
    BY <1>1 DEF Descriptors, Holds, Live, Connecting, Open
  <1>6. Epolled'
    BY <1>1 DEF Epolled, Registered, Connecting, channelVars
  <1>7. Handled'
    BY <1>1 DEF Handled, OfConnector, me
  <1> QED BY <1>3, <1>4, <1>5, <1>6, <1>7

LEMMA StartConnectingInv == ASSUME Inv, StartConnecting PROVE Inv'
  <1> USE DEF Inv
  <1> DEFINE k == started + 1
             f == NewFd
             ch == <<"connector", k>>
  <1>1. /\ k \in Attempt /\ f \in Fd /\ f \notin Open /\ f <= k /\ ch \in Channel
        /\ pc \in {"main", "down"} /\ state_ # "kConnecting"
    BY NewFdIsFree DEF StartConnecting, MayStart, Channel
  <1>2. PICK s \in {"connecting", "open"} : sock' = [sock EXCEPT ![f] = s]
    BY DEF StartConnecting
  <1>3. /\ started' = k /\ fd' = [fd EXCEPT ![k] = f]
        /\ state_' = "kConnecting" /\ channel_' = k
        /\ newEvents(ch, {"out"}) /\ newState(ch, {"out"})
        /\ epoll' = With(f, Registration(ch, {"out"}))
        /\ pc' \in {"loop", "down"} /\ (pc' = "down" => pc = "down")
        /\ UNCHANGED <<conn, connection_, held, cur, revents_, quit_>>
    BY <1>1 DEF StartConnecting, Started
  <1>4. started \in Nat /\ MaxStarts \in Nat /\ conn[k] = "none"
    <2>1. started \in 0 .. MaxStarts /\ MaxStarts \in Nat
      BY ConnectorAssumption DEF TypeOK
    <2> QED BY <1>1, <2>1 DEF Lives, Attempt
  <1> HIDE DEF k, f
  <1>5. \A j \in Attempt : conn[j] # "kConnected" /\ ~Connecting(j)
    <2>1. CASE pc = "main"
      BY <1>1, <2>1 DEF Handled, Lives, Attempt, Connecting
    <2>2. CASE pc = "down"
      BY <1>1, <2>2 DEF Handled, Lives, Connecting
    <2> QED BY <1>1, <2>1, <2>2
  <1>6. DOMAIN epoll = {}
    BY <1>5 DEF Epolled
  <1>7. /\ DOMAIN epoll' = {f} /\ epoll'[f] = Registration(ch, {"out"})
        /\ chState'[ch] = "kAdded" /\ events_'[ch] = {"out"}
        /\ Registration(ch, {"out"}) \in [channel : Channel, events : SUBSET {"in", "out"}]
    BY <1>1, <1>3, <1>6 DEF With, newEvents, newState, TypeOK, Registration
  <1>8. TypeOK'
    <2>1. started' \in 0 .. MaxStarts /\ fd' \in [Attempt -> Fd \cup {None}]
      <3>1. fd' \in [Attempt -> Fd \cup {None}]
        BY <1>1, <1>3 DEF TypeOK
      <3>2. k \in 0 .. MaxStarts
        BY <1>1, <1>4 DEF Attempt
      <3> QED BY <1>3, <3>1, <3>2
    <2>2. chState' \in [Channel -> {"kNew", "kAdded", "kDeleted"}]
          /\ events_' \in [Channel -> SUBSET {"in", "out"}]
      BY <1>1, <1>3 DEF TypeOK, newEvents, newState
    <2>3. sock' \in [Fd -> {"none", "connecting", "open", "eof", "refused", "reset", "eof reset", "gone"}]
      BY <1>2 DEF TypeOK
    <2>4. DOMAIN epoll' \subseteq Fd
          /\ \A g \in DOMAIN epoll' : epoll'[g] \in [channel : Channel, events : SUBSET {"in", "out"}]
      BY <1>1, <1>7
    <2>5. state_' \in {"kDisconnected", "kConnecting", "kConnected"} /\ channel_' \in Attempt \cup {None}
      BY <1>1, <1>3
    <2>6. connection_' \in Attempt \cup {None} /\ held' \subseteq Attempt
          /\ conn' \in [Attempt -> {"none", "kConnected", "kDisconnected", "destroyed"}]
      BY <1>3 DEF TypeOK
    <2>7. /\ cur' \in Channel /\ revents_' \subseteq {"in", "out", "err"} /\ quit_' \in BOOLEAN
          /\ pc' \in {"main", "loop", "error", "read", "down", "write", "up", "ended"}
      BY <1>3 DEF TypeOK
    <2> QED BY <2>1, <2>2, <2>3, <2>4, <2>5, <2>6, <2>7 DEF TypeOK
  <1>9. /\ \A j \in Attempt : Holds(j)' <=> Holds(j) \/ j = k
        /\ Open' = Open \cup {f}
        /\ fd'[k] = f /\ \A j \in Attempt \ {k} : fd'[j] = fd[j]
        /\ ~Holds(k)
    <2>1. Open' = Open \cup {f}
      <3>1. \A g \in Fd : sock'[g] = IF g = f THEN s ELSE sock[g]
        BY <1>2 DEF TypeOK
      <3>2. s # "none"
        OBVIOUS
      <3> QED BY <1>1, <3>1, <3>2 DEF Open
    <2>2. fd'[k] = f /\ \A j \in Attempt \ {k} : fd'[j] = fd[j]
      BY <1>1, <1>3 DEF TypeOK
    <2>3. \A j \in Attempt : Holds(j)' <=> Holds(j) \/ j = k
      BY <1>3, <1>5 DEF Holds, Live, Connecting
    <2> QED BY <1>1, <1>4, <1>5, <2>1, <2>2, <2>3 DEF Holds, Live
  <1>10. Lives'
    BY <1>1, <1>3, <1>4, <1>5 DEF Lives, Live, Connecting, Attempt, k
  <1>11. Descriptors'
    <2>1. \A j \in Attempt : fd'[j] <= j
      BY <1>1, <1>9 DEF Descriptors
    <2>2. \A j \in Attempt : Holds(j)' => fd'[j] \in Open'
      BY <1>9 DEF Descriptors
    <2>3. \A g \in Open' : \E j \in Attempt : Holds(j)' /\ fd'[j] = g
      BY <1>1, <1>9 DEF Descriptors
    <2>4. \A i, j \in Attempt : Holds(i)' /\ Holds(j)' /\ fd'[i] = fd'[j] => i = j
      BY <1>1, <1>9 DEF Descriptors
    <2> QED BY <2>1, <2>2, <2>3, <2>4 DEF Descriptors
  <1>12. Epolled'
    BY <1>1, <1>3, <1>5, <1>7, <1>9 DEF Epolled, Registered, Connecting
  <1>13. Handled'
    BY <1>3, <1>4 DEF Handled, OfConnector, me
  <1> QED BY <1>8, <1>10, <1>11, <1>12, <1>13

\* A failed connect gives its descriptor back, once, however many callbacks report it.
LEMMA FailedInv ==
  ASSUME Inv, OfConnector, AtConnector, pc \in {"error", "write"}, pc' \in {"read", "loop"},
         newEvents(cur, {}), newState(cur, {}), state_' = "kDisconnected",
         sock' = close(myFd), epoll' = Without(myFd), quit_' = TRUE,
         UNCHANGED <<started, fd, channel_, conn, connection_, held, cur, revents_>>
  PROVE  Inv'
  <1> USE DEF Inv
  <1>1. me \in Attempt /\ cur \in Channel
    BY DEF TypeOK, Channel, me
  <1>2. \A j \in Attempt : conn[j] # "kConnected"
    BY DEF AtConnector, Lives, Connecting
  <1>3. \A j \in Attempt : Holds(j)' <=> Holds(j) /\ j # me
    <2>1. ~Live(me)
      BY <1>1 DEF AtConnector, Lives, Descriptors, Holds, Live, Connecting, myFd, me
    <2> QED BY <1>1, <2>1 DEF AtConnector, Holds, Live, Connecting
  <1>4. Open' = Open \ {myFd}
    BY DEF close, Open, TypeOK
  <1>5. \A j \in Attempt : Holds(j) /\ j # me => fd[j] # myFd
    BY <1>1 DEF AtConnector, Descriptors, Holds, myFd, me
  <1>6. DOMAIN epoll' = {}
    <2>1. DOMAIN epoll \subseteq {myFd}
      BY <1>2 DEF AtConnector, Epolled, Connecting, myFd, me
    <2> QED BY <2>1 DEF Without
  <1>7. TypeOK'
    <2>1. chState' \in [Channel -> {"kNew", "kAdded", "kDeleted"}]
          /\ events_' \in [Channel -> SUBSET {"in", "out"}]
      BY <1>1 DEF TypeOK, newEvents, newState
    <2>2. sock' \in [Fd -> {"none", "connecting", "open", "eof", "refused", "reset", "eof reset", "gone"}]
      BY DEF TypeOK, close
    <2> QED BY <1>6, <2>1, <2>2 DEF TypeOK
  <1>8. Lives'
    BY <1>2 DEF Lives, Live, Connecting
  <1>9. Descriptors'
    <2>1. \A j \in Attempt : fd'[j] <= j
      BY DEF Descriptors
    <2>2. \A j \in Attempt : Holds(j)' => fd'[j] \in Open'
      BY <1>3, <1>4, <1>5 DEF Descriptors
    <2>3. \A g \in Open' : \E j \in Attempt : Holds(j)' /\ fd'[j] = g
      BY <1>3, <1>4 DEF Descriptors, myFd, me
    <2>4. \A i, j \in Attempt : Holds(i)' /\ Holds(j)' /\ fd'[i] = fd'[j] => i = j
      BY <1>3 DEF Descriptors
    <2> QED BY <2>1, <2>2, <2>3, <2>4 DEF Descriptors
  <1>10. Epolled'
    BY <1>2, <1>6 DEF Epolled, Connecting
  <1>11. Handled'
    BY <1>4 DEF Handled, AtConnector, OfConnector, me, myFd
  <1> QED BY <1>7, <1>8, <1>9, <1>10, <1>11

LEMMA HandleErrorInv == ASSUME Inv, HandleError PROVE Inv'
  <1>1. OfConnector /\ AtConnector
    BY DEF HandleError, Inv, Handled
  <1> QED BY <1>1, FailedInv DEF HandleError, Quit

LEMMA ConnectFailedInv == ASSUME Inv, ConnectFailed PROVE Inv'
  <1>1. OfConnector /\ AtConnector
    BY DEF ConnectFailed, Inv, Handled
  <1> QED BY <1>1, FailedInv DEF ConnectFailed, Quit

LEMMA ReadErrorInv == ASSUME Inv, ReadError PROVE Inv'
  <1> USE DEF Inv
  <1>1. /\ ~OfConnector /\ sock[myFd] = "reset" /\ sock' = [sock EXCEPT ![myFd] = "gone"]
        /\ pc' = "write" /\ UNCHANGED <<clientVars, channelVars, cur, revents_, quit_>>
    BY DEF ReadError
  <1>2. TypeOK'
    BY <1>1 DEF TypeOK, clientVars, channelVars
  <1>3. me \in Attempt /\ conn[me] = "kConnected" /\ myFd \in Open
    BY DEF ReadError, Handled, TypeOK, Channel, me, myFd, Descriptors, Holds, Live
  <1>4. Open' = Open
    BY <1>1, <1>3 DEF Open, TypeOK
  <1>5. Lives'
    BY <1>1 DEF Lives, Live, Connecting, clientVars
  <1>6. Descriptors'
    BY <1>1, <1>4 DEF Descriptors, Holds, Live, Connecting, clientVars
  <1>7. Epolled'
    <2>1. ASSUME NEW j \in Attempt, conn[j] = "kConnected"
          PROVE  sock'[fd[j]] \notin {"none", "connecting", "refused"}
      <3>1. fd[j] \in Fd /\ sock[fd[j]] \notin {"none", "connecting", "refused"}
        BY <2>1 DEF Epolled, Descriptors, Holds, Live, Open
      <3> QED BY <1>1, <3>1 DEF TypeOK
    <2> QED BY <1>1, <2>1 DEF Epolled, Registered, Connecting, clientVars, channelVars
  <1>8. Handled'
    BY <1>1 DEF Handled, OfConnector
  <1> QED BY <1>2, <1>5, <1>6, <1>7, <1>8

LEMMA ReadEofInv == ASSUME Inv, ReadEof PROVE Inv'
  <1> USE DEF Inv
  <1>1. /\ conn' = [conn EXCEPT ![me] = "kDisconnected"]
        /\ newEvents(cur, {}) /\ newState(cur, {}) /\ epoll' = newEpoll(cur, myFd, {})
        /\ pc' = "down"
        /\ UNCHANGED <<started, fd, sock, state_, channel_, connection_, held, cur, revents_, quit_>>
    BY DEF ReadEof
  <1>2. /\ me \in Attempt /\ cur \in Channel /\ cur = <<"connection", me>> /\ ~OfConnector
        /\ conn[me] = "kConnected" /\ connection_ = me /\ state_ = "kConnected" /\ myFd \in Open
    <2>1. pc = "read" /\ ~OfConnector /\ cur \in Channel
      BY DEF ReadEof, TypeOK
    <2>2. me \in Attempt /\ cur = <<"connection", me>>
      BY <2>1 DEF Channel, OfConnector, me
    <2>3. conn[me] = "kConnected"
      BY <2>1 DEF Handled
    <2>4. connection_ = me /\ state_ = "kConnected" /\ myFd \in Open
      BY <2>2, <2>3 DEF Lives, Descriptors, Holds, Live, myFd, me
    <2> QED BY <2>1, <2>2, <2>3, <2>4
  <1>3. Registered(cur, myFd, {"in"})
    BY <1>2 DEF Epolled, myFd, me
  <1>4. DOMAIN epoll' = {}
    <2>1. epoll' = Without(myFd)
      BY <1>1, <1>2, <1>3 DEF newEpoll, Registered
    <2>2. DOMAIN epoll \subseteq {myFd}
      BY <1>2 DEF Epolled, Lives, Connecting, myFd, me
    <2> QED BY <2>1, <2>2 DEF Without
  <1>5. TypeOK'
    <2>1. chState' \in [Channel -> {"kNew", "kAdded", "kDeleted"}]
          /\ events_' \in [Channel -> SUBSET {"in", "out"}]
      BY <1>1, <1>2 DEF TypeOK, newEvents, newState
    <2>2. conn' \in [Attempt -> {"none", "kConnected", "kDisconnected", "destroyed"}]
      BY <1>1 DEF TypeOK
    <2> QED BY <1>1, <1>4, <2>1, <2>2 DEF TypeOK
  <1>6. conn'[me] = "kDisconnected" /\ \A j \in Attempt \ {me} : conn'[j] = conn[j]
    BY <1>1, <1>2 DEF TypeOK
  <1>7. \A j \in Attempt : conn'[j] # "kConnected" /\ (Live(j)' <=> Live(j))
    BY <1>2, <1>6 DEF Lives, Live
  <1>8. Lives'
    BY <1>1, <1>2, <1>6, <1>7 DEF Lives, Connecting, TypeOK
  <1>9. Descriptors'
    BY <1>1, <1>7 DEF Descriptors, Holds, Connecting, Open
  <1>10. Epolled'
    BY <1>1, <1>2, <1>4, <1>7 DEF Epolled, Connecting
  <1>11. Handled'
    BY <1>1, <1>2, <1>6 DEF Handled, OfConnector, me
  <1> QED BY <1>5, <1>8, <1>9, <1>10, <1>11

LEMMA ConnectedInv == ASSUME Inv, Connected PROVE Inv'
  <1> USE DEF Inv
  <1> DEFINE ch == <<"connection", me>>
  <1>1. /\ pc = "write" /\ OfConnector /\ ~getSocketError
        /\ state_' = "kConnected" /\ conn' = [conn EXCEPT ![me] = "kConnected"] /\ connection_' = me
        /\ events_' = [events_ EXCEPT ![cur] = {}, ![ch] = {"in"}]
        /\ chState' = [chState EXCEPT ![cur] = "kDeleted", ![ch] = "kAdded"]
        /\ epoll' = IF myFd \in DOMAIN disabled(myFd) THEN disabled(myFd)
                    ELSE With(myFd, Registration(ch, {"in"}))
        /\ pc' = "up"
        /\ UNCHANGED <<started, fd, sock, channel_, held, cur, revents_, quit_>>
    BY DEF Connected
  <1>2. /\ me \in Attempt /\ cur \in Channel /\ ch \in Channel /\ cur = <<"connector", me>> /\ cur # ch
    <2>1. cur \in Channel /\ me \in Attempt /\ cur = <<cur[1], me>> /\ cur[1] = "connector"
      <3>1. cur \in Channel /\ cur[1] = "connector"
        BY <1>1 DEF TypeOK, OfConnector
      <3> QED BY <3>1 DEF Channel, me
    <2>2. ch \in Channel
      BY <2>1 DEF Channel
    <2> QED BY <2>1, <2>2
  <1>3. /\ Connecting(me) /\ myFd \in Open
        /\ sock[myFd] \notin {"none", "connecting", "refused"}
    BY <1>1 DEF getSocketError, HasError, Handled, AtConnector, Open
  <1>4. Registered(cur, myFd, {"out"}) /\ DOMAIN epoll = {myFd}
    <2>1. Registered(cur, myFd, {"out"})
      BY <1>2, <1>3 DEF Epolled, myFd, me
    <2>2. DOMAIN epoll \subseteq {myFd}
      BY <1>2, <1>3 DEF Epolled, Lives, Connecting, myFd, me
    <2> QED BY <2>1, <2>2 DEF Registered
  <1> HIDE DEF ch
  <1>5. DOMAIN epoll' = {myFd} /\ epoll'[myFd] = Registration(ch, {"in"})
    <2>1. disabled(myFd) = Without(myFd)
      BY <1>3, <1>4 DEF disabled, newEpoll, Registered
    <2>2. epoll' = With(myFd, Registration(ch, {"in"}))
      BY <1>1, <2>1 DEF Without
    <2> QED BY <1>4, <2>2 DEF With
  <1>6. chState'[ch] = "kAdded" /\ events_'[ch] = {"in"}
    BY <1>1, <1>2 DEF TypeOK
  <1>7. Registration(ch, {"in"}) \in [channel : Channel, events : SUBSET {"in", "out"}]
    BY <1>2 DEF Registration
  <1>8. TypeOK'
    <2>1. chState' \in [Channel -> {"kNew", "kAdded", "kDeleted"}]
      BY <1>1 DEF TypeOK
    <2>2. events_' \in [Channel -> SUBSET {"in", "out"}]
      BY <1>1 DEF TypeOK
    <2>3. conn' \in [Attempt -> {"none", "kConnected", "kDisconnected", "destroyed"}]
      BY <1>1 DEF TypeOK
    <2>4. DOMAIN epoll' \subseteq Fd
      BY <1>3, <1>5 DEF Open
    <2> QED BY <1>1, <1>2, <1>5, <1>7, <2>1, <2>2, <2>3, <2>4 DEF TypeOK
  <1>9. conn'[me] = "kConnected" /\ \A j \in Attempt \ {me} : conn'[j] = conn[j]
    BY <1>1, <1>2 DEF TypeOK
  <1>10. \A j \in Attempt : /\ conn'[j] = "kConnected" => j = me
                            /\ Holds(j)' <=> Holds(j)
                            /\ Live(j) => Live(j)'
    BY <1>1, <1>2, <1>3, <1>9 DEF Lives, Holds, Live, Connecting
  <1>11. Lives'
    <2>1. ~(me > started)
      BY <1>2, <1>3 DEF Lives
    <2> QED BY <1>1, <1>9, <1>10, <2>1 DEF Lives, Connecting, TypeOK
  <1>12. Descriptors'
    BY <1>1, <1>10 DEF Descriptors, Open
  <1>13. Epolled'
    <2>1. \A j \in Attempt : ~Connecting(j)'
      BY <1>1 DEF Connecting
    <2>2. Registered(<<"connection", me>>, fd[me], {"in"})' /\ fd'[me] = fd[me]
      BY <1>1, <1>5, <1>6 DEF Registered, ch, me, myFd
    <2>3. me' = me
      BY <1>1 DEF me
    <2> QED BY <1>1, <1>2, <1>3, <1>5, <1>9, <1>10, <2>1, <2>2, <2>3 DEF Epolled, myFd, me
  <1>14. Handled'
    BY <1>1, <1>9 DEF Handled, OfConnector, me
  <1> QED BY <1>8, <1>11, <1>12, <1>13, <1>14

LEMMA UpReturnsInv == ASSUME Inv, UpReturns PROVE Inv'
  <1> USE DEF Inv
  <1>1. /\ pc' = "loop" /\ held' \subseteq held \cup {me}
        /\ UNCHANGED <<started, fd, sock, state_, channel_, conn, connection_, channelVars, cur,
                       revents_, quit_>>
    BY DEF UpReturns
  <1>2. me \in Attempt /\ Live(me)
    BY DEF UpReturns, Handled, Live, TypeOK, Channel, me
  <1>3. TypeOK'
    BY <1>1, <1>2 DEF TypeOK, channelVars
  <1>4. Lives'
    BY <1>1, <1>2 DEF Lives, Live, Connecting
  <1>5. Descriptors' /\ Epolled'
    BY <1>1 DEF Descriptors, Epolled, Holds, Live, Connecting, Open, Registered, channelVars
  <1>6. Handled'
    BY <1>1 DEF Handled
  <1> QED BY <1>3, <1>4, <1>5, <1>6

\* The last pointer to a connection that is down: its descriptor is closed, and no other.
LEMMA DestroyInv ==
  ASSUME Inv, NEW gone, gone \subseteq Attempt, \A k \in gone : conn[k] = "kDisconnected",
         destroy(gone), held' \subseteq Attempt, \A k \in held' : Live(k) /\ k \notin gone,
         connection_' \in {connection_, None},
         connection_' # connection_ => \A k \in Attempt : conn[k] # "kConnected",
         UNCHANGED <<started, fd, state_, channel_, chState, events_, cur, revents_>>,
         quit_' \in BOOLEAN, pc' \in {"write", "up", "down"}
  PROVE  TypeOK' /\ Lives' /\ Descriptors' /\ Epolled'
  <1> USE DEF Inv
  <1>1. /\ \A k \in Attempt : conn'[k] = IF k \in gone THEN "destroyed" ELSE conn[k]
        /\ \A f \in Fd : sock'[f] = IF \E k \in gone : fd[k] = f THEN "none" ELSE sock[f]
        /\ DOMAIN epoll' = {f \in DOMAIN epoll : \A k \in gone : fd[k] # f}
        /\ \A f \in DOMAIN epoll' : epoll'[f] = epoll[f]
    BY DEF destroy
  <1>2. TypeOK'
    <2>1. conn' \in [Attempt -> {"none", "kConnected", "kDisconnected", "destroyed"}]
      BY DEF destroy, TypeOK
    <2>2. sock' \in [Fd -> {"none", "connecting", "open", "eof", "refused", "reset", "eof reset", "gone"}]
      BY DEF destroy, TypeOK
    <2>3. DOMAIN epoll' \subseteq Fd /\ \A f \in DOMAIN epoll' :
            epoll'[f] \in [channel : Channel, events : SUBSET {"in", "out"}]
      BY <1>1 DEF TypeOK
    <2> QED BY <2>1, <2>2, <2>3 DEF TypeOK
  <1>3. \A j \in Attempt : /\ Holds(j)' <=> Holds(j) /\ j \notin gone
                           /\ conn'[j] = "kConnected" <=> conn[j] = "kConnected"
                           /\ Connecting(j)' <=> Connecting(j)
                           /\ Live(j)' <=> Live(j) /\ j \notin gone
    BY <1>1 DEF Lives, Holds, Live, Connecting
  <1>4. \A j \in Attempt \ gone, k \in gone : Holds(j) => fd[j] # fd[k]
    BY DEF Descriptors, Holds, Live
  <1>5. \A f \in Fd : f \in Open' <=> f \in Open /\ \A k \in gone : fd[k] # f
    BY <1>1 DEF Open
  <1>6. Open \subseteq Fd /\ Open' \subseteq Fd
    BY DEF Open
  <1>7. Lives'
    <2>1. \A k \in Attempt : k > started' => conn'[k] = "none" /\ ~Connecting(k)'
      BY <1>1, <1>3 DEF Lives
    <2>2. state_' = "kConnecting" => channel_' \in Attempt /\ conn'[channel_'] = "none"
      BY <1>1 DEF Lives
    <2>3. \A k \in Attempt : conn'[k] = "kConnected" => connection_' = k /\ state_' = "kConnected"
      BY <1>3 DEF Lives
    <2>4. \A k \in held' : Live(k)'
      BY <1>3
    <2> QED BY <2>1, <2>2, <2>3, <2>4 DEF Lives
  <1>8. Descriptors'
    <2>1. \A j \in Attempt : fd'[j] <= j
      BY DEF Descriptors
    <2>2. \A j \in Attempt : Holds(j)' => fd'[j] \in Open'
      BY <1>3, <1>4, <1>5, <1>6 DEF Descriptors
    <2>3. \A g \in Open' : \E j \in Attempt : Holds(j)' /\ fd'[j] = g
      BY <1>3, <1>5, <1>6 DEF Descriptors
    <2>4. \A i, j \in Attempt : Holds(i)' /\ Holds(j)' /\ fd'[i] = fd'[j] => i = j
      BY <1>3 DEF Descriptors
    <2> QED BY <2>1, <2>2, <2>3, <2>4 DEF Descriptors
  <1>9. ASSUME NEW j \in Attempt, Connecting(j) \/ conn[j] = "kConnected"
        PROVE  fd[j] \in Fd /\ sock'[fd[j]] = sock[fd[j]] /\ \A k \in gone : fd[k] # fd[j]
    <2>1. Holds(j) /\ j \notin gone
      BY <1>9 DEF Holds, Live, Lives, Connecting
    <2>2. fd[j] \in Fd
      BY <1>6, <2>1 DEF Descriptors
    <2> QED BY <1>1, <1>4, <2>1, <2>2
  <1>10. ASSUME NEW j \in Attempt, NEW ch, NEW es, Registered(ch, fd[j], es),
                Connecting(j) \/ conn[j] = "kConnected"
         PROVE  Registered(ch, fd[j], es)'
    <2>1. fd[j] \in DOMAIN epoll'
      BY <1>1, <1>9, <1>10 DEF Registered
    <2> QED BY <1>1, <1>10, <2>1 DEF Registered
  <1>11. Epolled'
    <2>1. ASSUME NEW j \in Attempt, Connecting(j)'
          PROVE  Registered(<<"connector", j>>, fd[j], {"out"})'
      <3>1. Connecting(j) /\ Registered(<<"connector", j>>, fd[j], {"out"})
        BY <1>3, <2>1 DEF Epolled
      <3> QED BY <1>10, <3>1
    <2>2. ASSUME NEW j \in Attempt, conn'[j] = "kConnected"
          PROVE  /\ Registered(<<"connection", j>>, fd[j], {"in"})'
                 /\ sock'[fd'[j]] \notin {"none", "connecting", "refused"}
      <3>1. /\ conn[j] = "kConnected" /\ Registered(<<"connection", j>>, fd[j], {"in"})
            /\ sock[fd[j]] \notin {"none", "connecting", "refused"}
        BY <1>3, <2>2 DEF Epolled
      <3> QED BY <1>9, <1>10, <3>1
    <2>3. \A f \in DOMAIN epoll' :
            \E k \in Attempt : fd'[k] = f /\ (Connecting(k)' \/ conn'[k] = "kConnected")
      BY <1>1, <1>3 DEF Epolled
    <2> QED BY <2>1, <2>2, <2>3 DEF Epolled
  <1> QED BY <1>2, <1>7, <1>8, <1>11

LEMMA DownReturnsInv == ASSUME Inv, DownReturns PROVE Inv'
  <1>1. /\ me \in Attempt /\ conn[me] = "kDisconnected" /\ connection_ = me /\ ~OfConnector
        /\ held \subseteq Attempt
    BY DEF DownReturns, Inv, Handled, TypeOK, Channel, me
  <1>2. PICK keeps \in BOOLEAN : held' = IF keeps THEN held \cup {me} ELSE held
    BY DEF DownReturns
  <1> DEFINE gone == {me} \ (held' \cup {connection_'})
  <1>3. /\ connection_' = None /\ destroy(gone) /\ pc' = "write"
        /\ UNCHANGED <<started, fd, state_, channel_, chState, events_, cur, revents_, quit_>>
    BY DEF DownReturns, removeConnection
  <1>4. \A k \in Attempt : conn[k] # "kConnected"
    BY <1>1 DEF Inv, Lives
  <1>5. held' \subseteq Attempt /\ \A k \in held' : Live(k) /\ k \notin gone
    BY <1>1, <1>2 DEF Inv, Lives, Live
  <1>6. gone \subseteq Attempt /\ (\A k \in gone : conn[k] = "kDisconnected") /\ quit_' \in BOOLEAN
    BY <1>1, <1>3 DEF Inv, TypeOK
  <1> HIDE DEF gone
  <1>7. TypeOK' /\ Lives' /\ Descriptors' /\ Epolled'
    BY <1>3, <1>4, <1>5, <1>6, DestroyInv
  <1>8. Handled'
    BY <1>1, <1>3 DEF Handled, OfConnector
  <1> QED BY <1>7, <1>8 DEF Inv

LEMMA ReleaseInv == ASSUME Inv, NEW k \in Attempt, Release(k) PROVE Inv'
  <1> DEFINE gone == {k} \ {connection_, me}
  <1>1. /\ pc \in {"up", "down"} /\ k \in held /\ held' = held \ {k} /\ destroy(gone)
        /\ UNCHANGED <<started, fd, state_, channel_, connection_, chState, events_, loopVars>>
    BY DEF Release
  <1>2. held' \subseteq Attempt /\ \A j \in held' : Live(j) /\ j \notin gone
    BY <1>1 DEF Inv, TypeOK, Lives
  <1>3. gone \subseteq Attempt /\ \A j \in gone : conn[j] = "kDisconnected"
    BY <1>1 DEF Inv, Lives, Live
  <1>4. me \in Attempt /\ me \notin gone
    BY DEF Inv, TypeOK, Channel, me
  <1> HIDE DEF gone
  <1>5. UNCHANGED <<cur, revents_, pc, quit_>> /\ quit_' \in BOOLEAN
    BY <1>1 DEF loopVars, Inv, TypeOK
  <1>6. TypeOK' /\ Lives' /\ Descriptors' /\ Epolled'
    BY <1>1, <1>2, <1>3, <1>5, DestroyInv
  <1>7. conn'[me] = conn[me]
    BY <1>1, <1>4 DEF destroy
  <1>8. Handled'
    BY <1>1, <1>5, <1>7 DEF Inv, Handled, OfConnector, me
  <1> QED BY <1>6, <1>8 DEF Inv

LEMMA NextInv == Inv /\ [Next]_vars => Inv'
  <1> SUFFICES ASSUME Inv, [Next]_vars PROVE Inv'
    OBVIOUS
  <1>1. CASE Handshake \/ PeerCloses \/ PeerResets
    BY <1>1, ChangesInv DEF Handshake, PeerCloses, PeerResets
  <1>2. CASE LoopStep
    BY <1>2, StartConnectingInv, StartFailsInv, PollInv, QuietInv, HandleErrorInv, ReadErrorInv,
       ReadEofInv, DownReturnsInv, ConnectFailedInv, ConnectedInv, UpReturnsInv DEF LoopStep
  <1>3. CASE UserQuits \/ UNCHANGED vars
    BY <1>3, QuietInv
  <1>4. ASSUME NEW k \in Attempt, Release(k) PROVE Inv'
    BY <1>4, ReleaseInv
  <1> QED BY <1>1, <1>2, <1>3, <1>4 DEF Next

LEMMA Inductive == Spec => []Inv
  BY InitInv, NextInv, PTL DEF Spec

-----------------------------------------------------------------------------
(***************************************************************************)
(* The properties.                                                         *)
(***************************************************************************)
\* The program only ever holds values of their types.
THEOREM TypeCorrect == Spec => []TypeOK
  <1>1. Inv => TypeOK
    BY DEF Inv
  <1> QED BY <1>1, Inductive, PTL

\* Connector::handleWrite tells user code only of a connection that the server has accepted,
\* and no handler closes its socket while it is up; it is the one that connection_ holds.
THEOREM UpIsConnectedTheorem == Spec => []UpIsConnected
  <1>1. Inv => UpIsConnected
    BY DEF Inv, Lives, Epolled, UpIsConnected
  <1> QED BY <1>1, Inductive, PTL

LEMMA OwnersHold ==
  ASSUME Inv
  PROVE  /\ \A o \in Owners : /\ o[2] \in Attempt /\ Holds(o[2])
                             /\ o = <<IF Live(o[2]) THEN "connection" ELSE "connector", o[2]>>
         /\ \A k \in Attempt : Connecting(k) => <<"connector", k>> \in Owners
         /\ \A k \in Attempt : Live(k) => <<"connection", k>> \in Owners
  <1> USE DEF Inv
  <1>1. Owners = {<<"connection", k>> : k \in {j \in Attempt : Live(j)}} \cup
                 {<<"connector", k>> : k \in {j \in Attempt : Connecting(j)}}
    <2>1. {channel_} \ (IF state_ = "kConnecting" THEN {} ELSE {channel_})
            = {j \in Attempt : Connecting(j)}
      BY DEF Lives, Connecting
    <2> QED BY <2>1 DEF Owners, Live
  <1>2. \A k \in Attempt : Connecting(k) => ~Live(k)
    BY DEF Lives, Connecting, Live
  <1> QED BY <1>1, <1>2 DEF Holds

\* No descriptor leaks in Connector, TcpClient or ~TcpConnection, none has two owners, and
\* ~Socket never finds its own closed.
THEOREM OneOwnerTheorem == Spec => []OneOwner
  <1>1. ASSUME Inv PROVE OneOwner
    <2>1. \A o \in Owners : fd[o[2]] \in Open
      BY <1>1, OwnersHold DEF Inv, Descriptors
    <2>2. ASSUME NEW f \in Open PROVE \E o \in Owners : fd[o[2]] = f
      <3>1. PICK k \in Attempt : Holds(k) /\ fd[k] = f
        BY <1>1 DEF Inv, Descriptors
      <3>2. <<"connection", k>> \in Owners \/ <<"connector", k>> \in Owners
        BY <1>1, <3>1, OwnersHold DEF Holds
      <3> QED BY <3>1, <3>2
    <2>3. Open = {fd[o[2]] : o \in Owners}
      BY <2>1, <2>2
    <2>4. ASSUME NEW o \in Owners, NEW p \in Owners, fd[o[2]] = fd[p[2]] PROVE o = p
      <3>1. o[2] = p[2]
        BY <1>1, <2>4, OwnersHold DEF Inv, Descriptors
      <3> QED BY <1>1, <3>1, OwnersHold
    <2> QED BY <2>3, <2>4 DEF OneOwner
  <1> QED BY <1>1, Inductive, PTL

\* epoll has the channel of the connect under way or of the connection that is up, with what
\* the Channel asks for, and nothing that a handler has disabled or destroyed.
THEOREM RegistrationsTheorem == Spec => []Registrations
  <1>1. ASSUME Inv PROVE Registrations
    <2> DEFINE waiting == {o \in Owners : o[1] = "connector" \/ conn[o[2]] = "kConnected"}
    <2>1. ASSUME NEW f \in DOMAIN epoll
          PROVE  /\ epoll[f].channel \in waiting /\ fd[epoll[f].channel[2]] = f
                 /\ chState[epoll[f].channel] = "kAdded"
                 /\ epoll[f].events = events_[epoll[f].channel] /\ events_[epoll[f].channel] # {}
      <3>1. PICK k \in Attempt : fd[k] = f /\ (Connecting(k) \/ conn[k] = "kConnected")
        BY <1>1 DEF Inv, Epolled
      <3>2. CASE Connecting(k)
        <4>1. Registered(<<"connector", k>>, f, {"out"}) /\ <<"connector", k>> \in Owners
          BY <1>1, <3>1, <3>2, OwnersHold DEF Inv, Epolled
        <4> QED BY <3>1, <4>1 DEF Registered, Registration
      <3>3. CASE conn[k] = "kConnected"
        <4>1. Registered(<<"connection", k>>, f, {"in"}) /\ <<"connection", k>> \in Owners
          BY <1>1, <3>1, <3>3, OwnersHold DEF Inv, Epolled, Live
        <4> QED BY <3>1, <3>3, <4>1 DEF Registered, Registration
      <3> QED BY <3>1, <3>2, <3>3
    <2>2. ASSUME NEW o \in waiting PROVE \E f \in DOMAIN epoll : epoll[f].channel = o
      <3>1. /\ o[2] \in Attempt /\ Holds(o[2])
            /\ o = <<IF Live(o[2]) THEN "connection" ELSE "connector", o[2]>>
        BY <1>1, OwnersHold
      <3>2. CASE conn[o[2]] = "kConnected"
        <4>1. o = <<"connection", o[2]>>
          BY <3>1, <3>2 DEF Live
        <4>2. Registered(o, fd[o[2]], {"in"})
          BY <1>1, <3>1, <3>2, <4>1 DEF Inv, Epolled
        <4> QED BY <4>2 DEF Registered, Registration
      <3>3. CASE conn[o[2]] # "kConnected"
        <4>1. Connecting(o[2]) /\ o = <<"connector", o[2]>>
          BY <3>1, <3>3 DEF Holds
        <4>2. Registered(o, fd[o[2]], {"out"})
          BY <1>1, <3>1, <4>1 DEF Inv, Epolled
        <4> QED BY <4>2 DEF Registered, Registration
      <3> QED BY <3>2, <3>3
    <2>3. {epoll[f].channel : f \in DOMAIN epoll} = waiting
      BY <2>1, <2>2
    <2>4. ASSUME NEW f \in DOMAIN epoll, NEW g \in DOMAIN epoll PROVE f = g
      BY <1>1 DEF Inv, Epolled, Lives, Connecting
    <2> QED BY <2>1, <2>3, <2>4 DEF Registrations
  <1> QED BY <1>1, Inductive, PTL
=============================================================================
