--------------------------- MODULE TcpServerProofs ---------------------------
(***************************************************************************)
(* The life of a connection, for any finite set of clients: its channel is *)
(* registered while it is open, it is destroyed only when it is closed and *)
(* nobody holds it, no pointer in a batch dangles, and user code is told   *)
(* of its begin and its end.                                               *)
(*                                                                         *)
(* The argument: the connections that wait in a batch are open and not the *)
(* one being handled, and only the latter can be closed by a step, so that *)
(* nothing in the batch is destroyed before its turn (Batch).  That a      *)
(* batch has each channel once is the pigeonhole principle.  A connection  *)
(* that is open is in the map and registered (Objects, Channels); one that *)
(* is closed is registered never again, since user code does not send to   *)
(* it.                                                                     *)
(***************************************************************************)
EXTENDS TcpServer, SequenceTheorems, FiniteSetTheorems, TLAPS

IsOpen(c) == state_[c] \in {"kConnected", "kDisconnecting"}

Objects ==
  /\ \A c \in Conn : peer[c] \in {"none", "backlog"} <=> state_[c] = "none"
  /\ \A c \in Conn : state_[c] = "none" => c \notin destroyed /\ c \notin output
  /\ held \cap destroyed = {}
  /\ pc # "ended" => \A c \in Conn : state_[c] # "none" => c \in connections_ \cup held \cup destroyed
  /\ pc # "ended" => \A c \in Conn : IsOpen(c) => c \in connections_
  /\ \A c \in connections_ : ~IsOpen(c) => cur = c /\ pc \in {"down"} \cup Stopped
  /\ pc = "ended" => connections_ = {} /\ destroyed = {c \in Conn : state_[c] # "none"} \ held

Told(s) == CASE s = "none" -> <<>> [] s = "kDisconnected" -> <<"up", "down">> [] OTHER -> <<"up">>
CallsAgree == \A c \in Conn : calls[c] = Told(state_[c])

Channels ==
  /\ \A c \in Live : IsOpen(c) =>
       /\ c \in Registered /\ chState[c] = "kAdded"
       /\ epoll[c] = events_[c] /\ "in" \in events_[c]
       /\ isWriting(c) <=> c \in output
  /\ \A c \in Conn : state_[c] = "kDisconnected" =>
       c \notin Registered /\ chState[c] = "kDeleted" /\ events_[c] = {}

Entry == (Conn \cup {acceptor}) \X SUBSET {"in", "out"}

Batch ==
  /\ activeChannels_ \in Seq(Entry)
  /\ \A i \in DOMAIN activeChannels_ : LET c == activeChannels_[i][1] IN
       c # acceptor => c # cur /\ IsOpen(c)
  /\ \A i, j \in DOMAIN activeChannels_ : activeChannels_[i][1] = activeChannels_[j][1] => i = j
  /\ pc \in {"loop", "server", "start", "poll", "ended"} => activeChannels_ = <<>>

Where ==
  /\ pc \in {"loop", "server", "start", "poll", "dispatch", "ended"} => cur = acceptor
  /\ pc \in {"read", "up", "message", "complete"} => cur # acceptor /\ IsOpen(cur)
  /\ pc = "down" => cur # acceptor /\ state_[cur] = "kDisconnected" /\ cur \in connections_
  /\ pc = "write" => cur # acceptor /\ state_[cur] # "none"

Inv == TypeOK /\ Objects /\ CallsAgree /\ Channels /\ Batch /\ Where
-----------------------------------------------------------------------------
(***************************************************************************)
(* The batch.                                                              *)
(***************************************************************************)
\* A list of a finite set, as long as the set and with all of it, has each element once.
LEMMA OrderedOnce ==
  ASSUME NEW S, IsFiniteSet(S), NEW s \in Orders(S)
  PROVE  /\ s \in Seq(S) /\ DOMAIN s = 1 .. Len(s)
         /\ \A i, j \in DOMAIN s : s[i] = s[j] => i = j
  <1>1. Cardinality(S) \in Nat
    BY FS_CardinalityType
  <1>2. s \in [1 .. Cardinality(S) -> S] /\ \A x \in S : \E i \in DOMAIN s : s[i] = x
    BY DEF Orders
  <1>3. s \in Seq(S) /\ DOMAIN s = 1 .. Len(s)
    BY <1>1, <1>2
  <1>4. \A i, j \in DOMAIN s : s[i] = s[j] => i = j
    <2> DEFINE n == Cardinality(S)
    <2>1. IsFiniteSet(1 .. n) /\ Cardinality(1 .. n) = n
      BY <1>1, FS_Interval
    <2>2. s \in Surjection(1 .. n, S)
      BY <1>2 DEF Surjection
    <2>3. s \in Injection(1 .. n, S)
      BY <2>1, <2>2, FS_SurjSameCardinalityImpliesInj
    <2> QED BY <1>2, <2>3 DEF Injection, IsInjective
  <1> QED BY <1>3, <1>4

\* What is left of the batch behind its first channel.
LEMMA TailBatch ==
  ASSUME Inv, activeChannels_ # <<>>
  PROVE  /\ Head(activeChannels_) \in Entry /\ Tail(activeChannels_) \in Seq(Entry)
         /\ Head(activeChannels_) = activeChannels_[1] /\ 1 \in DOMAIN activeChannels_
         /\ \A i \in DOMAIN Tail(activeChannels_) :
              /\ i + 1 \in DOMAIN activeChannels_ /\ Tail(activeChannels_)[i] = activeChannels_[i + 1]
              /\ Tail(activeChannels_)[i][1] # Head(activeChannels_)[1]
         /\ \A i, j \in DOMAIN Tail(activeChannels_) :
              Tail(activeChannels_)[i][1] = Tail(activeChannels_)[j][1] => i = j
  <1> DEFINE a == activeChannels_
  <1>1. a \in Seq(Entry) /\ a # <<>> /\ \A i, j \in DOMAIN a : a[i][1] = a[j][1] => i = j
    BY DEF Inv, Batch
  <1> HIDE DEF a
  <1>2. /\ Head(a) = a[1] /\ Head(a) \in Entry /\ Tail(a) \in Seq(Entry)
        /\ Len(Tail(a)) = Len(a) - 1 /\ \A i \in 1 .. Len(Tail(a)) : Tail(a)[i] = a[i + 1]
    BY <1>1, HeadTailProperties
  <1>3. DOMAIN a = 1 .. Len(a) /\ DOMAIN Tail(a) = 1 .. Len(Tail(a)) /\ Len(a) \in Nat /\ Len(a) > 0
    BY <1>1, <1>2
  <1>4. \A i \in DOMAIN Tail(a) : i + 1 \in DOMAIN a /\ i + 1 # 1 /\ Tail(a)[i] = a[i + 1]
    BY <1>2, <1>3
  <1>5. 1 \in DOMAIN a
    BY <1>3
  <1>6. \A i \in DOMAIN Tail(a) : Tail(a)[i][1] # Head(a)[1]
    BY <1>1, <1>2, <1>4, <1>5
  <1>7. \A i, j \in DOMAIN Tail(a) : Tail(a)[i][1] = Tail(a)[j][1] => i = j
    <2>1. ASSUME NEW i \in DOMAIN Tail(a), NEW j \in DOMAIN Tail(a), Tail(a)[i][1] = Tail(a)[j][1]
          PROVE  i = j
      <3>1. i + 1 = j + 1
        BY <1>1, <1>4, <2>1
      <3> QED BY <1>3, <3>1
    <2> QED BY <2>1
  <1> QED BY <1>2, <1>4, <1>5, <1>6, <1>7 DEF a
-----------------------------------------------------------------------------
(***************************************************************************)
(* Steps that leave connections and channels alone.                        *)
(***************************************************************************)
LEMMA InitInv == Init => Inv
  <1> SUFFICES ASSUME Init PROVE Inv
    OBVIOUS
  <1>1. TypeOK
    <2>1. DOMAIN epoll = {} /\ DOMAIN activeChannels_ = {} /\ Live = {}
      BY DEF Init, Live
    <2>2. calls \in [Conn -> Seq({"up", "down"})]
      BY EmptySeq DEF Init
    <2> QED BY <2>1, <2>2 DEF Init, TypeOK, Registered
  <1>2. Objects /\ CallsAgree
    BY DEF Init, Objects, CallsAgree, Told, IsOpen
  <1>3. Channels
    BY DEF Init, Channels, Live, IsOpen
  <1>4. Batch /\ Where
    BY EmptySeq DEF Init, Batch, Where
  <1> QED BY <1>1, <1>2, <1>3, <1>4 DEF Inv

\* How the thread moves on when it does not remove a connection.
Moves ==
  \/ UNCHANGED <<pc, cur>>
  \/ pc \notin {"down"} \cup Stopped /\ pc' # "ended"
  \/ pc = "down" /\ pc' \in Stopped \ {"ended"} /\ cur' = cur

ObjectTypes ==
  /\ peer \in [Conn -> {"none", "backlog", "open", "closed", "reset", "gone"}]
  /\ unread \subseteq Conn /\ output \subseteq Conn /\ shut \subseteq Conn
  /\ connections_ \subseteq Live /\ held \subseteq Live /\ destroyed \subseteq Conn
  /\ state_ \in [Conn -> {"none", "kConnected", "kDisconnecting", "kDisconnected"}]
  /\ chState \in [Conn -> {"kNew", "kAdded", "kDeleted"}]
  /\ events_ \in [Conn -> SUBSET {"in", "out"}]
  /\ Registered \subseteq Live /\ \A c \in Registered : epoll[c] \subseteq {"in", "out"}
  /\ calls \in [Conn -> Seq({"up", "down"})]

LoopTypes ==
  /\ cur \in Conn \cup {acceptor} /\ revents_ \subseteq {"in", "out"} /\ quit_ \in BOOLEAN
  /\ pc \in {"loop", "server", "start", "poll", "dispatch", "read", "write"} \cup Callbacks \cup Stopped

LEMMA TypeParts == TypeOK <=> /\ ObjectTypes /\ LoopTypes
                             /\ \A i \in DOMAIN activeChannels_ : activeChannels_[i][1] \in Conn \cup {acceptor}
  BY DEF TypeOK, ObjectTypes, LoopTypes

\* What the clients do, and what the thread does without a connection or a channel.
LEMMA SameObjects ==
  ASSUME Inv, UNCHANGED <<connVars, chanVars>>, Moves, unread' \subseteq Conn,
         peer' \in [Conn -> {"none", "backlog", "open", "closed", "reset", "gone"}],
         \A c \in Conn : peer'[c] \in {"none", "backlog"} <=> peer[c] \in {"none", "backlog"}
  PROVE  ObjectTypes' /\ Objects' /\ CallsAgree' /\ Channels'
  <1> USE DEF Inv, connVars, chanVars
  <1>1. ObjectTypes'
    BY TypeParts DEF ObjectTypes, Live, Registered
  <1>2. Objects'
    BY DEF Objects, IsOpen, Moves, Stopped
  <1>3. CallsAgree' /\ Channels'
    BY DEF CallsAgree, Channels, Live, IsOpen, Registered, isWriting
  <1> QED BY <1>1, <1>2, <1>3

\* A batch stays sound as long as a step closes no connection but the one being handled.
LEMMA SameBatch ==
  ASSUME Inv, UNCHANGED activeChannels_, cur' \in {cur, acceptor},
         \A c \in Conn : c # cur /\ IsOpen(c) => IsOpen(c)',
         pc' \in {"loop", "server", "start", "poll", "ended"} => activeChannels_ = <<>>
  PROVE  Batch' /\ \A i \in DOMAIN activeChannels_' : activeChannels_'[i][1] \in Conn \cup {acceptor}
  <1>1. \A i \in DOMAIN activeChannels_ : activeChannels_[i][1] \in Conn \cup {acceptor}
    BY DEF Inv, TypeOK
  <1>2. Batch'
    BY <1>1 DEF Inv, Batch, IsOpen
  <1> QED BY <1>1, <1>2

LEMMA ClientsInv ==
  ASSUME Inv, NEW c \in Conn, Connect(c) \/ PeerSends(c) \/ PeerCloses(c) \/ PeerResets(c)
  PROVE  Inv'
  <1>1. UNCHANGED <<connVars, chanVars, loopVars>> /\ Moves
    BY DEF Connect, PeerSends, PeerCloses, PeerResets, Moves, loopVars
  <1>2. /\ unread' \subseteq Conn
        /\ peer' \in [Conn -> {"none", "backlog", "open", "closed", "reset", "gone"}]
        /\ \A d \in Conn : peer'[d] \in {"none", "backlog"} <=> peer[d] \in {"none", "backlog"}
    BY DEF Connect, PeerSends, PeerCloses, PeerResets, Inv, TypeOK
  <1>3. ObjectTypes' /\ Objects' /\ CallsAgree' /\ Channels'
    BY <1>1, <1>2, SameObjects
  <1>4. Batch' /\ TypeOK'
    <2>1. Batch'
      BY <1>1 DEF Inv, Batch, IsOpen, connVars, loopVars
    <2> QED BY <1>1, <1>3, <2>1 DEF Inv, loopVars, ObjectTypes, TypeOK
  <1>5. Where'
    BY <1>1 DEF Inv, Where, connVars, loopVars, IsOpen
  <1> QED BY <1>3, <1>4, <1>5 DEF Inv

LEMMA Types ==
  ASSUME Inv
  PROVE  /\ peer \in [Conn -> {"none", "backlog", "open", "closed", "reset", "gone"}]
         /\ cur \in Conn \cup {acceptor} /\ quit_ \in BOOLEAN /\ revents_ \subseteq {"in", "out"}
         /\ unread \subseteq Conn
  BY DEF Inv, TypeOK

\* The thread's steps that only move on.
LEMMA MovesInv ==
  ASSUME Inv, UNCHANGED <<connVars, chanVars, activeChannels_>>, Moves,
         unread' \subseteq unread,
         \A c \in Conn : peer'[c] = peer[c] \/ (peer[c] = "reset" /\ peer'[c] = "gone"),
         peer' \in [Conn -> {"none", "backlog", "open", "closed", "reset", "gone"}],
         cur' \in {cur, acceptor}, revents_' \in {revents_, {}}, quit_' \in BOOLEAN,
         pc' \in {"loop", "server", "start", "poll", "dispatch", "read", "write"} \cup Callbacks \cup Stopped,
         pc' \in {"loop", "server", "start", "poll", "ended"} => activeChannels_ = <<>>,
         Where'
  PROVE  Inv'
  <1>1. unread' \subseteq Conn
        /\ \A c \in Conn : peer'[c] \in {"none", "backlog"} <=> peer[c] \in {"none", "backlog"}
    BY DEF Inv, TypeOK
  <1>2. ObjectTypes' /\ Objects' /\ CallsAgree' /\ Channels'
    BY <1>1, SameObjects
  <1>3. Batch' /\ \A i \in DOMAIN activeChannels_' : activeChannels_'[i][1] \in Conn \cup {acceptor}
    BY SameBatch DEF connVars, IsOpen
  <1>4. LoopTypes'
    BY DEF Inv, TypeOK, LoopTypes, Callbacks, Stopped
  <1> QED BY <1>2, <1>3, <1>4, TypeParts DEF Inv, TypeOK, ObjectTypes, LoopTypes

LEMMA BootInv == ASSUME Inv, ConstructLoop \/ ConstructServer \/ Start \/ EndBatch PROVE Inv'
  <1>1. /\ UNCHANGED <<sockVars, connVars, chanVars, activeChannels_, cur, revents_, quit_>>
        /\ pc \in {"loop", "server", "start", "dispatch"} /\ pc' \in {"server", "start", "poll", "aborted"}
        /\ activeChannels_ = <<>>
    BY DEF ConstructLoop, ConstructServer, Start, EndBatch, mayAbort, Inv, Batch
  <1>2. Moves /\ Where'
    BY <1>1 DEF Moves, Stopped, Where, Inv
  <1>3. peer' \in [Conn -> {"none", "backlog", "open", "closed", "reset", "gone"}] /\ quit_' \in BOOLEAN
    BY <1>1, Types DEF sockVars
  <1>4. /\ UNCHANGED <<connVars, chanVars, activeChannels_>> /\ unread' \subseteq unread
        /\ \A c \in Conn : peer'[c] = peer[c]
        /\ pc' \in {"loop", "server", "start", "poll", "dispatch", "read", "write"} \cup Callbacks \cup Stopped
    BY <1>1 DEF sockVars, Stopped
  <1> QED BY <1>1, <1>2, <1>3, <1>4, MovesInv

LEMMA ReadMovesInv == ASSUME Inv, SkipRead \/ ReadData \/ MessageReturns \/ ReadError PROVE Inv'
  <1>1. /\ UNCHANGED <<connVars, chanVars, activeChannels_, cur, revents_, quit_>>
        /\ unread' \subseteq unread
        /\ pc \in {"read", "message"} /\ pc' \in {"message", "write"} /\ cur \in Conn
    BY DEF SkipRead, ReadData, MessageReturns, ReadError, sockVars, Inv, Where, TypeOK
  <1>2. /\ \A c \in Conn : peer'[c] = peer[c] \/ (peer[c] = "reset" /\ peer'[c] = "gone")
        /\ peer' \in [Conn -> {"none", "backlog", "open", "closed", "reset", "gone"}]
    <2>1. CASE ReadError
      BY <1>1, <2>1, Types DEF ReadError
    <2>2. CASE SkipRead \/ ReadData \/ MessageReturns
      BY <2>2, Types DEF SkipRead, ReadData, MessageReturns, sockVars
    <2> QED BY <2>1, <2>2
  <1>3. Moves /\ Where'
    BY <1>1 DEF Moves, Stopped, Where, Inv, connVars, IsOpen
  <1>4. quit_' \in BOOLEAN
    BY <1>1 DEF Inv, TypeOK
  <1> QED BY <1>1, <1>2, <1>3, <1>4, MovesInv DEF Callbacks

LEMMA LostType ==
  ASSUME Inv, NEW c, NEW next, c \in Conn, failedWrite(c, next)
  PROVE  /\ \A d \in Conn : peer'[d] = peer[d] \/ (peer[d] = "reset" /\ peer'[d] = "gone")
         /\ peer' \in [Conn -> {"none", "backlog", "open", "closed", "reset", "gone"}]
         /\ pc' \in {next, "killed"} /\ cur' \in {cur, acceptor} /\ revents_' \in {revents_, {}}
         /\ cur' = IF pc' = "dispatch" THEN acceptor ELSE cur
  <1>1. \A d \in Conn : peer'[d] = peer[d] \/ (peer[d] = "reset" /\ peer'[d] = "gone")
    BY Types DEF failedWrite
  <1>2. peer' \in [Conn -> {"none", "backlog", "open", "closed", "reset", "gone"}]
    BY Types DEF failedWrite
  <1> QED BY <1>1, <1>2 DEF failedWrite, returns

LEMMA WriteMovesInv == ASSUME Inv, SkipWrite \/ WriteFails \/ WriteSome PROVE Inv'
  <1>1. /\ UNCHANGED <<connVars, chanVars, activeChannels_, quit_>> /\ unread' \subseteq unread
        /\ pc = "write" /\ cur \in Conn
    BY DEF SkipWrite, WriteFails, WriteSome, sockVars, Inv, Where, TypeOK
  <1>2. /\ \A c \in Conn : peer'[c] = peer[c] \/ (peer[c] = "reset" /\ peer'[c] = "gone")
        /\ peer' \in [Conn -> {"none", "backlog", "open", "closed", "reset", "gone"}]
        /\ pc' \in {"dispatch", "killed", "crashed"} /\ cur' \in {cur, acceptor} /\ revents_' \in {revents_, {}}
        /\ cur' = IF pc' = "dispatch" THEN acceptor ELSE cur
    <2>1. CASE WriteFails
      BY <1>1, <2>1, LostType DEF WriteFails
    <2>2. CASE SkipWrite \/ WriteSome
      BY <2>2, Types DEF SkipWrite, WriteSome, returns, sockVars
    <2> QED BY <2>1, <2>2
  <1>3. Moves /\ Where'
    BY <1>1, <1>2 DEF Moves, Stopped, Where, Inv
  <1>4. quit_' \in BOOLEAN
    BY <1>1 DEF Inv, TypeOK
  <1> QED BY <1>1, <1>2, <1>3, <1>4, MovesInv DEF Stopped

LEMMA UserMovesInv == ASSUME Inv, EventLoop_quit \/ \E c \in Conn : SendFails(c) PROVE Inv'
  <1>1. /\ UNCHANGED <<connVars, chanVars, activeChannels_>> /\ unread' \subseteq unread
        /\ pc \in Callbacks /\ quit_' \in BOOLEAN
    BY DEF EventLoop_quit, SendFails, InCallback, sockVars, Inv, TypeOK
  <1>2. /\ \A c \in Conn : peer'[c] = peer[c] \/ (peer[c] = "reset" /\ peer'[c] = "gone")
        /\ peer' \in [Conn -> {"none", "backlog", "open", "closed", "reset", "gone"}]
        /\ pc' \in {pc, "killed"} /\ cur' = cur /\ revents_' \in {revents_, {}}
    <2>1. ASSUME NEW c \in Conn, SendFails(c)
          PROVE  /\ \A d \in Conn : peer'[d] = peer[d] \/ (peer[d] = "reset" /\ peer'[d] = "gone")
                 /\ peer' \in [Conn -> {"none", "backlog", "open", "closed", "reset", "gone"}]
                 /\ pc' \in {pc, "killed"} /\ cur' = cur /\ revents_' \in {revents_, {}}
      <3>1. failedWrite(c, pc)
        BY <2>1 DEF SendFails
      <3> QED BY <1>1, <3>1, LostType DEF Callbacks
    <2>2. CASE EventLoop_quit
      BY <2>2, Types DEF EventLoop_quit, sockVars
    <2> QED BY <2>1, <2>2
  <1>3. Moves /\ Where'
    BY <1>1, <1>2 DEF Moves, Callbacks, Stopped, Where, Inv, connVars, IsOpen
  <1> QED BY <1>1, <1>2, <1>3, MovesInv DEF Callbacks, Stopped

\* epoll_wait reports channels of open connections, each once.
LEMMA PollInv == ASSUME Inv, Poll PROVE Inv'
  <1>1. /\ UNCHANGED <<sockVars, connVars, chanVars, cur, revents_, quit_>>
        /\ pc = "poll" /\ pc' = "dispatch" /\ cur = acceptor
    BY DEF Poll, Inv, Where
  <1>2. PICK report \in [Registered -> SUBSET {"in", "out"}] :
          activeChannels_' \in Orders({<<c, report[c]>> : c \in {d \in Registered : report[d] # {}}}
                         \cup (IF Backlog = {} THEN {} ELSE {<<acceptor, {"in"}>>}))
    BY DEF Poll
  <1> DEFINE D == {d \in Registered : report[d] # {}}
             A == {<<c, report[c]>> : c \in D}
             B == IF Backlog = {} THEN {} ELSE {<<acceptor, {"in"}>>}
             a == activeChannels_'
  <1>3. Registered \subseteq Conn /\ \A c \in Registered : IsOpen(c)
    BY DEF Inv, TypeOK, Channels, IsOpen, Live
  <1>4. IsFiniteSet(A \cup B)
    <2>1. IsFiniteSet(D)
      BY <1>3, ServerAssumption, FS_Subset
    <2>2. IsFiniteSet(A)
      <3> DEFINE f == [c \in D |-> <<c, report[c]>>]
      <3>1. f \in Surjection(D, A)
        BY DEF Surjection
      <3> HIDE DEF D, A, f
      <3> QED BY <2>1, <3>1, FS_Surjection
    <2>3. IsFiniteSet(B)
      BY FS_EmptySet, FS_Singleton
    <2> HIDE DEF A, B
    <2> QED BY <2>2, <2>3, FS_Union
  <1>5. ASSUME NEW x \in A \cup B
        PROVE  /\ x \in Entry /\ (x[1] = acceptor \/ x[1] \in Registered)
               /\ x = <<x[1], IF x[1] = acceptor THEN {"in"} ELSE report[x[1]]>>
    <2>1. CASE x \in A
      BY <1>3, <2>1, ServerAssumption DEF Entry
    <2>2. CASE x \in B
      BY <2>2 DEF Entry
    <2> QED BY <2>1, <2>2
  <1>6. /\ a \in Seq(A \cup B) /\ DOMAIN a = 1 .. Len(a)
        /\ \A i, j \in DOMAIN a : a[i] = a[j] => i = j
    <2>1. a \in Orders(A \cup B)
      BY <1>2
    <2> HIDE DEF A, B, a
    <2> QED BY <1>4, <2>1, OrderedOnce
  <1> HIDE DEF A, B, a
  <1>7. \A i \in DOMAIN a : a[i] \in A \cup B
    BY <1>6
  <1>8. a \in Seq(Entry)
    <2>1. \A i \in 1 .. Len(a) : a[i] \in Entry
      BY <1>5, <1>6, <1>7
    <2> QED BY <1>6, <2>1
  <1>9. \A i, j \in DOMAIN a : a[i][1] = a[j][1] => i = j
    <2>1. ASSUME NEW i \in DOMAIN a, NEW j \in DOMAIN a, a[i][1] = a[j][1] PROVE i = j
      <3>1. a[i] = a[j]
        BY <1>5, <1>7, <2>1
      <3> QED BY <1>6, <3>1
    <2> QED BY <2>1
  <1>10. Batch'
    <2>1. \A i \in DOMAIN a : a[i][1] # acceptor => a[i][1] # cur' /\ state_'[a[i][1]] \in {"kConnected", "kDisconnecting"}
      BY <1>1, <1>3, <1>5, <1>7 DEF IsOpen, connVars
    <2> QED BY <1>1, <1>8, <1>9, <2>1 DEF Batch, IsOpen, a
  <1>11. ObjectTypes' /\ Objects' /\ CallsAgree' /\ Channels'
    BY <1>1, Types, SameObjects DEF Moves, Stopped, sockVars
  <1>12. LoopTypes' /\ Where'
    BY <1>1 DEF LoopTypes, Where, Inv, TypeOK
  <1>13. \A i \in DOMAIN a : a[i][1] \in Conn \cup {acceptor}
    BY <1>3, <1>5, <1>7
  <1> QED BY <1>10, <1>11, <1>12, <1>13, TypeParts DEF Inv, TypeOK, ObjectTypes, LoopTypes, a

LEMMA NextInBatchInv == ASSUME Inv, HandleEvent \/ AcceptFails PROVE Inv'
  <1>1. /\ UNCHANGED <<sockVars, connVars, chanVars, quit_>>
        /\ pc = "dispatch" /\ activeChannels_ # <<>> /\ activeChannels_' = Tail(activeChannels_)
    BY DEF HandleEvent, AcceptFails
  <1> DEFINE h == Head(activeChannels_)  t == Tail(activeChannels_)
  <1>2. /\ h \in Entry /\ t \in Seq(Entry) /\ h = activeChannels_[1] /\ 1 \in DOMAIN activeChannels_
        /\ \A i \in DOMAIN t : /\ i + 1 \in DOMAIN activeChannels_ /\ t[i] = activeChannels_[i + 1]
                              /\ t[i][1] # h[1]
        /\ \A i, j \in DOMAIN t : t[i][1] = t[j][1] => i = j
    BY <1>1, TailBatch
  <1>3. \/ h[1] # acceptor /\ cur' = h[1] /\ revents_' = h[2] /\ pc' = "read"
        \/ UNCHANGED <<cur, revents_, pc>>
    BY DEF HandleEvent, AcceptFails
  <1> HIDE DEF h, t
  <1>4. h[1] # acceptor => h[1] \in Conn /\ IsOpen(h[1])
    BY <1>2 DEF Entry, Inv, Batch
  <1>5. cur = acceptor /\ h[1] \in Conn \cup {acceptor} /\ h[2] \subseteq {"in", "out"}
    BY <1>1, <1>2 DEF Inv, Where, Entry
  <1>6. ObjectTypes' /\ Objects' /\ CallsAgree' /\ Channels'
    BY <1>1, <1>3, Types, SameObjects DEF Moves, Stopped, sockVars
  <1>7. Batch'
    <2>1. \A i \in DOMAIN t : t[i][1] # acceptor => t[i][1] # cur' /\ state_'[t[i][1]] \in {"kConnected", "kDisconnecting"}
      BY <1>1, <1>2, <1>3, <1>5 DEF Inv, Batch, IsOpen, connVars
    <2> QED BY <1>1, <1>2, <1>3, <2>1 DEF Batch, IsOpen, t
  <1>8. LoopTypes' /\ Where'
    BY <1>1, <1>3, <1>4, <1>5 DEF LoopTypes, Where, Inv, TypeOK, IsOpen, connVars
  <1>9. \A i \in DOMAIN t : t[i][1] \in Conn \cup {acceptor}
    BY <1>2 DEF Inv, TypeOK
  <1> QED BY <1>1, <1>6, <1>7, <1>8, <1>9, TypeParts DEF Inv, TypeOK, ObjectTypes, LoopTypes, t
-----------------------------------------------------------------------------
(***************************************************************************)
(* Steps that change a connection.                                         *)
(***************************************************************************)
LEMMA UpdateChannel ==
  ASSUME ObjectTypes, NEW c \in Conn, NEW es \in SUBSET {"in", "out"}, updateChannel(c, es),
         es = {} => chState[c] = "kAdded"
  PROVE  /\ chState' \in [Conn -> {"kNew", "kAdded", "kDeleted"}]
         /\ events_' \in [Conn -> SUBSET {"in", "out"}]
         /\ chState'[c] = IF es = {} THEN "kDeleted" ELSE "kAdded"
         /\ events_'[c] = es
         /\ \A d \in Conn \ {c} : chState'[d] = chState[d] /\ events_'[d] = events_[d]
         /\ Registered' = IF es = {} THEN Registered \ {c} ELSE Registered \cup {c}
         /\ \A d \in Registered' : epoll'[d] = IF d = c THEN es ELSE epoll[d]
  <1>1. /\ events_' = [events_ EXCEPT ![c] = es]
        /\ chState' = [chState EXCEPT ![c] = IF es = {} THEN "kDeleted" ELSE "kAdded"]
        /\ epoll' = IF es = {} THEN Unregister(c) ELSE Register(c, es)
    BY DEF updateChannel
  <1>2. /\ Registered' = IF es = {} THEN Registered \ {c} ELSE Registered \cup {c}
        /\ \A d \in Registered' : epoll'[d] = IF d = c THEN es ELSE epoll[d]
    BY <1>1 DEF Registered, Unregister, Register
  <1> QED BY <1>1, <1>2 DEF ObjectTypes

\* newConnection: an object, a channel and a callback for a connection that had none.
LEMMA AcceptInv == ASSUME Inv, NEW c \in Conn, Accept(c) PROVE Inv'
  <1> USE DEF Inv
  <1>1. /\ pc = "dispatch" /\ activeChannels_ # <<>> /\ activeChannels_' = Tail(activeChannels_)
        /\ peer' = [peer EXCEPT ![c] = "open"] /\ connections_' = connections_ \cup {c}
        /\ state_' = [state_ EXCEPT ![c] = "kConnected"]
        /\ calls' = [calls EXCEPT ![c] = Append(@, "up")]
        /\ updateChannel(c, {"in"}) /\ cur' = c /\ pc' = "up"
        /\ UNCHANGED <<unread, output, shut, destroyed, held, revents_, quit_>>
    BY DEF Accept
  <1>2. ObjectTypes /\ c # acceptor /\ cur = acceptor
    BY <1>1, TypeParts, ServerAssumption DEF Where
  <1>3. state_[c] = "none" /\ c \notin destroyed /\ c \notin output /\ calls[c] = <<>>
    BY DEF Accept, Backlog, Objects, CallsAgree, Told
  <1>4. /\ state_'[c] = "kConnected" /\ \A d \in Conn \ {c} : state_'[d] = state_[d]
        /\ calls'[c] = <<"up">> /\ \A d \in Conn \ {c} : calls'[d] = calls[d]
        /\ peer'[c] = "open" /\ \A d \in Conn \ {c} : peer'[d] = peer[d]
    BY <1>1, <1>2, <1>3 DEF ObjectTypes
  <1>5. Live' = Live \cup {c}
    BY <1>1, <1>3, <1>4 DEF Live
  <1>6. /\ chState' \in [Conn -> {"kNew", "kAdded", "kDeleted"}]
        /\ events_' \in [Conn -> SUBSET {"in", "out"}]
        /\ chState'[c] = "kAdded" /\ events_'[c] = {"in"}
        /\ \A d \in Conn \ {c} : chState'[d] = chState[d] /\ events_'[d] = events_[d]
        /\ Registered' = Registered \cup {c}
        /\ \A d \in Registered' : epoll'[d] = IF d = c THEN {"in"} ELSE epoll[d]
    BY <1>1, <1>2, UpdateChannel
  <1>7. ObjectTypes'
    <2>1. calls' \in [Conn -> Seq({"up", "down"})]
      BY <1>1, <1>2 DEF ObjectTypes
    <2>2. /\ peer' \in [Conn -> {"none", "backlog", "open", "closed", "reset", "gone"}]
          /\ state_' \in [Conn -> {"none", "kConnected", "kDisconnecting", "kDisconnected"}]
      BY <1>1, <1>2 DEF ObjectTypes
    <2>3. Registered' \subseteq Live' /\ \A d \in Registered' : epoll'[d] \subseteq {"in", "out"}
      BY <1>2, <1>5, <1>6 DEF ObjectTypes
    <2> QED BY <1>1, <1>2, <1>5, <1>6, <2>1, <2>2, <2>3 DEF ObjectTypes
  <1>8. Objects'
    BY <1>1, <1>2, <1>3, <1>4 DEF Objects, IsOpen, Stopped
  <1>9. CallsAgree'
    BY <1>4 DEF CallsAgree, Told
  <1>10. Channels'
    <2>1. ASSUME NEW d \in Live', IsOpen(d)'
          PROVE  /\ d \in Registered' /\ chState'[d] = "kAdded"
                 /\ epoll'[d] = events_'[d] /\ "in" \in events_'[d]
                 /\ "out" \in events_'[d] <=> d \in output'
      <3>1. CASE d = c
        BY <1>1, <1>3, <1>6, <3>1
      <3>2. CASE d # c
        <4>1. d \in Live /\ d \in Conn /\ IsOpen(d)
          BY <1>4, <1>5, <2>1, <3>2 DEF IsOpen, Live
        <4> QED BY <1>1, <1>6, <3>2, <4>1 DEF Channels, isWriting
      <3> QED BY <3>1, <3>2
    <2>2. ASSUME NEW d \in Conn, state_'[d] = "kDisconnected"
          PROVE  d \notin Registered' /\ chState'[d] = "kDeleted" /\ events_'[d] = {}
      BY <1>4, <1>6, <2>2 DEF Channels
    <2> QED BY <2>1, <2>2 DEF Channels, isWriting
  <1> DEFINE t == Tail(activeChannels_)
  <1>11. /\ t \in Seq(Entry) /\ \A i, j \in DOMAIN t : t[i][1] = t[j][1] => i = j
         /\ \A i \in DOMAIN t : i + 1 \in DOMAIN activeChannels_ /\ t[i] = activeChannels_[i + 1]
    BY <1>1, TailBatch
  <1> HIDE DEF t
  <1>12. Batch'
    <2>1. \A i \in DOMAIN t : t[i][1] # acceptor =>
            t[i][1] # c /\ t[i][1] \in Conn /\ state_'[t[i][1]] \in {"kConnected", "kDisconnecting"}
      BY <1>3, <1>4, <1>11 DEF Batch, IsOpen, TypeOK
    <2> QED BY <1>1, <1>11, <2>1 DEF Batch, IsOpen, t
  <1>13. LoopTypes' /\ Where'
    BY <1>1, <1>2, <1>4 DEF LoopTypes, Where, IsOpen, TypeOK, Callbacks
  <1>14. \A i \in DOMAIN t : t[i][1] \in Conn \cup {acceptor}
    BY <1>11 DEF TypeOK
  <1> QED BY <1>1, <1>7, <1>8, <1>9, <1>10, <1>12, <1>13, <1>14 DEF t, TypeOK, ObjectTypes, LoopTypes

LEMMA UpReturnsInv == ASSUME Inv, UpReturns PROVE Inv'
  <1> USE DEF Inv
  <1>1. /\ pc = "up" /\ held' \in {held, held \cup {cur}} /\ pc' = "dispatch" /\ cur' = acceptor
        /\ revents_' = {}
        /\ UNCHANGED <<sockVars, connections_, state_, output, shut, destroyed, calls, chanVars,
                       activeChannels_, quit_>>
    BY DEF UpReturns, returns
  <1>2. cur \in Conn /\ IsOpen(cur) /\ cur \in connections_ /\ cur \in Live
    BY <1>1 DEF Where, Objects, TypeOK
  <1>3. Live' = Live
    BY <1>1 DEF Live
  <1>4. ObjectTypes'
    BY <1>1, <1>2, <1>3 DEF ObjectTypes, TypeOK, sockVars, chanVars, Registered
  <1>5. Objects'
    BY <1>1, <1>2 DEF Objects, IsOpen, sockVars, Live, Stopped
  <1>6. CallsAgree' /\ Channels'
    BY <1>1, <1>3 DEF CallsAgree, Channels, IsOpen, isWriting, Registered, chanVars
  <1>7. Batch' /\ \A i \in DOMAIN activeChannels_' : activeChannels_'[i][1] \in Conn \cup {acceptor}
    BY <1>1, SameBatch DEF IsOpen
  <1>8. LoopTypes' /\ Where'
    BY <1>1 DEF LoopTypes, Where, TypeOK
  <1> QED BY <1>4, <1>5, <1>6, <1>7, <1>8 DEF TypeOK, ObjectTypes, LoopTypes

LEMMA UpThenDown == Append(<<"up">>, "down") = <<"up", "down">>
  <1> DEFINE S == {"up", "down"}
             s == Append(<<"up">>, "down")
             t == <<"up", "down">>
  <1>1. <<"up">> \in Seq(S) /\ Len(<<"up">>) = 1 /\ <<"up">>[1] = "up"
    OBVIOUS
  <1>2. s \in Seq(S) /\ Len(s) = 2 /\ s[1] = "up" /\ s[2] = "down"
    BY <1>1, AppendProperties
  <1>3. t \in Seq(S) /\ Len(t) = 2 /\ t[1] = "up" /\ t[2] = "down"
    OBVIOUS
  <1> HIDE DEF s, t
  <1>4. \A i \in 1 .. Len(s) : s[i] = t[i]
    BY <1>2, <1>3
  <1>5. s = t
    BY <1>2, <1>3, <1>4, SeqEqual
  <1> QED BY <1>5 DEF s, t

\* handleClose: the connection being handled is closed, and its channel registered no more.
LEMMA ReadEofInv == ASSUME Inv, ReadEof PROVE Inv'
  <1> USE DEF Inv
  <1>1. /\ pc = "read" /\ state_' = [state_ EXCEPT ![cur] = "kDisconnected"]
        /\ updateChannel(cur, {}) /\ calls' = [calls EXCEPT ![cur] = Append(@, "down")] /\ pc' = "down"
        /\ UNCHANGED <<sockVars, connections_, output, shut, destroyed, held, activeChannels_, cur,
                       revents_, quit_>>
    BY DEF ReadEof, disableAll
  <1>2. ObjectTypes
    BY TypeParts
  <1>3. /\ cur \in Conn /\ cur # acceptor /\ IsOpen(cur) /\ cur \in connections_ /\ cur \in Live
        /\ chState[cur] = "kAdded" /\ calls[cur] = <<"up">>
    <2>1. cur \in Conn /\ cur # acceptor /\ IsOpen(cur)
      BY <1>1 DEF Where, TypeOK
    <2>2. cur \in connections_ /\ cur \in Live
      BY <1>1, <2>1 DEF Objects, TypeOK
    <2> QED BY <2>1, <2>2 DEF Channels, CallsAgree, Told, IsOpen
  <1>4. /\ state_'[cur] = "kDisconnected" /\ \A d \in Conn \ {cur} : state_'[d] = state_[d]
        /\ calls'[cur] = <<"up", "down">> /\ \A d \in Conn \ {cur} : calls'[d] = calls[d]
    <2>1. Append(<<"up">>, "down") = <<"up", "down">>
      BY UpThenDown
    <2>2. calls' = [calls EXCEPT ![cur] = <<"up", "down">>]
      BY <1>1, <1>3, <2>1
    <2>3. calls'[cur] = <<"up", "down">> /\ \A d \in Conn \ {cur} : calls'[d] = calls[d]
      BY <1>2, <1>3, <2>2 DEF ObjectTypes
    <2>4. state_'[cur] = "kDisconnected" /\ \A d \in Conn \ {cur} : state_'[d] = state_[d]
      BY <1>1, <1>2, <1>3 DEF ObjectTypes
    <2> QED BY <2>3, <2>4
  <1>5. Live' = Live
    BY <1>1, <1>3, <1>4 DEF Live
  <1>6. /\ chState' \in [Conn -> {"kNew", "kAdded", "kDeleted"}]
        /\ events_' \in [Conn -> SUBSET {"in", "out"}]
        /\ chState'[cur] = "kDeleted" /\ events_'[cur] = {}
        /\ \A d \in Conn \ {cur} : chState'[d] = chState[d] /\ events_'[d] = events_[d]
        /\ Registered' = Registered \ {cur}
        /\ \A d \in Registered' : epoll'[d] = epoll[d]
    BY <1>1, <1>2, <1>3, UpdateChannel
  <1>7. ObjectTypes'
    <2>1. calls' \in [Conn -> Seq({"up", "down"})]
      <3>1. <<"up", "down">> \in Seq({"up", "down"})
        OBVIOUS
      <3>2. calls' \in [Conn -> Seq({"up", "down"})] \/ calls'[cur] \notin Seq({"up", "down"})
        BY <1>1, <1>2 DEF ObjectTypes
      <3> QED BY <1>4, <3>1, <3>2
    <2>2. state_' \in [Conn -> {"none", "kConnected", "kDisconnecting", "kDisconnected"}]
      BY <1>1, <1>2 DEF ObjectTypes
    <2>3. Registered' \subseteq Live' /\ \A d \in Registered' : epoll'[d] \subseteq {"in", "out"}
      BY <1>2, <1>5, <1>6 DEF ObjectTypes
    <2> QED BY <1>1, <1>2, <1>5, <1>6, <2>1, <2>2, <2>3 DEF ObjectTypes, sockVars
  <1>8. Objects'
    BY <1>1, <1>2, <1>3, <1>4 DEF Objects, IsOpen, Stopped, sockVars
  <1>9. CallsAgree'
    BY <1>4 DEF CallsAgree, Told
  <1>10. Channels'
    <2>1. ASSUME NEW d \in Live', IsOpen(d)'
          PROVE  /\ d \in Registered' /\ chState'[d] = "kAdded"
                 /\ epoll'[d] = events_'[d] /\ "in" \in events_'[d]
                 /\ "out" \in events_'[d] <=> d \in output'
      <3>1. d # cur /\ d \in Live /\ d \in Conn /\ IsOpen(d)
        BY <1>4, <1>5, <2>1 DEF IsOpen, Live
      <3> QED BY <1>1, <1>6, <3>1 DEF Channels, isWriting
    <2>2. ASSUME NEW d \in Conn, state_'[d] = "kDisconnected"
          PROVE  d \notin Registered' /\ chState'[d] = "kDeleted" /\ events_'[d] = {}
      BY <1>4, <1>6, <2>2 DEF Channels
    <2> QED BY <2>1, <2>2 DEF Channels, isWriting
  <1>11. Batch' /\ \A i \in DOMAIN activeChannels_' : activeChannels_'[i][1] \in Conn \cup {acceptor}
    BY <1>1, <1>4, SameBatch DEF IsOpen
  <1>12. LoopTypes' /\ Where'
    BY <1>1, <1>3, <1>4 DEF LoopTypes, Where, TypeOK, Callbacks
  <1> QED BY <1>7, <1>8, <1>9, <1>10, <1>11, <1>12 DEF TypeOK, ObjectTypes, LoopTypes

\* With objects go their registrations, and nothing else.
LEMMA Destroying ==
  ASSUME Inv, NEW gone, gone \subseteq Conn, destroy(gone),
         connections_' \subseteq connections_ \ gone, held' \subseteq held \ gone,
         UNCHANGED <<sockVars, state_, output, shut, calls, chState, events_>>
  PROVE  ObjectTypes' /\ CallsAgree' /\ Channels' /\ destroyed' = destroyed \cup gone
  <1> USE DEF Inv
  <1>1. /\ destroyed' = destroyed \cup gone /\ Live' = Live \ gone
        /\ Registered' = Registered \ gone /\ \A d \in Registered' : epoll'[d] = epoll[d]
    BY DEF destroy, Live, Registered
  <1>2. ObjectTypes'
    BY <1>1, TypeParts DEF ObjectTypes, sockVars
  <1>3. CallsAgree'
    BY DEF CallsAgree
  <1>4. Channels'
    BY <1>1 DEF Channels, IsOpen, isWriting
  <1> QED BY <1>1, <1>2, <1>3, <1>4

LEMMA DownReturnsInv == ASSUME Inv, DownReturns PROVE Inv'
  <1> USE DEF Inv
  <1> DEFINE gone == {cur} \ held
  <1>1. /\ pc = "down" /\ connections_' = connections_ \ {cur} /\ pc' = "write" /\ destroy(gone)
        /\ UNCHANGED <<sockVars, state_, output, shut, held, calls, chState, events_, activeChannels_,
                       cur, revents_, quit_>>
    <2>1. connections_' = connections_ \ {cur} /\ destroy({cur} \ (connections_' \cup held))
      BY DEF DownReturns, removeConnection, Unreferenced
    <2>2. {cur} \ (connections_' \cup held) = gone
      BY <2>1
    <2> QED BY <2>1, <2>2 DEF DownReturns
  <1>2. cur \in Conn /\ cur # acceptor /\ state_[cur] = "kDisconnected"
    BY <1>1 DEF Where, TypeOK
  <1>3. connections_' \subseteq connections_ \ gone /\ held' \subseteq held \ gone /\ gone \subseteq Conn
    BY <1>1, <1>2
  <1> HIDE DEF gone
  <1>4. ObjectTypes' /\ CallsAgree' /\ Channels' /\ destroyed' = destroyed \cup gone
    BY <1>1, <1>3, Destroying
  <1>5. Objects'
    BY <1>1, <1>2, <1>4 DEF Objects, IsOpen, sockVars, gone, Stopped
  <1>6. Batch' /\ \A i \in DOMAIN activeChannels_' : activeChannels_'[i][1] \in Conn \cup {acceptor}
    BY <1>1, SameBatch DEF IsOpen
  <1>7. LoopTypes' /\ Where'
    BY <1>1, <1>2 DEF LoopTypes, Where, TypeOK
  <1> QED BY <1>4, <1>5, <1>6, <1>7 DEF TypeOK, ObjectTypes, LoopTypes

LEMMA ReleaseInv == ASSUME Inv, NEW c \in Conn, Release(c) PROVE Inv'
  <1> USE DEF Inv
  <1> DEFINE gone == {c} \ (connections_ \cup {cur})
  <1>1. /\ pc \in Callbacks /\ c \in held /\ held' = held \ {c} /\ destroy(gone)
        /\ UNCHANGED <<sockVars, connections_, state_, output, shut, calls, chState, events_, loopVars>>
    BY DEF Release, LastPointer, InCallback
  <1>2. UNCHANGED <<activeChannels_, cur, revents_, quit_, pc>>
    BY <1>1 DEF loopVars
  <1>3. connections_' \subseteq connections_ \ gone /\ held' \subseteq held \ gone /\ gone \subseteq Conn
    BY <1>1
  <1> HIDE DEF gone
  <1>4. ObjectTypes' /\ CallsAgree' /\ Channels' /\ destroyed' = destroyed \cup gone
    BY <1>1, <1>3, Destroying
  <1>5. cur \in connections_ /\ state_[c] # "none" /\ (c \in connections_ \/ c = cur \/ c \in gone)
    BY <1>1 DEF gone, Callbacks, Where, Objects, TypeOK, Live
  <1>6. Objects'
    BY <1>1, <1>2, <1>4, <1>5 DEF Objects, IsOpen, Callbacks, sockVars, gone, TypeOK, Live
  <1>7. Batch' /\ \A i \in DOMAIN activeChannels_' : activeChannels_'[i][1] \in Conn \cup {acceptor}
    BY <1>1, <1>2, SameBatch DEF IsOpen, Batch
  <1>8. LoopTypes' /\ Where'
    BY <1>1, <1>2 DEF LoopTypes, Where, TypeOK, IsOpen
  <1> QED BY <1>4, <1>6, <1>7, <1>8 DEF TypeOK, ObjectTypes, LoopTypes

\* TcpServer's destructor lets go of the map: open connections go, those that are held stay.
LEMMA LoopReturnsInv == ASSUME Inv, LoopReturns PROVE Inv'
  <1> USE DEF Inv
  <1> DEFINE gone == connections_ \ held
  <1>1. /\ pc = "poll" /\ connections_' = {} /\ destroy(gone) /\ pc' = "ended"
        /\ UNCHANGED <<sockVars, state_, output, shut, held, calls, chState, events_,
                       activeChannels_, cur, revents_, quit_>>
    BY DEF LoopReturns
  <1>2. connections_' \subseteq connections_ \ gone /\ held' \subseteq held \ gone /\ gone \subseteq Conn
    BY <1>1 DEF TypeOK, Live
  <1> HIDE DEF gone
  <1>3. ObjectTypes' /\ CallsAgree' /\ Channels' /\ destroyed' = destroyed \cup gone
    BY <1>1, <1>2, Destroying
  <1>4. destroyed' = {c \in Conn : state_'[c] # "none"} \ held'
    BY <1>1, <1>3 DEF gone, Objects, TypeOK, Live
  <1>5. Objects'
    BY <1>1, <1>3, <1>4 DEF Objects, sockVars, TypeOK, Live, gone
  <1>6. Batch' /\ \A i \in DOMAIN activeChannels_' : activeChannels_'[i][1] \in Conn \cup {acceptor}
    BY <1>1, SameBatch DEF IsOpen, Batch
  <1>7. LoopTypes' /\ Where'
    BY <1>1 DEF LoopTypes, Where, TypeOK, Stopped
  <1> QED BY <1>3, <1>5, <1>6, <1>7 DEF TypeOK, ObjectTypes, LoopTypes

\* handleWrite and send: an open connection wants EPOLLOUT exactly if it has output.
LEMMA Wanting ==
  ASSUME Inv, NEW c \in Conn, NEW es \in SUBSET {"in", "out"}, updateChannel(c, es), IsOpen(c), c \in Live,
         "in" \in es, "out" \in es <=> c \in output', output' \ {c} = output \ {c},
         UNCHANGED <<sockVars, connections_, state_, shut, destroyed, held, calls>>
  PROVE  ObjectTypes' /\ CallsAgree' /\ Channels'
  <1> USE DEF Inv
  <1>1. ObjectTypes /\ es # {}
    BY TypeParts
  <1>2. /\ chState' \in [Conn -> {"kNew", "kAdded", "kDeleted"}]
        /\ events_' \in [Conn -> SUBSET {"in", "out"}]
        /\ chState'[c] = "kAdded" /\ events_'[c] = es
        /\ \A d \in Conn \ {c} : chState'[d] = chState[d] /\ events_'[d] = events_[d]
        /\ Registered' = Registered \cup {c}
        /\ \A d \in Registered' : epoll'[d] = IF d = c THEN es ELSE epoll[d]
    BY <1>1, UpdateChannel
  <1>3. Live' = Live /\ output' \subseteq Conn
    BY <1>1 DEF Live, ObjectTypes
  <1>4. ObjectTypes'
    <2>1. Registered' \subseteq Live' /\ \A d \in Registered' : epoll'[d] \subseteq {"in", "out"}
      BY <1>1, <1>2, <1>3 DEF ObjectTypes
    <2> QED BY <1>1, <1>2, <1>3, <2>1 DEF ObjectTypes, sockVars
  <1>5. CallsAgree'
    BY DEF CallsAgree
  <1>6. Channels'
    <2>1. ASSUME NEW d \in Live', IsOpen(d)'
          PROVE  /\ d \in Registered' /\ chState'[d] = "kAdded"
                 /\ epoll'[d] = events_'[d] /\ "in" \in events_'[d]
                 /\ "out" \in events_'[d] <=> d \in output'
      <3>1. CASE d = c
        BY <1>2, <3>1
      <3>2. CASE d # c
        <4>1. d \in Live /\ d \in Conn /\ IsOpen(d) /\ (d \in output' <=> d \in output)
          BY <1>3, <2>1, <3>2 DEF IsOpen, Live
        <4> QED BY <1>2, <3>2, <4>1 DEF Channels, isWriting
      <3> QED BY <3>1, <3>2
    <2>2. ASSUME NEW d \in Conn, state_'[d] = "kDisconnected"
          PROVE  d \notin Registered' /\ chState'[d] = "kDeleted" /\ events_'[d] = {}
      <3>1. d # c /\ state_[d] = "kDisconnected"
        BY <2>2 DEF IsOpen
      <3> QED BY <1>2, <2>2, <3>1 DEF Channels
    <2> QED BY <2>1, <2>2 DEF Channels, isWriting
  <1> QED BY <1>4, <1>5, <1>6

LEMMA WriteAllInv == ASSUME Inv, WriteAll PROVE Inv'
  <1> USE DEF Inv
  <1> DEFINE es == events_[cur] \ {"out"}
  <1>1. /\ pc = "write" /\ cur \notin destroyed /\ "out" \in events_[cur]
        /\ output' = output \ {cur} /\ updateChannel(cur, es) /\ pc' = "complete"
        /\ UNCHANGED <<sockVars, connections_, state_, shut, destroyed, held, calls, activeChannels_,
                       cur, revents_, quit_>>
    BY DEF WriteAll, handleWrites, isWriting
  <1>2. cur \in Conn /\ cur # acceptor /\ IsOpen(cur) /\ cur \in Live
    BY <1>1 DEF Where, TypeOK, Channels, IsOpen, Live
  <1>3. es \in SUBSET {"in", "out"} /\ "in" \in es /\ "out" \notin es
    BY <1>2 DEF Channels, TypeOK
  <1> HIDE DEF es
  <1>4. ObjectTypes' /\ CallsAgree' /\ Channels'
    BY <1>1, <1>2, <1>3, Wanting
  <1>5. Objects'
    BY <1>1, <1>2 DEF Objects, IsOpen, sockVars, Stopped
  <1>6. Batch' /\ \A i \in DOMAIN activeChannels_' : activeChannels_'[i][1] \in Conn \cup {acceptor}
    BY <1>1, SameBatch DEF IsOpen
  <1>7. LoopTypes' /\ Where'
    BY <1>1, <1>2 DEF LoopTypes, Where, TypeOK, Callbacks, IsOpen
  <1> QED BY <1>4, <1>5, <1>6, <1>7 DEF TypeOK, ObjectTypes, LoopTypes

LEMMA SendBufferedInv == ASSUME Inv, NEW c \in Conn, SendBuffered(c) PROVE Inv'
  <1> USE DEF Inv
  <1> DEFINE es == events_[c] \cup {"out"}
  <1>1. /\ pc \in Callbacks /\ c \in Known /\ state_[c] # "kDisconnected"
        /\ output' = output \cup {c} /\ updateChannel(c, es)
        /\ UNCHANGED <<sockVars, connections_, state_, shut, destroyed, held, calls>>
        /\ UNCHANGED <<activeChannels_, cur, revents_, quit_, pc>>
    BY DEF SendBuffered, InCallback, loopVars
  <1>2. IsOpen(c) /\ c \in Live
    <2>1. state_[c] # "none"
      BY <1>1 DEF Known, TypeOK, Live, Where, Callbacks, IsOpen
    <2>2. IsOpen(c)
      BY <1>1, <2>1 DEF IsOpen, TypeOK
    <2> QED BY <1>1, <2>2 DEF Objects, Callbacks, TypeOK
  <1>3. es \in SUBSET {"in", "out"} /\ "in" \in es /\ "out" \in es
    BY <1>2 DEF Channels, TypeOK
  <1> HIDE DEF es
  <1>4. ObjectTypes' /\ CallsAgree' /\ Channels'
    BY <1>1, <1>2, <1>3, Wanting
  <1>5. Objects'
    BY <1>1, <1>2 DEF Objects, IsOpen, sockVars, Live
  <1>6. Batch' /\ \A i \in DOMAIN activeChannels_' : activeChannels_'[i][1] \in Conn \cup {acceptor}
    BY <1>1, SameBatch DEF IsOpen, Batch
  <1>7. LoopTypes' /\ Where'
    BY <1>1 DEF LoopTypes, Where, TypeOK, IsOpen
  <1> QED BY <1>4, <1>5, <1>6, <1>7 DEF TypeOK, ObjectTypes, LoopTypes

\* What shutdownWrite does to the thread and the socket.
LEMMA ShutType ==
  ASSUME Inv, NEW c \in Conn, NEW next,
         \/ shutdownWrite(c, next)
         \/ returns(next) /\ UNCHANGED shut
  PROVE  /\ shut' \subseteq Conn /\ pc' \in {next, "aborted"}
         /\ cur' = (IF pc' = "dispatch" THEN acceptor ELSE cur) /\ revents_' \in {revents_, {}}
  BY DEF shutdownWrite, returns, Inv, TypeOK

LEMMA CompleteReturnsInv == ASSUME Inv, CompleteReturns PROVE Inv'
  <1> USE DEF Inv
  <1>1. /\ pc = "complete"
        /\ UNCHANGED <<sockVars, connections_, state_, output, destroyed, held, calls, chanVars,
                       activeChannels_, quit_>>
    BY DEF CompleteReturns
  <1>2. cur \in Conn
    BY <1>1 DEF Where, TypeOK
  <1>3. /\ shut' \subseteq Conn /\ pc' \in {"dispatch", "aborted"}
        /\ cur' = (IF pc' = "dispatch" THEN acceptor ELSE cur) /\ revents_' \in {revents_, {}}
    BY <1>2, ShutType DEF CompleteReturns
  <1>4. ObjectTypes' /\ CallsAgree' /\ Channels'
    <2>1. Live' = Live /\ Registered' = Registered
      BY <1>1 DEF Live, Registered, chanVars
    <2> QED BY <1>1, <1>3, <2>1, TypeParts DEF ObjectTypes, CallsAgree, Channels, IsOpen, isWriting, sockVars, chanVars
  <1>5. Objects'
    BY <1>1, <1>2, <1>3 DEF Objects, IsOpen, sockVars, Stopped
  <1>6. Batch' /\ \A i \in DOMAIN activeChannels_' : activeChannels_'[i][1] \in Conn \cup {acceptor}
    BY <1>1, <1>3, SameBatch DEF IsOpen
  <1>7. LoopTypes' /\ Where'
    BY <1>1, <1>3 DEF LoopTypes, Where, TypeOK, Stopped
  <1> QED BY <1>4, <1>5, <1>6, <1>7 DEF TypeOK, ObjectTypes, LoopTypes

\* A connection that this side has shut down is still open.
LEMMA ShutdownInv == ASSUME Inv, NEW c \in Conn, Shutdown(c) PROVE Inv'
  <1> USE DEF Inv
  <1>1. /\ pc \in Callbacks /\ state_[c] = "kConnected" /\ state_' = [state_ EXCEPT ![c] = "kDisconnecting"]
        /\ UNCHANGED <<sockVars, connections_, output, destroyed, held, calls, chanVars,
                       activeChannels_, quit_>>
    BY DEF Shutdown, InCallback
  <1>2. shut' \subseteq Conn /\ pc' \in {pc, "aborted"} /\ cur' = cur /\ revents_' \in {revents_, {}}
    <2>1. shutdownWrite(c, pc) \/ (returns(pc) /\ UNCHANGED shut)
      BY DEF Shutdown
    <2> QED BY <1>1, <2>1, ShutType DEF Callbacks
  <1>3. /\ state_' \in [Conn -> {"none", "kConnected", "kDisconnecting", "kDisconnected"}]
        /\ state_'[c] = "kDisconnecting" /\ \A d \in Conn \ {c} : state_'[d] = state_[d]
    BY <1>1 DEF TypeOK
  <1>4. \A d \in Conn : /\ state_'[d] = "none" <=> state_[d] = "none"
                        /\ state_'[d] = "kDisconnected" <=> state_[d] = "kDisconnected"
                        /\ IsOpen(d)' <=> IsOpen(d)
    BY <1>1, <1>3 DEF IsOpen
  <1>5. Live' = Live /\ Registered' = Registered
    BY <1>1, <1>4 DEF Live, Registered, chanVars
  <1>6. ObjectTypes'
    BY <1>1, <1>2, <1>3, <1>5, TypeParts DEF ObjectTypes, sockVars, chanVars
  <1>7. CallsAgree'
    BY <1>1, <1>3 DEF CallsAgree, Told
  <1>8. Channels'
    BY <1>1, <1>4, <1>5 DEF Channels, isWriting, chanVars, Live
  <1>9. Objects'
    BY <1>1, <1>2, <1>4 DEF Objects, sockVars, TypeOK, Live, Stopped, Callbacks
  <1>10. Batch' /\ \A i \in DOMAIN activeChannels_' : activeChannels_'[i][1] \in Conn \cup {acceptor}
    BY <1>1, <1>2, <1>4, SameBatch DEF Batch, Callbacks
  <1>11. LoopTypes' /\ Where'
    BY <1>1, <1>2, <1>3, <1>4 DEF LoopTypes, Where, TypeOK, Stopped, Callbacks
  <1> QED BY <1>6, <1>7, <1>8, <1>9, <1>10, <1>11 DEF TypeOK, ObjectTypes, LoopTypes
-----------------------------------------------------------------------------
(***************************************************************************)
(* What the runs check.                                                    *)
(***************************************************************************)
LEMMA NextInv == ASSUME Inv, [Next]_vars PROVE Inv'
  <1>1. CASE UNCHANGED vars
    BY <1>1 DEF vars, sockVars, connVars, chanVars, loopVars, Inv, TypeOK, Objects, CallsAgree, Channels,
                Batch, Where, IsOpen, Live, Registered, isWriting
  <1>2. ASSUME NEW c \in Conn, Connect(c) \/ PeerSends(c) \/ PeerCloses(c) \/ PeerResets(c)
        PROVE  Inv'
    BY <1>2, ClientsInv
  <1>3. ASSUME NEW c \in Conn, SendBuffered(c) \/ SendFails(c) \/ Shutdown(c) \/ Release(c)
        PROVE  Inv'
    BY <1>3, SendBufferedInv, UserMovesInv, ShutdownInv, ReleaseInv
  <1>4. CASE EventLoop_quit
    BY <1>4, UserMovesInv
  <1>5. CASE LoopStep
    <2>1. CASE ConstructLoop \/ ConstructServer \/ Start \/ EndBatch
      BY <2>1, BootInv
    <2>2. CASE Poll
      BY <2>2, PollInv
    <2>3. CASE LoopReturns
      BY <2>3, LoopReturnsInv
    <2>4. CASE HandleEvent \/ AcceptFails
      BY <2>4, NextInBatchInv
    <2>5. ASSUME NEW c \in Conn, Accept(c) PROVE Inv'
      BY <2>5, AcceptInv
    <2>6. CASE UpReturns
      BY <2>6, UpReturnsInv
    <2>7. CASE SkipRead \/ ReadData \/ MessageReturns \/ ReadError
      BY <2>7, ReadMovesInv
    <2>8. CASE ReadEof
      BY <2>8, ReadEofInv
    <2>9. CASE DownReturns
      BY <2>9, DownReturnsInv
    <2>10. CASE SkipWrite \/ WriteFails \/ WriteSome
      BY <2>10, WriteMovesInv
    <2>11. CASE WriteAll
      BY <2>11, WriteAllInv
    <2>12. CASE CompleteReturns
      BY <2>12, CompleteReturnsInv
    <2> QED BY <1>5, <2>1, <2>2, <2>3, <2>4, <2>5, <2>6, <2>7, <2>8, <2>9, <2>10, <2>11, <2>12 DEF LoopStep
  <1> QED BY <1>1, <1>2, <1>3, <1>4, <1>5 DEF Next

LEMMA Inductive == Spec => []Inv
  <1>1. Init => Inv
    BY InitInv
  <1>2. Inv /\ [Next]_vars => Inv'
    BY NextInv
  <1> QED BY <1>1, <1>2, PTL DEF Spec

\* Every variable holds a value of its type; the objects in TcpServer::connections_, those
\* that user code holds and those that epoll has registered exist.
THEOREM TypeCorrect == Spec => []TypeOK
  <1>1. Inv => TypeOK
    BY DEF Inv
  <1> QED BY <1>1, Inductive, PTL

\* EPoller::updateChannel's bookkeeping is what the kernel has, for every live connection.
THEOREM EpollAgreesTheorem == Spec => []EpollAgrees
  <1>1. Inv => EpollAgrees
    <2> SUFFICES ASSUME Inv, NEW c \in Live
                 PROVE  /\ c \in Registered <=> chState[c] = "kAdded"
                        /\ c \in Registered => epoll[c] = events_[c] /\ events_[c] # {}
                        /\ state_[c] # "kDisconnected" => (isWriting(c) <=> c \in output)
      BY DEF EpollAgrees
    <2> USE DEF Inv
    <2>1. c \in Conn /\ (IsOpen(c) \/ state_[c] = "kDisconnected")
      BY DEF Live, TypeOK, IsOpen
    <2>2. CASE IsOpen(c)
      BY <2>1, <2>2 DEF Channels, IsOpen
    <2>3. CASE state_[c] = "kDisconnected"
      BY <2>1, <2>3 DEF Channels
    <2> QED BY <2>1, <2>2, <2>3
  <1> QED BY <1>1, Inductive, PTL

\* EventLoop::loop never calls handleEvent of a channel that a handler before it destroyed.
THEOREM NoStaleChannelTheorem == Spec => []NoStaleChannel
  <1>1. Inv => NoStaleChannel
    <2> SUFFICES ASSUME Inv, NEW i \in DOMAIN activeChannels_
                 PROVE  activeChannels_[i][1] \notin destroyed
      BY DEF NoStaleChannel
    <2> USE DEF Inv
    <2> DEFINE c == activeChannels_[i][1]
    <2>1. CASE c = acceptor
      BY <2>1, ServerAssumption DEF TypeOK
    <2>2. CASE c # acceptor
      <3>1. c \in Conn /\ IsOpen(c) /\ activeChannels_ # <<>>
        BY <2>2 DEF Batch, TypeOK
      <3>2. c \in connections_
        BY <3>1 DEF Objects, Batch
      <3> QED BY <3>2 DEF TypeOK, Live
    <2> QED BY <2>1, <2>2
  <1> QED BY <1>1, Inductive, PTL

\* connectionCallback_ is called once when a connection is made and once when it is closed,
\* and the connection is in connections_ from before the first call to after the second.
THEOREM CallbacksInOrderTheorem == Spec => []CallbacksInOrder
  <1>1. Inv => CallbacksInOrder
    <2> SUFFICES ASSUME Inv, NEW c \in Conn
                 PROVE  /\ calls[c] \in {<<>>, <<"up">>, <<"up", "down">>}
                        /\ calls[c] = <<"up">> /\ pc # "ended" => c \in connections_ /\ state_[c] # "kDisconnected"
                        /\ calls[c] = <<"up", "down">> /\ c \in connections_ =>
                             pc \in {"down"} \cup Stopped /\ cur = c
      BY DEF CallbacksInOrder
    <2> USE DEF Inv
    <2>1. calls[c] = Told(state_[c]) /\ state_[c] \in {"none", "kConnected", "kDisconnecting", "kDisconnected"}
      BY DEF CallsAgree, TypeOK
    <2>2. calls[c] \in {<<>>, <<"up">>, <<"up", "down">>}
      BY <2>1 DEF Told
    <2>3. calls[c] = <<"up">> => IsOpen(c)
      BY <2>1 DEF Told, IsOpen
    <2>4. calls[c] = <<"up", "down">> => ~IsOpen(c)
      BY <2>1 DEF Told, IsOpen
    <2> QED BY <2>2, <2>3, <2>4 DEF Objects, IsOpen
  <1> QED BY <1>1, Inductive, PTL

\* While the server is there, an object goes only when its connection is closed, out of
\* connections_ and held by nobody; with the server go exactly those that nobody holds.
THEOREM OnlyClosedDestroyedTheorem == Spec => []OnlyClosedDestroyed
  <1>1. Inv => OnlyClosedDestroyed
    <2> SUFFICES ASSUME Inv PROVE OnlyClosedDestroyed
      OBVIOUS
    <2> USE DEF Inv
    <2>1. CASE pc = "ended"
      BY <2>1 DEF OnlyClosedDestroyed, Objects
    <2>2. CASE pc # "ended"
      <3>1. ASSUME NEW c \in destroyed
            PROVE  c \in Conn /\ state_[c] = "kDisconnected" /\ c \notin connections_ /\ c \notin held
        <4>1. c \in Conn /\ c \notin connections_ /\ c \notin held
          BY DEF TypeOK, Live
        <4>2. state_[c] # "none" /\ ~IsOpen(c)
          BY <2>2, <4>1 DEF Objects
        <4> QED BY <4>1, <4>2 DEF TypeOK, IsOpen
      <3> QED BY <2>2, <3>1 DEF OnlyClosedDestroyed
    <2> QED BY <2>1, <2>2
  <1> QED BY <1>1, Inductive, PTL
=============================================================================
