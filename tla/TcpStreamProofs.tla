--------------------------- MODULE TcpStreamProofs ---------------------------
(***************************************************************************)
(* What a connection sends arrives in order, and the socket is shut down   *)
(* behind its last byte, for messages of any lengths, a send buffer of any *)
(* size, and any number of bytes.                                          *)
(*                                                                         *)
(* The argument: StreamIntact is inductive with the types, once cutting a  *)
(* sequence in two and joining the parts is known to change nothing.       *)
(* ShutAfterOutput is not: it needs to know that EPOLLOUT is asked for     *)
(* exactly while there is output, and that nobody has been shut down who   *)
(* is still kConnected (Waits).                                            *)
(***************************************************************************)
EXTENDS TcpStream, SequenceTheorems, TLAPS

-----------------------------------------------------------------------------
(***************************************************************************)
(* Sequences cut and joined.                                               *)
(***************************************************************************)
LEMMA FirstType ==
  ASSUME NEW S, NEW s \in Seq(S), NEW n \in 0 .. Len(s)
  PROVE  First(n, s) \in Seq(S) /\ Len(First(n, s)) = n
         /\ \A i \in 1 .. n : First(n, s)[i] = s[i]
  <1>1. First(n, s) = [i \in 1 .. n |-> s[i]]
    BY DEF First
  <1>2. \A i \in 1 .. n : s[i] \in S
    OBVIOUS
  <1> QED BY <1>1, <1>2

LEMMA RestType ==
  ASSUME NEW S, NEW s \in Seq(S), NEW n \in 0 .. Len(s)
  PROVE  Rest(n, s) \in Seq(S) /\ Len(Rest(n, s)) = Len(s) - n
         /\ \A i \in 1 .. Len(s) - n : Rest(n, s)[i] = s[i + n]
  <1>1. Rest(n, s) = [i \in 1 .. Len(s) - n |-> s[i + n]]
    BY DEF Rest
  <1>2. \A i \in 1 .. Len(s) - n : s[i + n] \in S
    OBVIOUS
  <1>3. Len(s) - n \in Nat
    OBVIOUS
  <1> QED BY <1>1, <1>2, <1>3

\* Both parts of a sequence, one behind the other, are the sequence.
LEMMA Joined ==
  ASSUME NEW S, NEW s \in Seq(S), NEW n \in 0 .. Len(s)
  PROVE  First(n, s) \o Rest(n, s) = s
  <1> DEFINE t == First(n, s) \o Rest(n, s)
  <1>1. /\ First(n, s) \in Seq(S) /\ Len(First(n, s)) = n
        /\ \A i \in 1 .. n : First(n, s)[i] = s[i]
    BY FirstType
  <1>2. /\ Rest(n, s) \in Seq(S) /\ Len(Rest(n, s)) = Len(s) - n
        /\ \A i \in 1 .. Len(s) - n : Rest(n, s)[i] = s[i + n]
    BY RestType
  <1>3. Len(s) \in Nat /\ n \in Nat /\ n + (Len(s) - n) = Len(s)
    OBVIOUS
  <1>4. /\ t \in Seq(S) /\ Len(t) = n + (Len(s) - n)
        /\ \A i \in 1 .. n + (Len(s) - n) :
             t[i] = IF i <= n THEN First(n, s)[i] ELSE Rest(n, s)[i - n]
    <2> HIDE DEF t
    <2>1. /\ t \in Seq(S) /\ Len(t) = Len(First(n, s)) + Len(Rest(n, s))
          /\ \A i \in 1 .. Len(First(n, s)) + Len(Rest(n, s)) :
               t[i] = IF i <= Len(First(n, s)) THEN First(n, s)[i]
                      ELSE Rest(n, s)[i - Len(First(n, s))]
      <3> DEFINE f == First(n, s)  g == Rest(n, s)
      <3>1. f \in Seq(S) /\ g \in Seq(S)
        BY <1>1, <1>2
      <3>2. t = f \o g
        BY DEF t
      <3> HIDE DEF f, g
      <3>3. /\ f \o g \in Seq(S) /\ Len(f \o g) = Len(f) + Len(g)
            /\ \A i \in 1 .. Len(f) + Len(g) :
                 (f \o g)[i] = IF i <= Len(f) THEN f[i] ELSE g[i - Len(f)]
        BY <3>1, ConcatProperties, Zenon
      <3>4. /\ t \in Seq(S) /\ Len(t) = Len(f) + Len(g)
            /\ \A i \in 1 .. Len(f) + Len(g) : t[i] = IF i <= Len(f) THEN f[i] ELSE g[i - Len(f)]
        BY <3>2, <3>3
      <3> QED BY <3>4 DEF f, g
    <2> QED BY <1>1, <1>2, <2>1
  <1> HIDE DEF t
  <1>5. ASSUME NEW i \in 1 .. Len(s) PROVE t[i] = s[i]
    <2>1. CASE i <= n
      BY <1>1, <1>3, <1>4, <2>1
    <2>2. CASE ~(i <= n)
      <3>1. i - n \in 1 .. Len(s) - n /\ (i - n) + n = i
        BY <1>3, <2>2
      <3>2. Rest(n, s)[i - n] = s[(i - n) + n]
        BY <1>2, <3>1
      <3> QED BY <1>3, <1>4, <2>2, <3>1, <3>2
    <2> QED BY <2>1, <2>2
  <1>6. t = s
    BY <1>3, <1>4, <1>5, SeqEqual
  <1> QED BY <1>6 DEF t

LEMMA Joins ==
  ASSUME NEW r \in Seq(Byte), NEW k \in Seq(Byte), NEW s \in Seq(Byte)
  PROVE  r \o (k \o s) = (r \o k) \o s
  BY ConcatAssociative, SMTT(60)

\* What is cut off from the middle part at either end may be put on its neighbour.
LEMMA Moved ==
  ASSUME NEW r \in Seq(Byte), NEW k \in Seq(Byte), NEW s \in Seq(Byte), NEW n \in 0 .. Len(s)
  PROVE  r \o (k \o First(n, s)) \o Rest(n, s) = r \o k \o s
  <1>1. First(n, s) \in Seq(Byte) /\ Rest(n, s) \in Seq(Byte)
    BY FirstType, RestType
  <1>2. r \o k \in Seq(Byte) /\ r \o (k \o First(n, s)) = (r \o k) \o First(n, s)
    <2>1. r \o k \in Seq(Byte)
      BY ConcatProperties
    <2>2. (r \o k) \o First(n, s) = r \o (k \o First(n, s))
      BY <1>1, Joins
    <2> QED BY <2>1, <2>2
  <1>3. ((r \o k) \o First(n, s)) \o Rest(n, s) = (r \o k) \o (First(n, s) \o Rest(n, s))
    BY <1>1, <1>2, Joins
  <1> QED BY <1>2, <1>3, Joined

LEMMA ReadMoved ==
  ASSUME NEW S, NEW r \in Seq(S), NEW k \in Seq(S), k # <<>>
  PROVE  Append(r, Head(k)) \o Tail(k) = r \o k
  <1>1. Head(k) \in S /\ Tail(k) \in Seq(S) /\ <<Head(k)>> \in Seq(S)
    BY HeadTailProperties
  <1>2. Append(r, Head(k)) = r \o <<Head(k)>>
    BY <1>1, AppendIsConcat
  <1>3. k = <<Head(k)>> \o Tail(k)
    BY HeadTailAppend
  <1> QED BY <1>1, <1>2, <1>3, ConcatAssociative
-----------------------------------------------------------------------------
(***************************************************************************)
(* Types.                                                                  *)
(***************************************************************************)
LEMMA MessageType ==
  ASSUME TypeOK, NEW len \in Lengths, Gives(len)
  PROVE  /\ Message(len) \in Seq(Byte) /\ Len(Message(len)) = len /\ len \in Nat \ {0}
         /\ given' \in 0 .. MaxBytes
  <1>1. len \in Nat \ {0} /\ MaxBytes \in Nat /\ given \in Nat /\ given + len <= MaxBytes
    BY StreamAssumption DEF TypeOK, Gives
  <1>2. \A i \in 1 .. len : given + i \in Byte
    BY <1>1 DEF Byte
  <1> QED BY <1>1, <1>2 DEF Message, Gives

\* A write of some of the data that wait leaves each part where a sequence of bytes belongs.
LEMMA WriteType ==
  ASSUME TypeOK, NEW data \in Seq(Byte), NEW n \in Written(data)
  PROVE  /\ n \in 0 .. Len(data)
         /\ kernel \o First(n, data) \in Seq(Byte)
         /\ Len(kernel \o First(n, data)) <= KernelRoom
         /\ Rest(n, data) \in Seq(Byte)
  <1>1. /\ KernelRoom \in Nat /\ Len(kernel) \in Nat /\ Len(data) \in Nat
        /\ kernel \in Seq(Byte) /\ Len(kernel) <= KernelRoom
    BY StreamAssumption DEF TypeOK
  <1>2. n \in 0 .. Len(data) /\ Len(kernel) + n <= KernelRoom
    BY <1>1 DEF Written, Room, Shorter
  <1>3. First(n, data) \in Seq(Byte) /\ Len(First(n, data)) = n /\ Rest(n, data) \in Seq(Byte)
    BY <1>2, FirstType, RestType
  <1>4. /\ kernel \o First(n, data) \in Seq(Byte)
        /\ Len(kernel \o First(n, data)) = Len(kernel) + Len(First(n, data))
    BY <1>1, <1>3, ConcatProperties
  <1> QED BY <1>2, <1>3, <1>4

LEMMA InitTyped == Init => TypeOK
  <1>1. <<>> \in Seq(Byte) /\ Len(<<>>) = 0
    BY EmptySeq
  <1>2. 0 <= KernelRoom /\ 0 \in 0 .. MaxBytes
    BY StreamAssumption
  <1> QED BY <1>1, <1>2 DEF Init, TypeOK

LEMMA NextTyped == TypeOK /\ [Next]_vars => TypeOK'
  <1> SUFFICES ASSUME TypeOK, [Next]_vars PROVE TypeOK'
    OBVIOUS
  <1>1. ASSUME NEW len \in Lengths, SendBuffered(len) PROVE TypeOK'
    <2>1. /\ Message(len) \in Seq(Byte) /\ given' \in 0 .. MaxBytes
      BY <1>1, MessageType DEF SendBuffered
    <2>2. outputBuffer_' \in Seq(Byte) /\ accepted' \in Seq(Byte)
      BY <1>1, <2>1, ConcatProperties DEF SendBuffered, TypeOK
    <2>3. writing' \in BOOLEAN
      BY <1>1 DEF SendBuffered, enableWriting, TypeOK
    <2> QED BY <1>1, <2>1, <2>2, <2>3 DEF SendBuffered, TypeOK
  <1>2. ASSUME NEW len \in Lengths, SendDirect(len) PROVE TypeOK'
    <2>1. /\ Message(len) \in Seq(Byte) /\ given' \in 0 .. MaxBytes
      BY <1>2, MessageType DEF SendDirect
    <2>2. PICK n \in Written(Message(len)) :
            /\ kernel' = kernel \o First(n, Message(len))
            /\ outputBuffer_' = outputBuffer_ \o Rest(n, Message(len))
            /\ enableWriting(Rest(n, Message(len)))
      BY <1>2 DEF SendDirect
    <2>3. kernel' \in Seq(Byte) /\ Len(kernel') <= KernelRoom /\ Rest(n, Message(len)) \in Seq(Byte)
      BY <2>1, <2>2, WriteType
    <2>4. outputBuffer_' \in Seq(Byte) /\ accepted' \in Seq(Byte)
      BY <1>2, <2>1, <2>2, <2>3, ConcatProperties DEF SendDirect, TypeOK
    <2>5. writing' \in BOOLEAN
      BY <2>2 DEF enableWriting, TypeOK
    <2> QED BY <1>2, <2>1, <2>3, <2>4, <2>5 DEF SendDirect, TypeOK
  <1>3. ASSUME NEW len \in Lengths, SendDropped(len) PROVE TypeOK'
    <2>1. given' \in 0 .. MaxBytes
      BY <1>3, MessageType DEF SendDropped
    <2> QED BY <1>3, <2>1 DEF SendDropped, TypeOK, bufferVars
  <1>4. CASE HandleWrite
    <2>1. outputBuffer_ \in Seq(Byte)
      BY DEF TypeOK
    <2>2. PICK n \in Written(outputBuffer_) :
            kernel' = kernel \o First(n, outputBuffer_) /\ outputBuffer_' = Rest(n, outputBuffer_)
      BY <1>4 DEF HandleWrite
    <2>3. kernel' \in Seq(Byte) /\ Len(kernel') <= KernelRoom /\ outputBuffer_' \in Seq(Byte)
      BY <2>1, <2>2, WriteType
    <2> QED BY <1>4, <2>3 DEF HandleWrite, TypeOK
  <1>5. CASE PeerReads
    <2>1. /\ Head(kernel) \in Byte /\ kernel' \in Seq(Byte) /\ Len(kernel') = Len(kernel) - 1
      BY <1>5, HeadTailProperties DEF PeerReads, TypeOK
    <2>2. received' \in Seq(Byte) /\ Len(kernel') <= KernelRoom
      BY <1>5, <2>1, StreamAssumption DEF PeerReads, TypeOK
    <2> QED BY <1>5, <2>1, <2>2 DEF PeerReads, TypeOK
  <1>6. CASE SendKilled \/ HandleWriteKilled
    BY <1>6 DEF SendKilled, HandleWriteKilled, Killed, bufferVars, TypeOK
  <1>7. CASE Shutdown
    BY <1>7 DEF Shutdown, bufferVars, TypeOK
  <1>8. CASE HandleClose
    <2>1. outputBuffer_' \in Seq(Byte)
      BY <1>8, EmptySeq DEF HandleClose
    <2> QED BY <1>8, <2>1 DEF HandleClose, TypeOK
  <1>9. CASE CompleteReturns \/ PeerCloses \/ UNCHANGED vars
    BY <1>9 DEF CompleteReturns, PeerCloses, bufferVars, vars, TypeOK
  <1> QED
    BY <1>1, <1>2, <1>3, <1>4, <1>5, <1>6, <1>7, <1>8, <1>9 DEF Next

\* Every variable always holds a value of its type: bytes are in sequences, and the socket's
\* send buffer is never filled beyond its size.
THEOREM TypeCorrect == Spec => []TypeOK
  BY InitTyped, NextTyped, PTL DEF Spec
-----------------------------------------------------------------------------
(***************************************************************************)
(* StreamIntact.                                                           *)
(***************************************************************************)
LEMMA NextIntact ==
  ASSUME TypeOK, StreamIntact, [Next]_vars PROVE StreamIntact'
  <1> DEFINE r == received  k == kernel  o == outputBuffer_
  <1>0. r \in Seq(Byte) /\ k \in Seq(Byte) /\ o \in Seq(Byte) /\ accepted \in Seq(Byte)
        /\ r \o k \in Seq(Byte)
    BY ConcatProperties DEF TypeOK
  <1>moved. ASSUME NEW s \in Seq(Byte), NEW n \in 0 .. Len(s)
        PROVE  r \o (k \o First(n, s)) \o Rest(n, s) = r \o k \o s
    <2>1. r \in Seq(Byte) /\ k \in Seq(Byte)
      BY <1>0
    <2> HIDE DEF r, k, o
    <2> QED BY <2>1, Moved, SMTT(60)
  <1>joined. ASSUME NEW s \in Seq(Byte)
        PROVE  (r \o k) \o (o \o s) = ((r \o k) \o o) \o s
    <2> DEFINE rk == r \o k
    <2>1. rk \in Seq(Byte) /\ o \in Seq(Byte)
      BY <1>0
    <2> HIDE DEF rk, o
    <2>2. rk \o (o \o s) = (rk \o o) \o s
      BY <2>1, Joins, SMTT(60)
    <2> QED BY <2>2 DEF rk
  <1>1. ASSUME NEW len \in Lengths, SendBuffered(len) PROVE StreamIntact'
    <2>1. Message(len) \in Seq(Byte)
      BY <1>1, MessageType DEF SendBuffered
    <2>2. (r \o k) \o (o \o Message(len)) = ((r \o k) \o o) \o Message(len)
      BY <2>1, <1>joined
    <2> QED BY <1>1, <2>2 DEF SendBuffered, StreamIntact
  <1>2. ASSUME NEW len \in Lengths, SendDirect(len) PROVE StreamIntact'
    <2> DEFINE m == Message(len)
    <2>1. m \in Seq(Byte)
      BY <1>2, MessageType DEF SendDirect
    <2>2. PICK n \in Written(m) :
            kernel' = k \o First(n, m) /\ outputBuffer_' = o \o Rest(n, m)
      BY <1>2 DEF SendDirect
    <2>3. n \in 0 .. Len(m) /\ Rest(n, m) \in Seq(Byte)
      BY <2>1, <2>2, WriteType
    <2>4. o = <<>>
      BY <1>2 DEF SendDirect, WritesDirectly
    <2> HIDE DEF m
    <2>5. outputBuffer_' = Rest(n, m) /\ r \o k = r \o k \o o
      BY <1>0, <2>2, <2>3, <2>4, ConcatEmptySeq
    <2>6. r \o (k \o First(n, m)) \o Rest(n, m) = r \o k \o m
      BY <2>1, <2>3, <1>moved
    <2>7. received' \o kernel' \o outputBuffer_' = r \o k \o m
      BY <1>2, <2>2, <2>5, <2>6 DEF SendDirect
    <2> QED BY <1>2, <2>5, <2>7 DEF SendDirect, StreamIntact, m
  <1>3. CASE HandleWrite
    <2>1. PICK n \in Written(o) : kernel' = k \o First(n, o) /\ outputBuffer_' = Rest(n, o)
      BY <1>3 DEF HandleWrite
    <2>2. n \in 0 .. Len(o)
      BY <1>0, <2>1, WriteType
    <2>3. r \o (k \o First(n, o)) \o Rest(n, o) = r \o k \o o
      BY <1>0, <2>2, <1>moved
    <2>4. received' \o kernel' \o outputBuffer_' = r \o k \o o
      BY <1>3, <2>1, <2>3 DEF HandleWrite
    <2> QED BY <1>3, <2>4 DEF HandleWrite, StreamIntact
  <1>4. CASE PeerReads
    <2>1. received' \o kernel' = r \o k
      BY <1>0, <1>4, ReadMoved DEF PeerReads
    <2> QED BY <1>4, <2>1 DEF PeerReads, StreamIntact
  <1>5. CASE HandleClose
    BY <1>5 DEF HandleClose, StreamIntact
  <1>6. CASE \/ \E len \in Lengths : SendDropped(len)
             \/ SendKilled \/ HandleWriteKilled \/ CompleteReturns \/ PeerCloses
             \/ Shutdown \/ UNCHANGED vars
    <2>1. UNCHANGED <<received, kernel, outputBuffer_, accepted>>
      BY <1>6 DEF SendDropped, SendKilled, HandleWriteKilled, Killed, CompleteReturns,
                  PeerCloses, Shutdown, bufferVars, vars
    <2>2. state_' # "kDisconnected" => state_ # "kDisconnected"
      BY <1>6 DEF SendDropped, SendKilled, HandleWriteKilled, Killed, CompleteReturns,
                  PeerCloses, Shutdown, InUserCode, vars
    <2> QED BY <2>1, <2>2 DEF StreamIntact
  <1> QED BY <1>1, <1>2, <1>3, <1>4, <1>5, <1>6 DEF Next

\* What the peer has read, the kernel holds and outputBuffer_ holds is, in this order, what
\* send has accepted: no byte is lost, repeated or overtaken, however messages are cut.
THEOREM StreamIntactTheorem == Spec => []StreamIntact
  <1>1. Init => StreamIntact
    BY EmptySeq, ConcatEmptySeq DEF Init, StreamIntact
  <1> QED BY <1>1, NextIntact, TypeCorrect, PTL DEF Spec
-----------------------------------------------------------------------------
(***************************************************************************)
(* ShutAfterOutput.                                                        *)
(***************************************************************************)
\* EPOLLOUT is asked for exactly while something waits, and then nobody is in a
\* writeCompleteCallback_ that neither sends nor shuts down; who is shut down has asked for it.
Waits ==
  /\ writing = (outputBuffer_ # <<>>)
  /\ pc = "complete" /\ ~chatty => outputBuffer_ = <<>>
  /\ shut => state_ # "kConnected"

LEMMA NextWaits ==
  ASSUME TypeOK, Waits, ShutAfterOutput, [Next]_vars PROVE Waits' /\ ShutAfterOutput'
  <1> USE DEF Waits, ShutAfterOutput, Over
  <1>1. ASSUME NEW len \in Lengths, SendBuffered(len) PROVE Waits' /\ ShutAfterOutput'
    <2>1. /\ Message(len) \in Seq(Byte) /\ Message(len) # <<>>
      BY <1>1, MessageType DEF SendBuffered
    <2>2. outputBuffer_ # <<>>
      BY <1>1 DEF SendBuffered, WritesDirectly
    <2>3. outputBuffer_' # <<>>
      BY <1>1, <2>1, <2>2, ConcatProperties DEF SendBuffered, TypeOK
    <2> QED BY <1>1, <2>1, <2>2, <2>3 DEF SendBuffered, InUserCode, enableWriting, TypeOK
  <1>2. ASSUME NEW len \in Lengths, SendDirect(len) PROVE Waits' /\ ShutAfterOutput'
    <2>1. Message(len) \in Seq(Byte)
      BY <1>2, MessageType DEF SendDirect
    <2>2. PICK n \in Written(Message(len)) :
            /\ outputBuffer_' = outputBuffer_ \o Rest(n, Message(len))
            /\ enableWriting(Rest(n, Message(len)))
      BY <1>2 DEF SendDirect
    <2>3. Rest(n, Message(len)) \in Seq(Byte)
      BY <2>1, <2>2, WriteType
    <2>4. outputBuffer_ = <<>> /\ ~writing
      BY <1>2 DEF SendDirect, WritesDirectly
    <2>5. outputBuffer_' = Rest(n, Message(len))
      BY <2>2, <2>3, <2>4, ConcatEmptySeq
    <2> QED BY <1>2, <2>2, <2>4, <2>5 DEF SendDirect, InUserCode, enableWriting, TypeOK
  <1>3. CASE HandleWrite
    BY <1>3 DEF HandleWrite
  <1>4. CASE Shutdown
    BY <1>4 DEF Shutdown, InUserCode, bufferVars, TypeOK
  <1>5. CASE CompleteReturns
    BY <1>5 DEF CompleteReturns, bufferVars, TypeOK
  <1>6. CASE HandleClose
    BY <1>6 DEF HandleClose
  <1>7. CASE SendKilled \/ HandleWriteKilled
    BY <1>7 DEF SendKilled, HandleWriteKilled, Killed, bufferVars
  <1>8. CASE (\E len \in Lengths : SendDropped(len)) \/ PeerReads \/ PeerCloses \/ UNCHANGED vars
    BY <1>8 DEF SendDropped, PeerReads, PeerCloses, bufferVars, vars
  <1> QED BY <1>1, <1>2, <1>3, <1>4, <1>5, <1>6, <1>7, <1>8 DEF Next

\* When the socket is shut down, nothing that send has accepted is left to write (unless the
\* writeCompleteCallback_ itself sends and shuts down).
THEOREM ShutAfterOutputTheorem == Spec => []ShutAfterOutput
  <1>1. Init => Waits /\ ShutAfterOutput
    BY DEF Init, Waits, ShutAfterOutput
  <1> QED BY <1>1, NextWaits, TypeCorrect, PTL DEF Spec
=============================================================================
