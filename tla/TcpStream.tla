----------------------------- MODULE TcpStream -----------------------------
(***************************************************************************)
(* What one TcpConnection sends: send, handleWrite, shutdown and           *)
(* handleClose, its outputBuffer_, the socket's send buffer and the peer.  *)
(*                                                                         *)
(* Everything runs on the loop's thread; what is hard is that a message    *)
(* is written in pieces, by send and by handleWrite, with calls of send    *)
(* and shutdown between the pieces, and in the writeCompleteCallback_ that *)
(* handleWrite calls before it looks at state_.                            *)
(*                                                                         *)
(* A definition marked "mutant" is part of no behaviour: it is a form that *)
(* a bug would give to the definition after it, and which the runs reject. *)
(***************************************************************************)
EXTENDS Integers, Sequences

CONSTANTS
  Lengths,        \* lengths of messages
  KernelRoom,     \* bytes the socket's send buffer can hold
  MaxBytes        \* bound on the bytes given to send

ASSUME StreamAssumption ==
  /\ Lengths \subseteq Nat \ {0}
  /\ KernelRoom \in Nat \ {0}
  /\ MaxBytes \in Nat

VARIABLES
  state_, outputBuffer_,
  writing,   \* channel_->isWriting()
  kernel,    \* bytes in the socket's send buffer
  received,  \* bytes the peer has read
  shut,      \* shutdownWrite has been called
  peer,      \* "open", or "closed" when no more is to be read from it
  pc,        \* "loop": between two handlers, or in user code that another one calls
  chatty,    \* whether the writeCompleteCallback_ calls send and shutdown
  given,     \* how many bytes have been given to send; they are 1, 2, 3, ...
  accepted   \* those of them that send has not thrown away

bufferVars == <<outputBuffer_, writing, kernel, received>>
vars == <<state_, bufferVars, shut, peer, pc, chatty, given, accepted>>

Byte == 1 .. MaxBytes
Shorter(m, n) == IF m < n THEN m ELSE n

Init ==
  /\ state_ = "kConnected" /\ outputBuffer_ = <<>> /\ writing = FALSE
  /\ kernel = <<>> /\ received = <<>> /\ shut = FALSE /\ peer = "open"
  /\ pc = "loop" /\ chatty \in BOOLEAN /\ given = 0 /\ accepted = <<>>
-----------------------------------------------------------------------------
(***************************************************************************)
(* write: some of the bytes; none (EAGAIN) if the send buffer is full; and *)
(* SIGPIPE, which nobody handles, on a socket that has been shut down.     *)
(***************************************************************************)
Room == KernelRoom - Len(kernel)
Written(data) == 1 .. Shorter(Room, Len(data))

First(n, data) == SubSeq(data, 1, n)
Rest(n, data) == SubSeq(data, n + 1, Len(data))

Killed ==
  /\ shut
  /\ pc' = "killed"
  /\ UNCHANGED <<chatty, state_, bufferVars, shut, peer, given, accepted>>

PeerReads ==
  /\ kernel # <<>>
  /\ received' = Append(received, Head(kernel))
  /\ kernel' = Tail(kernel)
  /\ UNCHANGED <<chatty, state_, outputBuffer_, writing, shut, peer, pc, given, accepted>>

PeerCloses ==
  /\ peer = "open"
  /\ peer' = "closed"
  /\ UNCHANGED <<chatty, state_, bufferVars, shut, pc, given, accepted>>
-----------------------------------------------------------------------------
(***************************************************************************)
(* TcpConnection::send.  (When all is written, writeCompleteCallback_ is   *)
(* more of the user code that has called send.)                            *)
(***************************************************************************)
InUserCode == state_ # "kDisconnected" /\ (pc = "loop" \/ (pc = "complete" /\ chatty))

\* A message of a given length, made of the next bytes.
Message(len) == [i \in 1 .. len |-> given + i]
Gives(len) == given + len <= MaxBytes /\ given' = given + len

AlwaysDirect == TRUE  \* mutant: does not ask whether older bytes wait
WritesDirectly == ~writing /\ outputBuffer_ = <<>>

NeverEnabled(rest) == UNCHANGED writing  \* mutant
enableWriting(rest) == writing' = (writing \/ rest # <<>>)

SendBuffered(len) ==
  /\ InUserCode /\ Gives(len)
  /\ ~WritesDirectly
  /\ outputBuffer_' = outputBuffer_ \o Message(len)
  /\ enableWriting(Message(len))
  /\ accepted' = accepted \o Message(len)
  /\ UNCHANGED <<chatty, state_, kernel, received, shut, peer, pc>>

SendDirect(len) ==
  /\ InUserCode /\ Gives(len)
  /\ WritesDirectly /\ ~shut
  /\ \E n \in Written(Message(len)) :
       LET rest == Rest(n, Message(len)) IN
       /\ kernel' = kernel \o First(n, Message(len))
       /\ outputBuffer_' = outputBuffer_ \o rest
       /\ enableWriting(rest)
  /\ accepted' = accepted \o Message(len)
  /\ UNCHANGED <<chatty, state_, received, shut, peer, pc>>

\* write returns -1, which as a size_t is not less than len: nothing is appended.
SendDropped(len) ==
  /\ InUserCode /\ Gives(len)
  /\ WritesDirectly /\ ~shut
  /\ Room = 0
  /\ UNCHANGED <<chatty, state_, bufferVars, shut, peer, pc, accepted>>

SendKilled == InUserCode /\ given < MaxBytes /\ WritesDirectly /\ Killed
-----------------------------------------------------------------------------
(***************************************************************************)
(* handleWrite, up to the writeCompleteCallback_ and from it; shutdown;    *)
(* and handleClose, with which the connection's object goes.               *)
(***************************************************************************)
HandleWrite ==
  /\ pc = "loop" /\ writing /\ ~shut
  /\ \E n \in Written(outputBuffer_) :
       /\ kernel' = kernel \o First(n, outputBuffer_)
       /\ outputBuffer_' = Rest(n, outputBuffer_)
  /\ writing' = (outputBuffer_' # <<>>)
  /\ pc' = IF writing' THEN "loop" ELSE "complete"
  /\ UNCHANGED <<chatty, state_, received, shut, peer, given, accepted>>

HandleWriteKilled == pc = "loop" /\ writing /\ Killed

ForgetsShutdown ==  \* mutant
  /\ pc = "complete" /\ pc' = "loop"
  /\ UNCHANGED <<chatty, state_, bufferVars, shut, peer, given, accepted>>

CompleteReturns ==
  /\ pc = "complete" /\ pc' = "loop"
  /\ shut' = (shut \/ state_ = "kDisconnecting")
  /\ UNCHANGED <<chatty, state_, bufferVars, peer, given, accepted>>

ShutdownAtOnce ==  \* mutant
  /\ InUserCode /\ state_ = "kConnected"
  /\ state_' = "kDisconnecting"
  /\ shut' = TRUE
  /\ UNCHANGED <<chatty, bufferVars, peer, pc, given, accepted>>

Shutdown ==
  /\ InUserCode /\ state_ = "kConnected"
  /\ state_' = "kDisconnecting"
  /\ shut' = ~writing
  /\ UNCHANGED <<chatty, bufferVars, peer, pc, given, accepted>>

HandleClose ==
  /\ pc = "loop" /\ state_ # "kDisconnected"
  /\ peer = "closed"
  /\ state_' = "kDisconnected"
  /\ outputBuffer_' = <<>> /\ writing' = FALSE
  /\ UNCHANGED <<chatty, kernel, received, shut, peer, pc, given, accepted>>
-----------------------------------------------------------------------------
Next ==
  \/ \E len \in Lengths : SendBuffered(len) \/ SendDirect(len) \/ SendDropped(len)
  \/ SendKilled \/ Shutdown
  \/ HandleWrite \/ HandleWriteKilled \/ CompleteReturns \/ HandleClose
  \/ PeerReads \/ PeerCloses

Spec == Init /\ [][Next]_vars

\* The loop handles EPOLLOUT, callbacks return, and the peer reads what there is to read.
FairSpec ==
  /\ Spec
  /\ WF_vars(HandleWrite \/ HandleWriteKilled) /\ WF_vars(CompleteReturns)
  /\ WF_vars(PeerReads)
-----------------------------------------------------------------------------
Over == state_ = "kDisconnected" \/ pc = "killed"

\* Every variable holds a value of its type.
TypeOK ==
  /\ state_ \in {"kConnected", "kDisconnecting", "kDisconnected"}
  /\ outputBuffer_ \in Seq(Byte) /\ writing \in BOOLEAN
  /\ kernel \in Seq(Byte) /\ Len(kernel) <= KernelRoom
  /\ received \in Seq(Byte) /\ accepted \in Seq(Byte)
  /\ shut \in BOOLEAN /\ peer \in {"open", "closed"}
  /\ pc \in {"loop", "complete", "killed"}
  /\ chatty \in BOOLEAN /\ given \in 0 .. MaxBytes

\* No byte is lost, repeated or overtaken between send and the peer, however the messages
\* are cut into pieces: while the connection lives, what the peer has read, the kernel
\* holds and outputBuffer_ holds is, in this order, what send has accepted.
StreamIntact ==
  state_ # "kDisconnected" => received \o kernel \o outputBuffer_ = accepted

\* The stream ends after its last byte: when the socket is shut down, nothing accepted is
\* left to write.  (Provided that the writeCompleteCallback_ does not call send and
\* shutdown: handleWrite would shut the socket down behind it.)
ShutAfterOutput == ~chatty /\ shut /\ ~Over => outputBuffer_ = <<>>

\* What send has accepted arrives, unless the peer closes or SIGPIPE ends the process.
AcceptedArrives ==
  \A n \in Byte : (Len(accepted) >= n) ~> (Len(received) >= n \/ Over)

\* After shutdown the stream ends, unless the peer closes or SIGPIPE ends the process.
ShutdownEnds == (state_ = "kDisconnecting") ~> (shut \/ Over)

\* TcpConnection.h:38, :66: send sends the message; what cannot be written now is kept
\* in the send buffer.
NothingDropped == Len(accepted) = given
=============================================================================
