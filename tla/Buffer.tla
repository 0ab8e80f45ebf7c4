------------------------------- MODULE Buffer -------------------------------
(***************************************************************************)
(* Buffer: a vector of bytes with the readable ones between two indexes,   *)
(* kCheapPrepend bytes kept free in front of them, and readable bytes that *)
(* are moved to the front before the vector grows.                         *)
(*                                                                         *)
(* An action is a call of a member function by a caller who keeps to the   *)
(* asserts on its arguments.  failed is set when an assert inside the      *)
(* class does not hold.                                                    *)
(*                                                                         *)
(* A definition marked "mutant" is part of no behaviour: it is a form that *)
(* a bug would give to the definition after it, and which the runs reject. *)
(***************************************************************************)
EXTENDS Integers, Sequences

CONSTANTS
  Byte, Zero,      \* values of a char; what vector::resize fills with
  kCheapPrepend,   \* 8
  kInitialSize,    \* 1024
  ExtraSize,       \* size of readFd's extrabuf: 65536
  MaxReadable      \* bound on readableBytes()

ASSUME BufferAssumption ==
  /\ Zero \in Byte
  /\ kCheapPrepend \in Nat /\ kInitialSize \in Nat /\ ExtraSize \in Nat /\ MaxReadable \in Nat

VARIABLES
  buffer_, size,   \* the vector, indexed from 0, and its size()
  readerIndex_, writerIndex_,
  failed

vars == <<buffer_, size, readerIndex_, writerIndex_, failed>>

\* A Buffer object; bad: an assert of the call has failed.
Object(bytes, n, reader, writer, bad) ==
  [bytes |-> bytes, size |-> n, reader |-> reader, writer |-> writer, bad |-> bad]

This == Object(buffer_, size, readerIndex_, writerIndex_, FALSE)

\* The object becomes b.
Becomes(b) ==
  /\ buffer_' = b.bytes /\ size' = b.size
  /\ readerIndex_' = b.reader /\ writerIndex_' = b.writer
  /\ failed' = (failed \/ b.bad)

readableBytes(b) == b.writer - b.reader
writableBytes(b) == b.size - b.writer
prependableBytes(b) == b.reader

Init ==
  /\ size = kCheapPrepend + kInitialSize
  /\ buffer_ = [k \in 0 .. size - 1 |-> Zero]
  /\ readerIndex_ = kCheapPrepend /\ writerIndex_ = kCheapPrepend
  /\ failed = FALSE
-----------------------------------------------------------------------------
(***************************************************************************)
(* Helpers: what std::copy and vector::resize do to the bytes, and the     *)
(* private functions.                                                      *)
(***************************************************************************)
Overwritten(bytes, n, at, data) ==
  [k \in 0 .. n - 1 |-> IF at <= k /\ k < at + Len(data) THEN data[k - at + 1] ELSE bytes[k]]

Resized(bytes, old, n) == [k \in 0 .. n - 1 |-> IF k < old THEN bytes[k] ELSE Zero]

NotMoved(b, at) == b.bytes  \* mutant: moves the indexes only
MovedTo(b, at) ==
  [k \in 0 .. b.size - 1 |-> IF at <= k /\ k < at + readableBytes(b)
                             THEN b.bytes[k - at + b.reader] ELSE b.bytes[k]]

UsesPrepend(b, len) ==  \* mutant: does not count the bytes kept free
  writableBytes(b) + prependableBytes(b) < len
MustGrow(b, len) == writableBytes(b) + prependableBytes(b) < len + kCheapPrepend

makeSpace(b, len) ==
  IF MustGrow(b, len)
  THEN Object(Resized(b.bytes, b.size, b.writer + len), b.writer + len, b.reader, b.writer, b.bad)
  ELSE Object(MovedTo(b, kCheapPrepend), b.size,
              kCheapPrepend, kCheapPrepend + readableBytes(b),
              b.bad \/ ~(kCheapPrepend < b.reader))

ensureWritableBytes(b, len) ==
  LET c == IF writableBytes(b) < len THEN makeSpace(b, len) ELSE b
  IN Object(c.bytes, c.size, c.reader, c.writer, c.bad \/ ~(writableBytes(c) >= len))

\* std::copy to beginWrite(), and hasWritten.
copyIn(b, data) ==
  Object(Overwritten(b.bytes, b.size, b.writer, data), b.size,
         b.reader, b.writer + Len(data), b.bad)

append(b, data) == copyIn(ensureWritableBytes(b, Len(data)), data)
-----------------------------------------------------------------------------
(***************************************************************************)
(* The public operations.                                                  *)
(***************************************************************************)
Fits(data) == readableBytes(This) + Len(data) <= MaxReadable

AppendData(data) ==
  /\ Fits(data)
  /\ Becomes(append(This, data))

\* readFd: into the writable bytes first, what is more through extrabuf.
Read(data) ==
  LET n == writableBytes(This)
  IN IF Len(data) <= n THEN copyIn(This, data)
     ELSE append(copyIn(This, SubSeq(data, 1, n)), SubSeq(data, n + 1, Len(data)))

ReadFd(data) ==
  /\ Fits(data)
  /\ Len(data) <= writableBytes(This) + (IF writableBytes(This) < ExtraSize THEN ExtraSize ELSE 0)
  /\ Becomes(Read(data))

Prepend(data) ==
  /\ Fits(data)
  /\ Len(data) <= prependableBytes(This)
  /\ Becomes(Object(Overwritten(buffer_, size, readerIndex_ - Len(data), data), size,
                    readerIndex_ - Len(data), writerIndex_, FALSE))

retrieveAll == Object(buffer_, size, kCheapPrepend, kCheapPrepend, FALSE)

\* retrieve; retrieveUntil, retrieveAsString and the functions for integers call it.
Retrieve(len) ==
  /\ len <= readableBytes(This)
  /\ Becomes(IF len < readableBytes(This)
             THEN Object(buffer_, size, readerIndex_ + len, writerIndex_, FALSE)
             ELSE retrieveAll)

Unwrite(len) ==
  /\ len <= readableBytes(This)
  /\ Becomes(Object(buffer_, size, readerIndex_, writerIndex_ - len, FALSE))
-----------------------------------------------------------------------------
Data == UNION {[1 .. n -> Byte] : n \in 0 .. MaxReadable}

Next ==
  \/ \E data \in Data : AppendData(data) \/ ReadFd(data) \/ Prepend(data)
  \/ \E len \in 0 .. MaxReadable : Retrieve(len) \/ Unwrite(len)

Spec == Init /\ [][Next]_vars
-----------------------------------------------------------------------------
\* Every variable holds a value of its type, and the indexes are in the order that the
\* comment of the class draws; the bytes kept free exist.
TypeOK ==
  /\ size \in Nat /\ buffer_ \in [0 .. size - 1 -> Byte]
  /\ readerIndex_ \in Nat /\ writerIndex_ \in Nat
  /\ readerIndex_ <= writerIndex_ /\ writerIndex_ <= size
  /\ kCheapPrepend <= size
  /\ failed \in BOOLEAN

\* The asserts inside the class hold: when the bytes are moved they are moved down, and
\* then, or after the vector has grown, there is room for what is appended, even after
\* prepend has used the bytes kept free.
AssertsHold == ~failed

content == [k \in 1 .. writerIndex_ - readerIndex_ |-> buffer_[readerIndex_ + k - 1]]

\* The vector grows only when what it has to hold, with the bytes kept free, does not fit
\* into it: never because the readable bytes have wandered to its end.
GrowsOnlyWhenFull ==
  [][size' > size => Len(content') + kCheapPrepend > size]_vars

Queue == INSTANCE ByteQueue

\* Buffer implements ByteQueue: whatever is moved or copied, the readable bytes are the
\* ones that were put in, in order.
Implements == Queue!Spec
=============================================================================
