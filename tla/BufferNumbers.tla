--------------------------- MODULE BufferNumbers ---------------------------
(***************************************************************************)
(* The integers of a Buffer: appendInt8 to appendInt64, prependInt8 and so *)
(* on put them in as bytes in network order, peekInt8 and so on get them   *)
(* out.  Bytes are digits, as many as a CONSTANT of Buffer says, and the   *)
(* sizes 1, 2, 4 and 8 are a constant.                                     *)
(*                                                                         *)
(* A user either keeps to these functions (and reads what is next with the *)
(* function for its size) or calls the others of Buffer.                   *)
(*                                                                         *)
(* A definition marked "mutant" is part of no behaviour: it is a form that *)
(* a bug would give to the definition after it, and which the runs reject. *)
(***************************************************************************)
EXTENDS Buffer, FiniteSets

CONSTANT Sizes

ASSUME SizesAssumption ==
  /\ Sizes \subseteq Nat \ {0}
  /\ IsFiniteSet(Byte) /\ Byte = 0 .. Cardinality(Byte) - 1

VARIABLES
  numeric,   \* whether the user keeps to the functions for integers
  numbers    \* the integers put in and not yet read, with their sizes

numbersVars == <<vars, numeric, numbers>>

\* How many integers have size n, and which they are.
Values[n \in Nat] == IF n = 0 THEN 1 ELSE Cardinality(Byte) * Values[n - 1]
Number(n) == -(Values[n] \div 2) .. Values[n] - (Values[n] \div 2) - 1

\* The most significant byte comes first; a negative integer is a two's complement.
hostToNetwork(x, n) == [k \in 1 .. n |-> (x \div Values[n - k]) % Cardinality(Byte)]

BigEndian(bytes) ==  \* the value of the first k bytes, for each k
  LET high[k \in 0 .. Len(bytes)] ==
        IF k = 0 THEN 0 ELSE high[k - 1] * Cardinality(Byte) + bytes[k]
  IN high

Unsigned(bytes) == BigEndian(bytes)[Len(bytes)]  \* mutant
networkToHost(bytes) ==
  LET x == BigEndian(bytes)[Len(bytes)]
  IN IF x \in Number(Len(bytes)) THEN x ELSE x - Values[Len(bytes)]

peekInt(n) == networkToHost(SubSeq(content, 1, n))

AppendInt(x, n) ==
  /\ AppendData(hostToNetwork(x, n))
  /\ numbers' = Append(numbers, <<x, n>>)

PrependInt(x, n) ==
  /\ Prepend(hostToNetwork(x, n))
  /\ numbers' = <<<<x, n>>>> \o numbers

ReadInt(n) ==
  /\ numbers # <<>> /\ Head(numbers)[2] = n
  /\ Retrieve(n)
  /\ numbers' = Tail(numbers)

NumbersInit == Init /\ numeric \in BOOLEAN /\ numbers = <<>>

NumbersNext ==
  \/ /\ numeric
     /\ \E n \in Sizes : ReadInt(n) \/ \E x \in Number(n) : AppendInt(x, n) \/ PrependInt(x, n)
     /\ UNCHANGED numeric
  \/ ~numeric /\ Next /\ UNCHANGED <<numeric, numbers>>

NumbersSpec == NumbersInit /\ [][NumbersNext]_numbersVars
-----------------------------------------------------------------------------
\* What peekInt and readInt return is the integer that was put in, whatever its sign,
\* wherever in the vector its bytes have been moved, and whatever was put in before it.
NumbersKept == numbers # <<>> => peekInt(Head(numbers)[2]) = Head(numbers)[1]
=============================================================================
