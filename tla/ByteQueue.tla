----------------------------- MODULE ByteQueue -----------------------------
(***************************************************************************)
(* What Buffer promises to its callers: a sequence of bytes that can be    *)
(* extended and shortened at both ends.                                    *)
(***************************************************************************)
EXTENDS Naturals, Sequences

CONSTANT Data   \* sequences of bytes that callers put in

VARIABLE content

Init == content = <<>>

PutBack(data) == content' = content \o data
PutFront(data) == content' = data \o content
TakeFront(n) == content' = SubSeq(content, n + 1, Len(content))
TakeBack(n) == content' = SubSeq(content, 1, Len(content) - n)

Next ==
  \/ \E data \in Data : PutBack(data) \/ PutFront(data)
  \/ \E n \in 0 .. Len(content) : TakeFront(n) \/ TakeBack(n)

Spec == Init /\ [][Next]_content
=============================================================================
