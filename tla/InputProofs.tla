---------------------------- MODULE InputProofs ----------------------------
(***************************************************************************)
(* What a connection reads: the bytes of its Buffer, the integers and the  *)
(* HTTP requests in them.  The asserts of Buffer hold, it implements       *)
(* ByteQueue and gives back the integers that were put in, for every size  *)
(* of the vector, of the bytes kept free, of the data and of a byte; and   *)
(* an HttpServer gives the right answers, for every set of requests.       *)
(***************************************************************************)
EXTENDS BufferNumbers, Http, SequenceTheorems, FiniteSetTheorems, WellFoundedInduction, TLAPS
-----------------------------------------------------------------------------
(***************************************************************************)
(* Induction over the naturals, for a set, and what it gives: a function   *)
(* defined by a step.                                                      *)
(***************************************************************************)
Earlier == {p \in Nat \X Nat : p[1] < p[2]}

\* A set of naturals with 0 and the successor of each of its elements has them all.
LEMMA Induction ==
  ASSUME NEW P, 0 \in P, \A n \in Nat : n \in P => n + 1 \in P
  PROVE  \A n \in Nat : n \in P
  <1> SUFFICES ASSUME \E n \in Nat : n \notin P PROVE FALSE
    OBVIOUS
  <1> DEFINE Q == {n \in Nat : n \notin P}
  <1>1. IsWellFoundedOn(Earlier, Nat)
    BY NatLessThanWellFounded DEF OpToRel, Earlier
  <1>2. Q \subseteq Nat /\ Q # {}
    OBVIOUS
  <1> HIDE DEF Q
  <1>3. PICK m \in Q : \A n \in Q : ~(<<n, m>> \in Earlier)
    BY <1>1, <1>2, WFMin
  <1>4. m \in Nat /\ m \notin P
    BY <1>3 DEF Q
  <1>5. m # 0
    BY <1>4
  <1>6. m - 1 \in Nat /\ (m - 1) + 1 = m
    BY <1>4, <1>5
  <1>7. m - 1 \notin P
    BY <1>4, <1>6
  <1>8. m - 1 \in Q /\ <<m - 1, m>> \in Earlier
    BY <1>4, <1>6, <1>7 DEF Q, Earlier
  <1> QED BY <1>3, <1>8

\* A function may be defined by its value for 0 and the step from one value to the next.
Recurses(f, S, a, g) ==
  f \in [Nat -> S] /\ f[0] = a /\ \A n \in Nat : f[n + 1] = g[<<n, f[n]>>]

LEMMA Recursion ==
  ASSUME NEW S, NEW a \in S, NEW g \in [Nat \X S -> S]
  PROVE  \E f : Recurses(f, S, a, g)
  <1> DEFINE Upto(m) == {f \in [0 .. m -> S] :
                           f[0] = a /\ \A n \in Nat : n < m => f[n + 1] = g[<<n, f[n]>>]}
  <1>1. \A m \in Nat : Upto(m) # {}
    <2> DEFINE P == {m \in Nat : Upto(m) # {}}
    <2>1. 0 \in P
      <3>1. [n \in 0 .. 0 |-> a] \in Upto(0)
        OBVIOUS
      <3> QED BY <3>1
    <2>2. ASSUME NEW m \in Nat, m \in P PROVE m + 1 \in P
      <3>1. PICK f \in Upto(m) : TRUE
        BY <2>2
      <3>2. f \in [0 .. m -> S] /\ f[m] \in S /\ <<m, f[m]>> \in Nat \X S
        BY <3>1
      <3> DEFINE h == [n \in 0 .. m + 1 |-> IF n = m + 1 THEN g[<<m, f[m]>>] ELSE f[n]]
      <3>3. h \in [0 .. m + 1 -> S]
        <4>1. g[<<m, f[m]>>] \in S
          BY <3>2
        <4>2. \A n \in 0 .. m + 1 : n # m + 1 => f[n] \in S
          BY <3>2
        <4> QED BY <4>1, <4>2
      <3>4. h[0] = a
        BY <3>1
      <3>5. ASSUME NEW n \in Nat, n < m + 1 PROVE h[n + 1] = g[<<n, h[n]>>]
        <4>1. h[n] = f[n]
          BY <3>5
        <4>2. CASE n = m
          <5>1. h[n + 1] = g[<<m, f[m]>>]
            BY <4>2
          <5> QED BY <4>1, <4>2, <5>1
        <4>3. CASE n < m
          <5>1. h[n + 1] = f[n + 1]
            BY <4>3
          <5> QED BY <3>1, <4>1, <4>3, <5>1
        <4> QED BY <3>5, <4>2, <4>3
      <3> HIDE DEF h
      <3>6. h \in Upto(m + 1)
        BY <3>3, <3>4, <3>5
      <3> QED BY <3>6
    <2> HIDE DEF P
    <2>3. \A m \in Nat : m \in P
      BY <2>1, <2>2, Induction
    <2> QED BY <2>3 DEF P
  <1>2. ASSUME NEW m \in Nat, NEW f \in Upto(m), NEW k \in Nat, NEW h \in Upto(k)
        PROVE  \A n \in Nat : n <= m /\ n <= k => f[n] = h[n]
    <2> DEFINE P == {n \in Nat : n <= m /\ n <= k => f[n] = h[n]}
    <2>1. 0 \in P
      OBVIOUS
    <2>2. ASSUME NEW n \in Nat, n \in P PROVE n + 1 \in P
      <3>1. CASE n + 1 <= m /\ n + 1 <= k
        <4>1. f[n] = h[n] /\ n < m /\ n < k
          BY <2>2, <3>1
        <4>2. f[n + 1] = g[<<n, f[n]>>] /\ h[n + 1] = g[<<n, h[n]>>]
          BY <4>1
        <4> QED BY <4>1, <4>2
      <3>2. CASE ~(n + 1 <= m /\ n + 1 <= k)
        BY <3>2
      <3> QED BY <3>1, <3>2
    <2> HIDE DEF P
    <2>3. \A n \in Nat : n \in P
      BY <2>1, <2>2, Induction
    <2> QED BY <2>3 DEF P
  <1> DEFINE pick(m) == CHOOSE f : f \in Upto(m)
             F == [m \in Nat |-> pick(m)[m]]
  <1>3. \A m \in Nat : pick(m) \in Upto(m)
    BY <1>1
  <1> HIDE DEF pick
  <1>4. \A m \in Nat : pick(m) \in [0 .. m -> S] /\ pick(m)[0] = a
    BY <1>3
  <1>5. F \in [Nat -> S] /\ F[0] = a
    BY <1>4
  <1>6. ASSUME NEW n \in Nat PROVE F[n + 1] = g[<<n, F[n]>>]
    <2>1. n + 1 \in Nat /\ pick(n + 1) \in Upto(n + 1) /\ pick(n) \in Upto(n)
      BY <1>3
    <2>2. pick(n + 1)[n + 1] = g[<<n, pick(n + 1)[n]>>]
      BY <2>1
    <2> HIDE DEF Upto
    <2>3. pick(n + 1)[n] = pick(n)[n]
      BY <1>2, <2>1
    <2> QED BY <2>1, <2>2, <2>3
  <1> HIDE DEF F
  <1>7. Recurses(F, S, a, g)
    BY <1>5, <1>6 DEF Recurses
  <1> QED BY <1>7
-----------------------------------------------------------------------------
(***************************************************************************)
(* FlattenSeq: what it takes off the front and puts on at the end.         *)
(***************************************************************************)
\* The value for the first i of a list of sequences.
Flat(p) == CHOOSE f : f = [i \in 1 .. Len(p) |-> IF i = 1 THEN p[i] ELSE f[i - 1] \o p[i]]

LEMMA FlatTable ==
  ASSUME NEW S, NEW p \in Seq(Seq(S))
  PROVE  /\ Flat(p) \in [1 .. Len(p) -> Seq(S)]
         /\ \A i \in 1 .. Len(p) : Flat(p)[i] = IF i = 1 THEN p[i] ELSE Flat(p)[i - 1] \o p[i]
         /\ FlattenSeq(p) = IF p = <<>> THEN <<>> ELSE Flat(p)[Len(p)]
  <1> DEFINE n == Len(p)
             g == [q \in Nat \X Seq(S) |-> IF q[1] + 1 \in 1 .. n THEN q[2] \o p[q[1] + 1] ELSE <<>>]
  <1>1. n \in Nat /\ \A i \in 1 .. n : p[i] \in Seq(S)
    OBVIOUS
  <1>2. <<>> \in Seq(S) /\ \A s, t \in Seq(S) : s \o t \in Seq(S) /\ <<>> \o t = t
    OBVIOUS
  <1>3. /\ g \in [Nat \X Seq(S) -> Seq(S)]
        /\ \A i \in Nat, s \in Seq(S) : i + 1 \in 1 .. n => g[<<i, s>>] = s \o p[i + 1]
    BY <1>1, <1>2
  <1> HIDE DEF g, n
  <1>4. PICK f \in [Nat -> Seq(S)] : f[0] = <<>> /\ \A i \in Nat : f[i + 1] = g[<<i, f[i]>>]
    <2>1. PICK T : T = Seq(S)
      OBVIOUS
    <2>2. PICK e : e = <<>>
      OBVIOUS
    <2>3. e \in T /\ g \in [Nat \X T -> T]
      BY <1>2, <1>3, <2>1, <2>2
    <2>4. \E f : Recurses(f, T, e, g)
      BY <2>3, Recursion
    <2>5. PICK f : Recurses(f, T, e, g)
      BY <2>4
    <2> QED BY <2>1, <2>2, <2>5 DEF Recurses
  <1>5. ASSUME NEW i \in 1 .. n PROVE f[i] = f[i - 1] \o p[i]
    <2>1. i - 1 \in Nat /\ (i - 1) + 1 = i
      BY <1>1
    <2>2. f[(i - 1) + 1] = g[<<i - 1, f[i - 1]>>]
      BY <1>4, <2>1
    <2>3. f[i - 1] \in Seq(S)
      BY <1>4, <2>1
    <2> QED BY <1>3, <2>1, <2>2, <2>3
  <1> DEFINE h == [i \in 1 .. n |-> f[i]]
  <1>6. h \in [1 .. n -> Seq(S)]
    BY <1>1, <1>4
  <1>7. ASSUME NEW i \in 1 .. n PROVE h[i] = IF i = 1 THEN p[i] ELSE h[i - 1] \o p[i]
    <2>1. h[i] = f[i] /\ p[i] \in Seq(S)
      BY <1>1
    <2>2. CASE i = 1
      <3>1. f[i - 1] = <<>>
        BY <1>4, <2>2
      <3>2. h[i] = <<>> \o p[i]
        BY <1>5, <2>1, <3>1
      <3> QED BY <1>2, <2>1, <2>2, <3>2
    <2>3. CASE i # 1
      <3>1. h[i - 1] = f[i - 1]
        BY <1>1, <2>3
      <3> QED BY <1>5, <2>1, <2>3, <3>1
    <2> QED BY <2>2, <2>3
  <1> HIDE DEF h
  <1>8. h = [i \in 1 .. n |-> IF i = 1 THEN p[i] ELSE h[i - 1] \o p[i]]
    BY <1>6, <1>7
  <1>9. Flat(p) = [i \in 1 .. n |-> IF i = 1 THEN p[i] ELSE Flat(p)[i - 1] \o p[i]]
    BY <1>8 DEF Flat, n
  <1>10. Flat(p) = h
    <2> DEFINE F == Flat(p)
               P == {i \in Nat : i \in 1 .. n => F[i] = h[i]}
    <2>1. F = [i \in 1 .. n |-> IF i = 1 THEN p[i] ELSE F[i - 1] \o p[i]]
      BY <1>9
    <2> HIDE DEF F
    <2>2. \A i \in 1 .. n : F[i] = IF i = 1 THEN p[i] ELSE F[i - 1] \o p[i]
      BY <2>1
    <2>3. 0 \in P
      BY <1>1
    <2>4. ASSUME NEW i \in Nat, i \in P PROVE i + 1 \in P
      <3>1. CASE i + 1 \in 1 .. n /\ i = 0
        BY <1>7, <2>2, <3>1
      <3>2. CASE i + 1 \in 1 .. n /\ i # 0
        <4>1. i \in 1 .. n /\ (i + 1) - 1 = i /\ i + 1 # 1
          BY <1>1, <3>2
        <4>2. F[i + 1] = F[i] \o p[i + 1] /\ h[i + 1] = h[i] \o p[i + 1]
          BY <1>7, <2>2, <3>2, <4>1
        <4>3. F[i] = h[i]
          BY <2>4, <4>1
        <4>4. F[i + 1] = h[i + 1]
          BY <4>2, <4>3, Zenon
        <4>5. i + 1 \in Nat
          OBVIOUS
        <4> QED BY <4>4, <4>5, Zenon
      <3>3. CASE i + 1 \notin 1 .. n
        <4>1. i + 1 \in Nat
          OBVIOUS
        <4> QED BY <3>3, <4>1, Zenon
      <3> QED BY <3>1, <3>2, <3>3
    <2> HIDE DEF P
    <2>5. \A i \in Nat : i \in P
      BY <2>3, <2>4, Induction
    <2>6. \A i \in 1 .. n : F[i] = h[i]
      BY <1>1, <2>5 DEF P
    <2>7. DOMAIN F = 1 .. n /\ F = [i \in 1 .. n |-> F[i]]
      BY <2>1
    <2> QED BY <1>6, <2>6, <2>7 DEF F
  <1>11. FlattenSeq(p) = IF p = <<>> THEN <<>> ELSE Flat(p)[n]
    <2>1. n = 0 <=> p = <<>>
      BY DEF n
    <2> QED BY <2>1 DEF FlattenSeq, Flat, n
  <1> QED BY <1>6, <1>7, <1>10, <1>11 DEF n
\* The first i of a list of sequences, run together.
Joined(p, i) == IF i = 0 THEN <<>> ELSE Flat(p)[i]

LEMMA Fronts ==
  ASSUME NEW S, NEW p \in Seq(Seq(S))
  PROVE  /\ Joined(p, 0) = <<>> /\ FlattenSeq(p) = Joined(p, Len(p))
         /\ \A i \in 0 .. Len(p) : Joined(p, i) \in Seq(S)
         /\ \A i \in 1 .. Len(p) : p[i] \in Seq(S) /\ Joined(p, i) = Joined(p, i - 1) \o p[i]
  <1> DEFINE n == Len(p)
             F == Flat(p)
  <1>1. n \in Nat /\ (p = <<>> <=> n = 0) /\ \A i \in 1 .. n : p[i] \in Seq(S)
    OBVIOUS
  <1>2. /\ F \in [1 .. n -> Seq(S)]
        /\ \A i \in 1 .. n : F[i] = IF i = 1 THEN p[i] ELSE F[i - 1] \o p[i]
        /\ FlattenSeq(p) = IF p = <<>> THEN <<>> ELSE F[n]
    BY FlatTable
  <1>3. \A i \in Nat : Joined(p, i) = IF i = 0 THEN <<>> ELSE F[i]
    BY DEF Joined
  <1> HIDE DEF F, n
  <1>4. <<>> \in Seq(S) /\ \A s \in Seq(S) : <<>> \o s = s
    OBVIOUS
  <1>5. ASSUME NEW i \in 0 .. n PROVE Joined(p, i) \in Seq(S)
    <2>1. CASE i = 0
      BY <1>3, <1>4, <2>1
    <2>2. CASE i # 0
      <3>1. i \in 1 .. n /\ i \in Nat
        BY <1>1, <2>2
      <3>2. Joined(p, i) = F[i]
        BY <1>3, <2>2, <3>1
      <3> QED BY <1>2, <3>1, <3>2
    <2> QED BY <2>1, <2>2
  <1>6. ASSUME NEW i \in 1 .. n PROVE Joined(p, i) = Joined(p, i - 1) \o p[i]
    <2>1. CASE i = 1
      <3>1. Joined(p, i) = p[i] /\ Joined(p, i - 1) = <<>>
        <4>1. i \in Nat /\ i - 1 \in Nat /\ i # 0 /\ i - 1 = 0
          BY <1>1, <2>1
        <4>2. Joined(p, i) = F[i] /\ Joined(p, i - 1) = <<>>
          BY <1>3, <4>1
        <4> QED BY <1>2, <2>1, <4>2
      <3> QED BY <1>1, <1>4, <3>1
    <2>2. CASE i # 1
      <3>1. i # 0 /\ i - 1 # 0
        BY <1>1, <2>2
      <3>2. Joined(p, i) = F[i] /\ Joined(p, i - 1) = F[i - 1]
        BY <1>3, <3>1
      <3>3. F[i] = F[i - 1] \o p[i]
        BY <1>2, <2>2
      <3> QED BY <3>2, <3>3
    <2> QED BY <2>1, <2>2
  <1>7. FlattenSeq(p) = Joined(p, n)
    BY <1>1, <1>2, <1>3
  <1>8. Joined(p, 0) = <<>>
    BY <1>3
  <1> QED BY <1>1, <1>5, <1>6, <1>7, <1>8 DEF n

LEMMA FlattenType ==
  ASSUME NEW S, NEW p \in Seq(Seq(S)) PROVE FlattenSeq(p) \in Seq(S)
  <1>1. Len(p) \in 0 .. Len(p)
    OBVIOUS
  <1> QED BY <1>1, Fronts

LEMMA FlattenEmpty == FlattenSeq(<<>>) = <<>>
  <1>1. PICK S : S = {0}
    OBVIOUS
  <1>2. PICK p : p = <<>>
    OBVIOUS
  <1>3. p \in Seq(Seq(S)) /\ Len(p) = 0
    BY <1>2
  <1>4. FlattenSeq(p) = Joined(p, Len(p)) /\ Joined(p, 0) = <<>>
    BY <1>3, Fronts
  <1> QED BY <1>2, <1>3, <1>4

LEMMA FlattenAppend ==
  ASSUME NEW S, NEW p \in Seq(Seq(S)), NEW x \in Seq(S)
  PROVE  FlattenSeq(Append(p, x)) = FlattenSeq(p) \o x
  <1> DEFINE q == Append(p, x)
             n == Len(p)
             P == {i \in Nat : i <= n => Joined(q, i) = Joined(p, i)}
  <1>1. /\ q \in Seq(Seq(S)) /\ Len(q) = n + 1 /\ n \in Nat
        /\ q[n + 1] = x /\ \A i \in 1 .. n : q[i] = p[i]
    BY AppendProperties
  <1> HIDE DEF q, n
  <1>2. /\ Joined(q, 0) = <<>> /\ FlattenSeq(q) = Joined(q, n + 1)
        /\ \A i \in 1 .. n + 1 : Joined(q, i) = Joined(q, i - 1) \o q[i]
    BY <1>1, Fronts
  <1>3. /\ Joined(p, 0) = <<>> /\ FlattenSeq(p) = Joined(p, n)
        /\ \A i \in 1 .. n : Joined(p, i) = Joined(p, i - 1) \o p[i]
    BY Fronts DEF n
  <1>4. 0 \in P
    BY <1>2, <1>3
  <1>5. ASSUME NEW i \in Nat, i \in P PROVE i + 1 \in P
    <2>1. SUFFICES ASSUME i + 1 <= n PROVE Joined(q, i + 1) = Joined(p, i + 1)
      OBVIOUS
    <2>2. i + 1 \in 1 .. n /\ i + 1 \in 1 .. n + 1 /\ (i + 1) - 1 = i
      BY <1>1, <2>1
    <2>3. Joined(q, i) = Joined(p, i)
      BY <1>1, <1>5, <2>1
    <2>4. Joined(q, i + 1) = Joined(q, i) \o q[i + 1] /\ Joined(p, i + 1) = Joined(p, i) \o p[i + 1]
      BY <1>2, <1>3, <2>2
    <2>5. q[i + 1] = p[i + 1]
      BY <1>1, <2>2
    <2> QED BY <2>3, <2>4, <2>5, Zenon
  <1> HIDE DEF P
  <1>6. \A i \in Nat : i \in P
    BY <1>4, <1>5, Induction
  <1>7. Joined(q, n) = Joined(p, n)
    BY <1>1, <1>6 DEF P
  <1>8. Joined(q, n + 1) = Joined(q, n) \o x
    <2>1. n + 1 \in 1 .. n + 1 /\ (n + 1) - 1 = n
      BY <1>1
    <2> QED BY <1>1, <1>2, <2>1
  <1>9. FlattenSeq(q) = FlattenSeq(p) \o x
    BY <1>2, <1>3, <1>7, <1>8, Zenon
  <1> QED BY <1>9 DEF q

LEMMA FlattenCons ==
  ASSUME NEW S, NEW p \in Seq(Seq(S)), NEW x \in Seq(S)
  PROVE  FlattenSeq(<<x>> \o p) = x \o FlattenSeq(p)
  <1> DEFINE q == <<x>> \o p
             n == Len(p)
             P == {i \in Nat : i <= n => Joined(q, i + 1) = x \o Joined(p, i)}
  <1>1. /\ q \in Seq(Seq(S)) /\ Len(q) = n + 1 /\ n \in Nat
        /\ q[1] = x /\ \A i \in 1 .. n : q[i + 1] = p[i]
    <2>1. PICK T : T = Seq(S)
      OBVIOUS
    <2>2. PICK y : y = <<x>>
      OBVIOUS
    <2>3. y \in Seq(T) /\ p \in Seq(T) /\ Len(y) = 1 /\ y[1] = x
      BY <2>1, <2>2
    <2> HIDE DEF n
    <2>4. /\ y \o p \in Seq(T) /\ Len(y \o p) = 1 + n
          /\ \A i \in 1 .. 1 + n : (y \o p)[i] = IF i <= 1 THEN y[i] ELSE p[i - 1]
      <3>1. /\ y \o p \in Seq(T) /\ Len(y \o p) = Len(y) + Len(p)
            /\ \A i \in 1 .. Len(y) + Len(p) :
                 (y \o p)[i] = IF i <= Len(y) THEN y[i] ELSE p[i - Len(y)]
        BY <2>3, ConcatProperties, Zenon
      <3> QED BY <2>3, <3>1 DEF n
    <2>5. n \in Nat
      BY DEF n
    <2>6. (y \o p)[1] = x
      BY <2>3, <2>4, <2>5
    <2>7. ASSUME NEW i \in 1 .. n PROVE (y \o p)[i + 1] = p[i]
      BY <2>4, <2>5
    <2> QED BY <2>1, <2>2, <2>4, <2>5, <2>6, <2>7
  <1> HIDE DEF q, n
  <1>2. /\ Joined(q, 0) = <<>> /\ FlattenSeq(q) = Joined(q, n + 1)
        /\ \A i \in 1 .. n + 1 : Joined(q, i) = Joined(q, i - 1) \o q[i]
    BY <1>1, Fronts
  <1>3. /\ Joined(p, 0) = <<>> /\ FlattenSeq(p) = Joined(p, n)
        /\ \A i \in 0 .. n : Joined(p, i) \in Seq(S)
        /\ \A i \in 1 .. n : p[i] \in Seq(S) /\ Joined(p, i) = Joined(p, i - 1) \o p[i]
    BY Fronts DEF n
  <1>4. 0 \in P
    <2>1. 1 \in 1 .. n + 1 /\ 1 - 1 = 0 /\ 0 + 1 = 1
      BY <1>1
    <2>2. Joined(q, 1) = <<>> \o x
      BY <1>1, <1>2, <2>1
    <2>3. <<>> \o x = x /\ x \o <<>> = x
      BY ConcatEmptySeq
    <2>4. Joined(q, 0 + 1) = x \o Joined(p, 0)
      BY <1>3, <2>1, <2>2, <2>3
    <2> QED BY <2>4
  <1>5. ASSUME NEW i \in Nat, i \in P PROVE i + 1 \in P
    <2>1. SUFFICES ASSUME i + 1 <= n PROVE Joined(q, (i + 1) + 1) = x \o Joined(p, i + 1)
      OBVIOUS
    <2>2. /\ i + 1 \in 1 .. n /\ (i + 1) + 1 \in 1 .. n + 1 /\ ((i + 1) + 1) - 1 = i + 1
          /\ (i + 1) - 1 = i /\ i \in 0 .. n
      BY <1>1, <2>1
    <2>3. Joined(q, i + 1) = x \o Joined(p, i)
      BY <1>1, <1>5, <2>1
    <2>4. Joined(q, (i + 1) + 1) = Joined(q, i + 1) \o q[(i + 1) + 1]
      BY <1>2, <2>2
    <2>5. Joined(p, i + 1) = Joined(p, i) \o p[i + 1]
      BY <1>3, <2>2
    <2>6. q[(i + 1) + 1] = p[i + 1]
      BY <1>1, <2>2
    <2>7. Joined(p, i) \in Seq(S) /\ p[i + 1] \in Seq(S) /\ x \in Seq(S)
      BY <1>3, <2>2
    <2>8. (x \o Joined(p, i)) \o p[i + 1] = x \o (Joined(p, i) \o p[i + 1])
      <3>1. PICK a, b : a = Joined(p, i) /\ b = p[i + 1]
        OBVIOUS
      <3>2. a \in Seq(S) /\ b \in Seq(S)
        BY <2>7, <3>1
      <3>3. (x \o a) \o b = x \o (a \o b)
        BY <3>2, ConcatAssociative
      <3> QED BY <3>1, <3>3
    <2> QED BY <2>3, <2>4, <2>5, <2>6, <2>8, Zenon
  <1> HIDE DEF P
  <1>6. \A i \in Nat : i \in P
    BY <1>4, <1>5, Induction
  <1>7. Joined(q, n + 1) = x \o Joined(p, n)
    <2>1. n \in P
      BY <1>1, <1>6
    <2> QED BY <1>1, <2>1 DEF P
  <1>8. FlattenSeq(q) = x \o FlattenSeq(p)
    BY <1>2, <1>3, <1>7, Zenon
  <1> QED BY <1>8 DEF q
-----------------------------------------------------------------------------
(***************************************************************************)
(* Buffer: lemmas about its helpers, applied to any valid object, which    *)
(* the theorems apply to the one object there is.                          *)
(***************************************************************************)
\* What TypeOK and AssertsHold say, of any object.
Valid(b) ==
  /\ b.size \in Nat /\ b.bytes \in [0 .. b.size - 1 -> Byte]
  /\ b.reader \in Nat /\ b.writer \in Nat
  /\ b.reader <= b.writer /\ b.writer <= b.size
  /\ kCheapPrepend <= b.size
  /\ b.bad = FALSE

\* The readable bytes of any object.
Readable(b) == [k \in 1 .. b.writer - b.reader |-> b.bytes[b.reader + k - 1]]
-----------------------------------------------------------------------------
USE DEF Object

LEMMA ReadableType == ASSUME NEW b, Valid(b)
                      PROVE  Readable(b) \in Seq(Byte) /\ Len(Readable(b)) = b.writer - b.reader
<1>1. b.writer - b.reader \in Nat  BY DEF Valid
<1>2. ASSUME NEW k \in 1 .. b.writer - b.reader PROVE b.bytes[b.reader + k - 1] \in Byte
  <2>1. b.reader + k - 1 \in 0 .. b.size - 1  BY DEF Valid
  <2>2. b.bytes \in [0 .. b.size - 1 -> Byte]  BY DEF Valid
  <2>. QED  BY <2>1, <2>2
<1>. QED  BY <1>1, <1>2 DEF Readable

\* makeSpace and ensureWritableBytes keep the readable bytes and make room for len more;
\* neither of their asserts fails.
LEMMA EnsureWritable ==
  ASSUME NEW b, Valid(b), NEW len \in Nat
  PROVE  /\ Valid(ensureWritableBytes(b, len))
         /\ Readable(ensureWritableBytes(b, len)) = Readable(b)
         /\ writableBytes(ensureWritableBytes(b, len)) >= len
<1> DEFINE c == IF writableBytes(b) < len THEN makeSpace(b, len) ELSE b
<1>1. Valid(c) /\ Readable(c) = Readable(b) /\ writableBytes(c) >= len
  <2>1. CASE ~(writableBytes(b) < len)  BY <2>1 DEF Valid, writableBytes
  <2>2. CASE writableBytes(b) < len /\ MustGrow(b, len)
    <3> DEFINE g == Object(Resized(b.bytes, b.size, b.writer + len), b.writer + len,
                           b.reader, b.writer, FALSE)
    <3>1. c = g  BY <2>2 DEF makeSpace, Valid
    <3>2. b.size < b.writer + len  BY <2>2 DEF writableBytes, Valid
    <3>3. g.bytes \in [0 .. g.size - 1 -> Byte]
      BY <3>2, BufferAssumption DEF Resized, Valid
    <3>4. Valid(g)  BY <3>2, <3>3, BufferAssumption DEF Valid
    <3>5. Readable(g) = Readable(b)
      <4>1. ASSUME NEW k \in 1 .. b.writer - b.reader
            PROVE  g.bytes[b.reader + k - 1] = b.bytes[b.reader + k - 1]
        BY <3>2 DEF Valid, Resized
      <4>. QED  BY <4>1 DEF Readable
    <3>6. writableBytes(g) >= len  BY DEF writableBytes, Valid
    <3>. QED  BY <3>1, <3>4, <3>5, <3>6
  <2>3. CASE writableBytes(b) < len /\ ~MustGrow(b, len)
    <3> DEFINE n == readableBytes(b)
               g == Object(MovedTo(b, kCheapPrepend), b.size,
                           kCheapPrepend, kCheapPrepend + n, FALSE)
    <3>0. /\ b.reader \in Nat /\ b.writer \in Nat /\ b.size \in Nat /\ kCheapPrepend \in Nat
          /\ b.reader <= b.writer /\ b.writer <= b.size
      BY BufferAssumption DEF Valid
    <3>1. n \in Nat /\ n = b.writer - b.reader  BY DEF readableBytes, Valid
    <3>2. kCheapPrepend < b.reader /\ kCheapPrepend + n + len <= b.size
      BY <2>3, <3>1, BufferAssumption DEF MustGrow, writableBytes, prependableBytes, Valid
    <3>3. c = g  BY <2>3, <3>2 DEF makeSpace, Valid
    <3>4. MovedTo(b, kCheapPrepend) \in [0 .. b.size - 1 -> Byte]
      <4>1. ASSUME NEW k \in 0 .. b.size - 1, kCheapPrepend <= k, k < kCheapPrepend + n
            PROVE  b.bytes[k - kCheapPrepend + b.reader] \in Byte
        <5>1. k - kCheapPrepend + b.reader \in 0 .. b.size - 1
          BY <3>1, <4>1, BufferAssumption DEF Valid
        <5>. QED  BY <5>1 DEF Valid
      <4>2. ASSUME NEW k \in 0 .. b.size - 1 PROVE b.bytes[k] \in Byte  BY DEF Valid
      <4>. QED  BY <4>1, <4>2 DEF MovedTo
    <3>5. Valid(g)  BY <3>1, <3>2, <3>4, BufferAssumption, SMTT(15) DEF Valid
    <3>6. Readable(g) = Readable(b)
      <4>1. ASSUME NEW k \in 1 .. n
            PROVE  g.bytes[kCheapPrepend + k - 1] = b.bytes[b.reader + k - 1]
        <5> DEFINE j == kCheapPrepend + k - 1
        <5>1. /\ j \in 0 .. b.size - 1 /\ kCheapPrepend <= j /\ j < kCheapPrepend + n
              /\ j - kCheapPrepend + b.reader = b.reader + k - 1
          BY <3>0, <3>1, <3>2
        <5>2. MovedTo(b, kCheapPrepend)[j] = b.bytes[j - kCheapPrepend + b.reader]
          BY <5>1 DEF MovedTo
        <5>. QED  BY <5>1, <5>2
      <4>2. g.writer - g.reader = n  BY <3>1, BufferAssumption
      <4>. QED  BY <3>1, <4>1, <4>2 DEF Readable
    <3>7. writableBytes(g) >= len  BY <3>1, <3>2, BufferAssumption DEF writableBytes, Valid
    <3>. QED  BY <3>3, <3>5, <3>6, <3>7
  <2>. QED  BY <2>1, <2>2, <2>3
<1>. HIDE DEF c
<1> DEFINE e == Object(c.bytes, c.size, c.reader, c.writer, c.bad \/ ~(writableBytes(c) >= len))
<1>2. ensureWritableBytes(b, len) = e  BY DEF ensureWritableBytes, c
<1>3. Valid(e)  BY <1>1 DEF Valid
<1>4. Readable(e) = Readable(b)  BY <1>1 DEF Readable
<1>5. writableBytes(e) >= len  BY <1>1 DEF writableBytes
<1>. QED  BY <1>2, <1>3, <1>4, <1>5

LEMMA ConcatAt ==
  ASSUME NEW r \in Seq(Byte), NEW s \in Seq(Byte), NEW k \in 1 .. Len(r) + Len(s)
  PROVE  (r \o s)[k] = IF k <= Len(r) THEN r[k] ELSE s[k - Len(r)]
BY ConcatProperties, Zenon

\* Where there is room for the data, copyIn puts them behind the readable bytes.
LEMMA CopyIn ==
  ASSUME NEW b, Valid(b), NEW data \in Seq(Byte), writableBytes(b) >= Len(data)
  PROVE  Valid(copyIn(b, data)) /\ Readable(copyIn(b, data)) = Readable(b) \o data
<1> DEFINE m == Len(data)
           g == Object(Overwritten(b.bytes, b.size, b.writer, data), b.size,
                       b.reader, b.writer + m, b.bad)
<1>0. /\ b.reader \in Nat /\ b.writer \in Nat /\ b.size \in Nat
      /\ b.reader <= b.writer /\ b.writer <= b.size
  BY DEF Valid
<1>1. m \in Nat /\ b.writer + m <= b.size  BY DEF writableBytes, Valid
<1>2. copyIn(b, data) = g  BY DEF copyIn, Valid
<1>3. g.bytes \in [0 .. b.size - 1 -> Byte]
  <2>1. ASSUME NEW k \in 0 .. b.size - 1, b.writer <= k, k < b.writer + m
        PROVE  data[k - b.writer + 1] \in Byte
    <3>1. k - b.writer + 1 \in 1 .. m  BY <1>1, <2>1 DEF Valid
    <3>. QED  BY <3>1
  <2>2. ASSUME NEW k \in 0 .. b.size - 1 PROVE b.bytes[k] \in Byte  BY DEF Valid
  <2>. QED  BY <2>1, <2>2 DEF Overwritten
<1>4. Valid(g)  BY <1>1, <1>3 DEF Valid
<1>5. Readable(g) = Readable(b) \o data
  <2>1. /\ Readable(g) \in Seq(Byte) /\ Len(Readable(g)) = b.writer - b.reader + m
        /\ Readable(b) \in Seq(Byte) /\ Len(Readable(b)) = b.writer - b.reader
    <3>1. Readable(g) \in Seq(Byte) /\ Len(Readable(g)) = g.writer - g.reader
      BY <1>4, ReadableType
    <3>2. Readable(b) \in Seq(Byte) /\ Len(Readable(b)) = b.writer - b.reader
      BY ReadableType
    <3>3. g.writer - g.reader = b.writer - b.reader + m  BY <1>1 DEF Valid
    <3>. QED  BY <3>1, <3>2, <3>3
  <2>2. /\ Readable(b) \o data \in Seq(Byte)
        /\ Len(Readable(b) \o data) = b.writer - b.reader + m
    BY <2>1, ConcatProperties
  <2>3. ASSUME NEW k \in 1 .. b.writer + m - b.reader
        PROVE  Readable(g)[k] = (Readable(b) \o data)[k]
    <3>0. Readable(g)[k] = g.bytes[b.reader + k - 1]  BY <1>1 DEF Readable, Valid
    <3>1. CASE k <= b.writer - b.reader
      <4>1. Readable(b)[k] = b.bytes[b.reader + k - 1]  BY <3>1 DEF Readable, Valid
      <4>2. g.bytes[b.reader + k - 1] = b.bytes[b.reader + k - 1]
        <5> DEFINE j == b.reader + k - 1
        <5>1. j \in 0 .. b.size - 1 /\ ~(b.writer <= j)
          BY <1>0, <1>1, <3>1
        <5>2. Overwritten(b.bytes, b.size, b.writer, data)[j] = b.bytes[j]
          BY <5>1 DEF Overwritten
        <5>. QED  BY <5>2
      <4>3. (Readable(b) \o data)[k] = Readable(b)[k]
        <5>1. k \in 1 .. Len(Readable(b)) + Len(data) /\ k <= Len(Readable(b))
          BY <1>0, <1>1, <2>1, <3>1
        <5>. QED  BY <2>1, <5>1, ConcatAt
      <4>. QED  BY <3>0, <4>1, <4>2, <4>3
    <3>2. CASE k > b.writer - b.reader
      <4>1. g.bytes[b.reader + k - 1] = data[b.reader + k - b.writer]
        <5> DEFINE j == b.reader + k - 1
        <5>1. j \in Int /\ b.writer <= j /\ j < b.writer + m  BY <1>0, <1>1, <3>2
        <5>2. j \in 0 .. b.size - 1  BY <1>0, <1>1, <5>1
        <5>3. j - b.writer + 1 = b.reader + k - b.writer  BY <1>0
        <5>4. Overwritten(b.bytes, b.size, b.writer, data)[j] = data[j - b.writer + 1]
          BY <5>1, <5>2 DEF Overwritten
        <5>. QED  BY <5>3, <5>4
      <4>2. (Readable(b) \o data)[k] = data[k - (b.writer - b.reader)]
        <5>1. k \in 1 .. Len(Readable(b)) + Len(data) /\ ~(k <= Len(Readable(b)))
          BY <1>0, <1>1, <2>1, <3>2
        <5>. QED  BY <2>1, <5>1, ConcatAt
      <4>3. k - (b.writer - b.reader) = b.reader + k - b.writer  BY <1>0
      <4>. QED  BY <3>0, <4>1, <4>2, <4>3
    <3>3. k <= b.writer - b.reader \/ k > b.writer - b.reader  BY <1>1 DEF Valid
    <3>. QED  BY <3>1, <3>2, <3>3
  <2>4. Len(Readable(g)) = Len(Readable(b) \o data)  BY <1>1, <2>1, <2>2 DEF Valid
  <2>5. b.writer + m - b.reader = Len(Readable(g))  BY <1>1, <2>1 DEF Valid
  <2>6. \A k \in 1 .. Len(Readable(g)) : Readable(g)[k] = (Readable(b) \o data)[k]
    BY <2>3, <2>5
  <2>. QED  BY <2>1, <2>2, <2>4, <2>6, SeqEqual
<1>. QED  BY <1>2, <1>4, <1>5

LEMMA AppendBytes ==
  ASSUME NEW b, Valid(b), NEW data \in Seq(Byte)
  PROVE  Valid(append(b, data)) /\ Readable(append(b, data)) = Readable(b) \o data
<1>1. Len(data) \in Nat  OBVIOUS
<1>. QED  BY <1>1, EnsureWritable, CopyIn DEF append
-----------------------------------------------------------------------------
(***************************************************************************)
(* From objects to the variables.                                          *)
(***************************************************************************)
Inv == TypeOK /\ AssertsHold

LEMMA DataIsSeq == ASSUME NEW data \in Data PROVE data \in Seq(Byte)
<1>1. PICK n \in 0 .. MaxReadable : data \in [1 .. n -> Byte]  BY DEF Data
<1>2. n \in Nat  BY BufferAssumption
<1>. QED  BY <1>1, <1>2

LEMMA ThisIsValid == Inv => Valid(This) /\ Readable(This) = content
  BY DEF Inv, TypeOK, AssertsHold, Valid, This, Readable, content

LEMMA Becoming == ASSUME NEW b, Inv, Valid(b), Becomes(b)
                  PROVE  Inv' /\ content' = Readable(b)
<1>1. /\ buffer_' = b.bytes /\ size' = b.size
      /\ readerIndex_' = b.reader /\ writerIndex_' = b.writer
      /\ failed' = FALSE
  BY DEF Becomes, Inv, AssertsHold, Valid
<1>2. TypeOK'  BY <1>1 DEF TypeOK, Valid
<1>3. AssertsHold'  BY <1>1 DEF AssertsHold
<1>4. content' = Readable(b)  BY <1>1 DEF content, Readable
<1>. QED  BY <1>2, <1>3, <1>4 DEF Inv

LEMMA InitInvariant == Init => Inv
<1>. SUFFICES ASSUME Init PROVE Inv  OBVIOUS
<1>1. size \in Nat /\ kCheapPrepend <= size  BY BufferAssumption DEF Init
<1>2. buffer_ \in [0 .. size - 1 -> Byte]  BY BufferAssumption DEF Init
<1>3. readerIndex_ = kCheapPrepend /\ writerIndex_ = kCheapPrepend /\ failed = FALSE  BY DEF Init
<1>4. AssertsHold  BY <1>3 DEF AssertsHold
<1>5. /\ readerIndex_ \in Nat /\ writerIndex_ \in Nat
      /\ readerIndex_ <= writerIndex_ /\ writerIndex_ <= size
  BY <1>1, <1>3, BufferAssumption
<1>6. failed \in BOOLEAN  BY <1>3
<1>7. TypeOK  BY <1>1, <1>2, <1>5, <1>6 DEF TypeOK
<1>. QED  BY <1>4, <1>7 DEF Inv
-----------------------------------------------------------------------------
(***************************************************************************)
(* One lemma for each operation: it keeps Inv, and what it does to the     *)
(* readable bytes is what ByteQueue says.                                  *)
(***************************************************************************)
LEMMA AppendStep == ASSUME Inv, NEW data \in Data, AppendData(data)
                    PROVE  Inv' /\ content' = content \o data
<1>1. Valid(append(This, data)) /\ Readable(append(This, data)) = content \o data
  BY ThisIsValid, DataIsSeq, AppendBytes
<1>. QED  BY <1>1, Becoming DEF AppendData

LEMMA ReadFdStep == ASSUME Inv, NEW data \in Data, ReadFd(data)
                    PROVE  Inv' /\ content' = content \o data
<1> DEFINE n == writableBytes(This)
<1>1. data \in Seq(Byte) /\ Len(data) \in Nat  BY DataIsSeq
<1>2. n \in Nat  BY DEF Inv, TypeOK, writableBytes, This
<1>3. Valid(Read(data)) /\ Readable(Read(data)) = content \o data
  <2>1. CASE Len(data) <= n  BY <2>1, <1>1, <1>2, ThisIsValid, CopyIn DEF Read
  <2>2. CASE ~(Len(data) <= n)
    <3> DEFINE d1 == SubSeq(data, 1, n)
               d2 == SubSeq(data, n + 1, Len(data))
    <3>1. d1 \in Seq(Byte) /\ Len(d1) = n  BY <1>1, <1>2, <2>2
    <3>2. d2 \in Seq(Byte)  BY <1>1, <1>2, <2>2
    <3>3. d1 \o d2 = data
      <4>1. d1 \o d2 = SubSeq(data, 1, Len(data))
        BY <1>1, <1>2, <2>2, ConcatAdjacentSubSeq
      <4>. QED  BY <4>1, <1>1, SubSeqFull
    <3>4. Valid(copyIn(This, d1)) /\ Readable(copyIn(This, d1)) = content \o d1
      <4>1. writableBytes(This) >= Len(d1)  BY <1>2, <3>1
      <4>. HIDE DEF d1
      <4>. QED  BY <4>1, <3>1, ThisIsValid, CopyIn
    <3>5. /\ Valid(append(copyIn(This, d1), d2))
          /\ Readable(append(copyIn(This, d1), d2)) = (content \o d1) \o d2
      BY <3>2, <3>4, AppendBytes
    <3>6. content \in Seq(Byte)  BY ThisIsValid, ReadableType
    <3>7. (content \o d1) \o d2 = content \o data
      <4>. HIDE DEF d1, d2
      <4>1. (content \o d1) \o d2 = content \o (d1 \o d2)
        BY <3>1, <3>2, <3>6, ConcatAssociative
      <4>. QED  BY <4>1, <3>3
    <3>. QED  BY <2>2, <3>5, <3>7 DEF Read
  <2>. QED  BY <2>1, <2>2
<1>. QED  BY <1>3, Becoming DEF ReadFd

LEMMA PrependStep == ASSUME Inv, NEW data \in Data, Prepend(data)
                     PROVE  Inv' /\ content' = data \o content
<1> DEFINE m == Len(data)
           at == readerIndex_ - m
           g == Object(Overwritten(buffer_, size, at, data), size, at, writerIndex_, FALSE)
<1>1. data \in Seq(Byte) /\ m \in Nat  BY DataIsSeq
<1>2. /\ at \in Nat /\ at + m = readerIndex_
      /\ size \in Nat /\ buffer_ \in [0 .. size - 1 -> Byte]
      /\ readerIndex_ \in Nat /\ writerIndex_ \in Nat
      /\ readerIndex_ <= writerIndex_ /\ writerIndex_ <= size /\ kCheapPrepend <= size
  BY <1>1 DEF Prepend, prependableBytes, This, Inv, TypeOK
<1>. HIDE DEF at, m
<1>3. Overwritten(buffer_, size, at, data) \in [0 .. size - 1 -> Byte]
  <2>1. ASSUME NEW k \in 0 .. size - 1, at <= k, k < at + m
        PROVE  data[k - at + 1] \in Byte
    <3>1. k - at + 1 \in 1 .. m  BY <1>1, <1>2, <2>1
    <3>. QED  BY <1>1, <3>1 DEF m
  <2>2. ASSUME NEW k \in 0 .. size - 1 PROVE buffer_[k] \in Byte  BY <1>2
  <2>. QED  BY <2>1, <2>2 DEF Overwritten, m
<1>4. Valid(g)  BY <1>1, <1>2, <1>3 DEF Valid
<1>5. Becomes(g)  BY DEF Prepend, at, m
<1>6. Readable(g) = data \o content
  <2>1. Readable(g) \in Seq(Byte) /\ Len(Readable(g)) = writerIndex_ - at
    <3>1. Readable(g) \in Seq(Byte) /\ Len(Readable(g)) = g.writer - g.reader
      BY <1>4, ReadableType
    <3>. QED  BY <3>1
  <2>2. content \in Seq(Byte) /\ Len(content) = writerIndex_ - readerIndex_
    <3>1. Len(Readable(This)) = This.writer - This.reader  BY ThisIsValid, ReadableType
    <3>. QED  BY <3>1, ThisIsValid, ReadableType DEF This
  <2>3. /\ data \o content \in Seq(Byte)
        /\ Len(data \o content) = m + (writerIndex_ - readerIndex_)
        /\ \A k \in 1 .. m + (writerIndex_ - readerIndex_) :
             (data \o content)[k] = IF k <= m THEN data[k] ELSE content[k - m]
    BY <1>1, <2>2, ConcatProperties DEF m
  <2>4. Len(Readable(g)) = Len(data \o content)
    <3>1. writerIndex_ - at = m + (writerIndex_ - readerIndex_)  BY <1>1, <1>2
    <3>. QED  BY <3>1, <2>1, <2>3
  <2>5. ASSUME NEW k \in 1 .. m + (writerIndex_ - readerIndex_)
        PROVE  Readable(g)[k] = (data \o content)[k]
    <3> DEFINE j == at + k - 1
    <3>1. j \in 0 .. size - 1 /\ k \in 1 .. writerIndex_ - at  BY <1>1, <1>2
    <3>2. Readable(g)[k] = Overwritten(buffer_, size, at, data)[j]  BY <3>1 DEF Readable
    <3>3. CASE k <= m
      <4>1. at <= j /\ j < at + m /\ j - at + 1 = k  BY <1>1, <1>2, <3>3
      <4>2. Overwritten(buffer_, size, at, data)[j] = data[j - at + 1]
        BY <3>1, <4>1 DEF Overwritten, m
      <4>. QED  BY <2>3, <3>2, <3>3, <4>1, <4>2
    <3>4. CASE ~(k <= m)
      <4>1. ~(j < at + m) /\ j = readerIndex_ + (k - m) - 1
            /\ k - m \in 1 .. writerIndex_ - readerIndex_
        BY <1>1, <1>2, <3>4
      <4>2. Overwritten(buffer_, size, at, data)[j] = buffer_[j]
        BY <3>1, <4>1 DEF Overwritten, m
      <4>3. content[k - m] = buffer_[j]  BY <4>1 DEF content
      <4>. QED  BY <2>3, <3>2, <3>4, <4>2, <4>3
    <3>. QED  BY <3>3, <3>4
  <2>6. \A k \in 1 .. Len(Readable(g)) : Readable(g)[k] = (data \o content)[k]
    BY <2>3, <2>4, <2>5
  <2>. QED  BY <2>1, <2>3, <2>4, <2>6, SeqEqual
<1>. QED  BY <1>4, <1>5, <1>6, Becoming

\* Taking from the front or from the back: the content of any object whose indexes lie
\* between this one's.
LEMMA Narrowed ==
  ASSUME Inv, NEW i \in Nat, NEW k \in Nat, i + k <= writerIndex_ - readerIndex_
  PROVE  LET g == Object(buffer_, size, readerIndex_ + i, writerIndex_ - k, FALSE)
         IN  Valid(g) /\ Readable(g) = SubSeq(content, i + 1, Len(content) - k)
<1> DEFINE g == Object(buffer_, size, readerIndex_ + i, writerIndex_ - k, FALSE)
           n == writerIndex_ - readerIndex_
<1>1. /\ size \in Nat /\ buffer_ \in [0 .. size - 1 -> Byte]
      /\ readerIndex_ \in Nat /\ writerIndex_ \in Nat
      /\ readerIndex_ <= writerIndex_ /\ writerIndex_ <= size /\ kCheapPrepend <= size
  BY DEF Inv, TypeOK
<1>2. Valid(g)  BY <1>1 DEF Valid
<1>3. content \in Seq(Byte) /\ Len(content) = n
  <2>1. Len(Readable(This)) = This.writer - This.reader  BY ThisIsValid, ReadableType
  <2>. QED  BY <2>1, ThisIsValid, ReadableType DEF This
<1>4. Readable(g) \in Seq(Byte) /\ Len(Readable(g)) = n - k - i
  <2>1. Len(Readable(g)) = g.writer - g.reader /\ Readable(g) \in Seq(Byte)
    BY <1>2, ReadableType
  <2>. QED  BY <1>1, <2>1
<1>5. /\ SubSeq(content, i + 1, n - k) \in Seq(Byte)
      /\ Len(SubSeq(content, i + 1, n - k)) = n - k - i
      /\ \A j \in 1 .. n - k - i : SubSeq(content, i + 1, n - k)[j] = content[i + j]
  <2>1. i + 1 \in Int /\ n - k \in Int /\ n - k - (i + 1) + 1 = n - k - i  BY <1>1
  <2>2. \A j \in i + 1 .. n - k : content[j] \in Byte  BY <1>1, <1>3
  <2>3. /\ SubSeq(content, i + 1, n - k) \in Seq(Byte)
        /\ Len(SubSeq(content, i + 1, n - k))
             = IF i + 1 <= n - k THEN n - k - (i + 1) + 1 ELSE 0
        /\ \A j \in 1 .. n - k - (i + 1) + 1 :
             SubSeq(content, i + 1, n - k)[j] = content[i + 1 + j - 1]
    BY <2>1, <2>2, SubSeqProperties
  <2>4. \A j \in 1 .. n - k - i : i + 1 + j - 1 = i + j  OBVIOUS
  <2>5. (IF i + 1 <= n - k THEN n - k - (i + 1) + 1 ELSE 0) = n - k - i  BY <1>1
  <2>. QED  BY <2>1, <2>3, <2>4, <2>5
<1>6. ASSUME NEW j \in 1 .. n - k - i PROVE Readable(g)[j] = content[i + j]
  <2>1. i + j \in 1 .. n /\ j \in 1 .. (writerIndex_ - k) - (readerIndex_ + i)
        /\ readerIndex_ + i + j - 1 = readerIndex_ + (i + j) - 1
    BY <1>1
  <2>2. content[i + j] = buffer_[readerIndex_ + (i + j) - 1]  BY <2>1 DEF content
  <2>3. Readable(g)[j] = buffer_[readerIndex_ + i + j - 1]  BY <2>1 DEF Readable
  <2>. QED  BY <2>1, <2>2, <2>3
<1>7. Readable(g) = SubSeq(content, i + 1, n - k)
  <2>1. \A j \in 1 .. Len(Readable(g)) : Readable(g)[j] = SubSeq(content, i + 1, n - k)[j]
    BY <1>4, <1>5, <1>6
  <2>. QED  BY <1>4, <1>5, <2>1, SeqEqual
<1>. QED  BY <1>2, <1>3, <1>7

\* What emptying the object leaves is valid and holds nothing.
LEMMA Emptied == Inv => Valid(retrieveAll) /\ Readable(retrieveAll) = <<>>
<1>1. ASSUME Inv PROVE Valid(retrieveAll)
  BY <1>1, BufferAssumption DEF Inv, TypeOK, Valid, retrieveAll
<1>2. ASSUME Inv PROVE Readable(retrieveAll) = <<>>
  <2>1. Readable(retrieveAll) \in Seq(Byte)  BY <1>1, <1>2, ReadableType
  <2>2. Len(Readable(retrieveAll)) = kCheapPrepend - kCheapPrepend
    <3>1. Len(Readable(retrieveAll)) = retrieveAll.writer - retrieveAll.reader
      BY <1>1, <1>2, ReadableType
    <3>. QED  BY <3>1 DEF retrieveAll
  <2>3. Len(Readable(retrieveAll)) = 0  BY <2>2, BufferAssumption
  <2>. QED  BY <2>1, <2>3
<1>. QED  BY <1>1, <1>2

LEMMA RetrieveStep == ASSUME Inv, NEW len \in Nat, Retrieve(len)
                      PROVE  Inv' /\ len \in 0 .. Len(content)
                             /\ content' = SubSeq(content, len + 1, Len(content))
<1>1. content \in Seq(Byte) /\ Len(content) = writerIndex_ - readerIndex_
  <2>1. Len(Readable(This)) = This.writer - This.reader  BY ThisIsValid, ReadableType
  <2>. QED  BY <2>1, ThisIsValid, ReadableType DEF This
<1>2. len <= writerIndex_ - readerIndex_  BY DEF Retrieve, readableBytes, This
<1>3. writerIndex_ \in Nat /\ readerIndex_ \in Nat  BY DEF Inv, TypeOK
<1>4. CASE len < writerIndex_ - readerIndex_
  <2> DEFINE g == Object(buffer_, size, readerIndex_ + len, writerIndex_ - 0, FALSE)
  <2>1. Valid(g) /\ Readable(g) = SubSeq(content, len + 1, Len(content) - 0)
    <3>1. 0 \in Nat /\ len + 0 <= writerIndex_ - readerIndex_  BY <1>2, <1>3
    <3>. QED  BY <3>1, Narrowed
  <2>2. Becomes(g)
    <3>1. writerIndex_ - 0 = writerIndex_  BY <1>3
    <3>. QED  BY <1>4, <3>1 DEF Retrieve, readableBytes, This
  <2>3. Inv' /\ content' = Readable(g)  BY <2>1, <2>2, Becoming
  <2>4. Len(content) - 0 = Len(content) /\ len \in 0 .. Len(content)  BY <1>1, <1>2, <1>3
  <2>. HIDE DEF g
  <2>. QED  BY <2>1, <2>3, <2>4
<1>5. CASE ~(len < writerIndex_ - readerIndex_)
  <2>1. Becomes(retrieveAll)  BY <1>5 DEF Retrieve, readableBytes, This
  <2>2. Inv' /\ content' = <<>>  BY <2>1, Emptied, Becoming
  <2>3. SubSeq(content, len + 1, Len(content)) = <<>>
    <3>1. len + 1 \in Int /\ Len(content) \in Int /\ Len(content) < len + 1
      BY <1>1, <1>3, <1>5
    <3>. QED  BY <3>1, SubSeqEmpty
  <2>. QED  BY <1>1, <1>2, <1>3, <2>2, <2>3
<1>. QED  BY <1>4, <1>5

LEMMA UnwriteStep == ASSUME Inv, NEW len \in Nat, Unwrite(len)
                     PROVE  Inv' /\ len \in 0 .. Len(content)
                            /\ content' = SubSeq(content, 1, Len(content) - len)
<1>1. content \in Seq(Byte) /\ Len(content) = writerIndex_ - readerIndex_
  <2>1. Len(Readable(This)) = This.writer - This.reader  BY ThisIsValid, ReadableType
  <2>. QED  BY <2>1, ThisIsValid, ReadableType DEF This
<1>2. len <= writerIndex_ - readerIndex_  BY DEF Unwrite, readableBytes, This
<1>3. writerIndex_ \in Nat /\ readerIndex_ \in Nat  BY DEF Inv, TypeOK
<1> DEFINE g == Object(buffer_, size, readerIndex_ + 0, writerIndex_ - len, FALSE)
<1>4. Valid(g) /\ Readable(g) = SubSeq(content, 0 + 1, Len(content) - len)
  <2>1. 0 \in Nat /\ 0 + len <= writerIndex_ - readerIndex_  BY <1>2, <1>3
  <2>. QED  BY <2>1, Narrowed
<1>5. Becomes(g)
  <2>1. readerIndex_ + 0 = readerIndex_  BY <1>3
  <2>. QED  BY <2>1 DEF Unwrite
<1>6. Inv' /\ content' = Readable(g)  BY <1>4, <1>5, Becoming
<1>7. len \in 0 .. Len(content)  BY <1>1, <1>2, <1>3
<1>8. 0 + 1 = 1  OBVIOUS
<1>. HIDE DEF g
<1>. QED  BY <1>4, <1>6, <1>7, <1>8
-----------------------------------------------------------------------------
LEMMA StepInvariant == Inv /\ [Next]_vars => Inv'
<1>. SUFFICES ASSUME Inv, [Next]_vars PROVE Inv'  OBVIOUS
<1>1. ASSUME NEW data \in Data, AppendData(data) PROVE Inv'  BY <1>1, AppendStep
<1>2. ASSUME NEW data \in Data, ReadFd(data) PROVE Inv'  BY <1>2, ReadFdStep
<1>3. ASSUME NEW data \in Data, Prepend(data) PROVE Inv'  BY <1>3, PrependStep
<1>4. ASSUME NEW len \in 0 .. MaxReadable, Retrieve(len) PROVE Inv'
  <2>1. len \in Nat  BY BufferAssumption
  <2>. QED  BY <2>1, <1>4, RetrieveStep
<1>5. ASSUME NEW len \in 0 .. MaxReadable, Unwrite(len) PROVE Inv'
  <2>1. len \in Nat  BY BufferAssumption
  <2>. QED  BY <2>1, <1>5, UnwriteStep
<1>6. CASE UNCHANGED vars  BY <1>6 DEF vars, Inv, TypeOK, AssertsHold
<1>. QED  BY <1>1, <1>2, <1>3, <1>4, <1>5, <1>6 DEF Next

LEMMA AlwaysInv == Spec => []Inv
<1>. QED  BY InitInvariant, StepInvariant, PTL DEF Spec

\* Every variable of a Buffer (Buffer.h:427-429) keeps its type and the indexes their
\* order 0 <= readerIndex <= writerIndex <= size, through every call.
THEOREM TypeCorrect == Spec => []TypeOK
<1>1. Inv => TypeOK  BY DEF Inv
<1>. QED  BY <1>1, AlwaysInv, PTL

\* The asserts of makeSpace and ensureWritableBytes (Buffer.h:224, 415, 422) never fail,
\* whatever mixture of appends, reads, prepends and retrievals has gone before.
THEOREM AssertsTheorem == Spec => []AssertsHold
<1>1. Inv => AssertsHold  BY DEF Inv
<1>. QED  BY <1>1, AlwaysInv, PTL

LEMMA StepImplements == Inv /\ [Next]_vars => [Queue!Next]_content
<1>. SUFFICES ASSUME Inv, [Next]_vars PROVE [Queue!Next]_content  OBVIOUS
<1>1. ASSUME NEW data \in Data, AppendData(data) \/ ReadFd(data) PROVE Queue!Next
  BY <1>1, AppendStep, ReadFdStep DEF Queue!Next, Queue!PutBack
<1>2. ASSUME NEW data \in Data, Prepend(data) PROVE Queue!Next
  BY <1>2, PrependStep DEF Queue!Next, Queue!PutFront
<1>3. ASSUME NEW len \in 0 .. MaxReadable, Retrieve(len) PROVE Queue!Next
  <2>1. len \in Nat  BY BufferAssumption
  <2>. QED  BY <2>1, <1>3, RetrieveStep DEF Queue!Next, Queue!TakeFront
<1>4. ASSUME NEW len \in 0 .. MaxReadable, Unwrite(len) PROVE Queue!Next
  <2>1. len \in Nat  BY BufferAssumption
  <2>. QED  BY <2>1, <1>4, UnwriteStep DEF Queue!Next, Queue!TakeBack
<1>5. CASE UNCHANGED vars  BY <1>5 DEF vars, content
<1>. QED  BY <1>1, <1>2, <1>3, <1>4, <1>5 DEF Next

LEMMA InitImplements == Init => Queue!Init
<1>. SUFFICES ASSUME Init PROVE content = <<>>  BY DEF Queue!Init
<1>1. Inv  BY InitInvariant
<1>2. content \in Seq(Byte) /\ Len(content) = writerIndex_ - readerIndex_
  <2>1. Len(Readable(This)) = This.writer - This.reader  BY <1>1, ThisIsValid, ReadableType
  <2>. QED  BY <1>1, <2>1, ThisIsValid, ReadableType DEF This
<1>3. Len(content) = 0  BY <1>2, BufferAssumption DEF Init
<1>. QED  BY <1>2, <1>3

\* Buffer is a sequence of bytes to its callers: growing (Buffer.h:410), moving the
\* readable bytes down (417-421), prepend and readFd through extrabuf (Buffer.cpp:52-53)
\* lose, repeat and reorder nothing.
THEOREM ImplementsTheorem == Spec => Implements
<1>. QED  BY InitImplements, AlwaysInv, StepImplements, PTL
          DEF Spec, Implements, Queue!Spec
-----------------------------------------------------------------------------
LEMMA AppendGrows ==
  ASSUME NEW b, Valid(b), NEW data \in Seq(Byte), append(b, data).size > b.size
  PROVE  b.writer - b.reader + Len(data) + kCheapPrepend > b.size
<1> DEFINE len == Len(data)
           c == IF writableBytes(b) < len THEN makeSpace(b, len) ELSE b
<1>1. len \in Nat  OBVIOUS
<1>2. append(b, data).size = c.size  BY DEF append, copyIn, ensureWritableBytes
<1>3. c.size > b.size  BY <1>2
<1>4. writableBytes(b) < len /\ MustGrow(b, len)
  <2>1. CASE ~(writableBytes(b) < len)  BY <1>3, <2>1 DEF Valid
  <2>2. CASE writableBytes(b) < len /\ ~MustGrow(b, len)  BY <1>3, <2>2 DEF Valid, makeSpace
  <2>. QED  BY <2>1, <2>2
<1>. QED  BY <1>1, <1>4, BufferAssumption
          DEF MustGrow, writableBytes, prependableBytes, Valid

LEMMA StepGrows == Inv /\ Inv' /\ [Next]_vars
                     => [size' > size => Len(content') + kCheapPrepend > size]_vars
<1>. SUFFICES ASSUME Inv, Inv', Next, size' > size
              PROVE  Len(content') + kCheapPrepend > size
  BY DEF vars
<1>0. /\ size \in Nat /\ writerIndex_ \in Nat /\ readerIndex_ \in Nat
      /\ readerIndex_ <= writerIndex_ /\ writerIndex_ <= size
      /\ Valid(This) /\ Readable(This) = content
      /\ content \in Seq(Byte) /\ Len(content) = writerIndex_ - readerIndex_
  <2>1. Valid(This) /\ Readable(This) = content  BY ThisIsValid
  <2>2. Len(Readable(This)) = This.writer - This.reader  BY <2>1, ReadableType
  <2>. QED  BY <2>1, <2>2, ReadableType DEF This, Inv, TypeOK
<1>1. ASSUME NEW data \in Data, AppendData(data)
      PROVE  Len(content') + kCheapPrepend > size
  <2>1. data \in Seq(Byte) /\ Len(data) \in Nat  BY DataIsSeq
  <2>2. content' = content \o data  BY <1>1, AppendStep
  <2>3. append(This, data).size > This.size  BY <1>1 DEF AppendData, Becomes, This
  <2>4. This.writer - This.reader + Len(data) + kCheapPrepend > This.size
    BY <1>0, <2>1, <2>3, AppendGrows
  <2>5. Len(content') = Len(content) + Len(data)  BY <1>0, <2>1, <2>2, ConcatProperties
  <2>. QED  BY <1>0, <2>4, <2>5 DEF This
<1>2. ASSUME NEW data \in Data, ReadFd(data)
      PROVE  Len(content') + kCheapPrepend > size
  <2> DEFINE n == writableBytes(This)
             d1 == SubSeq(data, 1, n)
             d2 == SubSeq(data, n + 1, Len(data))
             c == copyIn(This, d1)
  <2>1. data \in Seq(Byte) /\ Len(data) \in Nat  BY DataIsSeq
  <2>2. n = size - writerIndex_ /\ n \in Nat  BY <1>0 DEF writableBytes, This
  <2>3. Read(data).size > size  BY <1>2 DEF ReadFd, Becomes
  <2>4. ~(Len(data) <= n)  BY <1>0, <2>3 DEF Read, copyIn, This
  <2>5. /\ d1 \in Seq(Byte) /\ Len(d1) = n
        /\ d2 \in Seq(Byte) /\ Len(d2) = Len(data) - n
    BY <2>1, <2>2, <2>4
  <2>6. append(c, d2).size > c.size  BY <2>3, <2>4 DEF Read, copyIn, This
  <2>7. Valid(c)
    <3>1. n >= Len(d1)  BY <2>2, <2>5
    <3>. HIDE DEF d1
    <3>. QED  BY <1>0, <2>5, <3>1, CopyIn
  <2>8. c.size = size /\ c.writer = writerIndex_ + Len(d1) /\ c.reader = readerIndex_
    BY DEF copyIn, This
  <2>9. c.writer - c.reader + Len(d2) + kCheapPrepend > c.size
    <3>. HIDE DEF c, d2
    <3>. QED  BY <2>5, <2>6, <2>7, AppendGrows
  <2>10. Len(content') = Len(content) + Len(data)
    BY <1>0, <1>2, <2>1, ReadFdStep, ConcatProperties
  <2>. HIDE DEF c, d1, d2, n
  <2>. QED  BY <1>0, <2>1, <2>2, <2>5, <2>8, <2>9, <2>10, BufferAssumption
<1>3. ASSUME NEW data \in Data, Prepend(data) PROVE FALSE
  BY <1>0, <1>3 DEF Prepend, Becomes
<1>4. ASSUME NEW len \in 0 .. MaxReadable, Retrieve(len) PROVE FALSE
  BY <1>0, <1>4 DEF Retrieve, Becomes, retrieveAll
<1>5. ASSUME NEW len \in 0 .. MaxReadable, Unwrite(len) PROVE FALSE
  BY <1>0, <1>5 DEF Unwrite, Becomes
<1>. QED  BY <1>1, <1>2, <1>3, <1>4, <1>5 DEF Next

\* The vector grows (Buffer.h:407-410) only when the bytes it has to hold and the ones
\* kept free do not fit: a long-lived connection's buffer does not creep.
THEOREM GrowthTheorem == Spec => GrowsOnlyWhenFull
<1>. QED  BY AlwaysInv, StepGrows, PTL DEF Spec, GrowsOnlyWhenFull
-----------------------------------------------------------------------------
(***************************************************************************)
(* The integers in a Buffer.                                               *)
(***************************************************************************)
LEMMA ByteCount == Cardinality(Byte) \in Nat \ {0} /\ Byte = 0 .. Cardinality(Byte) - 1
<1>1. Cardinality(Byte) \in Nat  BY SizesAssumption, FS_CardinalityType
<1>2. Byte = 0 .. Cardinality(Byte) - 1 /\ Zero \in Byte  BY SizesAssumption, BufferAssumption
<1>. QED  BY <1>1, <1>2

LEMMA ValuesStep ==
  /\ Values[0] = 1
  /\ \A n \in Nat : Values[n] \in Nat \ {0} /\ Values[n + 1] = Cardinality(Byte) * Values[n]
<1> DEFINE d == Cardinality(Byte)
           g == [q \in Nat \X Int |-> d * q[2]]
<1>1. d \in Nat \ {0}  BY ByteCount
<1>. HIDE DEF d
<1>2. /\ g \in [Nat \X Int -> Int]
      /\ \A n \in Nat, v \in Int : g[<<n, v>>] = d * v
  <2>1. \A q \in Nat \X Int : d * q[2] \in Int  BY <1>1
  <2>. QED  BY <2>1
<1>. HIDE DEF g
<1>3. PICK f : Recurses(f, Int, 1, g)
  <2>1. PICK T, e : T = Int /\ e = 1  OBVIOUS
  <2>2. e \in T /\ g \in [Nat \X T -> T]  BY <1>2, <2>1
  <2>3. \E f : Recurses(f, T, e, g)  BY <2>2, Recursion
  <2>. QED  BY <2>1, <2>3
<1>4. f \in [Nat -> Int] /\ f[0] = 1 /\ \A n \in Nat : f[n + 1] = d * f[n]
  <2>1. f \in [Nat -> Int] /\ f[0] = 1 /\ \A n \in Nat : f[n + 1] = g[<<n, f[n]>>]
    BY <1>3 DEF Recurses
  <2>. QED  BY <1>2, <2>1
<1>5. f = [n \in Nat |-> IF n = 0 THEN 1 ELSE d * f[n - 1]]
  <2>1. ASSUME NEW n \in Nat PROVE f[n] = IF n = 0 THEN 1 ELSE d * f[n - 1]
    <3>1. CASE n = 0  BY <1>4, <3>1
    <3>2. CASE n # 0
      <4>1. n - 1 \in Nat /\ (n - 1) + 1 = n  BY <3>2
      <4>2. f[(n - 1) + 1] = d * f[n - 1]  BY <1>4, <4>1
      <4>. QED  BY <3>2, <4>1, <4>2
    <3>. QED  BY <3>1, <3>2
  <2>. QED  BY <1>4, <2>1
<1>6. Values = [n \in Nat |-> IF n = 0 THEN 1 ELSE d * Values[n - 1]]
  BY <1>5 DEF Values, d
<1> DEFINE P == {n \in Nat : Values[n] \in Nat \ {0}}
<1>7. Values[0] = 1  BY <1>6
<1>8. ASSUME NEW n \in Nat PROVE Values[n + 1] = d * Values[n]
  <2>1. n + 1 \in Nat /\ n + 1 # 0 /\ (n + 1) - 1 = n  OBVIOUS
  <2>2. Values[n + 1] = IF n + 1 = 0 THEN 1 ELSE d * Values[(n + 1) - 1]  BY <1>6, <2>1
  <2>. QED  BY <2>1, <2>2
<1>9. \A n \in Nat : n \in P
  <2>1. 0 \in P  BY <1>7
  <2>2. ASSUME NEW n \in Nat, n \in P PROVE n + 1 \in P
    <3>1. \A a, b \in Nat \ {0} : a * b \in Nat \ {0}  OBVIOUS
    <3>. QED  BY <1>1, <1>8, <2>2, <3>1
  <2>. HIDE DEF P
  <2>. QED  BY <2>1, <2>2, Induction
<1>. QED  BY <1>7, <1>8, <1>9 DEF d

LEMMA Division ==
  ASSUME NEW x \in Int, NEW v \in Nat \ {0}
  PROVE  /\ x \div v \in Int /\ x % v \in 0 .. v - 1
         /\ x = v * (x \div v) + (x % v)
OBVIOUS

\* Quotient and remainder are the only numbers of their kind.
LEMMA Quotient ==
  ASSUME NEW v \in Nat \ {0}, NEW q \in Int, NEW r \in 0 .. v - 1, NEW x \in Int, x = v * q + r
  PROVE  x \div v = q /\ x % v = r
<1> DEFINE p == x \div v
           s == x % v
<1>1. p \in Int /\ s \in 0 .. v - 1 /\ x = v * p + s  BY Division
<1>. HIDE DEF p, s
<1>2. \A a \in Int : a >= 1 => v * a >= v  OBVIOUS
<1>3. v * (q - p) = v * q - v * p /\ v * (p - q) = v * p - v * q  BY <1>1
<1>4. CASE q > p
  <2>1. q - p \in Int /\ q - p >= 1  BY <1>1, <1>4
  <2>2. v * (q - p) >= v  BY <1>2, <2>1
  <2>. QED  BY <1>1, <1>3, <2>2
<1>5. CASE p > q
  <2>1. p - q \in Int /\ p - q >= 1  BY <1>1, <1>5
  <2>2. v * (p - q) >= v  BY <1>2, <2>1
  <2>. QED  BY <1>1, <1>3, <2>2
<1>6. p = q  BY <1>1, <1>4, <1>5
<1>7. s = r  BY <1>1, <1>6
<1>. QED  BY <1>6, <1>7 DEF p, s

LEMMA QuotientOfQuotient ==
  ASSUME NEW x \in Int, NEW v \in Nat \ {0}, NEW d \in Nat \ {0}
  PROVE  (x \div v) \div d = x \div (d * v)
<1> DEFINE q == x \div v
           r == x % v
           p == q \div d
           s == q % d
<1>1. q \in Int /\ r \in 0 .. v - 1 /\ x = v * q + r  BY Division
<1>. HIDE DEF q, r
<1>2. p \in Int /\ s \in 0 .. d - 1 /\ q = d * p + s  BY <1>1, Division
<1>. HIDE DEF p, s
<1>3. d * v \in Nat \ {0}  OBVIOUS
<1>4. x = (d * v) * p + (v * s + r)  BY <1>1, <1>2
<1>5. v * s + r \in 0 .. d * v - 1
  <2>1. v * s >= 0 /\ v * s \in Int  BY <1>2
  <2>2. v * s <= v * (d - 1)  BY <1>2
  <2>3. v * (d - 1) = d * v - v  OBVIOUS
  <2>. QED  BY <1>1, <2>1, <2>2, <2>3
<1>6. x \div (d * v) = p
  <2>1. PICK w, t : w = d * v /\ t = v * s + r  OBVIOUS
  <2>2. w \in Nat \ {0} /\ t \in 0 .. w - 1 /\ x = w * p + t  BY <1>3, <1>4, <1>5, <2>1
  <2>3. x \div w = p  BY <1>2, <2>2, Quotient
  <2>. QED  BY <2>1, <2>3
<1>. QED  BY <1>6 DEF p, q
LEMMA BytesType ==
  ASSUME NEW x \in Int, NEW n \in Nat
  PROVE  /\ hostToNetwork(x, n) \in [1 .. n -> Byte]
         /\ hostToNetwork(x, n) \in Seq(Byte) /\ Len(hostToNetwork(x, n)) = n
<1> DEFINE b == hostToNetwork(x, n)
<1>1. ASSUME NEW k \in 1 .. n PROVE (x \div Values[n - k]) % Cardinality(Byte) \in Byte
  <2>1. n - k \in Nat  OBVIOUS
  <2>2. PICK v : v = Values[n - k]  OBVIOUS
  <2>3. v \in Nat \ {0}  BY <2>1, <2>2, ValuesStep
  <2>4. x \div v \in Int  BY <2>3
  <2>5. PICK q, d : q = x \div v /\ d = Cardinality(Byte)  OBVIOUS
  <2>6. q \in Int /\ d \in Nat \ {0} /\ Byte = 0 .. d - 1  BY <2>4, <2>5, ByteCount
  <2>7. q % d \in Byte  BY <2>6
  <2>. QED  BY <2>2, <2>5, <2>7
<1>2. b \in [1 .. n -> Byte]  BY <1>1 DEF hostToNetwork
<1>. HIDE DEF b
<1>3. b \in Seq(Byte) /\ Len(b) = n  BY <1>2
<1>. QED  BY <1>2, <1>3 DEF b

\* What the bytes of an integer stand for, most significant byte first.
LEMMA BytesValue ==
  ASSUME NEW x \in Int, NEW n \in Nat
  PROVE  BigEndian(hostToNetwork(x, n))[n] = x % Values[n]
<1> DEFINE d == Cardinality(Byte)
           b == hostToNetwork(x, n)
           H == BigEndian(b)
           q(k) == x \div Values[n - k]
           h == [k \in 0 .. n |-> q(k) - q(0) * Values[k]]
<1>1. d \in Nat \ {0}  BY ByteCount
<1>2. b \in [1 .. n -> Byte] /\ Len(b) = n  BY BytesType
<1>3. ASSUME NEW k \in 0 .. n PROVE q(k) \in Int /\ Values[k] \in Nat \ {0}
  <2>1. n - k \in Nat /\ k \in Nat  OBVIOUS
  <2>2. Values[n - k] \in Nat \ {0} /\ Values[k] \in Nat \ {0}  BY <2>1, ValuesStep
  <2>. QED  BY <2>2
<1>4. ASSUME NEW k \in 1 .. n PROVE q(k) = d * q(k - 1) + b[k]
  <2>1. n - k \in Nat /\ (n - k) + 1 = n - (k - 1)  OBVIOUS
  <2>2. PICK v : v = Values[n - k]  OBVIOUS
  <2>3. v \in Nat \ {0} /\ Values[n - (k - 1)] = d * v  BY <2>1, <2>2, ValuesStep
  <2>4. b[k] = (x \div v) % d  BY <2>2 DEF hostToNetwork
  <2>5. q(k) = x \div v /\ q(k - 1) = x \div (d * v)  BY <2>2, <2>3
  <2>6. (x \div v) \div d = x \div (d * v)  BY <1>1, <2>3, QuotientOfQuotient
  <2>7. PICK y : y = x \div v  OBVIOUS
  <2>8. y \in Int  BY <2>3, <2>7
  <2>. HIDE DEF d, b, q
  <2>9. y = d * (y \div d) + (y % d)  BY <1>1, <2>8, Division
  <2>. QED  BY <2>4, <2>5, <2>6, <2>7, <2>9
<1>. HIDE DEF d, b
<1>5. ASSUME NEW k \in 1 .. n PROVE h[k] = h[k - 1] * d + b[k]
  <2>1. k \in 0 .. n /\ k - 1 \in 0 .. n /\ k - 1 \in Nat /\ (k - 1) + 1 = k /\ 0 \in 0 .. n  OBVIOUS
  <2>2. PICK p, c, a, v : p = q(k - 1) /\ c = q(k) /\ a = q(0) /\ v = Values[k - 1]  OBVIOUS
  <2>3. p \in Int /\ c \in Int /\ a \in Int /\ v \in Int  BY <1>3, <2>1, <2>2
  <2>4. Values[k] = d * v  BY <2>1, <2>2, ValuesStep DEF d
  <2>5. h[k] = c - a * (d * v) /\ h[k - 1] = p - a * v  BY <2>1, <2>2, <2>4
  <2>6. c = d * p + b[k]  BY <1>4, <2>2
  <2>7. b[k] \in Int  BY <1>2, ByteCount
  <2>8. c - a * (d * v) = (p - a * v) * d + b[k]
    <3>. HIDE DEF h, q
    <3>1. PICK z : z = b[k]  OBVIOUS
    <3>2. a * (d * v) = (a * v) * d  BY <1>1, <2>3
    <3>3. (p - a * v) * d = p * d - (a * v) * d  BY <1>1, <2>3
    <3>4. c = d * p + z /\ z \in Int  BY <2>6, <2>7, <3>1
    <3>5. d * p = p * d  BY <1>1, <2>3
    <3>. QED  BY <1>1, <2>3, <3>1, <3>2, <3>3, <3>4, <3>5
  <2>. QED  BY <2>5, <2>8
<1>6. h[0] = 0
  <2>1. 0 \in 0 .. n  OBVIOUS
  <2>2. h[0] = q(0) - q(0) * Values[0]  BY <2>1
  <2>3. Values[0] = 1 /\ q(0) \in Int  BY <1>3, <2>1, ValuesStep
  <2>. HIDE DEF h, q
  <2>. QED  BY <2>2, <2>3
<1>7. h = [k \in 0 .. n |-> h[k]]  OBVIOUS
<1>8. h[n] = x % Values[n]
  <2>1. n \in 0 .. n /\ n - n = 0 /\ n - 0 = n  OBVIOUS
  <2>2. PICK v : v = Values[n]  OBVIOUS
  <2>3. v \in Nat \ {0} /\ Values[0] = 1  BY <2>2, ValuesStep
  <2>4. h[n] = x \div 1 - (x \div v) * v  BY <2>1, <2>2, <2>3
  <2>5. x \div 1 = x  OBVIOUS
  <2>6. x = v * (x \div v) + (x % v)  BY <2>3, Division
  <2>7. (x \div v) * v = v * (x \div v) /\ (x \div v) \in Int /\ x % v \in Int  BY <2>3
  <2>. HIDE DEF h, q
  <2>8. h[n] = x % v
    <3>1. PICK y, r : y = v * (x \div v) /\ r = x % v  OBVIOUS
    <3>2. y \in Int /\ r \in Int /\ x = y + r /\ h[n] = x - y  BY <2>3, <2>4, <2>5, <2>6, <2>7, <3>1
    <3>3. x - y = r  BY <3>2
    <3>. QED  BY <3>1, <3>2, <3>3, Zenon
  <2>. QED  BY <2>2, <2>8
<1>. HIDE DEF h, q
<1>9. h = [k \in 0 .. n |-> IF k = 0 THEN 0 ELSE h[k - 1] * d + b[k]]
  <2>1. ASSUME NEW k \in 0 .. n
        PROVE  h[k] = IF k = 0 THEN 0 ELSE h[k - 1] * d + b[k]
    <3>1. CASE k = 0  BY <1>6, <3>1
    <3>2. CASE k # 0
      <4>1. k \in 1 .. n  BY <3>2
      <4>. QED  BY <1>5, <3>2, <4>1
    <3>. QED  BY <3>1, <3>2
  <2>. QED  BY <1>7, <2>1
<1>10. H = [k \in 0 .. n |-> IF k = 0 THEN 0 ELSE H[k - 1] * d + b[k]]
  BY <1>2, <1>9 DEF BigEndian, d
<1>. HIDE DEF H
<1> DEFINE P == {k \in Nat : k <= n => H[k] = h[k]}
<1>11. \A k \in Nat : k \in P
  <2>1. 0 \in P  BY <1>6, <1>10
  <2>2. ASSUME NEW k \in Nat, k \in P PROVE k + 1 \in P
    <3>1. SUFFICES ASSUME k + 1 <= n PROVE H[k + 1] = h[k + 1]  OBVIOUS
    <3>2. k + 1 \in 1 .. n /\ k + 1 \in 0 .. n /\ (k + 1) - 1 = k /\ k + 1 # 0 /\ k <= n
      BY <3>1
    <3>3. H[k + 1] = H[k] * d + b[k + 1]  BY <1>10, <3>2
    <3>4. h[k + 1] = h[k] * d + b[k + 1]  BY <1>5, <3>2
    <3>5. H[k] = h[k]  BY <2>2, <3>2
    <3>. QED  BY <3>3, <3>4, <3>5, Zenon
  <2>. HIDE DEF P
  <2>. QED  BY <2>1, <2>2, Induction
<1>12. H[n] = h[n]
  <2>1. n \in P  BY <1>11
  <2>. QED  BY <2>1
<1>. QED  BY <1>8, <1>12 DEF H, b

\* An integer of a size is what its bytes give back, whatever its sign.
LEMMA ReadBack ==
  ASSUME NEW n \in Nat, NEW x \in Number(n)
  PROVE  networkToHost(hostToNetwork(x, n)) = x
<1>1. PICK v, w : v = Values[n] /\ w = v \div 2  OBVIOUS
<1>2. v \in Nat \ {0}  BY <1>1, ValuesStep
<1>3. w \in Nat /\ (v = 2 * w \/ v = 2 * w + 1)
  <2>1. v = 2 * (v \div 2) + (v % 2) /\ v % 2 \in 0 .. 1 /\ v \div 2 \in Int  BY <1>2
  <2>. QED  BY <1>1, <1>2, <2>1
<1>4. Number(n) = -w .. v - w - 1  BY <1>1 DEF Number
<1>5. x \in Int /\ -w <= x /\ x <= v - w - 1  BY <1>2, <1>3, <1>4
<1> DEFINE b == hostToNetwork(x, n)
           y == x % v
<1>6. Len(b) = n /\ BigEndian(b)[n] = y  BY <1>1, <1>5, BytesType, BytesValue
<1>7. networkToHost(b) = IF y \in Number(n) THEN y ELSE y - v
  BY <1>1, <1>6 DEF networkToHost
<1>8. CASE x >= 0
  <2>1. x = v * 0 + x /\ x \in 0 .. v - 1  BY <1>2, <1>3, <1>5, <1>8
  <2>2. y = x
    <3>1. PICK q, r : q = 0 /\ r = x  OBVIOUS
    <3>2. q \in Int /\ r \in 0 .. v - 1 /\ x = v * q + r  BY <2>1, <3>1
    <3>3. x % v = r  BY <1>2, <1>5, <3>2, Quotient
    <3>. QED  BY <3>1, <3>3
  <2>. QED  BY <1>7, <2>2
<1>9. CASE x < 0
  <2>1. x = v * (-1) + (x + v) /\ x + v \in 0 .. v - 1  BY <1>2, <1>3, <1>5, <1>9
  <2>2. y = x + v
    <3>1. PICK q, r : q = -1 /\ r = x + v  OBVIOUS
    <3>2. q \in Int /\ r \in 0 .. v - 1 /\ x = v * q + r  BY <2>1, <3>1
    <3>3. x % v = r  BY <1>2, <1>5, <3>2, Quotient
    <3>. QED  BY <3>1, <3>3
  <2>3. y \notin Number(n)  BY <1>2, <1>3, <1>4, <1>5, <2>2
  <2>4. y - v = x  BY <1>2, <1>5, <2>2
  <2>. QED  BY <1>7, <2>3, <2>4
<1>. QED  BY <1>5, <1>8, <1>9
-----------------------------------------------------------------------------
LEMMA Dropped ==
  ASSUME NEW S, NEW a \in Seq(S), NEW b \in Seq(S)
  PROVE  SubSeq(a \o b, Len(a) + 1, Len(a \o b)) = b
<1>1. a \o b \in Seq(S) /\ Len(a \o b) = Len(a) + Len(b) /\ Len(a) \in Nat /\ Len(b) \in Nat
  BY ConcatProperties
<1> DEFINE c == SubSeq(a \o b, Len(a) + 1, Len(a \o b))
<1>2. c \in Seq(S) /\ Len(c) = Len(b) /\ \A i \in 1 .. Len(b) : c[i] = (a \o b)[Len(a) + i]
  BY <1>1
<1>3. \A i \in 1 .. Len(b) : (a \o b)[Len(a) + i] = b[i]  OBVIOUS
<1>. HIDE DEF c
<1>4. \A i \in 1 .. Len(c) : c[i] = b[i]  BY <1>2, <1>3
<1>5. c = b  BY <1>2, <1>4, SeqEqual
<1>. QED  BY <1>5 DEF c

LEMMA Taken ==
  ASSUME NEW S, NEW a \in Seq(S), NEW b \in Seq(S)
  PROVE  SubSeq(a \o b, 1, Len(a)) = a
<1>1. a \o b \in Seq(S) /\ Len(a \o b) = Len(a) + Len(b) /\ Len(a) \in Nat /\ Len(b) \in Nat
  BY ConcatProperties
<1> DEFINE c == SubSeq(a \o b, 1, Len(a))
<1>2. c \in Seq(S) /\ Len(c) = Len(a) /\ \A i \in 1 .. Len(a) : c[i] = (a \o b)[i]
  BY <1>1
<1>3. \A i \in 1 .. Len(a) : (a \o b)[i] = a[i]  OBVIOUS
<1>. HIDE DEF c
<1>4. \A i \in 1 .. Len(c) : c[i] = a[i]  BY <1>2, <1>3
<1>5. c = a  BY <1>2, <1>4, SeqEqual
<1>. QED  BY <1>5 DEF c

LEMMA HeadAndTail ==
  ASSUME NEW S, NEW s \in Seq(S), s # <<>>
  PROVE  /\ s = <<Head(s)>> \o Tail(s) /\ Head(s) = s[1] /\ Head(s) \in S /\ Tail(s) \in Seq(S)
         /\ 1 \in DOMAIN s
OBVIOUS

\* The integers that have been put in, and their bytes.
Entry == {e \in Int \X Nat : e[2] \in Sizes /\ e[1] \in Number(e[2])}
Encoded(list) == [i \in DOMAIN list |-> hostToNetwork(list[i][1], list[i][2])]

LEMMA EntryBytes ==
  ASSUME NEW e \in Entry
  PROVE  /\ e[1] \in Int /\ e[2] \in Nat \ {0} /\ e[1] \in Number(e[2])
         /\ hostToNetwork(e[1], e[2]) \in Seq(Byte) /\ Len(hostToNetwork(e[1], e[2])) = e[2]
<1>1. e[1] \in Int /\ e[2] \in Nat /\ e[2] \in Nat \ {0} /\ e[1] \in Number(e[2])
  BY SizesAssumption DEF Entry
<1>. QED  BY <1>1, BytesType

LEMMA EncodedType ==
  ASSUME NEW list \in Seq(Entry)
  PROVE  /\ Encoded(list) \in Seq(Seq(Byte)) /\ Len(Encoded(list)) = Len(list)
         /\ \A i \in 1 .. Len(list) : Encoded(list)[i] = hostToNetwork(list[i][1], list[i][2])
<1>1. ASSUME NEW i \in 1 .. Len(list) PROVE hostToNetwork(list[i][1], list[i][2]) \in Seq(Byte)
  BY EntryBytes
<1>2. DOMAIN list = 1 .. Len(list) /\ Len(list) \in Nat  OBVIOUS
<1>3. /\ Encoded(list) \in [1 .. Len(list) -> Seq(Byte)]
      /\ \A i \in 1 .. Len(list) : Encoded(list)[i] = hostToNetwork(list[i][1], list[i][2])
  BY <1>1, <1>2 DEF Encoded
<1>. QED  BY <1>2, <1>3

LEMMA EncodedAppend ==
  ASSUME NEW list \in Seq(Entry), NEW e \in Entry
  PROVE  Encoded(Append(list, e)) = Append(Encoded(list), hostToNetwork(e[1], e[2]))
<1> DEFINE n == Len(list)
           l == Append(list, e)
           x == hostToNetwork(e[1], e[2])
           a == Encoded(l)
           b == Append(Encoded(list), x)
<1>1. n \in Nat /\ l \in Seq(Entry) /\ Len(l) = n + 1 /\ l[n + 1] = e
      /\ \A i \in 1 .. n : l[i] = list[i]
  OBVIOUS
<1>. HIDE DEF l
<1>2. /\ a \in Seq(Seq(Byte)) /\ Len(a) = n + 1
      /\ \A i \in 1 .. n + 1 : a[i] = hostToNetwork(l[i][1], l[i][2])
  BY <1>1, EncodedType
<1>. HIDE DEF a
<1>3. PICK s : s = Encoded(list)  OBVIOUS
<1>4. /\ s \in Seq(Seq(Byte)) /\ Len(s) = n
      /\ \A i \in 1 .. n : s[i] = hostToNetwork(list[i][1], list[i][2])
  BY <1>3, EncodedType
<1>5. x \in Seq(Byte)  BY EntryBytes
<1>. HIDE DEF x
<1>6. PICK T : T = Seq(Byte)  OBVIOUS
<1>7. b = Append(s, x)  BY <1>3
<1>. HIDE DEF b
<1>8. b \in Seq(T) /\ Len(b) = n + 1 /\ b[n + 1] = x /\ \A i \in 1 .. n : b[i] = s[i]
  BY <1>4, <1>5, <1>6, <1>7
<1>9. ASSUME NEW i \in 1 .. n + 1 PROVE a[i] = b[i]
  <2>1. CASE i = n + 1  BY <1>1, <1>2, <1>8, <2>1 DEF x
  <2>2. CASE i # n + 1
    <3>1. i \in 1 .. n  BY <1>1, <2>2
    <3>. QED  BY <1>1, <1>2, <1>4, <1>8, <3>1
  <2>. QED  BY <2>1, <2>2
<1>10. a \in Seq(T)  BY <1>2, <1>6
<1>11. a = b  BY <1>2, <1>8, <1>9, <1>10, SeqEqual
<1>. QED  BY <1>11 DEF a, b, l, x

LEMMA EncodedCons ==
  ASSUME NEW list \in Seq(Entry), NEW e \in Entry
  PROVE  Encoded(<<e>> \o list) = <<hostToNetwork(e[1], e[2])>> \o Encoded(list)
<1> DEFINE n == Len(list)
           l == <<e>> \o list
           x == hostToNetwork(e[1], e[2])
           a == Encoded(l)
           b == <<x>> \o Encoded(list)
<1>1. n \in Nat /\ l \in Seq(Entry) /\ Len(l) = n + 1 /\ l[1] = e
      /\ \A i \in 1 .. n : l[i + 1] = list[i]
  OBVIOUS
<1>. HIDE DEF l
<1>2. /\ a \in Seq(Seq(Byte)) /\ Len(a) = n + 1
      /\ \A i \in 1 .. n + 1 : a[i] = hostToNetwork(l[i][1], l[i][2])
  BY <1>1, EncodedType
<1>. HIDE DEF a
<1>3. PICK s : s = Encoded(list)  OBVIOUS
<1>4. /\ s \in Seq(Seq(Byte)) /\ Len(s) = n
      /\ \A i \in 1 .. n : s[i] = hostToNetwork(list[i][1], list[i][2])
  BY <1>3, EncodedType
<1>5. x \in Seq(Byte)  BY EntryBytes
<1>. HIDE DEF x
<1>6. PICK T : T = Seq(Byte)  OBVIOUS
<1>7. b = <<x>> \o s  BY <1>3
<1>. HIDE DEF b
<1>8. b \in Seq(T) /\ Len(b) = n + 1 /\ b[1] = x /\ \A i \in 1 .. n : b[i + 1] = s[i]
  BY <1>4, <1>5, <1>6, <1>7
<1>9. ASSUME NEW i \in 1 .. n + 1 PROVE a[i] = b[i]
  <2>1. CASE i = 1  BY <1>1, <1>2, <1>8, <2>1 DEF x
  <2>2. CASE i # 1
    <3>1. i - 1 \in 1 .. n /\ (i - 1) + 1 = i  BY <1>1, <2>2
    <3>2. l[i] = list[i - 1] /\ b[i] = s[i - 1]  BY <1>1, <1>8, <3>1
    <3>. QED  BY <1>2, <1>4, <3>1, <3>2
  <2>. QED  BY <2>1, <2>2
<1>10. a \in Seq(T)  BY <1>2, <1>6
<1>11. a = b  BY <1>2, <1>8, <1>9, <1>10, SeqEqual
<1>. QED  BY <1>11 DEF a, b, l, x
\* A user who keeps to the functions for integers finds in the buffer the bytes of the
\* ones put in and not yet read, one after another.
NumbersInv ==
  /\ Inv
  /\ numeric \in BOOLEAN /\ numbers \in Seq(Entry)
  /\ numeric => content = FlattenSeq(Encoded(numbers))
  /\ ~numeric => numbers = <<>>

LEMMA EncodedNothing == Encoded(<<>>) = <<>> /\ FlattenSeq(Encoded(<<>>)) = <<>>
<1>1. Encoded(<<>>) = <<>>
  <2>1. PICK l : l = <<>>  OBVIOUS
  <2>2. l \in Seq(Entry) /\ Len(l) = 0  BY <2>1
  <2>3. Encoded(l) \in Seq(Seq(Byte)) /\ Len(Encoded(l)) = 0  BY <2>2, EncodedType
  <2>. QED  BY <2>1, <2>3
<1>. QED  BY <1>1, FlattenEmpty

\* What a nonempty buffer begins with.
LEMMA FirstNumber ==
  ASSUME NumbersInv, numeric, numbers # <<>>
  PROVE  LET x == Head(numbers)[1]
             n == Head(numbers)[2]
             rest == FlattenSeq(Encoded(Tail(numbers)))
         IN  /\ Head(numbers) \in Entry /\ Tail(numbers) \in Seq(Entry) /\ rest \in Seq(Byte)
             /\ content = hostToNetwork(x, n) \o rest
<1>1. PICK e, t : e = Head(numbers) /\ t = Tail(numbers)  OBVIOUS
<1>2. e \in Entry /\ t \in Seq(Entry) /\ numbers = <<e>> \o t
  BY <1>1, HeadAndTail DEF NumbersInv
<1>3. PICK b, s : b = hostToNetwork(e[1], e[2]) /\ s = Encoded(t)  OBVIOUS
<1>4. b \in Seq(Byte) /\ s \in Seq(Seq(Byte))  BY <1>2, <1>3, EntryBytes, EncodedType
<1>5. Encoded(numbers) = <<b>> \o s  BY <1>2, <1>3, EncodedCons
<1>6. FlattenSeq(<<b>> \o s) = b \o FlattenSeq(s) /\ FlattenSeq(s) \in Seq(Byte)
  BY <1>4, FlattenCons, FlattenType
<1>7. content = FlattenSeq(Encoded(numbers))  BY DEF NumbersInv
<1>. QED  BY <1>1, <1>2, <1>3, <1>5, <1>6, <1>7

LEMMA AppendIntStep ==
  ASSUME NumbersInv, numeric, UNCHANGED numeric, NEW n \in Sizes, NEW x \in Number(n), AppendInt(x, n)
  PROVE  NumbersInv'
<1> DEFINE b == hostToNetwork(x, n)
<1>1. PICK e : e = <<x, n>>  OBVIOUS
<1>2. n \in Nat /\ x \in Int
  <2>1. n \in Nat  BY SizesAssumption
  <2>2. Values[n] \div 2 \in Int /\ Values[n] \in Int  BY <2>1, ValuesStep
  <2>. QED  BY <2>1, <2>2 DEF Number
<1>3. e \in Entry /\ e[1] = x /\ e[2] = n  BY <1>1, <1>2 DEF Entry
<1>4. b \in [1 .. n -> Byte] /\ Len(b) = n /\ b \in Seq(Byte)  BY <1>2, BytesType
<1>5. numbers \in Seq(Entry) /\ content = FlattenSeq(Encoded(numbers)) /\ Inv  BY DEF NumbersInv
<1>6. AppendData(b) /\ numbers' = Append(numbers, e)  BY <1>1 DEF AppendInt
<1>. HIDE DEF b
<1>7. b \in Data
  <2>1. readableBytes(This) + n <= MaxReadable  BY <1>4, <1>6 DEF AppendData, Fits
  <2>2. readableBytes(This) \in Nat  BY <1>5 DEF Inv, TypeOK, readableBytes, This
  <2>3. n \in 0 .. MaxReadable  BY <1>2, <2>1, <2>2, BufferAssumption
  <2>. QED  BY <1>4, <2>3 DEF Data
<1>8. Inv' /\ content' = content \o b  BY <1>5, <1>6, <1>7, AppendStep
<1>9. numbers' \in Seq(Entry)  BY <1>3, <1>5, <1>6
<1>10. Encoded(numbers') = Append(Encoded(numbers), b)
  BY <1>3, <1>5, <1>6, EncodedAppend DEF b
<1>11. FlattenSeq(Encoded(numbers')) = FlattenSeq(Encoded(numbers)) \o b
  <2>1. PICK s : s = Encoded(numbers)  OBVIOUS
  <2>2. s \in Seq(Seq(Byte))  BY <1>5, <2>1, EncodedType
  <2>3. FlattenSeq(Append(s, b)) = FlattenSeq(s) \o b  BY <1>4, <2>2, FlattenAppend
  <2>. QED  BY <1>10, <2>1, <2>3
<1>12. content' = FlattenSeq(Encoded(numbers'))  BY <1>5, <1>8, <1>11
<1>. QED  BY <1>8, <1>9, <1>12 DEF NumbersInv, Encoded

LEMMA PrependIntStep ==
  ASSUME NumbersInv, numeric, UNCHANGED numeric, NEW n \in Sizes, NEW x \in Number(n), PrependInt(x, n)
  PROVE  NumbersInv'
<1> DEFINE b == hostToNetwork(x, n)
<1>1. PICK e : e = <<x, n>>  OBVIOUS
<1>2. n \in Nat /\ x \in Int
  <2>1. n \in Nat  BY SizesAssumption
  <2>2. Values[n] \div 2 \in Int /\ Values[n] \in Int  BY <2>1, ValuesStep
  <2>. QED  BY <2>1, <2>2 DEF Number
<1>3. e \in Entry /\ e[1] = x /\ e[2] = n  BY <1>1, <1>2 DEF Entry
<1>4. b \in [1 .. n -> Byte] /\ Len(b) = n /\ b \in Seq(Byte)  BY <1>2, BytesType
<1>5. numbers \in Seq(Entry) /\ content = FlattenSeq(Encoded(numbers)) /\ Inv  BY DEF NumbersInv
<1>6. Prepend(b) /\ numbers' = <<e>> \o numbers  BY <1>1 DEF PrependInt
<1>. HIDE DEF b
<1>7. b \in Data
  <2>1. readableBytes(This) + n <= MaxReadable  BY <1>4, <1>6 DEF Prepend, Fits
  <2>2. readableBytes(This) \in Nat  BY <1>5 DEF Inv, TypeOK, readableBytes, This
  <2>3. n \in 0 .. MaxReadable  BY <1>2, <2>1, <2>2, BufferAssumption
  <2>. QED  BY <1>4, <2>3 DEF Data
<1>8. Inv' /\ content' = b \o content  BY <1>5, <1>6, <1>7, PrependStep
<1>9. numbers' \in Seq(Entry)  BY <1>3, <1>5, <1>6
<1>10. Encoded(numbers') = <<b>> \o Encoded(numbers)
  BY <1>3, <1>5, <1>6, EncodedCons DEF b
<1>11. FlattenSeq(Encoded(numbers')) = b \o FlattenSeq(Encoded(numbers))
  <2>1. PICK s : s = Encoded(numbers)  OBVIOUS
  <2>2. s \in Seq(Seq(Byte))  BY <1>5, <2>1, EncodedType
  <2>3. FlattenSeq(<<b>> \o s) = b \o FlattenSeq(s)  BY <1>4, <2>2, FlattenCons
  <2>. QED  BY <1>10, <2>1, <2>3
<1>12. content' = FlattenSeq(Encoded(numbers'))  BY <1>5, <1>8, <1>11
<1>. QED  BY <1>8, <1>9, <1>12 DEF NumbersInv, Encoded

LEMMA ReadIntStep ==
  ASSUME NumbersInv, numeric, UNCHANGED numeric, NEW n \in Sizes, ReadInt(n)
  PROVE  NumbersInv'
<1>1. numbers # <<>> /\ Head(numbers)[2] = n /\ Retrieve(n) /\ numbers' = Tail(numbers)
  BY DEF ReadInt
<1>2. PICK b, rest : /\ b = hostToNetwork(Head(numbers)[1], n)
                     /\ rest = FlattenSeq(Encoded(Tail(numbers)))
  OBVIOUS
<1>3. /\ Head(numbers) \in Entry /\ Tail(numbers) \in Seq(Entry) /\ rest \in Seq(Byte)
      /\ content = b \o rest
  BY <1>1, <1>2, FirstNumber
<1>4. b \in Seq(Byte) /\ Len(b) = n  BY <1>1, <1>2, <1>3, EntryBytes
<1>5. Inv' /\ content' = SubSeq(content, n + 1, Len(content))
  <2>1. Inv /\ n \in Nat  BY SizesAssumption DEF NumbersInv
  <2>. QED  BY <1>1, <2>1, RetrieveStep
<1>6. content' = rest  BY <1>3, <1>4, <1>5, Dropped
<1>7. content' = FlattenSeq(Encoded(numbers'))  BY <1>1, <1>2, <1>6
<1>. QED  BY <1>1, <1>3, <1>5, <1>7 DEF NumbersInv, Encoded

LEMMA NumbersStep == NumbersInv /\ [NumbersNext]_numbersVars => NumbersInv'
<1>. SUFFICES ASSUME NumbersInv, [NumbersNext]_numbersVars PROVE NumbersInv'  OBVIOUS
<1>1. ASSUME numeric, UNCHANGED numeric, NEW n \in Sizes, ReadInt(n) PROVE NumbersInv'
  BY <1>1, ReadIntStep
<1>2. ASSUME numeric, UNCHANGED numeric, NEW n \in Sizes, NEW x \in Number(n),
             AppendInt(x, n) \/ PrependInt(x, n)
      PROVE  NumbersInv'
  BY <1>2, AppendIntStep, PrependIntStep
<1>3. CASE ~numeric /\ Next /\ UNCHANGED <<numeric, numbers>>
  BY <1>3, StepInvariant DEF NumbersInv
<1>4. CASE UNCHANGED numbersVars
  <2>1. UNCHANGED vars /\ numeric' = numeric /\ numbers' = numbers  BY <1>4 DEF numbersVars
  <2>2. Inv'  BY <2>1, StepInvariant DEF NumbersInv
  <2>3. content' = content  BY <2>1 DEF vars, content
  <2>. QED  BY <2>1, <2>2, <2>3 DEF NumbersInv, Encoded
<1>. QED  BY <1>1, <1>2, <1>3, <1>4 DEF NumbersNext

LEMMA AlwaysNumbersInv == NumbersSpec => []NumbersInv
<1>1. NumbersInit => NumbersInv
  <2>. SUFFICES ASSUME NumbersInit PROVE NumbersInv  OBVIOUS
  <2>1. Inv /\ numeric \in BOOLEAN /\ numbers = <<>>  BY InitInvariant DEF NumbersInit
  <2>2. content = <<>>  BY InitImplements DEF NumbersInit, Queue!Init
  <2>3. FlattenSeq(Encoded(numbers)) = <<>>  BY <2>1, EncodedNothing
  <2>4. numbers \in Seq(Entry)  BY <2>1
  <2>. QED  BY <2>1, <2>2, <2>3, <2>4 DEF NumbersInv
<1>. QED  BY <1>1, NumbersStep, PTL DEF NumbersSpec

\* Whoever keeps to appendInt8 .. appendInt64 and prependInt8 .. prependInt64
\* (Buffer.h:248-376) finds each integer again with peekInt of its size, whatever its sign,
\* for every number of values that a byte has and for every set of sizes.
THEOREM NumbersKeptTheorem == NumbersSpec => []NumbersKept
<1>1. NumbersInv => NumbersKept
  <2>. SUFFICES ASSUME NumbersInv, numbers # <<>>
                PROVE  peekInt(Head(numbers)[2]) = Head(numbers)[1]
    BY DEF NumbersKept
  <2>1. numeric  BY DEF NumbersInv
  <2>2. PICK e, x, n, b, rest : /\ e = Head(numbers) /\ x = e[1] /\ n = e[2]
                                /\ b = hostToNetwork(x, n)
                                /\ rest = FlattenSeq(Encoded(Tail(numbers)))
    OBVIOUS
  <2>3. e \in Entry /\ rest \in Seq(Byte) /\ content = b \o rest  BY <2>1, <2>2, FirstNumber
  <2>4. b \in Seq(Byte) /\ Len(b) = n /\ n \in Nat /\ x \in Number(n)
    BY <2>2, <2>3, EntryBytes
  <2>5. SubSeq(content, 1, n) = b  BY <2>3, <2>4, Taken
  <2>6. networkToHost(b) = x  BY <2>2, <2>4, ReadBack
  <2>. QED  BY <2>2, <2>5, <2>6 DEF peekInt
<1>. QED  BY <1>1, AlwaysNumbersInv, PTL
-----------------------------------------------------------------------------
(***************************************************************************)
(* Text: where its first line ends, and what follows.                      *)
(***************************************************************************)
LEMMA FirstIs ==
  ASSUME NEW n \in Nat, NEW hits \in SUBSET (1 .. n), NEW m \in hits, \A j \in hits : m <= j
  PROVE  FirstOf(hits, n) = m
<1>1. m \in hits \cup {n + 1} /\ m \in Int /\ m <= n  OBVIOUS
<1>2. PICK i : i = FirstOf(hits, n)  OBVIOUS
<1>3. i \in hits \cup {n + 1} /\ \A j \in hits : i <= j  BY <1>1, <1>2 DEF FirstOf
<1>4. i <= m /\ i \in Int  BY <1>3
<1>5. i \in hits  BY <1>1, <1>3, <1>4
<1>6. m <= i  BY <1>5
<1>7. i = m  BY <1>1, <1>4, <1>6
<1>. QED  BY <1>2, <1>7

LEMMA FirstNone == ASSUME NEW n PROVE FirstOf({}, n) = n + 1
BY DEF FirstOf

-----------------------------------------------------------------------------
\* Concatenation of texts.  What the provers need to know of it is in the lemmas that
\* follow; nothing after them expands it.
a ++ b == a \o b

LEMMA LenText == \A a \in Text : Len(a) \in Nat /\ (Len(a) = 0 <=> a = <<>>)
BY DEF Text

LEMMA CatType == \A a, b \in Text : a ++ b \in Text /\ Len(a ++ b) = Len(a) + Len(b)
BY DEF Text, ++

LEMMA CatAt ==
  ASSUME NEW a \in Text, NEW b \in Text
  PROVE  /\ \A i \in 1 .. Len(a) : (a ++ b)[i] = a[i]
         /\ \A i \in 1 .. Len(b) : (a ++ b)[Len(a) + i] = b[i]
BY DEF Text, ++

LEMMA CatEmpty == \A a \in Text : a ++ <<>> = a /\ <<>> ++ a = a
BY DEF Text, ++

LEMMA EmptyText == <<>> \in Text /\ Len(<<>>) = 0
BY DEF Text

LEMMA CatAssociates == \A a, b, c \in Text : (a ++ b) ++ c = a ++ (b ++ c)
<1>. SUFFICES ASSUME NEW a \in Seq(Token), NEW b \in Seq(Token), NEW c \in Seq(Token)
              PROVE  (a \o b) \o c = a \o (b \o c)
  BY DEF Text, ++
<1>. QED  BY ConcatAssociative

LEMMA CatCancels == \A a, b, c \in Text : a ++ b = a ++ c => b = c
<1>. SUFFICES ASSUME NEW a \in Seq(Token), NEW b \in Seq(Token), NEW c \in Seq(Token),
                     a \o b = a \o c
              PROVE  b = c
  BY DEF Text, ++
<1>. QED  BY ConcatSimplifications

LEMMA TextEqual ==
  ASSUME NEW a \in Text, NEW b \in Text, Len(a) = Len(b), \A i \in 1 .. Len(a) : a[i] = b[i]
  PROVE  a = b
<1>1. a \in Seq(Token) /\ b \in Seq(Token)  BY DEF Text
<1>. QED  BY <1>1, SeqEqual

\* What is left when the front of a text is taken away.
LEMMA Rest ==
  ASSUME NEW a \in Text, NEW n \in Nat, n <= Len(a)
  PROVE  /\ SubSeq(a, n + 1, Len(a)) \in Text /\ Len(SubSeq(a, n + 1, Len(a))) = Len(a) - n
         /\ \A i \in 1 .. Len(a) - n : SubSeq(a, n + 1, Len(a))[i] = a[n + i]
<1>1. PICK m : m = Len(a)  OBVIOUS
<1>2. a \in Seq(Token) /\ m \in Nat /\ n <= m  BY <1>1, LenText DEF Text
<1> DEFINE z == SubSeq(a, n + 1, m)
<1>3. \A i \in n + 1 .. m : a[i] \in Token  BY <1>1, <1>2
<1>4. /\ z \in Seq(Token) /\ Len(z) = IF n + 1 <= m THEN m - (n + 1) + 1 ELSE 0
      /\ \A i \in 1 .. m - (n + 1) + 1 : z[i] = a[n + 1 + i - 1]
  BY <1>2, <1>3, SubSeqProperties
<1>. HIDE DEF z
<1>5. Len(z) = m - n  BY <1>2, <1>4
<1>6. ASSUME NEW i \in 1 .. m - n PROVE z[i] = a[n + i]
  <2>1. i \in 1 .. m - (n + 1) + 1 /\ n + 1 + i - 1 = n + i  BY <1>2
  <2>2. z[i] = a[n + 1 + i - 1]  BY <1>4, <2>1
  <2>. QED  BY <2>1, <2>2
<1>. QED  BY <1>1, <1>4, <1>5, <1>6 DEF z, Text

\* Two ways of cutting the same text in two.
LEMMA CatSplits ==
  ASSUME NEW a \in Text, NEW b \in Text, NEW x \in Text, NEW y \in Text,
         a ++ b = x ++ y, Len(x) <= Len(a)
  PROVE  \E z \in Text : a = x ++ z /\ y = z ++ b
<1>1. PICK n, m : n = Len(x) /\ m = Len(a)  OBVIOUS
<1>2. n \in Nat /\ m \in Nat /\ n <= m  BY <1>1, LenText
<1>3. PICK z \in Text : Len(z) = m - n /\ \A i \in 1 .. m - n : z[i] = a[n + i]
  <2>1. PICK z : z = SubSeq(a, n + 1, Len(a))  OBVIOUS
  <2>2. n <= Len(a)  BY <1>1, <1>2
  <2>3. z \in Text /\ Len(z) = Len(a) - n /\ \A i \in 1 .. Len(a) - n : z[i] = a[n + i]
    BY <1>2, <2>1, <2>2, Rest
  <2>. QED  BY <1>1, <2>3
<1>4. x ++ z \in Text /\ Len(x ++ z) = m  BY <1>1, <1>2, <1>3, CatType
<1>5. ASSUME NEW i \in 1 .. m PROVE (x ++ z)[i] = a[i]
  <2>1. CASE i <= n
    <3>1. i \in 1 .. n  BY <1>2, <2>1
    <3>2. (x ++ z)[i] = x[i] /\ (x ++ y)[i] = x[i]  BY <1>1, <1>3, <3>1, CatAt
    <3>3. (a ++ b)[i] = a[i]  BY <1>1, CatAt
    <3>. QED  BY <3>2, <3>3
  <2>2. CASE i > n
    <3>1. i - n \in 1 .. m - n /\ n + (i - n) = i  BY <1>2, <2>2
    <3>2. (x ++ z)[n + (i - n)] = z[i - n]  BY <1>1, <1>3, <3>1, CatAt
    <3>. QED  BY <1>3, <3>1, <3>2
  <2>3. i <= n \/ i > n  BY <1>2
  <2>. QED  BY <2>1, <2>2, <2>3
<1>6. x ++ z = a
  <2>1. PICK c : c = x ++ z  OBVIOUS
  <2>2. c \in Text /\ Len(c) = Len(a) /\ \A i \in 1 .. Len(c) : c[i] = a[i]
    BY <1>1, <1>4, <1>5, <2>1
  <2>. QED  BY <2>1, <2>2, TextEqual
<1>7. x ++ (z ++ b) = x ++ y  BY <1>6, CatAssociates
<1>8. z ++ b = y  BY <1>7, CatType, CatCancels
<1>. QED  BY <1>6, <1>8

LEMMA CatDropped == \A a, b \in Text : SubSeq(a ++ b, Len(a) + 1, Len(a ++ b)) = b
<1>. SUFFICES ASSUME NEW a \in Seq(Token), NEW b \in Seq(Token)
              PROVE  SubSeq(a \o b, Len(a) + 1, Len(a \o b)) = b
  BY DEF Text, ++
<1>. QED  BY Dropped

LEMMA CatTaken == \A a, b \in Text : SubSeq(a ++ b, 1, Len(a)) = a
<1>. SUFFICES ASSUME NEW a \in Seq(Token), NEW b \in Seq(Token)
              PROVE  SubSeq(a \o b, 1, Len(a)) = a
  BY DEF Text, ++
<1>. QED  BY Taken
-----------------------------------------------------------------------------
\* The text of a line has no CR in it.
Plain(l) == \A i \in 1 .. Len(l) : l[i] # "CR"

LEMMA Ends == CRLF \in Text /\ Len(CRLF) = 2 /\ CRLF[1] = "CR" /\ CRLF[2] = "LF"
<1>1. PICK c, n : c = "CR" /\ n = "LF"  OBVIOUS
<1>2. c \in Token /\ n \in Token  BY <1>1 DEF Token, Separators
<1>3. <<c, n>> \in Seq(Token) /\ Len(<<c, n>>) = 2 /\ <<c, n>>[1] = c /\ <<c, n>>[2] = n
  BY <1>2
<1>. QED  BY <1>1, <1>3 DEF CRLF, Text

LEMMA LineType == \A l \in Text : l ++ CRLF \in Text /\ Len(l ++ CRLF) = Len(l) + 2
<1>1. PICK c : c = CRLF /\ c \in Text /\ Len(c) = 2  BY Ends
<1>2. \A l \in Text : l ++ c \in Text /\ Len(l ++ c) = Len(l) + Len(c)  BY <1>1, CatType
<1>. QED  BY <1>1, <1>2

LEMMA LineAt ==
  ASSUME NEW l \in Text, NEW p, p = l ++ CRLF
  PROVE  /\ \A i \in 1 .. Len(l) : p[i] = l[i]
         /\ p[Len(l) + 1] = "CR" /\ p[Len(l) + 2] = "LF"
<1>1. PICK c, n : c = CRLF /\ n = Len(l)  OBVIOUS
<1>2. c \in Text /\ Len(c) = 2 /\ c[1] = "CR" /\ c[2] = "LF"  BY <1>1, Ends
<1>3. \A i \in 1 .. n : (l ++ c)[i] = l[i]  BY <1>1, <1>2, CatAt
<1>4. \A i \in 1 .. Len(c) : (l ++ c)[Len(l) + i] = c[i]  BY <1>2, CatAt
<1>5. (l ++ c)[n + 1] = "CR" /\ (l ++ c)[n + 2] = "LF"  BY <1>1, <1>2, <1>4
<1>. QED  BY <1>1, <1>3, <1>5

\* The line that the input begins with is found as soon as it is in the buffer.
LEMMA LineFound ==
  ASSUME NEW b \in Text, NEW k \in Text, NEW l \in Text, NEW t \in Text, Plain(l),
         b ++ k = (l ++ CRLF) ++ t, Len(l) + 2 <= Len(b)
  PROVE  /\ findCRLF(b) <= Len(b) /\ Before(b, findCRLF(b)) = l
         /\ \E z \in Text : /\ After(b, findCRLF(b) + 1) = z /\ t = z ++ k
                            /\ Len(b) = Len(l) + 2 + Len(z)
<1>1. PICK n, p : n = Len(l) /\ p = l ++ CRLF  OBVIOUS
<1>2. p \in Text /\ Len(p) = n + 2 /\ n \in Nat
  <2>1. p \in Text /\ Len(p) = n + 2  BY <1>1, LineType
  <2>2. n \in Nat  BY <1>1, LenText
  <2>. QED  BY <2>1, <2>2
<1>3. PICK z \in Text : b = p ++ z /\ t = z ++ k
  <2>1. b ++ k = p ++ t /\ Len(p) <= Len(b)  BY <1>1, <1>2
  <2>. QED  BY <1>2, <2>1, CatSplits
<1>4. /\ Len(b) = n + 2 + Len(z) /\ Len(z) \in Nat
      /\ \A i \in 1 .. n : b[i] = l[i]
      /\ b[n + 1] = "CR" /\ b[n + 2] = "LF"
  <2>1. Len(z) \in Nat /\ Len(b) = Len(p) + Len(z)  BY <1>2, <1>3, CatType, LenText
  <2>2. \A i \in 1 .. Len(p) : b[i] = p[i]
    <3>1. \A i \in 1 .. Len(p) : (p ++ z)[i] = p[i]  BY <1>2, CatAt
    <3>. QED  BY <1>3, <3>1
  <2>3. (\A i \in 1 .. n : p[i] = l[i]) /\ p[n + 1] = "CR" /\ p[n + 2] = "LF"
    BY <1>1, LineAt
  <2>4. \A i \in 1 .. n : i \in 1 .. n + 2  BY <1>2
  <2>5. n + 1 \in 1 .. n + 2 /\ n + 2 \in 1 .. n + 2  BY <1>2
  <2>. QED  BY <1>2, <2>1, <2>2, <2>3, <2>4, <2>5
<1>5. findCRLF(b) = n + 1
  <2> DEFINE hits == {i \in 1 .. Len(b) - 1 : b[i] = "CR" /\ b[i + 1] = "LF"}
  <2>1. n + 1 \in hits
    <3>1. n + 1 \in 1 .. Len(b) - 1 /\ (n + 1) + 1 = n + 2  BY <1>2, <1>4
    <3>. QED  BY <1>4, <3>1
  <2>2. \A j \in hits : n + 1 <= j
    <3>1. \A i \in 1 .. n : b[i] # "CR"  BY <1>1, <1>4 DEF Plain
    <3>. QED  BY <1>2, <3>1
  <2>3. hits \in SUBSET (1 .. Len(b)) /\ Len(b) \in Nat  BY <1>2, <1>4
  <2>4. findCRLF(b) = FirstOf(hits, Len(b))  BY DEF findCRLF
  <2>. HIDE DEF hits
  <2>. QED  BY <2>1, <2>2, <2>3, <2>4, FirstIs
<1>6. Before(b, n + 1) = l
  <2>1. PICK w : w = CRLF ++ z  OBVIOUS
  <2>2. b = l ++ w /\ w \in Text  BY <1>1, <1>3, <2>1, Ends, CatAssociates, CatType
  <2>3. SubSeq(b, 1, Len(l)) = l  BY <2>2, CatTaken
  <2>4. (n + 1) - 1 = Len(l)  BY <1>1, <1>2
  <2>. QED  BY <2>3, <2>4 DEF Before
<1>7. After(b, (n + 1) + 1) = z
  <2>1. SubSeq(b, Len(p) + 1, Len(b)) = z  BY <1>2, <1>3, CatDropped
  <2>2. ((n + 1) + 1) + 1 = Len(p) + 1  BY <1>2
  <2>. QED  BY <2>1, <2>2 DEF After
<1>8. n + 1 <= Len(b)  BY <1>2, <1>4
<1>. QED  BY <1>1, <1>3, <1>4, <1>5, <1>6, <1>7, <1>8

LEMMA LineMissing ==
  ASSUME NEW b \in Text, NEW k \in Text, NEW l \in Text, NEW t \in Text, Plain(l),
         b ++ k = (l ++ CRLF) ++ t, Len(b) < Len(l) + 2
  PROVE  ~(findCRLF(b) <= Len(b))
<1>1. PICK n, p : n = Len(l) /\ p = l ++ CRLF  OBVIOUS
<1>2. /\ p \in Text /\ Len(p) = n + 2 /\ n \in Nat /\ Len(b) \in Nat
      /\ \A i \in 1 .. n : p[i] = l[i]
  <2>1. p \in Text /\ Len(p) = n + 2  BY <1>1, LineType
  <2>2. n \in Nat /\ Len(b) \in Nat  BY <1>1, LenText
  <2>3. \A i \in 1 .. n : p[i] = l[i]  BY <1>1, Ends, CatAt
  <2>. QED  BY <2>1, <2>2, <2>3
<1>3. PICK z \in Text : p = b ++ z
  <2>1. p ++ t = b ++ k /\ Len(b) <= Len(p)  BY <1>1, <1>2
  <2>. QED  BY <1>2, <2>1, CatSplits
<1>4. \A i \in 1 .. Len(b) : b[i] = p[i]  BY <1>3, CatAt
<1> DEFINE hits == {i \in 1 .. Len(b) - 1 : b[i] = "CR" /\ b[i + 1] = "LF"}
<1>5. hits = {}
  <2>. SUFFICES ASSUME NEW i \in 1 .. Len(b) - 1 PROVE b[i] # "CR"  OBVIOUS
  <2>1. i \in 1 .. n /\ i \in 1 .. Len(b)  BY <1>1, <1>2
  <2>2. b[i] = l[i]  BY <1>2, <1>4, <2>1
  <2>. QED  BY <1>1, <2>1, <2>2 DEF Plain
<1>6. findCRLF(b) = Len(b) + 1
  <2>1. findCRLF(b) = FirstOf(hits, Len(b))  BY DEF findCRLF
  <2>. HIDE DEF hits
  <2>2. FirstOf({}, Len(b)) = Len(b) + 1  BY FirstNone
  <2>. QED  BY <1>5, <2>1, <2>2
<1>. QED  BY <1>2, <1>6
-----------------------------------------------------------------------------
(***************************************************************************)
(* Requests as text.                                                       *)
(***************************************************************************)
LEMMA RequestParts ==
  ASSUME NEW r \in Request
  PROVE  /\ r.method \in Word /\ r.version \in Word
         /\ r.path \in Seq(Word \ {"?"}) /\ r.query \in Seq(Word)
         /\ r.headers \in Seq((Word \ {":"}) \X Word) /\ r.body \in Text
BY HttpAssumption DEF RequestType

LEMMA WordIsPlain ==
  ASSUME NEW w \in Word PROVE w \in Token /\ w # " " /\ w # "CR" /\ w # "LF"
BY HttpAssumption DEF Separators, Token

LEMMA WordsText ==
  ASSUME NEW s \in Seq(Word)
  PROVE  s \in Text /\ \A i \in 1 .. Len(s) : s[i] \in Word
<1>1. Word \subseteq Token  BY DEF Token
<1>2. s \in Seq(Token)  BY <1>1
<1>. QED  BY <1>2 DEF Text

FirstWords(r) == <<r.method, " ">> \o r.path \o r.query \o <<" ", r.version>>

Measured(w, r, p, q) == w = FirstWords(r) /\ p = Len(r.path) /\ q = Len(r.query)

\* The words of a first line, each at its place.
WordsPlaced(w, r, p, q) ==
  /\ w \in Text /\ Len(w) = p + q + 4
  /\ w[1] = r.method /\ w[2] = " "
  /\ \A i \in 1 .. p : w[2 + i] = r.path[i]
  /\ \A i \in 1 .. q : w[2 + p + i] = r.query[i]
  /\ w[p + q + 3] = " " /\ w[p + q + 4] = r.version

LEMMA FirstWordsAt ==
  ASSUME NEW r \in Request, NEW p \in Nat, NEW q \in Nat, NEW w, Measured(w, r, p, q)
  PROVE  WordsPlaced(w, r, p, q)
<1>1. PICK a, b, c, d : a = <<r.method, " ">> /\ b = r.path /\ c = r.query /\ d = <<" ", r.version>>
  OBVIOUS
<1>2. /\ a \in Text /\ Len(a) = 2 /\ a[1] = r.method /\ a[2] = " "
      /\ d \in Text /\ Len(d) = 2 /\ d[1] = " " /\ d[2] = r.version
  <2>1. PICK m, v, s : m = r.method /\ v = r.version /\ s = " "  OBVIOUS
  <2>2. m \in Token /\ v \in Token  BY <2>1, RequestParts, WordIsPlain
  <2>3. s \in Token  BY <2>1 DEF Token, Separators
  <2>4. /\ <<m, s>> \in Seq(Token) /\ Len(<<m, s>>) = 2 /\ <<m, s>>[1] = m /\ <<m, s>>[2] = s
        /\ <<s, v>> \in Seq(Token) /\ Len(<<s, v>>) = 2 /\ <<s, v>>[1] = s /\ <<s, v>>[2] = v
    BY <2>2, <2>3
  <2>. QED  BY <1>1, <2>1, <2>4 DEF Text
<1>3. b \in Text /\ c \in Text /\ Len(b) = p /\ Len(c) = q
  <2>1. r.path \in Seq(Word) /\ r.query \in Seq(Word)  BY RequestParts
  <2>2. r.path \in Text /\ r.query \in Text  BY <2>1, WordsText
  <2>. QED  BY <1>1, <2>2 DEF Measured
<1> DEFINE x == a ++ b
           y == x ++ c
           z == y ++ d
<1>4. /\ x \in Text /\ Len(x) = 2 + p
      /\ (\A i \in 1 .. 2 : x[i] = a[i]) /\ \A i \in 1 .. p : x[2 + i] = b[i]
  <2>1. x \in Text /\ Len(x) = Len(a) + Len(b)  BY <1>2, <1>3, CatType
  <2>2. /\ \A i \in 1 .. Len(a) : x[i] = a[i]
        /\ \A i \in 1 .. Len(b) : x[Len(a) + i] = b[i]
    BY <1>2, <1>3, CatAt
  <2>. HIDE DEF x
  <2>. QED  BY <1>2, <1>3, <2>1, <2>2
<1>. HIDE DEF x
<1>5. /\ y \in Text /\ Len(y) = 2 + p + q
      /\ (\A i \in 1 .. 2 + p : y[i] = x[i]) /\ \A i \in 1 .. q : y[2 + p + i] = c[i]
  <2>1. y \in Text /\ Len(y) = Len(x) + Len(c)  BY <1>3, <1>4, CatType
  <2>2. /\ \A i \in 1 .. Len(x) : y[i] = x[i]
        /\ \A i \in 1 .. Len(c) : y[Len(x) + i] = c[i]
    BY <1>3, <1>4, CatAt
  <2>. HIDE DEF y
  <2>. QED  BY <1>3, <1>4, <2>1, <2>2
<1>. HIDE DEF y
<1>6. /\ z \in Text /\ Len(z) = 2 + p + q + 2
      /\ (\A i \in 1 .. 2 + p + q : z[i] = y[i]) /\ \A i \in 1 .. 2 : z[2 + p + q + i] = d[i]
  <2>1. z \in Text /\ Len(z) = Len(y) + Len(d)  BY <1>2, <1>5, CatType
  <2>2. /\ \A i \in 1 .. Len(y) : z[i] = y[i]
        /\ \A i \in 1 .. Len(d) : z[Len(y) + i] = d[i]
    BY <1>2, <1>5, CatAt
  <2>. HIDE DEF z
  <2>. QED  BY <1>2, <1>5, <2>1, <2>2
<1>. HIDE DEF z
<1>7. z = w  BY <1>1 DEF x, y, z, FirstWords, ++, Measured
<1>8. w[1] = r.method /\ w[2] = " "
  <2>1. \A i \in 1 .. 2 : i \in 1 .. 2 + p /\ i \in 1 .. 2 + p + q  OBVIOUS
  <2>2. \A i \in 1 .. 2 : w[i] = a[i]  BY <1>4, <1>5, <1>6, <1>7, <2>1
  <2>3. w[1] = a[1] /\ w[2] = a[2]  BY <2>2
  <2>. QED  BY <1>2, <2>3, Zenon
<1>9. \A i \in 1 .. p : w[2 + i] = r.path[i]
  <2>1. \A i \in 1 .. p : 2 + i \in 1 .. 2 + p /\ 2 + i \in 1 .. 2 + p + q  OBVIOUS
  <2>2. \A i \in 1 .. p : w[2 + i] = b[i]  BY <1>4, <1>5, <1>6, <1>7, <2>1
  <2>. QED  BY <1>1, <2>2
<1>10. \A i \in 1 .. q : w[2 + p + i] = r.query[i]
  <2>1. \A i \in 1 .. q : 2 + p + i \in 1 .. 2 + p + q  OBVIOUS
  <2>2. \A i \in 1 .. q : w[2 + p + i] = c[i]  BY <1>5, <1>6, <1>7, <2>1
  <2>. QED  BY <1>1, <2>2
<1>11. w[p + q + 3] = " " /\ w[p + q + 4] = r.version
  <2>1. 2 + p + q + 1 = p + q + 3 /\ 2 + p + q + 2 = p + q + 4  OBVIOUS
  <2>2. w[2 + p + q + 1] = d[1] /\ w[2 + p + q + 2] = d[2]  BY <1>6, <1>7
  <2>. QED  BY <1>2, <2>1, <2>2
<1>12. w \in Text  BY <1>6, <1>7
<1>13. Len(w) = p + q + 4
  <2>1. Len(w) = 2 + p + q + 2  BY <1>6, <1>7
  <2>. QED  BY <2>1
<1>. QED  BY <1>8, <1>9, <1>10, <1>11, <1>12, <1>13, Zenon DEF WordsPlaced
\* A part of a text, recognised by its elements.
LEMMA PartIs ==
  ASSUME NEW w \in Text, NEW s \in Text, NEW m \in Nat, NEW n \in Nat, Len(s) = n,
         m + n <= Len(w), \A i \in 1 .. n : w[m + i] = s[i]
  PROVE  SubSeq(w, m + 1, m + n) = s
<1>1. w \in Seq(Token) /\ s \in Seq(Token) /\ Len(w) \in Nat  BY DEF Text
<1> DEFINE z == SubSeq(w, m + 1, m + n)
<1>2. m + 1 \in Int /\ m + n \in Int /\ \A i \in m + 1 .. m + n : w[i] \in Token  BY <1>1
<1>3. /\ z \in Seq(Token) /\ Len(z) = IF m + 1 <= m + n THEN (m + n) - (m + 1) + 1 ELSE 0
      /\ \A i \in 1 .. (m + n) - (m + 1) + 1 : z[i] = w[m + 1 + i - 1]
  BY <1>2, SubSeqProperties
<1>. HIDE DEF z
<1>4. Len(z) = n  BY <1>3
<1>5. ASSUME NEW i \in 1 .. n PROVE z[i] = s[i]
  <2>1. i \in 1 .. (m + n) - (m + 1) + 1 /\ m + 1 + i - 1 = m + i  OBVIOUS
  <2>2. z[i] = w[m + 1 + i - 1]  BY <1>3, <2>1
  <2>3. w[m + i] = s[i]  OBVIOUS
  <2>. QED  BY <2>1, <2>2, <2>3
<1>6. z \in Text  BY <1>3 DEF Text
<1>7. \A i \in 1 .. Len(z) : z[i] = s[i]  BY <1>4, <1>5
<1>8. z = s  BY <1>4, <1>6, <1>7, TextEqual
<1>. QED  BY <1>8 DEF z

LEMMA Measure ==
  ASSUME NEW r \in Request
  PROVE  \E p, q \in Nat : Measured(FirstWords(r), r, p, q)
<1>1. r.path \in Seq(Word \ {"?"}) /\ r.query \in Seq(Word)  BY RequestParts
<1>2. Len(r.path) \in Nat /\ Len(r.query) \in Nat  BY <1>1
<1>. QED  BY <1>2 DEF Measured

\* Two of the words of a first line are blanks; the others have no blank, CR or LF in them.
LEMMA FirstWordsBlanks ==
  ASSUME NEW r \in Request, NEW p \in Nat, NEW q \in Nat, NEW w, Measured(w, r, p, q),
         NEW i \in 1 .. p + q + 4
  PROVE  IF i = 2 \/ i = p + q + 3 THEN w[i] = " " ELSE w[i] \in Word
<1>1. /\ w[1] = r.method /\ w[2] = " "
      /\ \A j \in 1 .. p : w[2 + j] = r.path[j]
      /\ \A j \in 1 .. q : w[2 + p + j] = r.query[j]
      /\ w[p + q + 3] = " " /\ w[p + q + 4] = r.version
  <2>1. WordsPlaced(w, r, p, q)  BY FirstWordsAt
  <2>. QED  BY <2>1 DEF WordsPlaced
<1>2. /\ r.method \in Word /\ r.version \in Word
      /\ \A j \in 1 .. p : r.path[j] \in Word
      /\ \A j \in 1 .. q : r.query[j] \in Word
  <2>1. /\ r.method \in Word /\ r.version \in Word
        /\ r.path \in Seq(Word \ {"?"}) /\ r.query \in Seq(Word)
    BY RequestParts
  <2>. QED  BY <2>1 DEF Measured
<1>3. CASE i = 1
  <2>1. i # 2 /\ i # p + q + 3  BY <1>3
  <2>2. w[i] \in Word  BY <1>1, <1>2, <1>3
  <2>. QED  BY <2>1, <2>2
<1>4. CASE i = 2 \/ i = p + q + 3
  <2>1. w[i] = " "  BY <1>1, <1>4
  <2>. QED  BY <1>4, <2>1
<1>5. CASE i \in 3 .. p + 2
  <2>1. i - 2 \in 1 .. p /\ 2 + (i - 2) = i  BY <1>5
  <2>2. w[2 + (i - 2)] = r.path[i - 2] /\ r.path[i - 2] \in Word  BY <1>1, <1>2, <2>1
  <2>3. i # 2 /\ i # p + q + 3  BY <1>5
  <2>4. w[i] \in Word  BY <2>1, <2>2
  <2>. QED  BY <2>3, <2>4
<1>6. CASE i \in p + 3 .. p + q + 2
  <2>1. i - (2 + p) \in 1 .. q /\ 2 + p + (i - (2 + p)) = i  BY <1>6
  <2>2. w[2 + p + (i - (2 + p))] = r.query[i - (2 + p)] /\ r.query[i - (2 + p)] \in Word
    BY <1>1, <1>2, <2>1
  <2>3. i # 2 /\ i # p + q + 3  BY <1>6
  <2>4. w[i] \in Word  BY <2>1, <2>2
  <2>. QED  BY <2>3, <2>4
<1>7. CASE i = p + q + 4
  <2>1. i # 2 /\ i # p + q + 3  BY <1>7
  <2>2. w[i] \in Word  BY <1>1, <1>2, <1>7
  <2>. QED  BY <2>1, <2>2
<1>8. i = 1 \/ i = 2 \/ i \in 3 .. p + 2 \/ i \in p + 3 .. p + q + 2 \/ i = p + q + 3 \/ i = p + q + 4
  OBVIOUS
<1>. QED  BY <1>3, <1>4, <1>5, <1>6, <1>7, <1>8

\* processRequestLine takes the first line of a request if the method and the version are
\* ones that it knows.
LEMMA FirstWordsProcessed ==
  ASSUME NEW r \in Request, NEW p \in Nat, NEW q \in Nat, NEW w, Measured(w, r, p, q)
  PROVE  Plain(w) /\ (processRequestLine(w) <=> WellFormed(r))
<1>1. /\ w \in Text /\ Len(w) = p + q + 4
      /\ w[1] = r.method /\ w[p + q + 4] = r.version
  <2>1. WordsPlaced(w, r, p, q)  BY FirstWordsAt
  <2>. QED  BY <2>1 DEF WordsPlaced
<1>2. \A i \in 1 .. p + q + 4 : IF i = 2 \/ i = p + q + 3 THEN w[i] = " " ELSE w[i] \in Word
  BY FirstWordsBlanks
<1>3. ASSUME NEW i \in 1 .. p + q + 4
      PROVE  w[i] # "CR" /\ (w[i] = " " <=> i = 2 \/ i = p + q + 3)
  <2>1. CASE i = 2 \/ i = p + q + 3
    <3>1. w[i] = " "  BY <1>2, <2>1
    <3>. QED  BY <2>1, <3>1
  <2>2. CASE ~(i = 2 \/ i = p + q + 3)
    <3>1. w[i] \in Word  BY <1>2, <2>2
    <3>2. w[i] # "CR" /\ w[i] # " "  BY <3>1, WordIsPlain
    <3>. QED  BY <2>2, <3>2
  <2>. QED  BY <2>1, <2>2
<1>4. Plain(w)  BY <1>1, <1>3 DEF Plain
<1>5. {i \in 1 .. p + q + 4 : w[i] = " "} = {2, p + q + 3}
  <2>1. 2 \in 1 .. p + q + 4 /\ p + q + 3 \in 1 .. p + q + 4  OBVIOUS
  <2>. QED  BY <1>3, <2>1
<1>6. p + q + 4 >= 4 /\ (p + q + 4) - 1 = p + q + 3  OBVIOUS
<1>7. processRequestLine(w) <=> w[1] \in Methods /\ w[p + q + 4] \in Versions
  BY <1>1, <1>5, <1>6 DEF processRequestLine
<1>. QED  BY <1>1, <1>4, <1>7 DEF WellFormed

LEMMA FirstWordsTarget ==
  ASSUME NEW r \in Request, NEW p \in Nat, NEW q \in Nat, NEW w, Measured(w, r, p, q)
  PROVE  pathOf(w) = r.path /\ queryOf(w) = r.query
<1>1. /\ w \in Text /\ Len(w) = p + q + 4
      /\ \A i \in 1 .. p : w[2 + i] = r.path[i]
      /\ \A i \in 1 .. q : w[2 + p + i] = r.query[i]
  <2>1. WordsPlaced(w, r, p, q)  BY FirstWordsAt
  <2>. QED  BY <2>1 DEF WordsPlaced
<1>2. /\ r.path \in Text /\ r.query \in Text /\ Len(r.path) = p /\ Len(r.query) = q
      /\ \A i \in 1 .. p : r.path[i] # "?"
      /\ q # 0 => r.query[1] = "?"
  <2>1. r.path \in Seq(Word \ {"?"}) /\ r.query \in Seq(Word)  BY RequestParts
  <2>2. r.path \in Seq(Word)  BY <2>1
  <2>3. Len(r.path) = p /\ Len(r.query) = q  BY DEF Measured
  <2>4. r.query # <<>> => r.query[1] = "?"  BY HttpAssumption DEF RequestType
  <2>5. q # 0 => r.query # <<>>  BY <2>3
  <2>6. \A i \in 1 .. p : r.path[i] # "?"  BY <2>1, <2>3
  <2>7. r.path \in Text /\ r.query \in Text  BY <2>1, <2>2, WordsText
  <2>. QED  BY <2>3, <2>4, <2>5, <2>6, <2>7
<1> DEFINE hits == {i \in 3 .. p + q + 2 : w[i] = "?"}
<1>3. FirstOf(hits, p + q + 2) = p + 3
  <2>1. \A i \in 3 .. p + 2 : w[i] # "?"
    <3>. SUFFICES ASSUME NEW i \in 3 .. p + 2 PROVE w[i] # "?"  OBVIOUS
    <3>1. i - 2 \in 1 .. p /\ 2 + (i - 2) = i  OBVIOUS
    <3>2. w[2 + (i - 2)] = r.path[i - 2] /\ r.path[i - 2] # "?"  BY <1>1, <1>2, <3>1
    <3>. QED  BY <3>1, <3>2
  <2>2. CASE q = 0
    <3>1. hits = {}
      <4>1. \A i \in 3 .. p + q + 2 : i \in 3 .. p + 2  BY <2>2
      <4>. QED  BY <2>1, <4>1
    <3>2. FirstOf({}, p + q + 2) = (p + q + 2) + 1  BY FirstNone
    <3>3. (p + q + 2) + 1 = p + 3  BY <2>2
    <3>. QED  BY <3>1, <3>2, <3>3
  <2>3. CASE q # 0
    <3>1. p + 3 \in hits
      <4>1. 1 \in 1 .. q /\ 2 + p + 1 = p + 3 /\ p + 3 \in 3 .. p + q + 2  BY <2>3
      <4>2. w[2 + p + 1] = r.query[1]  BY <1>1, <4>1
      <4>3. w[p + 3] = "?"  BY <1>2, <2>3, <4>1, <4>2
      <4>. QED  BY <4>1, <4>3
    <3>2. \A j \in hits : p + 3 <= j
      <4>. SUFFICES ASSUME NEW j \in hits, ~(p + 3 <= j) PROVE FALSE  OBVIOUS
      <4>1. j \in 3 .. p + 2 /\ w[j] = "?"  OBVIOUS
      <4>. QED  BY <2>1, <4>1
    <3>3. hits \in SUBSET (1 .. p + q + 2) /\ p + q + 2 \in Nat  OBVIOUS
    <3>. HIDE DEF hits
    <3>. QED  BY <3>1, <3>2, <3>3, FirstIs
  <2>. QED  BY <2>2, <2>3
<1>4. (p + q + 4) - 2 = p + q + 2 /\ (p + 3) - 1 = 2 + p /\ 3 = 2 + 1 /\ 3 + p = (2 + p) + 1
      /\ p + q + 2 = (2 + p) + q
  OBVIOUS
<1>5. pathOf(w) = r.path
  <2>1. SubSeq(w, 2 + 1, 2 + p) = r.path
    <3>1. 2 \in Nat /\ 2 + p <= Len(w)  BY <1>1
    <3>2. PICK s, m : s = r.path /\ m = 2  OBVIOUS
    <3>3. s \in Text /\ Len(s) = p /\ m \in Nat /\ m + p <= Len(w) /\ \A i \in 1 .. p : w[m + i] = s[i]
      BY <1>1, <1>2, <3>1, <3>2
    <3>4. w \in Text  BY <1>1
    <3>5. SubSeq(w, m + 1, m + p) = s  BY <3>3, <3>4, PartIs
    <3>. QED  BY <3>2, <3>5
  <2>2. pathOf(w) = SubSeq(w, 3, FirstOf(hits, p + q + 2) - 1)  BY <1>1, <1>4 DEF pathOf
  <2>3. pathOf(w) = SubSeq(w, 3, (p + 3) - 1)  BY <1>3, <2>2
  <2>. QED  BY <1>4, <2>1, <2>3
<1>6. queryOf(w) = r.query
  <2>1. SubSeq(w, (2 + p) + 1, (2 + p) + q) = r.query
    <3>1. 2 + p \in Nat /\ (2 + p) + q <= Len(w)  BY <1>1
    <3>2. PICK s, m : s = r.query /\ m = 2 + p  OBVIOUS
    <3>3. s \in Text /\ Len(s) = q /\ m \in Nat /\ m + q <= Len(w) /\ \A i \in 1 .. q : w[m + i] = s[i]
      BY <1>1, <1>2, <3>1, <3>2
    <3>4. w \in Text  BY <1>1
    <3>5. SubSeq(w, m + 1, m + q) = s  BY <3>3, <3>4, PartIs
    <3>. QED  BY <3>2, <3>5
  <2>2. queryOf(w) = SubSeq(w, 3 + p, p + q + 2)  BY <1>1, <1>2, <1>4, <1>5 DEF queryOf
  <2>. QED  BY <1>4, <2>1, <2>2
<1>. QED  BY <1>5, <1>6
-----------------------------------------------------------------------------
\* The texts at m + 1, .., n of a list, one after another.
Between(list, m, n) == FlattenSeq(SubSeq(list, m + 1, n))

LEMMA PartType ==
  ASSUME NEW S, NEW p \in Seq(S), NEW m \in Nat, NEW n \in 0 .. Len(p)
  PROVE  SubSeq(p, m + 1, n) \in Seq(S)
<1>1. \A i \in m + 1 .. n : p[i] \in S  OBVIOUS
<1>2. m + 1 \in Int /\ n \in Int  OBVIOUS
<1>. QED  BY <1>1, <1>2, SubSeqProperties

LEMMA BetweenType ==
  ASSUME NEW list \in Seq(Text), NEW m \in Nat, NEW n \in 0 .. Len(list)
  PROVE  Between(list, m, n) \in Text
<1>1. PICK s : s = SubSeq(list, m + 1, n)  OBVIOUS
<1>2. s \in Seq(Text)  BY <1>1, PartType
<1>3. s \in Seq(Seq(Token))  BY <1>2 DEF Text
<1>4. FlattenSeq(s) \in Seq(Token)  BY <1>3, FlattenType
<1>. QED  BY <1>1, <1>4 DEF Between, Text

LEMMA BetweenEmpty ==
  ASSUME NEW list \in Seq(Text), NEW n \in 0 .. Len(list)
  PROVE  Between(list, n, n) = <<>>
<1>1. SubSeq(list, n + 1, n) = <<>>
  <2>1. PICK s : s = SubSeq(list, n + 1, n)  OBVIOUS
  <2>2. s \in Seq(Text)  BY <2>1, PartType
  <2>3. Len(s) = 0
    <3>1. \A i \in n + 1 .. n : list[i] \in Text  OBVIOUS
    <3>2. n + 1 \in Int /\ n \in Int /\ ~(n + 1 <= n)  OBVIOUS
    <3>. QED  BY <2>1, <3>1, <3>2, SubSeqProperties
  <2>. QED  BY <2>1, <2>2, <2>3
<1>. QED  BY <1>1, FlattenEmpty DEF Between

LEMMA BetweenCons ==
  ASSUME NEW list \in Seq(Text), NEW n \in 0 .. Len(list), NEW m \in Nat, m < n
  PROVE  Between(list, m, n) = list[m + 1] ++ Between(list, m + 1, n)
<1>1. PICK s, x : s = SubSeq(list, (m + 1) + 1, n) /\ x = list[m + 1]  OBVIOUS
<1>2. SubSeq(list, m + 1, n) = <<x>> \o s
  <2>1. m + 1 \in 1 .. Len(list) /\ n \in m + 1 .. Len(list)  OBVIOUS
  <2>. QED  BY <1>1, <2>1, SubSeqRecursiveFirst
<1>3. s \in Seq(Text) /\ x \in Text
  <2>1. m + 1 \in Nat /\ m + 1 \in 1 .. Len(list)  OBVIOUS
  <2>. QED  BY <1>1, <2>1, PartType
<1>4. s \in Seq(Seq(Token)) /\ x \in Seq(Token)  BY <1>3 DEF Text
<1>5. FlattenSeq(<<x>> \o s) = x \o FlattenSeq(s)  BY <1>4, FlattenCons
<1>. QED  BY <1>1, <1>2, <1>5 DEF Between, ++

LEMMA BetweenAppend ==
  ASSUME NEW list \in Seq(Text), NEW n \in Nat, n < Len(list), NEW m \in 0 .. n
  PROVE  Between(list, m, n + 1) = Between(list, m, n) ++ list[n + 1]
<1>1. PICK s, x : s = SubSeq(list, m + 1, n) /\ x = list[n + 1]  OBVIOUS
<1>2. SubSeq(list, m + 1, n + 1) = s \o <<x>>
  <2>1. m + 1 \in 1 .. Len(list) /\ n + 1 \in m + 1 .. Len(list) /\ (n + 1) - 1 = n  OBVIOUS
  <2>2. SubSeq(list, m + 1, n + 1) = SubSeq(list, m + 1, (n + 1) - 1) \o <<list[n + 1]>>
    BY <2>1, SubSeqRecursiveSecond
  <2>. QED  BY <1>1, <2>1, <2>2
<1>3. s \in Seq(Text) /\ x \in Text
  <2>1. n + 1 \in 1 .. Len(list) /\ n \in 0 .. Len(list) /\ m \in Nat  OBVIOUS
  <2>. QED  BY <1>1, <2>1, PartType
<1>4. s \in Seq(Seq(Token)) /\ x \in Seq(Token)  BY <1>3 DEF Text
<1>5. s \o <<x>> = Append(s, x)  BY <1>3
<1>6. FlattenSeq(Append(s, x)) = FlattenSeq(s) \o x  BY <1>4, FlattenAppend
<1>. QED  BY <1>1, <1>2, <1>5, <1>6 DEF Between, ++

LEMMA BetweenAll ==
  ASSUME NEW list \in Seq(Text) PROVE Between(list, 0, Len(list)) = FlattenSeq(list)
<1>1. SubSeq(list, 1, Len(list)) = list  BY SubSeqFull
<1>2. SubSeq(list, 0 + 1, Len(list)) = list
  <2>1. 0 + 1 = 1  OBVIOUS
  <2>. QED  BY <1>1, <2>1, Zenon
<1>. QED  BY <1>2, Zenon DEF Between
-----------------------------------------------------------------------------
LEMMA OneElement ==
  ASSUME NEW S, NEW p \in Seq(S), NEW i \in 1 .. Len(p) PROVE SubSeq(p, i, i) = <<p[i]>>
<1>1. PICK z, x : z = SubSeq(p, i, i) /\ x = p[i]  OBVIOUS
<1>2. x \in S /\ i \in Int /\ \A j \in i .. i : p[j] \in S  BY <1>1
<1>3. z \in Seq(S) /\ Len(z) = 1 /\ z[1] = x
  <2>1. /\ SubSeq(p, i, i) \in Seq(S)
        /\ Len(SubSeq(p, i, i)) = IF i <= i THEN i - i + 1 ELSE 0
        /\ \A j \in 1 .. i - i + 1 : SubSeq(p, i, i)[j] = p[i + j - 1]
    BY <1>2, SubSeqProperties
  <2>2. i <= i /\ i - i + 1 = 1 /\ 1 \in 1 .. i - i + 1 /\ i + 1 - 1 = i  OBVIOUS
  <2>3. SubSeq(p, i, i)[1] = p[i + 1 - 1]  BY <2>1, <2>2
  <2>. QED  BY <1>1, <2>1, <2>2, <2>3
<1>4. z = <<x>>
  <2>1. <<x>> \in Seq(S) /\ Len(<<x>>) = 1 /\ <<x>>[1] = x  BY <1>2
  <2>2. \A j \in 1 .. 1 : j = 1  OBVIOUS
  <2>. QED  BY <1>3, <2>1, <2>2
<1>. QED  BY <1>1, <1>4

\* A header without its end of line.
FieldWords(h) == <<h[1], ":", " ", h[2]>>
FieldOf(w, h) == w = FieldWords(h)
Field == (Word \ {":"}) \X Word

LEMMA FieldWordsAt ==
  ASSUME NEW h \in Field, NEW w, FieldOf(w, h)
  PROVE  /\ w \in Text /\ Len(w) = 4
         /\ w[1] = h[1] /\ w[2] = ":" /\ w[3] = " " /\ w[4] = h[2]
<1>1. PICK f, c, s, v : f = h[1] /\ c = ":" /\ s = " " /\ v = h[2]  OBVIOUS
<1>2. f \in Token /\ v \in Token
  <2>1. f \in Word /\ v \in Word  BY <1>1 DEF Field
  <2>. QED  BY <2>1, WordIsPlain
<1>3. c \in Token /\ s \in Token  BY <1>1 DEF Token, Separators
<1>4. w = <<f, c, s, v>>  BY <1>1 DEF FieldWords, FieldOf
<1>5. /\ w \in Seq(Token) /\ Len(w) = 4
      /\ w[1] = f /\ w[2] = c /\ w[3] = s /\ w[4] = v
  BY <1>2, <1>3, <1>4
<1>. QED  BY <1>1, <1>5, Zenon DEF Text

LEMMA FieldIsPlain ==
  ASSUME NEW h \in Field
  PROVE  h[1] \in Word /\ h[2] \in Word /\ h[1] # ":"
BY DEF Field

\* A header is no request line: its second word is no blank.
LEMMA FieldWordsPlain ==
  ASSUME NEW h \in Field, NEW w, FieldOf(w, h)
  PROVE  Plain(w) /\ ~processRequestLine(w)
<1>1. Len(w) = 4 /\ w[1] = h[1] /\ w[2] = ":" /\ w[3] = " " /\ w[4] = h[2]  BY FieldWordsAt
<1>2. w[1] # "CR" /\ w[4] # "CR"
  <2>1. h[1] \in Word /\ h[2] \in Word  BY FieldIsPlain
  <2>2. h[1] # "CR" /\ h[2] # "CR"  BY <2>1, WordIsPlain
  <2>. QED  BY <1>1, <2>2
<1>3. w[2] # "CR" /\ w[3] # "CR" /\ w[2] # " "  BY <1>1
<1>4. Plain(w)
  <2>1. \A i \in 1 .. 4 : i = 1 \/ i = 2 \/ i = 3 \/ i = 4  OBVIOUS
  <2>. QED  BY <1>1, <1>2, <1>3, <2>1 DEF Plain
<1>5. ~processRequestLine(w)
  <2>1. 2 \notin {i \in 1 .. Len(w) : w[i] = " "}  BY <1>3
  <2>. QED  BY <2>1 DEF processRequestLine
<1>. QED  BY <1>4, <1>5

\* ParseHeader finds in it the field and the value.
LEMMA FieldWordsRead ==
  ASSUME NEW h \in Field, NEW w, FieldOf(w, h)
  PROVE  /\ find(w, ":") <= Len(w)
         /\ Before(w, find(w, ":")) = <<h[1]>>
         /\ Trim(After(w, find(w, ":"))) = <<h[2]>>
<1>1. w \in Text /\ Len(w) = 4 /\ w[1] = h[1] /\ w[2] = ":" /\ w[3] = " " /\ w[4] = h[2]
  BY FieldWordsAt
<1>2. h[1] \in Word /\ h[2] \in Word /\ h[1] # ":" /\ h[2] # " "
  BY FieldIsPlain, WordIsPlain
<1>3. w \in Seq(Token) /\ DOMAIN w = 1 .. 4
  <2>1. w \in Seq(Token)  BY <1>1 DEF Text
  <2>2. DOMAIN w = 1 .. Len(w)  BY <2>1
  <2>. QED  BY <1>1, <2>1, <2>2, Zenon
<1>4. find(w, ":") = 2
  <2> DEFINE hits == {i \in 1 .. 4 : w[i] = ":"}
  <2>1. find(w, ":") = FirstOf(hits, 4)  BY <1>1, <1>3, Zenon DEF find
  <2>2. 2 \in hits
    <3>1. 2 \in 1 .. 4  OBVIOUS
    <3>. QED  BY <1>1, <3>1, Zenon
  <2>3. \A j \in hits : 2 <= j
    <3>1. w[1] # ":"  BY <1>1, <1>2
    <3>2. \A j \in 1 .. 4 : j = 1 \/ 2 <= j  OBVIOUS
    <3>. QED  BY <3>1, <3>2, Zenon
  <2>4. hits \in SUBSET (1 .. 4) /\ 4 \in Nat  OBVIOUS
  <2>. HIDE DEF hits
  <2>. QED  BY <2>1, <2>2, <2>3, <2>4, FirstIs
<1>5. Before(w, 2) = <<h[1]>>
  <2>1. Len(w) = 4  BY <1>1
  <2>2. SubSeq(w, 1, 1) = <<w[1]>>
    <3>1. 1 \in 1 .. Len(w)  BY <2>1
    <3>. QED  BY <1>3, <3>1, OneElement
  <2>3. w[1] = h[1]  BY <1>1
  <2>4. 2 - 1 = 1  OBVIOUS
  <2>. QED  BY <2>2, <2>3, <2>4, Zenon DEF Before
<1>6. Trim(After(w, 2)) = <<h[2]>>
  <2>1. PICK s : s = SubSeq(w, 3, 4)  OBVIOUS
  <2>2. Len(w) = 4  BY <1>1
  <2>3. s \in Seq(Token) /\ Len(s) = 2 /\ s[1] = w[3] /\ s[2] = w[4]  BY <1>3, <2>1, <2>2
  <2>4. s[1] = " " /\ s[2] = h[2]  BY <1>1, <2>3, Zenon
  <2>5. DOMAIN s = 1 .. 2  BY <2>3
  <2>6. {i \in DOMAIN s : s[i] \notin Separators} = {2}
    <3>1. 2 \in 1 .. 2 /\ \A i \in 1 .. 2 : i = 1 \/ i = 2  OBVIOUS
    <3>2. s[1] \in Separators  BY <2>4 DEF Separators
    <3>3. s[2] \notin Separators  BY <1>2, <2>4, HttpAssumption
    <3>. QED  BY <2>5, <3>1, <3>2, <3>3, Zenon
  <2>7. /\ (CHOOSE i \in {2} : \A j \in {2} : i <= j) = 2
        /\ (CHOOSE i \in {2} : \A j \in {2} : j <= i) = 2
        /\ {2} # {}
    OBVIOUS
  <2>8. Trim(s) = SubSeq(s, 2, 2)
    <3> DEFINE words == {i \in DOMAIN s : s[i] \notin Separators}
    <3>1. Trim(s) = IF words = {} THEN <<>>
                    ELSE SubSeq(s, CHOOSE i \in words : \A j \in words : i <= j,
                                   CHOOSE i \in words : \A j \in words : j <= i)
      BY DEF Trim
    <3>2. words = {2}  BY <2>6
    <3>. HIDE DEF words
    <3>. QED  BY <2>7, <3>1, <3>2, Zenon
  <2>9. SubSeq(s, 2, 2) = <<s[2]>>
    <3>1. 2 \in 1 .. Len(s)  BY <2>3
    <3>. QED  BY <2>3, <3>1, OneElement
  <2>10. After(w, 2) = s
    <3>1. 2 + 1 = 3  OBVIOUS
    <3>. QED  BY <2>1, <2>2, <3>1, Zenon DEF After
  <2>. QED  BY <2>4, <2>8, <2>9, <2>10, Zenon
<1>7. 2 <= Len(w)
  <2>1. Len(w) = 4  BY <1>1
  <2>. QED  BY <2>1
<1>. QED  BY <1>4, <1>5, <1>6, <1>7, Zenon

\* The empty line has no colon and is no request line.
LEMMA EmptyLine ==
  /\ Plain(<<>>) /\ ~processRequestLine(<<>>) /\ ~(find(<<>>, ":") <= Len(<<>>))
<1>1. find(<<>>, ":") = FirstOf({}, 0)  BY DEF find
<1>2. FirstOf({}, 0) = 0 + 1  BY FirstNone
<1>3. Len(<<>>) = 0  OBVIOUS
<1>. QED  BY <1>1, <1>2, <1>3 DEF Plain, processRequestLine
-----------------------------------------------------------------------------
\* What is left of a request behind its first line and j of its headers.
HeaderTexts(r) == [i \in DOMAIN r.headers |-> HeaderLine(r.headers[i])]
Left(r, j) == Between(HeaderTexts(r), j, Len(r.headers)) ++ (CRLF ++ r.body)

LEMMA FieldLine ==
  ASSUME NEW h \in Field
  PROVE  /\ FieldWords(h) \in Text /\ HeaderLine(h) = FieldWords(h) ++ CRLF
         /\ HeaderLine(h) \in Text
<1>1. PICK w : FieldOf(w, h)  BY DEF FieldOf
<1>2. w \in Text  BY <1>1, FieldWordsAt
<1>3. w = FieldWords(h)  BY <1>1 DEF FieldOf
<1>4. w ++ CRLF \in Text  BY <1>2, LineType
<1>5. HeaderLine(h) = FieldWords(h) ++ CRLF  BY DEF HeaderLine, FieldWords, ++
<1>. QED  BY <1>2, <1>3, <1>4, <1>5

LEMMA HeaderTextsType ==
  ASSUME NEW r \in Request
  PROVE  /\ HeaderTexts(r) \in Seq(Text) /\ Len(HeaderTexts(r)) = Len(r.headers)
         /\ Len(r.headers) \in Nat
         /\ \A i \in 1 .. Len(r.headers) :
              r.headers[i] \in Field /\ HeaderTexts(r)[i] = FieldWords(r.headers[i]) ++ CRLF
<1>1. PICK hs, n : hs = r.headers /\ n = Len(hs)  OBVIOUS
<1>2. hs \in Seq(Field)  BY <1>1, RequestParts DEF Field
<1>3. DOMAIN hs = 1 .. n /\ n \in Nat /\ \A i \in 1 .. n : hs[i] \in Field  BY <1>1, <1>2
<1>4. PICK t : t = HeaderTexts(r)  OBVIOUS
<1>5. t = [i \in 1 .. n |-> HeaderLine(hs[i])]  BY <1>1, <1>3, <1>4, Zenon DEF HeaderTexts
<1>6. \A i \in 1 .. n : HeaderLine(hs[i]) \in Text /\ HeaderLine(hs[i]) = FieldWords(hs[i]) ++ CRLF
  BY <1>3, FieldLine
<1>7. t \in Seq(Text) /\ Len(t) = n /\ \A i \in 1 .. n : t[i] = HeaderLine(hs[i])
  <2>1. \A i \in 1 .. n : t[i] = HeaderLine(hs[i]) /\ t[i] \in Text  BY <1>5, <1>6
  <2>2. t \in [1 .. n -> Text]  BY <1>5, <1>6
  <2>. QED  BY <1>3, <2>1, <2>2
<1>8. \A i \in 1 .. n : t[i] = FieldWords(hs[i]) ++ CRLF  BY <1>6, <1>7, Zenon
<1>. QED  BY <1>1, <1>3, <1>4, <1>7, <1>8

LEMMA BodyText == ASSUME NEW r \in Request PROVE r.body \in Text /\ CRLF ++ r.body \in Text
<1>1. r.body \in Text  BY RequestParts
<1>2. PICK c : c = CRLF /\ c \in Text  BY Ends
<1>. QED  BY <1>1, <1>2, CatType

LEMMA LeftType ==
  ASSUME NEW r \in Request, NEW j \in 0 .. Len(r.headers) PROVE Left(r, j) \in Text
<1>1. PICK t, n : t = HeaderTexts(r) /\ n = Len(r.headers)  OBVIOUS
<1>2. t \in Seq(Text) /\ Len(t) = n /\ n \in Nat  BY <1>1, HeaderTextsType
<1>3. j \in Nat /\ n \in 0 .. Len(t)  BY <1>1, <1>2
<1>4. Between(t, j, n) \in Text  BY <1>2, <1>3, BetweenType
<1>5. CRLF ++ r.body \in Text  BY BodyText
<1>. QED  BY <1>1, <1>4, <1>5, CatType DEF Left

LEMMA LeftCons ==
  ASSUME NEW r \in Request, NEW j \in 0 .. Len(r.headers), j # Len(r.headers)
  PROVE  /\ j + 1 \in 0 .. Len(r.headers) /\ r.headers[j + 1] \in Field
         /\ Left(r, j) = (FieldWords(r.headers[j + 1]) ++ CRLF) ++ Left(r, j + 1)
<1>1. PICK t, n, x : t = HeaderTexts(r) /\ n = Len(r.headers) /\ x = t[j + 1]  OBVIOUS
<1>2. t \in Seq(Text) /\ Len(t) = n /\ n \in Nat  BY <1>1, HeaderTextsType
<1>3. j \in Nat /\ j + 1 \in Nat /\ n \in 0 .. Len(t) /\ j < n /\ j + 1 \in 1 .. n /\ j + 1 \in 0 .. n
  BY <1>1, <1>2
<1>4. r.headers[j + 1] \in Field /\ x = FieldWords(r.headers[j + 1]) ++ CRLF
  BY <1>1, <1>3, HeaderTextsType
<1>5. PICK u, e : u = Between(t, j + 1, n) /\ e = CRLF ++ r.body  OBVIOUS
<1>6. Between(t, j, n) = x ++ u  BY <1>1, <1>2, <1>3, <1>5, BetweenCons
<1>7. u \in Text /\ e \in Text  BY <1>2, <1>3, <1>5, BetweenType, BodyText
<1>8. x \in Text  BY <1>1, <1>2, <1>3
<1>9. (x ++ u) ++ e = x ++ (u ++ e)  BY <1>7, <1>8, CatAssociates
<1>. QED  BY <1>1, <1>3, <1>4, <1>5, <1>6, <1>9 DEF Left

LEMMA LeftEnd ==
  ASSUME NEW r \in Request PROVE Left(r, Len(r.headers)) = (<<>> ++ CRLF) ++ r.body
<1>1. PICK t, n, c, e : t = HeaderTexts(r) /\ n = Len(r.headers) /\ c = CRLF /\ e = <<>>  OBVIOUS
<1>2. t \in Seq(Text) /\ Len(t) = n /\ n \in Nat  BY <1>1, HeaderTextsType
<1>3. n \in 0 .. Len(t)  BY <1>2
<1>4. Between(t, n, n) = e  BY <1>1, <1>2, <1>3, BetweenEmpty
<1>5. c \in Text /\ c ++ r.body \in Text  BY <1>1, Ends, BodyText
<1>6. e ++ (c ++ r.body) = c ++ r.body /\ e ++ c = c  BY <1>1, <1>5, CatEmpty
<1>7. Left(r, n) = e ++ (c ++ r.body)  BY <1>1, <1>4 DEF Left
<1>. QED  BY <1>1, <1>6, <1>7

\* A request begins with its first line.
LEMMA EncodeIs ==
  ASSUME NEW r \in Request
  PROVE  /\ Encode(r) = (FirstWords(r) ++ CRLF) ++ Left(r, 0)
         /\ FirstLine(r) = FirstWords(r) ++ CRLF
         /\ FirstWords(r) \in Text /\ Encode(r) \in Text /\ FirstLine(r) \in Text
         /\ 0 \in 0 .. Len(r.headers)
<1>1. FirstWords(r) \in Text
  <2>1. PICK p \in Nat, q \in Nat : Measured(FirstWords(r), r, p, q)  BY Measure
  <2>. QED  BY <2>1, FirstWordsAt DEF WordsPlaced
<1>2. FirstLine(r) = FirstWords(r) ++ CRLF  BY DEF FirstLine, FirstWords, ++
<1>3. PICK f, t, n, c, b : /\ f = FirstLine(r) /\ t = HeaderTexts(r) /\ n = Len(r.headers)
                           /\ c = CRLF /\ b = r.body
  OBVIOUS
<1>4. f \in Text  BY <1>1, <1>2, <1>3, LineType
<1>5. t \in Seq(Text) /\ Len(t) = n /\ n \in Nat  BY <1>3, HeaderTextsType
<1>6. 0 \in 0 .. Len(r.headers)  BY <1>3, <1>5
<1>7. PICK h : h = Between(t, 0, n)  OBVIOUS
<1>8. HeaderLines(r) = h
  <2>1. FlattenSeq(t) = h  BY <1>5, <1>7, BetweenAll
  <2>. QED  BY <1>3, <2>1 DEF HeaderLines, HeaderTexts
<1>9. h \in Text
  <2>1. 0 \in Nat /\ n \in 0 .. Len(t)  BY <1>5
  <2>. QED  BY <1>5, <1>7, <2>1, BetweenType
<1>10. c \in Text /\ b \in Text /\ c ++ b \in Text  BY <1>3, Ends, BodyText
<1>11. Encode(r) = ((f ++ h) ++ c) ++ b  BY <1>3, <1>8 DEF Encode, ++
<1>12. ((f ++ h) ++ c) ++ b = f ++ (h ++ (c ++ b))
  <2>1. f ++ h \in Text  BY <1>4, <1>9, CatType
  <2>2. ((f ++ h) ++ c) ++ b = (f ++ h) ++ (c ++ b)  BY <1>10, <2>1, CatAssociates
  <2>3. (f ++ h) ++ (c ++ b) = f ++ (h ++ (c ++ b))  BY <1>4, <1>9, <1>10, CatAssociates
  <2>. QED  BY <2>2, <2>3
<1>13. Left(r, 0) = h ++ (c ++ b)  BY <1>3, <1>7 DEF Left
<1>14. Encode(r) = f ++ Left(r, 0)  BY <1>11, <1>12, <1>13
<1>15. Encode(r) \in Text
  <2>1. Left(r, 0) \in Text  BY <1>6, LeftType
  <2>. QED  BY <1>4, <1>14, <2>1, CatType
<1>. QED  BY <1>1, <1>2, <1>3, <1>4, <1>6, <1>14, <1>15

\* What a client sends, request after request.
Messages(q) == [i \in DOMAIN q |-> Encode(q[i])]

LEMMA MessagesType ==
  ASSUME NEW q \in Seq(Request)
  PROVE  /\ Messages(q) \in Seq(Text) /\ Len(Messages(q)) = Len(q) /\ Len(q) \in Nat
         /\ \A i \in 1 .. Len(q) : q[i] \in Request /\ Messages(q)[i] = Encode(q[i])
<1>1. PICK n : n = Len(q)  OBVIOUS
<1>2. DOMAIN q = 1 .. n /\ n \in Nat /\ \A i \in 1 .. n : q[i] \in Request  BY <1>1
<1>3. PICK t : t = Messages(q)  OBVIOUS
<1>4. t = [i \in 1 .. n |-> Encode(q[i])]  BY <1>2, <1>3, Zenon DEF Messages
<1>5. \A i \in 1 .. n : Encode(q[i]) \in Text  BY <1>2, EncodeIs
<1>6. \A i \in 1 .. n : t[i] = Encode(q[i])  BY <1>4
<1>7. t \in [1 .. n -> Text]  BY <1>4, <1>5
<1>8. t \in Seq(Text) /\ Len(t) = n  BY <1>2, <1>7
<1>. QED  BY <1>1, <1>2, <1>3, <1>6, <1>8
-----------------------------------------------------------------------------
\* What a client sends after k of its requests, when it has sent s.
Ahead(q, k, s) == Between(Messages(q), k, s)

LEMMA AheadType ==
  ASSUME NEW q \in Seq(Request), NEW s \in 0 .. Len(q), NEW k \in Nat
  PROVE  Ahead(q, k, s) \in Text
<1>1. PICK t : t = Messages(q)  OBVIOUS
<1>2. t \in Seq(Text) /\ Len(t) = Len(q)  BY <1>1, MessagesType
<1>. QED  BY <1>1, <1>2, BetweenType DEF Ahead

LEMMA AheadEmpty ==
  ASSUME NEW q \in Seq(Request), NEW s \in 0 .. Len(q) PROVE Ahead(q, s, s) = <<>>
<1>1. PICK t : t = Messages(q)  OBVIOUS
<1>2. t \in Seq(Text) /\ Len(t) = Len(q)  BY <1>1, MessagesType
<1>. QED  BY <1>1, <1>2, BetweenEmpty DEF Ahead

LEMMA AheadFirst ==
  ASSUME NEW q \in Seq(Request), NEW s \in 0 .. Len(q), NEW k \in Nat, k < s
  PROVE  /\ q[k + 1] \in Request /\ Ahead(q, k + 1, s) \in Text
         /\ Ahead(q, k, s) = Encode(q[k + 1]) ++ Ahead(q, k + 1, s)
<1>1. PICK t : t = Messages(q)  OBVIOUS
<1>2. t \in Seq(Text) /\ Len(t) = Len(q)  BY <1>1, MessagesType
<1>3. k + 1 \in 1 .. Len(q) /\ k + 1 \in Nat  OBVIOUS
<1>4. q[k + 1] \in Request /\ t[k + 1] = Encode(q[k + 1])  BY <1>1, <1>3, MessagesType
<1>5. Ahead(q, k + 1, s) \in Text  BY <1>3, AheadType
<1>6. Between(t, k, s) = t[k + 1] ++ Between(t, k + 1, s)  BY <1>2, BetweenCons
<1>. QED  BY <1>1, <1>4, <1>5, <1>6 DEF Ahead

LEMMA AheadLine ==
  ASSUME NEW q \in Seq(Request), NEW s \in 0 .. Len(q), NEW k \in Nat, k < s, NEW r, r = q[k + 1]
  PROVE  /\ r \in Request /\ FirstWords(r) \in Text
         /\ Left(r, 0) ++ Ahead(q, k + 1, s) \in Text
         /\ Ahead(q, k, s) = (FirstWords(r) ++ CRLF) ++ (Left(r, 0) ++ Ahead(q, k + 1, s))
<1>1. PICK u : u = Ahead(q, k + 1, s)  OBVIOUS
<1>2. r \in Request /\ u \in Text /\ Ahead(q, k, s) = Encode(r) ++ u  BY <1>1, AheadFirst
<1>3. PICK f : f = FirstWords(r) ++ CRLF  OBVIOUS
<1>4. f \in Text /\ FirstWords(r) \in Text /\ Encode(r) = f ++ Left(r, 0)
  BY <1>2, <1>3, EncodeIs
<1>5. Left(r, 0) \in Text
  <2>1. 0 \in 0 .. Len(r.headers)  BY <1>2, EncodeIs
  <2>. QED  BY <1>2, <2>1, LeftType
<1>6. (f ++ Left(r, 0)) ++ u = f ++ (Left(r, 0) ++ u)  BY <1>2, <1>4, <1>5, CatAssociates
<1>7. Left(r, 0) ++ u \in Text  BY <1>2, <1>5, CatType
<1>. QED  BY <1>1, <1>2, <1>3, <1>4, <1>6, <1>7

LEMMA AheadAppend ==
  ASSUME NEW q \in Seq(Request), NEW s \in Nat, s < Len(q), NEW k \in 0 .. s
  PROVE  /\ Encode(q[s + 1]) \in Text
         /\ Ahead(q, k, s + 1) = Ahead(q, k, s) ++ Encode(q[s + 1])
<1>1. PICK t : t = Messages(q)  OBVIOUS
<1>2. t \in Seq(Text) /\ Len(t) = Len(q)  BY <1>1, MessagesType
<1>3. s + 1 \in 1 .. Len(q)  OBVIOUS
<1>4. q[s + 1] \in Request /\ t[s + 1] = Encode(q[s + 1])  BY <1>1, <1>3, MessagesType
<1>5. Encode(q[s + 1]) \in Text  BY <1>4, EncodeIs
<1>6. Between(t, k, s + 1) = Between(t, k, s) ++ t[s + 1]  BY <1>2, BetweenAppend
<1>. QED  BY <1>1, <1>4, <1>5, <1>6 DEF Ahead

-----------------------------------------------------------------------------
\* The headers of the HttpRequest are the first j of a request.
Holds(headers, hs, j) ==
  /\ DOMAIN headers = {<<hs[i][1]>> : i \in 1 .. j}
  /\ \A i \in 1 .. j : headers[<<hs[i][1]>>] = <<hs[i][2]>>

LEMMA RequestHeaders ==
  ASSUME NEW r \in Request, NEW hs, hs = r.headers
  PROVE  /\ Len(hs) \in Nat /\ DOMAIN hs = 1 .. Len(hs)
         /\ \A i \in 1 .. Len(hs) : hs[i] \in Field
         /\ \A i, j \in 1 .. Len(hs) : hs[i][1] = hs[j][1] => i = j
<1>1. hs \in Seq(Field)  BY RequestParts DEF Field
<1>2. DOMAIN hs = 1 .. Len(hs)  BY <1>1
<1>3. \A i, j \in DOMAIN hs : hs[i][1] = hs[j][1] => i = j  BY HttpAssumption DEF RequestType
<1>4. Len(hs) \in Nat /\ \A i \in 1 .. Len(hs) : hs[i] \in Field  BY <1>1
<1>. QED  BY <1>2, <1>3, <1>4, Zenon

LEMMA Singles == \A a, b : (<<a>> = <<b>> <=> a = b) /\ <<a>> # <<>>
OBVIOUS

LEMMA HoldsNothing == ASSUME NEW hs PROVE Holds(<<>>, hs, 0)
<1>1. 1 .. 0 = {} /\ DOMAIN <<>> = {}  OBVIOUS
<1>. QED  BY <1>1 DEF Holds

LEMMA HoldsOneMore ==
  ASSUME NEW r \in Request, NEW j \in 0 .. Len(r.headers), j # Len(r.headers), NEW headers,
         Holds(headers, r.headers, j)
  PROVE  Holds(setHeader(headers, <<r.headers[j + 1][1]>>, <<r.headers[j + 1][2]>>), r.headers, j + 1)
<1>1. PICK hs, f, v : hs = r.headers /\ f = hs[j + 1][1] /\ v = hs[j + 1][2]  OBVIOUS
<1>2. Len(hs) \in Nat /\ \A i, k \in 1 .. Len(hs) : hs[i][1] = hs[k][1] => i = k
  BY <1>1, RequestHeaders
<1>3. j \in 0 .. Len(hs) /\ j # Len(hs)  BY <1>1
<1>4. \A i \in 1 .. j : hs[i][1] # f
  <2>1. j + 1 \in 1 .. Len(hs) /\ \A i \in 1 .. j : i \in 1 .. Len(hs) /\ i # j + 1  BY <1>2, <1>3
  <2>. QED  BY <1>1, <1>2, <2>1
<1>5. PICK new : new = setHeader(headers, <<f>>, <<v>>)  OBVIOUS
<1>6. /\ DOMAIN new = DOMAIN headers \cup {<<f>>}
      /\ \A g \in DOMAIN new : new[g] = IF g = <<f>> THEN <<v>> ELSE headers[g]
  BY <1>5 DEF setHeader
<1>7. /\ DOMAIN headers = {<<hs[i][1]>> : i \in 1 .. j}
      /\ \A i \in 1 .. j : headers[<<hs[i][1]>>] = <<hs[i][2]>>
  BY <1>1 DEF Holds
<1>8. \A i \in 1 .. j + 1 : i \in 1 .. j \/ i = j + 1  BY <1>3
<1>9. \A i \in 1 .. j : i \in 1 .. j + 1  BY <1>3
<1>10. j + 1 \in 1 .. j + 1  BY <1>3
<1>11. DOMAIN new = {<<hs[i][1]>> : i \in 1 .. j + 1}
  <2>1. ASSUME NEW g \in DOMAIN new PROVE \E i \in 1 .. j + 1 : g = <<hs[i][1]>>
    <3>1. CASE g = <<f>>  BY <1>1, <1>10, <3>1, Zenon
    <3>2. CASE g \in DOMAIN headers  BY <1>7, <1>9, <3>2
    <3>. QED  BY <1>6, <3>1, <3>2
  <2>2. ASSUME NEW i \in 1 .. j + 1 PROVE <<hs[i][1]>> \in DOMAIN new
    <3>1. CASE i \in 1 .. j
      <4>1. <<hs[i][1]>> \in DOMAIN headers  BY <1>7, <3>1
      <4>. QED  BY <1>6, <4>1
    <3>2. CASE i = j + 1
      <4>1. hs[i][1] = f  BY <1>1, <3>2
      <4>. QED  BY <1>6, <4>1
    <3>. QED  BY <1>8, <3>1, <3>2
  <2>. QED  BY <2>1, <2>2
<1>12. ASSUME NEW i \in 1 .. j + 1 PROVE new[<<hs[i][1]>>] = <<hs[i][2]>>
  <2>1. <<hs[i][1]>> \in DOMAIN new  BY <1>11
  <2>2. CASE i \in 1 .. j
    <3>1. hs[i][1] # f  BY <1>4, <2>2
    <3>2. <<hs[i][1]>> # <<f>>  BY <3>1, Singles
    <3>3. new[<<hs[i][1]>>] = headers[<<hs[i][1]>>]  BY <1>6, <2>1, <3>2
    <3>. QED  BY <1>7, <2>2, <3>3
  <2>3. CASE i = j + 1
    <3>1. hs[i][1] = f /\ hs[i][2] = v  BY <1>1, <2>3
    <3>. QED  BY <1>6, <2>1, <3>1
  <2>. QED  BY <1>8, <2>2, <2>3
<1>13. Holds(new, hs, j + 1)  BY <1>11, <1>12 DEF Holds
<1>. QED  BY <1>1, <1>5, <1>13, Zenon

\* What header returns, when all the headers have been parsed.
LEMMA HeaderHeld ==
  ASSUME NEW r \in Request, Holds(request_.headers, r.headers, Len(r.headers)), NEW f
  PROVE  \/ \E i \in 1 .. Len(r.headers) :
              r.headers[i][1] = f /\ header(f) = <<r.headers[i][2]>>
         \/ (\A i \in 1 .. Len(r.headers) : r.headers[i][1] # f) /\ header(f) = <<>>
<1>1. PICK hs, n, h : hs = r.headers /\ n = Len(hs) /\ h = request_.headers  OBVIOUS
<1>2. /\ DOMAIN h = {<<hs[i][1]>> : i \in 1 .. n}
      /\ \A i \in 1 .. n : h[<<hs[i][1]>>] = <<hs[i][2]>>
  BY <1>1 DEF Holds
<1>3. CASE \E i \in 1 .. n : hs[i][1] = f
  <2>1. PICK i \in 1 .. n : hs[i][1] = f  BY <1>3
  <2>2. <<f>> \in DOMAIN h /\ h[<<f>>] = <<hs[i][2]>>  BY <1>2, <2>1
  <2>3. header(f) = <<hs[i][2]>>  BY <1>1, <2>2 DEF header
  <2>. QED  BY <1>1, <2>1, <2>3
<1>4. CASE \A i \in 1 .. n : hs[i][1] # f
  <2>1. <<f>> \notin DOMAIN h  BY <1>2, <1>4, Singles
  <2>2. header(f) = <<>>  BY <1>1, <2>1 DEF header
  <2>. QED  BY <1>1, <1>4, <2>2
<1>. QED  BY <1>3, <1>4

LEMMA HeaderTold ==
  ASSUME NEW r \in Request, Holds(request_.headers, r.headers, Len(r.headers)), NEW f, NEW v
  PROVE  header(f) = <<v>> <=> HasHeader(r, f, v)
<1>1. PICK hs, n : hs = r.headers /\ n = Len(hs)  OBVIOUS
<1>2. /\ DOMAIN hs = 1 .. n
      /\ \A i \in 1 .. n : hs[i] \in Field
      /\ \A i, j \in 1 .. n : hs[i][1] = hs[j][1] => i = j
  BY <1>1, RequestHeaders
<1>3. \A i \in 1 .. n : hs[i] = <<f, v>> <=> hs[i][1] = f /\ hs[i][2] = v
  BY <1>2 DEF Field
<1>4. HasHeader(r, f, v) <=> \E i \in 1 .. n : hs[i][1] = f /\ hs[i][2] = v
  BY <1>1, <1>2, <1>3 DEF HasHeader
<1>5. \/ \E i \in 1 .. n : hs[i][1] = f /\ header(f) = <<hs[i][2]>>
      \/ (\A i \in 1 .. n : hs[i][1] # f) /\ header(f) = <<>>
  BY <1>1, HeaderHeld
<1>. QED  BY <1>2, <1>4, <1>5, Singles

LEMMA BodyMeasured ==
  ASSUME NEW r \in Request, Holds(request_.headers, r.headers, Len(r.headers))
  PROVE  /\ bodyLen = Len(r.body)
         /\ header("Content-Length") = <<>> => bodyLen = 0
<1>1. PICK hs, n, f : hs = r.headers /\ n = Len(hs) /\ f = "Content-Length"  OBVIOUS
<1>2. /\ DOMAIN hs = 1 .. n
      /\ \A i, j \in 1 .. n : hs[i][1] = hs[j][1] => i = j
  BY <1>1, RequestHeaders
<1>3. IF \E i \in 1 .. n : hs[i][1] = f
      THEN \A i \in 1 .. n : hs[i][1] = f => Len(r.body) = atoi(<<hs[i][2]>>)
      ELSE r.body = <<>>
  <2>1. RequestType(r)  BY HttpAssumption
  <2>2. IF \E i \in DOMAIN hs : hs[i][1] = f
        THEN \A i \in DOMAIN hs : hs[i][1] = f => Len(r.body) = atoi(<<hs[i][2]>>)
        ELSE r.body = <<>>
    BY <1>1, <2>1, Zenon DEF RequestType
  <2>. QED  BY <1>2, <2>2, Zenon
<1>4. atoi(<<>>) = 0  BY DEF atoi
<1>5. CASE \E i \in 1 .. n : hs[i][1] = f /\ header(f) = <<hs[i][2]>>
  <2>1. PICK i \in 1 .. n : hs[i][1] = f /\ header(f) = <<hs[i][2]>>  BY <1>5
  <2>2. Len(r.body) = atoi(header(f)) /\ header(f) # <<>>  BY <1>3, <2>1, Singles
  <2>. QED  BY <1>1, <2>2 DEF bodyLen
<1>6. CASE (\A i \in 1 .. n : hs[i][1] # f) /\ header(f) = <<>>
  <2>1. r.body = <<>>  BY <1>3, <1>6
  <2>2. Len(r.body) = 0  BY <2>1
  <2>3. atoi(header(f)) = 0  BY <1>4, <1>6
  <2>. QED  BY <1>1, <2>2, <2>3 DEF bodyLen
<1>7. \/ \E i \in 1 .. n : hs[i][1] = f /\ header(f) = <<hs[i][2]>>
      \/ (\A i \in 1 .. n : hs[i][1] # f) /\ header(f) = <<>>
  BY <1>1, HeaderHeld
<1>. QED  BY <1>5, <1>6, <1>7
-----------------------------------------------------------------------------
\* A line that the parser has found is the one that the input begins with.
LEMMA LineRead ==
  ASSUME NEW b \in Text, NEW k \in Text, NEW l \in Text, NEW t \in Text, Plain(l),
         b ++ k = (l ++ CRLF) ++ t, findCRLF(b) <= Len(b)
  PROVE  /\ Before(b, findCRLF(b)) = l /\ Len(l) + 2 <= Len(b)
         /\ \E z \in Text : /\ After(b, findCRLF(b) + 1) = z /\ z ++ k = t
                            /\ Len(b) = Len(l) + 2 + Len(z)
<1>1. Len(l) \in Nat /\ Len(b) \in Nat  BY LenText
<1>2. Len(l) + 2 <= Len(b)
  <2>1. ~(Len(b) < Len(l) + 2)  BY LineMissing
  <2>. QED  BY <1>1, <2>1
<1>3. /\ Before(b, findCRLF(b)) = l
      /\ \E z \in Text : /\ After(b, findCRLF(b) + 1) = z /\ t = z ++ k
                         /\ Len(b) = Len(l) + 2 + Len(z)
  BY <1>2, LineFound
<1>. QED  BY <1>2, <1>3

\* What ParseRequestLine reads, when the input begins with request n + 1.
LEMMA FirstLineRead ==
  ASSUME NEW q \in Seq(Request), NEW s \in 0 .. Len(q), NEW n \in Nat, n < s,
         NEW b \in Text, NEW k \in Text, b ++ k = Ahead(q, n, s), findCRLF(b) <= Len(b),
         NEW r, r = q[n + 1]
  PROVE  /\ Before(b, findCRLF(b)) = FirstWords(r)
         /\ Len(FirstLine(r)) <= Len(b)
         /\ \E z \in Text : /\ After(b, findCRLF(b) + 1) = z
                            /\ z ++ k = Left(r, 0) ++ Ahead(q, n + 1, s)
                            /\ Len(Encode(r)) <= Len(b) => Len(Left(r, 0)) <= Len(z)
<1>1. PICK w, e, t : w = FirstWords(r) /\ e = Left(r, 0) /\ t = e ++ Ahead(q, n + 1, s)  OBVIOUS
<1>2. r \in Request /\ w \in Text /\ t \in Text /\ Ahead(q, n, s) = (w ++ CRLF) ++ t
  BY <1>1, AheadLine
<1>3. Plain(w)
  <2>1. PICK p \in Nat, m \in Nat : Measured(w, r, p, m)  BY <1>1, <1>2, Measure
  <2>. QED  BY <1>2, <2>1, FirstWordsProcessed
<1>4. /\ Before(b, findCRLF(b)) = w /\ Len(w) + 2 <= Len(b)
      /\ \E z \in Text : /\ After(b, findCRLF(b) + 1) = z /\ z ++ k = t
                         /\ Len(b) = Len(w) + 2 + Len(z)
  BY <1>2, <1>3, LineRead
<1>5. PICK z \in Text : /\ After(b, findCRLF(b) + 1) = z /\ z ++ k = t
                        /\ Len(b) = Len(w) + 2 + Len(z)
  BY <1>4
<1>6. /\ FirstLine(r) = w ++ CRLF /\ FirstLine(r) \in Text /\ e \in Text
      /\ Encode(r) = FirstLine(r) ++ e
  <2>1. FirstLine(r) = w ++ CRLF /\ FirstLine(r) \in Text  BY <1>1, <1>2, EncodeIs
  <2>2. Encode(r) = (w ++ CRLF) ++ e  BY <1>1, <1>2, EncodeIs
  <2>3. 0 \in 0 .. Len(r.headers)  BY <1>2, EncodeIs
  <2>4. e \in Text  BY <1>1, <1>2, <2>3, LeftType
  <2>. QED  BY <2>1, <2>2, <2>4
<1>7. Len(FirstLine(r)) = Len(w) + 2  BY <1>2, <1>6, LineType
<1>8. Len(Encode(r)) = Len(FirstLine(r)) + Len(e)  BY <1>6, CatType
<1>9. Len(w) \in Nat /\ Len(z) \in Nat /\ Len(e) \in Nat  BY <1>2, <1>6, LenText
<1>10. Len(Encode(r)) <= Len(b) => Len(e) <= Len(z)  BY <1>5, <1>7, <1>8, <1>9
<1>. QED  BY <1>1, <1>4, <1>5, <1>7, <1>10

\* What it makes of that line.
Parsed(r, headers, body) ==
  [method |-> r.method, path |-> r.path, query |-> r.query, version |-> r.version,
   headers |-> headers, body |-> body]

LEMMA RequestLineRead ==
  ASSUME NEW r \in Request, NEW w, w = FirstWords(r)
  PROVE  /\ processRequestLine(w) <=> WellFormed(r)
         /\ [NoRequest EXCEPT !.method = w[1], !.version = w[Len(w)],
                              !.path = pathOf(w), !.query = queryOf(w)] = Parsed(r, <<>>, <<>>)
<1>1. PICK x : x = FirstWords(r)  OBVIOUS
<1>2. PICK p \in Nat, m \in Nat : Measured(x, r, p, m)  BY <1>1, Measure
<1>3. processRequestLine(x) <=> WellFormed(r)  BY <1>2, FirstWordsProcessed
<1>4. pathOf(x) = r.path  BY <1>2, FirstWordsTarget
<1>5. queryOf(x) = r.query  BY <1>2, FirstWordsTarget
<1>6. x[1] = r.method /\ x[p + m + 4] = r.version /\ Len(x) = p + m + 4
  <2>1. WordsPlaced(x, r, p, m)  BY <1>2, FirstWordsAt
  <2>. QED  BY <2>1 DEF WordsPlaced
<1>7. x[Len(x)] = r.version  BY <1>6, Zenon
<1>8. [NoRequest EXCEPT !.method = x[1], !.version = x[Len(x)],
                        !.path = pathOf(x), !.query = queryOf(x)] = Parsed(r, <<>>, <<>>)
  <2>1. ASSUME NEW a, NEW c, NEW d, NEW e
        PROVE  [NoRequest EXCEPT !.method = a, !.version = c, !.path = d, !.query = e]
                 = [method |-> a, path |-> d, query |-> e, version |-> c, headers |-> <<>>, body |-> <<>>]
    <3>1. PICK n : n = [NoRequest EXCEPT !.method = a, !.version = c, !.path = d, !.query = e]
      OBVIOUS
    <3>2. n \in [method : {a}, path : {d}, query : {e}, version : {c}, headers : {<<>>}, body : {<<>>}]
      BY <3>1 DEF NoRequest
    <3>3. n = [method |-> a, path |-> d, query |-> e, version |-> c, headers |-> <<>>, body |-> <<>>]
      BY <3>2
    <3>. QED  BY <3>1, <3>3
  <2>2. PICK a, c, d, e : a = x[1] /\ c = x[Len(x)] /\ d = pathOf(x) /\ e = queryOf(x)
    OBVIOUS
  <2>3. a = r.method /\ c = r.version /\ d = r.path /\ e = r.query
    BY <1>4, <1>5, <1>6, <1>7, <2>2, Zenon
  <2>4. [method |-> a, path |-> d, query |-> e, version |-> c, headers |-> <<>>, body |-> <<>>]
          = Parsed(r, <<>>, <<>>)
    BY <2>3, Zenon DEF Parsed
  <2>5. [NoRequest EXCEPT !.method = a, !.version = c, !.path = d, !.query = e]
          = [method |-> a, path |-> d, query |-> e, version |-> c, headers |-> <<>>, body |-> <<>>]
    BY <2>1
  <2>6. [NoRequest EXCEPT !.method = a, !.version = c, !.path = d, !.query = e] = Parsed(r, <<>>, <<>>)
    BY <2>4, <2>5, Zenon
  <2>. QED  BY <2>2, <2>6
<1>. QED  BY <1>1, <1>3, <1>8

\* What ParseHeader reads, when j headers have been read.
LEMMA HeaderRead ==
  ASSUME NEW r \in Request, NEW j \in 0 .. Len(r.headers), j # Len(r.headers),
         NEW u \in Text, NEW b \in Text, NEW k \in Text, b ++ k = Left(r, j) ++ u,
         findCRLF(b) <= Len(b)
  PROVE  /\ j + 1 \in 0 .. Len(r.headers) /\ r.headers[j + 1] \in Field
         /\ Before(b, findCRLF(b)) = FieldWords(r.headers[j + 1])
         /\ \E z \in Text : /\ After(b, findCRLF(b) + 1) = z /\ z ++ k = Left(r, j + 1) ++ u
                            /\ Len(Left(r, j)) <= Len(b) => Len(Left(r, j + 1)) <= Len(z)
<1>1. PICK h, w, e, c : /\ h = r.headers[j + 1] /\ w = FieldWords(h) /\ e = Left(r, j + 1)
                        /\ c = w ++ CRLF
  OBVIOUS
<1>2. j + 1 \in 0 .. Len(r.headers) /\ h \in Field /\ Left(r, j) = c ++ e
  BY <1>1, LeftCons
<1>3. e \in Text /\ w \in Text  BY <1>1, <1>2, LeftType, FieldLine
<1>4. c \in Text /\ Len(c) = Len(w) + 2  BY <1>1, <1>3, LineType
<1>5. Plain(w)
  <2>1. FieldOf(w, h)  BY <1>1 DEF FieldOf
  <2>. QED  BY <1>2, <2>1, FieldWordsPlain
<1>6. PICK t : t = e ++ u  OBVIOUS
<1>7. t \in Text /\ b ++ k = c ++ t  BY <1>2, <1>3, <1>4, <1>6, CatType, CatAssociates
<1>8. /\ Before(b, findCRLF(b)) = w
      /\ \E z \in Text : /\ After(b, findCRLF(b) + 1) = z /\ z ++ k = t
                         /\ Len(b) = Len(w) + 2 + Len(z)
  BY <1>1, <1>3, <1>5, <1>7, LineRead
<1>9. PICK z \in Text : /\ After(b, findCRLF(b) + 1) = z /\ z ++ k = t
                        /\ Len(b) = Len(w) + 2 + Len(z)
  BY <1>8
<1>10. Len(Left(r, j)) = Len(c) + Len(e)  BY <1>2, <1>3, <1>4, CatType
<1>11. Len(w) \in Nat /\ Len(z) \in Nat /\ Len(e) \in Nat  BY <1>3, LenText
<1>12. Len(Left(r, j)) <= Len(b) => Len(e) <= Len(z)  BY <1>4, <1>9, <1>10, <1>11
<1>. QED  BY <1>1, <1>2, <1>6, <1>8, <1>9, <1>12

LEMMA EndRead ==
  ASSUME NEW r \in Request, NEW u \in Text, NEW b \in Text, NEW k \in Text,
         b ++ k = Left(r, Len(r.headers)) ++ u, findCRLF(b) <= Len(b)
  PROVE  /\ Before(b, findCRLF(b)) = <<>>
         /\ \E z \in Text : After(b, findCRLF(b) + 1) = z /\ z ++ k = r.body ++ u
<1>1. PICK w, c : w = <<>> /\ c = w ++ CRLF  OBVIOUS
<1>2. w \in Text /\ c \in Text /\ r.body \in Text  BY <1>1, EmptyText, LineType, BodyText
<1>3. Left(r, Len(r.headers)) = c ++ r.body  BY <1>1, LeftEnd
<1>4. Plain(w)  BY <1>1, EmptyLine
<1>5. PICK t : t = r.body ++ u  OBVIOUS
<1>6. t \in Text /\ b ++ k = c ++ t
  <2>1. t \in Text  BY <1>2, <1>5, CatType
  <2>2. (c ++ r.body) ++ u = c ++ t  BY <1>2, <1>5, CatAssociates
  <2>. QED  BY <1>3, <2>1, <2>2
<1>7. /\ Before(b, findCRLF(b)) = w
      /\ \E z \in Text : /\ After(b, findCRLF(b) + 1) = z /\ z ++ k = t
                         /\ Len(b) = Len(w) + 2 + Len(z)
  BY <1>1, <1>2, <1>4, <1>6, LineRead
<1>. QED  BY <1>1, <1>5, <1>7

-----------------------------------------------------------------------------
\* Text that no new HttpContext takes for a request.
NoRequestLine(s) ==
  \E l, t \in Text : s = (l ++ CRLF) ++ t /\ Plain(l) /\ ~processRequestLine(l)

LEMMA NoRequestLineRead ==
  ASSUME NEW b \in Text, NEW k \in Text, NoRequestLine(b ++ k), findCRLF(b) <= Len(b)
  PROVE  ~processRequestLine(Before(b, findCRLF(b)))
<1>1. PICK l \in Text, t \in Text : b ++ k = (l ++ CRLF) ++ t /\ Plain(l) /\ ~processRequestLine(l)
  BY DEF NoRequestLine
<1>2. Before(b, findCRLF(b)) = l  BY <1>1, LineRead
<1>. QED  BY <1>1, <1>2

LEMMA NoRequestLineGrows ==
  ASSUME NEW s \in Text, NEW e \in Text, NoRequestLine(s) PROVE NoRequestLine(s ++ e)
<1>1. PICK l \in Text, t \in Text : s = (l ++ CRLF) ++ t /\ Plain(l) /\ ~processRequestLine(l)
  BY DEF NoRequestLine
<1>2. PICK c, u : c = l ++ CRLF /\ u = t ++ e  OBVIOUS
<1>3. c \in Text /\ u \in Text  BY <1>2, LineType, CatType
<1>4. s ++ e = c ++ u  BY <1>1, <1>2, <1>3, CatAssociates
<1>. QED  BY <1>1, <1>2, <1>3, <1>4 DEF NoRequestLine

\* Headers and the empty line are such text; they are found when all of them are there.
LEMMA LeftLine ==
  ASSUME NEW r \in Request, NEW j \in 0 .. Len(r.headers), NEW u \in Text
  PROVE  \E l \in Text, t \in Text :
           /\ Left(r, j) = (l ++ CRLF) ++ t /\ Plain(l) /\ ~processRequestLine(l)
<1>1. CASE j = Len(r.headers)
  <2>1. PICK l : l = <<>>  OBVIOUS
  <2>2. l \in Text /\ Plain(l) /\ ~processRequestLine(l)  BY <2>1, EmptyText, EmptyLine
  <2>3. Left(r, j) = (l ++ CRLF) ++ r.body /\ r.body \in Text
    BY <1>1, <2>1, LeftEnd, BodyText
  <2>. QED  BY <2>2, <2>3
<1>2. CASE j # Len(r.headers)
  <2>1. PICK h, l, e : h = r.headers[j + 1] /\ l = FieldWords(h) /\ e = Left(r, j + 1)  OBVIOUS
  <2>2. j + 1 \in 0 .. Len(r.headers) /\ h \in Field /\ Left(r, j) = (l ++ CRLF) ++ e
    BY <1>2, <2>1, LeftCons
  <2>3. e \in Text /\ l \in Text  BY <2>1, <2>2, LeftType, FieldLine
  <2>4. Plain(l) /\ ~processRequestLine(l)
    <3>1. FieldOf(l, h)  BY <2>1 DEF FieldOf
    <3>. QED  BY <2>2, <3>1, FieldWordsPlain
  <2>. QED  BY <2>2, <2>3, <2>4
<1>. QED  BY <1>1, <1>2

LEMMA LeftIsNoRequest ==
  ASSUME NEW r \in Request, NEW j \in 0 .. Len(r.headers), NEW u \in Text
  PROVE  NoRequestLine(Left(r, j) ++ u)
<1>1. Left(r, j) \in Text  BY LeftType
<1>2. NoRequestLine(Left(r, j))  BY LeftLine DEF NoRequestLine
<1>. QED  BY <1>1, <1>2, NoRequestLineGrows

LEMMA LeftFound ==
  ASSUME NEW r \in Request, NEW j \in 0 .. Len(r.headers), NEW u \in Text,
         NEW b \in Text, NEW k \in Text, b ++ k = Left(r, j) ++ u, Len(Left(r, j)) <= Len(b)
  PROVE  findCRLF(b) <= Len(b)
<1>1. PICK l \in Text, t \in Text : Left(r, j) = (l ++ CRLF) ++ t /\ Plain(l)
  BY LeftLine
<1>2. PICK c : c = l ++ CRLF  OBVIOUS
<1>3. c \in Text /\ Len(c) = Len(l) + 2  BY <1>2, LineType
<1>4. Len(Left(r, j)) = Len(c) + Len(t)  BY <1>1, <1>2, <1>3, CatType
<1>5. Len(l) \in Nat /\ Len(t) \in Nat /\ Len(b) \in Nat  BY LenText
<1>6. Len(l) + 2 <= Len(b)  BY <1>3, <1>4, <1>5
<1>7. t ++ u \in Text /\ b ++ k = c ++ (t ++ u)
  <2>1. t ++ u \in Text  BY CatType
  <2>2. (c ++ t) ++ u = c ++ (t ++ u)  BY <1>3, CatAssociates
  <2>. QED  BY <1>1, <1>2, <2>1, <2>2
<1>. QED  BY <1>1, <1>2, <1>6, <1>7, LineFound
-----------------------------------------------------------------------------
(***************************************************************************)
(* The inductive invariant of HttpSpec.                                    *)
(***************************************************************************)
\* What the server has not taken off the stream.
Input == inputBuffer_ ++ kernel

\* The request that the next answer is for, and what the client has sent after it.
Current == script[Len(answers) + 1]
Later == Ahead(script, Len(answers) + 1, sent)

Clean == \A i \in DOMAIN answers : answers[i] # BadRequest
Polite == ~pipelines /\ ~cut

AnswerSet == {BadRequest} \cup {Deserved(r) : r \in Request}

HttpTypes ==
  /\ script \in Seq(Request) /\ sent \in 0 .. Len(script)
  /\ pipelines \in BOOLEAN /\ closes \in BOOLEAN /\ cut \in BOOLEAN
  /\ kernel \in Text /\ inputBuffer_ \in Text
  /\ ok \in BOOLEAN /\ writing \in BOOLEAN /\ shut \in BOOLEAN
  /\ connState \in {"kConnected", "kDisconnecting"}
  /\ answers \in Seq(AnswerSet)

Orderly == (pc = "parse" => ok) /\ (shut => connState = "kDisconnecting")

\* Where the server is in the requests, as long as all its answers were for requests.
AtRest ==
  /\ pc = "loop" \/ (pc = "parsed" /\ ok /\ state_ = "kExpectRequestLine")
  /\ Len(answers) <= sent /\ Input = Ahead(script, Len(answers), sent)

AtFirstLine ==
  /\ pc = "parse" /\ state_ = "kExpectRequestLine"
  /\ Len(answers) < sent /\ Input = Ahead(script, Len(answers), sent)
  /\ \/ cut
     \/ Len(inputBuffer_) < Len(FirstLine(Current))
     \/ Len(Encode(Current)) <= Len(inputBuffer_)

Reads(body) == request_ = Parsed(Current, request_.headers, body) /\ WellFormed(Current)

AtHeader(j) ==
  /\ j \in 0 .. Len(Current.headers)
  /\ Input = Left(Current, j) ++ Later
  /\ Holds(request_.headers, Current.headers, j)
  /\ cut \/ Len(Left(Current, j)) <= Len(inputBuffer_)

AtHeaders ==
  /\ pc = "parse" /\ state_ = "kExpectHeaders"
  /\ Len(answers) < sent /\ Reads(<<>>)
  /\ \E j \in Nat : AtHeader(j)

HoldsAll == Holds(request_.headers, Current.headers, Len(Current.headers))

AtBody ==
  /\ pc = "parse" /\ state_ = "kExpectBody"
  /\ Len(answers) < sent /\ Reads(<<>>) /\ HoldsAll
  /\ Input = Current.body ++ Later

HasRequest ==
  /\ pc = "parsed" /\ ok /\ state_ = "kGotAll"
  /\ Len(answers) < sent /\ Reads(Current.body) /\ HoldsAll
  /\ Input = Later

HasBadLine ==
  /\ pc = "parsed" /\ ~ok
  /\ Len(answers) < sent /\ ~WellFormed(Current)
  /\ Input = Ahead(script, Len(answers), sent)
  /\ Polite => kernel = <<>>

\* After a 400, or in a request that was cut, it finds no request any more.
Lost ==
  /\ cut \/ ~Clean
  /\ NoRequestLine(Input)
  /\ pc = "parse" => state_ = "kExpectRequestLine"
  /\ pc = "parsed" /\ ok => state_ # "kGotAll"

Phase == AtRest \/ AtFirstLine \/ AtHeaders \/ AtBody \/ HasRequest \/ HasBadLine
Placed == pc # "killed" => Lost \/ (Clean /\ Phase)

\* A client that waits for its answers has one request under way at most, and none after
\* an answer that closes.
Waits ==
  Polite => /\ sent <= Len(answers) + 1
            /\ sent = Len(answers) + 1 => \A i \in DOMAIN answers : ~answers[i].close
            /\ ~Clean => pc = "loop" /\ kernel = <<>>

HttpInv ==
  /\ HttpTypes /\ Orderly /\ RightAnswers /\ CloseAnnounced /\ NotKilled
  /\ Placed /\ Waits
-----------------------------------------------------------------------------
LEMMA DeservedKept == ASSUME closes' = closes PROVE \A r : Deserved(r)' = Deserved(r)
BY DEF Deserved, Answer, BadRequest

LEMMA ScriptKept ==
  ASSUME closes' = closes, script' = script
  PROVE  \A i : Deserved(script[i])' = Deserved(script[i])
<1>1. \A r : Deserved(r)' = Deserved(r)  BY DeservedKept
<1>. QED  BY <1>1 DEF Deserved, Answer, BadRequest, HasHeader, WellFormed

LEMMA AnswerSetKept == ASSUME closes' = closes PROVE AnswerSet' = AnswerSet
<1>1. \A r : Deserved(r)' = Deserved(r)  BY DeservedKept
<1>2. BadRequest' = BadRequest  BY DEF BadRequest, Answer
<1>. QED  BY <1>1, <1>2 DEF AnswerSet

LEMMA RightKept ==
  ASSUME HttpTypes, RightAnswers, UNCHANGED <<clientVars, answers>>,
         sent' \in Int, sent <= sent', cut => cut'
  PROVE  RightAnswers'
<1>1. script' = script /\ closes' = closes /\ answers' = answers  BY DEF clientVars
<1>2. \A r : Deserved(r)' = Deserved(r)  BY <1>1, DeservedKept
<1>3. BadRequest' = BadRequest  BY DEF BadRequest, Answer
<1>4. DOMAIN answers = 1 .. Len(answers) /\ Len(answers) \in Nat /\ sent \in Nat  BY DEF HttpTypes
<1>5. ASSUME NEW i \in DOMAIN answers
      PROVE  \/ /\ i <= sent' /\ answers[i] = Deserved(script[i])
                /\ \A j \in 1 .. i - 1 : answers[j] # BadRequest
             \/ answers[i] = BadRequest /\ (cut' \/ \E j \in 1 .. i - 1 : answers[j] = BadRequest)
  <2>1. \/ /\ i <= sent /\ answers[i] = Deserved(script[i])
           /\ \A j \in 1 .. i - 1 : answers[j] # BadRequest
        \/ answers[i] = BadRequest /\ (cut \/ \E j \in 1 .. i - 1 : answers[j] = BadRequest)
    BY DEF RightAnswers
  <2>2. i \in Int  BY <1>4
  <2>. QED  BY <1>4, <2>1, <2>2
<1>6. \A i : Deserved(script[i])' = Deserved(script[i])
  BY <1>1, ScriptKept
<1>. QED  BY <1>1, <1>3, <1>5, <1>6 DEF RightAnswers

LEMMA CleanKept == ASSUME answers' = answers PROVE Clean' = Clean
BY DEF Clean, BadRequest, Answer

\* A step of the parser leaves the answers and the client alone.
LEMMA ParserStep ==
  ASSUME HttpInv, pc \in {"parse", "parsed"}, pc' # "killed",
         UNCHANGED <<clientVars, inputVars, connVars>>,
         inputBuffer_' \in Text, ok' \in BOOLEAN, pc' = "parse" => ok', Placed'
  PROVE  HttpInv'
<1>1. /\ HttpTypes /\ Orderly /\ RightAnswers /\ CloseAnnounced /\ NotKilled /\ Placed /\ Waits
  BY DEF HttpInv
<1>2. /\ script' = script /\ pipelines' = pipelines /\ closes' = closes
      /\ sent' = sent /\ kernel' = kernel /\ cut' = cut
      /\ connState' = connState /\ writing' = writing /\ shut' = shut /\ answers' = answers
  BY DEF clientVars, inputVars, connVars
<1>3. HttpTypes'
  <2>1. AnswerSet' = AnswerSet  BY <1>2, AnswerSetKept
  <2>. QED  BY <1>1, <1>2, <2>1 DEF HttpTypes
<1>4. Orderly'  BY <1>1, <1>2 DEF Orderly
<1>5. RightAnswers'
  <2>1. sent' \in Int /\ sent <= sent'  BY <1>1, <1>2 DEF HttpTypes
  <2>2. cut => cut'  BY <1>2
  <2>. QED  BY <1>1, <1>2, <2>1, <2>2, RightKept
<1>6. CloseAnnounced'  BY <1>1, <1>2 DEF CloseAnnounced
<1>7. NotKilled'  BY DEF NotKilled
<1>8. Waits'
  <2>1. Clean' = Clean  BY <1>2, CleanKept
  <2>2. pc # "loop"  OBVIOUS
  <2>3. Polite' => Polite  BY <1>2 DEF Polite
  <2>. QED  BY <1>1, <1>2, <2>1, <2>2, <2>3 DEF Waits
<1>. QED  BY <1>3, <1>4, <1>5, <1>6, <1>7, <1>8 DEF HttpInv

\* What is known of a phase.
LEMMA Counts ==
  ASSUME HttpTypes
  PROVE  /\ Len(answers) \in Nat /\ DOMAIN answers = 1 .. Len(answers)
         /\ sent \in Nat /\ sent \in 0 .. Len(script) /\ script \in Seq(Request)
         /\ inputBuffer_ \in Text /\ kernel \in Text /\ Input \in Text
<1>1. answers \in Seq(AnswerSet) /\ script \in Seq(Request) /\ sent \in 0 .. Len(script)
      /\ inputBuffer_ \in Text /\ kernel \in Text
  BY DEF HttpTypes
<1>2. Input \in Text  BY <1>1, CatType DEF Input
<1>3. Len(answers) \in Nat /\ DOMAIN answers = 1 .. Len(answers) /\ sent \in Nat  BY <1>1
<1>. QED  BY <1>1, <1>2, <1>3

LEMMA Pending ==
  ASSUME HttpTypes, Len(answers) < sent
  PROVE  /\ Current \in Request /\ Later \in Text
         /\ Ahead(script, Len(answers), sent) = Encode(Current) ++ Later
<1>1. PICK q, n : q = script /\ n = Len(answers)  OBVIOUS
<1>2. n \in Nat /\ n < sent /\ q \in Seq(Request) /\ sent \in 0 .. Len(q)  BY <1>1, Counts
<1>3. /\ q[n + 1] \in Request /\ Ahead(q, n + 1, sent) \in Text
      /\ Ahead(q, n, sent) = Encode(q[n + 1]) ++ Ahead(q, n + 1, sent)
  BY <1>2, AheadFirst
<1>. QED  BY <1>1, <1>3 DEF Current, Later
-----------------------------------------------------------------------------
\* What a step of the parser leaves alone.
LEMMA ParserFrame ==
  ASSUME UNCHANGED <<clientVars, inputVars, connVars>>
  PROVE  /\ Current' = Current /\ Later' = Later /\ Clean' = Clean /\ cut' = cut
         /\ Len(answers') = Len(answers) /\ sent' = sent /\ kernel' = kernel
         /\ Ahead(script', Len(answers'), sent') = Ahead(script, Len(answers), sent)
         /\ Polite' = Polite /\ clientVars' = clientVars /\ inputVars' = inputVars
         /\ Input' = inputBuffer_' ++ kernel
<1>1. /\ script' = script /\ pipelines' = pipelines /\ sent' = sent /\ kernel' = kernel
      /\ cut' = cut /\ answers' = answers
  BY DEF clientVars, inputVars, connVars
<1>2. Clean' = Clean  BY <1>1, CleanKept
<1>. QED  BY <1>1, <1>2 DEF Current, Later, Polite, Input

LEMMA RequestLineStep == ASSUME HttpInv, ParseRequestLine PROVE HttpInv'
<1>1. HttpTypes /\ Placed /\ Orderly  BY DEF HttpInv
<1>2. /\ pc = "parse" /\ state_ = "kExpectRequestLine"
      /\ findCRLF(inputBuffer_) <= Len(inputBuffer_)
      /\ state_' = "kExpectHeaders" /\ ok' = ok /\ pc' = pc
      /\ inputBuffer_' = After(inputBuffer_, findCRLF(inputBuffer_) + 1)
      /\ UNCHANGED <<clientVars, inputVars, connVars>>
  BY DEF ParseRequestLine, hasLine, RetrieveLine
<1>3. PICK l : l = Before(inputBuffer_, findCRLF(inputBuffer_))  OBVIOUS
<1>4. /\ processRequestLine(l)
      /\ request_' = [NoRequest EXCEPT !.method = l[1], !.version = l[Len(l)],
                                       !.path = pathOf(l), !.query = queryOf(l)]
  BY <1>3 DEF ParseRequestLine, line
<1>5. inputBuffer_ \in Text /\ kernel \in Text  BY <1>1 DEF HttpTypes
<1>6. ~Lost
  <2>1. NoRequestLine(inputBuffer_ ++ kernel) => ~processRequestLine(l)
    BY <1>2, <1>3, <1>5, NoRequestLineRead
  <2>. QED  BY <1>4, <2>1 DEF Lost, Input
<1>7. Clean /\ AtFirstLine
  BY <1>1, <1>2, <1>6 DEF Placed, Phase, AtRest, AtHeaders, AtBody, HasRequest, HasBadLine
<1>8. /\ Len(answers) < sent /\ inputBuffer_ ++ kernel = Ahead(script, Len(answers), sent)
      /\ \/ cut
         \/ Len(inputBuffer_) < Len(FirstLine(Current))
         \/ Len(Encode(Current)) <= Len(inputBuffer_)
  BY <1>7 DEF AtFirstLine, Input
<1>9. PICK r, q, n, b, k : /\ r = Current /\ q = script /\ n = Len(answers)
                           /\ b = inputBuffer_ /\ k = kernel
  OBVIOUS
<1>10. r = q[n + 1] /\ Later = Ahead(q, n + 1, sent)  BY <1>9 DEF Current, Later
<1>11. r \in Request  BY <1>1, <1>8, <1>9, Pending
<1>12. /\ l = FirstWords(r) /\ Len(FirstLine(r)) <= Len(b)
       /\ \E z \in Text : /\ After(b, findCRLF(b) + 1) = z
                          /\ z ++ k = Left(r, 0) ++ Ahead(q, n + 1, sent)
                          /\ Len(Encode(r)) <= Len(b) => Len(Left(r, 0)) <= Len(z)
  <2>1. q \in Seq(Request) /\ sent \in 0 .. Len(q) /\ n \in Nat  BY <1>1, <1>9, Counts
  <2>2. b \in Text /\ k \in Text /\ b ++ k = Ahead(q, n, sent) /\ n < sent /\ findCRLF(b) <= Len(b)
    BY <1>2, <1>5, <1>8, <1>9
  <2>3. /\ Before(b, findCRLF(b)) = FirstWords(r)
        /\ Len(FirstLine(r)) <= Len(b)
        /\ \E z \in Text : /\ After(b, findCRLF(b) + 1) = z
                           /\ z ++ k = Left(r, 0) ++ Ahead(q, n + 1, sent)
                           /\ Len(Encode(r)) <= Len(b) => Len(Left(r, 0)) <= Len(z)
    BY <1>10, <2>1, <2>2, FirstLineRead
  <2>. QED  BY <1>3, <1>9, <2>3
<1>13. WellFormed(r) /\ request_' = Parsed(r, <<>>, <<>>)  BY <1>4, <1>11, <1>12, RequestLineRead
<1>14. PICK z \in Text : /\ inputBuffer_' = z /\ z ++ k = Left(r, 0) ++ Later
                         /\ Len(Encode(r)) <= Len(b) => Len(Left(r, 0)) <= Len(z)
  BY <1>2, <1>9, <1>10, <1>12
<1>15. cut \/ Len(Left(r, 0)) <= Len(z)
  <2>1. Len(FirstLine(r)) \in Nat /\ Len(b) \in Nat
    <3>1. FirstLine(r) \in Text  BY <1>11, EncodeIs
    <3>. QED  BY <1>5, <1>9, <3>1, LenText
  <2>2. ~(Len(b) < Len(FirstLine(r)))  BY <1>12, <2>1
  <2>. QED  BY <1>8, <1>9, <1>14, <2>2
<1>16. request_'.headers = <<>>  BY <1>13 DEF Parsed
<1>17. /\ Current' = r /\ Later' = Later /\ Clean' = Clean /\ cut' = cut
       /\ Len(answers') = Len(answers) /\ sent' = sent /\ Input' = z ++ k
  BY <1>2, <1>9, <1>14, ParserFrame
<1>18. AtHeader(0)'
  <2>1. 0 \in 0 .. Len(r.headers)  BY <1>11, EncodeIs
  <2>2. Holds(request_'.headers, r.headers, 0)  BY <1>16, HoldsNothing
  <2>. QED  BY <1>14, <1>15, <1>17, <2>1, <2>2 DEF AtHeader
<1>19. Reads(<<>>)'  BY <1>13, <1>16, <1>17 DEF Reads, WellFormed
<1>20. AtHeaders'
  <2>1. 0 \in Nat  OBVIOUS
  <2>2. \E j \in Nat : AtHeader(j)'  BY <1>18, <2>1
  <2>. QED  BY <1>2, <1>8, <1>17, <1>19, <2>2 DEF AtHeaders
<1>21. Placed'  BY <1>7, <1>17, <1>20 DEF Placed, Phase
<1>22. inputBuffer_' \in Text /\ ok' \in BOOLEAN /\ ok'  BY <1>1, <1>2, <1>14 DEF Orderly, HttpTypes
<1>. QED  BY <1>2, <1>21, <1>22, ParserStep

\* A first line that is no request line, of a request that deserves a 400 or after one.
LEMMA BadFirstLine ==
  ASSUME HttpTypes, Len(answers) < sent, ~WellFormed(Current),
         Input = Ahead(script, Len(answers), sent)
  PROVE  NoRequestLine(Input)
<1>1. PICK r, q, n, w : r = Current /\ q = script /\ n = Len(answers) /\ w = FirstWords(r)
  OBVIOUS
<1>2. r = q[n + 1]  BY <1>1 DEF Current
<1>3. q \in Seq(Request) /\ sent \in 0 .. Len(q) /\ n \in Nat /\ n < sent  BY <1>1, Counts
<1>4. PICK t : t = Left(r, 0) ++ Ahead(q, n + 1, sent)  OBVIOUS
<1>5. r \in Request /\ w \in Text /\ t \in Text /\ Ahead(q, n, sent) = (w ++ CRLF) ++ t
  BY <1>1, <1>2, <1>3, <1>4, AheadLine
<1>6. Plain(w) /\ ~processRequestLine(w)
  <2>1. PICK p \in Nat, m \in Nat : Measured(w, r, p, m)  BY <1>1, <1>5, Measure
  <2>. QED  BY <1>1, <1>5, <2>1, FirstWordsProcessed
<1>7. Input = (w ++ CRLF) ++ t  BY <1>1, <1>5
<1>. QED  BY <1>5, <1>6, <1>7 DEF NoRequestLine

LEMMA BadLineStep == ASSUME HttpInv, ParseBadLine PROVE HttpInv'
<1>1. HttpTypes /\ Placed /\ Waits  BY DEF HttpInv
<1>2. /\ pc = "parse" /\ state_ = "kExpectRequestLine"
      /\ findCRLF(inputBuffer_) <= Len(inputBuffer_)
      /\ ok' = FALSE /\ pc' = "parsed" /\ inputBuffer_' = inputBuffer_
      /\ UNCHANGED <<clientVars, inputVars, connVars>>
  BY DEF ParseBadLine, hasLine
<1>3. PICK l : l = Before(inputBuffer_, findCRLF(inputBuffer_))  OBVIOUS
<1>4. ~processRequestLine(l)  BY <1>3 DEF ParseBadLine, line
<1>5. inputBuffer_ \in Text /\ kernel \in Text  BY <1>1 DEF HttpTypes
<1>6. /\ Current' = Current /\ Later' = Later /\ Clean' = Clean /\ cut' = cut
      /\ Len(answers') = Len(answers) /\ sent' = sent /\ kernel' = kernel /\ Polite' = Polite
      /\ Ahead(script', Len(answers'), sent') = Ahead(script, Len(answers), sent)
      /\ Input' = Input
  BY <1>2, ParserFrame DEF Input
<1>7. CASE Lost
  <2>1. Lost'  BY <1>2, <1>6, <1>7 DEF Lost
  <2>. QED  BY <1>2, <1>5, <2>1, ParserStep DEF Placed
<1>8. CASE Clean /\ AtFirstLine
  <2>1. PICK r, q, n, b, k : /\ r = Current /\ q = script /\ n = Len(answers)
                             /\ b = inputBuffer_ /\ k = kernel
    OBVIOUS
  <2>2. /\ n < sent /\ b ++ k = Ahead(q, n, sent)
        /\ cut \/ Len(b) < Len(FirstLine(r)) \/ Len(Encode(r)) <= Len(b)
    BY <1>8, <2>1 DEF AtFirstLine, Input
  <2>3. r \in Request /\ Later \in Text /\ Ahead(q, n, sent) = Encode(r) ++ Later
    BY <1>1, <2>1, <2>2, Pending
  <2>4. l = FirstWords(r) /\ Len(FirstLine(r)) <= Len(b)
    <3>1. q \in Seq(Request) /\ sent \in 0 .. Len(q) /\ n \in Nat /\ r = q[n + 1]
      BY <1>1, <2>1, Counts DEF Current
    <3>2. b \in Text /\ k \in Text /\ findCRLF(b) <= Len(b)  BY <1>2, <1>5, <2>1
    <3>3. Before(b, findCRLF(b)) = FirstWords(r) /\ Len(FirstLine(r)) <= Len(b)
      BY <2>2, <3>1, <3>2, FirstLineRead
    <3>. QED  BY <1>3, <2>1, <3>3
  <2>5. ~WellFormed(r)  BY <1>4, <2>3, <2>4, RequestLineRead
  <2>6. Polite => kernel = <<>>
    <3>. SUFFICES ASSUME Polite PROVE k = <<>>  BY <2>1
    <3>1. FirstLine(r) \in Text /\ Encode(r) \in Text  BY <2>3, EncodeIs
    <3>2. Len(b) \in Nat /\ Len(k) \in Nat /\ Len(FirstLine(r)) \in Nat /\ Len(Encode(r)) \in Nat
      BY <1>5, <2>1, <3>1, LenText
    <3>3. Len(Encode(r)) <= Len(b)  BY <2>2, <2>4, <3>2 DEF Polite
    <3>4. Later = <<>>
      <4>1. n \in Nat /\ sent \in Nat /\ sent <= n + 1  BY <1>1, <2>1, Counts DEF Waits
      <4>2. sent = n + 1  BY <2>2, <4>1
      <4>3. script \in Seq(Request) /\ sent \in 0 .. Len(script)  BY <1>1, Counts
      <4>4. Ahead(script, sent, sent) = <<>>  BY <4>3, AheadEmpty
      <4>. QED  BY <2>1, <4>2, <4>4 DEF Later
    <3>5. b ++ k = Encode(r)  BY <2>2, <2>3, <3>1, <3>4, CatEmpty
    <3>6. Len(b ++ k) = Len(b) + Len(k)  BY <1>5, <2>1, CatType
    <3>7. Len(k) = 0  BY <3>2, <3>3, <3>5, <3>6
    <3>. QED  BY <1>5, <2>1, <3>7, LenText
  <2>7. WellFormed(Current)' = WellFormed(Current)  BY <1>6 DEF WellFormed
  <2>8. HasBadLine'
    <3>1. Input = Ahead(script, Len(answers), sent)  BY <2>1, <2>2 DEF Input
    <3>. QED  BY <1>2, <1>6, <2>1, <2>2, <2>5, <2>6, <2>7, <3>1 DEF HasBadLine
  <2>9. Placed'  BY <1>6, <1>8, <2>8 DEF Placed, Phase
  <2>. QED  BY <1>2, <1>5, <2>9, ParserStep
<1>. QED
  BY <1>1, <1>2, <1>7, <1>8 DEF Placed, Phase, AtRest, AtHeaders, AtBody, HasRequest, HasBadLine

LEMMA NoLineStep == ASSUME HttpInv, ParseNoLine PROVE HttpInv'
<1>1. HttpTypes /\ Placed /\ Orderly  BY DEF HttpInv
<1>2. /\ pc = "parse" /\ state_ \in {"kExpectRequestLine", "kExpectHeaders"}
      /\ ~(findCRLF(inputBuffer_) <= Len(inputBuffer_))
      /\ pc' = "parsed" /\ ok' = ok /\ inputBuffer_' = inputBuffer_ /\ state_' = state_
      /\ UNCHANGED <<clientVars, inputVars, connVars>>
  BY DEF ParseNoLine, hasLine, parseVars
<1>3. inputBuffer_ \in Text /\ kernel \in Text /\ ok \in BOOLEAN  BY <1>1 DEF HttpTypes
<1>4. /\ Current' = Current /\ Later' = Later /\ Clean' = Clean /\ cut' = cut
      /\ Len(answers') = Len(answers) /\ sent' = sent
      /\ Ahead(script', Len(answers'), sent') = Ahead(script, Len(answers), sent)
      /\ Input' = Input
  BY <1>2, ParserFrame DEF Input
<1>5. ASSUME Placed' PROVE HttpInv'  BY <1>2, <1>3, <1>5, ParserStep
<1>6. CASE Lost
  <2>1. Lost'  BY <1>2, <1>4, <1>6 DEF Lost
  <2>. QED  BY <1>5, <2>1 DEF Placed
<1>7. CASE Clean /\ AtFirstLine
  <2>1. /\ state_ = "kExpectRequestLine" /\ Len(answers) < sent
        /\ Input = Ahead(script, Len(answers), sent)
    BY <1>7 DEF AtFirstLine
  <2>2. Len(answers) <= sent  BY <1>1, <2>1, Counts
  <2>3. AtRest'  BY <1>1, <1>2, <1>4, <2>1, <2>2 DEF AtRest, Orderly
  <2>. QED  BY <1>4, <1>5, <1>7, <2>3 DEF Placed, Phase
<1>8. CASE Clean /\ AtHeaders
  <2>1. PICK j \in Nat : AtHeader(j)  BY <1>8 DEF AtHeaders
  <2>2. PICK r, u, b, k : r = Current /\ u = Later /\ b = inputBuffer_ /\ k = kernel  OBVIOUS
  <2>3. /\ j \in 0 .. Len(r.headers) /\ b ++ k = Left(r, j) ++ u
        /\ cut \/ Len(Left(r, j)) <= Len(b)
    BY <2>1, <2>2 DEF AtHeader, Input
  <2>4. r \in Request /\ u \in Text
    <3>1. Len(answers) < sent  BY <1>8 DEF AtHeaders
    <3>. QED  BY <1>1, <2>2, <3>1, Pending
  <2>5. cut
    <3>1. Len(Left(r, j)) <= Len(b) => findCRLF(b) <= Len(b)
      BY <1>3, <2>2, <2>3, <2>4, LeftFound
    <3>. QED  BY <1>2, <2>2, <2>3, <3>1
  <2>6. NoRequestLine(Input)
    <3>1. NoRequestLine(Left(r, j) ++ u)  BY <2>3, <2>4, LeftIsNoRequest
    <3>. QED  BY <2>2, <2>3, <3>1 DEF Input
  <2>7. state_ = "kExpectHeaders"  BY <1>8 DEF AtHeaders
  <2>8. Lost'  BY <1>2, <1>4, <2>5, <2>6, <2>7 DEF Lost
  <2>. QED  BY <1>5, <2>8 DEF Placed
<1>. QED
  BY <1>1, <1>2, <1>6, <1>7, <1>8 DEF Placed, Phase, AtRest, AtBody, HasRequest, HasBadLine
-----------------------------------------------------------------------------
LEMMA HeaderStep == ASSUME HttpInv, ParseHeader PROVE HttpInv'
<1>1. HttpTypes /\ Placed /\ Orderly  BY DEF HttpInv
<1>2. /\ pc = "parse" /\ state_ = "kExpectHeaders"
      /\ findCRLF(inputBuffer_) <= Len(inputBuffer_)
      /\ ok' = ok /\ pc' = pc
      /\ inputBuffer_' = After(inputBuffer_, findCRLF(inputBuffer_) + 1)
      /\ UNCHANGED <<clientVars, inputVars, connVars>>
  BY DEF ParseHeader, hasLine, RetrieveLine
<1>3. PICK l, c : l = Before(inputBuffer_, findCRLF(inputBuffer_)) /\ c = find(l, ":")  OBVIOUS
<1>4. IF c <= Len(l)
      THEN /\ request_' = [request_ EXCEPT !.headers =
                             setHeader(request_.headers, Before(l, c), Trim(After(l, c)))]
           /\ state_' = state_
      ELSE state_' = "kExpectBody" /\ request_' = request_
  BY <1>3 DEF ParseHeader, line
<1>5. inputBuffer_ \in Text /\ kernel \in Text /\ ok \in BOOLEAN /\ ok
  BY <1>1, <1>2 DEF HttpTypes, Orderly
<1>6. Clean /\ AtHeaders
  BY <1>1, <1>2 DEF Placed, Phase, Lost, AtRest, AtFirstLine, AtBody, HasRequest, HasBadLine
<1>7. PICK j \in Nat : AtHeader(j)  BY <1>6 DEF AtHeaders
<1>8. PICK r, u, b, k, hs : /\ r = Current /\ u = Later /\ b = inputBuffer_ /\ k = kernel
                            /\ hs = request_.headers
  OBVIOUS
<1>9. /\ j \in 0 .. Len(r.headers) /\ b ++ k = Left(r, j) ++ u /\ Holds(hs, r.headers, j)
      /\ cut \/ Len(Left(r, j)) <= Len(b)
  BY <1>7, <1>8 DEF AtHeader, Input
<1>10. /\ Len(answers) < sent /\ request_ = Parsed(r, hs, <<>>) /\ WellFormed(r)
       /\ r \in Request /\ u \in Text
  <2>1. Len(answers) < sent /\ request_ = Parsed(r, hs, <<>>) /\ WellFormed(r)
    BY <1>6, <1>8 DEF AtHeaders, Reads
  <2>. QED  BY <1>1, <1>8, <2>1, Pending
<1>11. /\ Current' = r /\ Later' = u /\ Clean' = Clean /\ cut' = cut
       /\ Len(answers') = Len(answers) /\ sent' = sent /\ Input' = inputBuffer_' ++ k
  BY <1>2, <1>8, ParserFrame
<1>12. ASSUME Placed', inputBuffer_' \in Text PROVE HttpInv'
  BY <1>2, <1>5, <1>12, ParserStep
<1>13. CASE j # Len(r.headers)
  <2>1. PICK h, w : h = r.headers[j + 1] /\ w = FieldWords(h)  OBVIOUS
  <2>2. findCRLF(b) <= Len(b) /\ b \in Text /\ k \in Text  BY <1>2, <1>5, <1>8
  <2>3. /\ j + 1 \in 0 .. Len(r.headers) /\ h \in Field
        /\ Before(b, findCRLF(b)) = w
        /\ \E z \in Text : /\ After(b, findCRLF(b) + 1) = z /\ z ++ k = Left(r, j + 1) ++ u
                           /\ Len(Left(r, j)) <= Len(b) => Len(Left(r, j + 1)) <= Len(z)
    BY <1>9, <1>10, <1>13, <2>1, <2>2, HeaderRead
  <2>4. l = w  BY <1>3, <1>8, <2>3
  <2>5. PICK z \in Text : /\ inputBuffer_' = z /\ z ++ k = Left(r, j + 1) ++ u
                          /\ Len(Left(r, j)) <= Len(b) => Len(Left(r, j + 1)) <= Len(z)
    BY <1>2, <1>8, <2>3
  <2>6. c <= Len(l) /\ Before(l, c) = <<h[1]>> /\ Trim(After(l, c)) = <<h[2]>>
    <3>1. FieldOf(l, h)  BY <2>1, <2>4 DEF FieldOf
    <3>. QED  BY <1>3, <2>3, <3>1, FieldWordsRead
  <2>7. PICK new : new = setHeader(hs, <<h[1]>>, <<h[2]>>)  OBVIOUS
  <2>8. request_' = [request_ EXCEPT !.headers = new] /\ state_' = "kExpectHeaders"
    BY <1>2, <1>4, <1>8, <2>6, <2>7
  <2>9. request_' = Parsed(r, new, <<>>) /\ request_'.headers = new
    BY <1>10, <2>8 DEF Parsed
  <2>10. Holds(new, r.headers, j + 1)  BY <1>9, <1>10, <1>13, <2>1, <2>7, HoldsOneMore
  <2>11. AtHeader(j + 1)'
    BY <1>9, <1>11, <2>3, <2>5, <2>9, <2>10 DEF AtHeader
  <2>12. Reads(<<>>)'  BY <1>10, <1>11, <2>9 DEF Reads, WellFormed
  <2>13. AtHeaders'
    <3>1. j + 1 \in Nat  OBVIOUS
    <3>2. \E i \in Nat : AtHeader(i)'  BY <2>11, <3>1
    <3>. QED  BY <1>2, <1>10, <1>11, <2>8, <2>12, <3>2 DEF AtHeaders
  <2>. QED  BY <1>6, <1>11, <1>12, <2>5, <2>13 DEF Placed, Phase
<1>14. CASE j = Len(r.headers)
  <2>1. findCRLF(b) <= Len(b) /\ b \in Text /\ k \in Text  BY <1>2, <1>5, <1>8
  <2>2. b ++ k = Left(r, Len(r.headers)) ++ u  BY <1>9, <1>14
  <2>3. /\ Before(b, findCRLF(b)) = <<>>
        /\ \E z \in Text : After(b, findCRLF(b) + 1) = z /\ z ++ k = r.body ++ u
    BY <1>10, <2>1, <2>2, EndRead
  <2>4. l = <<>>  BY <1>3, <1>8, <2>3
  <2>5. PICK z \in Text : inputBuffer_' = z /\ z ++ k = r.body ++ u  BY <1>2, <1>8, <2>3
  <2>6. ~(c <= Len(l))  BY <1>3, <2>4, EmptyLine
  <2>7. state_' = "kExpectBody" /\ request_' = request_  BY <1>4, <2>6
  <2>8. Reads(<<>>)'  BY <1>8, <1>10, <1>11, <2>7 DEF Reads, WellFormed
  <2>9. HoldsAll'  BY <1>8, <1>9, <1>11, <1>14, <2>7 DEF HoldsAll
  <2>10. AtBody'  BY <1>2, <1>10, <1>11, <2>5, <2>7, <2>8, <2>9 DEF AtBody
  <2>. QED  BY <1>6, <1>11, <1>12, <2>5, <2>10 DEF Placed, Phase
<1>. QED  BY <1>13, <1>14

LEMMA BodyStep == ASSUME HttpInv, ParseBody PROVE HttpInv'
<1>1. HttpTypes /\ Placed /\ Orderly  BY DEF HttpInv
<1>2. PICK m : m = bodyLen  OBVIOUS
<1>3. /\ pc = "parse" /\ state_ = "kExpectBody"
      /\ header("Content-Length") = <<>> \/ m <= Len(inputBuffer_)
      /\ ok' = ok /\ pc' = "parsed" /\ state_' = "kGotAll"
      /\ request_' = [request_ EXCEPT !.body = Before(inputBuffer_, m + 1)]
      /\ inputBuffer_' = After(inputBuffer_, m)
      /\ UNCHANGED <<clientVars, inputVars, connVars>>
  BY <1>2 DEF ParseBody, hasBody
<1>4. inputBuffer_ \in Text /\ kernel \in Text /\ ok \in BOOLEAN /\ ok
  BY <1>1, <1>3 DEF HttpTypes, Orderly
<1>5. Clean /\ AtBody
  BY <1>1, <1>3 DEF Placed, Phase, Lost, AtRest, AtFirstLine, AtHeaders, HasRequest, HasBadLine
<1>6. PICK r, u, b, k, hs, d : /\ r = Current /\ u = Later /\ b = inputBuffer_ /\ k = kernel
                               /\ hs = request_.headers /\ d = r.body
  OBVIOUS
<1>7. /\ Len(answers) < sent /\ request_ = Parsed(r, hs, <<>>) /\ WellFormed(r)
      /\ Holds(hs, r.headers, Len(r.headers)) /\ b ++ k = d ++ u
  BY <1>5, <1>6 DEF AtBody, Reads, HoldsAll, Input
<1>8. r \in Request /\ u \in Text  BY <1>1, <1>6, <1>7, Pending
<1>9. d \in Text  BY <1>6, <1>8, BodyText
<1>10. m = Len(d) /\ (header("Content-Length") = <<>> => m = 0)
  BY <1>2, <1>6, <1>7, <1>8, BodyMeasured
<1>11. Len(d) <= Len(b)
  <2>1. Len(d) \in Nat /\ Len(b) \in Nat  BY <1>4, <1>6, <1>9, LenText
  <2>. QED  BY <1>3, <1>6, <1>10, <2>1
<1>12. PICK z \in Text : b = d ++ z /\ u = z ++ k
  BY <1>4, <1>6, <1>7, <1>8, <1>9, <1>11, CatSplits
<1>13. inputBuffer_' = z
  <2>1. SubSeq(b, Len(d) + 1, Len(b)) = z  BY <1>9, <1>12, CatDropped
  <2>. QED  BY <1>3, <1>6, <1>10, <2>1 DEF After
<1>14. Before(b, m + 1) = d
  <2>1. SubSeq(b, 1, Len(d)) = d  BY <1>9, <1>12, CatTaken
  <2>2. Len(d) \in Nat  BY <1>9, LenText
  <2>3. (m + 1) - 1 = Len(d)  BY <1>10, <2>2
  <2>. QED  BY <2>1, <2>3 DEF Before
<1>15. request_' = Parsed(r, hs, d) /\ request_'.headers = hs
  <2>1. request_' = [request_ EXCEPT !.body = d]  BY <1>3, <1>6, <1>14
  <2>. QED  BY <1>7, <2>1 DEF Parsed
<1>16. /\ Current' = r /\ Later' = u /\ Clean' = Clean
       /\ Len(answers') = Len(answers) /\ sent' = sent /\ Input' = inputBuffer_' ++ k
  BY <1>3, <1>6, ParserFrame
<1>17. Reads(r.body)' /\ HoldsAll'
  BY <1>6, <1>7, <1>15, <1>16 DEF Reads, WellFormed, HoldsAll
<1>18. HasRequest'
  <2>1. Reads(Current.body)'  BY <1>16, <1>17
  <2>. QED  BY <1>3, <1>4, <1>7, <1>12, <1>13, <1>16, <1>17, <2>1 DEF HasRequest
<1>19. Placed'  BY <1>5, <1>16, <1>18 DEF Placed, Phase
<1>20. inputBuffer_' \in Text  BY <1>13
<1>. QED  BY <1>3, <1>4, <1>19, <1>20, ParserStep

LEMMA NothingStep == ASSUME HttpInv, OnNothing PROVE HttpInv'
<1>1. HttpTypes /\ Placed  BY DEF HttpInv
<1>2. /\ pc = "parsed" /\ ok /\ state_ # "kGotAll" /\ pc' = "loop"
      /\ inputBuffer_' = inputBuffer_ /\ ok' = ok /\ state_' = state_
      /\ UNCHANGED <<clientVars, inputVars, connVars>>
  BY DEF OnNothing, parseVars
<1>3. inputBuffer_ \in Text /\ ok \in BOOLEAN  BY <1>1 DEF HttpTypes
<1>4. /\ Clean' = Clean /\ cut' = cut /\ Len(answers') = Len(answers) /\ sent' = sent
      /\ Ahead(script', Len(answers'), sent') = Ahead(script, Len(answers), sent)
      /\ Input' = Input
  BY <1>2, ParserFrame DEF Input
<1>5. ASSUME Placed' PROVE HttpInv'  BY <1>2, <1>3, <1>5, ParserStep
<1>6. CASE Lost
  <2>1. Lost'  BY <1>2, <1>4, <1>6 DEF Lost
  <2>. QED  BY <1>5, <2>1 DEF Placed
<1>7. CASE Clean /\ AtRest
  <2>1. AtRest'  BY <1>2, <1>4, <1>7 DEF AtRest
  <2>. QED  BY <1>4, <1>5, <1>7, <2>1 DEF Placed, Phase
<1>. QED
  BY <1>1, <1>2, <1>6, <1>7 DEF Placed, Phase, AtFirstLine, AtHeaders, AtBody, HasRequest, HasBadLine

-----------------------------------------------------------------------------
\* A step that only writing, shut and connState may tell from a stutter.
LEMMA ElseKept ==
  ASSUME HttpInv, UNCHANGED <<clientVars, inputVars, parseVars, pc, answers>>
  PROVE  RightAnswers' /\ NotKilled' /\ Placed' /\ Waits'
<1>1. HttpTypes /\ RightAnswers /\ NotKilled /\ Placed /\ Waits  BY DEF HttpInv
<1>2. /\ script' = script /\ pipelines' = pipelines /\ closes' = closes
      /\ sent' = sent /\ kernel' = kernel /\ cut' = cut /\ answers' = answers
      /\ inputBuffer_' = inputBuffer_ /\ state_' = state_ /\ request_' = request_ /\ ok' = ok
      /\ pc' = pc
  BY DEF clientVars, inputVars, parseVars
<1>3. NotKilled'  BY <1>1, <1>2 DEF NotKilled
<1>4. RightAnswers'
  <2>1. sent' \in Int /\ sent <= sent'  BY <1>1, <1>2 DEF HttpTypes
  <2>2. cut => cut'  BY <1>2
  <2>. QED  BY <1>1, <1>2, <2>1, <2>2, RightKept
<1>5. Clean' = Clean  BY <1>2, CleanKept
<1>6. Waits'  BY <1>1, <1>2, <1>5 DEF Waits, Polite
<1>7. Current' = Current /\ Later' = Later /\ Input' = Input  BY <1>2 DEF Current, Later, Input
<1>8. CASE pc = "killed"  BY <1>2, <1>3, <1>4, <1>6, <1>8 DEF Placed
<1>9. CASE Lost
  <2>1. Lost'  BY <1>2, <1>5, <1>7, <1>9 DEF Lost
  <2>. QED  BY <1>3, <1>4, <1>6, <2>1 DEF Placed
<1>10. CASE Clean /\ Phase
  <2>1. AtRest => AtRest'  BY <1>2, <1>7 DEF AtRest
  <2>2. AtFirstLine => AtFirstLine'  BY <1>2, <1>7 DEF AtFirstLine
  <2>3. Reads(<<>>) => Reads(<<>>)'  BY <1>2, <1>7 DEF Reads, WellFormed
  <2>4. HoldsAll => HoldsAll'  BY <1>2, <1>7 DEF HoldsAll
  <2>5. \A j : AtHeader(j) => AtHeader(j)'  BY <1>2, <1>7 DEF AtHeader
  <2>6. AtHeaders => AtHeaders'  BY <1>2, <2>3, <2>5 DEF AtHeaders
  <2>7. AtBody => AtBody'  BY <1>2, <1>7, <2>3, <2>4 DEF AtBody
  <2>8. HasRequest => HasRequest'
    <3>1. Reads(Current.body) => Reads(Current.body)'
      BY <1>2, <1>7 DEF Reads, WellFormed
    <3>. QED  BY <1>2, <1>7, <2>4, <3>1 DEF HasRequest
  <2>9. HasBadLine => HasBadLine'  BY <1>2, <1>7 DEF HasBadLine, WellFormed, Polite
  <2>10. Phase'  BY <1>10, <2>1, <2>2, <2>6, <2>7, <2>8, <2>9 DEF Phase
  <2>. QED  BY <1>3, <1>4, <1>5, <1>6, <1>10, <2>10 DEF Placed
<1>. QED  BY <1>1, <1>8, <1>9, <1>10 DEF Placed

LEMMA HttpStutter == ASSUME HttpInv, UNCHANGED httpVars PROVE HttpInv'
<1>1. HttpTypes /\ Orderly /\ CloseAnnounced  BY DEF HttpInv
<1>2. UNCHANGED <<clientVars, inputVars, parseVars, pc, answers>>  BY DEF httpVars, connVars
<1>3. /\ script' = script /\ pipelines' = pipelines /\ closes' = closes
      /\ sent' = sent /\ kernel' = kernel /\ cut' = cut
      /\ connState' = connState /\ writing' = writing /\ shut' = shut /\ answers' = answers
      /\ inputBuffer_' = inputBuffer_ /\ ok' = ok /\ pc' = pc
  BY DEF httpVars, clientVars, inputVars, connVars, parseVars
<1>4. AnswerSet' = AnswerSet  BY <1>3, AnswerSetKept
<1>5. HttpTypes' /\ Orderly' /\ CloseAnnounced'
  BY <1>1, <1>3, <1>4 DEF HttpTypes, Orderly, CloseAnnounced
<1>6. RightAnswers' /\ NotKilled' /\ Placed' /\ Waits'  BY <1>2, ElseKept
<1>. QED  BY <1>5, <1>6 DEF HttpInv

LEMMA HandleWriteStep == ASSUME HttpInv, HandleWrite PROVE HttpInv'
<1>1. HttpTypes /\ Orderly /\ CloseAnnounced  BY DEF HttpInv
<1>2. /\ pc = "loop" /\ writing' = FALSE /\ shut' = (connState = "kDisconnecting")
      /\ connState' = connState
      /\ UNCHANGED <<clientVars, inputVars, parseVars, pc, answers>>
  BY DEF HandleWrite
<1>3. /\ script' = script /\ pipelines' = pipelines /\ closes' = closes
      /\ sent' = sent /\ kernel' = kernel /\ cut' = cut /\ answers' = answers
      /\ inputBuffer_' = inputBuffer_ /\ ok' = ok /\ pc' = pc
  BY <1>2 DEF clientVars, inputVars, parseVars
<1>4. AnswerSet' = AnswerSet  BY <1>3, AnswerSetKept
<1>5. HttpTypes'  BY <1>1, <1>2, <1>3, <1>4 DEF HttpTypes
<1>6. Orderly' /\ CloseAnnounced'  BY <1>1, <1>2, <1>3 DEF Orderly, CloseAnnounced
<1>7. RightAnswers' /\ NotKilled' /\ Placed' /\ Waits'  BY <1>2, ElseKept
<1>. QED  BY <1>5, <1>6, <1>7 DEF HttpInv
-----------------------------------------------------------------------------
LEMMA BadCloses == BadRequest.close = TRUE /\ BadRequest.status = 400
BY DEF BadRequest, Answer

LEMMA ClientSendsStep == ASSUME HttpInv, ClientSends PROVE HttpInv'
<1>1. /\ HttpTypes /\ Orderly /\ RightAnswers /\ CloseAnnounced /\ NotKilled /\ Placed /\ Waits
  BY DEF HttpInv
<1>2. PICK e : e = Encode(script[sent + 1])  OBVIOUS
<1>3. /\ sent < Len(script) /\ sent' = sent + 1
      /\ pipelines \/ (Len(answers) >= sent /\ \A i \in DOMAIN answers : ~answers[i].close)
      /\ kernel' = kernel ++ e
      /\ UNCHANGED <<clientVars, cut, parseVars, pc, connVars>>
  BY <1>2 DEF ClientSends, ++
<1>4. /\ script' = script /\ pipelines' = pipelines /\ closes' = closes
      /\ cut' = cut /\ connState' = connState /\ writing' = writing /\ shut' = shut
      /\ answers' = answers /\ inputBuffer_' = inputBuffer_ /\ state_' = state_
      /\ request_' = request_ /\ ok' = ok /\ pc' = pc
  BY <1>3 DEF clientVars, connVars, parseVars
<1>5. /\ Len(answers) \in Nat /\ sent \in Nat /\ sent \in 0 .. Len(script) /\ script \in Seq(Request)
      /\ inputBuffer_ \in Text /\ kernel \in Text /\ Input \in Text
  BY <1>1, Counts
<1>6. e \in Text /\ \A k \in 0 .. sent : Ahead(script', k, sent') = Ahead(script, k, sent) ++ e
  BY <1>2, <1>3, <1>4, <1>5, AheadAppend
<1>7. HttpTypes'
  <2>1. AnswerSet' = AnswerSet  BY <1>4, AnswerSetKept
  <2>2. kernel' \in Text  BY <1>3, <1>5, <1>6, CatType
  <2>3. sent' \in 0 .. Len(script)
    <3>1. Len(script) \in Nat  BY <1>5
    <3>. QED  BY <1>3, <1>5, <3>1
  <2>. QED  BY <1>1, <1>4, <2>1, <2>2, <2>3 DEF HttpTypes
<1>8. Orderly' /\ CloseAnnounced' /\ NotKilled'
  BY <1>1, <1>4 DEF Orderly, CloseAnnounced, NotKilled
<1>9. RightAnswers'
  <2>1. sent' \in Int /\ sent <= sent'  BY <1>3, <1>5
  <2>2. cut => cut'  BY <1>4
  <2>3. UNCHANGED <<clientVars, answers>>  BY <1>3, <1>4
  <2>. QED  BY <1>1, <2>1, <2>2, <2>3, RightKept
<1>10. Clean' = Clean  BY <1>4, CleanKept
<1>11. Waits'
  <2>. SUFFICES ASSUME Polite'
                PROVE  /\ sent' <= Len(answers) + 1
                       /\ \A i \in DOMAIN answers : ~answers[i].close
                       /\ Clean
    BY <1>4, <1>10 DEF Waits
  <2>1. Len(answers) >= sent /\ \A i \in DOMAIN answers : ~answers[i].close
    BY <1>3, <1>4 DEF Polite
  <2>2. Clean  BY <2>1, BadCloses DEF Clean
  <2>3. sent' <= Len(answers) + 1  BY <1>3, <1>5, <2>1
  <2>. QED  BY <2>1, <2>2, <2>3
<1>12. Current' = Current /\ Input' = Input ++ e
  <2>1. Current' = Current  BY <1>4 DEF Current
  <2>2. (inputBuffer_ ++ kernel) ++ e = inputBuffer_ ++ (kernel ++ e)
    BY <1>5, <1>6, CatAssociates
  <2>. QED  BY <1>3, <1>4, <2>1, <2>2 DEF Input
<1>13. Len(answers) < sent => Later' = Later ++ e
  <2>1. Len(answers) < sent => Len(answers) + 1 \in 0 .. sent  BY <1>5
  <2>. QED  BY <1>4, <1>6, <2>1 DEF Later
<1>14. CASE pc = "killed"
  BY <1>4, <1>7, <1>8, <1>9, <1>11, <1>14 DEF HttpInv, Placed
<1>15. CASE Lost
  <2>1. NoRequestLine(Input')  BY <1>5, <1>6, <1>12, <1>15, NoRequestLineGrows DEF Lost
  <2>2. Lost'  BY <1>4, <1>10, <1>15, <2>1 DEF Lost
  <2>. QED  BY <1>7, <1>8, <1>9, <1>11, <2>2 DEF HttpInv, Placed
<1>16. CASE Clean /\ Phase
  <2>1. Len(answers) <= sent => Ahead(script', Len(answers'), sent') = Ahead(script, Len(answers), sent) ++ e
    <3>1. Len(answers) <= sent => Len(answers) \in 0 .. sent  BY <1>5
    <3>. QED  BY <1>4, <1>6, <3>1
  <2>2. /\ Len(answers) <= sent => Len(answers') <= sent'
        /\ Len(answers) < sent => Len(answers') < sent' /\ Len(answers) <= sent
    BY <1>3, <1>4, <1>5
  <2>3. AtRest => AtRest'  BY <1>4, <1>12, <2>1, <2>2 DEF AtRest
  <2>4. AtFirstLine => AtFirstLine'  BY <1>4, <1>12, <2>1, <2>2 DEF AtFirstLine
  <2>5. Reads(<<>>) => Reads(<<>>)'  BY <1>4, <1>12 DEF Reads, WellFormed
  <2>6. HoldsAll => HoldsAll'  BY <1>4, <1>12 DEF HoldsAll
  <2>7. ASSUME Len(answers) < sent, NEW j, AtHeader(j) PROVE AtHeader(j)'
    <3>1. PICK r, l : r = Current /\ l = Left(r, j)  OBVIOUS
    <3>2. r \in Request /\ Later \in Text  BY <1>1, <2>7, <3>1, Pending
    <3>3. j \in 0 .. Len(r.headers) /\ Input = l ++ Later  BY <2>7, <3>1 DEF AtHeader
    <3>4. l \in Text  BY <3>1, <3>2, <3>3, LeftType
    <3>5. (l ++ Later) ++ e = l ++ (Later ++ e)  BY <1>6, <3>2, <3>4, CatAssociates
    <3>6. Input' = l ++ Later'  BY <1>12, <1>13, <2>7, <3>3, <3>5
    <3>. QED  BY <1>4, <1>12, <2>7, <3>1, <3>6 DEF AtHeader
  <2>8. AtHeaders => AtHeaders'  BY <1>4, <2>2, <2>5, <2>7 DEF AtHeaders
  <2>9. AtBody => AtBody'
    <3>. SUFFICES ASSUME AtBody PROVE AtBody'  OBVIOUS
    <3>1. Len(answers) < sent /\ Input = Current.body ++ Later  BY DEF AtBody
    <3>2. Current \in Request /\ Later \in Text  BY <1>1, <3>1, Pending
    <3>3. PICK d : d = Current.body  OBVIOUS
    <3>4. d \in Text  BY <3>2, <3>3, BodyText
    <3>5. (d ++ Later) ++ e = d ++ (Later ++ e)  BY <1>6, <3>2, <3>4, CatAssociates
    <3>6. Input' = Current'.body ++ Later'  BY <1>12, <1>13, <3>1, <3>3, <3>5
    <3>. QED  BY <1>4, <2>2, <2>5, <2>6, <3>6 DEF AtBody
  <2>10. HasRequest => HasRequest'
    <3>1. Reads(Current.body) => Reads(Current.body)'
      BY <1>4, <1>12 DEF Reads, WellFormed
    <3>. QED  BY <1>4, <1>12, <1>13, <2>2, <2>6, <3>1 DEF HasRequest
  <2>11. HasBadLine => HasBadLine'
    <3>. SUFFICES ASSUME HasBadLine PROVE HasBadLine'  OBVIOUS
    <3>1. Len(answers) < sent  BY DEF HasBadLine
    <3>2. ~Polite'  BY <1>3, <1>4, <1>5, <3>1 DEF Polite
    <3>. QED  BY <1>4, <1>12, <2>1, <2>2, <3>2 DEF HasBadLine, WellFormed
  <2>12. Phase'  BY <1>16, <2>3, <2>4, <2>8, <2>9, <2>10, <2>11 DEF Phase
  <2>. QED  BY <1>7, <1>8, <1>9, <1>10, <1>11, <1>16, <2>12 DEF HttpInv, Placed
<1>. QED  BY <1>1, <1>14, <1>15, <1>16 DEF Placed

LEMMA ReadStep == ASSUME HttpInv, ReadMessage PROVE HttpInv'
<1>1. /\ HttpTypes /\ Orderly /\ RightAnswers /\ CloseAnnounced /\ NotKilled /\ Placed /\ Waits
  BY DEF HttpInv
<1>2. PICK n \in 1 .. Len(kernel) :
        /\ inputBuffer_' = inputBuffer_ \o SubSeq(kernel, 1, n)
        /\ kernel' = SubSeq(kernel, n + 1, Len(kernel))
  BY DEF ReadMessage
<1>3. /\ pc = "loop" /\ pc' = "parse" /\ state_' = "kExpectRequestLine" /\ ok' = TRUE
      /\ cut' = (cut \/ \E i \in 1 .. sent : PartOf(script[i], inputBuffer_'))
      /\ script' = script /\ pipelines' = pipelines /\ closes' = closes /\ sent' = sent
      /\ connState' = connState /\ writing' = writing /\ shut' = shut /\ answers' = answers
  BY DEF ReadMessage, NewContext, clientVars, connVars
<1>4. /\ Len(answers) \in Nat /\ sent \in Nat /\ sent \in 0 .. Len(script) /\ script \in Seq(Request)
      /\ inputBuffer_ \in Text /\ kernel \in Text /\ Input \in Text
  BY <1>1, Counts
<1>5. PICK x, y : x = SubSeq(kernel, 1, n) /\ y = SubSeq(kernel, n + 1, Len(kernel))  OBVIOUS
<1>6. x \in Text /\ y \in Text /\ kernel = x ++ y /\ Len(x) = n
  <2>1. kernel \in Seq(Token)  BY <1>4 DEF Text
  <2>2. n \in Nat /\ n <= Len(kernel) /\ n \in 0 .. Len(kernel) /\ Len(kernel) \in 0 .. Len(kernel)
    BY <2>1
  <2>3. x \in Seq(Token) /\ y \in Seq(Token) /\ Len(x) = n /\ x \o y = kernel
    BY <1>5, <2>1, <2>2
  <2>. QED  BY <2>3 DEF Text, ++
<1>7. /\ inputBuffer_' = inputBuffer_ ++ x /\ kernel' = y /\ inputBuffer_' \in Text
      /\ Input' = Input
  <2>1. inputBuffer_' = inputBuffer_ ++ x /\ kernel' = y  BY <1>2, <1>5 DEF ++
  <2>2. inputBuffer_ ++ x \in Text  BY <1>4, <1>6, CatType
  <2>3. (inputBuffer_ ++ x) ++ y = inputBuffer_ ++ (x ++ y)  BY <1>4, <1>6, CatAssociates
  <2>. QED  BY <1>6, <2>1, <2>2, <2>3 DEF Input
<1>8. cut' \in BOOLEAN /\ (cut => cut')  BY <1>3
<1>9. HttpTypes'
  <2>1. AnswerSet' = AnswerSet  BY <1>3, AnswerSetKept
  <2>2. kernel' \in Text /\ ok' \in BOOLEAN  BY <1>3, <1>6, <1>7
  <2>. QED  BY <1>1, <1>3, <1>7, <1>8, <2>1, <2>2 DEF HttpTypes
<1>10. Orderly' /\ CloseAnnounced' /\ NotKilled'
  BY <1>1, <1>3 DEF Orderly, CloseAnnounced, NotKilled
<1>11. RightAnswers'
  <2>1. sent' \in Int /\ sent <= sent'  BY <1>3, <1>4
  <2>2. UNCHANGED <<clientVars, answers>>  BY <1>3 DEF clientVars
  <2>. QED  BY <1>1, <1>8, <2>1, <2>2, RightKept
<1>12. Clean' = Clean  BY <1>3, CleanKept
<1>13. Waits'
  <2>1. Polite' => Polite  BY <1>3, <1>8 DEF Polite
  <2>2. kernel # <<>>
    <3>1. Len(kernel) # 0  BY <1>2, <1>4, LenText
    <3>. QED  BY <1>4, <3>1, LenText
  <2>. QED  BY <1>1, <1>3, <1>12, <2>1, <2>2 DEF Waits
<1>14. CASE Lost
  <2>1. Lost'  BY <1>3, <1>7, <1>8, <1>12, <1>14 DEF Lost
  <2>. QED  BY <1>9, <1>10, <1>11, <1>13, <2>1 DEF HttpInv, Placed
<1>15. CASE Clean /\ AtRest
  <2>1. Len(answers) <= sent /\ Input = Ahead(script, Len(answers), sent)  BY <1>15 DEF AtRest
  <2>2. Len(answers) < sent
    <3>. SUFFICES ASSUME Len(answers) = sent PROVE FALSE  BY <1>4, <2>1
    <3>1. Ahead(script, sent, sent) = <<>>  BY <1>4, AheadEmpty
    <3>2. Input = <<>>  BY <2>1, <3>1
    <3>3. Len(Input) = Len(inputBuffer_) + Len(kernel)  BY <1>4, CatType DEF Input
    <3>4. Len(Input) = 0 /\ Len(inputBuffer_) \in Nat /\ Len(kernel) \in Nat
      BY <1>4, <3>2, LenText
    <3>. QED  BY <1>2, <3>3, <3>4
  <2>3. PICK r, b, u : r = Current /\ b = inputBuffer_' /\ u = Later  OBVIOUS
  <2>4. r \in Request /\ u \in Text /\ b ++ y = Encode(r) ++ u
    <3>1. Current \in Request /\ Later \in Text /\ Input = Encode(Current) ++ Later
      BY <1>1, <2>1, <2>2, Pending
    <3>2. Input' = b ++ y  BY <1>7, <2>3 DEF Input
    <3>. QED  BY <1>7, <2>3, <3>1, <3>2
  <2>5. b \in Text /\ Encode(r) \in Text /\ FirstLine(r) \in Text  BY <1>7, <2>3, <2>4, EncodeIs
  <2>6. Len(b) \in Nat /\ Len(Encode(r)) \in Nat /\ Len(FirstLine(r)) \in Nat  BY <2>5, LenText
  <2>7. ASSUME Len(FirstLine(r)) <= Len(b), Len(b) < Len(Encode(r)) PROVE cut'
    <3>1. Len(b) <= Len(Encode(r)) /\ Encode(r) ++ u = b ++ y  BY <2>4, <2>6, <2>7
    <3>2. PICK z \in Text : Encode(r) = b ++ z  BY <1>6, <2>4, <2>5, <3>1, CatSplits
    <3>3. SubSeq(Encode(r), 1, Len(b)) = b  BY <2>5, <3>2, CatTaken
    <3>4. PartOf(r, b)  BY <2>7, <3>3 DEF PartOf
    <3>5. Len(answers) + 1 \in 1 .. sent  BY <1>4, <2>2
    <3>6. PartOf(script[Len(answers) + 1], inputBuffer_')  BY <2>3, <3>4 DEF Current
    <3>. QED  BY <1>3, <3>5, <3>6
  <2>8. cut' \/ Len(b) < Len(FirstLine(r)) \/ Len(Encode(r)) <= Len(b)  BY <2>6, <2>7
  <2>9. Current' = Current /\ Ahead(script', Len(answers'), sent') = Ahead(script, Len(answers), sent)
        /\ Len(answers') < sent'
    BY <1>3, <2>2 DEF Current
  <2>10. AtFirstLine'  BY <1>3, <1>7, <2>1, <2>3, <2>8, <2>9 DEF AtFirstLine
  <2>11. Placed'  BY <1>12, <1>15, <2>10 DEF Placed, Phase
  <2>. QED  BY <1>9, <1>10, <1>11, <1>13, <2>11 DEF HttpInv
<1>. QED
  BY <1>1, <1>3, <1>14, <1>15
     DEF Placed, Phase, AtFirstLine, AtHeaders, AtBody, HasRequest, HasBadLine
-----------------------------------------------------------------------------
\* What is being answered.
LEMMA Answering ==
  ASSUME HttpInv, pc = "parsed", ~ok \/ state_ = "kGotAll"
  PROVE  /\ ~Lost => Clean /\ Len(answers) < sent /\ (HasRequest \/ HasBadLine)
         /\ Polite => /\ ~Lost /\ sent = Len(answers) + 1
                      /\ \A i \in DOMAIN answers : ~answers[i].close
<1>1. HttpTypes /\ Placed /\ Waits  BY DEF HttpInv
<1>2. ~Lost => Clean /\ (HasRequest \/ HasBadLine)
  BY <1>1 DEF Placed, Phase, AtRest, AtFirstLine, AtHeaders, AtBody
<1>3. ~Lost => Len(answers) < sent  BY <1>2 DEF HasRequest, HasBadLine
<1>4. Polite => Clean /\ sent <= Len(answers) + 1  BY <1>1 DEF Waits
<1>5. Polite => ~Lost  BY <1>4 DEF Lost, Polite
<1>6. Polite => sent = Len(answers) + 1
  <2>1. Len(answers) \in Nat /\ sent \in Nat  BY <1>1, Counts
  <2>. QED  BY <1>3, <1>4, <1>5, <2>1
<1>7. Polite => \A i \in DOMAIN answers : ~answers[i].close  BY <1>1, <1>6 DEF Waits
<1>. QED  BY <1>2, <1>3, <1>5, <1>6, <1>7

\* send raises SIGPIPE only for a client that pipelines or had a request cut.
LEMMA KilledStep ==
  ASSUME HttpInv, pc = "parsed", ~ok \/ state_ = "kGotAll", Killed, pc' = "killed",
         UNCHANGED <<clientVars, inputVars, parseVars, connVars>>
  PROVE  HttpInv'
<1>1. HttpTypes /\ Orderly /\ RightAnswers /\ CloseAnnounced  BY DEF HttpInv
<1>2. /\ script' = script /\ pipelines' = pipelines /\ closes' = closes
      /\ sent' = sent /\ kernel' = kernel /\ cut' = cut
      /\ connState' = connState /\ writing' = writing /\ shut' = shut /\ answers' = answers
      /\ inputBuffer_' = inputBuffer_ /\ ok' = ok
  BY DEF clientVars, inputVars, connVars, parseVars
<1>3. ~Polite
  <2>1. Polite => ~(connState = "kDisconnecting")  BY <1>1, Answering DEF CloseAnnounced
  <2>. QED  BY <1>1, <2>1 DEF Killed, Orderly
<1>4. ~Polite'  BY <1>2, <1>3 DEF Polite
<1>5. AnswerSet' = AnswerSet  BY <1>2, AnswerSetKept
<1>6. HttpTypes' /\ Orderly' /\ CloseAnnounced'
  BY <1>1, <1>2, <1>5 DEF HttpTypes, Orderly, CloseAnnounced
<1>7. RightAnswers'
  <2>1. sent' \in Int /\ sent <= sent'  BY <1>1, <1>2 DEF HttpTypes
  <2>2. UNCHANGED <<clientVars, answers>>  BY <1>2 DEF clientVars
  <2>3. cut => cut'  BY <1>2
  <2>. QED  BY <1>1, <2>1, <2>2, <2>3, RightKept
<1>8. NotKilled' /\ Placed' /\ Waits'
  BY <1>1, <1>2, <1>4 DEF NotKilled, Placed, Waits, Polite, HttpTypes
<1>. QED  BY <1>6, <1>7, <1>8 DEF HttpInv

\* One more answer.
LEMMA AnsweredStep ==
  ASSUME HttpInv, NEW a \in AnswerSet, NEW shuts \in BOOLEAN, a.close = shuts,
         pc' = "loop", answers' = Append(answers, a), writing' \in {writing, TRUE},
         connState' = IF shuts THEN "kDisconnecting" ELSE connState,
         shut' = (shut \/ (shuts /\ connState = "kConnected" /\ ~writing')),
         UNCHANGED <<clientVars, inputVars, parseVars>>,
         \/ Len(answers) < sent /\ a = Deserved(Current) /\ Clean
         \/ a = BadRequest /\ (cut \/ ~Clean)
  PROVE  /\ HttpTypes' /\ Orderly' /\ RightAnswers' /\ CloseAnnounced' /\ NotKilled'
         /\ Len(answers') = Len(answers) + 1
         /\ Clean' <=> Clean /\ a # BadRequest
<1>1. HttpTypes /\ Orderly /\ RightAnswers /\ CloseAnnounced  BY DEF HttpInv
<1>2. /\ script' = script /\ pipelines' = pipelines /\ closes' = closes
      /\ sent' = sent /\ kernel' = kernel /\ cut' = cut /\ inputBuffer_' = inputBuffer_ /\ ok' = ok
  BY DEF clientVars, inputVars, parseVars
<1>3. PICK n : n = Len(answers)  OBVIOUS
<1>4. n \in Nat /\ DOMAIN answers = 1 .. n /\ answers \in Seq(AnswerSet) /\ sent \in Nat
  BY <1>1, <1>3, Counts DEF HttpTypes
<1>5. /\ answers' \in Seq(AnswerSet) /\ Len(answers') = n + 1 /\ answers'[n + 1] = a
      /\ DOMAIN answers' = 1 .. n + 1 /\ \A i \in 1 .. n : answers'[i] = answers[i]
  BY <1>3, <1>4
<1>6. AnswerSet' = AnswerSet  BY <1>2, AnswerSetKept
<1>7. HttpTypes'
  <2>1. writing' \in BOOLEAN /\ shut' \in BOOLEAN /\ connState' \in {"kConnected", "kDisconnecting"}
    BY <1>1 DEF HttpTypes
  <2>. QED  BY <1>1, <1>2, <1>5, <1>6, <2>1 DEF HttpTypes
<1>8. Orderly'  BY <1>1 DEF Orderly
<1>9. n + 1 \in 1 .. n + 1 /\ (\A i \in 1 .. n : i \in 1 .. n + 1)
      /\ \A i \in 1 .. n + 1 : i \in 1 .. n \/ i = n + 1
  BY <1>4
<1>10. CloseAnnounced'
  <2>1. (\E i \in DOMAIN answers' : answers'[i].close) <=> (\E i \in DOMAIN answers : answers[i].close) \/ shuts
    BY <1>4, <1>5, <1>9
  <2>2. connState' = "kDisconnecting" <=> connState = "kDisconnecting" \/ shuts  OBVIOUS
  <2>. QED  BY <1>1, <2>1, <2>2 DEF CloseAnnounced
<1>11. NotKilled'  BY DEF NotKilled
<1>12. BadRequest' = BadRequest  BY DEF BadRequest, Answer
<1>13. Clean' <=> Clean /\ a # BadRequest
  BY <1>4, <1>5, <1>9, <1>12 DEF Clean
<1>14. RightAnswers'
  <2>1. \A i : Deserved(script[i])' = Deserved(script[i])  BY <1>2, ScriptKept
  <2>2. ASSUME NEW i \in 1 .. n + 1
        PROVE  \/ /\ i <= sent /\ answers'[i] = Deserved(script[i])
                  /\ \A j \in 1 .. i - 1 : answers'[j] # BadRequest
               \/ /\ answers'[i] = BadRequest
                  /\ cut \/ \E j \in 1 .. i - 1 : answers'[j] = BadRequest
    <3>1. CASE i \in 1 .. n
      <4>1. \/ /\ i <= sent /\ answers[i] = Deserved(script[i])
               /\ \A j \in 1 .. i - 1 : answers[j] # BadRequest
            \/ answers[i] = BadRequest /\ (cut \/ \E j \in 1 .. i - 1 : answers[j] = BadRequest)
        BY <1>1, <1>4, <3>1 DEF RightAnswers
      <4>2. \A j \in 1 .. i - 1 : j \in 1 .. n  BY <1>4, <3>1
      <4>3. answers'[i] = answers[i] /\ \A j \in 1 .. i - 1 : answers'[j] = answers[j]
        BY <1>5, <3>1, <4>2
      <4>. QED  BY <4>1, <4>3
    <3>2. CASE i = n + 1
      <4>1. (n + 1) - 1 = n  BY <1>4
      <4>2. answers'[i] = a /\ \A j \in 1 .. n : answers'[j] = answers[j]  BY <1>5, <3>2
      <4>3. Clean <=> \A j \in 1 .. n : answers[j] # BadRequest  BY <1>4 DEF Clean
      <4>4. CASE Len(answers) < sent /\ a = Deserved(Current) /\ Clean
        <5>1. i <= sent  BY <1>3, <1>4, <3>2, <4>4
        <5>2. a = Deserved(script[i])  BY <1>3, <3>2, <4>4 DEF Current
        <5>. QED  BY <3>2, <4>1, <4>2, <4>3, <4>4, <5>1, <5>2
      <4>5. CASE a = BadRequest /\ (cut \/ ~Clean)
        BY <3>2, <4>1, <4>2, <4>3, <4>5
      <4>. QED  BY <4>4, <4>5
    <3>. QED  BY <1>9, <3>1, <3>2
  <2>. QED  BY <1>2, <1>5, <1>12, <2>1, <2>2 DEF RightAnswers
<1>. QED  BY <1>3, <1>5, <1>7, <1>8, <1>10, <1>11, <1>13, <1>14

LEMMA BadRequestStep == ASSUME HttpInv, OnBadRequest PROVE HttpInv'
<1>1. HttpTypes /\ Placed /\ Waits  BY DEF HttpInv
<1>2. /\ pc = "parsed" /\ ~ok /\ UNCHANGED <<clientVars, inputVars, parseVars>>
      /\ Finish(BadRequest, TRUE)
  BY DEF OnBadRequest
<1>3. CASE Killed
  <2>1. pc' = "killed" /\ UNCHANGED connVars  BY <1>2, <1>3 DEF Finish
  <2>. QED  BY <1>2, <1>3, <2>1, KilledStep
<1>4. CASE ~Killed
  <2>1. /\ answers' = Append(answers, BadRequest) /\ writing' \in {writing, TRUE}
        /\ connState' = (IF TRUE THEN "kDisconnecting" ELSE connState)
        /\ shut' = (shut \/ (TRUE /\ connState = "kConnected" /\ ~writing'))
        /\ pc' = "loop"
    BY <1>2, <1>4 DEF Finish
  <2>2. /\ ~Lost => Clean /\ Len(answers) < sent /\ HasBadLine
        /\ Polite => ~Lost /\ sent = Len(answers) + 1
    <3>1. /\ ~Lost => Clean /\ Len(answers) < sent /\ (HasRequest \/ HasBadLine)
          /\ Polite => ~Lost /\ sent = Len(answers) + 1
      BY <1>2, Answering
    <3>2. ~HasRequest  BY <1>2 DEF HasRequest
    <3>. QED  BY <3>1, <3>2
  <2>3. ~Lost => BadRequest = Deserved(Current) /\ NoRequestLine(Input)
    <3>1. HasBadLine => ~WellFormed(Current) /\ Input = Ahead(script, Len(answers), sent)
      BY DEF HasBadLine
    <3>2. ~WellFormed(Current) => BadRequest = Deserved(Current)  BY DEF Deserved
    <3>. QED  BY <1>1, <2>2, <3>1, <3>2, BadFirstLine
  <2>4. Lost => NoRequestLine(Input) /\ (cut \/ ~Clean)  BY DEF Lost
  <2>5. /\ HttpTypes' /\ Orderly' /\ RightAnswers' /\ CloseAnnounced' /\ NotKilled'
        /\ Len(answers') = Len(answers) + 1
        /\ Clean' <=> Clean /\ BadRequest # BadRequest
    <3>1. BadRequest \in AnswerSet  BY DEF AnswerSet
    <3>2. PICK a : a = BadRequest  OBVIOUS
    <3>3. a.close = TRUE /\ a \in AnswerSet  BY <3>1, <3>2, BadCloses
    <3>4. \/ Len(answers) < sent /\ a = Deserved(Current) /\ Clean
          \/ a = BadRequest /\ (cut \/ ~Clean)
      BY <2>2, <2>3, <2>4, <3>2
    <3>5. PICK t \in BOOLEAN : t = TRUE  OBVIOUS
    <3>6. /\ a.close = t /\ answers' = Append(answers, a)
          /\ connState' = (IF t THEN "kDisconnecting" ELSE connState)
          /\ shut' = (shut \/ (t /\ connState = "kConnected" /\ ~writing'))
      BY <2>1, <3>2, <3>3, <3>5
    <3>7. /\ HttpTypes' /\ Orderly' /\ RightAnswers' /\ CloseAnnounced' /\ NotKilled'
          /\ Len(answers') = Len(answers) + 1
          /\ Clean' <=> Clean /\ a # BadRequest
      BY <1>2, <2>1, <3>3, <3>4, <3>6, AnsweredStep
    <3>. QED  BY <3>2, <3>7
  <2>6. Input' = Input /\ cut' = cut /\ kernel' = kernel /\ sent' = sent /\ Polite' = Polite
    BY <1>2 DEF Input, Polite, clientVars, inputVars, parseVars
  <2>7. Lost'  BY <2>1, <2>3, <2>4, <2>5, <2>6 DEF Lost
  <2>8. Waits'
    <3>. SUFFICES ASSUME Polite
                  PROVE  sent <= (Len(answers) + 1) + 1 /\ sent # (Len(answers) + 1) + 1 /\ kernel = <<>>
      BY <2>1, <2>5, <2>6 DEF Waits
    <3>1. Len(answers) \in Nat /\ sent = Len(answers) + 1 /\ HasBadLine  BY <1>1, <2>2, Counts
    <3>2. kernel = <<>>  BY <3>1 DEF HasBadLine
    <3>. QED  BY <3>1, <3>2
  <2>. QED  BY <2>5, <2>7, <2>8 DEF HttpInv, Placed
<1>. QED  BY <1>3, <1>4

\* What the answer says is what the request deserves.
LEMMA RightAnswer ==
  ASSUME HttpTypes, HasRequest
  PROVE  Answer(200, request_.method, request_.path, request_.query, request_.body,
                wantsClose \/ closes) = Deserved(Current)
<1>1. PICK r, hs : r = Current /\ hs = request_.headers  OBVIOUS
<1>2. /\ Len(answers) < sent /\ WellFormed(r) /\ request_ = Parsed(r, hs, r.body)
      /\ Holds(request_.headers, r.headers, Len(r.headers))
  BY <1>1 DEF HasRequest, Reads, HoldsAll
<1>3. r \in Request  BY <1>1, <1>2, Pending
<1>4. /\ request_.method = r.method /\ request_.path = r.path /\ request_.query = r.query
      /\ request_.body = r.body /\ request_.version = r.version
  BY <1>2 DEF Parsed
<1>5. /\ header("Connection") = <<"close">> <=> HasHeader(r, "Connection", "close")
      /\ header("Connection") = <<"Keep-Alive">> <=> HasHeader(r, "Connection", "Keep-Alive")
  <2>1. \A v : header("Connection") = <<v>> <=> HasHeader(r, "Connection", v)
    BY <1>2, <1>3, HeaderTold
  <2>. QED  BY <2>1
<1>6. (wantsClose \/ closes)
        <=> (\/ closes \/ HasHeader(r, "Connection", "close")
             \/ r.version = "HTTP/1.0" /\ ~HasHeader(r, "Connection", "Keep-Alive"))
  BY <1>4, <1>5 DEF wantsClose
<1>7. PICK c, d \in BOOLEAN :
        /\ c = (wantsClose \/ closes)
        /\ d = (\/ closes \/ HasHeader(r, "Connection", "close")
                \/ r.version = "HTTP/1.0" /\ ~HasHeader(r, "Connection", "Keep-Alive"))
  OBVIOUS
<1>8. c = d  BY <1>6, <1>7
<1>9. Deserved(r) = Answer(200, r.method, r.path, r.query, r.body, d)
  BY <1>2, <1>7 DEF Deserved
<1>. QED  BY <1>1, <1>4, <1>7, <1>8, <1>9

LEMMA RequestStep == ASSUME HttpInv, OnRequest PROVE HttpInv'
<1>1. HttpTypes /\ Placed /\ Waits  BY DEF HttpInv
<1>2. PICK a : a = Answer(200, request_.method, request_.path, request_.query, request_.body,
                          wantsClose \/ closes)
  OBVIOUS
<1>3. PICK shuts \in BOOLEAN : shuts = (wantsClose \/ closes)  OBVIOUS
<1>4. /\ pc = "parsed" /\ ok /\ state_ = "kGotAll" /\ UNCHANGED <<clientVars, inputVars, parseVars>>
      /\ Finish(a, closeConnection)
  BY <1>2 DEF OnRequest
<1>5. a.close = shuts /\ a.status = 200  BY <1>2, <1>3 DEF Answer
<1>6. ~Lost  BY <1>4 DEF Lost
<1>7. /\ Clean /\ Len(answers) < sent /\ HasRequest
      /\ Polite => sent = Len(answers) + 1
  <2>1. Clean /\ Len(answers) < sent /\ (HasRequest \/ HasBadLine)  BY <1>4, <1>6, Answering
  <2>2. ~HasBadLine  BY <1>4 DEF HasBadLine
  <2>3. Polite => sent = Len(answers) + 1  BY <1>4, Answering
  <2>. QED  BY <2>1, <2>2, <2>3
<1>8. CASE Killed
  <2>1. pc' = "killed" /\ UNCHANGED connVars  BY <1>4, <1>8 DEF Finish
  <2>. QED  BY <1>4, <1>8, <2>1, KilledStep
<1>9. CASE ~Killed
  <2>1. /\ answers' = Append(answers, a) /\ writing' \in {writing, TRUE}
        /\ connState' = (IF shuts THEN "kDisconnecting" ELSE connState)
        /\ shut' = (shut \/ (shuts /\ connState = "kConnected" /\ ~writing'))
        /\ pc' = "loop"
    <3>1. shuts <=> closeConnection  BY <1>3 DEF closeConnection
    <3>. QED  BY <1>4, <1>9, <3>1 DEF Finish
  <2>2. a = Deserved(Current)  BY <1>1, <1>2, <1>7, RightAnswer
  <2>3. Current \in Request  BY <1>1, <1>7, Pending
  <2>4. a \in AnswerSet  BY <2>2, <2>3 DEF AnswerSet
  <2>5. a # BadRequest  BY <1>5, BadCloses
  <2>6. /\ HttpTypes' /\ Orderly' /\ RightAnswers' /\ CloseAnnounced' /\ NotKilled'
        /\ Len(answers') = Len(answers) + 1
        /\ Clean' <=> Clean /\ a # BadRequest
    BY <1>4, <1>5, <1>7, <2>1, <2>2, <2>4, AnsweredStep
  <2>7. /\ Input' = Input /\ sent' = sent /\ Polite' = Polite /\ script' = script
    BY <1>4 DEF Input, Polite, clientVars, inputVars, parseVars
  <2>8. Len(answers) \in Nat /\ sent \in Nat  BY <1>1, Counts
  <2>9. AtRest'
    <3>1. Input = Ahead(script, Len(answers) + 1, sent)  BY <1>7 DEF HasRequest, Later
    <3>2. Len(answers) + 1 <= sent  BY <1>7, <2>8
    <3>. QED  BY <2>1, <2>6, <2>7, <3>1, <3>2 DEF AtRest
  <2>10. Waits'
    <3>1. Clean'  BY <1>7, <2>5, <2>6
    <3>2. Polite => sent <= (Len(answers) + 1) + 1 /\ sent # (Len(answers) + 1) + 1
      BY <1>7, <2>8
    <3>. QED  BY <2>6, <2>7, <3>1, <3>2 DEF Waits
  <2>. QED  BY <1>7, <2>5, <2>6, <2>9, <2>10 DEF HttpInv, Placed, Phase
<1>. QED  BY <1>8, <1>9
-----------------------------------------------------------------------------
LEMMA HttpInitInv == HttpInit => HttpInv
<1>. SUFFICES ASSUME HttpInit PROVE HttpInv  OBVIOUS
<1>1. script \in Seq(Request)
  <2>1. PICK n \in 1 .. MaxRequests : script \in [1 .. n -> Request]  BY DEF HttpInit
  <2>2. n \in Nat  BY HttpAssumption
  <2>. QED  BY <2>1, <2>2
<1>2. /\ sent = 0 /\ kernel = <<>> /\ inputBuffer_ = <<>> /\ answers = <<>> /\ pc = "loop"
      /\ pipelines \in BOOLEAN /\ closes \in BOOLEAN /\ cut = FALSE
      /\ ok = TRUE /\ connState = "kConnected" /\ writing = FALSE /\ shut = FALSE
  BY DEF HttpInit
<1>3. kernel \in Text /\ inputBuffer_ \in Text  BY <1>2, EmptyText
<1>4. answers \in Seq(AnswerSet) /\ Len(answers) = 0 /\ DOMAIN answers = {}  BY <1>2
<1>5. sent \in 0 .. Len(script)
  <2>1. Len(script) \in Nat  BY <1>1
  <2>. QED  BY <1>2, <2>1
<1>6. HttpTypes  BY <1>1, <1>2, <1>3, <1>4, <1>5 DEF HttpTypes
<1>7. Orderly /\ CloseAnnounced /\ NotKilled /\ RightAnswers /\ Clean
  BY <1>2, <1>4 DEF Orderly, CloseAnnounced, NotKilled, RightAnswers, Clean
<1>8. Waits  BY <1>2, <1>4, <1>7 DEF Waits
<1>9. Input = Ahead(script, 0, 0)
  <2>1. 0 \in 0 .. Len(script)  BY <1>2, <1>5
  <2>2. Ahead(script, 0, 0) = <<>>  BY <1>1, <2>1, AheadEmpty
  <2>3. Input = <<>>
    <3>1. \A e \in Text : e = <<>> => e ++ e = e  BY CatEmpty
    <3>2. PICK e : e = inputBuffer_  OBVIOUS
    <3>3. e ++ e = e  BY <1>2, <1>3, <3>1, <3>2
    <3>. QED  BY <1>2, <3>2, <3>3 DEF Input
  <2>. QED  BY <2>2, <2>3
<1>10. Placed  BY <1>2, <1>4, <1>7, <1>9 DEF Placed, Phase, AtRest
<1>. QED  BY <1>6, <1>7, <1>8, <1>10 DEF HttpInv

LEMMA HttpStep == HttpInv /\ [HttpNext]_httpVars => HttpInv'
<1>. SUFFICES ASSUME HttpInv, [HttpNext]_httpVars PROVE HttpInv'  OBVIOUS
<1>1. CASE ClientSends  BY <1>1, ClientSendsStep
<1>2. CASE ReadMessage  BY <1>2, ReadStep
<1>3. CASE ParseRequestLine  BY <1>3, RequestLineStep
<1>4. CASE ParseBadLine  BY <1>4, BadLineStep
<1>5. CASE ParseNoLine  BY <1>5, NoLineStep
<1>6. CASE ParseHeader  BY <1>6, HeaderStep
<1>7. CASE ParseBody  BY <1>7, BodyStep
<1>8. CASE ParseAgain  BY <1>8, HttpStutter DEF ParseAgain
<1>9. CASE OnBadRequest  BY <1>9, BadRequestStep
<1>10. CASE OnNothing  BY <1>10, NothingStep
<1>11. CASE OnRequest  BY <1>11, RequestStep
<1>12. CASE HandleWrite  BY <1>12, HandleWriteStep
<1>13. CASE UNCHANGED httpVars  BY <1>13, HttpStutter
<1>. QED
  BY <1>1, <1>2, <1>3, <1>4, <1>5, <1>6, <1>7, <1>8, <1>9, <1>10, <1>11, <1>12, <1>13
     DEF HttpNext, LoopStep, ParseStep

LEMMA AlwaysHttpInv == HttpSpec => []HttpInv
BY HttpInitInv, HttpStep, PTL DEF HttpSpec

\* However requests are cut into messages or run together, every answer is what onMessage
\* and onRequest (HttpServer.cpp:39-67) owe the request it is for, in order, and after a
\* 400 or in a request that was cut there is nothing but 400.
THEOREM RightAnswersTheorem == HttpSpec => []RightAnswers
<1>1. HttpInv => RightAnswers  BY DEF HttpInv
<1>. QED  BY <1>1, AlwaysHttpInv, PTL

\* TcpConnection::send (TcpConnection.cpp:52-59) raises no SIGPIPE for the answer to a
\* client that waits for its answers, as long as no request was cut.
THEOREM NotKilledTheorem == HttpSpec => []NotKilled
<1>1. HttpInv => NotKilled  BY DEF HttpInv
<1>. QED  BY <1>1, AlwaysHttpInv, PTL

\* The server shuts down (HttpServer.cpp:44-45, 62-66) after an answer that says so and after
\* a 400, which says nothing, and only then.
THEOREM CloseAnnouncedTheorem == HttpSpec => []CloseAnnounced
<1>1. HttpInv => CloseAnnounced  BY DEF HttpInv
<1>. QED  BY <1>1, AlwaysHttpInv, PTL
=============================================================================
