------------------------------ MODULE Induction -------------------------------
(***************************************************************************)
(* Induction over the natural numbers, with sets in the place of           *)
(* predicates, and with it the lemmas about the recursive functions that   *)
(* the specifications are built from.                                      *)
(***************************************************************************)
EXTENDS SequencesExt, SequenceTheorems, NaturalsInduction, WellFoundedInduction, TLAPS

LEMMA LeastElement ==
    ASSUME NEW T \in SUBSET Nat, T # {}
    PROVE  \E x \in T : \A y \in T : x =< y
<1> DEFINE R == {ss \in Nat \X Nat : ss[1] < ss[2]}
<1>1. R = OpToRel(<, Nat)
  BY DEF OpToRel
<1>2. IsWellFoundedOn(R, Nat)
  BY <1>1, NatLessThanWellFounded
<1>3. \A x, y \in Nat : <<y, x>> \in R <=> y < x
  OBVIOUS
<1> HIDE DEF R
<1>4. PICK x \in T : \A y \in T : ~(<<y, x>> \in R)
  BY <1>2, WFMin
<1>5. \A y \in T : ~(y < x)
  BY <1>3, <1>4
<1>6. \A y \in T : x \in Nat /\ y \in Nat /\ ~(y < x) => x =< y
  OBVIOUS
<1>7. QED
  BY <1>5, <1>6

LEMMA SetInduction ==
    ASSUME NEW S, 0 \in S, \A n \in Nat : n \in S => n + 1 \in S
    PROVE  Nat \subseteq S
<1> DEFINE T == {n \in Nat : n \notin S}
<1> SUFFICES ASSUME T # {} PROVE FALSE
  OBVIOUS
<1>1. PICK x \in T : \A y \in T : x =< y
  BY LeastElement
<1>2. x \in Nat /\ x # 0 /\ x - 1 \in Nat
  OBVIOUS
<1>3. x - 1 \notin T
  BY <1>1, <1>2
<1>4. QED
  BY <1>2, <1>3

LEMMA RangeInduction ==
    ASSUME NEW N \in Nat, NEW S, N # 0 => 1 \in S,
           \A n \in 1..N : n \in S /\ n # N => n + 1 \in S
    PROVE  1..N \subseteq S
<1> DEFINE P == {n \in Nat : n + 1 =< N => n + 1 \in S}
<1>1. 0 \in P
  OBVIOUS
<1>2. ASSUME NEW n \in Nat, n \in P PROVE n + 1 \in P
  <2> SUFFICES ASSUME (n + 1) + 1 =< N PROVE (n + 1) + 1 \in S
    OBVIOUS
  <2>1. n + 1 \in 1..N /\ n + 1 # N
    OBVIOUS
  <2>2. QED
    BY <1>2, <2>1
<1>3. ASSUME NEW m \in 1..N PROVE m \in S
  <2>1. m - 1 \in Nat /\ (m - 1) + 1 = m
    OBVIOUS
  <2> HIDE DEF P
  <2>2. m - 1 \in P
    BY <1>1, <1>2, <2>1, SetInduction
  <2>3. QED
    BY <2>1, <2>2 DEF P
<1>4. QED
  BY <1>3
-----------------------------------------------------------------------------
(* FlattenSeq.                                                             *)

\* The function that FlattenSeq defines by recursion, up to its n-th value.
IsFlatten(f, ss, n) ==
    f = [i \in 1..n |-> IF i = 1 THEN ss[i] ELSE f[i - 1] \o ss[i]]

LEMMA FlattenExists ==
    ASSUME NEW S, NEW ss \in Seq(Seq(S))
    PROVE  \E f : IsFlatten(f, ss, Len(ss))
<1> DEFINE P == {n \in Nat : n =< Len(ss) => \E f : IsFlatten(f, ss, n)}
<1>1. 0 \in P
  <2>1. IsFlatten([i \in 1..0 |-> ss[i]], ss, 0)
    BY DEF IsFlatten
  <2>2. QED
    BY <2>1
<1>2. ASSUME NEW n \in Nat, n \in P PROVE n + 1 \in P
  <2> SUFFICES ASSUME n + 1 =< Len(ss) PROVE \E f : IsFlatten(f, ss, n + 1)
    OBVIOUS
  <2>1. PICK f : IsFlatten(f, ss, n)
    <3>1. Len(ss) \in Nat
      BY LenProperties
    <3>2. QED
      BY <1>2, <3>1
  <2>2. f = [i \in 1..n |-> IF i = 1 THEN ss[i] ELSE f[i - 1] \o ss[i]]
    BY <2>1 DEF IsFlatten
  <2> DEFINE g == [i \in 1..(n + 1) |->
                     IF i = 1 THEN ss[i] ELSE IF i = n + 1 THEN f[n] \o ss[i] ELSE f[i]]
  <2>3. \A i \in 1..(n + 1) : g[i] = IF i = 1 THEN ss[i] ELSE g[i - 1] \o ss[i]
    <3>1. CASE n = 0
      BY <3>1
    <3>2. CASE n # 0
      <4> SUFFICES ASSUME NEW i \in 1..(n + 1)
                   PROVE  g[i] = IF i = 1 THEN ss[i] ELSE g[i - 1] \o ss[i]
        OBVIOUS
      <4>1. CASE i = n + 1
        <5>1. g[i - 1] = f[n] /\ i # 1
          BY <2>2, <3>2, <4>1
        <5>2. QED
          BY <4>1, <5>1
      <4>2. CASE i # n + 1 /\ i # 1
        <5>1. i \in 1..n /\ i - 1 \in 1..n
          BY <4>2
        <5>2. f[i] = f[i - 1] \o ss[i]
          BY <2>2, <4>2, <5>1
        <5>3. g[i] = f[i] /\ (i - 1 # 1 => g[i - 1] = f[i - 1])
          BY <4>2, <5>1
        <5>4. g[1] = ss[1] /\ f[1] = ss[1]
          BY <2>2, <3>2
        <5> HIDE DEF g
        <5>5. g[i - 1] = f[i - 1]
          BY <5>3, <5>4
        <5>6. QED
          BY <4>2, <5>2, <5>3, <5>5
      <4>3. QED
        BY <4>1, <4>2
    <3>3. QED
      BY <3>1, <3>2
  <2>4. IsFlatten(g, ss, n + 1)
    BY <2>3 DEF IsFlatten
  <2>5. QED
    BY <2>4
<1>3. QED
  <2>1. Len(ss) \in Nat
    BY LenProperties
  <2> HIDE DEF P
  <2>2. Len(ss) \in P
    BY <1>1, <1>2, <2>1, SetInduction
  <2>3. QED
    BY <2>1, <2>2 DEF P

\* The elements of c are those of a and b.
IsUnion(c, a, b) ==
    /\ \A k \in 1..Len(c) : \/ \E i \in 1..Len(a) : c[k] = a[i]
                            \/ \E i \in 1..Len(b) : c[k] = b[i]
    /\ \A i \in 1..Len(a) : \E k \in 1..Len(c) : c[k] = a[i]
    /\ \A i \in 1..Len(b) : \E k \in 1..Len(c) : c[k] = b[i]

\* What is in one of two sequences, and only that, is in their concatenation.
LEMMA ConcatElements ==
    ASSUME NEW S, NEW a \in Seq(S), NEW b \in Seq(S), NEW c, c = a \o b
    PROVE  c \in Seq(S) /\ IsUnion(c, a, b)
<1>1. /\ c \in Seq(S) /\ Len(c) = Len(a) + Len(b)
      /\ \A k \in 1..(Len(a) + Len(b)) :
            c[k] = IF k =< Len(a) THEN a[k] ELSE b[k - Len(a)]
  BY ConcatProperties
<1>2. Len(a) \in Nat /\ Len(b) \in Nat
  BY LenProperties
<1>3. ASSUME NEW k \in 1..Len(c)
      PROVE  (\E i \in 1..Len(a) : c[k] = a[i]) \/ (\E i \in 1..Len(b) : c[k] = b[i])
  <2>1. CASE k =< Len(a)
    BY <1>1, <1>2, <2>1
  <2>2. CASE ~(k =< Len(a))
    <3>1. k - Len(a) \in 1..Len(b) /\ c[k] = b[k - Len(a)]
      BY <1>1, <1>2, <2>2
    <3>2. QED
      BY <3>1
  <2>3. QED
    BY <2>1, <2>2
<1>4. ASSUME NEW i \in 1..Len(a) PROVE \E k \in 1..Len(c) : c[k] = a[i]
  <2>1. i \in 1..Len(c) /\ c[i] = a[i]
    BY <1>1, <1>2
  <2>2. QED
    BY <2>1
<1>5. ASSUME NEW i \in 1..Len(b) PROVE \E k \in 1..Len(c) : c[k] = b[i]
  <2> DEFINE k == Len(a) + i
  <2>1. k \in 1..(Len(a) + Len(b)) /\ ~(k =< Len(a)) /\ k - Len(a) = i
    BY <1>2
  <2>2. k \in 1..Len(c) /\ c[k] = b[i]
    BY <1>1, <2>1
  <2>3. QED
    BY <2>2
<1>6. QED
  BY <1>1, <1>3, <1>4, <1>5 DEF IsUnion

\* The elements of c are those of the sequences in ss.
AreElements(c, ss) ==
    /\ \A k \in 1..Len(c) : \E i \in 1..Len(ss) : \E j \in 1..Len(ss[i]) : c[k] = ss[i][j]
    /\ \A i \in 1..Len(ss) : \A j \in 1..Len(ss[i]) : \E k \in 1..Len(c) : c[k] = ss[i][j]

\* What is in the sequences, and only that, is in what FlattenSeq makes of them.
LEMMA FlattenElements ==
    ASSUME NEW S, NEW ss \in Seq(Seq(S))
    PROVE  FlattenSeq(ss) \in Seq(S) /\ AreElements(FlattenSeq(ss), ss)
<1>1. Len(ss) \in Nat
  BY LenProperties
<1>2. CASE Len(ss) = 0
  <2>1. FlattenSeq(ss) = ss /\ ss = <<>> /\ Len(FlattenSeq(ss)) = 0
    BY <1>2, EmptySeq DEF FlattenSeq
  <2>2. <<>> \in Seq(S) /\ 1..0 = {}
    OBVIOUS
  <2>3. QED
    BY <1>2, <2>1, <2>2 DEF AreElements
<1>3. CASE Len(ss) # 0
  <2> DEFINE f == CHOOSE f : IsFlatten(f, ss, Len(ss))
  <2>1. FlattenSeq(ss) = f[Len(ss)]
    BY <1>3 DEF FlattenSeq, IsFlatten
  <2>2. IsFlatten(f, ss, Len(ss))
    BY FlattenExists
  <2> HIDE DEF f
  <2>3. \A n \in 1..Len(ss) : f[n] = IF n = 1 THEN ss[n] ELSE f[n - 1] \o ss[n]
    BY <2>2 DEF IsFlatten
  <2> DEFINE Good(n) ==
               /\ f[n] \in Seq(S)
               /\ \A k \in 1..Len(f[n]) : \E i \in 1..n : \E j \in 1..Len(ss[i]) : f[n][k] = ss[i][j]
               /\ \A i \in 1..n : \A j \in 1..Len(ss[i]) : \E k \in 1..Len(f[n]) : f[n][k] = ss[i][j]
             P == {n \in 1..Len(ss) : Good(n)}
  <2>4. 1 \in P
    <3>1. f[1] = ss[1] /\ ss[1] \in Seq(S) /\ 1 \in 1..Len(ss)
      BY <1>1, <1>3, <2>3
    <3>2. \A i \in 1..1 : i = 1
      OBVIOUS
    <3>3. Good(1)
      BY <3>1, <3>2
    <3> HIDE DEF Good
    <3>4. QED
      BY <3>1, <3>3
  <2>5. ASSUME NEW n \in 1..Len(ss), n \in P, n # Len(ss) PROVE n + 1 \in P
    <3>1. Good(n)
      BY <2>5
    <3> HIDE DEF Good
    <3>2. n + 1 \in 1..Len(ss) /\ n + 1 # 1 /\ (n + 1) - 1 = n
      BY <1>1, <2>5
    <3>3. f[n + 1] = f[n] \o ss[n + 1] /\ ss[n + 1] \in Seq(S) /\ f[n] \in Seq(S)
      <4>1. PICK m \in 1..Len(ss) : m = n + 1 /\ m # 1 /\ m - 1 = n
        BY <3>2
      <4>2. f[m] = f[m - 1] \o ss[m]
        BY <2>3, <4>1, Zenon
      <4>3. f[m] = f[n] \o ss[m]
        BY <4>1, <4>2, Zenon
      <4>4. ss[m] \in Seq(S)
        BY ElementOfSeq
      <4>5. f[n] \in Seq(S)
        BY <3>1, Zenon DEF Good
      <4>6. QED
        BY <4>1, <4>3, <4>4, <4>5
    <3>4. /\ f[n + 1] \in Seq(S)
          /\ \A k \in 1..Len(f[n + 1]) : \/ \E i \in 1..Len(f[n]) : f[n + 1][k] = f[n][i]
                                         \/ \E j \in 1..Len(ss[n + 1]) : f[n + 1][k] = ss[n + 1][j]
          /\ \A i \in 1..Len(f[n]) : \E k \in 1..Len(f[n + 1]) : f[n + 1][k] = f[n][i]
          /\ \A j \in 1..Len(ss[n + 1]) : \E k \in 1..Len(f[n + 1]) : f[n + 1][k] = ss[n + 1][j]
      <4>1. f[n + 1] \in Seq(S) /\ IsUnion(f[n + 1], f[n], ss[n + 1])
        BY <3>3, ConcatElements
      <4>2. QED
        BY <4>1 DEF IsUnion
    <3>5. ASSUME NEW k \in 1..Len(f[n + 1])
          PROVE  \E i \in 1..(n + 1) : \E j \in 1..Len(ss[i]) : f[n + 1][k] = ss[i][j]
      <4>1. CASE \E i \in 1..Len(f[n]) : f[n + 1][k] = f[n][i]
        <5>1. \E i \in 1..n : \E j \in 1..Len(ss[i]) : f[n + 1][k] = ss[i][j]
          <6>1. PICK m \in 1..Len(f[n]) : f[n + 1][k] = f[n][m]
            BY <4>1
          <6>2. \E i \in 1..n : \E j \in 1..Len(ss[i]) : f[n][m] = ss[i][j]
            BY <3>1 DEF Good
          <6>3. QED
            BY <6>1, <6>2
        <5>2. \A i \in 1..n : i \in 1..(n + 1)
          OBVIOUS
        <5>3. QED
          BY <5>1, <5>2
      <4>2. CASE \E j \in 1..Len(ss[n + 1]) : f[n + 1][k] = ss[n + 1][j]
        <5>1. n + 1 \in 1..(n + 1)
          OBVIOUS
        <5>2. QED
          BY <4>2, <5>1
      <4>3. QED
        BY <3>4, <4>1, <4>2
    <3>6. ASSUME NEW i \in 1..(n + 1), NEW j \in 1..Len(ss[i])
          PROVE  \E k \in 1..Len(f[n + 1]) : f[n + 1][k] = ss[i][j]
      <4>1. CASE i \in 1..n
        <5>1. PICK k \in 1..Len(f[n]) : f[n][k] = ss[i][j]
          BY <3>1, <4>1 DEF Good
        <5>2. QED
          BY <3>4, <5>1
      <4>2. CASE i = n + 1
        BY <3>4, <4>2
      <4>3. QED
        BY <4>1, <4>2
    <3>7. Good(n + 1)
      BY <3>4, <3>5, <3>6 DEF Good
    <3>8. QED
      BY <3>2, <3>7
  <2>6. Good(Len(ss))
    <3>1. Len(ss) \in 1..Len(ss)
      BY <1>1, <1>3
    <3> HIDE DEF Good
    <3>2. 1..Len(ss) \subseteq P
      <4> HIDE DEF P
      <4>1. QED
        BY <1>1, <2>4, <2>5, RangeInduction
    <3>3. QED
      BY <3>1, <3>2
  <2>7. QED
    BY <2>1, <2>6 DEF AreElements
<1>4. QED
  BY <1>2, <1>3

\* g holds the results for the first 0, 1, ... Len(ss) sequences of ss.
IsFlat(g, ss, S) ==
    /\ g[0] = <<>>
    /\ \A n \in 1..Len(ss) : g[n] = g[n - 1] \o ss[n]
    /\ \A n \in 0..Len(ss) : g[n] \in Seq(S)

LEMMA FlatExists ==
    ASSUME NEW S, NEW ss \in Seq(Seq(S))
    PROVE  \E g : IsFlat(g, ss, S) /\ FlattenSeq(ss) = g[Len(ss)]
<1>1. Len(ss) \in Nat /\ \A n \in 1..Len(ss) : ss[n] \in Seq(S)
  BY LenProperties, ElementOfSeq
<1>2. PICK f : IsFlatten(f, ss, Len(ss)) /\ (Len(ss) # 0 => FlattenSeq(ss) = f[Len(ss)])
  <2> DEFINE f == CHOOSE f : IsFlatten(f, ss, Len(ss))
  <2>1. Len(ss) # 0 => FlattenSeq(ss) = f[Len(ss)]
    BY DEF FlattenSeq, IsFlatten
  <2>2. IsFlatten(f, ss, Len(ss))
    BY FlattenExists
  <2> HIDE DEF f
  <2>3. QED
    BY <2>1, <2>2
<1>3. \A n \in 1..Len(ss) : f[n] = IF n = 1 THEN ss[n] ELSE f[n - 1] \o ss[n]
  BY <1>2 DEF IsFlatten
<1> DEFINE g == [n \in 0..Len(ss) |-> IF n = 0 THEN <<>> ELSE f[n]]
<1>4. g[0] = <<>> /\ \A n \in 1..Len(ss) : g[n] = f[n]
  BY <1>1
<1>5. ASSUME NEW n \in 1..Len(ss) PROVE g[n] = g[n - 1] \o ss[n]
  <2>1. CASE n = 1
    <3>1. g[n] = ss[n] /\ g[n - 1] = <<>>
      BY <1>3, <1>4, <2>1
    <3>2. <<>> \o ss[n] = ss[n]
      BY <1>1, ConcatEmptySeq
    <3> HIDE DEF g
    <3>3. QED
      BY <3>1, <3>2
  <2>2. CASE n # 1
    <3>1. n - 1 \in 1..Len(ss)
      BY <1>1, <2>2
    <3>2. g[n] = f[n] /\ g[n - 1] = f[n - 1]
      BY <1>4, <3>1
    <3> HIDE DEF g
    <3>3. QED
      BY <1>3, <2>2, <3>2
  <2>3. QED
    BY <2>1, <2>2
<1> HIDE DEF g
<1>6. \A n \in 0..Len(ss) : g[n] \in Seq(S)
  <2> DEFINE P == {n \in Nat : n =< Len(ss) => g[n] \in Seq(S)}
  <2>1. 0 \in P
    BY <1>4, EmptySeq
  <2>2. ASSUME NEW n \in Nat, n \in P PROVE n + 1 \in P
    <3> SUFFICES ASSUME n + 1 =< Len(ss) PROVE g[n + 1] \in Seq(S)
      OBVIOUS
    <3>1. n + 1 \in 1..Len(ss) /\ (n + 1) - 1 = n /\ g[n] \in Seq(S)
      BY <1>1, <2>2
    <3>2. g[n + 1] = g[(n + 1) - 1] \o ss[n + 1] /\ ss[n + 1] \in Seq(S)
      BY <1>1, <1>5, <3>1
    <3>3. g[n] \o ss[n + 1] \in Seq(S)
      BY <3>1, <3>2, ConcatProperties
    <3>4. QED
      BY <3>1, <3>2, <3>3
  <2> HIDE DEF P
  <2>3. Nat \subseteq P
    BY <2>1, <2>2, SetInduction
  <2>4. QED
    BY <1>1, <2>3 DEF P
<1>7. FlattenSeq(ss) = g[Len(ss)]
  <2>1. CASE Len(ss) = 0
    <3>1. FlattenSeq(ss) = ss /\ ss = <<>>
      BY <2>1, EmptySeq DEF FlattenSeq
    <3>2. QED
      BY <1>4, <2>1, <3>1
  <2>2. CASE Len(ss) # 0
    <3>1. Len(ss) \in 1..Len(ss)
      BY <1>1, <2>2
    <3>2. QED
      BY <1>2, <1>4, <2>2, <3>1
  <2>3. QED
    BY <2>1, <2>2
<1>8. QED
  BY <1>4, <1>5, <1>6, <1>7 DEF IsFlat

\* A sequence more is flattened behind the others.
LEMMA FlattenAppend ==
    ASSUME NEW S, NEW ss \in Seq(Seq(S)), NEW x \in Seq(S), NEW tt, tt = Append(ss, x)
    PROVE  FlattenSeq(tt) = FlattenSeq(ss) \o x
<1> DEFINE m == Len(ss)
<1>1. /\ m \in Nat /\ tt \in Seq(Seq(S)) /\ Len(tt) = m + 1 /\ tt[m + 1] = x
      /\ \A n \in 1..m : tt[n] = ss[n]
  BY AppendProperties, LenProperties
<1>2. PICK g : IsFlat(g, ss, S) /\ FlattenSeq(ss) = g[m]
  BY FlatExists
<1>3. PICK h : IsFlat(h, tt, S) /\ FlattenSeq(tt) = h[m + 1]
  BY <1>1, FlatExists
<1> DEFINE P == {n \in Nat : n =< m => h[n] = g[n]}
<1>4. 0 \in P
  BY <1>2, <1>3 DEF IsFlat
<1>5. ASSUME NEW n \in Nat, n \in P PROVE n + 1 \in P
  <2> SUFFICES ASSUME n + 1 =< m PROVE h[n + 1] = g[n + 1]
    OBVIOUS
  <2>1. /\ n + 1 \in 1..m /\ n + 1 \in 1..Len(tt) /\ (n + 1) - 1 = n /\ h[n] = g[n]
        /\ tt[n + 1] = ss[n + 1]
    BY <1>1, <1>5
  <2>2. h[n + 1] = h[(n + 1) - 1] \o tt[n + 1]
    BY <1>3, <2>1 DEF IsFlat
  <2>3. g[n + 1] = g[(n + 1) - 1] \o ss[n + 1]
    BY <1>2, <2>1 DEF IsFlat
  <2>4. QED
    BY <2>1, <2>2, <2>3
<1> HIDE DEF P
<1>6. Nat \subseteq P
  BY <1>4, <1>5, SetInduction
<1>7. h[m] = g[m]
  BY <1>1, <1>6 DEF P
<1>8. m + 1 \in 1..Len(tt) /\ (m + 1) - 1 = m
  BY <1>1
<1>9. h[m + 1] = h[(m + 1) - 1] \o tt[m + 1]
  BY <1>3, <1>8 DEF IsFlat
<1>10. QED
  BY <1>1, <1>2, <1>3, <1>7, <1>8, <1>9

\* The first sequence is flattened in front of the others.
LEMMA FlattenTail ==
    ASSUME NEW S, NEW ss \in Seq(Seq(S)), ss # <<>>
    PROVE  /\ Tail(ss) \in Seq(Seq(S)) /\ ss[1] \in Seq(S) /\ FlattenSeq(Tail(ss)) \in Seq(S)
           /\ FlattenSeq(ss) = ss[1] \o FlattenSeq(Tail(ss))
<1> DEFINE tt == Tail(ss)
           m == Len(tt)
<1>1. /\ tt \in Seq(Seq(S)) /\ Len(ss) = m + 1 /\ m \in Nat
      /\ \A n \in 1..m : tt[n] = ss[n + 1]
  <2>1. Len(ss) \in Nat \ {0}
    BY EmptySeq
  <2>2. Len(tt) = Len(ss) - 1
    BY HeadTailProperties
  <2>3. QED
    BY <2>1, <2>2, HeadTailProperties
<1>2. 1 \in 1..Len(ss) /\ \A n \in 1..m : tt[n] \in Seq(S)
  BY <1>1, ElementOfSeq
<1>3. ss[1] \in Seq(S)
  BY <1>2, ElementOfSeq
<1> HIDE DEF tt
<1>4. PICK g : IsFlat(g, ss, S) /\ FlattenSeq(ss) = g[Len(ss)]
  BY FlatExists
<1>5. PICK h : IsFlat(h, tt, S) /\ FlattenSeq(tt) = h[m]
  BY <1>1, FlatExists
<1>5a. PICK a \in Seq(S) : a = ss[1]
  BY <1>3
<1> DEFINE k == [n \in Nat |-> g[n + 1]]
<1>6. \A n \in Nat : k[n] = g[n + 1]
  OBVIOUS
<1> HIDE DEF k
<1> DEFINE P == {n \in Nat : n =< m => k[n] = a \o h[n]}
<1>7. 0 \in P
  <2>1. g[1] = g[1 - 1] \o a
    BY <1>2, <1>4, <1>5a DEF IsFlat
  <2>2. 1 - 1 = 0 /\ g[0] = <<>> /\ h[0] = <<>>
    BY <1>4, <1>5 DEF IsFlat
  <2>3. <<>> \o a = a /\ a \o <<>> = a
    BY ConcatEmptySeq
  <2>4. k[0] = g[1]
    BY <1>6
  <2>5. k[0] = a \o h[0]
    BY <2>1, <2>2, <2>3, <2>4
  <2>6. QED
    BY <2>5
<1>8. ASSUME NEW n \in Nat, n \in P PROVE n + 1 \in P
  <2> DEFINE x == tt[n + 1]
             y == h[n]
             z == h[n + 1]
  <2> SUFFICES ASSUME n + 1 =< m PROVE k[n + 1] = a \o z
    OBVIOUS
  <2>1. n =< m /\ n + 1 \in 1..m /\ (n + 1) - 1 = n /\ n \in 0..m /\ n + 1 \in Nat
    BY <1>1
  <2>2. k[n] = a \o h[n]
    BY <1>8, <2>1
  <2> HIDE DEF P
  <2>3. PICK j \in Nat : j = (n + 1) + 1
    OBVIOUS
  <2>4. j \in 1..Len(ss) /\ j - 1 = n + 1
    BY <1>1, <2>1, <2>3
  <2>5. tt[n + 1] = ss[j] /\ k[n + 1] = g[j] /\ k[n] = g[n + 1]
    BY <1>1, <1>6, <2>1, <2>3
  <2>6. g[j] = g[j - 1] \o ss[j]
    BY <1>4, <2>4 DEF IsFlat
  <2>7. h[n + 1] = h[(n + 1) - 1] \o tt[n + 1] /\ h[n] \in Seq(S)
    BY <1>5, <2>1 DEF IsFlat
  <2>8. tt[n + 1] \in Seq(S)
    BY <1>2, <2>1
  <2>9. (a \o y) \o x = a \o (y \o x)
    <3>1. x \in Seq(S) /\ y \in Seq(S)
      BY <2>7, <2>8
    <3> HIDE DEF x, y
    <3>2. QED
      BY <3>1, ConcatAssociative
  <2>10. k[n + 1] = k[n] \o tt[n + 1]
    BY <2>4, <2>5, <2>6
  <2>11. h[n + 1] = h[n] \o tt[n + 1]
    BY <2>1, <2>7
  <2>12. QED
    BY <2>2, <2>9, <2>10, <2>11
<1> HIDE DEF P
<1>9. g[m + 1] = a \o h[m]
  <2>1. m \in P /\ m =< m
    <3>1. Nat \subseteq P
      BY <1>7, <1>8, SetInduction
    <3>2. QED
      BY <1>1, <3>1
  <2>2. k[m] = a \o h[m]
    BY <2>1 DEF P
  <2>3. QED
    BY <1>1, <1>5a, <1>6, <2>2
<1>10. h[m] \in Seq(S)
  <2>1. m \in 0..m
    BY <1>1
  <2>2. QED
    BY <1>5, <2>1 DEF IsFlat
<1>11. QED
  <2>1. FlattenSeq(ss) = ss[1] \o FlattenSeq(tt) /\ FlattenSeq(tt) \in Seq(S)
    BY <1>1, <1>4, <1>5, <1>5a, <1>9, <1>10
  <2>2. QED
    BY <1>1, <1>3, <2>1 DEF tt

\* Sequences of one element each, or of none.
LEMMA FlattenSingletons ==
    ASSUME NEW S, NEW t \in Seq(S), NEW ss, ss = [i \in 1..Len(t) |-> <<t[i]>>]
    PROVE  FlattenSeq(ss) = t
<1> DEFINE m == Len(t)
<1>1. m \in Nat /\ \A i \in 1..m : t[i] \in S
  BY LenProperties, ElementOfSeq
<1>2. ss \in Seq(Seq(S)) /\ Len(ss) = m /\ \A i \in 1..m : ss[i] = <<t[i]>>
  <2>1. \A i \in 1..m : <<t[i]>> \in Seq(S)
    BY <1>1
  <2>2. QED
    BY <1>1, <2>1
<1>3. PICK g : IsFlat(g, ss, S) /\ FlattenSeq(ss) = g[m]
  BY <1>2, FlatExists
<1> DEFINE P == {n \in Nat : n =< m => Len(g[n]) = n /\ \A i \in 1..n : g[n][i] = t[i]}
<1>4. 0 \in P
  <2>1. g[0] = <<>> /\ Len(<<>>) = 0 /\ 1..0 = {}
    BY <1>3 DEF IsFlat
  <2>2. Len(g[0]) = 0 /\ \A i \in 1..0 : g[0][i] = t[i]
    BY <2>1
  <2>3. QED
    BY <2>2
<1>5. ASSUME NEW n \in Nat, n \in P PROVE n + 1 \in P
  <2> SUFFICES ASSUME n + 1 =< m
               PROVE  Len(g[n + 1]) = n + 1 /\ \A i \in 1..(n + 1) : g[n + 1][i] = t[i]
    OBVIOUS
  <2>1. /\ n + 1 \in 1..m /\ (n + 1) - 1 = n /\ n \in 0..m
        /\ Len(g[n]) = n /\ \A i \in 1..n : g[n][i] = t[i]
    BY <1>1, <1>5
  <2>2. g[n + 1] = g[(n + 1) - 1] \o ss[n + 1] /\ g[n] \in Seq(S)
    BY <1>2, <1>3, <2>1 DEF IsFlat
  <2> DEFINE o == <<t[n + 1]>>
  <2>3. ss[n + 1] = o /\ o \in Seq(S) /\ Len(o) = 1 /\ o[1] = t[n + 1]
    BY <1>1, <1>2, <2>1
  <2> HIDE DEF o
  <2>4. g[n + 1] = g[n] \o o
    BY <2>1, <2>2, <2>3
  <2>5. /\ Len(g[n] \o o) = n + 1
        /\ \A i \in 1..(n + 1) : (g[n] \o o)[i] = IF i =< n THEN g[n][i] ELSE o[i - n]
    <3> DEFINE y == g[n]
    <3>1. y \in Seq(S) /\ Len(y) = n
      BY <2>1, <2>2
    <3> HIDE DEF y
    <3>2. /\ Len(y \o o) = Len(y) + Len(o)
          /\ \A i \in 1..(Len(y) + Len(o)) :
                (y \o o)[i] = IF i =< Len(y) THEN y[i] ELSE o[i - Len(y)]
      <4>1. o \in Seq(S)
        BY <2>3
      <4>2. QED
        BY <3>1, <4>1, ConcatProperties
    <3>3. Len(y) + Len(o) = n + 1
      BY <2>3, <3>1
    <3>4. QED
      BY <3>1, <3>2, <3>3 DEF y
  <2>6. ASSUME NEW i \in 1..(n + 1) PROVE g[n + 1][i] = t[i]
    <3>1. CASE i =< n
      BY <2>1, <2>4, <2>5, <3>1
    <3>2. CASE ~(i =< n)
      <4>1. i = n + 1 /\ i - n = 1
        BY <3>2
      <4>2. QED
        BY <2>3, <2>4, <2>5, <3>2, <4>1
    <3>3. QED
      BY <3>1, <3>2
  <2>7. QED
    BY <2>4, <2>5, <2>6
<1> HIDE DEF P
<1>6. m \in P
  BY <1>1, <1>4, <1>5, SetInduction
<1>7. g[m] \in Seq(S) /\ Len(g[m]) = m /\ \A i \in 1..m : g[m][i] = t[i]
  <2>1. m \in 0..m
    BY <1>1
  <2>2. QED
    BY <1>2, <1>3, <1>6, <2>1 DEF IsFlat, P
<1>8. g[m] = t
  BY <1>7, SeqEqual
<1>9. QED
  BY <1>3, <1>8

LEMMA FlattenNothing ==
    ASSUME NEW S, NEW ss \in Seq(Seq(S)), \A i \in 1..Len(ss) : ss[i] = <<>>
    PROVE  FlattenSeq(ss) = <<>>
<1> DEFINE m == Len(ss)
<1>1. m \in Nat
  BY LenProperties
<1>2. PICK g : IsFlat(g, ss, S) /\ FlattenSeq(ss) = g[m]
  BY FlatExists
<1> DEFINE P == {n \in Nat : n =< m => g[n] = <<>>}
<1>3. 0 \in P
  BY <1>2 DEF IsFlat
<1>4. ASSUME NEW n \in Nat, n \in P PROVE n + 1 \in P
  <2> SUFFICES ASSUME n + 1 =< m PROVE g[n + 1] = <<>>
    OBVIOUS
  <2>1. n + 1 \in 1..m /\ (n + 1) - 1 = n /\ g[n] = <<>> /\ ss[n + 1] = <<>>
    BY <1>1, <1>4
  <2>2. g[n + 1] = g[(n + 1) - 1] \o ss[n + 1]
    BY <1>2, <2>1 DEF IsFlat
  <2>3. <<>> \o <<>> = <<>>
    BY EmptySeq, ConcatEmptySeq
  <2>4. QED
    BY <2>1, <2>2, <2>3
<1> HIDE DEF P
<1>5. m \in P
  BY <1>1, <1>3, <1>4, SetInduction
<1>6. QED
  BY <1>1, <1>2, <1>5 DEF P
-----------------------------------------------------------------------------
\* RemoveAt keeps the order of the others.
LEMMA RemoveAtElements ==
    ASSUME NEW S, NEW t \in Seq(S), NEW n \in 1..Len(t)
    PROVE  /\ RemoveAt(t, n) \in Seq(S) /\ Len(RemoveAt(t, n)) = Len(t) - 1
           /\ \A i \in 1..Len(RemoveAt(t, n)) :
                 RemoveAt(t, n)[i] = t[IF i < n THEN i ELSE i + 1]
<1> DEFINE a == SubSeq(t, 1, n - 1)
           b == SubSeq(t, n + 1, Len(t))
           c == a \o b
<1>1. Len(t) \in Nat /\ n \in Nat /\ n >= 1 /\ n =< Len(t)
  BY LenProperties
<1>2. /\ a \in Seq(S) /\ Len(a) = n - 1
      /\ \A i \in 1..(n - 1) : a[i] = t[i]
  <2>1. \A i \in 1..(n - 1) : t[i] \in S
    BY <1>1, ElementOfSeq
  <2>2. QED
    BY <1>1, <2>1
<1>3. /\ b \in Seq(S) /\ Len(b) = Len(t) - n
      /\ \A i \in 1..(Len(t) - n) : b[i] = t[n + i]
  <2>1. \A i \in (n + 1)..Len(t) : t[i] \in S
    BY <1>1, ElementOfSeq
  <2>2. QED
    BY <1>1, <2>1, SubSeqProperties
<1> HIDE DEF a, b
<1>4. /\ c \in Seq(S) /\ Len(c) = Len(t) - 1
      /\ \A i \in 1..(Len(t) - 1) : c[i] = IF i =< n - 1 THEN a[i] ELSE b[i - (n - 1)]
  <2>1. /\ c \in Seq(S) /\ Len(c) = Len(a) + Len(b)
        /\ \A i \in 1..(Len(a) + Len(b)) :
              c[i] = IF i =< Len(a) THEN a[i] ELSE b[i - Len(a)]
    BY <1>2, <1>3, ConcatProperties
  <2>2. Len(a) + Len(b) = Len(t) - 1
    BY <1>1, <1>2, <1>3
  <2> HIDE DEF c
  <2>3. QED
    BY <1>2, <2>1, <2>2
<1> HIDE DEF c
<1>5. ASSUME NEW i \in 1..Len(c) PROVE c[i] = t[IF i < n THEN i ELSE i + 1]
  <2>1. CASE i < n
    BY <1>1, <1>2, <1>4, <2>1
  <2>2. CASE ~(i < n)
    <3>1. i - (n - 1) \in 1..(Len(t) - n) /\ n + (i - (n - 1)) = i + 1
      BY <1>1, <1>4, <2>2
    <3>2. c[i] = b[i - (n - 1)] /\ b[i - (n - 1)] = t[n + (i - (n - 1))]
      BY <1>1, <1>3, <1>4, <2>2, <3>1
    <3>3. QED
      BY <2>2, <3>1, <3>2
  <2>3. QED
    BY <2>1, <2>2
<1>6. RemoveAt(t, n) = c
  BY DEF RemoveAt, a, b, c
<1>7. QED
  BY <1>4, <1>5, <1>6
=============================================================================
