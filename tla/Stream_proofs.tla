---------------------------- MODULE Stream_proofs -----------------------------
(***************************************************************************)
(* Proofs about Stream, for any plans of the sender, any sizes of the      *)
(* kernel's queue and of the receiver's buffer, and any kind of socket.    *)
(***************************************************************************)
EXTENDS Stream, Induction

-----------------------------------------------------------------------------
(* Total.                                                                  *)

\* The elements of s have sizes.
HasSizes(s) == Len(s) \in Nat /\ \A i \in 1..Len(s) : s[i].n \in Nat

\* The function that Total defines by recursion, up to its m-th value.
IsTotal(f, s, m) == f = [i \in 0..m |-> IF i = 0 THEN 0 ELSE f[i - 1] + s[i].n]

LEMMA TotalExists ==
    ASSUME NEW s, HasSizes(s)
    PROVE  \E f : IsTotal(f, s, Len(s))
<1> DEFINE P == {m \in Nat : m =< Len(s) => \E f : IsTotal(f, s, m)}
<1>1. 0 \in P
  <2>1. IsTotal([i \in 0..0 |-> 0], s, 0)
    BY DEF IsTotal
  <2>2. QED
    BY <2>1
<1>2. ASSUME NEW m \in Nat, m \in P PROVE m + 1 \in P
  <2> SUFFICES ASSUME m + 1 =< Len(s) PROVE \E f : IsTotal(f, s, m + 1)
    OBVIOUS
  <2>1. PICK f : IsTotal(f, s, m)
    BY <1>2 DEF HasSizes
  <2>2. f = [i \in 0..m |-> IF i = 0 THEN 0 ELSE f[i - 1] + s[i].n]
    BY <2>1 DEF IsTotal
  <2> DEFINE g == [i \in 0..(m + 1) |-> IF i = m + 1 THEN f[m] + s[m + 1].n ELSE f[i]]
  <2>3. \A i \in 0..(m + 1) : g[i] = IF i = 0 THEN 0 ELSE g[i - 1] + s[i].n
    <3> SUFFICES ASSUME NEW i \in 0..(m + 1)
                 PROVE  g[i] = IF i = 0 THEN 0 ELSE g[i - 1] + s[i].n
      OBVIOUS
    <3>1. CASE i = 0
      BY <2>2, <3>1
    <3>2. CASE i = m + 1
      BY <3>2
    <3>3. CASE i # 0 /\ i # m + 1
      <4>1. i \in 0..m /\ i - 1 \in 0..m /\ i - 1 # m + 1
        BY <3>3
      <4>2. g[i] = f[i] /\ g[i - 1] = f[i - 1]
        BY <3>3, <4>1
      <4>3. f[i] = f[i - 1] + s[i].n
        BY <2>2, <3>3, <4>1
      <4>4. QED
        BY <3>3, <4>2, <4>3
    <3>4. QED
      BY <3>1, <3>2, <3>3
  <2>4. IsTotal(g, s, m + 1)
    BY <2>3 DEF IsTotal
  <2>5. QED
    BY <2>4
<1>3. QED
  <2> HIDE DEF P
  <2>1. Len(s) \in P
    BY <1>1, <1>2, SetInduction DEF HasSizes
  <2>2. QED
    BY <2>1 DEF P, HasSizes

\* What the recursion says.
LEMMA TotalSteps ==
    ASSUME NEW s, HasSizes(s)
    PROVE  /\ Total(s)[0] = 0
           /\ \A i \in 1..Len(s) : Total(s)[i] = Total(s)[i - 1] + s[i].n
<1> DEFINE f == CHOOSE f : IsTotal(f, s, Len(s))
<1>1. Total(s) = f
  BY DEF Total, IsTotal
<1>2. IsTotal(f, s, Len(s))
  BY TotalExists
<1> HIDE DEF f
<1>3. f = [i \in 0..Len(s) |-> IF i = 0 THEN 0 ELSE f[i - 1] + s[i].n]
  BY <1>2 DEF IsTotal
<1>4. Len(s) \in Nat
  BY DEF HasSizes
<1>5. f[0] = 0
  BY <1>3, <1>4
<1>6. ASSUME NEW i \in 1..Len(s) PROVE f[i] = f[i - 1] + s[i].n
  <2>1. i \in 0..Len(s) /\ i # 0
    BY <1>4
  <2>2. QED
    BY <1>3, <2>1
<1>7. QED
  BY <1>1, <1>5, <1>6

LEMMA TotalNat ==
    ASSUME NEW s, HasSizes(s)
    PROVE  \A i \in 0..Len(s) : Total(s)[i] \in Nat
<1> DEFINE P == {i \in Nat : i =< Len(s) => Total(s)[i] \in Nat}
<1>1. 0 \in P
  BY TotalSteps
<1>2. ASSUME NEW i \in Nat, i \in P PROVE i + 1 \in P
  <2> SUFFICES ASSUME i + 1 =< Len(s) PROVE Total(s)[i + 1] \in Nat
    OBVIOUS
  <2>1. Total(s)[i] \in Nat /\ i + 1 \in 1..Len(s) /\ (i + 1) - 1 = i /\ s[i + 1].n \in Nat
    BY <1>2 DEF HasSizes
  <2>2. Total(s)[i + 1] = Total(s)[(i + 1) - 1] + s[i + 1].n
    BY <2>1, TotalSteps
  <2>3. QED
    BY <2>1, <2>2
<1>3. QED
  <2> HIDE DEF P
  <2>1. Nat \subseteq P
    BY <1>1, <1>2, SetInduction
  <2>2. QED
    BY <2>1 DEF P, HasSizes

\* Two sequences that agree on some stretch grow by the same there.
Agree(s, t, a, b, m) == \A i \in 1..m : s[a + i].n = t[b + i].n

LEMMA TotalAgree ==
    ASSUME NEW s, NEW t, HasSizes(s), HasSizes(t), NEW a \in Nat, NEW b \in Nat, NEW m \in Nat,
           a + m =< Len(s), b + m =< Len(t), Agree(s, t, a, b, m)
    PROVE  Total(s)[a + m] - Total(s)[a] = Total(t)[b + m] - Total(t)[b]
<1> DEFINE P == {i \in Nat : i =< m => Total(s)[a + i] - Total(s)[a] = Total(t)[b + i] - Total(t)[b]}
<1>1. Total(s)[a] \in Nat /\ Total(t)[b] \in Nat
  <2>1. a \in 0..Len(s) /\ b \in 0..Len(t)
    BY DEF HasSizes
  <2>2. QED
    BY <2>1, TotalNat
<1>2. 0 \in P
  BY <1>1
<1>3. ASSUME NEW i \in Nat, i \in P PROVE i + 1 \in P
  <2> SUFFICES ASSUME i + 1 =< m
               PROVE  Total(s)[a + (i + 1)] - Total(s)[a] = Total(t)[b + (i + 1)] - Total(t)[b]
    OBVIOUS
  <2>1. Total(s)[a + i] - Total(s)[a] = Total(t)[b + i] - Total(t)[b]
    BY <1>3
  <2>2. /\ a + (i + 1) \in 1..Len(s) /\ (a + (i + 1)) - 1 = a + i /\ a + i \in 0..Len(s)
        /\ b + (i + 1) \in 1..Len(t) /\ (b + (i + 1)) - 1 = b + i /\ b + i \in 0..Len(t)
        /\ i + 1 \in 1..m
    BY DEF HasSizes
  <2>3. Total(s)[a + i] \in Nat /\ Total(t)[b + i] \in Nat
    BY <2>2, TotalNat
  <2>4. /\ Total(s)[a + (i + 1)] = Total(s)[(a + (i + 1)) - 1] + s[a + (i + 1)].n
        /\ Total(t)[b + (i + 1)] = Total(t)[(b + (i + 1)) - 1] + t[b + (i + 1)].n
    BY <2>2, TotalSteps
  <2>5. s[a + (i + 1)].n = t[b + (i + 1)].n /\ s[a + (i + 1)].n \in Nat
    BY <2>2 DEF HasSizes, Agree
  <2>6. /\ Total(s)[a + (i + 1)] = Total(s)[a + i] + s[a + (i + 1)].n
        /\ Total(t)[b + (i + 1)] = Total(t)[b + i] + s[a + (i + 1)].n
    BY <2>2, <2>4, <2>5
  <2> DEFINE x0 == Total(s)[a]
             x1 == Total(s)[a + i]
             y0 == Total(t)[b]
             y1 == Total(t)[b + i]
             d == s[a + (i + 1)].n
  <2>7. x0 \in Nat /\ x1 \in Nat /\ y0 \in Nat /\ y1 \in Nat /\ d \in Nat /\ x1 - x0 = y1 - y0
    BY <1>1, <2>1, <2>3, <2>5
  <2>8. Total(s)[a + (i + 1)] = x1 + d /\ Total(t)[b + (i + 1)] = y1 + d
    BY <2>6
  <2> HIDE DEF x0, x1, y0, y1, d
  <2>9. (x1 + d) - x0 = (y1 + d) - y0
    BY <2>7
  <2>10. QED
    BY <2>8, <2>9 DEF x0, y0
<1>4. QED
  <2> HIDE DEF P
  <2>1. m \in P
    BY <1>2, <1>3, SetInduction
  <2>2. QED
    BY <2>1 DEF P

\* In particular at the beginning,
SameUpTo(s, t, m) == \A i \in 1..m : s[i].n = t[i].n

LEMMA SamePrefix ==
    ASSUME NEW s, NEW t, HasSizes(s), HasSizes(t), NEW m \in Nat, m =< Len(s), m =< Len(t),
           SameUpTo(s, t, m)
    PROVE  Total(s)[m] = Total(t)[m] /\ Total(s)[m] \in Nat
<1>1. PICK z \in Nat : z = 0
  OBVIOUS
<1>2. z + m =< Len(s) /\ z + m =< Len(t) /\ Agree(s, t, z, z, m)
  BY <1>1 DEF Agree, SameUpTo
<1>3. Total(s)[z + m] - Total(s)[z] = Total(t)[z + m] - Total(t)[z]
  BY <1>2, TotalAgree
<1>4. z + m = m /\ Total(s)[z] = 0 /\ Total(t)[z] = 0
  BY <1>1, TotalSteps
<1>5. Total(s)[m] \in Nat /\ Total(t)[m] \in Nat
  <2>1. m \in 0..Len(s) /\ m \in 0..Len(t)
    OBVIOUS
  <2>2. QED
    BY <2>1, TotalNat
<1>6. Total(s)[m] - 0 = Total(t)[m] - 0
  BY <1>3, <1>4
<1>7. QED
  BY <1>5, <1>6

\* and after the first element.
LEMMA SameTail ==
    ASSUME NEW s, NEW t, HasSizes(s), HasSizes(t), Len(s) = Len(t) + 1,
           \A i \in 1..Len(t) : s[i + 1].n = t[i].n
    PROVE  Total(s)[Len(s)] = s[1].n + Total(t)[Len(t)]
<1>1. PICK z \in Nat, y \in Nat : z = 0 /\ y = 1
  OBVIOUS
<1> DEFINE m == Len(t)
<1>2. m \in Nat /\ y + m =< Len(s) /\ z + m =< Len(t)
  BY <1>1 DEF HasSizes
<1>3. ASSUME NEW i \in 1..m PROVE s[y + i].n = t[z + i].n
  <2>1. y + i = i + 1 /\ z + i = i
    BY <1>1
  <2>2. QED
    BY <2>1
<1>4. Total(s)[y + m] - Total(s)[y] = Total(t)[z + m] - Total(t)[z]
  <2>1. Agree(s, t, y, z, m)
    BY <1>3 DEF Agree
  <2> HIDE DEF m
  <2>2. QED
    BY <1>2, <2>1, TotalAgree
<1>5. y + m = Len(s) /\ z + m = m
  BY <1>1, <1>2
<1>6. /\ Total(t)[0] = 0 /\ Total(s)[0] = 0
      /\ Total(s)[1] = Total(s)[1 - 1] + s[1].n /\ 1 - 1 = 0 /\ s[1].n \in Nat
  <2>1. 1 \in 1..Len(s)
    BY <1>2
  <2>2. QED
    BY <2>1, TotalSteps DEF HasSizes
<1>7. Total(s)[y] = s[1].n /\ Total(t)[z] = 0
  BY <1>1, <1>6
<1>8. Total(s)[Len(s)] \in Nat /\ Total(t)[m] \in Nat
  <2>1. Len(s) \in 0..Len(s) /\ m \in 0..Len(t)
    BY <1>2
  <2>2. QED
    BY <2>1, TotalNat
<1>9. Total(s)[Len(s)] - s[1].n = Total(t)[m] - 0
  BY <1>4, <1>5, <1>7
<1>10. QED
  BY <1>6, <1>8, <1>9
-----------------------------------------------------------------------------
(* The kernel's queue.                                                     *)

Segment == [n : Nat, rights : Seq(Nat)]
Sum(q) == Total(q)[Len(q)]

LEMMA SegmentsHaveSizes ==
    ASSUME NEW q \in Seq(Segment)
    PROVE  HasSizes(q) /\ Sum(q) \in Nat /\ Total(q)[0] = 0
<1>1. Len(q) \in Nat /\ \A i \in 1..Len(q) : q[i] \in Segment
  BY LenProperties, ElementOfSeq
<1>2. HasSizes(q) /\ Len(q) \in 0..Len(q)
  BY <1>1 DEF Segment, HasSizes
<1>3. QED
  BY <1>2, TotalNat, TotalSteps DEF Sum

LEMMA AppendSum ==
    ASSUME NEW q \in Seq(Segment), NEW e \in Segment
    PROVE  Append(q, e) \in Seq(Segment) /\ Sum(Append(q, e)) = Sum(q) + e.n
<1> DEFINE r == Append(q, e)
           m == Len(q)
<1>1. /\ r \in Seq(Segment) /\ m \in Nat /\ Len(r) = m + 1 /\ r[m + 1] = e
      /\ \A i \in 1..m : r[i] = q[i]
  BY AppendProperties, LenProperties
<1> HIDE DEF r
<1>2. HasSizes(q) /\ HasSizes(r) /\ Total(q)[0] = 0 /\ Total(r)[0] = 0 /\ Sum(q) \in Nat
  BY <1>1, SegmentsHaveSizes
<1>3. m =< Len(r) /\ m + 1 \in 1..Len(r) /\ (m + 1) - 1 = m
  BY <1>1
<1>4. Total(r)[m] = Total(q)[m] /\ Total(r)[m] \in Nat
  <2>1. SameUpTo(r, q, m)
    BY <1>1 DEF SameUpTo
  <2>2. QED
    BY <1>1, <1>2, <1>3, <2>1, SamePrefix
<1>5. Total(r)[m + 1] = Total(r)[(m + 1) - 1] + r[m + 1].n
  BY <1>2, <1>3, TotalSteps
<1>6. QED
  BY <1>1, <1>3, <1>4, <1>5 DEF Sum, r

LEMMA ChangeLastSum ==
    ASSUME NEW q \in Seq(Segment), q # <<>>, NEW e \in Segment
    PROVE  LET r == [q EXCEPT ![Len(q)] = e] IN
           /\ r \in Seq(Segment) /\ Len(r) = Len(q) /\ r[Len(q)] = e
           /\ \A i \in 1..Len(q) : i # Len(q) => r[i] = q[i]
           /\ Sum(r) = (Sum(q) - q[Len(q)].n) + e.n
<1> DEFINE m == Len(q) - 1
           r == [q EXCEPT ![Len(q)] = e]
<1>1. /\ Len(q) \in Nat /\ Len(q) # 0 /\ m \in Nat /\ m + 1 = Len(q) /\ Len(q) \in 1..Len(q)
  BY EmptySeq, LenProperties
<1>1a. m =< Len(q) /\ \A i \in 1..m : i \in 1..Len(q) /\ i # Len(q)
  <2>1. Len(q) \in Nat
    BY LenProperties
  <2>2. QED
    BY <2>1
<1>2. /\ r \in Seq(Segment) /\ Len(r) = Len(q) /\ r[Len(q)] = e
      /\ \A i \in 1..Len(q) : i # Len(q) => r[i] = q[i]
  <2>1. PICK k \in 1..Len(q) : k = Len(q)
    BY <1>1
  <2>2. /\ [q EXCEPT ![k] = e] \in Seq(Segment) /\ Len([q EXCEPT ![k] = e]) = Len(q)
        /\ \A j \in 1..Len(q) : [q EXCEPT ![k] = e][j] = IF j = k THEN e ELSE q[j]
    BY ExceptSeq
  <2>3. r = [q EXCEPT ![k] = e]
    BY <2>1
  <2>4. QED
    BY <2>1, <2>2, <2>3
<1> HIDE DEF r
<1>3. HasSizes(q) /\ HasSizes(r) /\ Total(q)[0] = 0 /\ Total(r)[0] = 0
  BY <1>2, SegmentsHaveSizes
<1>4. m =< Len(q) /\ Len(r) = Len(q)
  BY <1>1a, <1>2
<1>5. SameUpTo(r, q, m)
  <2> SUFFICES ASSUME NEW i \in 1..m PROVE r[i] = q[i]
    BY DEF SameUpTo
  <2>1. i \in 1..Len(q) /\ i # Len(q)
    BY <1>1a
  <2>2. QED
    BY <1>2, <2>1
<1>6. Total(r)[m] = Total(q)[m] /\ Total(q)[m] \in Nat
  <2> HIDE DEF m
  <2>1. QED
    BY <1>1, <1>3, <1>4, <1>5, SamePrefix
<1>7. Len(q) - 1 = m /\ Total(r)[Len(q)] = Total(r)[Len(q) - 1] + r[Len(q)].n
      /\ Total(q)[Len(q)] = Total(q)[Len(q) - 1] + q[Len(q)].n
  BY <1>1, <1>2, <1>3, TotalSteps
<1>8. Sum(r) = Total(q)[m] + e.n /\ Sum(q) = Total(q)[m] + q[Len(q)].n
  BY <1>2, <1>6, <1>7 DEF Sum
<1>9. e.n \in Nat /\ q[Len(q)].n \in Nat
  BY <1>1, <1>3 DEF HasSizes, Segment
<1>10. (Sum(q) - q[Len(q)].n) + e.n = Sum(r)
  BY <1>6, <1>8, <1>9
<1>11. QED
  BY <1>2, <1>10 DEF r

LEMMA TailSum ==
    ASSUME NEW q \in Seq(Segment), q # <<>>
    PROVE  /\ Tail(q) \in Seq(Segment) /\ Len(Tail(q)) = Len(q) - 1
           /\ \A i \in 1..Len(Tail(q)) : Tail(q)[i] = q[i + 1] /\ i + 1 \in 1..Len(q)
           /\ Sum(Tail(q)) = Sum(q) - q[1].n
<1> DEFINE r == Tail(q)
           m == Len(q) - 1
<1>1. /\ Len(q) \in Nat /\ Len(q) # 0 /\ m \in Nat /\ 1 + m = Len(q) /\ 1 \in 1..Len(q)
  BY EmptySeq, LenProperties
<1>2. /\ r \in Seq(Segment) /\ Len(r) = m /\ \A i \in 1..m : r[i] = q[i + 1]
  BY HeadTailProperties
<1> HIDE DEF r
<1>3. HasSizes(q) /\ HasSizes(r) /\ Total(q)[0] = 0 /\ Total(r)[0] = 0
  BY <1>2, SegmentsHaveSizes
<1>4. Sum(q) = q[1].n + Sum(r)
  <2>1. Len(q) = Len(r) + 1 /\ \A i \in 1..Len(r) : q[i + 1].n = r[i].n
    BY <1>1, <1>2
  <2>2. QED
    BY <1>3, <2>1, SameTail DEF Sum
<1>5. q[1].n \in Nat /\ Sum(r) \in Nat
  BY <1>1, <1>2, <1>3, SegmentsHaveSizes DEF HasSizes
<1>6. Sum(r) = Sum(q) - q[1].n
  BY <1>4, <1>5
<1>7. QED
  BY <1>1, <1>2, <1>6 DEF r

LEMMA ChangeFirstSum ==
    ASSUME NEW q \in Seq(Segment), q # <<>>, NEW e \in Segment
    PROVE  LET r == [q EXCEPT ![1] = e] IN
           /\ r \in Seq(Segment) /\ Len(r) = Len(q) /\ r[1] = e
           /\ \A i \in 1..Len(q) : i # 1 => r[i] = q[i]
           /\ Sum(r) = (Sum(q) - q[1].n) + e.n
<1> DEFINE m == Len(q) - 1
           r == [q EXCEPT ![1] = e]
<1>1. /\ Len(q) \in Nat /\ Len(q) # 0 /\ m \in Nat /\ 1 + m = Len(q) /\ 1 \in 1..Len(q)
  BY EmptySeq, LenProperties
<1>2. /\ r \in Seq(Segment) /\ Len(r) = Len(q) /\ r[1] = e
      /\ \A i \in 1..Len(q) : i # 1 => r[i] = q[i]
  BY <1>1, ExceptSeq
<1> HIDE DEF r
<1>3. HasSizes(q) /\ HasSizes(r) /\ Total(q)[0] = 0 /\ Total(r)[0] = 0
  BY <1>2, SegmentsHaveSizes
<1>4. /\ Tail(q) \in Seq(Segment) /\ Len(Tail(q)) = m
      /\ \A i \in 1..m : Tail(q)[i] = q[i + 1]
  BY HeadTailProperties
<1>5. Sum(q) = q[1].n + Sum(Tail(q))
  <2>1. Len(q) = Len(Tail(q)) + 1 /\ \A i \in 1..Len(Tail(q)) : q[i + 1].n = Tail(q)[i].n
    BY <1>1, <1>4
  <2>2. QED
    BY <1>3, <1>4, <2>1, SameTail, SegmentsHaveSizes DEF Sum
<1>6. Sum(r) = e.n + Sum(Tail(q))
  <2>1. /\ Len(r) = Len(Tail(q)) + 1
        /\ \A i \in 1..m : i + 1 \in 1..Len(q) /\ i + 1 # 1
    BY <1>1, <1>2, <1>4
  <2>2. \A i \in 1..Len(Tail(q)) : r[i + 1].n = Tail(q)[i].n
    BY <1>2, <1>4, <2>1
  <2>3. QED
    <3>1. HasSizes(Tail(q)) /\ r[1].n = e.n
      BY <1>2, <1>4, SegmentsHaveSizes
    <3>2. QED
      BY <1>3, <2>1, <2>2, <3>1, SameTail DEF Sum
<1>7. e.n \in Nat /\ q[1].n \in Nat /\ Sum(Tail(q)) \in Nat
  BY <1>1, <1>3, <1>4, SegmentsHaveSizes DEF HasSizes, Segment
<1>8. (Sum(q) - q[1].n) + e.n = Sum(r)
  BY <1>5, <1>6, <1>7
<1>9. QED
  BY <1>2, <1>8 DEF r

\* Bytes join the last segment only if it has no descriptors, and neither do they.
LEMMA EnqueueFacts ==
    ASSUME queue \in Seq(Segment), NEW n \in Nat, NEW rights \in Seq(Nat), Enqueue(n, rights)
    PROVE  /\ queue' \in Seq(Segment) /\ Queued' = Queued + n
           /\ \A i \in 1..Len(queue') :
                 \/ i \in 1..Len(queue) /\ queue'[i] = queue[i]
                 \/ queue'[i] = [n |-> n, rights |-> rights] /\ (Record \/ n > 0)
                 \/ ~Record /\ queue'[i].n > 0 /\ queue'[i].rights = <<>>
<1> DEFINE e == [n |-> n, rights |-> rights]
           q == Len(queue)
<1>1. e \in Segment /\ q \in Nat /\ Sum(queue) \in Nat
  BY LenProperties, SegmentsHaveSizes DEF Segment
<1>2. CASE ~Record /\ n = 0
  <2>1. queue' = queue
    BY <1>2 DEF Enqueue
  <2>2. QED
    BY <1>1, <1>2, <2>1 DEF Queued, Sum
<1>3. CASE /\ ~(~Record /\ n = 0)
           /\ ~Record /\ q > 0 /\ rights = <<>> /\ queue[q].rights = <<>>
  <2> DEFINE d == [queue[q] EXCEPT !.n = queue[q].n + n]
  <2>1. queue' = [queue EXCEPT ![q] = d]
    BY <1>3 DEF Enqueue
  <2>2. queue # <<>> /\ queue[q] \in Segment
    BY <1>1, <1>3, EmptySeq, ElementOfSeq
  <2>3. /\ d \in Segment /\ d.n = queue[q].n + n /\ queue[q].n \in Nat /\ n # 0
        /\ d.rights = <<>>
    <3>1. queue[q].n \in Nat /\ n # 0 /\ queue[q].n + n \in Nat
      BY <1>3, <2>2 DEF Segment
    <3>2. QED
      BY <1>3, <2>2, <3>1 DEF Segment
  <2> HIDE DEF d
  <2> DEFINE r == [queue EXCEPT ![Len(queue)] = d]
  <2>4. /\ queue' \in Seq(Segment) /\ Len(queue') = q /\ queue'[q] = d
        /\ \A i \in 1..q : i # q => queue'[i] = queue[i]
        /\ Sum(queue') = (Sum(queue) - queue[q].n) + d.n
    <3>1. /\ r \in Seq(Segment) /\ Len(r) = q /\ r[q] = d
          /\ \A i \in 1..q : i # q => r[i] = queue[i]
          /\ Sum(r) = (Sum(queue) - queue[q].n) + d.n
      BY <2>2, <2>3, ChangeLastSum
    <3>2. queue' = r
      BY <2>1
    <3> HIDE DEF r
    <3>3. QED
      BY <3>1, <3>2
  <2>5. Sum(queue') = Sum(queue) + n
    BY <1>1, <2>3, <2>4
  <2>6. d.n > 0 /\ d.rights = <<>>
    BY <2>3
  <2>7. QED
    BY <1>3, <2>4, <2>5, <2>6 DEF Queued, Sum
<1>4. CASE /\ ~(~Record /\ n = 0)
           /\ ~(~Record /\ q > 0 /\ rights = <<>> /\ queue[q].rights = <<>>)
  <2>1. queue' = Append(queue, e)
    BY <1>4 DEF Enqueue
  <2>2. /\ queue' \in Seq(Segment) /\ Sum(queue') = Sum(queue) + e.n
    BY <1>1, <2>1, AppendSum
  <2>3. /\ Len(queue') = q + 1 /\ queue'[q + 1] = e
        /\ \A i \in 1..q : queue'[i] = queue[i]
    BY <1>1, <2>1, AppendProperties
  <2>4. \A i \in 1..(q + 1) : i \in 1..q \/ i = q + 1
    BY <1>1
  <2>5. e.n = n /\ (Record \/ n > 0)
    BY <1>4
  <2> HIDE DEF e
  <2>6. ASSUME NEW i \in 1..Len(queue')
        PROVE  (i \in 1..q /\ queue'[i] = queue[i]) \/ (queue'[i] = e /\ (Record \/ n > 0))
    BY <2>3, <2>4, <2>5
  <2>7. QED
    BY <2>2, <2>5, <2>6 DEF Queued, Sum, e
<1>5. QED
  BY <1>2, <1>3, <1>4

\* A record is taken off whole, of a segment what was asked for; what is left has
\* lost its descriptors.
LEMMA DequeueFacts ==
    ASSUME queue \in Seq(Segment), queue # <<>>, NEW n \in Nat, n =< queue[1].n, Dequeue(n)
    PROVE  /\ queue' \in Seq(Segment) /\ queue[1] \in Segment
           /\ Queued' =< Queued
           /\ ~Record \/ n = queue[1].n => Queued' = Queued - n
           /\ \A i \in 1..Len(queue') :
                 \/ \E j \in 1..Len(queue) : queue'[i] = queue[j]
                 \/ ~Record /\ queue'[i].n > 0 /\ queue'[i].rights = <<>>
<1>1. queue[1] \in Segment /\ queue[1].n \in Nat /\ 1 \in 1..Len(queue) /\ Sum(queue) \in Nat
  <2>1. Len(queue) \in Nat /\ Len(queue) # 0
    BY LenProperties, EmptySeq
  <2>2. 1 \in 1..Len(queue)
    BY <2>1
  <2>3. queue[1] \in Segment
    BY <2>2, ElementOfSeq
  <2>4. QED
    BY <2>2, <2>3, SegmentsHaveSizes DEF Segment
<1>2. CASE Record \/ queue[1].n = n
  <2>1. queue' = Tail(queue)
    BY <1>2 DEF Dequeue
  <2>2. /\ queue' \in Seq(Segment) /\ Sum(queue') = Sum(queue) - queue[1].n
        /\ \A i \in 1..Len(queue') : queue'[i] = queue[i + 1] /\ i + 1 \in 1..Len(queue)
    BY <2>1, TailSum
  <2>3. Sum(queue') =< Sum(queue) /\ (n = queue[1].n => Sum(queue') = Sum(queue) - n)
    BY <1>1, <2>2
  <2>4. QED
    BY <1>1, <1>2, <2>2, <2>3 DEF Queued, Sum
<1>3. CASE ~Record /\ queue[1].n # n
  <2> DEFINE e == [n |-> queue[1].n - n, rights |-> <<>>]
  <2>1. queue' = [queue EXCEPT ![1] = e]
    BY <1>3 DEF Dequeue
  <2>2. e \in Segment /\ e.n = queue[1].n - n /\ e.n > 0 /\ e.rights = <<>>
    BY <1>1, <1>3 DEF Segment
  <2> HIDE DEF e
  <2>3. /\ queue' \in Seq(Segment) /\ Len(queue') = Len(queue) /\ queue'[1] = e
        /\ \A i \in 1..Len(queue) : i # 1 => queue'[i] = queue[i]
        /\ Sum(queue') = (Sum(queue) - queue[1].n) + e.n
    <3> DEFINE r == [queue EXCEPT ![1] = e]
    <3>1. /\ r \in Seq(Segment) /\ Len(r) = Len(queue) /\ r[1] = e
          /\ \A i \in 1..Len(queue) : i # 1 => r[i] = queue[i]
          /\ Sum(r) = (Sum(queue) - queue[1].n) + e.n
      BY <2>2, ChangeFirstSum
    <3>2. queue' = r
      BY <2>1
    <3> HIDE DEF r
    <3>3. QED
      BY <3>1, <3>2
  <2>4. e.n \in Nat
    BY <2>2 DEF Segment
  <2>5. Sum(queue') = Sum(queue) - n /\ Sum(queue') =< Sum(queue)
    BY <1>1, <2>2, <2>3, <2>4
  <2>6. ASSUME NEW i \in 1..Len(queue')
        PROVE  \/ \E j \in 1..Len(queue) : queue'[i] = queue[j]
               \/ queue'[i].n > 0 /\ queue'[i].rights = <<>>
    BY <2>2, <2>3
  <2>7. QED
    BY <1>1, <1>3, <2>3, <2>5, <2>6 DEF Queued, Sum
<1>4. QED
  BY <1>2, <1>3
-----------------------------------------------------------------------------
(* Descriptors and their bytes.                                            *)

LEMMA RightsFacts ==
    ASSUME NEW S, NEW f \in Seq(S)
    PROVE  /\ Rights(f) \in Seq(S) /\ Len(Rights(f)) = 4 * Len(f)
           /\ f # <<>> <=> Rights(f) # <<>>
<1>1. Len(f) \in Nat /\ \A i \in 1..Len(f) : f[i] \in S
  BY LenProperties, ElementOfSeq
<1>2. \A b \in 1..4 * Len(f) : (b + 3) \div 4 \in 1..Len(f)
  BY <1>1
<1>3. Rights(f) = [b \in 1..4 * Len(f) |-> f[(b + 3) \div 4]] /\ 4 * Len(f) \in Nat
  BY <1>1 DEF Rights
<1>4. Rights(f) \in Seq(S) /\ Len(Rights(f)) = 4 * Len(f)
  BY <1>1, <1>2, <1>3
<1>5. f # <<>> <=> Len(f) # 0 /\ 4 * Len(f) # 0
  BY <1>1, EmptySeq
<1>6. Rights(f) # <<>> <=> Len(Rights(f)) # 0
  BY <1>4, EmptySeq
<1>7. QED
  BY <1>4, <1>5, <1>6

LEMMA DataFacts ==
    ASSUME NEW S, NEW bytes \in Seq(S)
    PROVE  Data(bytes) \in Seq(S) /\ Len(Data(bytes)) = Len(bytes) \div 4
<1>1. Len(bytes) \in Nat /\ \A i \in 1..Len(bytes) : bytes[i] \in S
  BY LenProperties, ElementOfSeq
<1>2. \A i \in 1..(Len(bytes) \div 4) : 4 * i \in 1..Len(bytes)
  BY <1>1
<1>3. Data(bytes) = [i \in 1..(Len(bytes) \div 4) |-> bytes[4 * i]] /\ Len(bytes) \div 4 \in Nat
  BY <1>1 DEF Data
<1>4. QED
  BY <1>1, <1>2, <1>3

LEMMA CameFacts ==
    ASSUME NEW rights \in Seq(Nat)
    PROVE  Came(rights) \in Seq(Nat)
<1> DEFINE none == [i \in 1..Slots |-> -1]
           list == Data(IF rights = <<>> THEN Laid ELSE rights)
           ss == [i \in 1..Len(list) |-> IF list[i] = -1 THEN <<>> ELSE <<list[i]>>]
<1>1. none \in Seq(Nat \cup {-1})
  BY SetupAssumption
<1>2. Laid \in Seq(Nat \cup {-1})
  <2>1. Laid = Rights(none)
    BY DEF Laid
  <2> HIDE DEF none
  <2>2. QED
    BY <1>1, <2>1, RightsFacts
<1>3. list \in Seq(Nat \cup {-1})
  <2>1. rights \in Seq(Nat \cup {-1})
    BY LenProperties, ElementOfSeq
  <2>2. (IF rights = <<>> THEN Laid ELSE rights) \in Seq(Nat \cup {-1})
    BY <1>2, <2>1
  <2>3. QED
    BY <2>2, DataFacts
<1>4. ss \in Seq(Seq(Nat))
  <2> HIDE DEF list
  <2>1. Len(list) \in Nat /\ \A i \in 1..Len(list) : list[i] \in Nat \cup {-1}
    BY <1>3, LenProperties, ElementOfSeq
  <2>2. \A i \in 1..Len(list) : (IF list[i] = -1 THEN <<>> ELSE <<list[i]>>) \in Seq(Nat)
    BY <2>1
  <2>3. QED
    BY <2>1, <2>2
<1>5. Came(rights) = FlattenSeq(ss)
  BY DEF Came
<1> HIDE DEF ss
<1>6. QED
  BY <1>4, <1>5, FlattenElements
-----------------------------------------------------------------------------
(* The sender.                                                             *)

LEMMA PlanFacts ==
    ASSUME setup \in Setups
    PROVE  /\ Len(Plan) \in Nat /\ HasSizes(Plan)
           /\ \A i \in Nat \ {0} : SizeOf(i) \in Nat
           /\ \A i \in 1..Len(Plan) :
                 /\ SizeOf(i) = Plan[i].n /\ Plan[i].n \in Nat /\ Plan[i].fds \in Seq(Nat)
                 /\ Plan[i].kind \in {"data", "file", "msg", "fd"}
                 /\ Plan[i].kind \in {"data", "file"} => Plan[i].n > 0
                 /\ Plan[i].kind = "fd" => Plan[i].n = 1
                 /\ Plan[i].n = 0 /\ Type = "seqpacket" =>
                       Plan[i].fds # <<>> /\ Reader # "recv"
                 /\ Plan[i].kind \in {"data", "file"} => Plan[i].fds = <<>>
                 /\ Plan[i].n = 0 /\ Type = "stream" => Plan[i].fds = <<>>
                 /\ Reader = "recvfd" => Len(Plan[i].fds) =< 1
<1> DEFINE M == [kind : {"data", "file", "msg", "fd"}, n : Nat, fds : Seq(Nat)]
<1>1. IsSetup(setup)
  BY SetupAssumption
<1>2. Plan \in Seq(M)
  BY <1>1 DEF IsSetup, Plan
<1>3. Len(Plan) \in Nat /\ DOMAIN Plan = 1..Len(Plan) /\ \A i \in 1..Len(Plan) : Plan[i] \in M
  BY <1>2, LenProperties, ElementOfSeq
<1>4. \A i \in 1..Len(Plan) : /\ Plan[i].n \in Nat /\ Plan[i].fds \in Seq(Nat)
                              /\ Plan[i].kind \in {"data", "file", "msg", "fd"}
  BY <1>3
<1>5. \A i \in 1..Len(Plan) : IsMessage(Plan[i])
  BY <1>1, <1>3 DEF IsSetup, Plan
<1>6. \A i \in 1..Len(Plan) :
         /\ Plan[i].n = 0 /\ Type = "seqpacket" => Plan[i].fds # <<>> /\ Reader # "recv"
         /\ Plan[i].n = 0 /\ Type = "stream" => Plan[i].fds = <<>>
         /\ Reader = "recvfd" => Len(Plan[i].fds) =< 1
  BY <1>1, <1>3 DEF IsSetup, Plan, Type, Reader
<1>7. /\ \A i \in Nat \ {0} : SizeOf(i) \in Nat
      /\ \A i \in 1..Len(Plan) : SizeOf(i) = Plan[i].n
  <2>1. \A i \in Nat : i =< Len(Plan) /\ i >= 1 => i \in 1..Len(Plan)
    BY <1>3
  <2>2. \A i \in 1..Len(Plan) : SizeOf(i) = Plan[i].n
    BY <1>3 DEF SizeOf
  <2>3. ASSUME NEW i \in Nat \ {0} PROVE SizeOf(i) \in Nat
    BY <1>4, <2>1 DEF SizeOf
  <2>4. QED
    BY <2>2, <2>3
<1>8. HasSizes(Plan)
  BY <1>3, <1>4 DEF HasSizes
<1>9. QED
  BY <1>3, <1>4, <1>5, <1>6, <1>7, <1>8 DEF IsMessage

\* A result that says that nothing was sent.
Nothing(res) == res.len = 0 /\ res.err \in BOOLEAN /\ res.again \in BOOLEAN /\ (res.again \/ res.err)

LEMMA RefusedResults ==
    ASSUME NEW rv \in Refused, NEW asked
    PROVE  /\ rv.errno # "none" /\ rv # Ok(0)
           /\ Nothing(SendResult(rv, asked)) /\ Nothing(SendFdResult(rv))
           /\ Nothing(SendFileResult(rv, asked))
<1>1. PICK e \in {"EINTR", "EAGAIN", "EPIPE"} : rv = [n |-> 0, errno |-> e]
  BY DEF Refused, Fails
<1>2. rv.errno = e /\ rv # Ok(0)
  BY <1>1 DEF Ok
<1> DEFINE again == [len |-> 0, err |-> FALSE, again |-> TRUE]
           fatal == [len |-> 0, err |-> TRUE, again |-> FALSE]
<1>3. CASE e \in {"EINTR", "EAGAIN"}
  <2>1. Again(rv) /\ ~Fatal(rv)
    BY <1>2, <1>3 DEF Again, Fatal
  <2>2. /\ SendResult(rv, asked) = again /\ SendFileResult(rv, asked) = again
        /\ SendFdResult(rv) = [len |-> 0, err |-> Fatal(rv), again |-> Again(rv)]
    BY <2>1 DEF SendResult, SendFdResult, SendFileResult
  <2>3. SendFdResult(rv).len = 0 /\ SendFdResult(rv).err = FALSE /\ SendFdResult(rv).again = TRUE
    BY <2>1, <2>2
  <2>4. again.len = 0 /\ again.err = FALSE /\ again.again = TRUE
    OBVIOUS
  <2> HIDE DEF again, fatal
  <2>5. QED
    BY <1>2, <2>2, <2>3, <2>4 DEF Nothing
<1>4. CASE e = "EPIPE"
  <2>1. ~Again(rv) /\ Fatal(rv)
    BY <1>2, <1>4 DEF Again, Fatal
  <2>2. /\ SendResult(rv, asked) = fatal /\ SendFileResult(rv, asked) = fatal
        /\ SendFdResult(rv) = [len |-> 0, err |-> Fatal(rv), again |-> Again(rv)]
    BY <2>1 DEF SendResult, SendFdResult, SendFileResult
  <2>3. SendFdResult(rv).len = 0 /\ SendFdResult(rv).err = TRUE /\ SendFdResult(rv).again = FALSE
    BY <2>1, <2>2
  <2>4. fatal.len = 0 /\ fatal.err = TRUE /\ fatal.again = FALSE
    OBVIOUS
  <2> HIDE DEF again, fatal
  <2>5. QED
    BY <1>2, <2>2, <2>3, <2>4 DEF Nothing
<1>5. QED
  BY <1>1, <1>3, <1>4

\* A result that tells of n bytes sent: `again' is false when that is all, and, of
\* less than 2^32 bytes, only then.
Reports(res, n, asked) ==
    /\ res.len = n /\ res.err = FALSE /\ res.again \in BOOLEAN
    /\ res.again => n # asked
    /\ ~res.again /\ asked < INT => n = asked

LEMMA OkResults ==
    ASSUME NEW asked \in Nat, NEW n \in 0..asked
    PROVE  /\ Reports(SendResult(Ok(n), asked), n, asked)
           /\ Reports(SendFileResult(Ok(n), asked), n, asked)
           /\ SendFdResult(Ok(n)).again = FALSE /\ SendFdResult(Ok(n)).err = FALSE
           /\ n # asked => SendFileResult(Ok(n), asked).again
           /\ Ok(n).n = n /\ Ok(n).errno = "none"
<1>1. Ok(n).n = n /\ Ok(n).errno = "none" /\ Again(Ok(n)) = FALSE /\ Fatal(Ok(n)) = FALSE
  BY DEF Ok, Again, Fatal
<1> DEFINE more == (asked - n) % INT # 0
           short == n # asked
<1>2. SendResult(Ok(n), asked) = [len |-> n, err |-> FALSE, again |-> more]
  BY <1>1 DEF SendResult
<1>3. SendFileResult(Ok(n), asked) = [len |-> n, err |-> FALSE, again |-> short]
  BY <1>1 DEF SendFileResult
<1>4. INT \in Nat \ {0} /\ asked - n \in Nat
  BY SetupAssumption
<1>5. n = asked => more = FALSE
  BY <1>4
<1>6. asked < INT /\ more = FALSE => n = asked
  <2>1. asked < INT => asked - n < INT
    BY <1>4
  <2>2. asked < INT => (asked - n) % INT = asked - n
    BY <1>4, <2>1
  <2>3. QED
    BY <1>4, <2>2
<1>7. more \in BOOLEAN /\ short \in BOOLEAN /\ (short <=> n # asked)
  OBVIOUS
<1>8. SendFdResult(Ok(n)).again = FALSE /\ SendFdResult(Ok(n)).err = FALSE
  BY <1>1 DEF SendFdResult
<1> HIDE DEF more, short
<1>9. Reports(SendResult(Ok(n), asked), n, asked)
  BY <1>2, <1>5, <1>6, <1>7 DEF Reports
<1>10. Reports(SendFileResult(Ok(n), asked), n, asked)
  BY <1>3, <1>7 DEF Reports
<1>11. n # asked => SendFileResult(Ok(n), asked).again
  BY <1>3, <1>7
<1>12. QED
  BY <1>1, <1>8, <1>9, <1>10, <1>11

\* What a send method does: it hands over n bytes, and the script goes on with
\* what is left, or with the next message.
FirstRights == IF rest = SizeOf(at) THEN Rights(Plan[at].fds) ELSE <<>>
Sends(n, rights) ==
    /\ \/ /\ UNCHANGED <<queue, taken>> /\ n = 0
          /\ at' = at \/ Plan[at].fds = <<>>
       \/ /\ Enqueue(n, rights) /\ taken' = taken + n /\ Queued + n =< Cap
          /\ rights = FirstRights /\ (at' = at => n # 0) /\ (n = 0 => rest = 0)
    /\ \/ at' = at /\ rest' = rest - n /\ (Plan[at].kind = "fd" => n = 0) /\ (n = rest => rest = 0)
       \/ at' = at + 1 /\ rest' = SizeOf(at + 1) /\ failed' = FALSE
    /\ n = 0 => \/ UNCHANGED queue
                \/ rest = 0 /\ (Type = "seqpacket" => rights # <<>> /\ Reader # "recv")
    /\ at' = at + 1 /\ Small => n = rest
    /\ failed' \in BOOLEAN

LEMMA SendSends ==
    ASSUME IInv, SendStep
    PROVE  \E n \in 0..rest : \E rights \in Seq(Nat) : Sends(n, rights)
<1>1. /\ at \in 1..Len(Plan) /\ failed = FALSE /\ setup \in Setups
      /\ rest \in 0..SizeOf(at) /\ rest \in Nat /\ taken \in Nat
  <2>1. at \in 1..Len(Plan) + 1 /\ rest \in 0..SizeOf(at) /\ setup \in Setups /\ taken \in Nat
        /\ failed \in BOOLEAN /\ at =< Len(Plan) /\ ~failed
    BY DEF IInv, TypeOK, SendStep, Sending
  <2>2. Len(Plan) \in Nat
    BY <2>1, PlanFacts
  <2>3. QED
    BY <2>1, <2>2
<1>2. /\ SizeOf(at) = Plan[at].n /\ Plan[at].n \in Nat /\ Plan[at].fds \in Seq(Nat)
      /\ Plan[at].kind \in {"data", "file", "msg", "fd"}
      /\ Plan[at].kind \in {"data", "file"} => Plan[at].n > 0
      /\ Plan[at].kind = "fd" => Plan[at].n = 1
      /\ Plan[at].n = 0 /\ Type = "seqpacket" => Plan[at].fds # <<>> /\ Reader # "recv"
      /\ Plan[at].kind \in {"data", "file"} => Plan[at].fds = <<>>
      /\ Plan[at].kind = "fd" => rest = 1
      /\ rest = 0 => Plan[at].n = 0
  BY <1>1, PlanFacts DEF IInv, SendingOK
<1>3. Small => rest < INT /\ (Plan[at].kind = "file" /\ ~HaveSendfile => SizeOf(at) =< File)
  <2>1. Small => Plan[at].n < INT /\ (Plan[at].kind = "file" /\ ~HaveSendfile => Plan[at].n =< File)
    BY <1>1 DEF Small, Plan, HaveSendfile
  <2>2. INT \in Nat
    BY SetupAssumption
  <2>3. QED
    BY <1>1, <1>2, <2>1, <2>2
<1>4. 0 \in 0..rest /\ <<>> \in Seq(Nat)
  BY <1>1
<1>5. ASSUME NEW res, Nothing(res), React(res), UNCHANGED <<queue, taken>>
      PROVE  Sends(0, <<>>)
  BY <1>1, <1>2, <1>5 DEF Sends, Nothing, React
<1>6. ASSUME NEW rv \in Refused, NEW rights PROVE Taking(rv, rights) => UNCHANGED <<queue, taken>>
  BY RefusedResults DEF Taking
<1>7. /\ Rights(Plan[at].fds) \in Seq(Nat)
      /\ Plan[at].fds # <<>> <=> Rights(Plan[at].fds) # <<>>
  BY <1>2, RightsFacts
\* n bytes were accepted, and the result says so.
<1>8. ASSUME NEW n \in 0..rest, Room(n), NEW rights \in Seq(Nat), NEW res,
             Reports(res, n, rest), Plan[at].kind # "fd", rights = FirstRights,
             n = 0 => rest = 0 /\ (Type = "seqpacket" => rights # <<>> /\ Reader # "recv"),
             React(res), Taking(Ok(n), rights)
      PROVE  Sends(n, rights)
  <2>1. Enqueue(n, rights) /\ taken' = taken + n /\ Queued + n =< Cap
    BY <1>1, <1>8, OkResults DEF Taking, Room
  <2>2. failed' = FALSE
    BY <1>8 DEF React, Reports
  <2>3. CASE res.again
    <3>1. n # rest /\ at' = at /\ rest' = rest - n
      BY <1>8, <2>3 DEF React, Reports
    <3>2. ~(at' = at + 1) /\ n # 0
      BY <1>1, <1>8, <3>1, PlanFacts
    <3>3. QED
      BY <1>8, <2>1, <2>2, <3>1, <3>2 DEF Sends
  <2>4. CASE ~res.again
    <3>1. at' = at + 1 /\ rest' = SizeOf(at + 1) /\ at' # at
      BY <1>1, <1>8, <2>2, <2>4, PlanFacts DEF React, Reports
    <3>2. Small => n = rest
      BY <1>3, <1>8, <2>4 DEF Reports
    <3>3. QED
      BY <1>8, <2>1, <2>2, <3>1, <3>2 DEF Sends
  <2>5. QED
    BY <1>8, <2>3, <2>4
<1>9. ASSUME NEW asked \in Nat, NEW rv \in Accepted(asked)
      PROVE  \E n \in 0..asked : rv = Ok(n) /\ Room(n) /\ (n = 0 => asked = 0)
  BY <1>9 DEF Accepted
<1>10. ASSUME Plan[at].kind = "data", NEW rv \in Accepted(rest) \cup Refused, Send(rv)
       PROVE  \E n \in 0..rest : \E rights \in Seq(Nat) : Sends(n, rights)
  <2>1. CASE rv \in Refused
    BY <1>4, <1>5, <1>6, <1>10, <2>1, RefusedResults DEF Send
  <2>2. CASE rv \in Accepted(rest)
    <3>1. PICK n \in 0..rest : rv = Ok(n) /\ Room(n) /\ n # 0
      BY <1>1, <1>2, <1>9, <1>10, <2>2
    <3>2. FirstRights = <<>>
      BY <1>2, <1>7, <1>10 DEF FirstRights
    <3>3. Sends(n, <<>>)
      BY <1>1, <1>3, <1>4, <1>8, <1>10, <3>1, <3>2, OkResults DEF Send
    <3>4. QED
      BY <1>4, <3>3
  <2>3. QED
    BY <1>10, <2>1, <2>2
<1>11. ASSUME Plan[at].kind = "msg", NEW rv \in Accepted(rest) \cup Refused, SendMsg(rv)
       PROVE  \E n \in 0..rest : \E rights \in Seq(Nat) : Sends(n, rights)
  <2> DEFINE rights == FirstRights
  <2>1. CASE rv \in Refused
    BY <1>4, <1>5, <1>6, <1>11, <2>1, RefusedResults DEF SendMsg
  <2>2. CASE rv \in Accepted(rest)
    <3>1. PICK n \in 0..rest : rv = Ok(n) /\ Room(n) /\ (n = 0 => rest = 0)
      BY <1>1, <1>9, <2>2
    <3>2. rights \in Seq(Nat) /\ rights = FirstRights
      BY <1>7 DEF FirstRights
    <3>3. n = 0 /\ Type = "seqpacket" => rights # <<>> /\ Reader # "recv"
      BY <1>2, <1>7, <3>1 DEF FirstRights
    <3>4. React(SendResult(Ok(n), rest)) /\ Taking(Ok(n), rights)
      BY <1>11, <3>1 DEF SendMsg, FirstRights
    <3> HIDE DEF rights
    <3>5. Sends(n, rights)
      BY <1>1, <1>3, <1>8, <1>11, <3>1, <3>2, <3>3, <3>4, OkResults
    <3>6. QED
      BY <3>2, <3>5
  <2>3. QED
    BY <1>11, <2>1, <2>2
<1>12. ASSUME Plan[at].kind = "fd", NEW rv \in Accepted(1) \cup Refused, SendFd(rv)
       PROVE  \E n \in 0..rest : \E rights \in Seq(Nat) : Sends(n, rights)
  <2>1. CASE rv \in Refused
    BY <1>4, <1>5, <1>6, <1>12, <2>1, RefusedResults DEF SendFd
  <2>2. CASE rv \in Accepted(1)
    <3>1. PICK n \in 0..1 : rv = Ok(n) /\ Room(n) /\ n # 0
      BY <1>9, <2>2
    <3>2. n = 1 /\ rest = 1 /\ n \in 0..rest
      BY <1>2, <1>12, <3>1
    <3>3. /\ SendFdResult(Ok(n)).again = FALSE /\ SendFdResult(Ok(n)).err = FALSE
          /\ Ok(n).n = n /\ Ok(n).errno = "none"
      BY <1>1, <3>2, OkResults
    <3>4. React(SendFdResult(Ok(n))) /\ Taking(Ok(n), Rights(Plan[at].fds))
      BY <1>12, <3>1 DEF SendFd
    <3>5. /\ Enqueue(n, Rights(Plan[at].fds)) /\ taken' = taken + n /\ Queued + n =< Cap
          /\ failed' = FALSE /\ at' = at + 1 /\ rest' = SizeOf(at + 1)
      BY <3>1, <3>3, <3>4 DEF React, Taking, Room
    <3>6. FirstRights = Rights(Plan[at].fds)
      BY <1>2, <1>12, <3>2 DEF FirstRights
    <3>6a. Sends(n, Rights(Plan[at].fds))
      BY <1>1, <3>1, <3>2, <3>5, <3>6, PlanFacts DEF Sends
    <3>7. QED
      BY <1>7, <3>2, <3>6a
  <2>3. QED
    BY <1>12, <2>1, <2>2
<1>13. ASSUME Plan[at].kind = "file",
              NEW rv \in AtEof \cup (Accepted(Least(rest, InFile)) \ {Ok(0)}) \cup Refused,
              SendFile(rv)
       PROVE  \E n \in 0..rest : \E rights \in Seq(Nat) : Sends(n, rights)
  <2>0. rest > 0 /\ InFile \in Nat /\ Least(rest, InFile) \in Nat /\ Least(rest, InFile) =< rest
    <3>1. File \in Nat
      BY SetupAssumption
    <3>2. rest > 0 /\ InFile \in Nat
      BY <1>1, <1>2, <1>13, <3>1 DEF InFile
    <3>3. QED
      BY <1>1, <3>2 DEF Least
  <2>1. CASE rv \in Refused
    <3>1. Nothing(IF HaveSendfile THEN SendFileResult(rv, rest) ELSE PreadSendResult(rv, rest))
      BY <2>1, RefusedResults DEF PreadSendResult
    <3>2. UNCHANGED <<queue, taken>>
      BY <1>6, <1>13, <2>1, RefusedResults DEF SendFile
    <3>3. QED
      BY <1>4, <1>5, <1>13, <3>1, <3>2 DEF SendFile
  <2>2. CASE rv \in AtEof
    <3>1. rv = Ok(0) /\ InFile = 0 /\ UNCHANGED <<queue, taken>>
      BY <1>13, <2>2 DEF AtEof, SendFile
    <3>2. CASE HaveSendfile
      <4>0. 0 \in 0..rest /\ 0 # rest
        BY <1>1, <2>0
      <4>1. SendFileResult(Ok(0), rest).again /\ Reports(SendFileResult(Ok(0), rest), 0, rest)
        BY <1>1, <4>0, OkResults
      <4>2. Nothing(SendFileResult(Ok(0), rest)) /\ React(SendFileResult(Ok(0), rest))
        BY <1>13, <3>1, <3>2, <4>1 DEF Nothing, SendFile, Reports
      <4>3. QED
        BY <1>4, <1>5, <3>1, <4>2
    <3>3. CASE ~HaveSendfile
      <4>1. React([len |-> 0, err |-> FALSE, again |-> FALSE])
        BY <1>13, <3>1, <3>3 DEF SendFile, PreadSendResult
      <4>2. at' = at + 1 /\ rest' = SizeOf(at + 1) /\ failed' = FALSE
        BY <4>1 DEF React
      <4>3. ~Small
        <5>1. File \in Nat
          BY SetupAssumption
        <5>2. ~(SizeOf(at) =< File)
          BY <1>1, <1>2, <2>0, <3>1, <5>1 DEF InFile
        <5>3. QED
          BY <1>3, <1>13, <3>3, <5>2
      <4>4. Sends(0, <<>>)
        BY <1>2, <1>13, <3>1, <4>2, <4>3 DEF Sends
      <4>5. QED
        BY <1>4, <4>4
    <3>4. QED
      BY <3>2, <3>3
  <2>3. CASE rv \in Accepted(Least(rest, InFile)) \ {Ok(0)}
    <3>1. PICK n \in 0..Least(rest, InFile) : rv = Ok(n) /\ Room(n)
      BY <1>9, <2>0, <2>3
    <3>2. n \in 0..rest /\ n # 0 /\ rv # Ok(0)
      <4>1. rv # Ok(0)
        BY <2>3
      <4>2. QED
        BY <1>1, <2>0, <3>1, <4>1
    <3>3. React(IF HaveSendfile THEN SendFileResult(Ok(n), rest) ELSE SendResult(Ok(n), rest))
          /\ Taking(Ok(n), <<>>)
      BY <1>13, <3>1, <3>2 DEF SendFile, PreadSendResult
    <3> DEFINE res == IF HaveSendfile THEN SendFileResult(Ok(n), rest) ELSE SendResult(Ok(n), rest)
    <3>4. Reports(res, n, rest)
      BY <1>1, <3>2, OkResults
    <3>5. React(res)
      BY <3>3
    <3> HIDE DEF res
    <3>6. Sends(n, <<>>)
      <4>1. FirstRights = <<>>
        BY <1>2, <1>7, <1>13 DEF FirstRights
      <4>2. QED
        BY <1>4, <1>8, <1>13, <3>1, <3>2, <3>3, <3>4, <3>5, <4>1
    <3>7. QED
      BY <1>4, <3>2, <3>6
  <2>4. QED
    BY <1>13, <2>1, <2>2, <2>3
<1>14. QED
  BY <1>2, <1>10, <1>11, <1>12, <1>13 DEF SendStep
-----------------------------------------------------------------------------
(* The receiver.                                                           *)

\* What a receive method does: it takes nothing off the queue, and says that the
\* peer has closed only if it has; or it takes n bytes, and returns them.
TakesNothing ==
    /\ UNCHANGED <<queue, got, fds>>
    /\ last' = "closed" => Closed
    /\ \/ reset' = reset
       \/ reset' = "told" /\ last' = "error"
Takes(n) ==
    /\ queue # <<>> /\ n =< queue[1].n /\ Dequeue(n)
    /\ Record /\ Reader # "recvfd" => n = Least(queue[1].n, BufSize)
    /\ reset' = reset /\ last' \in {"value", "again"}
    /\ got' = IF Reader = "recvfd" THEN got ELSE got + n
    /\ fds' \in Seq(Nat)
    /\ Reader = "recvmsg" => fds' = fds \o Came(queue[1].rights)
    /\ Reader = "recvfd" =>
          fds' = IF queue[1].rights # <<>> THEN Append(fds, queue[1].rights[1]) ELSE fds

LEMMA SetupFacts ==
    ASSUME setup \in Setups
    PROVE  /\ Type \in {"stream", "dgram", "seqpacket"}
           /\ Reader \in {"recv", "recvmsg", "recvfd"}
<1>1. IsSetup(setup)
  BY SetupAssumption
<1>2. QED
  BY <1>1 DEF IsSetup, Type, Reader

LEMMA QueueFacts ==
    ASSUME IInv, queue # <<>>
    PROVE  /\ queue[1] \in Segment /\ queue[1].n \in Nat /\ queue[1].rights \in Seq(Nat)
           /\ queue[1].n = 0 => Record
           /\ queue[1].n = 0 /\ Type = "seqpacket" => queue[1].rights # <<>> /\ Reader # "recv"
<1>1. queue \in Seq(Segment) /\ QueueOK
  BY DEF IInv, TypeOK, Segment
<1>2. Len(queue) \in Nat /\ Len(queue) # 0
  BY <1>1, LenProperties, EmptySeq
<1>3. 1 \in 1..Len(queue)
  BY <1>2
<1>4. queue[1] \in Segment
  BY <1>1, <1>3, ElementOfSeq
<1>5. queue[1].n \in Nat /\ queue[1].rights \in Seq(Nat)
  BY <1>4 DEF Segment
<1>6. QED
  BY <1>1, <1>3, <1>4, <1>5 DEF QueueOK

LEMMA TakenFacts ==
    ASSUME IInv, NEW size \in Nat \ {0}, NEW n \in Taken(size)
    PROVE  /\ queue # <<>> /\ n \in Nat /\ n =< queue[1].n
           /\ Record => n = Least(queue[1].n, size)
           /\ n = 0 /\ Type # "dgram" => queue[1].rights # <<>> /\ Reader # "recv"
<1>1. queue # <<>>
  BY DEF Taken
<1>2. queue[1].n \in Nat
  BY <1>1, QueueFacts
<1>3. CASE Record
  <2>1. n = Least(queue[1].n, size)
    BY <1>1, <1>3 DEF Taken
  <2>2. n \in Nat /\ n =< queue[1].n /\ (n = 0 => queue[1].n = 0)
    BY <1>2, <2>1 DEF Least
  <2>3. Type # "dgram" => Type = "seqpacket"
    BY <1>3, SetupFacts DEF Record, IInv, TypeOK
  <2>4. ASSUME n = 0, Type # "dgram" PROVE queue[1].rights # <<>> /\ Reader # "recv"
    BY <1>1, <2>2, <2>3, <2>4, QueueFacts
  <2>5. QED
    BY <1>1, <2>1, <2>2, <2>4
<1>4. CASE ~Record
  <2>1. n \in 1..size /\ n =< queue[1].n
    BY <1>1, <1>4 DEF Taken
  <2>2. QED
    BY <1>1, <1>4, <2>1
<1>5. QED
  BY <1>3, <1>4

LEMMA UntakenFacts ==
    ASSUME IInv, Receiving, NEW rv \in Untaken
    PROVE  \/ Again(rv) /\ ~Fatal(rv)
           \/ Fatal(rv) /\ ~Again(rv)
           \/ rv.n = 0 /\ Closed /\ Type # "dgram" /\ ~Again(rv) /\ ~Fatal(rv)
<1>1. reset # "told"
  BY DEF IInv, Receiving
<1>2. rv \in {Fails("EINTR"), Fails("ECONNRESET"), Fails("EAGAIN")} \/ (rv = Ok(0) /\ Closed)
  BY <1>1 DEF Untaken
<1>3. CASE rv \in {Fails("EINTR"), Fails("EAGAIN")}
  BY <1>3 DEF Fails, Again, Fatal
<1>4. CASE rv = Fails("ECONNRESET")
  BY <1>4 DEF Fails, Again, Fatal
<1>5. CASE rv = Ok(0) /\ Closed
  BY <1>5 DEF Ok, Again, Fatal, Closed
<1>6. QED
  BY <1>2, <1>3, <1>4, <1>5

LEMMA RecvTakes ==
    ASSUME IInv, RecvStep
    PROVE  /\ last' \in {"value", "again", "closed", "error"}
           /\ TakesNothing \/ \E n \in Nat : Takes(n)
<1>1. Receiving /\ reset # "told" /\ got \in Nat /\ fds \in Seq(Nat)
  BY DEF RecvStep, Receiving, IInv, TypeOK
<1>2. BufSize \in Nat \ {0}
  BY SetupAssumption
<1>3. ASSUME NEW n \in Nat PROVE Ok(n).n = n /\ ~Again(Ok(n)) /\ ~Fatal(Ok(n))
  BY DEF Ok, Again, Fatal
<1>4. CASE Reader # "recvfd" /\ Recv
  <2>1. ASSUME NEW rv \in Untaken, last' = Result(rv, FALSE), Told(rv),
               UNCHANGED <<queue, got, fds>>
        PROVE  TakesNothing /\ last' \in {"again", "closed", "error"}
    <3>1. CASE Again(rv) /\ ~Fatal(rv)
      BY <2>1, <3>1 DEF TakesNothing, Result, RecvResult, RecvMsgResult, Told
    <3>2. CASE Fatal(rv) /\ ~Again(rv)
      BY <2>1, <3>2 DEF TakesNothing, Result, RecvResult, RecvMsgResult, Told
    <3>3. CASE rv.n = 0 /\ Closed /\ Type # "dgram" /\ ~Again(rv) /\ ~Fatal(rv)
      BY <2>1, <3>3 DEF TakesNothing, Result, RecvResult, RecvMsgResult, Told
    <3>4. QED
      BY <1>1, <2>1, <3>1, <3>2, <3>3, UntakenFacts
  <2>2. ASSUME NEW n \in Taken(BufSize),
               last' = Result(Ok(n), queue[1].rights # <<>>),
               got' = IF last' = "value" THEN got + n ELSE got,
               fds' = IF Reader = "recvmsg" /\ last' = "value"
                      THEN fds \o Came(queue[1].rights) ELSE fds,
               Dequeue(n), UNCHANGED reset
        PROVE  n \in Nat /\ Takes(n) /\ last' = "value"
    <3>1. /\ queue # <<>> /\ n \in Nat /\ n =< queue[1].n
          /\ Record => n = Least(queue[1].n, BufSize)
          /\ n = 0 /\ Type # "dgram" => queue[1].rights # <<>> /\ Reader # "recv"
      BY <1>2, <2>2, TakenFacts
    <3>2. Reader \in {"recv", "recvmsg"}
      BY <1>4, SetupFacts DEF IInv, TypeOK
    <3>3. last' = "value"
      <4>1. Ok(n).n = n /\ ~Again(Ok(n)) /\ ~Fatal(Ok(n))
        BY <1>3, <3>1
      <4>2. CASE Reader = "recvmsg"
        BY <2>2, <3>1, <4>1, <4>2 DEF Result, RecvMsgResult
      <4>3. CASE Reader = "recv"
        BY <2>2, <3>1, <4>1, <4>3 DEF Result, RecvResult
      <4>4. QED
        BY <3>2, <4>2, <4>3
    <3>4. fds' \in Seq(Nat)
      <4>1. Came(queue[1].rights) \in Seq(Nat)
        BY <3>1, QueueFacts, CameFacts
      <4>2. fds \o Came(queue[1].rights) \in Seq(Nat)
        BY <1>1, <4>1, ConcatProperties
      <4>3. QED
        BY <1>1, <2>2, <4>2
    <3>5. got' = got + n
      BY <2>2, <3>3
    <3>6. QED
      BY <1>4, <2>2, <3>1, <3>3, <3>4, <3>5 DEF Takes
  <2>3. QED
    BY <1>4, <2>1, <2>2 DEF Recv
<1>5. CASE Reader = "recvfd" /\ RecvFd
  <2>1. ASSUME NEW rv \in Untaken, last' = RecvFdResult(rv, FALSE), Told(rv),
               UNCHANGED <<queue, fds>>, UNCHANGED got
        PROVE  TakesNothing /\ last' \in {"again", "closed", "error"}
    <3>1. CASE Again(rv) /\ ~Fatal(rv)
      BY <2>1, <3>1 DEF TakesNothing, RecvFdResult, Told
    <3>2. CASE Fatal(rv) /\ ~Again(rv)
      BY <2>1, <3>2 DEF TakesNothing, RecvFdResult, Told
    <3>3. CASE rv.n = 0 /\ Closed /\ Type # "dgram" /\ ~Again(rv) /\ ~Fatal(rv)
      BY <2>1, <3>3 DEF TakesNothing, RecvFdResult, Told
    <3>4. QED
      BY <1>1, <2>1, <3>1, <3>2, <3>3, UntakenFacts
  <2>2. ASSUME NEW n \in Taken(1),
               last' = RecvFdResult(Ok(n), queue[1].rights # <<>>),
               fds' = IF last' = "value" THEN Append(fds, queue[1].rights[1]) ELSE fds,
               Dequeue(n), UNCHANGED reset, UNCHANGED got
        PROVE  n \in Nat /\ Takes(n)
    <3>1. /\ queue # <<>> /\ n \in Nat /\ n =< queue[1].n
          /\ n = 0 /\ Type # "dgram" => queue[1].rights # <<>>
      BY <2>2, TakenFacts
    <3>2. Ok(n).n = n /\ ~Again(Ok(n)) /\ ~Fatal(Ok(n))
      BY <1>3, <3>1
    <3>3. /\ last' \in {"value", "again"}
          /\ last' = "value" <=> queue[1].rights # <<>>
      BY <2>2, <3>1, <3>2 DEF RecvFdResult
    <3>4. fds' \in Seq(Nat)
      <4>1. CASE last' = "value"
        <5>1. queue[1].rights \in Seq(Nat) /\ queue[1].rights # <<>>
          BY <3>1, <3>3, <4>1, QueueFacts
        <5>2. queue[1].rights[1] \in Nat
          BY <5>1, HeadTailProperties
        <5>3. QED
          BY <1>1, <2>2, <4>1, <5>2, AppendProperties
      <4>2. CASE last' # "value"
        BY <1>1, <2>2, <4>2
      <4>3. QED
        BY <4>1, <4>2
    <3>5. QED
      BY <1>5, <2>2, <3>1, <3>3, <3>4 DEF Takes
  <2>3. last' \in {"value", "again"} \/ TakesNothing
    BY <1>5, <2>1, <2>2 DEF RecvFd, Takes
  <2>4. QED
    BY <1>5, <2>1, <2>2 DEF RecvFd, Takes
<1>6. QED
  BY <1>4, <1>5 DEF RecvStep
-----------------------------------------------------------------------------
(* The invariant.                                                          *)

LEMMA InitIInv ==
    ASSUME Init
    PROVE  IInv
<1>1. setup \in Setups /\ at = 1 /\ rest = SizeOf(1) /\ queue = <<>> /\ Cap \in Nat
  BY SetupAssumption DEF Init
<1>2. queue \in Seq(Segment) /\ Len(queue) = 0
  BY <1>1
<1>3. Queued = 0
  BY <1>2, SegmentsHaveSizes DEF Queued
<1>4. Len(Plan) \in Nat /\ SizeOf(1) \in Nat
  BY <1>1, PlanFacts
<1>5. TypeOK
  <2>1. at \in 1..Len(Plan) + 1 /\ rest \in 0..SizeOf(at)
    BY <1>1, <1>4
  <2>2. Queued =< Cap /\ queue \in Seq([n : Nat, rights : Seq(Nat)])
    BY <1>1, <1>2, <1>3 DEF Segment
  <2>3. /\ taken \in Nat /\ failed \in BOOLEAN /\ shut \in BOOLEAN /\ got \in Nat
        /\ reset \in {"no", "untold", "told"}
        /\ last \in {"nothing", "value", "again", "closed", "error"}
    BY DEF Init
  <2>4. fds \in Seq(Nat)
    BY DEF Init
  <2>5. QED
    BY <1>1, <2>1, <2>2, <2>3, <2>4 DEF TypeOK
<1>6. SendingOK
  <2>1. at =< Len(Plan) => at \in 1..Len(Plan)
    BY <1>1, <1>4
  <2>2. QED
    BY <1>1, <2>1, PlanFacts DEF SendingOK
<1>7. QED
  BY <1>2, <1>5, <1>6 DEF Init, IInv, QueueOK, ClosedByPeer

LEMMA SendKeepsQueue ==
    ASSUME IInv, NEW n \in 0..rest, NEW rights \in Seq(Nat), Sends(n, rights), setup' = setup
    PROVE  /\ queue' \in Seq(Segment) /\ Queued' \in Nat /\ taken' \in Nat
           /\ Queued' = Queued + n /\ taken' = taken + n /\ Queued' =< Cap
           /\ QueueOK'
           /\ Record => \A i \in 1..Len(queue') :
                 (i \in 1..Len(queue) /\ queue'[i] = queue[i]) \/ queue'[i].n = n
<1>1. /\ queue \in Seq(Segment) /\ Queued =< Cap /\ taken \in Nat /\ rest \in Nat
      /\ Queued \in Nat /\ QueueOK
  <2>1. /\ queue \in Seq(Segment) /\ Queued =< Cap /\ taken \in Nat /\ QueueOK
        /\ setup \in Setups /\ at \in 1..Len(Plan) + 1 /\ rest \in 0..SizeOf(at)
    BY DEF IInv, TypeOK, Segment
  <2>2. Queued \in Nat
    BY <2>1, SegmentsHaveSizes DEF Queued, Sum
  <2>3. Len(Plan) \in Nat /\ at \in Nat \ {0}
    BY <2>1, PlanFacts
  <2>4. SizeOf(at) \in Nat
    BY <2>1, <2>3, PlanFacts
  <2>5. QED
    BY <2>1, <2>2, <2>4
<1>2. n \in Nat
  BY <1>1
<1>3. CASE UNCHANGED <<queue, taken>> /\ n = 0 /\ (at' = at \/ Plan[at].fds = <<>>)
  <2>1. queue' = queue /\ taken' = taken /\ Queued' = Queued
    BY <1>3 DEF Queued, Total
  <2>2. QueueOK'
    BY <1>1, <2>1 DEF QueueOK, Record, Type, Reader
  <2>3. QED
    BY <1>1, <1>3, <2>1, <2>2
<1>4. CASE Enqueue(n, rights) /\ taken' = taken + n /\ Queued + n =< Cap
  <2>1. /\ queue' \in Seq(Segment) /\ Queued' = Queued + n
        /\ \A i \in 1..Len(queue') :
              \/ i \in 1..Len(queue) /\ queue'[i] = queue[i]
              \/ queue'[i] = [n |-> n, rights |-> rights] /\ (Record \/ n > 0)
              \/ ~Record /\ queue'[i].n > 0 /\ queue'[i].rights = <<>>
    BY <1>1, <1>2, <1>4, EnqueueFacts
  <2>2. \/ queue' = queue
        \/ n = 0 /\ Type = "seqpacket" => rights # <<>> /\ Reader # "recv"
    BY DEF Sends
  <2>3. Len(queue') \in Nat /\ \A i \in 1..Len(queue') : queue'[i].n \in Nat
    <3>1. Len(queue') \in Nat /\ \A i \in 1..Len(queue') : queue'[i] \in Segment
      BY <2>1, LenProperties, ElementOfSeq
    <3>2. QED
      BY <3>1 DEF Segment
  <2>4. ASSUME NEW i \in 1..Len(queue'), queue'[i].n = 0
        PROVE  Record /\ (Type = "seqpacket" => queue'[i].rights # <<>> /\ Reader # "recv")
    <3>1. CASE i \in 1..Len(queue) /\ queue'[i] = queue[i]
      BY <1>1, <2>4, <3>1 DEF QueueOK
    <3>2. CASE ~(i \in 1..Len(queue) /\ queue'[i] = queue[i])
      <4>1. queue' # queue
        BY <3>2
      <4>2. queue'[i] = [n |-> n, rights |-> rights] /\ (Record \/ n > 0)
        BY <2>1, <2>3, <2>4, <3>2
      <4>3. n = 0 /\ queue'[i].rights = rights /\ Record
        BY <1>2, <2>4, <4>2
      <4>4. QED
        BY <2>2, <4>1, <4>3
    <3>3. QED
      BY <3>1, <3>2
  <2>5. QueueOK'
    BY <2>4 DEF QueueOK, Record, Type, Reader
  <2>6. Record => \A i \in 1..Len(queue') :
           (i \in 1..Len(queue) /\ queue'[i] = queue[i]) \/ queue'[i].n = n
    BY <2>1
  <2>7. QED
    BY <1>1, <1>2, <1>4, <2>1, <2>5, <2>6
<1>5. QED
  BY <1>3, <1>4 DEF Sends

LEMMA SendIInv ==
    ASSUME IInv, SendStep
    PROVE  IInv'
<1>1. PICK n \in 0..rest : \E rights \in Seq(Nat) : Sends(n, rights)
  BY SendSends
<1>2. PICK rights \in Seq(Nat) : Sends(n, rights)
  BY <1>1
<1>3. /\ setup' = setup /\ shut' = shut /\ reset' = reset /\ got' = got /\ fds' = fds
      /\ last' = last /\ Sending
  BY DEF SendStep, receiver
<1>4. /\ queue' \in Seq(Segment) /\ taken' \in Nat /\ Queued' =< Cap /\ QueueOK'
  BY <1>2, <1>3, SendKeepsQueue
<1>5. /\ setup \in Setups /\ at \in 1..Len(Plan) + 1 /\ at =< Len(Plan) /\ rest \in 0..SizeOf(at)
      /\ shut = FALSE /\ last # "closed"
  BY <1>3 DEF IInv, TypeOK, Sending, ClosedByPeer
<1>6. Len(Plan) \in Nat
  BY <1>5, PlanFacts
<1>7. at \in 1..Len(Plan) /\ at + 1 \in Nat \ {0} /\ at + 1 \in 1..Len(Plan) + 1
  BY <1>5, <1>6
<1>8. /\ Plan' = Plan /\ (\A i : SizeOf(i)' = SizeOf(i)) /\ SizeOf(at) \in Nat
      /\ SizeOf(at + 1) \in Nat /\ SizeOf(at) = Plan[at].n
  BY <1>3, <1>5, <1>7, PlanFacts DEF Plan, SizeOf
<1>9. at' \in 1..Len(Plan) + 1 /\ rest' \in 0..SizeOf(at') /\ SendingOK'
  <2>1. CASE /\ at' = at /\ rest' = rest - n /\ (Plan[at].kind = "fd" => n = 0)
             /\ n = rest => rest = 0
    <3>1. rest' \in 0..SizeOf(at)
      BY <1>5, <1>8, <2>1
    <3>2. rest' = 0 => n = rest
      BY <1>5, <1>8, <2>1
    <3>3. rest' = 0 => rest = 0
      BY <2>1, <3>2
    <3>4. n = 0 => rest' = rest
      BY <1>5, <1>8, <2>1
    <3>5. (Plan[at].kind = "fd" => rest = 1) /\ (rest = 0 => Plan[at].n = 0)
      BY <1>5 DEF IInv, SendingOK
    <3>6. QED
      BY <1>5, <1>8, <2>1, <3>1, <3>3, <3>4, <3>5 DEF SendingOK
  <2>2. CASE at' = at + 1 /\ rest' = SizeOf(at + 1) /\ failed' = FALSE
    <3>1. rest' \in 0..SizeOf(at')
      BY <1>8, <2>2
    <3>2. at' =< Len(Plan) => at' \in 1..Len(Plan)
      BY <1>6, <1>7, <2>2
    <3>3. \A i \in 1..Len(Plan) : /\ SizeOf(i) = Plan[i].n
                                  /\ Plan[i].kind = "fd" => Plan[i].n = 1
      BY <1>5, PlanFacts
    <3>4. QED
      BY <1>7, <1>8, <2>2, <3>1, <3>2, <3>3 DEF SendingOK
  <2>3. QED
    BY <1>2, <2>1, <2>2 DEF Sends
<1>10. TypeOK'
  BY <1>2, <1>3, <1>4, <1>8, <1>9 DEF IInv, TypeOK, Segment, Sends
<1>11. QED
  BY <1>3, <1>4, <1>5, <1>9, <1>10 DEF IInv, ClosedByPeer

LEMMA SenderCloseIInv ==
    ASSUME IInv, SenderClose
    PROVE  IInv'
<1>1. /\ setup' = setup /\ at' = at /\ rest' = rest /\ taken' = taken /\ failed' = failed
      /\ shut' = TRUE /\ reset' = reset /\ queue' = queue /\ got' = got /\ fds' = fds
      /\ last' = last /\ ~Sending
  BY DEF SenderClose, receiver
<1>2. TypeOK'
  BY <1>1 DEF IInv, TypeOK, Queued, Total, Plan, SizeOf
<1>3. SendingOK' /\ QueueOK' /\ ClosedByPeer' /\ ~Sending'
  BY <1>1 DEF IInv, SendingOK, QueueOK, ClosedByPeer, Sending, Plan, Record, Type, Reader
<1>4. QED
  BY <1>1, <1>2, <1>3 DEF IInv

LEMMA ResetIInv ==
    ASSUME IInv, Reset
    PROVE  IInv'
<1>1. /\ reset' = "untold" /\ queue' = <<>> /\ setup' = setup /\ at' = at /\ rest' = rest
      /\ taken' = taken /\ failed' = failed /\ shut' = shut /\ got' = got /\ fds' = fds
      /\ last' = last /\ ~shut
  BY DEF Reset, sender, receiver
<1>2. queue' \in Seq(Segment) /\ Len(queue') = 0
  BY <1>1
<1>3. Queued' = 0 /\ Cap \in Nat
  BY <1>2, SegmentsHaveSizes, SetupAssumption DEF Queued
<1>4. TypeOK'
  BY <1>1, <1>2, <1>3 DEF IInv, TypeOK, Segment, Plan, SizeOf
<1>5. QueueOK' /\ SendingOK'
  BY <1>1, <1>2 DEF IInv, QueueOK, SendingOK, Plan
<1>6. QED
  BY <1>1, <1>4, <1>5 DEF IInv, ClosedByPeer

LEMMA RecvIInv ==
    ASSUME IInv, RecvStep
    PROVE  IInv'
<1>1. /\ last' \in {"value", "again", "closed", "error"}
      /\ TakesNothing \/ \E n \in Nat : Takes(n)
  BY RecvTakes
<1>2. /\ setup' = setup /\ at' = at /\ rest' = rest /\ taken' = taken /\ failed' = failed
      /\ shut' = shut /\ Receiving
  BY DEF RecvStep, sender
<1>3. reset # "told" /\ reset \in {"no", "untold", "told"} /\ got \in Nat /\ fds \in Seq(Nat)
  BY <1>2 DEF IInv, TypeOK, Receiving
<1>4. queue \in Seq(Segment) /\ Queued =< Cap /\ Cap \in Nat /\ QueueOK
  BY SetupAssumption DEF IInv, TypeOK, Segment
<1>5. SendingOK' /\ (shut' => ~Sending')
  BY <1>2 DEF IInv, SendingOK, Sending, Plan
<1>6. CASE TakesNothing
  <2>1. queue' = queue /\ got' = got /\ fds' = fds /\ Queued' = Queued
    BY <1>6 DEF TakesNothing, Queued, Total
  <2>2. reset' \in {"no", "untold", "told"} /\ (reset' = "told" => last' = "error")
    BY <1>3, <1>6 DEF TakesNothing
  <2>3. last' = "closed" => shut /\ queue = <<>> /\ reset = "no" /\ reset' = reset
    BY <1>6 DEF TakesNothing, Closed
  <2>4. TypeOK'
    BY <1>1, <1>2, <2>1, <2>2 DEF IInv, TypeOK, Plan, SizeOf
  <2>5. QueueOK' /\ ClosedByPeer'
    BY <1>2, <1>4, <2>1, <2>3 DEF QueueOK, ClosedByPeer, Record, Type, Reader
  <2>6. QED
    BY <1>5, <2>2, <2>4, <2>5 DEF IInv
<1>7. ASSUME NEW n \in Nat, Takes(n) PROVE IInv'
  <2>1. /\ queue # <<>> /\ n =< queue[1].n /\ Dequeue(n) /\ reset' = reset
        /\ last' \in {"value", "again"} /\ fds' \in Seq(Nat)
        /\ got' = IF Reader = "recvfd" THEN got ELSE got + n
    BY <1>7 DEF Takes
  <2>2. /\ queue' \in Seq(Segment) /\ Queued' =< Queued
        /\ \A i \in 1..Len(queue') :
              \/ \E j \in 1..Len(queue) : queue'[i] = queue[j]
              \/ ~Record /\ queue'[i].n > 0 /\ queue'[i].rights = <<>>
    BY <1>4, <1>7, <2>1, DequeueFacts
  <2>3. Queued \in Nat /\ Queued' \in Nat
    BY <1>4, <2>2, SegmentsHaveSizes DEF Queued, Sum
  <2>4. Queued' =< Cap
    BY <1>4, <2>2, <2>3
  <2>5. got' \in Nat
    BY <1>3, <1>7, <2>1
  <2>6. TypeOK'
    BY <1>1, <1>2, <2>1, <2>2, <2>4, <2>5 DEF IInv, TypeOK, Segment, Plan, SizeOf
  <2>7. QueueOK'
    <3>1. ASSUME NEW i \in 1..Len(queue'), queue'[i].n = 0
          PROVE  Record /\ (Type = "seqpacket" => queue'[i].rights # <<>> /\ Reader # "recv")
      <4>1. \E j \in 1..Len(queue) : queue'[i] = queue[j]
        BY <2>2, <3>1
      <4>2. QED
        BY <1>4, <3>1, <4>1 DEF QueueOK
    <3>2. QED
      BY <1>2, <3>1 DEF QueueOK, Record, Type, Reader
  <2>8. QED
    BY <1>3, <1>5, <2>1, <2>6, <2>7 DEF IInv, ClosedByPeer
<1>8. QED
  BY <1>1, <1>6, <1>7

LEMMA StutterIInv ==
    ASSUME IInv, UNCHANGED vars
    PROVE  IInv'
BY DEF IInv, TypeOK, SendingOK, QueueOK, ClosedByPeer, Sending, Queued, Total, Plan, SizeOf,
       Record, Type, Reader, vars, sender, receiver

LEMMA NextIInv ==
    ASSUME IInv, [Next]_vars
    PROVE  IInv'
BY SendIInv, SenderCloseIInv, ResetIInv, RecvIInv, StutterIInv DEF Next

\* Init and every step keep the invariant, for all setups and sizes.
THEOREM Inductive == Spec => []IInv
<1>1. Init => IInv
  BY InitIInv
<1>2. IInv /\ [Next]_vars => IInv'
  BY NextIInv
<1>3. QED
  BY <1>1, <1>2, PTL DEF Spec

\* TypeOK: the script never asks to send more than the message has left, and the
\* kernel's queue holds no more than its limit.
THEOREM TypeCorrect == Spec => []TypeOK
<1>1. IInv => TypeOK
  BY DEF IInv
<1>2. QED
  BY <1>1, Inductive, PTL

\* ClosedByPeer: recv, recvfrom, read, recvmsg and recvfd return all nil only when
\* the peer has closed and nothing it sent is left, neither an empty datagram nor
\* descriptors that came without a byte.
THEOREM ClosedIsClosed == Spec => []ClosedByPeer
<1>1. IInv => ClosedByPeer
  BY DEF IInv
<1>2. QED
  BY <1>1, Inductive, PTL

\* SenderInStep: the results of send, sendto, write, sendmsg, sendfd and sendfile
\* tell the script exactly which bytes are left, as long as no message has 2^32
\* bytes or more and the pread variant of sendfile has a long enough file.
LEMMA SendInStep ==
    ASSUME IInv, SendStep, SenderInStep, Small
    PROVE  SenderInStep'
<1>1. PICK n \in 0..rest : \E rights \in Seq(Nat) : Sends(n, rights)
  BY SendSends
<1>2. PICK rights \in Seq(Nat) : Sends(n, rights)
  BY <1>1
<1>3. setup' = setup /\ Sending
  BY DEF SendStep
<1>4. setup \in Setups /\ at \in 1..Len(Plan) + 1 /\ at =< Len(Plan) /\ rest \in 0..SizeOf(at)
  BY <1>3 DEF IInv, TypeOK, Sending
<1>5. Len(Plan) \in Nat /\ HasSizes(Plan)
  BY <1>4, PlanFacts
<1>6. at \in 1..Len(Plan) /\ at - 1 \in 0..Len(Plan) /\ (at + 1) - 1 = at
  BY <1>4, <1>5
<1>7. /\ Plan' = Plan /\ \A i : SizeOf(i)' = SizeOf(i)
      /\ SizeOf(at) \in Nat /\ SizeOf(at) = Plan[at].n /\ SizeOf(at + 1) \in Nat
  <2>1. /\ SizeOf(at) \in Nat /\ SizeOf(at) = Plan[at].n
    BY <1>4, <1>6, PlanFacts
  <2>2. at + 1 \in Nat \ {0}
    BY <1>6
  <2>3. SizeOf(at + 1) \in Nat
    BY <1>4, <2>2, PlanFacts
  <2>4. QED
    BY <1>3, <2>1, <2>3 DEF Plan, SizeOf
<1> DEFINE before == Total(Plan)[at - 1]
           upto == Total(Plan)[at]
<1>8. before \in Nat /\ upto = before + SizeOf(at)
  BY <1>5, <1>6, <1>7, TotalNat, TotalSteps
<1>9. taken = before + SizeOf(at) - rest /\ taken' = taken + n
  BY <1>2, <1>3, SendKeepsQueue DEF SenderInStep
<1>10. SenderInStep' <=> taken' = Total(Plan)[at' - 1] + SizeOf(at') - rest'
  BY <1>3 DEF SenderInStep, Total, Plan, SizeOf
<1>11. CASE at' = at /\ rest' = rest - n
  <2>1. before + SizeOf(at) - rest + n = before + SizeOf(at) - (rest - n)
    <3> HIDE DEF before
    <3>1. QED
      BY <1>4, <1>7, <1>8
  <2>2. QED
    BY <1>9, <1>10, <1>11, <2>1
<1>12. CASE at' = at + 1 /\ rest' = SizeOf(at + 1)
  <2>1. n = rest
    BY <1>2, <1>12 DEF Sends
  <2>2. taken' = upto
    <3> HIDE DEF before, upto
    <3>1. QED
      BY <1>4, <1>7, <1>8, <1>9, <2>1
  <2>3. Total(Plan)[at' - 1] = upto
    BY <1>6, <1>12
  <2>4. upto \in Nat
    BY <1>7, <1>8
  <2>5. upto + SizeOf(at + 1) - SizeOf(at + 1) = upto
    <3> HIDE DEF upto
    <3>1. QED
      BY <1>7, <2>4
  <2>6. QED
    BY <1>10, <1>12, <2>2, <2>3, <2>5
<1>13. QED
  BY <1>2, <1>11, <1>12 DEF Sends

THEOREM SenderKnows ==
    ASSUME Small
    PROVE  Spec => []SenderInStep
<1>1. Init => SenderInStep
  <2> SUFFICES ASSUME Init PROVE SenderInStep
    OBVIOUS
  <2>1. at = 1 /\ rest = SizeOf(1) /\ taken = 0 /\ setup \in Setups
    BY DEF Init
  <2>2. HasSizes(Plan) /\ SizeOf(1) \in Nat
    BY <2>1, PlanFacts
  <2>3. Total(Plan)[0] = 0
    BY <2>2, TotalSteps
  <2>4. Total(Plan)[at - 1] = 0
    BY <2>1, <2>3
  <2>5. QED
    BY <2>1, <2>2, <2>4 DEF SenderInStep
<1>2. IInv /\ SenderInStep /\ [Next]_vars => SenderInStep'
  <2> SUFFICES ASSUME IInv, SenderInStep, [Next]_vars PROVE SenderInStep'
    OBVIOUS
  <2>1. CASE SendStep
    BY <2>1, SendInStep
  <2>2. CASE ~SendStep
    <3>1. setup' = setup /\ at' = at /\ rest' = rest /\ taken' = taken
      BY <2>2 DEF Next, SenderClose, Reset, RecvStep, sender, vars
    <3>2. QED
      BY <3>1 DEF SenderInStep, Total, Plan, SizeOf
  <2>3. QED
    BY <2>1, <2>2
<1>3. QED
  BY <1>1, <1>2, Inductive, PTL DEF Spec

LEMMA NothingLostSending ==
    ASSUME IInv, SendStep, RecordsFit, NoByteLost, Fits
    PROVE  RecordsFit' /\ NoByteLost'
<1>1. PICK n \in 0..rest : \E rights \in Seq(Nat) : Sends(n, rights)
  BY SendSends
<1>2. PICK rights \in Seq(Nat) : Sends(n, rights)
  BY <1>1
<1>3. setup' = setup /\ got' = got /\ reset' = reset /\ Sending
  BY DEF SendStep, receiver
<1>4. /\ queue' \in Seq(Segment) /\ Queued' \in Nat /\ taken' \in Nat
      /\ Queued' = Queued + n /\ taken' = taken + n
      /\ Record => \A i \in 1..Len(queue') :
            (i \in 1..Len(queue) /\ queue'[i] = queue[i]) \/ queue'[i].n = n
  BY <1>2, <1>3, SendKeepsQueue
<1>5. /\ setup \in Setups /\ at \in 1..Len(Plan) + 1 /\ at =< Len(Plan) /\ rest \in 0..SizeOf(at)
      /\ got \in Nat /\ taken \in Nat /\ queue \in Seq(Segment)
  BY <1>3 DEF IInv, TypeOK, Sending, Segment
<1>6. Len(Plan) \in Nat /\ Queued \in Nat /\ BufSize \in Nat
  BY <1>5, PlanFacts, SegmentsHaveSizes, SetupAssumption DEF Queued, Sum
<1>7. at \in 1..Len(Plan)
  BY <1>5, <1>6
<1>8. SizeOf(at) = Plan[at].n /\ SizeOf(at) \in Nat
  BY <1>5, <1>7, PlanFacts
<1>9. Record /\ Reader # "recvfd" => n =< BufSize
  <2>1. Record /\ Reader # "recvfd" => Plan[at].n =< BufSize
    BY <1>5, <1>7 DEF Fits, Record, Type, Reader, Plan
  <2>2. QED
    BY <1>5, <1>6, <1>8, <2>1
<1>10. RecordsFit'
  BY <1>3, <1>4, <1>9 DEF RecordsFit, Record, Type, Reader
<1>11. NoByteLost'
  <2>1. n \in Nat
    BY <1>5, <1>8
  <2>2. got + Queued = taken => got + (Queued + n) = taken + n
    BY <1>5, <1>6, <2>1
  <2>3. QED
    BY <1>3, <1>4, <2>2 DEF NoByteLost, Reader
<1>12. QED
  BY <1>10, <1>11

LEMMA NothingLostReceiving ==
    ASSUME IInv, RecvStep, RecordsFit, NoByteLost
    PROVE  RecordsFit' /\ NoByteLost'
<1>1. TakesNothing \/ \E n \in Nat : Takes(n)
  BY RecvTakes
<1>2. setup' = setup /\ taken' = taken
  BY DEF RecvStep, sender
<1>3. queue \in Seq(Segment) /\ got \in Nat /\ taken \in Nat
  BY DEF IInv, TypeOK, Segment
<1>4. CASE TakesNothing
  <2>1. queue' = queue /\ got' = got /\ Queued' = Queued /\ (reset' = "no" => reset = "no")
    BY <1>4 DEF TakesNothing, Queued, Total
  <2>2. QED
    BY <1>2, <2>1 DEF RecordsFit, NoByteLost, Record, Type, Reader
<1>5. ASSUME NEW n \in Nat, Takes(n) PROVE RecordsFit' /\ NoByteLost'
  <2>1. /\ queue # <<>> /\ n =< queue[1].n /\ Dequeue(n) /\ reset' = reset
        /\ Reader # "recvfd" => got' = got + n
        /\ Record /\ Reader # "recvfd" => n = Least(queue[1].n, BufSize)
    BY <1>5 DEF Takes
  <2>2. /\ queue[1] \in Segment
        /\ ~Record \/ n = queue[1].n => Queued' = Queued - n
        /\ \A i \in 1..Len(queue') :
              \/ \E j \in 1..Len(queue) : queue'[i] = queue[j]
              \/ ~Record /\ queue'[i].n > 0 /\ queue'[i].rights = <<>>
    BY <1>3, <1>5, <2>1, DequeueFacts
  <2>3. Record /\ Reader # "recvfd" => n = queue[1].n
    <3>1. queue[1].n \in Nat /\ BufSize \in Nat
      BY <2>2, SetupAssumption DEF Segment
    <3>2. Len(queue) \in Nat /\ Len(queue) # 0
      BY <1>3, <2>1, LenProperties, EmptySeq
    <3>3. 1 \in 1..Len(queue)
      BY <3>2
    <3>4. Record /\ Reader # "recvfd" => queue[1].n =< BufSize
      BY <3>3 DEF RecordsFit
    <3>5. QED
      BY <2>1, <3>1, <3>4 DEF Least
  <2>4. RecordsFit'
    BY <1>2, <2>2 DEF RecordsFit, Record, Type, Reader
  <2>5. Queued \in Nat
    BY <1>3, SegmentsHaveSizes DEF Queued, Sum
  <2>6. got + Queued = taken => (got + n) + (Queued - n) = taken
    BY <1>3, <1>5, <2>5
  <2>7. NoByteLost'
    BY <1>2, <2>1, <2>2, <2>3, <2>6 DEF NoByteLost, Reader
  <2>8. QED
    BY <2>4, <2>7
<1>6. QED
  BY <1>1, <1>4, <1>5

\* NoByteLost: as long as the connection is not reset, every byte the kernel took was
\* returned by recv, recvfrom, read or recvmsg once, or is still queued.
THEOREM NothingIsLost ==
    ASSUME Fits
    PROVE  Spec => []NoByteLost
<1>1. Init => RecordsFit /\ NoByteLost
  <2> SUFFICES ASSUME Init PROVE RecordsFit /\ NoByteLost
    OBVIOUS
  <2>1. queue = <<>> /\ got = 0 /\ taken = 0
    BY DEF Init
  <2>2. queue \in Seq(Segment) /\ Len(queue) = 0
    BY <2>1
  <2>3. Queued = 0
    BY <2>2, SegmentsHaveSizes DEF Queued
  <2>4. QED
    BY <2>1, <2>2, <2>3 DEF RecordsFit, NoByteLost
<1>2. IInv /\ RecordsFit /\ NoByteLost /\ [Next]_vars => RecordsFit' /\ NoByteLost'
  <2> SUFFICES ASSUME IInv, RecordsFit, NoByteLost, [Next]_vars
               PROVE  RecordsFit' /\ NoByteLost'
    OBVIOUS
  <2>1. CASE SendStep
    BY <2>1, NothingLostSending
  <2>2. CASE RecvStep
    BY <2>2, NothingLostReceiving
  <2>3. CASE Reset
    BY <2>3 DEF Reset, RecordsFit, NoByteLost, Record, Type, Reader
  <2>4. CASE SenderClose \/ UNCHANGED vars
    <3>1. /\ setup' = setup /\ taken' = taken /\ got' = got /\ queue' = queue
          /\ reset' = reset
      BY <2>4 DEF SenderClose, receiver, sender, vars
    <3>2. QED
      BY <3>1 DEF RecordsFit, NoByteLost, Queued, Total, Record, Type, Reader
  <2>5. QED
    BY <2>1, <2>2, <2>3, <2>4 DEF Next
<1>3. QED
  BY <1>1, <1>2, Inductive, PTL DEF Spec
-----------------------------------------------------------------------------
(* The descriptors.                                                        *)

\* h:data() makes of the bytes that cmsghdr.rights() laid out the same descriptors.
LEMMA DataOfRights ==
    ASSUME NEW S, NEW f \in Seq(S)
    PROVE  Data(Rights(f)) = f
<1> DEFINE r == Rights(f)
           d == Data(r)
<1>1. /\ Len(f) \in Nat /\ r \in Seq(S) /\ Len(r) = 4 * Len(f)
      /\ d \in Seq(S) /\ Len(d) = Len(r) \div 4
  BY LenProperties, RightsFacts, DataFacts
<1>2. Len(d) = Len(f)
  BY <1>1
<1>3. ASSUME NEW i \in 1..Len(f) PROVE d[i] = f[i]
  <2>1. 4 * i \in 1..4 * Len(f) /\ (4 * i + 3) \div 4 = i /\ i \in 1..(Len(r) \div 4)
    BY <1>1
  <2>2. d[i] = r[4 * i]
    BY <2>1 DEF Data
  <2>3. r[4 * i] = f[(4 * i + 3) \div 4]
    BY <2>1 DEF Rights
  <2>4. QED
    BY <2>1, <2>2, <2>3
<1> HIDE DEF d
<1>4. d \in Seq(S) /\ \A i \in 1..Len(d) : d[i] = f[i]
  BY <1>1, <1>2, <1>3
<1>5. d = f
  BY <1>2, <1>4, SeqEqual
<1>6. QED
  BY <1>5 DEF d

\* What the script gets of recvmsg are the descriptors that came, and none if none
\* came, although its own list is still there.
LEMMA CameOfRights ==
    ASSUME NEW f \in Seq(Nat)
    PROVE  Came(Rights(f)) = f
<1> DEFINE none == [i \in 1..Slots |-> -1]
           list == Data(IF Rights(f) = <<>> THEN Laid ELSE Rights(f))
           ss == [i \in 1..Len(list) |-> IF list[i] = -1 THEN <<>> ELSE <<list[i]>>]
<1>1. Came(Rights(f)) = FlattenSeq(ss)
  BY DEF Came
<1>2. f # <<>> <=> Rights(f) # <<>>
  BY RightsFacts
<1>3. CASE f = <<>>
  <2>1. none \in Seq(Nat \cup {-1}) /\ Len(none) \in Nat /\ \A i \in 1..Len(none) : none[i] = -1
    BY SetupAssumption
  <2>2. Laid = Rights(none)
    BY DEF Laid
  <2> HIDE DEF none
  <2>3. list = none
    BY <1>2, <1>3, <2>1, <2>2, DataOfRights
  <2> HIDE DEF list
  <2>4. ss \in Seq(Seq(Nat)) /\ Len(ss) = Len(none) /\ \A i \in 1..Len(ss) : ss[i] = <<>>
    <3>1. \A i \in 1..Len(list) : (IF list[i] = -1 THEN <<>> ELSE <<list[i]>>) = <<>>
      BY <2>1, <2>3
    <3>2. ss = [i \in 1..Len(list) |-> <<>>] /\ <<>> \in Seq(Nat)
      BY <3>1
    <3>3. QED
      BY <2>1, <2>3, <3>2
  <2> HIDE DEF ss
  <2>5. FlattenSeq(ss) = <<>>
    BY <2>4, FlattenNothing
  <2>6. QED
    BY <1>1, <1>3, <2>5
<1>4. CASE f # <<>>
  <2>1. list = f
    BY <1>2, <1>4, DataOfRights
  <2> HIDE DEF list
  <2>2. \A i \in 1..Len(f) : f[i] # -1
    <3>1. \A i \in 1..Len(f) : f[i] \in Nat
      BY ElementOfSeq
    <3>2. QED
      BY <3>1
  <2>3. ss = [i \in 1..Len(f) |-> <<f[i]>>]
    BY <2>1, <2>2
  <2> HIDE DEF ss
  <2>4. QED
    BY <1>1, <2>3, FlattenSingletons
<1>5. QED
  BY <1>3, <1>4

\* The descriptors of each segment of a queue.
Each(q) == [i \in 1..Len(q) |-> Data(q[i].rights)]

LEMMA EachFacts ==
    ASSUME NEW q \in Seq(Segment)
    PROVE  /\ Each(q) \in Seq(Seq(Nat)) /\ Len(Each(q)) = Len(q)
           /\ \A i \in 1..Len(q) : Each(q)[i] = Data(q[i].rights)
           /\ Carried(q) = FlattenSeq(Each(q)) /\ Carried(q) \in Seq(Nat)
<1>1. Len(q) \in Nat /\ \A i \in 1..Len(q) : q[i] \in Segment
  BY LenProperties, ElementOfSeq
<1>2. \A i \in 1..Len(q) : Data(q[i].rights) \in Seq(Nat)
  <2>1. \A i \in 1..Len(q) : q[i].rights \in Seq(Nat)
    BY <1>1 DEF Segment
  <2>2. QED
    BY <2>1, DataFacts
<1>3. Each(q) = [i \in 1..Len(q) |-> Data(q[i].rights)]
  BY DEF Each
<1>4. Each(q) \in Seq(Seq(Nat)) /\ Len(Each(q)) = Len(q)
  BY <1>1, <1>2, <1>3
<1>5. Carried(q) = FlattenSeq(Each(q))
  BY DEF Carried, Each
<1>6. QED
  BY <1>3, <1>4, <1>5, FlattenElements

LEMMA NoData == Data(<<>>) = <<>>
<1>1. Data(<<>>) \in Seq(Nat) /\ Len(Data(<<>>)) = 0 \div 4
  <2>1. <<>> \in Seq(Nat) /\ Len(<<>>) = 0
    OBVIOUS
  <2>2. QED
    BY <2>1, DataFacts
<1>2. 0 \div 4 = 0
  OBVIOUS
<1>3. QED
  BY <1>1, <1>2, EmptySeq

\* Bytes that join the last segment bring no descriptors, a new one brings its own.
LEMMA EnqueueCarried ==
    ASSUME queue \in Seq(Segment), NEW n \in Nat, NEW rights \in Seq(Nat), Enqueue(n, rights)
    PROVE  Carried(queue') = IF ~Record /\ n = 0 THEN Carried(queue)
                             ELSE Carried(queue) \o Data(rights)
<1> DEFINE e == [n |-> n, rights |-> rights]
           q == Len(queue)
<1>1. e \in Segment /\ q \in Nat /\ Data(rights) \in Seq(Nat)
  BY LenProperties, DataFacts DEF Segment
<1>2. CASE ~Record /\ n = 0
  BY <1>2 DEF Enqueue
<1>3. CASE /\ ~(~Record /\ n = 0)
           /\ ~Record /\ q > 0 /\ rights = <<>> /\ queue[q].rights = <<>>
  <2> DEFINE d == [queue[q] EXCEPT !.n = queue[q].n + n]
  <2>1. queue' = [queue EXCEPT ![q] = d]
    BY <1>3 DEF Enqueue
  <2>2. d.rights = queue[q].rights
    <3>1. queue[q] \in Segment
      BY <1>1, <1>3, ElementOfSeq
    <3>2. QED
      BY <3>1 DEF Segment
  <2> HIDE DEF d
  <2>3. Len(queue') = q /\ \A i \in 1..q : queue'[i].rights = queue[i].rights
    BY <1>1, <2>1, <2>2
  <2>4. Each(queue') = Each(queue)
    BY <2>3 DEF Each
  <2>5. Carried(queue') = Carried(queue)
    BY <2>4 DEF Carried, Each
  <2>6. Carried(queue) \o Data(rights) = Carried(queue)
    BY <1>3, NoData, EachFacts, ConcatEmptySeq
  <2>7. QED
    BY <2>5, <2>6
<1>4. CASE /\ ~(~Record /\ n = 0)
           /\ ~(~Record /\ q > 0 /\ rights = <<>> /\ queue[q].rights = <<>>)
  <2>1. queue' = Append(queue, e)
    BY <1>4 DEF Enqueue
  <2>2. e.rights = rights
    OBVIOUS
  <2> HIDE DEF e
  <2>3. /\ queue' \in Seq(Segment) /\ Len(queue') = q + 1 /\ queue'[q + 1] = e
        /\ \A i \in 1..q : queue'[i] = queue[i]
    BY <1>1, <2>1, AppendProperties
  <2>4. /\ Each(queue) \in Seq(Seq(Nat)) /\ Len(Each(queue)) = q
        /\ \A i \in 1..q : Each(queue)[i] = Data(queue[i].rights)
    BY EachFacts
  <2>5. /\ Each(queue') \in Seq(Seq(Nat)) /\ Len(Each(queue')) = q + 1
        /\ \A i \in 1..(q + 1) : Each(queue')[i] = Data(queue'[i].rights)
    BY <2>3, EachFacts
  <2> DEFINE t == Append(Each(queue), Data(rights))
  <2>6. /\ t \in Seq(Seq(Nat)) /\ Len(t) = q + 1 /\ t[q + 1] = Data(rights)
        /\ \A i \in 1..q : t[i] = Each(queue)[i]
    BY <1>1, <2>4, AppendProperties
  <2> HIDE DEF t
  <2>7. ASSUME NEW i \in 1..(q + 1) PROVE Each(queue')[i] = t[i]
    <3>1. i \in 1..q \/ i = q + 1
      BY <1>1
    <3>2. QED
      BY <2>2, <2>3, <2>4, <2>5, <2>6, <3>1
  <2>8. Each(queue') = t
    BY <2>5, <2>6, <2>7, SeqEqual
  <2>9. FlattenSeq(Each(queue')) = FlattenSeq(Each(queue)) \o Data(rights)
    BY <1>1, <2>4, <2>8, FlattenAppend DEF t
  <2>10. Carried(queue') = FlattenSeq(Each(queue')) /\ Carried(queue) = FlattenSeq(Each(queue))
    BY DEF Carried, Each
  <2>11. QED
    BY <1>4, <2>9, <2>10
<1>5. QED
  BY <1>2, <1>3, <1>4

\* What is taken off the queue takes the descriptors of the first segment with it.
LEMMA DequeueCarried ==
    ASSUME queue \in Seq(Segment), queue # <<>>, NEW n \in Nat, n =< queue[1].n, Dequeue(n)
    PROVE  /\ queue' \in Seq(Segment) /\ Carried(queue') \in Seq(Nat)
           /\ Carried(queue) = Data(queue[1].rights) \o Carried(queue')
<1>1. /\ Len(queue) \in Nat /\ Len(queue) # 0 /\ queue' \in Seq(Segment)
  BY LenProperties, EmptySeq, DequeueFacts
<1>2. 1 \in 1..Len(queue)
  BY <1>1
<1>3. /\ Each(queue) \in Seq(Seq(Nat)) /\ Len(Each(queue)) = Len(queue)
      /\ \A i \in 1..Len(queue) : Each(queue)[i] = Data(queue[i].rights)
      /\ Carried(queue) = FlattenSeq(Each(queue))
  BY EachFacts
<1>4. /\ Each(queue') \in Seq(Seq(Nat)) /\ Len(Each(queue')) = Len(queue')
      /\ \A i \in 1..Len(queue') : Each(queue')[i] = Data(queue'[i].rights)
      /\ Carried(queue') = FlattenSeq(Each(queue')) /\ Carried(queue') \in Seq(Nat)
  BY <1>1, EachFacts
<1> DEFINE t == Tail(Each(queue))
<1>5. /\ FlattenSeq(Each(queue)) = Each(queue)[1] \o FlattenSeq(t)
      /\ t \in Seq(Seq(Nat)) /\ Len(t) = Len(queue) - 1
      /\ \A i \in 1..(Len(queue) - 1) : t[i] = Each(queue)[i + 1]
  <2>1. Each(queue) # <<>>
    BY <1>1, <1>3, EmptySeq
  <2>2. QED
    BY <1>3, <2>1, FlattenTail, HeadTailProperties
<1> HIDE DEF t
<1>6. CASE Record \/ queue[1].n = n
  <2>1. queue' = Tail(queue)
    BY <1>6 DEF Dequeue
  <2>2. Len(queue') = Len(queue) - 1 /\ \A i \in 1..Len(queue') : queue'[i] = queue[i + 1]
    BY <2>1, HeadTailProperties
  <2>3. ASSUME NEW i \in 1..Len(queue') PROVE Each(queue')[i] = t[i]
    <3>1. i + 1 \in 1..Len(queue) /\ i \in 1..(Len(queue) - 1)
      BY <1>1, <2>2
    <3>2. QED
      BY <1>3, <1>4, <1>5, <2>2, <3>1
  <2>4. Each(queue') = t
    BY <1>4, <1>5, <2>2, <2>3, SeqEqual
  <2>5. QED
    BY <1>1, <1>2, <1>3, <1>4, <1>5, <2>4
<1>7. CASE ~Record /\ queue[1].n # n
  <2> DEFINE d == [n |-> queue[1].n - n, rights |-> <<>>]
             u == Tail(Each(queue'))
  <2>1. queue' = [queue EXCEPT ![1] = d]
    BY <1>7 DEF Dequeue
  <2>2. d.rights = <<>>
    OBVIOUS
  <2> HIDE DEF d
  <2>3. /\ Len(queue') = Len(queue) /\ queue'[1].rights = <<>>
        /\ \A i \in 1..Len(queue) : i # 1 => queue'[i] = queue[i]
    BY <1>1, <1>2, <2>1, <2>2
  <2>4. /\ FlattenSeq(Each(queue')) = Each(queue')[1] \o FlattenSeq(u)
        /\ u \in Seq(Seq(Nat)) /\ Len(u) = Len(queue) - 1 /\ FlattenSeq(u) \in Seq(Nat)
        /\ \A i \in 1..(Len(queue) - 1) : u[i] = Each(queue')[i + 1]
    <3>1. Each(queue') # <<>>
      BY <1>1, <1>4, <2>3, EmptySeq
    <3>2. FlattenSeq(Each(queue')) = Each(queue')[1] \o FlattenSeq(u) /\ FlattenSeq(u) \in Seq(Nat)
      BY <1>4, <3>1, FlattenTail
    <3>3. /\ u \in Seq(Seq(Nat)) /\ Len(u) = Len(Each(queue')) - 1
          /\ \A i \in 1..Len(u) : u[i] = Each(queue')[i + 1]
      BY <1>4, <3>1, HeadTailProperties
    <3> HIDE DEF u
    <3>4. Len(u) = Len(queue) - 1
      BY <1>4, <2>3, <3>3
    <3>5. QED
      BY <3>2, <3>3, <3>4
  <2> HIDE DEF u
  <2>5. ASSUME NEW i \in 1..(Len(queue) - 1) PROVE u[i] = t[i]
    <3>1. i + 1 \in 1..Len(queue) /\ i + 1 # 1
      BY <1>1
    <3>2. Each(queue')[i + 1] = Data(queue'[i + 1].rights) /\ queue'[i + 1] = queue[i + 1]
      BY <1>4, <2>3, <3>1
    <3>3. QED
      BY <1>3, <1>5, <2>4, <3>1, <3>2
  <2>6. u = t
    BY <1>5, <2>4, <2>5, SeqEqual
  <2>7. Each(queue')[1] = <<>>
    BY <1>2, <1>4, <2>3, NoData
  <2>8. <<>> \o FlattenSeq(u) = FlattenSeq(u)
    BY <2>4, ConcatEmptySeq
  <2>9. Carried(queue') = FlattenSeq(t)
    BY <1>4, <2>4, <2>6, <2>7, <2>8
  <2>10. QED
    BY <1>1, <1>2, <1>3, <1>4, <1>5, <2>9
<1>8. QED
  BY <1>6, <1>7

LEMMA PlannedFacts ==
    ASSUME setup \in Setups
    PROVE  /\ Planned(0) = <<>>
           /\ \A k \in 1..Len(Plan) : /\ Planned(k) = Planned(k - 1) \o Plan[k].fds
                                       /\ Planned(k - 1) \in Seq(Nat)
<1> DEFINE ss(k) == [i \in 1..k |-> Plan[i].fds]
<1>1. Len(Plan) \in Nat /\ \A i \in 1..Len(Plan) : Plan[i].fds \in Seq(Nat)
  BY PlanFacts
<1>2. \A k \in 0..Len(Plan) : /\ ss(k) \in Seq(Seq(Nat)) /\ Len(ss(k)) = k
                              /\ \A i \in 1..k : ss(k)[i] = Plan[i].fds
  BY <1>1
<1>3. \A k : Planned(k) = FlattenSeq(ss(k))
  BY DEF Planned
<1> HIDE DEF ss
<1>4. Planned(0) = <<>>
  <2>1. 0 \in 0..Len(Plan) /\ 1..0 = {}
    BY <1>1
  <2>2. ss(0) \in Seq(Seq(Nat)) /\ Len(ss(0)) = 0
    BY <1>2, <2>1
  <2>3. ss(0) = <<>>
    BY <2>2, EmptySeq
  <2>4. FlattenSeq(<<>>) = <<>>
    BY EmptySeq DEF FlattenSeq
  <2>5. QED
    BY <1>3, <2>3, <2>4
<1>5. ASSUME NEW k \in 1..Len(Plan)
      PROVE  Planned(k) = Planned(k - 1) \o Plan[k].fds /\ Planned(k - 1) \in Seq(Nat)
  <2> DEFINE j == k - 1
  <2>1. /\ j \in 0..Len(Plan) /\ k \in 0..Len(Plan) /\ j + 1 = k /\ k \in 1..k /\ j \in Nat
        /\ \A i \in 1..j : i \in 1..k
        /\ \A i \in 1..k : i \in 1..j \/ i = k
    BY <1>1
  <2> HIDE DEF j
  <2>2. /\ ss(j) \in Seq(Seq(Nat)) /\ Len(ss(j)) = j /\ \A i \in 1..j : ss(j)[i] = Plan[i].fds
    BY <1>2, <2>1
  <2>3. /\ ss(k) \in Seq(Seq(Nat)) /\ Len(ss(k)) = k /\ \A i \in 1..k : ss(k)[i] = Plan[i].fds
    BY <1>2, <2>1
  <2> DEFINE t == Append(ss(j), Plan[k].fds)
  <2>4. /\ t \in Seq(Seq(Nat)) /\ Len(t) = k /\ t[k] = Plan[k].fds
        /\ \A i \in 1..j : t[i] = ss(j)[i]
    BY <1>1, <2>1, <2>2, AppendProperties
  <2> HIDE DEF t
  <2>5. ASSUME NEW i \in 1..k PROVE ss(k)[i] = t[i]
    <3>1. ss(k)[i] = Plan[i].fds
      BY <2>3
    <3>2. CASE i \in 1..j
      BY <2>2, <2>4, <3>1, <3>2
    <3>3. CASE i = k
      BY <2>4, <3>1, <3>3
    <3>4. QED
      BY <2>1, <3>2, <3>3
  <2>6. ss(k) = t
    BY <2>3, <2>4, <2>5, SeqEqual
  <2>7. FlattenSeq(ss(k)) = FlattenSeq(ss(j)) \o Plan[k].fds
    BY <1>1, <2>2, <2>6, FlattenAppend DEF t
  <2>8. FlattenSeq(ss(j)) \in Seq(Nat)
    BY <2>2, FlattenElements
  <2>9. Planned(k) = Planned(j) \o Plan[k].fds /\ Planned(j) \in Seq(Nat)
    BY <1>3, <2>7, <2>8
  <2>10. QED
    BY <2>9 DEF j
<1>6. QED
  BY <1>4, <1>5

\* Lists of descriptors, one after the other.
LEMMA Joined ==
    ASSUME NEW x \in Seq(Nat), NEW y \in Seq(Nat)
    PROVE  /\ x \o y \in Seq(Nat)
           /\ y = <<>> => x \o y = x
           /\ Len(y) = 1 => y[1] \in Nat /\ Append(x, y[1]) = x \o y
<1>1. x \o y \in Seq(Nat)
  BY ConcatProperties
<1>2. y = <<>> => x \o y = x
  BY ConcatEmptySeq
<1>3. ASSUME Len(y) = 1 PROVE y[1] \in Nat /\ Append(x, y[1]) = x \o y
  <2>1. y[1] \in Nat
    <3>1. PICK e \in Nat : e = 1
      OBVIOUS
    <3>2. e \in 1..Len(y)
      BY <1>3, <3>1
    <3>3. y[e] \in Nat
      BY <3>2, ElementOfSeq
    <3>4. QED
      BY <3>1, <3>3
  <2> DEFINE z == x \o y
             w == Append(x, y[1])
  <2>2. /\ z \in Seq(Nat) /\ Len(z) = Len(x) + 1
        /\ \A i \in 1..Len(x) + Len(y) : z[i] = IF i =< Len(x) THEN x[i] ELSE y[i - Len(x)]
    <3>1. /\ x \o y \in Seq(Nat) /\ Len(x \o y) = Len(x) + Len(y)
          /\ \A i \in 1..Len(x) + Len(y) :
                (x \o y)[i] = IF i =< Len(x) THEN x[i] ELSE y[i - Len(x)]
      BY ConcatProperties
    <3>2. QED
      BY <1>3, <3>1
  <2>3. /\ w \in Seq(Nat) /\ Len(w) = Len(x) + 1 /\ w[Len(x) + 1] = y[1]
        /\ \A i \in 1..Len(x) : w[i] = x[i]
    BY <2>1, AppendProperties
  <2> HIDE DEF z, w
  <2>4. Len(x) \in Nat
    BY LenProperties
  <2>5. ASSUME NEW i \in 1..Len(x) + 1 PROVE w[i] = z[i]
    <3>1. CASE i =< Len(x)
      <4>1. i \in 1..Len(x) /\ i \in 1..Len(x) + Len(y)
        BY <1>3, <2>4, <3>1
      <4>2. QED
        BY <2>2, <2>3, <3>1, <4>1
    <3>2. CASE i = Len(x) + 1
      <4>1. i - Len(x) = 1 /\ ~(i =< Len(x)) /\ i \in 1..Len(x) + Len(y)
        BY <1>3, <2>4, <3>2
      <4>2. z[i] = y[i - Len(x)]
        BY <2>2, <4>1
      <4>3. QED
        BY <2>3, <3>2, <4>1, <4>2
    <3>3. QED
      BY <2>4, <3>1, <3>2
  <2>6. w = z
    BY <2>2, <2>3, <2>5, SeqEqual
  <2>7. QED
    BY <2>1, <2>6 DEF w, z
<1>4. QED
  BY <1>1, <1>2, <1>3

LEMMA JoinedThree ==
    ASSUME NEW x \in Seq(Nat), NEW y \in Seq(Nat), NEW z \in Seq(Nat)
    PROVE  (x \o y) \o z = x \o (y \o z)
  BY ConcatAssociative, SMTT(30)

\* The bytes of whole descriptors, of one at most where recvfd is used.
IsWhole(r) ==
    /\ r = Rights(Data(r))
    /\ Reader = "recvfd" => Len(Data(r)) =< 1

LEMMA NoneIsWhole == IsWhole(<<>>)
<1>1. <<>> \in Seq(Nat) /\ Len(<<>>) = 0
  OBVIOUS
<1>2. Rights(<<>>) = <<>>
  BY <1>1, RightsFacts
<1>3. QED
  BY <1>1, <1>2, NoData DEF IsWhole

LEMMA FirstRightsFacts ==
    ASSUME setup \in Setups, at \in 1..Len(Plan)
    PROVE  /\ IsWhole(FirstRights) /\ FirstRights \in Seq(Nat)
           /\ Data(FirstRights) = IF rest = SizeOf(at) THEN Plan[at].fds ELSE <<>>
<1>1. Plan[at].fds \in Seq(Nat) /\ (Reader = "recvfd" => Len(Plan[at].fds) =< 1)
  BY PlanFacts
<1>2. CASE rest = SizeOf(at)
  <2>1. FirstRights = Rights(Plan[at].fds)
    BY <1>2 DEF FirstRights
  <2>2. Data(FirstRights) = Plan[at].fds /\ FirstRights \in Seq(Nat)
    BY <1>1, <2>1, DataOfRights, RightsFacts
  <2>3. QED
    BY <1>1, <1>2, <2>1, <2>2 DEF IsWhole
<1>3. CASE rest # SizeOf(at)
  <2>1. FirstRights = <<>> /\ <<>> \in Seq(Nat)
    BY <1>3 DEF FirstRights
  <2>2. QED
    BY <1>3, <2>1, NoData, NoneIsWhole
<1>4. QED
  BY <1>2, <1>3

LEMMA FdsSending ==
    ASSUME IInv, SendStep, RightsOK, FdsInOrder
    PROVE  RightsOK' /\ FdsInOrder'
<1>1. PICK n \in 0..rest : \E rights \in Seq(Nat) : Sends(n, rights)
  BY SendSends
<1>2. PICK rights \in Seq(Nat) : Sends(n, rights)
  BY <1>1
<1>3. setup' = setup /\ fds' = fds /\ reset' = reset /\ Sending
  BY DEF SendStep, receiver
<1>4. /\ setup \in Setups /\ at \in 1..Len(Plan) + 1 /\ at =< Len(Plan) /\ rest \in 0..SizeOf(at)
      /\ fds \in Seq(Nat) /\ queue \in Seq(Segment)
  BY <1>3 DEF IInv, TypeOK, Sending, Segment
<1>5. Len(Plan) \in Nat /\ at \in 1..Len(Plan)
  BY <1>4, PlanFacts
<1>6. /\ SizeOf(at) = Plan[at].n /\ SizeOf(at) \in Nat /\ Plan[at].fds \in Seq(Nat)
      /\ Plan[at].n = 0 /\ Type = "stream" => Plan[at].fds = <<>>
      /\ rest = 0 => Plan[at].n = 0
  BY <1>4, <1>5, PlanFacts DEF IInv, SendingOK
<1>7. /\ Planned(at) = Planned(at - 1) \o Plan[at].fds
      /\ Planned(at) \in Seq(Nat) /\ Planned(at - 1) \in Seq(Nat)
      /\ Plan[at].fds = <<>> => Planned(at) = Planned(at - 1)
  <2>1. Planned(at) = Planned(at - 1) \o Plan[at].fds /\ Planned(at - 1) \in Seq(Nat)
    BY <1>4, <1>5, PlannedFacts
  <2>2. QED
    BY <1>6, <2>1, Joined
<1>8. /\ \A k : Planned(k)' = Planned(k)
      /\ Sent' = IF rest' < SizeOf(at') THEN at' ELSE at' - 1
      /\ FdsInOrder' <=>
            (Reader # "recv" /\ reset = "no" => fds \o Carried(queue') = Planned(Sent'))
  BY <1>3 DEF Planned, Plan, Sent, SizeOf, FdsInOrder, Reader, Carried
<1>9. CASE UNCHANGED <<queue, taken>> /\ n = 0 /\ (at' = at \/ Plan[at].fds = <<>>)
  <2>1. queue' = queue
    BY <1>9
  <2>2. RightsOK'
    BY <1>3, <2>1 DEF RightsOK, Reader
  <2>3. CASE at' = at /\ rest' = rest - n
    <3>1. Sent' = Sent
      BY <1>4, <1>6, <1>8, <1>9, <2>3 DEF Sent
    <3>2. QED
      BY <1>8, <2>1, <2>2, <3>1 DEF FdsInOrder
  <2>4. CASE at' = at + 1 /\ rest' = SizeOf(at + 1)
    <3>1. Plan[at].fds = <<>>
      BY <1>5, <1>9, <2>4
    <3>2. SizeOf(at + 1) \in Nat
      BY <1>4, <1>5, PlanFacts
    <3>3. Sent' = at
      BY <1>5, <1>8, <2>4, <3>2
    <3>4. Planned(Sent') = Planned(Sent)
      BY <1>7, <3>1, <3>3 DEF Sent
    <3>5. QED
      BY <1>8, <2>1, <2>2, <3>4 DEF FdsInOrder
  <2>5. QED
    BY <1>2, <2>3, <2>4 DEF Sends
<1>10. CASE /\ Enqueue(n, rights) /\ taken' = taken + n /\ Queued + n =< Cap
            /\ rights = FirstRights /\ (at' = at => n # 0) /\ (n = 0 => rest = 0)
  <2>1. n \in Nat
    BY <1>4, <1>6
  <2>2. /\ IsWhole(rights)
        /\ Data(rights) = IF rest = SizeOf(at) THEN Plan[at].fds ELSE <<>>
        /\ Data(rights) \in Seq(Nat) /\ Carried(queue) \in Seq(Nat)
    BY <1>4, <1>5, <1>10, FirstRightsFacts, DataFacts, EachFacts
  <2>3. RightsOK'
    <3>1. ASSUME NEW i \in 1..Len(queue') PROVE IsWhole(queue'[i].rights)
      <4>1. \/ i \in 1..Len(queue) /\ queue'[i] = queue[i]
            \/ queue'[i] = [n |-> n, rights |-> rights] /\ (Record \/ n > 0)
            \/ ~Record /\ queue'[i].n > 0 /\ queue'[i].rights = <<>>
        BY <1>4, <1>10, <2>1, EnqueueFacts
      <4>2. CASE i \in 1..Len(queue) /\ queue'[i] = queue[i]
        BY <4>2 DEF RightsOK, IsWhole
      <4>3. CASE queue'[i].rights = rights
        BY <2>2, <4>3
      <4>4. CASE queue'[i].rights = <<>>
        BY <4>4, NoneIsWhole
      <4>5. QED
        BY <4>1, <4>2, <4>3, <4>4
    <3>2. QED
      BY <1>3, <3>1 DEF RightsOK, IsWhole, Reader
  <2>4. Sent' = at
    <3>1. CASE at' = at /\ rest' = rest - n
      BY <1>4, <1>5, <1>6, <1>8, <1>10, <2>1, <3>1
    <3>2. CASE at' = at + 1 /\ rest' = SizeOf(at + 1)
      <4>1. SizeOf(at + 1) \in Nat
        BY <1>4, <1>5, PlanFacts
      <4>2. QED
        BY <1>5, <1>8, <3>2, <4>1
    <3>3. QED
      BY <1>2, <3>1, <3>2 DEF Sends
  <2>5. Planned(at) = Planned(Sent) \o Data(rights)
    <3>1. CASE rest = SizeOf(at)
      <4>1. Sent = at - 1
        BY <1>4, <1>6, <3>1 DEF Sent
      <4>2. QED
        BY <1>7, <2>2, <3>1, <4>1
    <3>2. CASE rest # SizeOf(at)
      <4>1. Sent = at
        BY <1>4, <1>6, <3>2 DEF Sent
      <4>2. QED
        BY <1>7, <2>2, <3>2, <4>1, ConcatEmptySeq
    <3>3. QED
      BY <3>1, <3>2
  <2>6. Carried(queue') = Carried(queue) \o Data(rights)
    <3>1. Carried(queue') = IF ~Record /\ n = 0 THEN Carried(queue)
                            ELSE Carried(queue) \o Data(rights)
      BY <1>4, <1>10, <2>1, EnqueueCarried
    <3>2. CASE ~Record /\ n = 0
      <4>1. Data(rights) = <<>>
        BY <1>6, <1>10, <2>2, <3>2 DEF Record
      <4>2. QED
        BY <2>2, <3>1, <3>2, <4>1, ConcatEmptySeq
    <3>3. QED
      BY <3>1, <3>2
  <2>7. fds \o (Carried(queue) \o Data(rights)) = (fds \o Carried(queue)) \o Data(rights)
    <3> DEFINE c == Carried(queue)
               d == Data(rights)
    <3>1. c \in Seq(Nat) /\ d \in Seq(Nat)
      BY <2>2
    <3> HIDE DEF c, d
    <3>2. (fds \o c) \o d = fds \o (c \o d)
      BY <1>4, <3>1, JoinedThree
    <3>3. QED
      BY <3>2 DEF c, d
  <2>8. FdsInOrder'
    BY <1>8, <2>4, <2>5, <2>6, <2>7 DEF FdsInOrder
  <2>9. QED
    BY <2>3, <2>8
<1>11. QED
  BY <1>2, <1>9, <1>10 DEF Sends

LEMMA FdsReceiving ==
    ASSUME IInv, RecvStep, RightsOK, FdsInOrder
    PROVE  RightsOK' /\ FdsInOrder'
<1>1. TakesNothing \/ \E n \in Nat : Takes(n)
  BY RecvTakes
<1>2. setup' = setup /\ at' = at /\ rest' = rest
  BY DEF RecvStep, sender
<1>3. queue \in Seq(Segment) /\ fds \in Seq(Nat) /\ setup \in Setups
  BY DEF IInv, TypeOK, Segment
<1>4. Planned(Sent)' = Planned(Sent) /\ Reader' = Reader
  BY <1>2 DEF Planned, Plan, Sent, SizeOf, Reader
<1>5. CASE TakesNothing
  <2>1. queue' = queue /\ fds' = fds /\ (reset' = "no" => reset = "no")
    BY <1>5 DEF TakesNothing
  <2>2. QED
    BY <1>4, <2>1 DEF FdsInOrder, RightsOK, Carried
<1>6. ASSUME NEW n \in Nat, Takes(n) PROVE RightsOK' /\ FdsInOrder'
  <2>1. /\ queue # <<>> /\ n =< queue[1].n /\ Dequeue(n) /\ reset' = reset
        /\ Reader = "recvmsg" => fds' = fds \o Came(queue[1].rights)
        /\ Reader = "recvfd" =>
              fds' = IF queue[1].rights # <<>> THEN Append(fds, queue[1].rights[1]) ELSE fds
    BY <1>6 DEF Takes
  <2>2. 1 \in 1..Len(queue)
    <3>1. Len(queue) \in Nat /\ Len(queue) # 0
      BY <1>3, <2>1, LenProperties, EmptySeq
    <3>2. QED
      BY <3>1
  <2>3. RightsOK'
    <3>1. ASSUME NEW i \in 1..Len(queue') PROVE IsWhole(queue'[i].rights)
      <4>1. \/ \E j \in 1..Len(queue) : queue'[i] = queue[j]
            \/ ~Record /\ queue'[i].n > 0 /\ queue'[i].rights = <<>>
        BY <1>3, <1>6, <2>1, DequeueFacts
      <4>2. CASE \E j \in 1..Len(queue) : queue'[i] = queue[j]
        BY <4>2 DEF RightsOK, IsWhole
      <4>3. CASE queue'[i].rights = <<>>
        BY <4>3, NoneIsWhole
      <4>4. QED
        BY <4>1, <4>2, <4>3
    <3>2. QED
      BY <1>4, <3>1 DEF RightsOK, IsWhole
  <2> DEFINE rights == queue[1].rights
             f == Data(rights)
             c == Carried(queue')
  <2>4. rights \in Seq(Nat) /\ f \in Seq(Nat) /\ rights = Rights(f)
        /\ (Reader = "recvfd" => Len(f) =< 1)
    BY <2>1, <2>2, QueueFacts, DataFacts DEF RightsOK
  <2>5. Carried(queue) = f \o c /\ c \in Seq(Nat)
    BY <1>3, <1>6, <2>1, DequeueCarried
  <2> HIDE DEF c, f
  <2>6. Reader # "recv" => fds' = fds \o f
    <3>1. CASE Reader = "recvmsg"
      <4>1. Came(rights) = f
        BY <2>4, CameOfRights
      <4>2. QED
        BY <2>1, <3>1, <4>1
    <3>2. CASE Reader = "recvfd"
      <4>1. CASE f = <<>>
        <5>1. rights = <<>>
          BY <2>4, <4>1, RightsFacts
        <5>2. QED
          BY <1>3, <2>1, <3>2, <4>1, <5>1, ConcatEmptySeq
      <4>2. CASE f # <<>>
        <5>1. rights # <<>> /\ Len(f) = 1
          <6>1. Len(f) \in Nat /\ Len(f) # 0
            BY <2>4, <4>2, LenProperties, EmptySeq
          <6>2. Len(f) =< 1
            BY <2>4, <3>2
          <6> DEFINE l == Len(f)
          <6>3. l \in Nat /\ l # 0 /\ l =< 1
            BY <6>1, <6>2
          <6> HIDE DEF l
          <6>4. l = 1
            BY <6>3
          <6>5. rights # <<>>
            BY <2>4, <4>2, NoData DEF f
          <6>6. QED
            BY <6>4, <6>5 DEF l
        <5>2. 1 \in 1..4 * Len(f) /\ (1 + 3) \div 4 = 1
          BY <5>1
        <5>3. Rights(f)[1] = f[(1 + 3) \div 4]
          BY <5>2 DEF Rights
        <5>4. fds' = Append(fds, f[1])
          BY <2>1, <2>4, <3>2, <5>1, <5>2, <5>3
        <5>5. Append(fds, f[1]) = fds \o f
          BY <1>3, <2>4, <5>1, Joined
        <5>6. QED
          BY <5>4, <5>5
      <4>3. QED
        BY <4>1, <4>2
    <3>3. QED
      BY <1>3, <3>1, <3>2, SetupFacts
  <2>7. (fds \o f) \o c = fds \o (f \o c)
    BY <1>3, <2>4, <2>5, JoinedThree
  <2>8. FdsInOrder'
    BY <1>4, <2>1, <2>5, <2>6, <2>7 DEF FdsInOrder, c
  <2>9. QED
    BY <2>3, <2>8
<1>7. QED
  BY <1>1, <1>5, <1>6

\* FdsInOrder: recvmsg and recvfd return the descriptors of sendmsg and sendfd each
\* once and in order, however many calls the data is cut into, and whatever record
\* without data they come with.
THEOREM FdsArrive == Spec => []FdsInOrder
<1>1. Init => RightsOK /\ FdsInOrder
  <2> SUFFICES ASSUME Init PROVE RightsOK /\ FdsInOrder
    OBVIOUS
  <2>1. queue = <<>> /\ fds = <<>> /\ at = 1 /\ rest = SizeOf(1) /\ setup \in Setups
    BY DEF Init
  <2>2. RightsOK
    BY <2>1 DEF RightsOK
  <2>3. SizeOf(1) \in Nat
    BY <2>1, PlanFacts
  <2>4. Sent = 0
    BY <2>1, <2>3 DEF Sent
  <2>5. Planned(Sent) = <<>>
    BY <2>1, <2>4, PlannedFacts
  <2>6. queue \in Seq(Segment) /\ Len(queue) = 0
    BY <2>1
  <2>7. Each(queue) \in Seq(Seq(Nat)) /\ Len(Each(queue)) = 0
    BY <2>6, EachFacts
  <2>8. Each(queue) = <<>> /\ FlattenSeq(<<>>) = <<>>
    BY <2>7, EmptySeq DEF FlattenSeq
  <2>9. Carried(queue) = <<>>
    BY <2>6, <2>8, EachFacts
  <2>10. fds \o Carried(queue) = <<>>
    BY <2>1, <2>9, EmptySeq, ConcatEmptySeq
  <2>11. QED
    BY <2>2, <2>5, <2>10 DEF FdsInOrder
<1>2. IInv /\ RightsOK /\ FdsInOrder /\ [Next]_vars => RightsOK' /\ FdsInOrder'
  <2> SUFFICES ASSUME IInv, RightsOK, FdsInOrder, [Next]_vars
               PROVE  RightsOK' /\ FdsInOrder'
    OBVIOUS
  <2>1. CASE SendStep
    BY <2>1, FdsSending
  <2>2. CASE RecvStep
    BY <2>2, FdsReceiving
  <2>3. CASE Reset
    BY <2>3 DEF Reset, RightsOK, FdsInOrder, Reader
  <2>4. CASE SenderClose \/ UNCHANGED vars
    <3>1. /\ setup' = setup /\ at' = at /\ rest' = rest /\ fds' = fds /\ queue' = queue
          /\ reset' = reset
      BY <2>4 DEF SenderClose, receiver, sender, vars
    <3>2. QED
      BY <3>1 DEF RightsOK, FdsInOrder, Carried, Planned, Sent, SizeOf, Plan, Reader
  <2>5. QED
    BY <2>1, <2>2, <2>3, <2>4 DEF Next
<1>3. QED
  BY <1>1, <1>2, Inductive, PTL DEF Spec
=============================================================================
