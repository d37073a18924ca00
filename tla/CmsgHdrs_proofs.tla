-------------------------- MODULE CmsgHdrs_proofs ---------------------------
(***************************************************************************)
(* Proofs about CmsgHdrs, for any messages and sizes, any header and any   *)
(* alignment: what is laid out is always a list without a gap, the list is *)
(* the queue of module CmsgQueue, and after a recvmsg it holds what came.  *)
(***************************************************************************)
EXTENDS CmsgHdrs, Induction, FiniteSetTheorems

-----------------------------------------------------------------------------
(* Sizes.                                                                  *)

\* What CMSG_SPACE rounds up to.
Aligned == {m * ALIGN : m \in Nat}

\* Aligned sizes add up to aligned sizes, and so does what is left of one.
LEMMA AlignedSums ==
    ASSUME NEW a \in Aligned, NEW b \in Aligned
    PROVE  /\ a \in Nat /\ a + b \in Aligned
           /\ a >= b => a - b \in Aligned
<1>1. ALIGN \in Nat /\ ALIGN > 0
  BY LayoutAssumption
<1>2. PICK m \in Nat : a = m * ALIGN
  BY DEF Aligned
<1>3. PICK n \in Nat : b = n * ALIGN
  BY DEF Aligned
<1>4. a \in Nat /\ b \in Nat
  BY <1>1, <1>2, <1>3
<1>5. a + b = (m + n) * ALIGN
  BY <1>1, <1>2, <1>3
<1>6. a - b = (m - n) * ALIGN
  BY <1>1, <1>2, <1>3
<1>7. ASSUME a >= b PROVE m - n \in Nat
  <2>1. ASSUME m < n PROVE FALSE
    <3>1. (n - m) * ALIGN > 0
      BY <1>1, <2>1
    <3>2. QED
      BY <1>1, <1>4, <1>6, <1>7, <1>2, <1>3, <3>1
  <2>2. QED
    BY <2>1
<1>8. a + b \in Aligned
  BY <1>5 DEF Aligned
<1>9. a >= b => a - b \in Aligned
  BY <1>6, <1>7 DEF Aligned
<1>10. QED
  BY <1>4, <1>8, <1>9

\* A header is aligned, and there is no room for one in the padding of another.
LEMMA HeaderFacts ==
    /\ HDR \in Aligned /\ 0 \in Aligned /\ HDR \in Nat /\ ALIGN \in Nat
    /\ 0 < ALIGN /\ ALIGN =< HDR
<1>1. ALIGN \in Nat /\ ALIGN > 0 /\ HDR \in Nat /\ HDR > 0 /\ HDR % ALIGN = 0
  BY LayoutAssumption
<1>2. HDR = ALIGN * (HDR \div ALIGN) + (HDR % ALIGN)
  BY <1>1
<1>3. PICK m \in Nat : m = HDR \div ALIGN
  BY <1>1
<1>4. HDR = m * ALIGN
  BY <1>1, <1>2, <1>3
<1>5. m # 0
  BY <1>1, <1>4
<1>6. ALIGN =< m * ALIGN
  BY <1>1, <1>5
<1>7. 0 = 0 * ALIGN
  BY <1>1
<1>8. QED
  BY <1>1, <1>4, <1>6, <1>7 DEF Aligned

\* CMSG_SPACE rounds CMSG_LEN up, by less than ALIGN.
LEMMA SpaceFacts ==
    ASSUME NEW n \in Nat
    PROVE  /\ CMSG_SPACE(n) \in Aligned /\ CMSG_SPACE(n) \in Nat /\ CMSG_LEN(n) \in Nat
           /\ HDR =< CMSG_LEN(n) /\ CMSG_LEN(n) =< CMSG_SPACE(n)
           /\ CMSG_SPACE(n) < CMSG_LEN(n) + ALIGN
<1>1. ALIGN \in Nat /\ ALIGN > 0 /\ HDR \in Nat
  BY HeaderFacts
<1>2. PICK x \in Nat : x = n + ALIGN - 1
  BY <1>1
<1>3. PICK k \in Nat : k = x \div ALIGN
  BY <1>1
<1>4. k * ALIGN =< x /\ x < k * ALIGN + ALIGN
  BY <1>1, <1>3
<1>5. PICK y \in Nat : y = k * ALIGN
  BY <1>1
<1>6. CMSG_SPACE(n) = HDR + y
  BY <1>2, <1>3, <1>5 DEF CMSG_SPACE
<1>7. n =< y /\ y < n + ALIGN
  BY <1>1, <1>2, <1>4, <1>5
<1>8. y \in Aligned
  BY <1>5 DEF Aligned
<1>9. CMSG_SPACE(n) \in Aligned
  BY <1>6, <1>8, HeaderFacts, AlignedSums
<1>10. QED
  BY <1>1, <1>6, <1>7, <1>9 DEF CMSG_LEN

\* The first aligned size that the data and its header fit in is its CMSG_SPACE.
LEMMA SpaceFits ==
    ASSUME NEW n \in Nat, NEW a \in Aligned, CMSG_LEN(n) =< a
    PROVE  CMSG_SPACE(n) =< a
<1>1. /\ CMSG_SPACE(n) \in Aligned /\ CMSG_SPACE(n) \in Nat
      /\ CMSG_SPACE(n) < CMSG_LEN(n) + ALIGN /\ CMSG_LEN(n) \in Nat
  BY SpaceFacts
<1>2. ALIGN \in Nat /\ ALIGN > 0 /\ a \in Nat
  BY HeaderFacts, AlignedSums
<1>3. SUFFICES ASSUME a < CMSG_SPACE(n) PROVE FALSE
  BY <1>1, <1>2
<1>4. PICK d \in Nat : d = CMSG_SPACE(n) - a
  BY <1>1, <1>2, <1>3
<1>5. d \in Aligned
  BY <1>1, <1>3, <1>4, <1>2, AlignedSums
<1>6. 0 < d /\ d < ALIGN
  BY <1>1, <1>2, <1>3, <1>4
<1>7. PICK m \in Nat : d = m * ALIGN
  BY <1>5 DEF Aligned
<1>8. m # 0
  BY <1>2, <1>6, <1>7
<1>9. ALIGN =< m * ALIGN
  BY <1>2, <1>8
<1>10. QED
  BY <1>2, <1>6, <1>7, <1>9
-----------------------------------------------------------------------------
(* Lists that are laid out.                                                *)

\* The messages q end at the offsets o, each where the next begins.
Tiles(q, o) ==
    /\ q \in Seq(Item) /\ o \in [0..Len(q) -> Aligned] /\ o[0] = 0
    /\ \A k \in 1..Len(q) : o[k] = o[k - 1] + CMSG_SPACE(q[k].n)
At(q, o, k) == [off |-> o[k - 1], msg |-> q[k].msg, n |-> q[k].n]

\* The buffer holds q and nothing else.
Laid(q, o) ==
    /\ Tiles(q, o) /\ len = o[Len(q)]
    /\ data = {At(q, o, k) : k \in 1..Len(q)}

\* What is known of one message.
LEMMA TileFacts ==
    ASSUME NEW q, NEW o, Tiles(q, o), NEW k \in 1..Len(q)
    PROVE  /\ k \in Nat /\ k - 1 \in 0..Len(q) /\ k \in 0..Len(q)
           /\ q[k] \in Item /\ q[k].msg \in Msg /\ q[k].n \in Nat
           /\ o[k] = o[k - 1] + CMSG_SPACE(q[k].n)
           /\ o[k - 1] \in Nat /\ o[k] \in Nat /\ CMSG_LEN(q[k].n) \in Nat
           /\ HDR =< CMSG_LEN(q[k].n)
           /\ o[k - 1] + CMSG_LEN(q[k].n) =< o[k]
           /\ o[k] < o[k - 1] + CMSG_LEN(q[k].n) + ALIGN
           /\ o[k - 1] < o[k]
<1>1. q \in Seq(Item) /\ Len(q) \in Nat /\ o \in [0..Len(q) -> Aligned]
  BY DEF Tiles
<1>2. k \in Nat /\ k - 1 \in 0..Len(q) /\ k \in 0..Len(q)
  BY <1>1
<1>3. o[k - 1] \in Nat /\ o[k] \in Nat
  BY <1>1, <1>2, AlignedSums
<1>4. q[k] \in Item
  BY <1>1, ElementOfSeq
<1>5. q[k].msg \in Msg /\ q[k].n \in Nat
  BY <1>4 DEF Item
<1>6. PICK n \in Nat : n = q[k].n
  BY <1>5
<1>7. o[k] = o[k - 1] + CMSG_SPACE(n)
  BY <1>6 DEF Tiles
<1>8. PICK s \in Nat : s = CMSG_SPACE(n)
  BY SpaceFacts
<1>9. PICK l \in Nat : l = CMSG_LEN(n)
  BY SpaceFacts
<1>10. HDR =< l /\ l =< s /\ s < l + ALIGN /\ HDR \in Nat /\ ALIGN \in Nat /\ 0 < HDR
  BY <1>8, <1>9, SpaceFacts, HeaderFacts
<1>11. PICK a \in Nat : a = o[k - 1]
  BY <1>3
<1>12. PICK b \in Nat : b = o[k]
  BY <1>3
<1>13. b = a + s
  BY <1>7, <1>8, <1>11, <1>12
<1>14. a + l =< b /\ b < a + l + ALIGN /\ a < b
  BY <1>10, <1>13
<1>15. QED
  BY <1>2, <1>4, <1>5, <1>6, <1>7, <1>8, <1>9, <1>10, <1>11, <1>12, <1>14

\* The offsets grow.
LEMMA TilesGrow ==
    ASSUME NEW q, NEW o, Tiles(q, o), NEW i \in 0..Len(q), NEW j \in 0..Len(q)
    PROVE  /\ o[i] \in Nat /\ o[j] \in Nat
           /\ i =< j => o[i] =< o[j]
           /\ i < j => o[i] < o[j]
           /\ o[i] = o[j] => i = j
<1>1. Len(q) \in Nat /\ o \in [0..Len(q) -> Aligned]
  BY DEF Tiles
<1>2. \A k \in 0..Len(q) : o[k] \in Nat
  BY <1>1, AlignedSums
<1>3. ASSUME NEW a \in 0..Len(q), NEW b \in 0..Len(q), a < b PROVE o[a] < o[b]
  <2> DEFINE P == {k \in Nat : a < k /\ k =< Len(q) => o[a] < o[k]}
  <2>1. 0 \in P
    BY <1>1
  <2>2. ASSUME NEW k \in Nat, k \in P PROVE k + 1 \in P
    <3> SUFFICES ASSUME a < k + 1, k + 1 =< Len(q) PROVE o[a] < o[k + 1]
      BY <2>2
    <3>1. k + 1 \in 1..Len(q) /\ (k + 1) - 1 = k /\ k \in 0..Len(q)
      BY <1>1
    <3>2. o[(k + 1) - 1] < o[k + 1]
      BY <3>1, TileFacts
    <3>3. o[k] < o[k + 1] /\ o[k] \in Nat /\ o[k + 1] \in Nat /\ o[a] \in Nat
      BY <1>1, <1>2, <3>1, <3>2
    <3>4. CASE a = k
      BY <3>3, <3>4
    <3>5. CASE a < k
      <4>1. o[a] < o[k]
        BY <2>2, <3>1, <3>5
      <4>2. QED
        BY <3>3, <4>1
    <3>6. QED
      BY <1>1, <3>4, <3>5
  <2> HIDE DEF P
  <2>3. b \in P
    BY <1>1, <2>1, <2>2, SetInduction
  <2>4. QED
    BY <1>1, <1>3, <2>3 DEF P
<1>4. o[i] \in Nat /\ o[j] \in Nat
  BY <1>2
<1>5. i < j => o[i] < o[j]
  BY <1>3
<1>6. j < i => o[j] < o[i]
  BY <1>3
<1>7. i < j \/ j < i \/ i = j
  BY <1>1
<1>8. QED
  BY <1>1, <1>4, <1>5, <1>6, <1>7

\* Of two messages the earlier ends before the later begins.
LEMMA TilesApart ==
    ASSUME NEW q, NEW o, Tiles(q, o), NEW k \in 1..Len(q), NEW l \in 1..Len(q), k < l
    PROVE  End(At(q, o, k)) =< At(q, o, l).off
<1>1. /\ k \in Nat /\ k \in 0..Len(q) /\ o[k - 1] + CMSG_LEN(q[k].n) =< o[k]
      /\ o[k - 1] \in Nat /\ o[k] \in Nat /\ CMSG_LEN(q[k].n) \in Nat
  BY TileFacts
<1>2. l \in Nat /\ l - 1 \in 0..Len(q) /\ o[l - 1] \in Nat
  BY TileFacts
<1>3. k =< l - 1
  BY <1>1, <1>2
<1>4. o[k] =< o[l - 1]
  BY <1>1, <1>2, <1>3, TilesGrow
<1>5. o[k - 1] + CMSG_LEN(q[k].n) =< o[l - 1]
  BY <1>1, <1>2, <1>4
<1>6. QED
  BY <1>5 DEF End, At

\* The end of every message is the offset of the next, or the end of the list.
LEMMA TileEnd ==
    ASSUME NEW q, NEW o, Tiles(q, o), NEW k \in 1..Len(q)
    PROVE  /\ End(At(q, o, k)) =< o[Len(q)]
           /\ At(q, o, k).off + CMSG_SPACE(At(q, o, k).n) = o[k]
<1>1. /\ k \in Nat /\ k \in 0..Len(q) /\ o[k - 1] + CMSG_LEN(q[k].n) =< o[k]
      /\ o[k] = o[k - 1] + CMSG_SPACE(q[k].n)
      /\ o[k - 1] \in Nat /\ o[k] \in Nat /\ CMSG_LEN(q[k].n) \in Nat
  BY TileFacts
<1>2. Len(q) \in Nat /\ Len(q) \in 0..Len(q)
  BY DEF Tiles
<1>3. o[k] =< o[Len(q)] /\ o[Len(q)] \in Nat
  BY <1>1, <1>2, TilesGrow
<1>4. o[k - 1] + CMSG_LEN(q[k].n) =< o[Len(q)]
  BY <1>1, <1>3
<1>5. QED
  BY <1>1, <1>4 DEF End, At

\* A list that is laid out in the buffer is well-formed.
LEMMA LaidWellFormed ==
    ASSUME NEW q, NEW o, Laid(q, o), len =< bytes
    PROVE  WellFormed
<1>1. /\ Tiles(q, o) /\ len = o[Len(q)] /\ Len(q) \in Nat
      /\ data = {At(q, o, k) : k \in 1..Len(q)}
  BY DEF Laid, Tiles
<1>2. \A d \in data : End(d) =< len
  BY <1>1, TileEnd
<1>3. ASSUME NEW k \in 0..Len(q) PROVE o[k] = len \/ \E d \in data : d.off = o[k]
  <2>1. CASE k = Len(q)
    BY <1>1, <2>1
  <2>2. CASE k # Len(q)
    <3>1. k + 1 \in 1..Len(q) /\ (k + 1) - 1 = k
      BY <1>1, <2>2
    <3>2. At(q, o, k + 1) \in data /\ At(q, o, k + 1).off = o[(k + 1) - 1]
      BY <1>1, <3>1 DEF At
    <3>3. QED
      BY <3>1, <3>2
  <2>3. QED
    BY <2>1, <2>2
<1>4. ASSUME NEW x \in {0} \cup {d.off + CMSG_SPACE(d.n) : d \in data}
      PROVE  x = len \/ \E d \in data : d.off = x
  <2>1. CASE x = 0
    <3>1. 0 \in 0..Len(q) /\ o[0] = 0
      BY <1>1 DEF Tiles
    <3>2. QED
      BY <1>3, <2>1, <3>1
  <2>2. ASSUME NEW k \in 1..Len(q), x = At(q, o, k).off + CMSG_SPACE(At(q, o, k).n)
        PROVE  x = len \/ \E d \in data : d.off = x
    <3>1. x = o[k] /\ k \in 0..Len(q)
      BY <1>1, <2>2, TileEnd, TileFacts
    <3>2. QED
      BY <1>3, <3>1
  <2>3. QED
    BY <1>1, <2>1, <2>2
<1>5. ASSUME NEW d \in data, NEW e \in data, d # e PROVE Apart(d, e)
  <2>1. PICK k \in 1..Len(q) : d = At(q, o, k)
    BY <1>1
  <2>2. PICK l \in 1..Len(q) : e = At(q, o, l)
    BY <1>1
  <2>3. k < l \/ l < k
    BY <1>1, <1>5, <2>1, <2>2
  <2>4. QED
    BY <1>1, <2>1, <2>2, <2>3, TilesApart DEF Apart
<1>6. QED
  BY <1>2, <1>4, <1>5 DEF WellFormed
-----------------------------------------------------------------------------
(* Items.                                                                  *)

\* The messages behind the first k.
Suffix(q, k) == SubSeq(q, k + 1, Len(q))

LEMMA SuffixFacts ==
    ASSUME NEW S, NEW q \in Seq(S), NEW k \in 0..Len(q)
    PROVE  /\ Suffix(q, k) \in Seq(S) /\ Len(Suffix(q, k)) = Len(q) - k
           /\ \A i \in 1..Len(q) - k : Suffix(q, k)[i] = q[k + i]
<1>1. Len(q) \in Nat /\ k \in Nat /\ k =< Len(q)
  BY LenProperties
<1>2. PICK m \in Nat : m = k + 1
  BY <1>1
<1>3. PICK n \in Nat : n = Len(q)
  BY <1>1
<1>4. \A i \in m..n : q[i] \in S
  BY <1>1, <1>2, <1>3, ElementOfSeq
<1>5. /\ SubSeq(q, m, n) \in Seq(S)
      /\ Len(SubSeq(q, m, n)) = IF m =< n THEN n - m + 1 ELSE 0
      /\ \A i \in 1..(n - m + 1) : SubSeq(q, m, n)[i] = q[m + i - 1]
  BY <1>4, SubSeqProperties
<1>6. n - m + 1 = n - k /\ (IF m =< n THEN n - m + 1 ELSE 0) = n - k
  BY <1>1, <1>2, <1>3
<1>7. \A i \in 1..n - k : m + i - 1 = k + i
  BY <1>1, <1>2, <1>3
<1>8. Suffix(q, k) = SubSeq(q, m, n)
  BY <1>2, <1>3 DEF Suffix
<1>9. QED
  BY <1>3, <1>5, <1>6, <1>7, <1>8

\* One suffix is the next with an element before it.
IsNext(q, k) == Suffix(q, k - 1) = <<q[k]>> \o Suffix(q, k)

LEMMA SuffixSteps ==
    ASSUME NEW q \in Seq(Item)
    PROVE  /\ Suffix(q, 0) = q /\ Suffix(q, Len(q)) = <<>>
           /\ \A k \in 1..Len(q) : IsNext(q, k)
<1> DEFINE S == Item
<1> HIDE DEF S
<1>0. q \in Seq(S)
  BY DEF S
<1>1. Len(q) \in Nat
  BY <1>0, LenProperties
<1>2. Suffix(q, 0) = q
  <2>1. PICK z \in 0..Len(q) : z = 0
    BY <1>1
  <2>2. /\ Suffix(q, z) \in Seq(S) /\ Len(Suffix(q, z)) = Len(q) - z
        /\ \A i \in 1..Len(q) - z : Suffix(q, z)[i] = q[z + i]
    BY <1>0, SuffixFacts
  <2>3. Len(Suffix(q, z)) = Len(q) /\ \A i \in 1..Len(q) : Suffix(q, z)[i] = q[i]
    BY <1>1, <2>1, <2>2
  <2>4. Suffix(q, z) = q
    BY <1>0, <2>2, <2>3, SeqEqual
  <2>5. QED
    BY <2>1, <2>4
<1>3. Suffix(q, Len(q)) = <<>>
  <2>1. PICK z \in 0..Len(q) : z = Len(q)
    BY <1>1
  <2>2. Suffix(q, z) \in Seq(S) /\ Len(Suffix(q, z)) = Len(q) - z
    BY <1>0, SuffixFacts
  <2>3. Suffix(q, z) = <<>>
    BY <1>1, <2>1, <2>2, EmptySeq
  <2>4. QED
    BY <2>1, <2>3
<1>4. ASSUME NEW k \in 1..Len(q) PROVE IsNext(q, k)
  <2>1. PICK j \in 0..Len(q) : j = k - 1 /\ k \in 0..Len(q)
    BY <1>1
  <2> DEFINE n == Len(q) - k
             s == Suffix(q, j)
             t == Suffix(q, k)
             x == <<q[k]>>
             c == x \o t
  <2>2. n \in Nat /\ Len(q) - j = n + 1
    BY <1>1, <2>1
  <2>3. /\ s \in Seq(S) /\ Len(s) = n + 1
        /\ \A i \in 1..n + 1 : s[i] = q[j + i]
    BY <1>0, <2>2, SuffixFacts
  <2>4. /\ t \in Seq(S) /\ Len(t) = n
        /\ \A i \in 1..n : t[i] = q[k + i]
    BY <1>0, <2>1, SuffixFacts
  <2>5. x \in Seq(S) /\ Len(x) = 1 /\ x[1] = q[k]
    <3>1. q[k] \in S
      BY <1>0, ElementOfSeq
    <3>2. QED
      BY <3>1
  <2> HIDE DEF x, s, t, n
  <2>6. /\ c \in Seq(S) /\ Len(c) = Len(x) + Len(t)
        /\ \A i \in 1..Len(x) + Len(t) : c[i] = IF i =< Len(x) THEN x[i] ELSE t[i - Len(x)]
    BY <2>4, <2>5, ConcatProperties
  <2> HIDE DEF c
  <2>7. Len(c) = n + 1
    BY <2>2, <2>4, <2>5, <2>6
  <2>8. ASSUME NEW i \in 1..n + 1 PROVE c[i] = s[i]
    <3>1. i \in 1..Len(x) + Len(t) /\ c[i] = IF i =< 1 THEN x[i] ELSE t[i - 1]
      BY <2>2, <2>4, <2>5, <2>6
    <3>2. CASE i = 1
      <4>1. c[i] = q[k] /\ j + i = k
        BY <2>1, <2>5, <3>1, <3>2
      <4>2. QED
        BY <2>3, <4>1
    <3>3. CASE i # 1
      <4>1. i - 1 \in 1..n /\ c[i] = t[i - 1] /\ k + (i - 1) = j + i
        BY <2>1, <2>2, <3>1, <3>3
      <4>2. t[i - 1] = q[k + (i - 1)]
        BY <2>4, <4>1
      <4>3. QED
        BY <2>3, <4>1, <4>2
    <3>4. QED
      BY <3>2, <3>3
  <2>9. s = c
    BY <2>2, <2>3, <2>6, <2>7, <2>8, SeqEqual
  <2>10. QED
    BY <2>1, <2>9 DEF s, c, x, t, IsNext
<1>5. QED
  BY <1>2, <1>3, <1>4

\* What the function in Items returns at x, the rest being f.
StepFrom(f, x) ==
    IF \E d \in data : d.off = x
    THEN LET d == CHOOSE d \in data : d.off = x
             e == d.off + CMSG_SPACE(d.n)
         IN <<[msg |-> d.msg, n |-> d.n]>> \o IF e =< len THEN f[e] ELSE <<>>
    ELSE <<>>
IsFrom(f) == f = [x \in 0..len |-> StepFrom(f, x)]

LEMMA ItemsFrom == Items = (CHOOSE f : IsFrom(f))[0]
  BY DEF Items, IsFrom, StepFrom

\* At the offset of a message it goes on to the next; elsewhere there is nothing.
NoStart(q, o, x) == \A k \in 1..Len(q) : o[k - 1] # x

LEMMA StepAt ==
    ASSUME NEW q, NEW o, Laid(q, o), NEW f
    PROVE  /\ \A k \in 1..Len(q) : StepFrom(f, o[k - 1]) = <<q[k]>> \o f[o[k]]
           /\ \A x : NoStart(q, o, x) => StepFrom(f, x) = <<>>
<1>1. /\ Tiles(q, o) /\ len = o[Len(q)] /\ Len(q) \in Nat
      /\ data = {At(q, o, k) : k \in 1..Len(q)}
  BY DEF Laid, Tiles
<1>2. ASSUME NEW k \in 1..Len(q) PROVE StepFrom(f, o[k - 1]) = <<q[k]>> \o f[o[k]]
  <2>1. At(q, o, k) \in data /\ At(q, o, k).off = o[k - 1]
    BY <1>1 DEF At
  <2>2. ASSUME NEW d \in data, d.off = o[k - 1] PROVE d = At(q, o, k)
    <3>1. PICK l \in 1..Len(q) : d = At(q, o, l)
      BY <1>1
    <3>2. o[l - 1] = o[k - 1] /\ l - 1 \in 0..Len(q) /\ k - 1 \in 0..Len(q)
      BY <1>1, <2>2, <3>1, TileFacts DEF At
    <3>3. l - 1 = k - 1
      BY <1>1, <3>2, TilesGrow
    <3>4. l = k
      BY <1>1, <3>3
    <3>5. QED
      BY <3>1, <3>4
  <2>3. (CHOOSE d \in data : d.off = o[k - 1]) = At(q, o, k)
    BY <2>1, <2>2
  <2>4. /\ At(q, o, k).off + CMSG_SPACE(At(q, o, k).n) = o[k] /\ o[k] =< len
        /\ [msg |-> At(q, o, k).msg, n |-> At(q, o, k).n] = q[k]
    <3>1. At(q, o, k).off + CMSG_SPACE(At(q, o, k).n) = o[k]
      BY <1>1, TileEnd
    <3>2. k \in 0..Len(q) /\ Len(q) \in 0..Len(q) /\ q[k] \in Item /\ k =< Len(q)
      BY <1>1, TileFacts
    <3>3. o[k] =< len
      BY <1>1, <3>2, TilesGrow
    <3>4. [msg |-> At(q, o, k).msg, n |-> At(q, o, k).n] = q[k]
      BY <3>2 DEF Item, At
    <3>5. QED
      BY <3>1, <3>3, <3>4
  <2>5. StepFrom(f, o[k - 1]) =
           <<[msg |-> At(q, o, k).msg, n |-> At(q, o, k).n]>> \o f[o[k]]
    BY <2>1, <2>3, <2>4 DEF StepFrom
  <2>6. QED
    BY <2>4, <2>5
<1>3. ASSUME NEW x, NoStart(q, o, x) PROVE StepFrom(f, x) = <<>>
  <2>1. ~\E d \in data : d.off = x
    BY <1>1, <1>3 DEF At, NoStart
  <2>2. QED
    BY <2>1 DEF StepFrom
<1>4. QED
  BY <1>2, <1>3

\* There is such a function.
LEMMA FromExists ==
    ASSUME NEW q, NEW o, Laid(q, o)
    PROVE  \E f : IsFrom(f)
<1>1. /\ Tiles(q, o) /\ len = o[Len(q)] /\ Len(q) \in Nat /\ q \in Seq(Item)
  BY DEF Laid, Tiles
<1> DEFINE Which(x) == CHOOSE k \in 0..Len(q) : o[k] = x
           Rest(x) == IF \E k \in 0..Len(q) : o[k] = x THEN Suffix(q, Which(x)) ELSE <<>>
           f == [x \in 0..len |-> Rest(x)]
<1>2. ASSUME NEW k \in 0..Len(q) PROVE o[k] \in 0..len /\ f[o[k]] = Suffix(q, k)
  <2>1. Len(q) \in 0..Len(q) /\ k =< Len(q)
    BY <1>1
  <2>2. o[k] \in Nat /\ o[k] =< len /\ len \in Nat
    BY <1>1, <2>1, TilesGrow
  <2>3. \A j \in 0..Len(q) : o[j] = o[k] => j = k
    BY <1>1, TilesGrow
  <2>4. Which(o[k]) = k
    BY <2>3
  <2> HIDE DEF Which
  <2>5. Rest(o[k]) = Suffix(q, k)
    BY <2>4
  <2> HIDE DEF Rest
  <2>6. QED
    BY <2>2, <2>5
<1>3. ASSUME NEW x \in 0..len, \A k \in 0..Len(q) : o[k] # x PROVE f[x] = <<>>
  BY <1>3
<1>4. DOMAIN f = 0..len /\ f = [x \in 0..len |-> f[x]]
  OBVIOUS
<1> HIDE DEF f
<1>5. ASSUME NEW x \in 0..len PROVE f[x] = StepFrom(f, x)
  <2>1. CASE \E k \in 1..Len(q) : o[k - 1] = x
    <3>1. PICK k \in 1..Len(q) : o[k - 1] = x
      BY <2>1
    <3>2. k - 1 \in 0..Len(q) /\ k \in 0..Len(q)
      BY <1>1, TileFacts
    <3>3. f[x] = Suffix(q, k - 1) /\ f[o[k]] = Suffix(q, k)
      BY <1>2, <3>1, <3>2
    <3>4. Suffix(q, k - 1) = <<q[k]>> \o Suffix(q, k)
      BY <1>1, SuffixSteps DEF IsNext
    <3>5. StepFrom(f, x) = <<q[k]>> \o f[o[k]]
      BY <3>1, StepAt
    <3>6. QED
      BY <3>3, <3>4, <3>5
  <2>2. CASE NoStart(q, o, x)
    <3>1. StepFrom(f, x) = <<>>
      BY <2>2, StepAt
    <3>2. CASE x = len
      <4>1. Len(q) \in 0..Len(q) /\ o[Len(q)] = x
        BY <1>1, <3>2
      <4>2. f[x] = Suffix(q, Len(q))
        BY <1>2, <4>1
      <4>3. QED
        BY <1>1, <3>1, <4>2, SuffixSteps
    <3>3. CASE x # len
      <4>1. ASSUME NEW k \in 0..Len(q) PROVE o[k] # x
        <5>1. CASE k = Len(q)
          BY <1>1, <3>3, <5>1
        <5>2. CASE k # Len(q)
          <6>1. k + 1 \in 1..Len(q) /\ (k + 1) - 1 = k
            BY <1>1, <5>2
          <6>2. o[(k + 1) - 1] # x
            BY <2>2, <6>1 DEF NoStart
          <6>3. QED
            BY <6>1, <6>2
        <5>3. QED
          BY <5>1, <5>2
      <4>2. QED
        BY <1>3, <3>1, <4>1
    <3>4. QED
      BY <3>2, <3>3
  <2>3. QED
    BY <2>1, <2>2 DEF NoStart
<1>6. IsFrom(f)
  BY <1>4, <1>5 DEF IsFrom
<1>7. QED
  BY <1>6

\* The offsets lead through the list that is laid out.
LEMMA LaidItems ==
    ASSUME NEW q, NEW o, Laid(q, o)
    PROVE  Items = q
<1>1. /\ Tiles(q, o) /\ len = o[Len(q)] /\ Len(q) \in Nat /\ q \in Seq(Item) /\ o[0] = 0
  BY DEF Laid, Tiles
<1>2. PICK f : IsFrom(f) /\ Items = f[0]
  <2>1. IsFrom(CHOOSE f : IsFrom(f))
    BY FromExists
  <2>2. QED
    BY <2>1, ItemsFrom
<1>3. \A x \in 0..len : f[x] = StepFrom(f, x)
  <2>1. f = [x \in 0..len |-> StepFrom(f, x)]
    BY <1>2 DEF IsFrom
  <2>2. QED
    BY <2>1
<1>4. \A k \in 0..Len(q) : o[k] \in 0..len
  <2>1. Len(q) \in 0..Len(q) /\ \A k \in 0..Len(q) : k =< Len(q)
    BY <1>1
  <2>2. QED
    BY <1>1, <2>1, TilesGrow
<1> DEFINE m == Len(q)
           P == {i \in Nat : i =< m => f[o[m - i]] = Suffix(q, m - i)}
<1>5. 0 \in P
  <2>1. m - 0 = m /\ m \in 0..m /\ m \in 0..Len(q)
    BY <1>1
  <2>2. ASSUME NEW k \in 1..m PROVE o[k - 1] # o[m]
    <3>1. k - 1 \in 0..m /\ k - 1 # m
      BY <1>1
    <3>2. QED
      BY <1>1, <2>1, <3>1, TilesGrow
  <2>3. f[o[m]] = StepFrom(f, o[m])
    BY <1>3, <1>4, <2>1
  <2>4. StepFrom(f, o[m]) = <<>>
    <3>1. NoStart(q, o, o[m])
      BY <2>2 DEF NoStart
    <3>2. QED
      BY <3>1, StepAt
  <2>5. Suffix(q, m) = <<>>
    BY <1>1, SuffixSteps
  <2>6. QED
    BY <2>1, <2>3, <2>4, <2>5
<1>6. ASSUME NEW i \in Nat, i \in P PROVE i + 1 \in P
  <2> SUFFICES ASSUME i + 1 =< m PROVE f[o[m - (i + 1)]] = Suffix(q, m - (i + 1))
    OBVIOUS
  <2>1. PICK k \in 1..m : k = m - i
    BY <1>1
  <2>2. m - (i + 1) = k - 1 /\ k - 1 \in 0..m /\ i =< m
    BY <1>1, <2>1
  <2>3. f[o[k]] = Suffix(q, k)
    BY <1>6, <2>1, <2>2
  <2>4. f[o[k - 1]] = StepFrom(f, o[k - 1])
    BY <1>3, <1>4, <2>2
  <2>5. StepFrom(f, o[k - 1]) = <<q[k]>> \o f[o[k]]
    BY StepAt
  <2>6. Suffix(q, k - 1) = <<q[k]>> \o Suffix(q, k)
    BY <1>1, SuffixSteps DEF IsNext
  <2>7. QED
    BY <2>2, <2>3, <2>4, <2>5, <2>6
<1>7. m \in P
  <2> HIDE DEF P, m
  <2>1. Nat \subseteq P
    BY <1>5, <1>6, SetInduction
  <2>2. QED
    BY <1>1, <2>1 DEF m
<1>8. m - m = 0
  BY <1>1
<1>9. f[o[0]] = Suffix(q, 0)
  BY <1>1, <1>7, <1>8
<1>10. Suffix(q, 0) = q
  BY <1>1, SuffixSteps
<1>11. QED
  BY <1>1, <1>2, <1>9, <1>10
-----------------------------------------------------------------------------
(* push and shift.                                                         *)

\* The offsets of a list with a message more, at the offset where it ended.
Longer(q, o, x) ==
    [k \in 0..Len(q) + 1 |-> IF k =< Len(q) THEN o[k] ELSE o[Len(q)] + CMSG_SPACE(x.n)]

\* p with the offsets r is q with the message x behind it.
Adds(q, o, x, p, r) ==
    /\ Tiles(p, r) /\ Len(p) = Len(q) + 1
    /\ r[Len(p)] = o[Len(q)] + CMSG_SPACE(x.n)
    /\ \A k \in 1..Len(q) : At(p, r, k) = At(q, o, k)
    /\ At(p, r, Len(q) + 1) = [off |-> o[Len(q)], msg |-> x.msg, n |-> x.n]

LEMMA AppendTiles ==
    ASSUME NEW q, NEW o, Tiles(q, o), NEW x \in Item
    PROVE  Adds(q, o, x, Append(q, x), Longer(q, o, x))
<1>0. PICK p, r : p = Append(q, x) /\ r = Longer(q, o, x)
  OBVIOUS
<1>1. /\ q \in Seq(Item) /\ Len(q) \in Nat /\ o \in [0..Len(q) -> Aligned] /\ o[0] = 0
  BY DEF Tiles
<1>2. /\ p \in Seq(Item) /\ Len(p) = Len(q) + 1 /\ p[Len(q) + 1] = x
      /\ \A k \in 1..Len(q) : p[k] = q[k]
  BY <1>0, <1>1, AppendProperties
<1>3. o[Len(q)] \in Aligned /\ x.n \in Nat
  BY <1>1 DEF Item
<1>4. PICK e \in Aligned : e = o[Len(q)] + CMSG_SPACE(x.n)
  BY <1>3, SpaceFacts, AlignedSums
<1>5. \A k \in 0..Len(q) : r[k] = o[k] /\ o[k] \in Aligned
  BY <1>0, <1>1 DEF Longer
<1>6. r[Len(q) + 1] = e
  BY <1>0, <1>1, <1>4 DEF Longer
<1>7. r \in [0..Len(p) -> Aligned]
  <2>1. \A k \in 0..Len(q) + 1 : (IF k =< Len(q) THEN o[k] ELSE o[Len(q)] + CMSG_SPACE(x.n)) \in Aligned
    BY <1>1, <1>4, <1>5
  <2>2. QED
    BY <1>0, <1>2, <2>1 DEF Longer
<1>8. r[0] = 0
  BY <1>1, <1>5
<1>9. ASSUME NEW k \in 1..Len(p) PROVE r[k] = r[k - 1] + CMSG_SPACE(p[k].n)
  <2>1. CASE k \in 1..Len(q)
    <3>1. k \in 0..Len(q) /\ k - 1 \in 0..Len(q)
      BY <1>1, <2>1
    <3>2. o[k] = o[k - 1] + CMSG_SPACE(q[k].n)
      BY <2>1 DEF Tiles
    <3>3. QED
      BY <1>2, <1>5, <2>1, <3>1, <3>2
  <2>2. CASE k = Len(q) + 1
    <3>1. k - 1 = Len(q) /\ Len(q) \in 0..Len(q)
      BY <1>1, <2>2
    <3>2. QED
      BY <1>2, <1>4, <1>5, <1>6, <2>2, <3>1
  <2>3. QED
    BY <1>1, <1>2, <2>1, <2>2
<1>10. \A k \in 1..Len(q) : At(p, r, k) = At(q, o, k)
  <2>1. \A k \in 1..Len(q) : k - 1 \in 0..Len(q)
    BY <1>1
  <2>2. QED
    BY <1>2, <1>5, <2>1 DEF At
<1>11. At(p, r, Len(q) + 1) = [off |-> o[Len(q)], msg |-> x.msg, n |-> x.n]
  <2>1. (Len(q) + 1) - 1 = Len(q) /\ Len(q) \in 0..Len(q)
    BY <1>1
  <2>2. QED
    BY <1>2, <1>5, <2>1 DEF At
<1>12. QED
  BY <1>0, <1>2, <1>4, <1>6, <1>7, <1>8, <1>9, <1>10, <1>11 DEF Tiles, Adds

\* push adds a message to the list.
LEMMA PushLaid ==
    ASSUME NEW q, NEW o, Laid(q, o), len =< bytes, bytes \in Nat, NEW m \in Msg, Push(m)
    PROVE  /\ \E r : Laid(Append(q, [msg |-> m, n |-> Size[m]]), r)'
           /\ len' =< bytes' /\ len' \in Nat /\ bytes' \in Nat /\ len' =< MaxLen
<1> DEFINE e == [off |-> len, msg |-> m, n |-> Size[m]]
<1>1. Size[m] \in Nat /\ MaxLen \in Nat
  BY LayoutAssumption
<1>2. PICK x \in Item : x = [msg |-> m, n |-> Size[m]]
  BY <1>1 DEF Item
<1>3. /\ Tiles(q, o) /\ len = o[Len(q)] /\ Len(q) \in Nat /\ len \in Nat
      /\ data = {At(q, o, k) : k \in 1..Len(q)}
  <2>1. Tiles(q, o) /\ Len(q) \in 0..Len(q)
    BY DEF Laid, Tiles
  <2>2. QED
    BY <2>1, TilesGrow DEF Laid, Tiles
<1>4. PICK s \in Nat : s = CMSG_SPACE(Size[m])
  BY <1>1, SpaceFacts
<1>5. PICK l \in Nat : l = CMSG_LEN(Size[m]) /\ l =< s
  BY <1>1, <1>4, SpaceFacts
<1>6. /\ len' = len + s /\ len + s =< MaxLen /\ bytes' = Grown(len + s)
      /\ data' = Over({d \in data : End(d) =< len}, {e}, bytes')
  BY <1>4 DEF Push
<1>7. len' =< bytes' /\ len' \in Nat /\ bytes' \in Nat /\ len' =< MaxLen
  BY <1>3, <1>6 DEF Grown
<1>8. \A d \in data : End(d) =< len
  BY <1>3, TileEnd
<1>9. End(e) = len + l
  BY <1>5 DEF End
<1>10. End(e) =< bytes'
  BY <1>3, <1>5, <1>6, <1>7, <1>9
<1>11. \A d \in data : Apart(d, e)
  BY <1>8 DEF Apart
<1>0. PICK p, r : p = Append(q, x) /\ Adds(q, o, x, p, r)
  BY <1>2, <1>3, AppendTiles
<1>12. /\ Tiles(p, r) /\ Len(p) = Len(q) + 1 /\ r[Len(p)] = o[Len(q)] + CMSG_SPACE(x.n)
       /\ \A k \in 1..Len(q) : At(p, r, k) = At(q, o, k)
       /\ At(p, r, Len(q) + 1) = [off |-> o[Len(q)], msg |-> x.msg, n |-> x.n]
  BY <1>0 DEF Adds
<1>13. At(p, r, Len(q) + 1) = e /\ r[Len(p)] = len + s
  BY <1>2, <1>3, <1>4, <1>12
<1> HIDE DEF e
<1>14. data' = data \cup {e}
  BY <1>6, <1>8, <1>10, <1>11 DEF Over
<1>15. data' = {At(p, r, k) : k \in 1..Len(p)}
  <2>1. \A k \in 1..Len(p) : k \in 1..Len(q) \/ k = Len(q) + 1
    BY <1>3, <1>12
  <2>2. 1..Len(q) \subseteq 1..Len(p) /\ Len(q) + 1 \in 1..Len(p)
    BY <1>3, <1>12
  <2>3. \A d \in data' : \E k \in 1..Len(p) : d = At(p, r, k)
    BY <1>3, <1>12, <1>13, <1>14, <2>2
  <2>4. \A k \in 1..Len(p) : At(p, r, k) \in data'
    BY <1>3, <1>12, <1>13, <1>14, <2>1
  <2>5. QED
    BY <2>3, <2>4
<1>16. Laid(p, r)'
  BY <1>3, <1>6, <1>12, <1>13, <1>15 DEF Laid
<1>17. p = Append(q, [msg |-> m, n |-> Size[m]])
  BY <1>0, <1>2
<1>18. QED
  BY <1>7, <1>16, <1>17

\* The offsets of a list without its first message, which starts where it ended.
Shorter(q, o) == [k \in 0..Len(q) - 1 |-> o[k + 1] - o[1]]

\* p with the offsets r is q without its first message.
Cuts(q, o, p, r) ==
    /\ Tiles(p, r) /\ Len(p) = Len(q) - 1 /\ r[Len(p)] = o[Len(q)] - o[1]
    /\ \A k \in 1..Len(p) :
          At(p, r, k) = [At(q, o, k + 1) EXCEPT !.off = @ - o[1]]

LEMMA TailTiles ==
    ASSUME NEW q, NEW o, Tiles(q, o), q # <<>>
    PROVE  Cuts(q, o, Tail(q), Shorter(q, o))
<1>0. PICK p, r : p = Tail(q) /\ r = Shorter(q, o)
  OBVIOUS
<1>1. /\ q \in Seq(Item) /\ Len(q) \in Nat /\ o \in [0..Len(q) -> Aligned] /\ o[0] = 0
  BY DEF Tiles
<1>2. Len(q) # 0
  BY <1>1, EmptySeq
<1>3. p \in Seq(Item) /\ Len(p) = Len(q) - 1 /\ \A k \in 1..Len(p) : p[k] = q[k + 1]
  BY <1>0, <1>1, HeadTailProperties
<1>4. \A k \in 0..Len(p) : k + 1 \in 0..Len(q) /\ k + 1 \in 1..Len(q)
  BY <1>1, <1>2, <1>3
<1>5. 1 \in 0..Len(q) /\ Len(q) \in 0..Len(q)
  BY <1>1, <1>2
<1>6. PICK a \in Aligned : a = o[1] /\ a \in Nat
  BY <1>1, <1>5, AlignedSums
<1>7. \A k \in 0..Len(p) : r[k] = o[k + 1] - a
  BY <1>0, <1>3, <1>6 DEF Shorter
<1>8. ASSUME NEW k \in 0..Len(p) PROVE r[k] \in Aligned
  <2>1. PICK j \in 0..Len(q) : j = k + 1 /\ 1 =< j
    BY <1>1, <1>3, <1>4
  <2>2. o[j] \in Aligned /\ a =< o[j]
    BY <1>1, <1>5, <1>6, <2>1, TilesGrow
  <2>3. PICK b \in Aligned : b = o[j]
    BY <2>2
  <2>4. b >= a
    BY <1>6, <2>2, <2>3, AlignedSums
  <2>5. b - a \in Aligned
    BY <2>4, AlignedSums
  <2>6. QED
    BY <1>7, <2>1, <2>3, <2>5
<1>9. r \in [0..Len(p) -> Aligned]
  <2>1. r = [k \in 0..Len(p) |-> r[k]]
    BY <1>0, <1>3 DEF Shorter
  <2>2. QED
    BY <1>8, <2>1
<1>10. r[0] = 0
  <2>1. 0 \in 0..Len(p) /\ 0 + 1 = 1
    BY <1>1, <1>2, <1>3
  <2>2. r[0] = a - a
    BY <1>6, <1>7, <2>1
  <2>3. QED
    BY <1>6, <2>2
<1>11. ASSUME NEW k \in 1..Len(p) PROVE r[k] = r[k - 1] + CMSG_SPACE(p[k].n)
  <2>1. PICK j \in 1..Len(q) : j = k + 1 /\ j - 1 = k /\ k \in 0..Len(p) /\ k - 1 \in 0..Len(p)
    BY <1>1, <1>3
  <2>2. o[j] = o[j - 1] + CMSG_SPACE(q[j].n) /\ o[j] \in Nat /\ o[j - 1] \in Nat /\ q[j].n \in Nat
    BY TileFacts
  <2>3. r[k] = o[j] - a /\ r[k - 1] = o[j - 1] - a
    <3>1. (k - 1) + 1 = j - 1
      BY <2>1
    <3>2. QED
      BY <1>7, <2>1, <3>1
  <2>4. p[k] = q[j]
    BY <1>3, <2>1
  <2>5. PICK s \in Nat : s = CMSG_SPACE(q[j].n)
    BY <2>2, SpaceFacts
  <2>6. r[k] = r[k - 1] + s
    BY <1>6, <2>2, <2>3, <2>5
  <2>7. QED
    BY <2>4, <2>5, <2>6
<1>12. Tiles(p, r)
  BY <1>3, <1>9, <1>10, <1>11 DEF Tiles
<1>13. r[Len(p)] = o[Len(q)] - o[1]
  <2>1. Len(p) \in 0..Len(p) /\ Len(p) + 1 = Len(q)
    BY <1>1, <1>2, <1>3
  <2>2. QED
    BY <1>6, <1>7, <2>1
<1>14. ASSUME NEW k \in 1..Len(p)
       PROVE  At(p, r, k) = [At(q, o, k + 1) EXCEPT !.off = @ - o[1]]
  <2>1. k - 1 \in 0..Len(p) /\ (k - 1) + 1 = k /\ (k + 1) - 1 = k
    BY <1>1, <1>3
  <2>2. r[k - 1] = o[k] - o[1] /\ p[k] = q[k + 1]
    BY <1>3, <1>6, <1>7, <2>1
  <2>3. QED
    BY <2>1, <2>2 DEF At
<1>15. QED
  BY <1>0, <1>3, <1>12, <1>13, <1>14 DEF Cuts

\* The first header is that of the first message.
LEMMA FirstIsFirst ==
    ASSUME NEW q, NEW o, Laid(q, o), q # <<>>
    PROVE  First = At(q, o, 1)
<1>1. /\ Tiles(q, o) /\ Len(q) \in Nat /\ Len(q) # 0 /\ o[0] = 0
      /\ data = {At(q, o, k) : k \in 1..Len(q)}
  BY EmptySeq DEF Laid, Tiles
<1>2. PICK j \in 1..Len(q) : j = 1 /\ j - 1 = 0
  BY <1>1
<1>3. At(q, o, j) \in data /\ At(q, o, j).off = 0
  <2>1. o[j - 1] = 0
    BY <1>1, <1>2
  <2>2. QED
    BY <1>1, <2>1 DEF At
<1>4. ASSUME NEW d \in data, d.off = 0 PROVE d = At(q, o, j)
  <2>1. PICK l \in 1..Len(q) : d = At(q, o, l)
    BY <1>1
  <2>2. o[l - 1] = 0 /\ l - 1 \in 0..Len(q) /\ j - 1 \in 0..Len(q) /\ o[j - 1] = 0
    BY <1>1, <1>2, <1>4, <2>1 DEF At
  <2>3. l - 1 = j - 1
    BY <1>1, <2>2, TilesGrow
  <2>4. l = j
    BY <1>1, <2>3
  <2>5. QED
    BY <2>1, <2>4
<1>5. QED
  BY <1>2, <1>3, <1>4 DEF First

\* Whether there is room for a header tells whether there is a message.
LEMMA RoomIsMessage ==
    ASSUME NEW q, NEW o, Laid(q, o)
    PROVE  /\ len \in Nat
           /\ len >= HDR <=> q # <<>>
           /\ len = 0 <=> q = <<>>
<1>1. /\ Tiles(q, o) /\ Len(q) \in Nat /\ q \in Seq(Item) /\ o[0] = 0 /\ len = o[Len(q)]
  BY DEF Laid, Tiles
<1>2. CASE q = <<>>
  <2>1. Len(q) = 0
    BY <1>1, <1>2, EmptySeq
  <2>2. QED
    BY <1>1, <1>2, <2>1, HeaderFacts
<1>3. CASE q # <<>>
  <2>1. PICK n \in 1..Len(q) : n = Len(q)
    BY <1>1, <1>3, EmptySeq
  <2>2. /\ o[n - 1] \in Nat /\ o[n] \in Nat /\ CMSG_LEN(q[n].n) \in Nat
        /\ HDR =< CMSG_LEN(q[n].n) /\ o[n - 1] + CMSG_LEN(q[n].n) =< o[n]
    BY <1>1, TileFacts
  <2>3. HDR =< o[n] /\ o[n] \in Nat /\ 0 < HDR
    BY <2>2, HeaderFacts
  <2>4. QED
    BY <1>1, <1>3, <2>1, <2>3, HeaderFacts
<1>4. QED
  BY <1>2, <1>3

\* shift takes the first message away.
LEMMA ShiftLaid ==
    ASSUME NEW q, NEW o, Laid(q, o), len =< MaxLen, len =< bytes, bytes \in Nat, Shift
    PROVE  /\ q # <<>> /\ out' = <<q[1]>> /\ \E r : Laid(Tail(q), r)'
           /\ len' \in Nat /\ len' =< MaxLen /\ len' =< bytes' /\ bytes' \in Nat
<1>1. /\ Tiles(q, o) /\ len = o[Len(q)] /\ Len(q) \in Nat /\ q \in Seq(Item)
      /\ data = {At(q, o, k) : k \in 1..Len(q)} /\ o[0] = 0
  BY DEF Laid, Tiles
<1>2. q # <<>> /\ len \in Nat
  BY RoomIsMessage DEF Shift
<1>3. Len(q) # 0 /\ 1 \in 1..Len(q) /\ 1 \in 0..Len(q) /\ Len(q) \in 0..Len(q) /\ 0 \in 0..Len(q)
  BY <1>1, <1>2, EmptySeq
<1>4. First = At(q, o, 1)
  BY <1>2, FirstIsFirst
<1>5. PICK a \in Nat : a = o[1] /\ a =< len /\ 0 < a
  <2>1. o[1] \in Nat /\ o[1] =< o[Len(q)] /\ o[0] < o[1]
    BY <1>1, <1>3, TilesGrow
  <2>2. QED
    BY <1>1, <2>1
<1>6. Removed(First.n) = a
  <2>1. At(q, o, 1).n = q[1].n /\ At(q, o, 1).off + CMSG_SPACE(At(q, o, 1).n) = o[1]
        /\ q[1].n \in Nat
    BY <1>1, <1>3, TileEnd, TileFacts DEF At
  <2>2. At(q, o, 1).off = 0
    <3>1. PICK z \in Nat : z = 1 /\ z - 1 = 0
      OBVIOUS
    <3>2. QED
      BY <1>1, <3>1 DEF At
  <2>3. CMSG_SPACE(q[1].n) \in Nat
    BY <2>1, SpaceFacts
  <2>4. QED
    BY <1>4, <1>5, <2>1, <2>2, <2>3 DEF Removed
<1>7. /\ out' = <<[msg |-> First.msg, n |-> First.n]>>
      /\ len' = (len - a) % WORD /\ data' = Moved(a, len') /\ bytes' = bytes
  BY <1>6 DEF Shift
<1>8. len' = len - a
  <2>1. WORD \in Nat /\ MaxLen \in Nat /\ MaxLen < WORD
    BY LayoutAssumption
  <2>2. PICK y \in Nat : y = len - a /\ y < WORD
    BY <1>2, <1>5, <2>1
  <2>3. QED
    BY <1>7, <2>1, <2>2
<1>9. out' = <<q[1]>>
  <2>1. q[1] \in Item
    BY <1>1, <1>3, TileFacts
  <2>2. [msg |-> At(q, o, 1).msg, n |-> At(q, o, 1).n] = q[1]
    BY <2>1 DEF At, Item
  <2>3. QED
    BY <1>4, <1>7, <2>2
<1>10. PICK p, r : p = Tail(q) /\ Cuts(q, o, p, r)
  BY <1>1, <1>2, TailTiles
<1>11. /\ Tiles(p, r) /\ Len(p) = Len(q) - 1 /\ r[Len(p)] = len'
       /\ \A k \in 1..Len(p) : At(p, r, k) = [At(q, o, k + 1) EXCEPT !.off = @ - a]
  BY <1>1, <1>5, <1>8, <1>10 DEF Cuts
<1>12. data' = {[d EXCEPT !.off = @ - a] : d \in {d \in data : d.off >= a /\ End(d) =< len}}
  <2>1. a + len' = len
    BY <1>2, <1>5, <1>8
  <2>2. QED
    BY <1>7, <2>1 DEF Moved
<1>13. ASSUME NEW d \in data, d.off >= a
       PROVE  \E k \in 1..Len(p) : [d EXCEPT !.off = @ - a] = At(p, r, k)
  <2>1. PICK l \in 1..Len(q) : d = At(q, o, l)
    BY <1>1
  <2>2. l # 1
    <3>1. ASSUME l = 1 PROVE FALSE
      <4>1. l - 1 = 0 /\ d.off = o[l - 1]
        BY <2>1, <3>1 DEF At
      <4>2. QED
        BY <1>1, <1>5, <1>13, <4>1
    <3>2. QED
      BY <3>1
  <2>3. l - 1 \in 1..Len(p) /\ (l - 1) + 1 = l
    BY <1>1, <1>11, <2>2
  <2>4. At(p, r, l - 1) = [At(q, o, l) EXCEPT !.off = @ - a]
    BY <1>11, <2>3
  <2>5. QED
    BY <2>1, <2>3, <2>4
<1>14. ASSUME NEW k \in 1..Len(p) PROVE At(p, r, k) \in data'
  <2>1. PICK l \in 1..Len(q) : l = k + 1 /\ l - 1 = k /\ k \in 0..Len(q) /\ 1 =< k
    BY <1>1, <1>11
  <2>2. At(q, o, l) \in data /\ End(At(q, o, l)) =< len
    BY <1>1, TileEnd
  <2>3. At(q, o, l).off >= a
    <3>1. o[k] \in Nat /\ o[1] =< o[k]
      BY <1>1, <1>3, <2>1, TilesGrow
    <3>2. At(q, o, l).off = o[k]
      BY <2>1 DEF At
    <3>3. QED
      BY <1>5, <3>1, <3>2
  <2>4. At(p, r, k) = [At(q, o, l) EXCEPT !.off = @ - a]
    BY <1>11, <2>1
  <2>5. QED
    BY <1>12, <2>2, <2>3, <2>4
<1>15. data' = {At(p, r, k) : k \in 1..Len(p)}
  BY <1>12, <1>13, <1>14
<1>16. Laid(p, r)'
  BY <1>11, <1>15 DEF Laid
<1>17. len' \in Nat /\ len' =< MaxLen /\ len' =< bytes' /\ bytes' \in Nat
  <2>1. MaxLen \in Nat
    BY LayoutAssumption
  <2>2. QED
    BY <1>2, <1>5, <1>7, <1>8, <2>1
<1>18. QED
  BY <1>2, <1>9, <1>10, <1>16, <1>17
-----------------------------------------------------------------------------
(* recvmsg.                                                                *)

\* The data of m that is written when there is room for a header.
Cut(m, room) == NoMore(Size[m], room - HDR)

\* What the kernel writes takes up its CMSG_SPACE: the room left for a message
\* that is cut is all taken, for room is aligned.
LEMMA LeftFacts ==
    ASSUME NEW m \in Msg, NEW room \in Aligned
    PROVE  /\ room \in Nat /\ Left(m, room) \in Aligned
           /\ room < HDR => Left(m, room) = room
           /\ room >= HDR =>
                /\ Cut(m, room) \in Nat /\ Cut(m, room) =< Size[m]
                /\ Left(m, room) = room - CMSG_SPACE(Cut(m, room))
                /\ CMSG_SPACE(Cut(m, room)) =< room
                /\ Cut(m, room) # Size[m] => Left(m, room) = 0
<1>1. room \in Nat /\ HDR \in Nat /\ 0 < HDR
  BY AlignedSums, HeaderFacts
<1>2. CASE room < HDR
  BY <1>1, <1>2 DEF Left
<1>3. CASE room >= HDR
  <2>1. PICK s \in Nat : s = Size[m]
    BY LayoutAssumption
  <2>2. PICK b \in Nat : b = CMSG_SPACE(s)
    BY SpaceFacts
  <2>3. HDR + s =< b /\ b \in Aligned
    BY <2>2, SpaceFacts DEF CMSG_LEN
  <2>4. Left(m, room) = NoLess(room - b, 0)
    BY <1>1, <1>3, <2>1, <2>2 DEF Left
  <2>5. CASE s =< room - HDR
    <3>1. Cut(m, room) = s
      BY <1>1, <1>3, <2>1, <2>5 DEF Cut, NoMore
    <3>2. CMSG_LEN(s) =< room
      BY <1>1, <2>5 DEF CMSG_LEN
    <3>3. b =< room
      BY <2>2, <3>2, SpaceFits
    <3>4. Left(m, room) = room - b
      BY <1>1, <2>4, <3>3 DEF NoLess
    <3>5. PICK r \in Aligned : r = room
      OBVIOUS
    <3>6. r - b \in Aligned
      BY <1>1, <2>3, <3>3, <3>5, AlignedSums
    <3>7. QED
      BY <1>1, <1>3, <2>1, <2>2, <3>1, <3>3, <3>4, <3>5, <3>6
  <2>6. CASE s > room - HDR
    <3>1. PICK n \in Nat : n = room - HDR
      BY <1>1, <1>3
    <3>2. Cut(m, room) = n
      BY <1>1, <2>1, <2>6, <3>1 DEF Cut, NoMore
    <3>3. CMSG_LEN(n) = room
      BY <1>1, <3>1 DEF CMSG_LEN
    <3>4. CMSG_SPACE(n) =< room
      BY <1>1, <3>3, SpaceFits
    <3>5. room =< CMSG_SPACE(n) /\ CMSG_SPACE(n) \in Nat
      BY <3>3, SpaceFacts
    <3>6. CMSG_SPACE(n) = room
      BY <1>1, <3>4, <3>5
    <3>7. Left(m, room) = 0
      <4>1. room - b < 0
        BY <1>1, <2>3, <2>6
      <4>2. QED
        BY <1>1, <2>4, <4>1 DEF NoLess
    <3>8. n =< s
      BY <1>1, <2>6, <3>1
    <3>9. QED
      BY <1>1, <1>3, <2>1, <3>2, <3>6, <3>7, <3>8, HeaderFacts
  <2>7. QED
    BY <1>1, <2>1, <2>5, <2>6
<1>4. QED
  BY <1>1, <1>2, <1>3

\* The function that Rooms defines by recursion, up to its n-th value.
IsRooms(f, ms, room, n) ==
    f = [k \in 0..n |-> IF k = 0 THEN room ELSE Left(ms[k], f[k - 1])]

LEMMA RoomsExist ==
    ASSUME NEW ms, NEW room, Len(ms) \in Nat
    PROVE  \E f : IsRooms(f, ms, room, Len(ms))
<1> DEFINE P == {n \in Nat : n =< Len(ms) => \E f : IsRooms(f, ms, room, n)}
<1>1. 0 \in P
  <2>1. IsRooms([k \in 0..0 |-> room], ms, room, 0)
    BY DEF IsRooms
  <2>2. QED
    BY <2>1
<1>2. ASSUME NEW n \in Nat, n \in P PROVE n + 1 \in P
  <2> SUFFICES ASSUME n + 1 =< Len(ms) PROVE \E f : IsRooms(f, ms, room, n + 1)
    OBVIOUS
  <2>1. PICK f : IsRooms(f, ms, room, n)
    BY <1>2
  <2>2. f = [k \in 0..n |-> IF k = 0 THEN room ELSE Left(ms[k], f[k - 1])]
    BY <2>1 DEF IsRooms
  <2> DEFINE g == [k \in 0..(n + 1) |-> IF k = n + 1 THEN Left(ms[n + 1], f[n]) ELSE f[k]]
  <2>3. \A k \in 0..(n + 1) : g[k] = IF k = 0 THEN room ELSE Left(ms[k], g[k - 1])
    <3> SUFFICES ASSUME NEW k \in 0..(n + 1)
                 PROVE  g[k] = IF k = 0 THEN room ELSE Left(ms[k], g[k - 1])
      OBVIOUS
    <3>1. CASE k = 0
      BY <2>2, <3>1
    <3>2. CASE k = n + 1
      BY <3>2
    <3>3. CASE k # 0 /\ k # n + 1
      <4>1. k \in 0..n /\ k - 1 \in 0..n /\ k - 1 # n + 1
        BY <3>3
      <4>2. g[k] = f[k] /\ g[k - 1] = f[k - 1]
        BY <3>3, <4>1
      <4>3. f[k] = Left(ms[k], f[k - 1])
        BY <2>2, <3>3, <4>1
      <4>4. QED
        BY <3>3, <4>2, <4>3
    <3>4. QED
      BY <3>1, <3>2, <3>3
  <2>4. IsRooms(g, ms, room, n + 1)
    BY <2>3 DEF IsRooms
  <2>5. QED
    BY <2>4
<1>3. QED
  <2> HIDE DEF P
  <2>1. Len(ms) \in P
    BY <1>1, <1>2, SetInduction
  <2>2. QED
    BY <2>1 DEF P

\* What the recursion says.
LEMMA RoomsSteps ==
    ASSUME NEW ms, NEW room, Len(ms) \in Nat
    PROVE  /\ Rooms(ms, room)[0] = room
           /\ \A k \in 1..Len(ms) :
                 Rooms(ms, room)[k] = Left(ms[k], Rooms(ms, room)[k - 1])
<1> DEFINE f == CHOOSE f : IsRooms(f, ms, room, Len(ms))
<1>1. Rooms(ms, room) = f
  BY DEF Rooms, IsRooms
<1>2. IsRooms(f, ms, room, Len(ms))
  BY RoomsExist
<1> HIDE DEF f
<1>3. f = [k \in 0..Len(ms) |-> IF k = 0 THEN room ELSE Left(ms[k], f[k - 1])]
  BY <1>2 DEF IsRooms
<1>4. f[0] = room
  BY <1>3
<1>5. ASSUME NEW k \in 1..Len(ms) PROVE f[k] = Left(ms[k], f[k - 1])
  <2>1. k \in 0..Len(ms) /\ k # 0
    OBVIOUS
  <2>2. QED
    BY <1>3, <2>1
<1>6. QED
  BY <1>1, <1>4, <1>5

\* left tells the room there is before and behind each of the messages ms.
Falls(left, ms, room) ==
    /\ Len(ms) \in Nat /\ left[0] = room
    /\ \A k \in 1..Len(ms) : ms[k] \in Msg /\ left[k] = Left(ms[k], left[k - 1])
    /\ \A k \in 0..Len(ms) : left[k] \in Aligned

LEMMA RoomsFall ==
    ASSUME NEW ms \in Seq(Msg), NEW room \in Aligned
    PROVE  Falls(Rooms(ms, room), ms, room)
<1>0. PICK left : left = Rooms(ms, room)
  OBVIOUS
<1>1. Len(ms) \in Nat /\ \A k \in 1..Len(ms) : ms[k] \in Msg
  BY LenProperties, ElementOfSeq
<1>2. left[0] = room /\ \A k \in 1..Len(ms) : left[k] = Left(ms[k], left[k - 1])
  BY <1>0, <1>1, RoomsSteps
<1> DEFINE P == {k \in Nat : k =< Len(ms) => left[k] \in Aligned}
<1>3. 0 \in P
  BY <1>2
<1>4. ASSUME NEW k \in Nat, k \in P PROVE k + 1 \in P
  <2> SUFFICES ASSUME k + 1 =< Len(ms) PROVE left[k + 1] \in Aligned
    OBVIOUS
  <2>1. PICK j \in 1..Len(ms) : j = k + 1 /\ j - 1 = k
    BY <1>1
  <2>2. left[k] \in Aligned
    BY <1>1, <1>4
  <2>3. left[j] = Left(ms[j], left[k]) /\ ms[j] \in Msg
    BY <1>1, <1>2, <2>1
  <2>4. QED
    BY <2>1, <2>2, <2>3, LeftFacts
<1>5. \A k \in 0..Len(ms) : left[k] \in Aligned
  <2> HIDE DEF P
  <2>1. Nat \subseteq P
    BY <1>3, <1>4, SetInduction
  <2>2. QED
    BY <1>1, <2>1 DEF P
<1>6. QED
  BY <1>0, <1>1, <1>2, <1>5 DEF Falls

\* The messages that are written are the first c of ms.
Written(left, ms, c) ==
    /\ c \in 0..Len(ms) /\ left[Len(ms)] = left[c]
    /\ \A k \in 1..Len(ms) : left[k - 1] >= HDR <=> k =< c

LEMMA WrittenFirst ==
    ASSUME NEW left, NEW ms, NEW room, Falls(left, ms, room)
    PROVE  \E c \in 0..Len(ms) : Written(left, ms, c)
<1>1. /\ Len(ms) \in Nat
      /\ \A k \in 1..Len(ms) : ms[k] \in Msg /\ left[k] = Left(ms[k], left[k - 1])
      /\ \A k \in 0..Len(ms) : left[k] \in Aligned /\ left[k] \in Nat
  BY AlignedSums DEF Falls
<1> DEFINE W(n, c) ==
              /\ left[n] = left[c]
              /\ c < n => left[n] < HDR
              /\ \A k \in 1..n : left[k - 1] >= HDR <=> k =< c
           P == {n \in Nat : n =< Len(ms) => \E c \in 0..n : W(n, c)}
<1>2. 0 \in P
  OBVIOUS
<1>3. ASSUME NEW n \in Nat, n \in P PROVE n + 1 \in P
  <2> SUFFICES ASSUME n + 1 =< Len(ms) PROVE \E c \in 0..n + 1 : W(n + 1, c)
    OBVIOUS
  <2>1. PICK c \in 0..n : W(n, c)
    BY <1>1, <1>3
  <2>2. PICK j \in 1..Len(ms) : j = n + 1 /\ j - 1 = n
    BY <1>1
  <2>3. left[j] = Left(ms[j], left[n]) /\ ms[j] \in Msg /\ left[n] \in Aligned /\ left[n] \in Nat
    BY <1>1, <2>2
  <2>4. \A k \in 1..n + 1 : k \in 1..n \/ k = j
    BY <2>2
  <2>5. CASE left[n] >= HDR
    <3>1. c = n
      BY <2>1, <2>3, <2>5, HeaderFacts
    <3>2. ASSUME NEW k \in 1..n + 1 PROVE left[k - 1] >= HDR <=> k =< j
      <4>1. CASE k \in 1..n
        BY <2>1, <2>2, <3>1, <4>1
      <4>2. CASE k = j
        BY <2>2, <2>5, <4>2
      <4>3. QED
        BY <2>4, <4>1, <4>2
    <3>3. W(n + 1, j) /\ j \in 0..n + 1
      BY <2>2, <3>2
    <3>4. QED
      BY <3>3
  <2>6. CASE left[n] < HDR
    <3>1. left[j] = left[n]
      BY <2>3, <2>6, LeftFacts
    <3>2. ASSUME NEW k \in 1..n + 1 PROVE left[k - 1] >= HDR <=> k =< c
      <4>1. CASE k \in 1..n
        BY <2>1, <4>1
      <4>2. CASE k = j
        <5>1. ~(left[k - 1] >= HDR) /\ ~(k =< c)
          BY <2>2, <2>3, <2>6, <4>2, HeaderFacts
        <5>2. QED
          BY <5>1
      <4>3. QED
        BY <2>4, <4>1, <4>2
    <3>3. left[n + 1] = left[c] /\ left[n + 1] < HDR
      BY <2>1, <2>2, <2>6, <3>1
    <3>4. W(n + 1, c) /\ c \in 0..n + 1
      BY <3>2, <3>3
    <3>5. QED
      BY <3>4
  <2>7. QED
    BY <2>3, <2>5, <2>6, HeaderFacts
<1>4. Len(ms) \in P
  <2> HIDE DEF P
  <2>1. Nat \subseteq P
    BY <1>2, <1>3, SetInduction
  <2>2. QED
    BY <1>1, <2>1
<1>5. PICK c \in 0..Len(ms) : W(Len(ms), c)
  BY <1>1, <1>4
<1>6. QED
  BY <1>5 DEF Written

\* p is the list of what is delivered of ms, with offsets r: as many of them as there
\* is room for a header, of which the last may be cut.
Takes(room, ms, p, r) ==
    /\ Tiles(p, r) /\ Len(p) =< Len(ms)
    /\ DOMAIN Delivered(ms, room) = 1..Len(p)
    /\ \A k \in 1..Len(p) : Delivered(ms, room)[k] = At(p, r, k)
    /\ r[Len(p)] = room - Rooms(ms, room)[Len(ms)] /\ r[Len(p)] =< room
    /\ \A k \in 1..Len(p) :
          /\ p[k].msg = ms[k] /\ p[k].n =< Size[ms[k]]
          /\ k < Len(p) => p[k].n = Size[ms[k]]

LEMMA DeliveredTiles ==
    ASSUME NEW ms \in Seq(Msg), NEW room \in Aligned
    PROVE  \E p, r : Takes(room, ms, p, r)
<1>0. PICK left : left = Rooms(ms, room)
  OBVIOUS
<1>1. Falls(left, ms, room)
  BY <1>0, RoomsFall
<1>2. PICK c \in 0..Len(ms) : Written(left, ms, c)
  BY <1>1, WrittenFirst
<1>3. /\ Len(ms) \in Nat /\ left[0] = room /\ c \in Nat
      /\ \A k \in 1..Len(ms) : ms[k] \in Msg /\ left[k] = Left(ms[k], left[k - 1])
      /\ \A k \in 0..Len(ms) : left[k] \in Aligned /\ left[k] \in Nat
  <2>1. /\ Len(ms) \in Nat /\ left[0] = room
        /\ \A k \in 1..Len(ms) : ms[k] \in Msg /\ left[k] = Left(ms[k], left[k - 1])
        /\ \A k \in 0..Len(ms) : left[k] \in Aligned
    BY <1>1 DEF Falls
  <2>2. \A k \in 0..Len(ms) : left[k] \in Nat
    BY <2>1, AlignedSums
  <2>3. c \in Nat
    BY <2>1
  <2>4. QED
    BY <2>1, <2>2, <2>3
<1>4. room \in Nat
  BY AlignedSums
\* One message of those that are written.
<1>5. ASSUME NEW k \in 1..c
      PROVE  /\ k - 1 \in 0..Len(ms) /\ k \in 1..Len(ms) /\ left[k - 1] >= HDR
             /\ Cut(ms[k], left[k - 1]) \in Nat /\ Cut(ms[k], left[k - 1]) =< Size[ms[k]]
             /\ left[k] = left[k - 1] - CMSG_SPACE(Cut(ms[k], left[k - 1]))
             /\ CMSG_SPACE(Cut(ms[k], left[k - 1])) \in Nat
             /\ k < c => Cut(ms[k], left[k - 1]) = Size[ms[k]]
  <2>1. k - 1 \in 0..Len(ms) /\ k \in 1..Len(ms) /\ left[k - 1] >= HDR
    BY <1>2, <1>3 DEF Written
  <2>2. PICK a \in Aligned : a = left[k - 1] /\ a >= HDR
    BY <1>3, <2>1
  <2>3. PICK m \in Msg : m = ms[k] /\ left[k] = Left(m, a)
    BY <1>3, <2>1, <2>2
  <2>4. /\ Cut(m, a) \in Nat /\ Cut(m, a) =< Size[m]
        /\ Left(m, a) = a - CMSG_SPACE(Cut(m, a))
        /\ Cut(m, a) # Size[m] => Left(m, a) = 0
    BY <2>2, LeftFacts
  <2>5. CMSG_SPACE(Cut(m, a)) \in Nat
    BY <2>4, SpaceFacts
  <2>6. ASSUME k < c PROVE Cut(m, a) = Size[m]
    <3>1. PICK j \in 1..Len(ms) : j = k + 1 /\ j =< c /\ j - 1 = k
      BY <1>2, <1>3, <2>6
    <3>2. left[j - 1] >= HDR
      BY <1>2, <3>1 DEF Written
    <3>3. left[k] # 0
      BY <3>1, <3>2, HeaderFacts
    <3>4. QED
      BY <2>3, <2>4, <3>3
  <2>7. QED
    BY <2>1, <2>2, <2>3, <2>4, <2>5, <2>6
<1> DEFINE P == {k \in Nat : k =< c => left[k] =< room}
<1>6. 0 \in P
  BY <1>3, <1>4
<1>7. ASSUME NEW k \in Nat, k \in P PROVE k + 1 \in P
  <2> SUFFICES ASSUME k + 1 =< c PROVE left[k + 1] =< room
    OBVIOUS
  <2>1. PICK j \in 1..c : j = k + 1 /\ j - 1 = k
    BY <1>3
  <2>2. left[k] =< room
    BY <1>3, <1>7
  <2>3. /\ left[j] = left[k] - CMSG_SPACE(Cut(ms[j], left[k])) /\ k \in 0..Len(ms)
        /\ CMSG_SPACE(Cut(ms[j], left[k])) \in Nat /\ j \in 0..Len(ms)
    BY <1>3, <1>5, <2>1
  <2>4. left[j] \in Nat /\ left[k] \in Nat
    BY <1>3, <2>3
  <2>5. PICK s \in Nat : s = CMSG_SPACE(Cut(ms[j], left[k]))
    BY <2>3
  <2>6. left[j] =< room
    BY <1>4, <2>2, <2>3, <2>4, <2>5
  <2>7. QED
    BY <2>1, <2>6
<1>8. \A k \in 0..c : left[k] =< room
  <2> HIDE DEF P
  <2>1. Nat \subseteq P
    BY <1>6, <1>7, SetInduction
  <2>2. QED
    BY <1>3, <2>1 DEF P
<1>9. PICK p : p = [k \in 1..c |-> [msg |-> ms[k], n |-> Cut(ms[k], left[k - 1])]]
  OBVIOUS
<1>10. PICK r : r = [k \in 0..c |-> room - left[k]]
  OBVIOUS
<1>11. /\ p \in Seq(Item) /\ Len(p) = c
       /\ \A k \in 1..c : p[k] = [msg |-> ms[k], n |-> Cut(ms[k], left[k - 1])]
  <2>1. \A k \in 1..c : [msg |-> ms[k], n |-> Cut(ms[k], left[k - 1])] \in Item
    BY <1>3, <1>5 DEF Item
  <2>2. QED
    BY <1>3, <1>9, <2>1
<1>12. \A k \in 0..c : r[k] = room - left[k] /\ r[k] \in Aligned /\ k \in 0..Len(ms)
  <2> SUFFICES ASSUME NEW k \in 0..c
               PROVE  r[k] = room - left[k] /\ r[k] \in Aligned /\ k \in 0..Len(ms)
    OBVIOUS
  <2>1. k \in 0..Len(ms) /\ r[k] = room - left[k]
    BY <1>3, <1>10
  <2>2. PICK a \in Aligned : a = left[k] /\ a =< room
    BY <1>3, <1>8, <2>1
  <2>3. a \in Nat
    BY AlignedSums
  <2>4. room >= a
    BY <1>4, <2>2, <2>3
  <2>5. room - a \in Aligned
    BY <2>4, AlignedSums
  <2>6. QED
    BY <2>1, <2>2, <2>5
<1>13. Tiles(p, r)
  <2>1. r \in [0..Len(p) -> Aligned]
    BY <1>10, <1>11, <1>12
  <2>2. r[0] = 0
    <3>1. 0 \in 0..c
      BY <1>3
    <3>2. QED
      BY <1>3, <1>4, <1>12, <3>1
  <2>3. ASSUME NEW k \in 1..c PROVE r[k] = r[k - 1] + CMSG_SPACE(p[k].n)
    <3>1. k \in 0..c /\ k - 1 \in 0..c /\ p[k].n = Cut(ms[k], left[k - 1])
      BY <1>3, <1>11
    <3>2. r[k] = room - left[k] /\ r[k - 1] = room - left[k - 1]
      BY <1>12, <3>1
    <3>3. PICK s \in Nat : s = CMSG_SPACE(p[k].n) /\ left[k] = left[k - 1] - s
      BY <1>5, <3>1
    <3>4. left[k - 1] \in Nat /\ left[k] \in Nat
      BY <1>3, <1>12, <3>1
    <3>5. QED
      BY <1>4, <3>2, <3>3, <3>4
  <2>4. QED
    BY <1>11, <2>1, <2>2, <2>3 DEF Tiles
<1>14. PICK d : d = Delivered(ms, room)
  OBVIOUS
<1>15. DOMAIN d = 1..c /\ \A k \in 1..c :
           d[k] = [off |-> room - left[k - 1], msg |-> ms[k], n |-> Cut(ms[k], left[k - 1])]
  <2>1. {k \in 1..Len(ms) : left[k - 1] >= HDR} = 1..c
    <3>1. \A k \in 1..Len(ms) : left[k - 1] >= HDR <=> k =< c
      BY <1>2 DEF Written
    <3>2. \A k \in 1..c : k \in 1..Len(ms)
      BY <1>3
    <3>3. QED
      BY <1>3, <3>1, <3>2
  <2>2. Cardinality(1..c) = c
    <3>1. PICK i \in Int : i = 1
      OBVIOUS
    <3>2. Cardinality(i..c) = IF i > c THEN 0 ELSE c - i + 1
      BY <1>3, FS_Interval
    <3>3. QED
      BY <1>3, <3>1, <3>2
  <2>3. Cardinality({k \in 1..Len(ms) : left[k - 1] >= HDR}) = c
    BY <2>1, <2>2
  <2>4. d = [k \in 1..c |-> [off |-> room - left[k - 1], msg |-> ms[k],
                             n |-> Cut(ms[k], left[k - 1])]]
    BY <1>0, <1>14, <2>3 DEF Delivered, Cut
  <2>5. QED
    BY <2>4
<1>16. ASSUME NEW k \in 1..c PROVE d[k] = At(p, r, k)
  <2>1. k - 1 \in 0..c
    BY <1>3
  <2>2. r[k - 1] = room - left[k - 1] /\ p[k].msg = ms[k]
        /\ p[k].n = Cut(ms[k], left[k - 1])
    BY <1>11, <1>12, <2>1
  <2>3. QED
    BY <1>15, <2>2 DEF At
<1>17. r[c] = room - left[Len(ms)] /\ r[c] =< room
  <2>1. c \in 0..c /\ left[Len(ms)] = left[c] /\ left[c] \in Nat
    BY <1>2, <1>3 DEF Written
  <2>2. QED
    BY <1>4, <1>12, <2>1
<1>18. \A k \in 1..c : /\ p[k].msg = ms[k] /\ p[k].n =< Size[ms[k]]
                       /\ k < c => p[k].n = Size[ms[k]]
  BY <1>5, <1>11
<1>19. c =< Len(ms)
  BY <1>3
<1>20. Takes(room, ms, p, r)
  BY <1>0, <1>11, <1>13, <1>14, <1>15, <1>16, <1>17, <1>18, <1>19 DEF Takes
<1>21. QED
  BY <1>20

\* No message is empty: it has a header.
LEMMA LenPositive ==
    ASSUME NEW n \in Nat
    PROVE  CMSG_LEN(n) \in Nat /\ 0 < CMSG_LEN(n)
<1>1. PICK l \in Nat : l = CMSG_LEN(n) /\ HDR =< l
  BY SpaceFacts
<1>2. HDR \in Nat /\ 0 < HDR
  BY HeaderFacts
<1>3. QED
  BY <1>1, <1>2

\* A message that begins where p is laid out overlaps one of p: what lies between two
\* of p is too short for a header.
LEMMA TileOver ==
    ASSUME NEW p, NEW r, Tiles(p, r), NEW x, x.off \in Aligned, x.n \in Nat,
           x.off < r[Len(p)]
    PROVE  \E k \in 1..Len(p) : ~Apart(x, At(p, r, k))
<1>1. /\ Len(p) \in Nat /\ r[0] = 0 /\ \A k \in 0..Len(p) : r[k] \in Aligned
      /\ Len(p) \in 0..Len(p)
  BY DEF Tiles
<1>2. PICK a \in Aligned : a = x.off
  OBVIOUS
<1>3. a \in Nat /\ \A k \in 0..Len(p) : r[k] \in Nat
  BY <1>1, AlignedSums
<1> DEFINE T == {k \in 0..Len(p) : a < r[k]}
<1>4. PICK k \in T : \A j \in T : k =< j
  <2>1. Len(p) \in T /\ T \subseteq Nat
    BY <1>1, <1>2
  <2> HIDE DEF T
  <2>2. QED
    BY <2>1, LeastElement
<1>5. k # 0
  BY <1>1, <1>3, <1>4
<1>6. k \in 1..Len(p) /\ k - 1 \in 0..Len(p)
  BY <1>1, <1>4, <1>5
<1>7. r[k - 1] =< a
  <2>1. k - 1 \notin T
    BY <1>1, <1>4, <1>6
  <2>2. QED
    BY <1>3, <1>6, <2>1
<1>8. PICK b \in Aligned : b = r[k] /\ a < b /\ b \in Nat
  BY <1>1, <1>3, <1>4
<1>9. PICK l \in Nat : l = CMSG_LEN(p[k].n) /\ b < r[k - 1] + l + ALIGN
  BY <1>6, <1>8, TileFacts
<1>10. PICK h \in Nat : h = CMSG_LEN(x.n) /\ 0 < h
  BY LenPositive
<1>11. ASSUME Apart(x, At(p, r, k)) PROVE FALSE
  <2>1. a + h =< r[k - 1] \/ r[k - 1] + l =< a
    BY <1>2, <1>9, <1>10, <1>11 DEF Apart, End, At
  <2>2. r[k - 1] + l =< a /\ r[k - 1] \in Nat
    BY <1>3, <1>6, <1>7, <1>10, <2>1
  <2>3. ALIGN \in Nat
    BY HeaderFacts
  <2>4. 0 < b - a /\ b - a < ALIGN /\ b >= a
    BY <1>3, <1>8, <1>9, <2>2, <2>3
  <2>5. b - a \in Aligned
    BY <2>4, AlignedSums
  <2>6. PICK m \in Nat : b - a = m * ALIGN
    BY <2>5 DEF Aligned
  <2>7. PICK d \in Nat : d = b - a
    BY <1>3, <1>8, <2>4
  <2>8. m # 0
    BY <2>3, <2>4, <2>6, <2>7
  <2>9. ALIGN =< m * ALIGN
    BY <2>3, <2>8
  <2>10. QED
    BY <2>3, <2>4, <2>6, <2>7, <2>9
<1>12. QED
  BY <1>6, <1>11

\* recvmsg leaves what came, or when nothing came what there was.
LEMMA RecvLaid ==
    ASSUME NEW q, NEW o, Laid(q, o), len =< MaxLen, len =< bytes, bytes \in Nat,
           NEW ms \in Seq(Msg), RecvMsg(ms)
    PROVE  \E p, r :
              /\ Takes(len, ms, p, r) /\ got' = p /\ fresh' = TRUE
              /\ len' \in Nat /\ len' =< MaxLen /\ len' =< bytes' /\ bytes' \in Nat
              /\ IF p = <<>> THEN Laid(q, o)' ELSE Laid(p, r)'
<1>1. /\ Tiles(q, o) /\ len = o[Len(q)] /\ Len(q) \in Nat
      /\ data = {At(q, o, k) : k \in 1..Len(q)}
      /\ o \in [0..Len(q) -> Aligned]
  BY DEF Laid, Tiles
<1>2. len \in Aligned /\ len \in Nat
  <2>1. Len(q) \in 0..Len(q)
    BY <1>1
  <2>2. QED
    BY <1>1, <2>1, AlignedSums
<1>3. PICK p, r : Takes(len, ms, p, r)
  BY <1>2, DeliveredTiles
<1>4. PICK d : d = Delivered(ms, len)
  OBVIOUS
<1>5. PICK c \in Nat : c = Len(p)
  BY <1>3 DEF Takes, Tiles
<1>6. /\ Tiles(p, r) /\ DOMAIN d = 1..c /\ p \in Seq(Item)
      /\ \A k \in 1..c : d[k] = At(p, r, k)
      /\ r[c] = len - Rooms(ms, len)[Len(ms)] /\ r[c] =< len
  BY <1>3, <1>4, <1>5 DEF Takes, Tiles
<1>7. r[0] = 0 /\ r[c] \in Nat
  <2>1. c \in 0..Len(p)
    BY <1>5
  <2>2. QED
    BY <1>6, <2>1, TilesGrow DEF Tiles
<1>8. /\ len' = NewLen(r[c])
      /\ data' = {e \in Over(data, {d[k] : k \in DOMAIN d}, bytes) : End(e) =< len'}
      /\ fresh' = TRUE /\ bytes' = bytes
      /\ got' = [k \in DOMAIN d |-> [msg |-> d[k].msg, n |-> d[k].n]]
  BY <1>4, <1>6 DEF RecvMsg
<1>9. got' = p
  <2>1. \A k \in 1..c : p[k] \in Item
    BY <1>5, <1>6, ElementOfSeq
  <2>2. \A k \in 1..c : [msg |-> d[k].msg, n |-> d[k].n] = p[k]
    BY <1>6, <2>1 DEF Item, At
  <2>3. got' = [k \in 1..c |-> p[k]]
    BY <1>6, <1>8, <2>2
  <2>4. p = [k \in 1..c |-> p[k]]
    BY <1>5, <1>6
  <2>5. QED
    BY <2>3, <2>4
<1>10. \A e \in data : End(e) =< len
  BY <1>1, TileEnd
<1>11. CASE p = <<>>
  <2>1. c = 0 /\ r[c] = 0 /\ DOMAIN d = {}
    BY <1>5, <1>6, <1>7, <1>11, EmptySeq
  <2>2. len' = len
    BY <1>8, <2>1 DEF NewLen
  <2>3. {d[k] : k \in DOMAIN d} = {}
    BY <2>1
  <2>4. data' = data
    BY <1>8, <1>10, <2>2, <2>3 DEF Over
  <2>5. Laid(q, o)'
    BY <1>1, <2>2, <2>4 DEF Laid
  <2>6. QED
    BY <1>2, <1>3, <1>8, <1>9, <1>11, <2>2, <2>5
<1>12. CASE p # <<>>
  <2>1. c # 0 /\ r[c] # 0
    <3>1. c # 0
      BY <1>5, <1>6, <1>12, EmptySeq
    <3>2. 0 \in 0..Len(p) /\ c \in 0..Len(p) /\ 0 < c
      BY <1>5, <3>1
    <3>3. r[0] < r[c]
      BY <1>6, <3>2, TilesGrow
    <3>4. QED
      BY <1>7, <3>1, <3>3
  <2>2. len' = r[c]
    BY <1>8, <2>1 DEF NewLen
  <2>3. len' =< len /\ len' \in Nat /\ len' =< bytes /\ len' =< MaxLen
    <3>1. MaxLen \in Nat
      BY LayoutAssumption
    <3>2. QED
      BY <1>2, <1>6, <1>7, <2>2, <3>1
  <2>4. \A k \in 1..c : End(At(p, r, k)) =< len'
    BY <1>5, <1>6, <2>2, TileEnd
  <2>5. \A k \in 1..c : End(At(p, r, k)) =< bytes
    <3> SUFFICES ASSUME NEW k \in 1..c PROVE End(At(p, r, k)) =< bytes
      OBVIOUS
    <3>1. End(At(p, r, k)) \in Nat
      <4>1. r[k - 1] \in Nat /\ CMSG_LEN(p[k].n) \in Nat
        BY <1>5, <1>6, TileFacts
      <4>2. QED
        BY <4>1 DEF End, At
    <3>2. QED
      BY <2>3, <2>4, <3>1
  <2>6. {d[k] : k \in DOMAIN d} = {At(p, r, k) : k \in 1..c}
    BY <1>6
  <2>7. ASSUME NEW e \in data, End(e) =< len' PROVE \E k \in 1..c : ~Apart(e, At(p, r, k))
    <3>1. PICK l \in 1..Len(q) : e = At(q, o, l)
      BY <1>1
    <3>2. /\ o[l - 1] \in Aligned /\ o[l - 1] \in Nat /\ q[l].n \in Nat
          /\ CMSG_LEN(q[l].n) \in Nat /\ 0 < CMSG_LEN(q[l].n)
      <4>1. o[l - 1] \in Nat /\ q[l].n \in Nat /\ l - 1 \in 0..Len(q)
        BY <1>1, TileFacts
      <4>2. QED
        BY <1>1, <4>1, LenPositive
    <3>3. e.off = o[l - 1] /\ e.n = q[l].n /\ End(e) = o[l - 1] + CMSG_LEN(q[l].n)
      BY <3>1 DEF At, End
    <3>4. e.off < r[Len(p)]
      BY <1>5, <1>7, <2>2, <2>7, <3>2, <3>3
    <3>5. QED
      BY <1>5, <1>6, <3>2, <3>3, <3>4, TileOver
  <2>8. data' = {At(p, r, k) : k \in 1..c}
    <3> DEFINE N == {At(p, r, k) : k \in 1..c}
    <3>1. data' = {e \in Over(data, N, bytes) : End(e) =< len'}
      BY <1>8, <2>6
    <3>2. \A e \in data : End(e) =< len' => ~\A n \in N : Apart(e, n)
      BY <2>7
    <3>3. \A n \in N : End(n) =< bytes /\ End(n) =< len'
      BY <2>4, <2>5
    <3> HIDE DEF N
    <3>4. data' = N
      BY <3>1, <3>2, <3>3 DEF Over
    <3>5. QED
      BY <3>4 DEF N
  <2>9. Laid(p, r)'
    BY <1>5, <1>6, <2>2, <2>8 DEF Laid
  <2>10. QED
    BY <1>3, <1>8, <1>9, <1>12, <2>3, <2>9
<1>13. QED
  BY <1>11, <1>12
-----------------------------------------------------------------------------
(* The invariant: the buffer holds a list that is laid out, of what came   *)
(* with the last recvmsg if nothing was done since.                        *)

Holds(q, o) ==
    /\ Laid(q, o)
    /\ fresh /\ got # <<>> => q = got
IInv ==
    /\ TypeOK /\ len =< bytes /\ len =< MaxLen
    /\ \E q, o : Holds(q, o)

LEMMA LaidTypes ==
    ASSUME NEW q, NEW o, Laid(q, o)
    PROVE  data \subseteq [off : Nat, msg : Msg, n : Nat]
<1>1. Tiles(q, o) /\ data = {At(q, o, k) : k \in 1..Len(q)}
  BY DEF Laid
<1>2. ASSUME NEW k \in 1..Len(q) PROVE At(q, o, k) \in [off : Nat, msg : Msg, n : Nat]
  <2>1. o[k - 1] \in Nat /\ q[k].msg \in Msg /\ q[k].n \in Nat
    BY <1>1, TileFacts
  <2>2. QED
    BY <2>1 DEF At
<1>3. QED
  BY <1>1, <1>2

\* LaidTypes and LaidItems, of this state and of the next.
LaidIs == \A q, o : Laid(q, o) => /\ Items = q
                                  /\ data \subseteq [off : Nat, msg : Msg, n : Nat]
LEMMA LaidNow == LaidIs
  BY LaidItems, LaidTypes DEF LaidIs
LEMMA LaidNext == LaidIs'
  BY LaidNow, PTL

\* The list of no items.
LEMMA NoItems == <<>> \in Seq(Item) /\ Len(<<>>) = 0
<1>1. PICK S : S = Item
  OBVIOUS
<1>2. <<>> \in Seq(S) /\ Len(<<>>) = 0
  OBVIOUS
<1>3. QED
  BY <1>1, <1>2

LEMMA InitHolds ==
    ASSUME Init
    PROVE  IInv /\ Holds(<<>>, [k \in 0..0 |-> 0])
<1>1. PICK q, o : q = <<>> /\ o = [k \in 0..0 |-> 0]
  OBVIOUS
<1>2. q \in Seq(Item) /\ Len(q) = 0 /\ o[0] = 0
  BY <1>1
<1>3. o \in [0..Len(q) -> Aligned]
  BY <1>1, <1>2, HeaderFacts
<1>4. Tiles(q, o)
  BY <1>2, <1>3 DEF Tiles
<1>5. Laid(q, o)
  BY <1>2, <1>4 DEF Laid, Init
<1>6. Holds(q, o)
  BY <1>5 DEF Holds, Init
<1>7. TypeOK
  <2>1. out \in Seq(Item) /\ Len(out) =< 1 /\ got \in Seq(Item)
    BY NoItems DEF Init
  <2>2. data = {} /\ bytes = 0 /\ len = 0 /\ fresh = FALSE
    BY DEF Init
  <2>3. QED
    BY <2>1, <2>2 DEF TypeOK
<1>8. len =< bytes /\ len =< MaxLen
  BY LayoutAssumption DEF Init
<1>9. QED
  BY <1>1, <1>6, <1>7, <1>8 DEF IInv

LEMMA PushHolds ==
    ASSUME NEW q, NEW o, IInv, Holds(q, o), NEW m \in Msg, Push(m)
    PROVE  IInv' /\ \E r : Laid(Append(q, [msg |-> m, n |-> Size[m]]), r)'
<1>1. Laid(q, o) /\ len =< bytes /\ bytes \in Nat /\ TypeOK
  BY DEF IInv, TypeOK, Holds
<1>2. PICK r : Laid(Append(q, [msg |-> m, n |-> Size[m]]), r)'
  BY <1>1, PushLaid
<1>3. len' =< bytes' /\ len' \in Nat /\ bytes' \in Nat /\ len' =< MaxLen
  BY <1>1, PushLaid
<1>4. fresh' = FALSE /\ UNCHANGED <<out, got>>
  BY DEF Push
<1>5. data' \subseteq [off : Nat, msg : Msg, n : Nat]
  BY <1>2, LaidNext DEF LaidIs
<1>6. TypeOK'
  BY <1>1, <1>3, <1>4, <1>5 DEF TypeOK
<1>7. Holds(Append(q, [msg |-> m, n |-> Size[m]]), r)'
  BY <1>2, <1>4 DEF Holds
<1>8. QED
  BY <1>2, <1>3, <1>6, <1>7 DEF IInv

LEMMA ShiftHolds ==
    ASSUME NEW q, NEW o, IInv, Holds(q, o), Shift
    PROVE  /\ IInv' /\ q # <<>> /\ out' = <<q[1]>>
           /\ \E r : Laid(Tail(q), r)'
<1>1. Laid(q, o) /\ len =< bytes /\ len =< MaxLen /\ bytes \in Nat /\ TypeOK
  BY DEF IInv, TypeOK, Holds
<1>2. PICK r : Laid(Tail(q), r)'
  BY <1>1, ShiftLaid
<1>3. /\ len' =< bytes' /\ len' \in Nat /\ bytes' \in Nat /\ len' =< MaxLen
      /\ q # <<>> /\ out' = <<q[1]>>
  BY <1>1, ShiftLaid
<1>4. fresh' = FALSE /\ got' = got
  BY DEF Shift
<1>5. data' \subseteq [off : Nat, msg : Msg, n : Nat]
  BY <1>2, LaidNext DEF LaidIs
<1>6. q[1] \in Item
  <2>1. q \in Seq(Item) /\ Len(q) \in Nat
    BY <1>1 DEF Laid, Tiles
  <2>2. 1 \in 1..Len(q)
    BY <1>3, <2>1, EmptySeq
  <2>3. QED
    BY <2>1, <2>2, ElementOfSeq
<1>7. out' \in Seq(Item) /\ Len(out') =< 1
  <2>1. <<q[1]>> \in Seq(Item) /\ Len(<<q[1]>>) = 1
    BY <1>6
  <2>2. QED
    BY <1>3, <2>1
<1>8. TypeOK'
  BY <1>1, <1>3, <1>4, <1>5, <1>7 DEF TypeOK
<1>9. Holds(Tail(q), r)'
  BY <1>2, <1>4 DEF Holds
<1>10. QED
  BY <1>2, <1>3, <1>8, <1>9 DEF IInv

LEMMA ShiftNothingHolds ==
    ASSUME NEW q, NEW o, IInv, Holds(q, o), ShiftNothing
    PROVE  IInv' /\ q = <<>> /\ out' = <<>> /\ Laid(q, o)'
<1>1. Laid(q, o) /\ TypeOK /\ len < HDR /\ len \in Nat
  BY DEF IInv, TypeOK, Holds, ShiftNothing
<1>2. q = <<>>
  <2>1. ~(len >= HDR)
    BY <1>1, HeaderFacts
  <2>2. QED
    BY <1>1, <2>1, RoomIsMessage
<1>3. out' = <<>> /\ fresh' = FALSE /\ UNCHANGED <<data, bytes, len, got>>
  BY DEF ShiftNothing
<1>4. Laid(q, o)'
  BY <1>1, <1>3 DEF Laid
<1>5. TypeOK'
  <2>1. out' \in Seq(Item) /\ Len(out') =< 1
    BY <1>3, NoItems
  <2>2. fresh' = FALSE /\ UNCHANGED <<data, bytes, len, got>>
    BY <1>3
  <2>3. QED
    BY <1>1, <2>1, <2>2 DEF TypeOK
<1>6. Holds(q, o)'
  BY <1>3, <1>4 DEF Holds
<1>7. len' =< bytes' /\ len' =< MaxLen
  BY <1>3 DEF IInv
<1>8. QED
  BY <1>2, <1>3, <1>4, <1>5, <1>6, <1>7 DEF IInv

LEMMA RecvHolds ==
    ASSUME NEW q, NEW o, IInv, Holds(q, o), NEW ms \in Seq(Msg), RecvMsg(ms)
    PROVE  /\ IInv' /\ q # <<>> /\ UNCHANGED out
           /\ \E p, r : Takes(len, ms, p, r) /\ IF p = <<>> THEN Laid(q, o)' ELSE Laid(p, r)'
<1>1. Laid(q, o) /\ len =< bytes /\ len =< MaxLen /\ bytes \in Nat /\ TypeOK
  BY DEF IInv, TypeOK, Holds
<1>2. PICK p, r :
         /\ Takes(len, ms, p, r) /\ got' = p /\ fresh' = TRUE
         /\ len' \in Nat /\ len' =< MaxLen /\ len' =< bytes' /\ bytes' \in Nat
         /\ IF p = <<>> THEN Laid(q, o)' ELSE Laid(p, r)'
  BY <1>1, RecvLaid
<1>3. UNCHANGED out /\ len > 0
  BY DEF RecvMsg
<1>4. q # <<>>
  <2>1. len # 0
    BY <1>1, <1>3 DEF TypeOK
  <2>2. QED
    BY <1>1, <2>1, RoomIsMessage
<1>5. data' \subseteq [off : Nat, msg : Msg, n : Nat]
  <2>1. CASE p = <<>>
    BY <1>2, <2>1, LaidNext DEF LaidIs
  <2>2. CASE p # <<>>
    BY <1>2, <2>2, LaidNext DEF LaidIs
  <2>3. QED
    BY <2>1, <2>2
<1>6. p \in Seq(Item)
  BY <1>2 DEF Takes, Tiles
<1>7. TypeOK'
  BY <1>1, <1>2, <1>3, <1>5, <1>6 DEF TypeOK
<1>8. \E s, t : Holds(s, t)'
  <2>1. CASE p = <<>>
    <3>1. Holds(q, o)'
      BY <1>2, <2>1 DEF Holds
    <3>2. QED
      BY <3>1
  <2>2. CASE p # <<>>
    <3>1. Holds(p, r)'
      BY <1>2, <2>2 DEF Holds
    <3>2. QED
      BY <3>1
  <2>3. QED
    BY <2>1, <2>2
<1>9. IInv'
  BY <1>2, <1>7, <1>8 DEF IInv
<1>10. QED
  BY <1>2, <1>3, <1>4, <1>9

\* Nothing changes.
LEMMA StutterHolds ==
    ASSUME NEW q, NEW o, IInv, Holds(q, o), UNCHANGED vars
    PROVE  IInv' /\ Holds(q, o)'
<1>1. TypeOK'
  BY DEF IInv, TypeOK, vars
<1>2. Holds(q, o)'
  BY DEF Holds, Laid, vars
<1>3. len' =< bytes' /\ len' =< MaxLen
  BY DEF IInv, vars
<1>4. QED
  BY <1>1, <1>2, <1>3 DEF IInv

LEMMA NextHolds ==
    ASSUME IInv, [Next]_vars
    PROVE  IInv'
<1>1. PICK q, o : Holds(q, o)
  BY DEF IInv
<1>2. ASSUME NEW m \in Msg, Push(m) PROVE IInv'
  BY <1>1, <1>2, PushHolds
<1>3. CASE Shift
  BY <1>1, <1>3, ShiftHolds
<1>4. CASE ShiftNothing
  BY <1>1, <1>4, ShiftNothingHolds
<1>5. ASSUME NEW k \in 0..2, NEW ms \in [1..k -> Msg], RecvMsg(ms) PROVE IInv'
  <2>1. ms \in Seq(Msg)
    OBVIOUS
  <2>2. QED
    BY <1>1, <1>5, <2>1, RecvHolds
<1>6. CASE UNCHANGED vars
  BY <1>1, <1>6, StutterHolds
<1>7. QED
  BY <1>2, <1>3, <1>4, <1>5, <1>6 DEF Next

\* The invariant holds at the beginning and every step preserves it.
THEOREM Inductive == Spec => []IInv
<1>1. Init => IInv
  BY InitHolds
<1>2. IInv /\ [Next]_vars => IInv'
  BY NextHolds
<1>3. QED
  BY <1>1, <1>2, PTL DEF Spec

\* The variables keep their types.
THEOREM TypeCorrect == Spec => []TypeOK
<1>1. IInv => TypeOK
  BY DEF IInv
<1>2. QED
  BY <1>1, Inductive, PTL

\* CMSG_FIRSTHDR and CMSG_NXTHDR visit intact messages without a gap up to the end of
\* what is laid out, after any pushes, shifts and deliveries of any sizes: sendmsg
\* passes a well-formed list, and shift never wraps the length around.
THEOREM StaysWellFormed == Spec => []WellFormed
<1>1. IInv => WellFormed
  BY LaidWellFormed DEF IInv, Holds
<1>2. QED
  BY <1>1, Inductive, PTL

\* After a recvmsg that delivered messages the list holds those and nothing else:
\* every message that it held before, and made room for them, is overwritten.
THEOREM HoldsWhatItGot == Spec => []HoldsWhatCame
<1>1. IInv => HoldsWhatCame
  <2>1. SUFFICES ASSUME IInv, fresh, got # <<>> PROVE Items = got
    BY DEF HoldsWhatCame
  <2>2. PICK q, o : Holds(q, o)
    BY <2>1 DEF IInv
  <2>3. Laid(q, o) /\ q = got
    BY <2>1, <2>2 DEF Holds
  <2>4. QED
    BY <2>3, LaidItems
<1>2. QED
  BY <1>1, Inductive, PTL
-----------------------------------------------------------------------------
(* The queue.                                                              *)

LEMMA InitIsQueue ==
    ASSUME Init
    PROVE  Queue!Init
<1>1. PICK o : Holds(<<>>, o)
  BY InitHolds
<1>2. Items = <<>>
  BY <1>1, LaidNow DEF Holds, LaidIs
<1>3. QED
  BY <1>2 DEF Init, Queue!Init

\* Every step is one of the queue or leaves the queue as it is.
LEMMA NextIsQueue ==
    ASSUME IInv, [Next]_vars
    PROVE  [Queue!Next]_(Queue!vars)
<1>1. PICK q, o : Holds(q, o) /\ Items = q
  <2>1. PICK q, o : Holds(q, o)
    BY DEF IInv
  <2>2. QED
    BY <2>1, LaidNow DEF Holds, LaidIs
<1>2. q \in Seq(Item)
  BY <1>1 DEF Holds, Laid, Tiles
<1>3. \A s, t : Laid(s, t)' => Items' = s
  BY LaidNext DEF LaidIs
<1>4. ASSUME NEW m \in Msg, Push(m) PROVE Queue!Next
  <2>1. PICK r : Laid(Append(q, [msg |-> m, n |-> Size[m]]), r)'
    BY <1>1, <1>4, PushHolds
  <2>2. Items' = Append(Items, [msg |-> m, n |-> Size[m]]) /\ UNCHANGED out
    BY <1>1, <1>3, <1>4, <2>1 DEF Push
  <2>3. Queue!Push(m)
    BY <2>2 DEF Queue!Push
  <2>4. QED
    BY <2>3 DEF Queue!Next
<1>5. CASE Shift
  <2>1. PICK r : Laid(Tail(q), r)' /\ q # <<>> /\ out' = <<q[1]>>
    BY <1>1, <1>5, ShiftHolds
  <2>2. Head(q) = q[1]
    BY <1>2, <2>1, HeadTailProperties
  <2>3. Items' = Tail(q)
    BY <1>3, <2>1
  <2>4. Items' = Tail(Items) /\ Items # <<>> /\ out' = <<Head(Items)>>
    BY <1>1, <2>1, <2>2, <2>3
  <2>5. Queue!Shift
    BY <2>4 DEF Queue!Shift
  <2>6. QED
    BY <2>5 DEF Queue!Next
<1>6. CASE ShiftNothing
  <2>1. q = <<>> /\ out' = <<>> /\ Laid(q, o)'
    BY <1>1, <1>6, ShiftNothingHolds
  <2>2. Queue!Shift
    BY <1>1, <1>3, <2>1 DEF Queue!Shift
  <2>3. QED
    BY <2>2 DEF Queue!Next
<1>7. ASSUME NEW k \in 0..2, NEW ms \in [1..k -> Msg], RecvMsg(ms) PROVE Queue!Next
  <2>1. ms \in Seq(Msg)
    OBVIOUS
  <2>2. q # <<>> /\ UNCHANGED out
    BY <1>1, <1>7, <2>1, RecvHolds
  <2>3. PICK p, r : Takes(len, ms, p, r) /\ IF p = <<>> THEN Laid(q, o)' ELSE Laid(p, r)'
    BY <1>1, <1>7, <2>1, RecvHolds
  <2>4. CASE p = <<>>
    <3>1. Items' = Items
      BY <1>1, <1>3, <2>3, <2>4
    <3>2. Queue!RecvMsg(ms)
      BY <1>1, <2>2, <3>1 DEF Queue!RecvMsg
    <3>3. QED
      BY <3>2 DEF Queue!Next
  <2>5. CASE p # <<>>
    <3>1. Items' = p
      BY <1>3, <2>3, <2>5
    <3>2. /\ Len(p) =< Len(ms)
          /\ \A j \in 1..Len(p) : /\ p[j].msg = ms[j] /\ p[j].n =< Size[ms[j]]
                                  /\ j < Len(p) => p[j].n = Size[ms[j]]
      BY <2>3 DEF Takes
    <3>3. Queue!RecvMsg(ms)
      BY <1>1, <2>2, <2>5, <3>1, <3>2 DEF Queue!RecvMsg
    <3>4. QED
      BY <3>3 DEF Queue!Next
  <2>6. QED
    BY <2>4, <2>5
<1>8. CASE UNCHANGED vars
  <2>1. Laid(q, o)'
    BY <1>1, <1>8, StutterHolds DEF Holds
  <2>2. Items' = Items /\ UNCHANGED out
    BY <1>1, <1>3, <1>8, <2>1 DEF vars
  <2>3. QED
    BY <2>2 DEF Queue!vars
<1>9. QED
  BY <1>4, <1>5, <1>6, <1>7, <1>8 DEF Next

\* An llsocket.cmsghdrs is a queue: push adds at the end, shift takes from the front,
\* recvmsg replaces it all with what there is room for, or leaves it alone.
THEOREM IsQueue == Spec => ImplementsQueue
<1>1. Init => Queue!Init
  BY InitIsQueue
<1>2. IInv /\ [Next]_vars => [Queue!Next]_(Queue!vars)
  BY NextIsQueue
<1>3. QED
  BY <1>1, <1>2, Inductive, PTL DEF Spec, ImplementsQueue, Queue!Spec
=============================================================================
