---------------------------- MODULE Mcast_proofs -----------------------------
(***************************************************************************)
(* Proofs about Mcast, for any interfaces, addresses, groups and sources,  *)
(* and any number of changes of the addresses: what the methods report is  *)
(* what the kernel has, and mcastif() names the right interface.           *)
(***************************************************************************)
EXTENDS Mcast, Induction

-----------------------------------------------------------------------------
(* The list of getifaddrs(3).                                              *)

Entries == [name : Link, family : {"packet", "inet", "inet6"}, addr : Addr \cup Link \cup {Nil}]

\* One part of the list: for each interface the entries in f.
Part(f) == FlattenSeq([i \in 1..Len(Links) |-> f[Links[i]]])

\* Its entries are those in f, of all interfaces.
PartOf(p, f) ==
    /\ \A k \in 1..Len(p) : \E l \in Link : \E j \in 1..Len(f[l]) : p[k] = f[l][j]
    /\ \A l \in Link : \A j \in 1..Len(f[l]) : \E k \in 1..Len(p) : p[k] = f[l][j]

LEMMA PartElements ==
    ASSUME NEW f \in [Link -> Seq(Entries)]
    PROVE  Part(f) \in Seq(Entries) /\ PartOf(Part(f), f)
<1> DEFINE ss == [i \in 1..Len(Links) |-> f[Links[i]]]
<1>1. Len(Links) \in Nat
  BY LinkAssumption, LenProperties
<1>2. \A i \in 1..Len(Links) : Links[i] \in Link
  BY DEF Link
<1>3. ss \in Seq(Seq(Entries)) /\ Len(ss) = Len(Links)
  BY <1>1, <1>2
<1>4. \A i \in 1..Len(Links) : ss[i] = f[Links[i]]
  OBVIOUS
<1>5. Part(f) = FlattenSeq(ss)
  BY DEF Part
<1> HIDE DEF ss
<1>6. Part(f) \in Seq(Entries) /\ AreElements(Part(f), ss)
  BY <1>3, <1>5, FlattenElements
<1>7. ASSUME NEW k \in 1..Len(Part(f))
      PROVE  \E l \in Link : \E j \in 1..Len(f[l]) : Part(f)[k] = f[l][j]
  <2>1. PICK i \in 1..Len(ss) : \E j \in 1..Len(ss[i]) : Part(f)[k] = ss[i][j]
    BY <1>6 DEF AreElements
  <2>2. Links[i] \in Link /\ ss[i] = f[Links[i]]
    BY <1>2, <1>3, <1>4
  <2>3. QED
    BY <2>1, <2>2
<1>8. ASSUME NEW l \in Link, NEW j \in 1..Len(f[l])
      PROVE  \E k \in 1..Len(Part(f)) : Part(f)[k] = f[l][j]
  <2>1. PICK i \in 1..Len(Links) : l = Links[i]
    BY DEF Link
  <2>2. i \in 1..Len(ss) /\ j \in 1..Len(ss[i]) /\ ss[i][j] = f[l][j]
    BY <1>3, <1>4, <2>1
  <2>3. QED
    BY <1>6, <2>2 DEF AreElements
<1>9. QED
  BY <1>6, <1>7, <1>8 DEF PartOf

LEMMA FromPart ==
    ASSUME NEW p, NEW f, PartOf(p, f), NEW k \in 1..Len(p)
    PROVE  \E l \in Link : \E j \in 1..Len(f[l]) : p[k] = f[l][j]
BY Zenon DEF PartOf

LEMMA IntoPart ==
    ASSUME NEW p, NEW f, PartOf(p, f), NEW l \in Link, NEW j \in 1..Len(f[l])
    PROVE  \E k \in 1..Len(p) : p[k] = f[l][j]
BY Zenon DEF PartOf

\* The IPv4 entries of the list are the addresses of the interfaces.
Lists(list, v) ==
    /\ \A k \in 1..Len(list) : list[k].family = "inet" =>
          \E j \in 1..Len(v[list[k].name]) : list[k].addr = v[list[k].name][j]
    /\ \A l \in Link : \A j \in 1..Len(v[l]) :
          \E k \in 1..Len(list) : list[k] = Entry(l, "inet", v[l][j])

LEMMA IfListEntries ==
    ASSUME NEW v \in [Link -> Seq(Addr)], NEW bare
    PROVE  IfList(v, bare) \in Seq(Entries) /\ Lists(IfList(v, bare), v)
<1> DEFINE packet == [l \in Link |-> <<Entry(l, "packet", IF l \in bare THEN Nil ELSE l)>>]
           inet == [l \in Link |-> [k \in 1..Len(v[l]) |-> Entry(l, "inet", v[l][k])]]
           inet6 == [l \in Link |-> IF l \in Six THEN <<Entry(l, "inet6", l)>> ELSE <<>>]
           list == IfList(v, bare)
<1>1. \A l \in Link, a \in Addr : /\ Entry(l, "packet", Nil) \in Entries
                                  /\ Entry(l, "packet", l) \in Entries
                                  /\ Entry(l, "inet", a) \in Entries
                                  /\ Entry(l, "inet6", l) \in Entries
  BY DEF Entry, Entries
<1>2. packet \in [Link -> Seq(Entries)]
  BY DEF Entry, Entries
<1>3. inet \in [Link -> Seq(Entries)]
  <2>1. ASSUME NEW l \in Link
        PROVE  [k \in 1..Len(v[l]) |-> Entry(l, "inet", v[l][k])] \in Seq(Entries)
    <3>1. Len(v[l]) \in Nat /\ \A k \in 1..Len(v[l]) : v[l][k] \in Addr
      BY LenProperties, ElementOfSeq
    <3>2. QED
      BY <1>1, <3>1, IsASeq
  <2>2. QED
    BY <2>1
<1>4. inet6 \in [Link -> Seq(Entries)]
  <2>1. \A l \in Link : <<>> \in Seq(Entries) /\ <<Entry(l, "inet6", l)>> \in Seq(Entries)
    BY DEF Entry, Entries
  <2>2. QED
    BY <2>1
<1>5. \A l \in Link : /\ Len(packet[l]) = 1 /\ packet[l][1].family = "packet"
                      /\ \A j \in 1..Len(inet6[l]) : inet6[l][j].family = "inet6"
  BY DEF Entry
<1>6. \A l \in Link : Len(inet[l]) = Len(v[l]) /\
         \A j \in 1..Len(v[l]) : inet[l][j] = Entry(l, "inet", v[l][j])
  BY LenProperties
<1>7. list = Part(packet) \o Part(inet) \o Part(inet6)
  BY DEF IfList, Part
<1> HIDE DEF packet, inet, inet6, list
<1>8. /\ Part(packet) \in Seq(Entries) /\ PartOf(Part(packet), packet)
      /\ Part(inet) \in Seq(Entries) /\ PartOf(Part(inet), inet)
      /\ Part(inet6) \in Seq(Entries) /\ PartOf(Part(inet6), inet6)
  BY <1>2, <1>3, <1>4, PartElements
<1> DEFINE head == Part(packet) \o Part(inet)
<1>9. head \in Seq(Entries) /\ IsUnion(head, Part(packet), Part(inet))
  BY <1>8, ConcatElements
<1>10. list \in Seq(Entries) /\ IsUnion(list, head, Part(inet6))
  <2>1. list = head \o Part(inet6)
    BY <1>7
  <2> HIDE DEF head
  <2>2. QED
    BY <1>8, <1>9, <2>1, ConcatElements
<1> HIDE DEF head
<1>11. ASSUME NEW k \in 1..Len(list), list[k].family = "inet"
       PROVE  \E j \in 1..Len(v[list[k].name]) : list[k].addr = v[list[k].name][j]
  <2>1. CASE \E i \in 1..Len(Part(inet)) : list[k] = Part(inet)[i]
    <3>1. PICK l \in Link : \E j \in 1..Len(inet[l]) : list[k] = inet[l][j]
      <4>1. PICK i \in 1..Len(Part(inet)) : list[k] = Part(inet)[i]
        BY <2>1
      <4>2. QED
        BY <1>8, <4>1, FromPart
    <3>2. PICK j \in 1..Len(v[l]) : list[k] = Entry(l, "inet", v[l][j])
      BY <1>6, <3>1
    <3>3. QED
      BY <3>2 DEF Entry
  <2>2. ~\E i \in 1..Len(Part(packet)) : list[k] = Part(packet)[i]
    <3>1. ASSUME NEW i \in 1..Len(Part(packet)), list[k] = Part(packet)[i] PROVE FALSE
      <4>1. PICK l \in Link : \E j \in 1..Len(packet[l]) : list[k] = packet[l][j]
        BY <1>8, <3>1, FromPart
      <4>2. list[k].family = "packet"
        BY <1>5, <4>1
      <4>3. QED
        BY <1>11, <4>2
    <3>2. QED
      BY <3>1
  <2>3. ~\E i \in 1..Len(Part(inet6)) : list[k] = Part(inet6)[i]
    <3>1. ASSUME NEW i \in 1..Len(Part(inet6)), list[k] = Part(inet6)[i] PROVE FALSE
      <4>1. PICK l \in Link : \E j \in 1..Len(inet6[l]) : list[k] = inet6[l][j]
        BY <1>8, <3>1, FromPart
      <4>2. list[k].family = "inet6"
        BY <1>5, <4>1
      <4>3. QED
        BY <1>11, <4>2
    <3>2. QED
      BY <3>1
  <2>4. QED
    <3>1. CASE \E i \in 1..Len(head) : list[k] = head[i]
      <4>1. PICK i \in 1..Len(head) : list[k] = head[i]
        BY <3>1
      <4>2. \/ \E n \in 1..Len(Part(packet)) : list[k] = Part(packet)[n]
            \/ \E n \in 1..Len(Part(inet)) : list[k] = Part(inet)[n]
        BY <1>9, <4>1 DEF IsUnion
      <4>3. QED
        BY <2>1, <2>2, <4>2
    <3>2. QED
      BY <1>10, <2>3, <3>1 DEF IsUnion
<1>12. ASSUME NEW l \in Link, NEW j \in 1..Len(v[l])
       PROVE  \E k \in 1..Len(list) : list[k] = Entry(l, "inet", v[l][j])
  <2>1. \E i \in 1..Len(Part(inet)) : Part(inet)[i] = Entry(l, "inet", v[l][j])
    <3>1. j \in 1..Len(inet[l]) /\ inet[l][j] = Entry(l, "inet", v[l][j])
      BY <1>6
    <3>2. \E i \in 1..Len(Part(inet)) : Part(inet)[i] = inet[l][j]
      BY <1>8, <3>1, IntoPart
    <3>3. QED
      BY <3>1, <3>2
  <2>2. \E i \in 1..Len(head) : head[i] = Entry(l, "inet", v[l][j])
    BY <1>9, <2>1 DEF IsUnion
  <2>3. QED
    BY <1>10, <2>2 DEF IsUnion
<1>13. QED
  BY <1>10, <1>11, <1>12 DEF list, Lists
-----------------------------------------------------------------------------
(* getifaddrs.                                                             *)

\* What the loop does with the entry e.
Feed(t, e) ==
    IF e.addr = Nil THEN t ELSE [t EXCEPT ![e.name] = AddTo(TableOf(t, e.name), e)]

\* The function that GetIfAddrs defines by recursion, up to its n-th value.
IsTables(f, list, n) ==
    f = [i \in 0..n |-> IF i = 0 THEN [l \in Link |-> Nil] ELSE Feed(f[i - 1], list[i])]

LEMMA TablesExist ==
    ASSUME NEW list, Len(list) \in Nat
    PROVE  \E f : IsTables(f, list, Len(list))
<1> DEFINE P == {n \in Nat : n =< Len(list) => \E f : IsTables(f, list, n)}
<1>1. 0 \in P
  <2>1. IsTables([i \in 0..0 |-> [l \in Link |-> Nil]], list, 0)
    BY DEF IsTables
  <2>2. QED
    BY <2>1
<1>2. ASSUME NEW n \in Nat, n \in P PROVE n + 1 \in P
  <2> SUFFICES ASSUME n + 1 =< Len(list) PROVE \E f : IsTables(f, list, n + 1)
    OBVIOUS
  <2>1. PICK f : IsTables(f, list, n)
    BY <1>2
  <2>2. f = [i \in 0..n |-> IF i = 0 THEN [l \in Link |-> Nil] ELSE Feed(f[i - 1], list[i])]
    BY <2>1 DEF IsTables
  <2> DEFINE g == [i \in 0..(n + 1) |-> IF i = n + 1 THEN Feed(f[n], list[n + 1]) ELSE f[i]]
  <2>3. \A i \in 0..(n + 1) :
           g[i] = IF i = 0 THEN [l \in Link |-> Nil] ELSE Feed(g[i - 1], list[i])
    <3> SUFFICES ASSUME NEW i \in 0..(n + 1)
                 PROVE  g[i] = IF i = 0 THEN [l \in Link |-> Nil] ELSE Feed(g[i - 1], list[i])
      OBVIOUS
    <3>1. CASE i = 0
      BY <2>2, <3>1
    <3>2. CASE i = n + 1
      BY <3>2
    <3>3. CASE i # 0 /\ i # n + 1
      <4>1. i \in 0..n /\ i - 1 \in 0..n /\ i - 1 # n + 1
        BY <3>3
      <4>2. g[i] = f[i] /\ g[i - 1] = f[i - 1]
        BY <3>3, <4>1
      <4>3. f[i] = Feed(f[i - 1], list[i])
        BY <2>2, <3>3, <4>1
      <4>4. QED
        BY <3>3, <4>2, <4>3
    <3>4. QED
      BY <3>1, <3>2, <3>3
  <2>4. IsTables(g, list, n + 1)
    BY <2>3 DEF IsTables
  <2>5. QED
    BY <2>4
<1>3. QED
  <2> HIDE DEF P
  <2>1. Len(list) \in P
    BY <1>1, <1>2, SetInduction
  <2>2. QED
    BY <2>1 DEF P

\* What an entry does to the table x of the interface l, and what a list does: it
\* makes y of x.
FeedOne(x, e, l) ==
    IF e.addr = Nil \/ e.name # l THEN x
    ELSE AddTo(IF x = Nil THEN NewTable ELSE x, e)
IsFed(f, x, list, l) ==
    f[0] = x /\ \A i \in 1..Len(list) : f[i] = FeedOne(f[i - 1], list[i], l)
Makes(x, list, l, y) == \E f : IsFed(f, x, list, l) /\ y = f[Len(list)]

\* Each table is made by the list, one entry after the other.
LEMMA DevicesMade ==
    ASSUME NEW list \in Seq(Entries), NEW l \in Link
    PROVE  Makes(Nil, list, l, GetIfAddrs(list)[l])
<1>1. Len(list) \in Nat /\ \A i \in 1..Len(list) : list[i] \in Entries
  BY LenProperties, ElementOfSeq
<1>2. PICK f : IsTables(f, list, Len(list)) /\ GetIfAddrs(list) = f[Len(list)]
  <2> DEFINE f == CHOOSE f : IsTables(f, list, Len(list))
  <2>1. GetIfAddrs(list) = f[Len(list)]
    BY DEF GetIfAddrs, IsTables, Feed
  <2>2. IsTables(f, list, Len(list))
    BY <1>1, TablesExist
  <2> HIDE DEF f
  <2>3. QED
    BY <2>1, <2>2
<1>3. f[0] = [m \in Link |-> Nil] /\ \A i \in 1..Len(list) : f[i] = Feed(f[i - 1], list[i])
  <2>1. f = [i \in 0..Len(list) |->
                IF i = 0 THEN [m \in Link |-> Nil] ELSE Feed(f[i - 1], list[i])]
    BY <1>2 DEF IsTables
  <2>2. \A i \in 1..Len(list) : i \in 0..Len(list) /\ i # 0
    BY <1>1
  <2>3. QED
    BY <1>1, <2>1, <2>2
<1> DEFINE P == {i \in Nat : i =< Len(list) => DOMAIN f[i] = Link /\ f[i] = [m \in Link |-> f[i][m]]}
<1>4. 0 \in P
  BY <1>3
<1>5. ASSUME NEW i \in Nat, i \in P PROVE i + 1 \in P
  <2> SUFFICES ASSUME i + 1 =< Len(list)
               PROVE  DOMAIN f[i + 1] = Link /\ f[i + 1] = [m \in Link |-> f[i + 1][m]]
    OBVIOUS
  <2>1. PICK j \in 1..Len(list) : j = i + 1 /\ j - 1 = i
    BY <1>1
  <2>2. PICK t : t = f[i] /\ DOMAIN t = Link /\ t = [m \in Link |-> t[m]]
    BY <1>1, <1>5
  <2>3. f[j] = Feed(t, list[j])
    BY <1>3, <2>1, <2>2
  <2>4. f[j] = t \/ f[j] = [t EXCEPT ![list[j].name] = AddTo(TableOf(t, list[j].name), list[j])]
    BY <2>3 DEF Feed
  <2>5. DOMAIN f[j] = Link /\ f[j] = [m \in Link |-> f[j][m]]
    BY <2>2, <2>4
  <2>6. QED
    BY <2>1, <2>5
<1>6. \A i \in 0..Len(list) : DOMAIN f[i] = Link /\ f[i] = [m \in Link |-> f[i][m]]
  <2> HIDE DEF P
  <2>1. Nat \subseteq P
    BY <1>4, <1>5, SetInduction
  <2>2. QED
    BY <1>1, <2>1 DEF P
<1> DEFINE g == [i \in 0..Len(list) |-> f[i][l]]
<1>7. g[0] = Nil /\ g[Len(list)] = GetIfAddrs(list)[l]
  BY <1>1, <1>2, <1>3
<1>8. ASSUME NEW i \in 1..Len(list) PROVE g[i] = FeedOne(g[i - 1], list[i], l)
  <2>1. i \in 0..Len(list) /\ i - 1 \in 0..Len(list)
    BY <1>1
  <2>2. g[i] = f[i][l] /\ g[i - 1] = f[i - 1][l]
    BY <2>1
  <2>3. PICK t : t = f[i - 1] /\ DOMAIN t = Link /\ t = [m \in Link |-> t[m]]
    BY <1>6, <2>1
  <2>4. f[i] = Feed(t, list[i])
    BY <1>3, <2>3
  <2>5. list[i].name \in Link
    BY <1>1 DEF Entries
  <2>6. CASE list[i].addr = Nil
    BY <2>2, <2>3, <2>4, <2>6 DEF Feed, FeedOne
  <2>7. CASE list[i].addr # Nil
    <3>1. f[i] = [t EXCEPT ![list[i].name] = AddTo(TableOf(t, list[i].name), list[i])]
      BY <2>4, <2>7 DEF Feed
    <3>2. CASE list[i].name = l
      <4>1. f[i][l] = AddTo(TableOf(t, l), list[i])
        BY <2>3, <3>1, <3>2
      <4>2. TableOf(t, l) = IF t[l] = Nil THEN NewTable ELSE t[l]
        BY DEF TableOf
      <4>3. QED
        BY <2>2, <2>3, <2>7, <3>2, <4>1, <4>2 DEF FeedOne
    <3>3. CASE list[i].name # l
      <4>1. f[i][l] = t[l]
        BY <2>3, <3>1, <3>3
      <4>2. QED
        BY <2>2, <2>3, <3>3, <4>1 DEF FeedOne
    <3>4. QED
      BY <3>2, <3>3
  <2>8. QED
    BY <2>6, <2>7
<1> HIDE DEF g
<1>9. IsFed(g, Nil, list, l)
  BY <1>7, <1>8 DEF IsFed
<1>10. QED
  BY <1>7, <1>9 DEF Makes

\* A list of two parts makes with the second part of what the first has made.
LEMMA MakesTwo ==
    ASSUME NEW a \in Seq(Entries), NEW b \in Seq(Entries), NEW c, c = a \o b, NEW l, NEW x,
           NEW y, Makes(x, c, l, y)
    PROVE  \E z : Makes(x, a, l, z) /\ Makes(z, b, l, y)
<1>1. /\ Len(a) \in Nat /\ Len(b) \in Nat /\ Len(c) = Len(a) + Len(b)
      /\ \A k \in 1..(Len(a) + Len(b)) : c[k] = IF k =< Len(a) THEN a[k] ELSE b[k - Len(a)]
  BY ConcatProperties, LenProperties
<1>2. PICK f : IsFed(f, x, c, l) /\ y = f[Len(c)]
  BY DEF Makes
<1>3. f[0] = x /\ \A i \in 1..Len(c) : f[i] = FeedOne(f[i - 1], c[i], l)
  BY <1>2 DEF IsFed
<1>4. IsFed(f, x, a, l)
  <2>1. \A i \in 1..Len(a) : i \in 1..Len(c) /\ c[i] = a[i]
    BY <1>1
  <2>2. QED
    BY <1>3, <2>1 DEF IsFed
<1>5. PICK g : g = [i \in 0..Len(b) |-> f[Len(a) + i]]
  OBVIOUS
<1>6. IsFed(g, f[Len(a)], b, l) /\ g[Len(b)] = y
  <2>1. g[0] = f[Len(a)] /\ g[Len(b)] = f[Len(c)]
    BY <1>1, <1>5
  <2>2. ASSUME NEW i \in 1..Len(b) PROVE g[i] = FeedOne(g[i - 1], b[i], l)
    <3>1. PICK k \in 1..Len(c) : k = Len(a) + i /\ k - 1 = Len(a) + (i - 1) /\ k - Len(a) = i
                                 /\ ~(k =< Len(a))
      BY <1>1
    <3>2. f[k] = FeedOne(f[k - 1], b[i], l)
      BY <1>1, <1>3, <3>1
    <3>3. i \in 0..Len(b) /\ i - 1 \in 0..Len(b)
      BY <1>1
    <3>4. g[i] = f[k] /\ g[i - 1] = f[k - 1]
      BY <1>5, <3>1, <3>3
    <3>5. QED
      BY <3>2, <3>4
  <2>3. QED
    BY <1>2, <2>1, <2>2 DEF IsFed
<1>7. QED
  BY <1>4, <1>6 DEF Makes

\* A list of other interfaces' entries makes nothing.
LEMMA MakesNothing ==
    ASSUME NEW list, Len(list) \in Nat, NEW l, NEW x, NEW y, Makes(x, list, l, y),
           \A i \in 1..Len(list) : list[i].name # l
    PROVE  y = x
<1>1. PICK f : f[0] = x /\ y = f[Len(list)]
                 /\ \A i \in 1..Len(list) : f[i] = FeedOne(f[i - 1], list[i], l)
  BY DEF Makes, IsFed
<1> DEFINE P == {i \in Nat : i =< Len(list) => f[i] = x}
<1>2. 0 \in P
  BY <1>1
<1>3. ASSUME NEW i \in Nat, i \in P PROVE i + 1 \in P
  <2> SUFFICES ASSUME i + 1 =< Len(list) PROVE f[i + 1] = x
    OBVIOUS
  <2>1. PICK j \in 1..Len(list) : j = i + 1 /\ j - 1 = i
    OBVIOUS
  <2>2. f[i] = x
    BY <1>3
  <2>3. f[j] = f[j - 1]
    BY <1>1 DEF FeedOne
  <2>4. QED
    BY <2>1, <2>2, <2>3
<1> HIDE DEF P
<1>4. Nat \subseteq P
  BY <1>2, <1>3, SetInduction
<1>5. QED
  BY <1>1, <1>4 DEF P

\* Of a part of the list of getifaddrs only the interface's own entries count.
LEMMA MakesPart ==
    ASSUME NEW f \in [Link -> Seq(Entries)],
           \A m \in Link : \A j \in 1..Len(f[m]) : f[m][j].name = m,
           NEW l \in Link, NEW x, NEW y, Makes(x, Part(f), l, y)
    PROVE  Makes(x, f[l], l, y)
<1>1. PICK ss : ss = [i \in 1..Len(Links) |-> f[Links[i]]]
  OBVIOUS
<1>2. Len(Links) \in Nat /\ \A i \in 1..Len(Links) : Links[i] \in Link
  BY LinkAssumption, LenProperties DEF Link
<1>3. /\ ss \in Seq(Seq(Entries)) /\ Len(ss) = Len(Links)
      /\ \A i \in 1..Len(Links) : ss[i] = f[Links[i]] /\ ss[i] \in Seq(Entries)
  BY <1>1, <1>2
<1>4. Part(f) = FlattenSeq(ss)
  BY <1>1 DEF Part
<1>5. PICK g : IsFlat(g, ss, Entries) /\ Part(f) = g[Len(ss)]
  BY <1>3, <1>4, FlatExists
<1>6. PICK k \in 1..Len(Links) : Links[k] = l
  BY DEF Link
<1> DEFINE Q(n, z) == IF n < k THEN z = x ELSE Makes(x, f[l], l, z)
           P == {n \in Nat : n =< Len(ss) => \A z : Makes(x, g[n], l, z) => Q(n, z)}
<1>7. 0 \in P
  <2>1. g[0] = <<>> /\ Len(g[0]) = 0
    BY <1>5 DEF IsFlat
  <2>2. 0 < k /\ k \in Nat
    BY <1>2, <1>6
  <2>3. ASSUME NEW z, Makes(x, g[0], l, z) PROVE z = x
    BY <2>1, <2>3 DEF Makes, IsFed
  <2>4. QED
    BY <2>2, <2>3
<1>8. ASSUME NEW n \in Nat, n \in P PROVE n + 1 \in P
  <2> SUFFICES ASSUME n + 1 =< Len(ss), NEW z, Makes(x, g[n + 1], l, z) PROVE Q(n + 1, z)
    OBVIOUS
  <2>1. PICK j \in 1..Len(ss) : j = n + 1 /\ j - 1 = n /\ n \in 0..Len(ss)
    BY <1>2, <1>3
  <2>2. g[j] = g[n] \o ss[j] /\ g[n] \in Seq(Entries) /\ ss[j] \in Seq(Entries)
    BY <1>3, <1>5, <2>1 DEF IsFlat
  <2>3. PICK w : Makes(x, g[n], l, w) /\ Makes(w, ss[j], l, z)
    BY <2>1, <2>2, MakesTwo
  <2>4. Q(n, w)
    BY <1>2, <1>3, <1>8, <2>1, <2>3
  <2>5. ss[j] = f[Links[j]] /\ Links[j] \in Link /\ j \in 1..Len(Links)
    BY <1>2, <1>3
  <2>6. CASE j # k
    <3>1. Links[j] # l
      BY <1>6, <2>5, <2>6, LinkAssumption
    <3>2. \A i \in 1..Len(ss[j]) : ss[j][i].name # l
      BY <2>5, <3>1
    <3>3. Len(ss[j]) \in Nat
      BY <2>2, LenProperties
    <3>4. z = w
      BY <2>3, <3>2, <3>3, MakesNothing
    <3>5. n < k <=> n + 1 < k
      BY <1>2, <1>6, <2>1, <2>6
    <3>6. QED
      BY <2>4, <3>4, <3>5
  <2>7. CASE j = k
    <3>1. n < k /\ ~(n + 1 < k)
      BY <1>2, <1>6, <2>1, <2>7
    <3>2. w = x /\ ss[j] = f[l]
      BY <1>6, <2>4, <2>5, <2>7, <3>1
    <3>3. QED
      BY <2>3, <3>1, <3>2
  <2>8. QED
    BY <2>6, <2>7
<1>9. Len(ss) \in P
  <2> HIDE DEF P
  <2>1. Nat \subseteq P
    BY <1>7, <1>8, SetInduction
  <2>2. QED
    BY <1>2, <1>3, <2>1
<1>10. Q(Len(ss), y)
  BY <1>2, <1>3, <1>5, <1>9
<1>11. ~(Len(ss) < k)
  BY <1>2, <1>3, <1>6
<1>12. QED
  BY <1>10, <1>11

\* What each of the three parts makes of the table x of an interface.
LEMMA PacketMakes ==
    ASSUME NEW l \in Link, NEW bare, NEW y,
           Makes(Nil, <<Entry(l, "packet", IF l \in bare THEN Nil ELSE l)>>, l, y)
    PROVE  y = IF l \in bare THEN Nil ELSE [ether |-> TRUE, inet |-> <<>>, inet6 |-> <<>>]
<1>1. PICK e : e = Entry(l, "packet", IF l \in bare THEN Nil ELSE l)
  OBVIOUS
<1>2. e.name = l /\ e.family = "packet" /\ e.addr = IF l \in bare THEN Nil ELSE l
  BY <1>1 DEF Entry
<1>3. y = FeedOne(Nil, e, l)
  <2>1. PICK f, n : /\ f[0] = Nil /\ y = f[n] /\ n = 1 /\ n - 1 = 0
                    /\ f[n] = FeedOne(f[n - 1], <<e>>[n], l)
    BY <1>1 DEF Makes, IsFed
  <2>2. QED
    BY <2>1
<1>4. l # Nil
  BY LinkAssumption
<1>5. CASE l \in bare
  BY <1>2, <1>3, <1>5 DEF FeedOne
<1>6. CASE l \notin bare
  <2>1. y = AddTo(NewTable, e)
    BY <1>2, <1>3, <1>4, <1>6 DEF FeedOne
  <2>2. y = [NewTable EXCEPT !.ether = TRUE]
    BY <1>2, <2>1 DEF AddTo
  <2>3. y = [[ether |-> FALSE, inet |-> <<>>, inet6 |-> <<>>] EXCEPT !.ether = TRUE]
    BY <2>2 DEF NewTable
  <2>4. y = [ether |-> TRUE, inet |-> <<>>, inet6 |-> <<>>]
    BY <2>3
  <2>5. QED
    BY <1>6, <2>4
<1>7. QED
  BY <1>5, <1>6

IsTable(x) == x \in [ether : BOOLEAN, inet : Seq(Addr), inet6 : Seq(Link)]
LEMMA TableIs ==
    ASSUME NEW ether \in BOOLEAN, NEW a \in Seq(Addr), NEW b \in Seq(Link)
    PROVE  /\ IsTable([ether |-> ether, inet |-> a, inet6 |-> b])
           /\ [ether |-> ether, inet |-> a, inet6 |-> b] # Nil
<1>1. PICK t : t = [ether |-> ether, inet |-> a, inet6 |-> b]
  OBVIOUS
<1>2. t \in [ether : BOOLEAN, inet : Seq(Addr), inet6 : Seq(Link)]
  BY <1>1, Zenon
<1>3. IsTable(t)
  BY <1>2, Zenon DEF IsTable
<1>4. t # Nil
  BY <1>2, TableAssumption, Zenon
<1>5. QED
  BY <1>1, <1>3, <1>4

\* A table with nothing but a hardware address, or none.
Fresh(x, ether) ==
    x = IF ether THEN [ether |-> TRUE, inet |-> <<>>, inet6 |-> <<>>] ELSE Nil

InetEntries(l, s) == [k \in 1..Len(s) |-> Entry(l, "inet", s[k])]

LEMMA InetMakes ==
    ASSUME NEW l \in Link, NEW s \in Seq(Addr), NEW ether \in BOOLEAN, NEW x, Fresh(x, ether),
           NEW y, Makes(x, InetEntries(l, s), l, y)
    PROVE  y = IF s = <<>> THEN x ELSE [ether |-> ether, inet |-> s, inet6 |-> <<>>]
<1> DEFINE list == InetEntries(l, s)
<1>1. Len(s) \in Nat /\ \A k \in 1..Len(s) : s[k] \in Addr /\ s[k] # Nil
  BY McastAssumption, LenProperties, ElementOfSeq
<1>2. Len(list) = Len(s) /\ \A k \in 1..Len(s) : list[k] = Entry(l, "inet", s[k])
  BY <1>1 DEF InetEntries
<1> HIDE DEF list
<1>3. Makes(x, list, l, y)
  BY DEF list
<1>4. PICK f : f[0] = x /\ y = f[Len(s)]
                 /\ \A k \in 1..Len(s) : f[k] = FeedOne(f[k - 1], list[k], l)
  BY <1>2, <1>3 DEF Makes, IsFed
<1> DEFINE T(k) == [ether |-> ether, inet |-> SubSeq(s, 1, k), inet6 |-> <<>>]
           P == {k \in Nat : k =< Len(s) => f[k] = IF k = 0 THEN x ELSE T(k)}
<1>5. 0 \in P
  BY <1>4
<1>6. ASSUME NEW k \in Nat, k \in P PROVE k + 1 \in P
  <2> SUFFICES ASSUME k + 1 =< Len(s) PROVE f[k + 1] = T(k + 1)
    OBVIOUS
  <2>1. PICK j \in 1..Len(s) : j = k + 1 /\ j - 1 = k /\ k =< Len(s)
    BY <1>1
  <2>2. f[k] = IF k = 0 THEN x ELSE T(k)
    BY <1>6, <2>1
  <2>3. list[j].name = l /\ list[j].family = "inet" /\ list[j].addr = s[j] /\ s[j] # Nil
    <3>1. list[j] = Entry(l, "inet", s[j]) /\ s[j] # Nil
      BY <1>1, <1>2, Zenon
    <3>2. list[j] = [name |-> l, family |-> "inet", addr |-> s[j]]
      BY <3>1, Zenon DEF Entry
    <3>3. QED
      BY <3>1, <3>2
  <2>4. f[j] = AddTo(IF f[k] = Nil THEN NewTable ELSE f[k], list[j])
    BY <1>4, <2>1, <2>3 DEF FeedOne
  <2>5. PICK b : b = IF f[k] = Nil THEN NewTable ELSE f[k]
    OBVIOUS
  <2>6. SubSeq(s, 1, k) \in Seq(Addr) /\ SubSeq(s, 1, j) = Append(SubSeq(s, 1, k), s[j])
    <3>1. PICK i \in Nat : i = 1
      OBVIOUS
    <3>2. \A n \in i..k : s[n] \in Addr
      BY <1>1, <2>1, <3>1
    <3>3. SubSeq(s, i, k) \in Seq(Addr)
      BY <2>1, <3>1, <3>2, SubSeqProperties
    <3>4. SubSeq(s, i, j) = SubSeq(s, i, j - 1) \o <<s[j]>>
      BY <1>1, <2>1, <3>1, SubSeqRecursiveSecond
    <3>5. SubSeq(s, i, k) \o <<s[j]>> = Append(SubSeq(s, i, k), s[j])
      BY <3>3, <1>1, AppendIsConcat
    <3>6. QED
      BY <2>1, <3>1, <3>3, <3>4, <3>5
  <2>7. <<>> \in Seq(Link)
    OBVIOUS
  <2>8. b = [ether |-> ether, inet |-> SubSeq(s, 1, k), inet6 |-> <<>>]
    <3>1. CASE k # 0
      <4>1. f[k] = T(k)
        BY <2>2, <3>1
      <4>2. T(k) # Nil
        BY <2>6, <2>7, TableIs
      <4>3. QED
        BY <2>5, <4>1, <4>2
    <3>2. CASE k = 0
      <4>1. SubSeq(s, 1, k) = <<>>
        BY <3>2
      <4>2. f[k] = x
        BY <2>2, <3>2
      <4>3. CASE ether
        <5>1. x = T(k)
          BY <4>1, <4>3 DEF Fresh
        <5>2. T(k) # Nil
          BY <2>6, <2>7, TableIs
        <5>3. QED
          BY <2>5, <4>2, <5>1, <5>2
      <4>4. CASE ~ether
        <5>1. x = Nil
          BY <4>4 DEF Fresh
        <5>2. b = NewTable
          BY <2>5, <4>2, <5>1
        <5>3. QED
          BY <4>1, <4>4, <5>2 DEF NewTable
      <4>5. QED
        BY <4>3, <4>4
    <3>3. QED
      BY <3>1, <3>2
  <2>9. f[j] = [b EXCEPT !.inet = Append(@, s[j])]
    <3>1. f[j] = AddTo(b, list[j])
      BY <2>4, <2>5
    <3>2. QED
      BY <2>3, <3>1 DEF AddTo
  <2>10. f[j] = [ether |-> ether, inet |-> SubSeq(s, 1, j), inet6 |-> <<>>]
    BY <2>6, <2>8, <2>9
  <2>11. QED
    BY <2>1, <2>10
<1>7. f[Len(s)] = IF Len(s) = 0 THEN x ELSE T(Len(s))
  <2> HIDE DEF P
  <2>1. Nat \subseteq P
    BY <1>5, <1>6, SetInduction
  <2>2. Len(s) \in P
    BY <1>1, <2>1
  <2>3. Len(s) \in Nat /\ (Len(s) =< Len(s) => f[Len(s)] = IF Len(s) = 0 THEN x ELSE T(Len(s)))
    BY <2>2 DEF P
  <2>4. QED
    BY <2>3
<1>8. SubSeq(s, 1, Len(s)) = s
  BY SubSeqFull
<1>9. Len(s) = 0 <=> s = <<>>
  BY EmptySeq
<1>10. QED
  BY <1>4, <1>7, <1>8, <1>9

LEMMA Inet6Makes ==
    ASSUME NEW l \in Link, NEW x, x # Nil => x.inet6 = <<>> /\ IsTable(x),
           NEW y, Makes(x, IF l \in Six THEN <<Entry(l, "inet6", l)>> ELSE <<>>, l, y)
    PROVE  y = IF l \in Six
               THEN [ether |-> IF x = Nil THEN FALSE ELSE x.ether,
                     inet |-> IF x = Nil THEN <<>> ELSE x.inet, inet6 |-> <<l>>]
               ELSE x
<1>1. CASE l \notin Six
  <2>1. Makes(x, <<>>, l, y)
    BY <1>1
  <2>2. QED
    BY <1>1, <2>1 DEF Makes, IsFed
<1>2. CASE l \in Six
  <2>1. PICK e : e = Entry(l, "inet6", l)
    OBVIOUS
  <2>2. e.name = l /\ e.family = "inet6" /\ e.addr = l /\ l # Nil
    BY <2>1, LinkAssumption DEF Entry
  <2>3. Makes(x, <<e>>, l, y)
    BY <1>2, <2>1
  <2>4. y = FeedOne(x, e, l)
    <3>1. PICK f, n : /\ f[0] = x /\ y = f[n] /\ n = 1 /\ n - 1 = 0
                      /\ f[n] = FeedOne(f[n - 1], <<e>>[n], l)
      BY <2>3 DEF Makes, IsFed
    <3>2. QED
      BY <3>1
  <2>5. PICK b : b = IF x = Nil THEN NewTable ELSE x
    OBVIOUS
  <2>6. y = [b EXCEPT !.inet6 = Append(@, l)]
    <3>1. y = AddTo(b, e)
      BY <2>2, <2>4, <2>5 DEF FeedOne
    <3>2. QED
      BY <2>2, <3>1 DEF AddTo
  <2>7. CASE x = Nil
    <3>1. b = [ether |-> FALSE, inet |-> <<>>, inet6 |-> <<>>]
      BY <2>5, <2>7 DEF NewTable
    <3>2. y = [ether |-> FALSE, inet |-> <<>>, inet6 |-> Append(<<>>, l)]
      BY <2>6, <3>1
    <3>3. Append(<<>>, l) = <<l>>
      OBVIOUS
    <3>4. QED
      BY <1>2, <2>7, <3>2, <3>3
  <2>8. CASE x # Nil
    <3>1. b = [ether |-> x.ether, inet |-> x.inet, inet6 |-> <<>>]
      BY <2>5, <2>8 DEF IsTable
    <3>2. y = [ether |-> x.ether, inet |-> x.inet, inet6 |-> Append(<<>>, l)]
      BY <2>6, <3>1
    <3>3. Append(<<>>, l) = <<l>>
      OBVIOUS
    <3>4. QED
      BY <1>2, <2>8, <3>2, <3>3
  <2>9. QED
    BY <2>7, <2>8
<1>3. QED
  BY <1>1, <1>2

\* The table of every interface that has one.
Complete(devs, v, bare) ==
    \A l \in Link :
       LET six == IF l \in Six THEN <<l>> ELSE <<>> IN
       IF l \in bare /\ v[l] = <<>> /\ six = <<>> THEN devs[l] = Nil
       ELSE devs[l] = [ether |-> l \notin bare, inet |-> v[l], inet6 |-> six]

LEMMA DevicesAre ==
    ASSUME NEW v \in [Link -> Seq(Addr)], NEW bare
    PROVE  Complete(GetIfAddrs(IfList(v, bare)), v, bare)
<1> DEFINE packet == [l \in Link |-> <<Entry(l, "packet", IF l \in bare THEN Nil ELSE l)>>]
           inet == [l \in Link |-> [k \in 1..Len(v[l]) |-> Entry(l, "inet", v[l][k])]]
           inet6 == [l \in Link |-> IF l \in Six THEN <<Entry(l, "inet6", l)>> ELSE <<>>]
           list == IfList(v, bare)
<1>1. \A l \in Link, a \in Addr : /\ Entry(l, "packet", Nil) \in Entries
                                  /\ Entry(l, "packet", l) \in Entries
                                  /\ Entry(l, "inet", a) \in Entries
                                  /\ Entry(l, "inet6", l) \in Entries
  BY DEF Entry, Entries
<1>2. packet \in [Link -> Seq(Entries)]
  BY DEF Entry, Entries
<1>3. inet \in [Link -> Seq(Entries)]
  <2>1. ASSUME NEW l \in Link
        PROVE  [k \in 1..Len(v[l]) |-> Entry(l, "inet", v[l][k])] \in Seq(Entries)
    <3>1. Len(v[l]) \in Nat /\ \A k \in 1..Len(v[l]) : v[l][k] \in Addr
      BY LenProperties, ElementOfSeq
    <3>2. QED
      BY <1>1, <3>1, IsASeq
  <2>2. QED
    BY <2>1
<1>4. inet6 \in [Link -> Seq(Entries)]
  <2>1. \A l \in Link : <<>> \in Seq(Entries) /\ <<Entry(l, "inet6", l)>> \in Seq(Entries)
    BY DEF Entry, Entries
  <2>2. QED
    BY <2>1
<1>5. list = Part(packet) \o Part(inet) \o Part(inet6)
  BY DEF IfList, Part
<1>6. /\ \A m \in Link : \A j \in 1..Len(packet[m]) : packet[m][j].name = m
      /\ \A m \in Link : \A j \in 1..Len(inet6[m]) : inet6[m][j].name = m
  BY DEF Entry
<1>7. \A m \in Link : \A j \in 1..Len(inet[m]) : inet[m][j].name = m
  <2>1. \A m \in Link : Len(v[m]) \in Nat
    BY LenProperties
  <2>2. QED
    BY <2>1 DEF Entry
<1>8. ASSUME NEW l \in Link
      PROVE  /\ packet[l] = <<Entry(l, "packet", IF l \in bare THEN Nil ELSE l)>>
             /\ inet[l] = [k \in 1..Len(v[l]) |-> Entry(l, "inet", v[l][k])]
             /\ inet6[l] = IF l \in Six THEN <<Entry(l, "inet6", l)>> ELSE <<>>
             /\ v[l] \in Seq(Addr)
  OBVIOUS
<1> HIDE DEF packet, inet, inet6, list
<1>9. PICK a, b, c : a = Part(packet) /\ b = Part(inet) /\ c = Part(inet6)
  OBVIOUS
<1>10. a \in Seq(Entries) /\ b \in Seq(Entries) /\ c \in Seq(Entries)
  BY <1>2, <1>3, <1>4, <1>9, PartElements
<1>11. PICK h : h = a \o b /\ h \in Seq(Entries)
  BY <1>10, ConcatProperties
<1>12. list = h \o c /\ list \in Seq(Entries)
  BY <1>5, <1>9, <1>10, <1>11, ConcatProperties
<1> SUFFICES ASSUME NEW l \in Link
             PROVE  LET six == IF l \in Six THEN <<l>> ELSE <<>> IN
                    IF l \in bare /\ v[l] = <<>> /\ six = <<>> THEN GetIfAddrs(list)[l] = Nil
                    ELSE GetIfAddrs(list)[l] =
                            [ether |-> l \notin bare, inet |-> v[l], inet6 |-> six]
  BY DEF Complete, list
<1>13. PICK y : y = GetIfAddrs(list)[l] /\ Makes(Nil, list, l, y)
  BY <1>12, DevicesMade
<1>14. PICK z : Makes(Nil, h, l, z) /\ Makes(z, c, l, y)
  BY <1>10, <1>11, <1>12, <1>13, MakesTwo
<1>15. PICK x : Makes(Nil, a, l, x) /\ Makes(x, b, l, z)
  BY <1>10, <1>11, <1>14, MakesTwo
<1>16. Makes(Nil, packet[l], l, x)
  BY <1>2, <1>6, <1>9, <1>15, MakesPart
<1>17. Makes(x, inet[l], l, z)
  BY <1>3, <1>7, <1>9, <1>15, MakesPart
<1>18. Makes(z, inet6[l], l, y)
  BY <1>4, <1>6, <1>9, <1>14, MakesPart
<1>19. PICK ether \in BOOLEAN : ether <=> l \notin bare
  OBVIOUS
<1>20. Fresh(x, ether)
  <2>1. Makes(Nil, <<Entry(l, "packet", IF l \in bare THEN Nil ELSE l)>>, l, x)
    BY <1>8, <1>16, Zenon
  <2>2. x = IF l \in bare THEN Nil ELSE [ether |-> TRUE, inet |-> <<>>, inet6 |-> <<>>]
    BY <2>1, PacketMakes, Zenon
  <2>3. QED
    BY <1>19, <2>2 DEF Fresh
<1>21. z = IF v[l] = <<>> THEN x ELSE [ether |-> ether, inet |-> v[l], inet6 |-> <<>>]
  <2>1. PICK s \in Seq(Addr) : s = v[l]
    BY <1>8
  <2>2. PICK part : part = inet[l]
    OBVIOUS
  <2>3. part = InetEntries(l, s)
    BY <1>8, <2>1, <2>2, Zenon DEF InetEntries
  <2>4. Makes(x, InetEntries(l, s), l, z)
    BY <1>17, <2>2, <2>3
  <2>5. z = IF s = <<>> THEN x ELSE [ether |-> ether, inet |-> s, inet6 |-> <<>>]
    BY <1>20, <2>4, InetMakes
  <2>6. QED
    BY <2>1, <2>5
<1>22. z # Nil => z.inet6 = <<>> /\ IsTable(z)
  <2>1. <<>> \in Seq(Link) /\ <<>> \in Seq(Addr)
    OBVIOUS
  <2>2. /\ IsTable([ether |-> ether, inet |-> v[l], inet6 |-> <<>>])
        /\ IsTable([ether |-> TRUE, inet |-> <<>>, inet6 |-> <<>>])
    BY <1>8, <2>1, TableIs, Zenon
  <2>3. \/ z = Nil \/ z = [ether |-> TRUE, inet |-> <<>>, inet6 |-> <<>>]
        \/ z = [ether |-> ether, inet |-> v[l], inet6 |-> <<>>]
    BY <1>20, <1>21 DEF Fresh
  <2>4. IsTable(z) \/ z = Nil
    BY <2>2, <2>3, Zenon
  <2>5. z.inet6 = <<>> \/ z = Nil
    BY <2>3
  <2>6. QED
    BY <2>4, <2>5
<1>23. y = IF l \in Six
           THEN [ether |-> IF z = Nil THEN FALSE ELSE z.ether,
                 inet |-> IF z = Nil THEN <<>> ELSE z.inet, inet6 |-> <<l>>]
           ELSE z
  <2>1. Makes(z, IF l \in Six THEN <<Entry(l, "inet6", l)>> ELSE <<>>, l, y)
    BY <1>8, <1>18, Zenon
  <2>2. QED
    BY <1>22, <2>1, Inet6Makes, Zenon
<1>24. z = IF ~ether /\ v[l] = <<>> THEN Nil
           ELSE [ether |-> ether, inet |-> v[l], inet6 |-> <<>>]
  BY <1>20, <1>21 DEF Fresh
<1>25. [ether |-> ether, inet |-> v[l], inet6 |-> <<>>] # Nil
  <2>1. <<>> \in Seq(Link)
    OBVIOUS
  <2>2. QED
    BY <1>8, <2>1, TableIs, Zenon
<1>26. CASE ~ether /\ v[l] = <<>>
  <2>1. z = Nil
    BY <1>24, <1>26
  <2>2. QED
    BY <1>13, <1>19, <1>23, <1>26, <2>1
<1>27. CASE ether \/ v[l] # <<>>
  <2>1. z = [ether |-> ether, inet |-> v[l], inet6 |-> <<>>] /\ z # Nil
    BY <1>24, <1>25, <1>27
  <2>2. z.ether = ether /\ z.inet = v[l]
    BY <2>1
  <2>3. CASE l \in Six
    <3>1. y = [ether |-> ether, inet |-> v[l], inet6 |-> <<l>>]
      BY <1>23, <2>1, <2>2, <2>3
    <3>2. QED
      BY <1>13, <1>19, <2>3, <3>1
  <2>4. CASE l \notin Six
    <3>1. y = [ether |-> ether, inet |-> v[l], inet6 |-> <<>>]
      BY <1>23, <2>1, <2>4
    <3>2. QED
      BY <1>13, <1>19, <1>27, <2>4, <3>1
  <2>5. QED
    BY <2>3, <2>4
<1>28. QED
  BY <1>26, <1>27

-----------------------------------------------------------------------------
(* Memberships and filters.                                                *)

Requests == {"join", "leave", "joinsrc", "leavesrc", "blocksrc", "unblocksrc"}

\* For both families the option of a method asks for what the method is for.
LEMMA RightOption ==
    ASSUME NEW m \in Method
    PROVE  Request(Option(m)) = Purpose[m] /\ Purpose[m] \in Requests
<1>1. CASE IsV4
  BY <1>1 DEF Method, Request, Option, Purpose, Requests
<1>2. CASE ~IsV4
  BY <1>2 DEF Method, Request, Option, Purpose, Requests
<1>3. QED
  BY <1>1, <1>2

LEMMA AfterRules ==
    ASSUME NEW req \in Requests, NEW g \in Group, NEW x \in Source, NEW l \in Link,
           NEW rs, \A r \in rs : IsRule(r)
    PROVE  \A r \in After(req, g, x, l, rs) : IsRule(r)
<1>1. /\ IsRule(Rule("member", g, Nil, l))
      /\ IsRule(Rule("include", g, x, l)) /\ IsRule(Rule("exclude", g, x, l))
  BY DEF Rule, IsRule
<1>2. \A r \in After(req, g, x, l, rs) :
         r \in rs \/ r \in {Rule("member", g, Nil, l), Rule("include", g, x, l), Rule("exclude", g, x, l)}
  BY DEF Requests, After, Without
<1>3. QED
  BY <1>1, <1>2

\* Every filter has its membership.
Members(rs) == \A r \in rs : Rule("member", r.grp, Nil, r.link) \in rs

LEMMA AfterMembers ==
    ASSUME NEW req \in Requests, NEW g \in Group, NEW x \in Source, NEW l \in Link,
           Members(rules), \A r \in rules : IsRule(r), Grants(req, g, x, l)
    PROVE  Members(After(req, g, x, l, rules))
<1> DEFINE member == Rule("member", g, Nil, l)
           include == Rule("include", g, x, l)
           exclude == Rule("exclude", g, x, l)
<1>1. /\ member.grp = g /\ member.link = l /\ member.kind = "member"
      /\ include.grp = g /\ include.link = l /\ include.kind = "include"
      /\ exclude.grp = g /\ exclude.link = l /\ exclude.kind = "exclude"
  BY DEF Rule
<1>2. \A r : /\ Rule("member", r.grp, Nil, r.link).grp = r.grp
             /\ Rule("member", r.grp, Nil, r.link).link = r.link
             /\ Rule("member", r.grp, Nil, r.link).kind = "member"
  BY DEF Rule
<1>3. \A r : r.grp = g /\ r.link = l => Rule("member", r.grp, Nil, r.link) = member
  OBVIOUS
<1> HIDE DEF member, include, exclude
<1>4. CASE req = "join"
  <2>1. After(req, g, x, l, rules) = rules \cup {member}
    BY <1>4 DEF After, member
  <2>2. QED
    BY <1>1, <1>3, <2>1 DEF Members
<1>5. CASE req = "joinsrc"
  <2>1. After(req, g, x, l, rules) = rules \cup {member, include}
    BY <1>5 DEF After, member, include
  <2>2. QED
    BY <1>1, <1>3, <2>1 DEF Members
<1>6. ASSUME After(req, g, x, l, rules) = Without(g, l, rules)
      PROVE  Members(After(req, g, x, l, rules))
  BY <1>2, <1>6 DEF Without, Members
<1>7. CASE req = "leavesrc"
  <2>1. CASE Of("include", g, l, rules) = {include}
    BY <1>6, <1>7, <2>1 DEF After, include
  <2>2. CASE Of("include", g, l, rules) # {include}
    <3>1. After(req, g, x, l, rules) = rules \ {include}
      BY <1>7, <2>2 DEF After, include
    <3>2. QED
      BY <1>1, <1>2, <3>1 DEF Members
  <2>3. QED
    BY <2>1, <2>2
<1>8. CASE req = "blocksrc"
  <2>1. After(req, g, x, l, rules) = rules \cup {exclude}
    BY <1>8 DEF After, exclude
  <2>2. PICK r \in rules : r.grp = g /\ r.link = l
    BY <1>8 DEF Grants, Of
  <2>3. member \in rules
    BY <1>3, <2>2 DEF Members
  <2>4. QED
    BY <1>1, <1>3, <2>1, <2>3 DEF Members
<1>9. CASE req = "unblocksrc"
  <2>1. After(req, g, x, l, rules) = rules \ {exclude}
    BY <1>9 DEF After, exclude
  <2>2. QED
    BY <1>1, <1>2, <2>1 DEF Members
<1>10. CASE req = "leave"
  BY <1>6, <1>10 DEF After
<1>11. QED
  BY <1>4, <1>5, <1>7, <1>8, <1>9, <1>10 DEF Requests
-----------------------------------------------------------------------------
(* The invariant: one lemma per action.                                    *)

LEMMA InitIInv == Init => IInv
<1> SUFFICES ASSUME Init PROVE IInv
  OBVIOUS
<1>1. \A l \in Link : v4[l] = <<>> /\ Len(v4[l]) = 0
  BY EmptySeq DEF Init
<1>2. AddressesOK
  BY <1>1 DEF Init, AddressesOK
<1>3. TypeOK
  <2>1. 0 \in 0..MaxChanges /\ opt \in [{"loop", "ttl"} -> 0..1]
    BY McastAssumption DEF Init
  <2>2. \A l \in Link : Len(v4[l]) =< MaxChanges /\ \A i \in 1..Len(v4[l]) : v4[l][i] \in Addr
    BY <1>1, McastAssumption
  <2>3. /\ \A r \in rules \cup want : IsRule(r)
        /\ \A r \in rules : Rule("member", r.grp, Nil, r.link) \in rules
    BY DEF Init
  <2>4. out.link \in Link \cup {Nil} /\ out.addr \in Addr \cup {ANY}
    BY DEF Init, NoOut
  <2>5. QED
    BY <2>1, <2>2, <2>3, <2>4 DEF Init, TypeOK
<1>4. QED
  BY <1>2, <1>3 DEF Init, IInv, CallOK, AsNamed, NoOut

\* The actions that leave the addresses and the kernel's side alone, as far as
\* the invariant is concerned.
LEMMA QuietIInv ==
    ASSUME IInv, UNCHANGED <<setup, v4, changes, rules, out, hist>>, CallOK',
           call' # Nil => Supported, opt' \in [{"loop", "ttl"} -> 0..1], was' \in {0, 1, Nil},
           told' \in Link \cup {Nil}, crashed' \in BOOLEAN
    PROVE  IInv'
BY DEF IInv, TypeOK, AddressesOK, AsNamed, Supported, hist, On, IsRule, Rule, NoOut

\* Somebody adds or removes an address: a call in between is raced by it.
LEMMA ChangeIInv ==
    ASSUME IInv, NEW l \in Link, NEW s \in Seq(Addr), Change(l, s),
           Len(s) =< Len(v4[l]) + 1,
           \A i, j \in 1..Len(s) : s[i] = s[j] => i = j,
           \A i \in 1..Len(s) : \A m \in Link \ {l} : ~On(m, s[i])
    PROVE  IInv'
<1>1. /\ TypeOK /\ AddressesOK /\ CallOK /\ AsNamed
      /\ v4' = [v4 EXCEPT ![l] = s] /\ changes' = changes + 1 /\ changes < MaxChanges
      /\ raced' = (raced \/ (IsV4 /\ call # Nil))
      /\ UNCHANGED <<setup, call, rules, out, opt, was, want, wantOut, told, dev, crashed>>
  BY DEF IInv, Change, sock
<1>2. /\ v4 \in [Link -> Seq(Addr)] /\ MaxChanges \in Nat /\ changes \in 0..MaxChanges
      /\ \A m \in Link : Len(v4[m]) \in Nat /\ Len(v4[m]) =< changes
      /\ Len(s) \in Nat
  BY <1>1, McastAssumption, LenProperties DEF AddressesOK, TypeOK
<1>3. \A m \in Link : v4'[m] = IF m = l THEN s ELSE v4[m]
  BY <1>1, <1>2
<1>4. v4' \in [Link -> Seq(Addr)] /\ changes' \in 0..MaxChanges
  BY <1>1, <1>2
<1>5. \A m \in Link : Len(v4'[m]) =< changes'
  BY <1>1, <1>2, <1>3
<1>6. ASSUME NEW m \in Link, NEW n \in Link, NEW i \in 1..Len(v4'[m]), NEW j \in 1..Len(v4'[n]),
             v4'[m][i] = v4'[n][j]
      PROVE  m = n /\ i = j
  <2>1. CASE m = l /\ n = l
    BY <1>3, <1>6, <2>1
  <2>2. CASE m = l /\ n # l
    <3>1. v4'[m] = s /\ v4'[n] = v4[n]
      BY <1>3, <2>2
    <3>2. QED
      BY <1>6, <2>2, <3>1 DEF On
  <2>3. CASE m # l /\ n = l
    <3>1. v4'[m] = v4[m] /\ v4'[n] = s
      BY <1>3, <2>3
    <3>2. QED
      BY <1>6, <2>3, <3>1 DEF On
  <2>4. CASE m # l /\ n # l
    BY <1>1, <1>3, <1>6, <2>4 DEF AddressesOK
  <2>5. QED
    BY <2>1, <2>2, <2>3, <2>4
<1>7. AddressesOK'
  BY <1>4, <1>5, <1>6 DEF AddressesOK
<1>8. CallOK'
  BY <1>1 DEF CallOK, Supported, IsV4, TypeOK
<1>9. TypeOK'
  <2>1. \A m \in Link : Len(v4'[m]) =< MaxChanges /\ \A i \in 1..Len(v4'[m]) : v4'[m][i] \in Addr
    <3>1. \A m \in Link : Len(v4'[m]) \in Nat /\ v4'[m] \in Seq(Addr)
      BY <1>4, LenProperties
    <3>2. QED
      BY <1>2, <1>4, <1>5, <3>1, ElementOfSeq
  <2>2. raced' \in BOOLEAN
    BY <1>1 DEF TypeOK, IsV4
  <2>3. QED
    BY <1>1, <1>4, <2>1, <2>2 DEF TypeOK, IsRule
<1>10. AsNamed' /\ (out'.link = Nil => out'.addr = ANY)
  BY <1>1 DEF AsNamed, IInv
<1>11. QED
  BY <1>7, <1>8, <1>9, <1>10 DEF IInv

LEMMA AddAddrIInv ==
    ASSUME IInv, NEW l \in Link, NEW a \in Addr, AddAddr(l, a)
    PROVE  IInv'
<1> DEFINE s == Append(v4[l], a)
<1>1. v4[l] \in Seq(Addr) /\ Len(v4[l]) \in Nat /\ ~Used(a) /\ Change(l, s) /\ AddressesOK
  BY LenProperties DEF IInv, AddressesOK, AddAddr
<1>2. /\ s \in Seq(Addr) /\ Len(s) = Len(v4[l]) + 1
      /\ s[Len(v4[l]) + 1] = a
      /\ \A i \in 1..Len(v4[l]) : s[i] = v4[l][i]
  BY <1>1, AppendProperties
<1> HIDE DEF s
<1>3. \A i \in 1..Len(s) : i \in 1..Len(v4[l]) \/ (i = Len(s) /\ s[i] = a)
  BY <1>1, <1>2
<1>4. \A i \in 1..Len(v4[l]) : s[i] # a
  BY <1>1, <1>2 DEF Used, On
<1>5. \A i, j \in 1..Len(s) : s[i] = s[j] => i = j
  BY <1>1, <1>2, <1>3, <1>4 DEF AddressesOK
<1>6. ASSUME NEW i \in 1..Len(s), NEW m \in Link \ {l} PROVE ~On(m, s[i])
  BY <1>1, <1>2, <1>3 DEF AddressesOK, On, Used
<1>7. Len(s) =< Len(v4[l]) + 1
  BY <1>1, <1>2
<1>8. QED
  BY <1>1, <1>2, <1>5, <1>6, <1>7, ChangeIInv

LEMMA DelAddrIInv ==
    ASSUME IInv, NEW l \in Link, DelAddr(l)
    PROVE  IInv'
<1>1. PICK n \in 1..Len(v4[l]) : Change(l, RemoveAt(v4[l], n))
  BY DEF DelAddr
<1> DEFINE t == v4[l]
           s == RemoveAt(t, n)
<1>2. t \in Seq(Addr) /\ Len(t) \in Nat /\ AddressesOK
  BY LenProperties DEF IInv, AddressesOK
<1>3. /\ s \in Seq(Addr) /\ Len(s) = Len(t) - 1
      /\ \A i \in 1..Len(s) : s[i] = t[IF i < n THEN i ELSE i + 1]
  BY <1>2, RemoveAtElements
<1>4. \A i, j \in 1..Len(t) : t[i] = t[j] => i = j
  BY <1>2 DEF AddressesOK
<1> HIDE DEF s
<1>5. \A i \in 1..Len(s) : (IF i < n THEN i ELSE i + 1) \in 1..Len(t)
  BY <1>2, <1>3
<1>6. ASSUME NEW i \in 1..Len(s), NEW j \in 1..Len(s), s[i] = s[j] PROVE i = j
  <2>1. (IF i < n THEN i ELSE i + 1) = (IF j < n THEN j ELSE j + 1)
    BY <1>3, <1>4, <1>5, <1>6
  <2>2. QED
    BY <1>2, <1>3, <2>1
<1>7. ASSUME NEW i \in 1..Len(s), NEW m \in Link \ {l} PROVE ~On(m, s[i])
  <2>1. PICK k \in 1..Len(t) : s[i] = t[k]
    BY <1>3, <1>5
  <2>2. On(l, t[k])
    BY <2>1 DEF On
  <2>3. t[k] \in Addr
    BY <1>2, ElementOfSeq
  <2>4. QED
    BY <1>2, <2>1, <2>2, <2>3 DEF AddressesOK, On
<1>8. Len(s) =< Len(t) + 1
  BY <1>2, <1>3
<1>9. QED
  BY <1>1, <1>3, <1>6, <1>7, <1>8, ChangeIInv DEF s

\* What a call holds has been the interface's at this moment.
LEMMA ResolveFacts ==
    ASSUME AddressesOK, NEW l \in Link \cup {Nil}, NEW i \in Resolve(l)
    PROVE  /\ ~IsV4 => i = l
           /\ IsV4 /\ l = Nil => i = ANY
           /\ IsV4 /\ l # Nil => i \in Addr /\ On(l, i)
<1>1. CASE ~IsV4
  BY <1>1 DEF Resolve
<1>2. CASE IsV4 /\ l = Nil
  BY <1>2 DEF Resolve
<1>3. CASE IsV4 /\ l # Nil
  <2>1. v4[l] \in Seq(Addr) /\ v4[l] # <<>> /\ i = Head(v4[l])
    BY <1>3 DEF Resolve, AddressesOK
  <2>2. i = v4[l][1] /\ i \in Addr /\ 1 \in 1..Len(v4[l])
    BY <2>1
  <2>3. QED
    BY <1>3, <2>2 DEF On
<1>4. QED
  BY <1>1, <1>2, <1>3

LEMMA EnterIInv ==
    ASSUME IInv, NEW m \in Method, NEW g \in Group, NEW x \in Source,
           NEW l \in Link \cup {Nil}, Enter(m, g, x, l)
    PROVE  IInv'
<1>1. PICK i \in Resolve(l) : call' = [m |-> m, grp |-> g, src |-> x, name |-> l, id |-> i]
  BY DEF Enter
<1>2. UNCHANGED <<setup, v4, changes, sock, hist, told, crashed>> /\ Supported /\ AddressesOK
  BY DEF Enter, IInv
<1>3. CallOK'
  BY <1>1, <1>2, ResolveFacts DEF CallOK, Supported, IsV4, On
<1>4. QED
  BY <1>2, <1>3, QuietIInv DEF IInv, TypeOK, sock

\* The kernel's interface is the one that the script named.
LEMMA DeviceNamed ==
    ASSUME IInv, call # Nil, NEW l \in DeviceFor(call.id)
    PROVE  /\ l \in Link \cup {Nil}
           /\ call.id \notin {ANY, Nil} => l \in Link
           /\ ~raced /\ call.name # Nil => l = call.name
<1>1. CallOK /\ AddressesOK /\ call.name \in Link \cup {Nil}
  BY DEF IInv, CallOK
<1>2. CASE ~IsV4
  BY <1>1, <1>2, McastAssumption DEF DeviceFor, CallOK
<1>3. CASE IsV4 /\ call.name = Nil
  BY <1>1, <1>3 DEF DeviceFor, CallOK
<1>4. CASE IsV4 /\ call.name # Nil
  <2>1. call.id \in Addr /\ call.id \notin {ANY, Nil} /\ call.name \in Link
    BY <1>1, <1>4, McastAssumption DEF CallOK
  <2>2. l \in Link /\ On(l, call.id)
    BY <1>4, <2>1 DEF DeviceFor
  <2>3. ~raced => On(call.name, call.id)
    BY <1>1, <1>4 DEF CallOK
  <2>4. ~raced => l = call.name
    BY <1>1, <2>1, <2>2, <2>3 DEF On, AddressesOK
  <2>5. QED
    BY <2>2, <2>4
<1>5. QED
  BY <1>2, <1>3, <1>4

\* Without a name the kernel still chooses an interface that exists.
LEMMA DeviceExists ==
    ASSUME IInv, call # Nil, NEW l \in DeviceFor(call.id)
    PROVE  l \in Link
<1>1. CASE call.id \in {ANY, Nil}
  BY <1>1 DEF DeviceFor
<1>2. CASE call.id \notin {ANY, Nil}
  BY <1>2, DeviceNamed
<1>3. QED
  BY <1>1, <1>2

LEMMA CommitIInv ==
    ASSUME IInv, Commit
    PROVE  IInv'
<1>1. /\ call # Nil /\ call.m \in Method /\ call' = Nil
      /\ UNCHANGED <<setup, v4, changes, out, opt, was, wantOut, raced, told, dev, crashed>>
      /\ TypeOK /\ AddressesOK /\ CallOK /\ AsNamed
  BY DEF Commit, IInv
<1>2. /\ \A r \in rules' \cup want' : IsRule(r)
      /\ Members(rules')
      /\ ~raced => rules' = want'
  <2>1. CASE UNCHANGED <<rules, want>>
    BY <1>1, <2>1 DEF TypeOK, AsNamed, Members
  <2>2. ASSUME NEW l \in DeviceFor(call.id),
               Grants(Request(Option(call.m)), call.grp, call.src, l),
               rules' = After(Request(Option(call.m)), call.grp, call.src, l, rules),
               want' = After(Purpose[call.m], call.grp, call.src,
                             IF call.name = Nil THEN l ELSE call.name, want)
        PROVE  /\ \A r \in rules' \cup want' : IsRule(r)
               /\ Members(rules')
               /\ ~raced => rules' = want'
    <3> DEFINE req == Request(Option(call.m))
               named == IF call.name = Nil THEN l ELSE call.name
    <3>1. req = Purpose[call.m] /\ req \in Requests
      BY <1>1, RightOption
    <3>2. call.grp \in Group /\ call.src \in Source
      BY <1>1 DEF CallOK, Method
    <3>3. l \in Link /\ named \in Link /\ (~raced => named = l)
      BY <1>1, DeviceExists, DeviceNamed DEF CallOK
    <3>4. /\ \A r \in rules : IsRule(r)
          /\ \A r \in want : IsRule(r)
          /\ Members(rules)
      BY <1>1 DEF TypeOK, Members
    <3>5. rules' = After(req, call.grp, call.src, l, rules)
      BY <2>2
    <3>6. want' = After(req, call.grp, call.src, named, want)
      BY <2>2, <3>1
    <3>7. Grants(req, call.grp, call.src, l)
      BY <2>2
    <3> HIDE DEF req, named
    <3>8. Members(rules')
      BY <3>1, <3>2, <3>3, <3>4, <3>5, <3>7, AfterMembers
    <3>9. \A r \in rules' : IsRule(r)
      BY <3>1, <3>2, <3>3, <3>4, <3>5, AfterRules
    <3>10. \A r \in want' : IsRule(r)
      BY <3>1, <3>2, <3>3, <3>4, <3>6, AfterRules
    <3>11. ~raced => rules' = want'
      BY <1>1, <3>3, <3>5, <3>6 DEF AsNamed
    <3>12. QED
      BY <3>8, <3>9, <3>10, <3>11
  <2>3. QED
    BY <2>1, <2>2 DEF Commit
<1>3. setup.socktype \in {"dgram", "raw"} /\ setup.family \in {"inet", "inet6"}
  BY <1>1 DEF CallOK, Supported
<1>4. TypeOK'
  BY <1>1, <1>2, <1>3 DEF TypeOK, Members, IsRule
<1>5. QED
  BY <1>1, <1>2, <1>4 DEF IInv, AddressesOK, CallOK, AsNamed

\* The interface that mcastif() finds for an address is the one that has it.
LEMMA OutNameFacts ==
    ASSUME IInv
    PROVE  /\ OutName \in Link \cup {Nil}
           /\ OutName # out.link => IsV4 /\ out.link # Nil /\ ~On(out.link, out.addr)
<1>1. CASE ~IsV4
  BY <1>1 DEF OutName, IInv, TypeOK
<1>2. CASE IsV4
  <2> DEFINE list == IfList(v4, setup.bare)
             hits == {i \in 1..Len(list) : list[i].family = "inet" /\ list[i].addr = out.addr}
             n == FirstWith(list, out.addr)
  <2>1. v4 \in [Link -> Seq(Addr)] /\ AddressesOK
    BY DEF IInv, AddressesOK
  <2>2. list \in Seq(Entries) /\ Lists(list, v4)
    BY <2>1, IfListEntries
  <2>3. OutName = IF n = 0 THEN Nil ELSE list[n].name
    BY <1>2 DEF OutName
  <2>4. IF hits = {} THEN n = 0 ELSE n \in hits
    <3>1. CASE hits = {}
      BY <3>1 DEF FirstWith
    <3>2. CASE hits # {}
      <4>1. hits \in SUBSET Nat
        OBVIOUS
      <4>2. \E i \in hits : \A j \in hits : i =< j
        BY <3>2, <4>1, LeastElement
      <4>3. n = CHOOSE i \in hits : \A j \in hits : i =< j
        BY <3>2 DEF FirstWith
      <4> HIDE DEF hits, n
      <4>4. QED
        BY <3>2, <4>2, <4>3
    <3>3. QED
      BY <3>1, <3>2
  <2> HIDE DEF list, n
  <2>5. ASSUME hits # {}
        PROVE  /\ n # 0 /\ list[n].name \in Link /\ On(list[n].name, out.addr)
               /\ out.addr # ANY
    <3>1. n \in 1..Len(list) /\ list[n].family = "inet" /\ list[n].addr = out.addr /\ n # 0
      BY <2>4, <2>5
    <3>2. list[n] \in Entries
      BY <2>2, <3>1, ElementOfSeq
    <3>3. list[n].name \in Link
      BY <3>2 DEF Entries
    <3>4. On(list[n].name, out.addr)
      BY <2>2, <3>1 DEF On, Lists
    <3>5. out.addr \in Addr
      BY <2>1, <3>3, <3>4, ElementOfSeq DEF On
    <3>6. QED
      BY <3>1, <3>3, <3>4, <3>5, McastAssumption
  <2>6. ASSUME hits = {} PROVE \A l \in Link : ~On(l, out.addr)
    <3> SUFFICES ASSUME NEW l \in Link, NEW j \in 1..Len(v4[l]), v4[l][j] = out.addr PROVE FALSE
      BY DEF On
    <3>1. PICK k \in 1..Len(list) : list[k] = Entry(l, "inet", out.addr)
      BY <2>2 DEF Lists
    <3>2. k \in hits
      BY <3>1 DEF Entry
    <3>3. QED
      BY <2>6, <3>2
  <2>7. CASE hits = {}
    <3>1. OutName = Nil
      BY <2>3, <2>4, <2>7
    <3>2. out.link # Nil => out.link \in Link
      BY DEF IInv, TypeOK
    <3>3. QED
      BY <1>2, <2>6, <2>7, <3>1, <3>2
  <2>8. CASE hits # {}
    <3>1. OutName = list[n].name /\ OutName \in Link /\ On(OutName, out.addr)
      BY <2>3, <2>5, <2>8
    <3>2. out.link # Nil /\ out.link \in Link
      BY <2>5, <2>8 DEF IInv, TypeOK
    <3>3. On(out.link, out.addr) => out.link = OutName
      BY <2>1, <3>1, <3>2 DEF On, AddressesOK
    <3>4. QED
      BY <1>2, <3>1, <3>2, <3>3
  <2>9. QED
    BY <2>7, <2>8
<1>3. QED
  BY <1>1, <1>2

LEMMA EnterIfIInv ==
    ASSUME IInv, NEW l \in Link \cup {Nil}, EnterIf(l)
    PROVE  IInv'
<1>1. PICK i \in Resolve(l) : call' = [m |-> "mcastif", name |-> l, id |-> i]
  BY DEF EnterIf
<1>2. /\ UNCHANGED <<setup, v4, changes, sock, hist, crashed>> /\ Supported /\ AddressesOK
      /\ told' = OutName
  BY DEF EnterIf, IInv
<1>3. CallOK'
  BY <1>1, <1>2, ResolveFacts DEF CallOK, Supported, IsV4, On
<1>4. QED
  BY <1>2, <1>3, QuietIInv, OutNameFacts DEF IInv, TypeOK, sock

LEMMA CommitIfIInv ==
    ASSUME IInv, CommitIf
    PROVE  IInv'
<1>1. /\ call # Nil /\ call' = Nil
      /\ UNCHANGED <<setup, v4, changes, rules, opt, was, want, raced, told, dev, crashed>>
      /\ TypeOK /\ AddressesOK /\ CallOK /\ AsNamed
  BY DEF CommitIf, IInv
<1>2. /\ out'.link \in Link \cup {Nil} /\ out'.addr \in Addr \cup {ANY}
      /\ wantOut' \in Link \cup {Nil}
      /\ ~raced => out'.link = wantOut'
      /\ out'.link = Nil => out'.addr = ANY
  <2>1. CASE UNCHANGED <<out, wantOut>>
    BY <1>1, <2>1 DEF TypeOK, AsNamed, IInv
  <2>2. CASE out' = NoOut /\ wantOut' = Nil
    BY <2>2 DEF NoOut
  <2>3. ASSUME call.id \notin {ANY, Nil}, NEW l \in DeviceFor(call.id),
               out' = [link |-> l, addr |-> IF IsV4 THEN call.id ELSE ANY],
               wantOut' = call.name
        PROVE  /\ out'.link \in Link \cup {Nil} /\ out'.addr \in Addr \cup {ANY}
               /\ wantOut' \in Link \cup {Nil}
               /\ ~raced => out'.link = wantOut'
               /\ out'.link = Nil => out'.addr = ANY
    <3>1. l \in Link /\ call.name # Nil /\ (~raced => l = call.name)
      BY <1>1, <2>3, DeviceNamed DEF CallOK
    <3>2. IsV4 => call.id \in Addr
      BY <1>1, <3>1 DEF CallOK
    <3>3. l # Nil
      BY <3>1, LinkAssumption
    <3>4. call.name \in Link \cup {Nil}
      BY <1>1 DEF CallOK
    <3>5. QED
      BY <2>3, <3>1, <3>2, <3>3, <3>4
  <2>4. QED
    BY <2>1, <2>2, <2>3 DEF CommitIf
<1>3. setup.socktype \in {"dgram", "raw"} /\ setup.family \in {"inet", "inet6"}
  BY <1>1 DEF CallOK, Supported
<1>4. TypeOK'
  BY <1>1, <1>2, <1>3 DEF TypeOK, IsRule
<1>5. QED
  BY <1>1, <1>2, <1>4 DEF IInv, AddressesOK, CallOK, AsNamed

\* The actions without a second step.
LEMMA OthersIInv ==
    ASSUME IInv,
           \/ Crash \/ GetIf \/ Devices
           \/ \E o \in {"loop", "ttl"}, v \in {0, 1, Nil} : SetOption(o, v)
    PROVE  IInv'
<1>1. UNCHANGED <<setup, v4, changes, call, rules, out, hist>>
  BY DEF Crash, GetIf, Devices, SetOption, sock
<1>2. told' \in Link \cup {Nil} /\ crashed' \in BOOLEAN
  BY OutNameFacts DEF Crash, GetIf, Devices, SetOption, IInv, TypeOK
<1>3. opt' \in [{"loop", "ttl"} -> 0..1] /\ was' \in {0, 1, Nil}
  <2>1. CASE Crash \/ GetIf \/ Devices
    BY <2>1 DEF Crash, GetIf, Devices, IInv, TypeOK, sock
  <2>2. ASSUME NEW o \in {"loop", "ttl"}, NEW v \in {0, 1, Nil}, SetOption(o, v)
        PROVE  opt' \in [{"loop", "ttl"} -> 0..1] /\ was' \in {0, 1, Nil}
    <3>1. opt \in [{"loop", "ttl"} -> 0..1] /\ opt[o] \in {0, 1}
      BY DEF IInv, TypeOK
    <3>2. QED
      BY <2>2, <3>1 DEF SetOption
  <2>3. QED
    BY <2>1, <2>2
<1>4. CallOK' /\ (call' # Nil => Supported)
  BY <1>1 DEF IInv, CallOK, Supported, IsV4, On, hist
<1>5. QED
  BY <1>1, <1>2, <1>3, <1>4, QuietIInv

LEMMA NextIInv == IInv /\ Next => IInv'
BY AddAddrIInv, DelAddrIInv, EnterIInv, CommitIInv, EnterIfIInv, CommitIfIInv, OthersIInv
DEF Next

LEMMA StutterIInv == IInv /\ UNCHANGED vars => IInv'
BY DEF IInv, TypeOK, AddressesOK, CallOK, AsNamed, vars, sock, hist, IsRule, Supported, IsV4, On
-----------------------------------------------------------------------------
(* The theorems.                                                           *)

\* The inductive invariant holds in every reachable state.
THEOREM Inductive == Spec => []IInv
BY InitIInv, NextIInv, StutterIInv, PTL DEF Spec

\* The types, and with them that no source filter outlives its membership.
THEOREM TypeCorrect == Spec => []TypeOK
<1>1. IInv => TypeOK
  BY DEF IInv
<1>2. QED
  BY <1>1, Inductive, PTL

\* As long as no address changes in the middle of a call, memberships, filters and
\* the outgoing interface are on the interfaces that the script named, although
\* addresses stand in for the names.
THEOREM OnTheNamedInterface == Spec => []AsNamed
<1>1. IInv => AsNamed
  BY DEF IInv
<1>2. QED
  BY <1>1, Inductive, PTL

\* mcastif() returns the interface in use, unless that has lost the address.
THEOREM NamesTheInterface == Spec => TellsInterface
<1>1. IInv /\ [Next]_vars =>
         [told' # told =>
            \/ told' = out.link
            \/ IsV4 /\ out.link # Nil /\ ~On(out.link, out.addr)]_vars
  <2> SUFFICES ASSUME IInv, Next, told' # told
               PROVE  told' = out.link \/ (IsV4 /\ out.link # Nil /\ ~On(out.link, out.addr))
    OBVIOUS
  <2>1. told' = OutName
    BY DEF Next, AddAddr, DelAddr, Change, Enter, Commit, EnterIf, CommitIf, GetIf, Crash,
           SetOption, Devices
  <2>2. QED
    BY <2>1, OutNameFacts
<1>2. QED
  BY <1>1, Inductive, PTL DEF Spec, TellsInterface

\* getifaddrs() returns a table for every interface that has an address of any kind,
\* with all of its addresses, in order, and nobody else's: wherever in the kernel's
\* list the entries of an interface are, the loop finds its table again.
THEOREM DevicesAreComplete == Spec => DevicesComplete
<1>1. IInv /\ [Next]_vars =>
         [dev' # dev => \A l \in Link :
            LET six == IF l \in Six THEN <<l>> ELSE <<>> IN
            IF l \in setup.bare /\ v4[l] = <<>> /\ six = <<>> THEN dev'[l] = Nil
            ELSE dev'[l] = [ether |-> l \notin setup.bare, inet |-> v4[l], inet6 |-> six]]_vars
  <2> SUFFICES ASSUME IInv, Next, dev' # dev
               PROVE  Complete(dev', v4, setup.bare)
    BY Zenon DEF Complete
  <2>1. dev' = GetIfAddrs(IfList(v4, setup.bare))
    BY DEF Next, AddAddr, DelAddr, Change, Enter, Commit, EnterIf, CommitIf, GetIf, Crash,
           SetOption, Devices
  <2>2. v4 \in [Link -> Seq(Addr)]
    BY DEF IInv, AddressesOK
  <2>3. QED
    BY <2>1, <2>2, DevicesAre
<1>2. QED
  BY <1>1, Inductive, PTL DEF Spec, DevicesComplete
=============================================================================
