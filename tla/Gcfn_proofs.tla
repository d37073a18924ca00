---------------------------- MODULE Gcfn_proofs -----------------------------
(***************************************************************************)
(* Proofs about Gcfn, for any sets of sockets and functions: the lists are *)
(* never left with a stale pointer, and every registered function of a     *)
(* socket that is closed is called, once, the newest first: they behave as *)
(* the stacks of GcfnStack.                                                *)
(***************************************************************************)
EXTENDS GcfnAlloc, GcfnRefinement, Induction

-----------------------------------------------------------------------------
(* The stack.                                                              *)

\* The innermost walk is a Frame.
LEMMA TopIsFrame ==
    ASSUME stack \in Seq(Frame), stack # <<>>
    PROVE  /\ Len(stack) \in Nat \ {0}
           /\ Len(stack) \in 1..Len(stack)
           /\ Top \in Frame
BY EmptySeq, ElementOfSeq DEF Top

\* What the frames of a stack hold.
LEMMA FrameTypes ==
    ASSUME stack \in Seq(Frame), NEW i \in 1..Len(stack)
    PROVE  /\ stack[i] \in Frame
           /\ stack[i].sock \in Sock /\ stack[i].cur \in Ptr
           /\ stack[i].nxt \in Ptr /\ stack[i].udf \in BOOLEAN
           /\ stack[i].udf => stack[i].cur \in Fn
<1>1. stack[i] \in Frame
  BY ElementOfSeq
<1>2. QED
  BY <1>1 DEF Frame

\* Replacing the innermost frame (every step of call_gcfn).
LEMMA SetTopFacts ==
    ASSUME stack \in Seq(Frame), stack # <<>>,
           NEW c \in Ptr, NEW n \in Ptr, NEW u \in BOOLEAN, u => c \in Fn,
           SetTop(c, n, u)
    PROVE  /\ stack' \in Seq(Frame)
           /\ Len(stack') = Len(stack)
           /\ \A i \in 1..(Len(stack) - 1) : stack'[i] = stack[i]
           /\ stack'[Len(stack)] =
                 [sock |-> Top.sock, cur |-> c, nxt |-> n, udf |-> u]
<1> DEFINE f == [sock |-> Top.sock, cur |-> c, nxt |-> n, udf |-> u]
<1>1. Len(stack) \in 1..Len(stack) /\ Len(stack) \in Nat \ {0}
  BY TopIsFrame
<1>2. f \in Frame
  BY TopIsFrame DEF Frame
<1>3. stack' = [stack EXCEPT ![Len(stack)] = f]
  BY DEF SetTop
<1>4. /\ stack' \in Seq(Frame)
      /\ Len(stack') = Len(stack)
      /\ \A i \in 1..Len(stack) :
            stack'[i] = IF i = Len(stack) THEN f ELSE stack[i]
  <2> HIDE DEF f
  <2>1. QED
    BY <1>1, <1>2, <1>3, ExceptSeq
<1>5. QED
  BY <1>1, <1>4

\* Popping the innermost frame.
LEMMA PopFacts ==
    ASSUME stack \in Seq(Frame), stack # <<>>,
           stack' = SubSeq(stack, 1, Len(stack) - 1)
    PROVE  /\ stack' \in Seq(Frame)
           /\ Len(stack') = Len(stack) - 1
           /\ \A i \in 1..(Len(stack) - 1) : stack'[i] = stack[i]
<1>1. Len(stack) \in Nat \ {0}
  BY TopIsFrame
<1>2. \A i \in 1..(Len(stack) - 1) : stack[i] \in Frame
  BY <1>1, ElementOfSeq
<1> DEFINE n == Len(stack) - 1
<1>3. n \in Nat /\ 1 \in Int /\ n \in Int
  BY <1>1
<1>4. /\ SubSeq(stack, 1, n) \in Seq(Frame)
      /\ Len(SubSeq(stack, 1, n)) = IF 1 <= n THEN n - 1 + 1 ELSE 0
      /\ \A i \in 1..(n - 1 + 1) : SubSeq(stack, 1, n)[i] = stack[1 + i - 1]
  <2> HIDE DEF n
  <2>1. \A i \in 1..n : stack[i] \in Frame
    BY <1>2 DEF n
  <2>2. QED
    BY <1>3, <2>1, SubSeqProperties
<1>5. n - 1 + 1 = n /\ \A i \in 1..n : 1 + i - 1 = i
  BY <1>3
<1>6. QED
  BY <1>3, <1>4, <1>5
-----------------------------------------------------------------------------
(* Type correctness.                                                       *)

\* Unlinking a node keeps the types of the links.
LEMMA UnlinkType ==
    ASSUME TypeOK, NEW g \in Node, Unlink(g)
    PROVE  /\ ref' \in [Node -> BOOLEAN]
           /\ prev' \in [Node -> Ptr]
           /\ next' \in [Node -> Ptr]
BY DEF TypeOK, Unlink

\* The initial state has the right types.
LEMMA InitTypeOK == Init => TypeOK
BY ValuesAssumption, EmptySeq DEF Init, TypeOK, Node, Ptr

\* Every step keeps the types.
LEMMA NextTypeOK == TypeOK /\ [Next]_vars => TypeOK'
<1> SUFFICES ASSUME TypeOK, [Next]_vars PROVE TypeOK'
  OBVIOUS
<1>0. stack \in Seq(Frame)
  BY DEF TypeOK
<1>1. ASSUME NEW s \in Sock, NEW g \in Fn, AddGcfn(s, g) PROVE TypeOK'
  BY <1>1 DEF TypeOK, AddGcfn, Link, Node, Ptr
<1>2. ASSUME NEW s \in Sock, NEW g \in Fn, DelGcfn(s, g) PROVE TypeOK'
  <2>1. head' \in [Sock -> Ptr]
    BY <1>2 DEF TypeOK, DelGcfn, Node, Ptr
  <2>2. /\ ref' \in [Node -> BOOLEAN]
        /\ prev' \in [Node -> Ptr]
        /\ next' \in [Node -> Ptr]
    <3>1. CASE ref[g]
      BY <1>2, <3>1, UnlinkType DEF DelGcfn, Node
    <3>2. CASE ~ref[g]
      BY <1>2, <3>2 DEF DelGcfn, TypeOK, nodes
    <3>3. QED
      BY <3>1, <3>2
  <2>3. QED
    BY <1>2, <2>1, <2>2 DEF TypeOK, DelGcfn, history
<1>3. ASSUME NEW s \in Sock, StartWalk(s) PROVE TypeOK'
  <2>1. [sock |-> s, cur |-> head[s], nxt |-> NULL, udf |-> FALSE] \in Frame
    BY DEF TypeOK, Frame, Ptr
  <2>2. stack' \in Seq(Frame)
    BY <1>0, <1>3, <2>1, AppendProperties DEF StartWalk
  <2>3. QED
    BY <1>3, <2>2 DEF TypeOK, StartWalk, Node, Ptr, history
<1>4. ASSUME EnterUdf PROVE TypeOK'
  <2>1. PICK n \in NextRead(Top.cur) : SetTop(Top.cur, n, TRUE)
    BY <1>4 DEF EnterUdf
  <2>2. stack # <<>> /\ Top.cur \in Fn
    BY <1>4 DEF EnterUdf, Visiting
  <2>3. n \in Ptr /\ Top.cur \in Ptr
    BY <2>2 DEF NextRead, TypeOK, Node, Ptr
  <2>4. stack' \in Seq(Frame)
    BY <1>0, <2>1, <2>2, <2>3, SetTopFacts
  <2>5. QED
    BY <1>4, <2>4 DEF TypeOK, EnterUdf
<1>5. ASSUME SkipDeleted PROVE TypeOK'
  <2>1. PICK n \in NextRead(Top.cur) : SetTop(n, NULL, FALSE)
    BY <1>5 DEF SkipDeleted
  <2>2. stack # <<>> /\ Top.cur \in Node
    BY <1>0, <1>5, TopIsFrame DEF SkipDeleted, Visiting, Frame, Ptr
  <2>3. n \in Ptr /\ NULL \in Ptr
    BY <2>1, <2>2 DEF NextRead, TypeOK, Ptr
  <2>4. stack' \in Seq(Frame)
    BY <1>0, <2>1, <2>2, <2>3, SetTopFacts
  <2>5. QED
    BY <1>5, <2>4 DEF TypeOK, SkipDeleted, history
<1>6. ASSUME VisitSentinel PROVE TypeOK'
  <2>1. stack # <<>> /\ next[DONE] \in Ptr /\ NULL \in Ptr
    BY <1>6 DEF VisitSentinel, Visiting, TypeOK, Node, Ptr
  <2>2. stack' \in Seq(Frame)
    BY <1>0, <1>6, <2>1, SetTopFacts DEF VisitSentinel
  <2>3. QED
    BY <1>6, <2>2, UnlinkType DEF TypeOK, VisitSentinel, history, Node
<1>7. ASSUME UdfReturn PROVE TypeOK'
  <2>1. stack # <<>> /\ Top \in Frame /\ Top.cur \in Node
    BY <1>0, <1>7, TopIsFrame DEF UdfReturn, Frame, Node
  <2>2. Top.nxt \in Ptr /\ NULL \in Ptr
    BY <2>1 DEF Frame, Ptr
  <2>3. stack' \in Seq(Frame)
    BY <1>0, <1>7, <2>1, <2>2, SetTopFacts DEF UdfReturn
  <2>4. /\ ref' \in [Node -> BOOLEAN]
        /\ prev' \in [Node -> Ptr]
        /\ next' \in [Node -> Ptr]
    <3>1. CASE ref[Top.cur]
      BY <1>7, <2>1, <3>1, UnlinkType DEF UdfReturn
    <3>2. CASE ~ref[Top.cur]
      BY <1>7, <3>2 DEF UdfReturn, TypeOK, nodes
    <3>3. QED
      BY <3>1, <3>2
  <2>5. QED
    BY <1>7, <2>3, <2>4 DEF TypeOK, UdfReturn, history
<1>8. ASSUME FinishWalk PROVE TypeOK'
  BY <1>0, <1>8, PopFacts DEF TypeOK, FinishWalk, history
<1>9. ASSUME NEW g \in Fn, Collect(g) PROVE TypeOK'
  BY <1>9 DEF TypeOK, Collect, history
<1>10. CASE UNCHANGED vars
  BY <1>10 DEF TypeOK, vars
<1>11. QED
  BY <1>1, <1>2, <1>3, <1>4, <1>5, <1>6, <1>7, <1>8, <1>9, <1>10
  DEF Next, WalkStep

\* Every variable keeps its type, in every instance, ForeignDel or not.
THEOREM TypeCorrect == Spec => []TypeOK
BY InitTypeOK, NextTypeOK, PTL DEF Spec
-----------------------------------------------------------------------------
(* The lists.                                                              *)

\* lls_gcfn_del keeps the lists sound, and touches only the neighbours' links.
LEMMA UnlinkListOK ==
    ASSUME TypeOK, ListOK, NEW g \in Fn, ref[g], Unlink(g),
           UNCHANGED <<mem, owner, stamp, clock>>
    PROVE  /\ ListOK'
           /\ \A h \in Fn : ref'[h] <=> ref[h] /\ h # g
           /\ \A h \in Fn : ref[h] /\ owner[h] # owner[g] =>
                 next'[h] = next[h] /\ prev'[h] = prev[h]
           /\ \A h \in Fn : h # next[g] => prev'[h] = prev[h]
           /\ next[g] \in Fn => prev'[next[g]] = prev[g]
<1>1. \A h \in Fn : ref'[h] <=> ref[h] /\ h # g
  BY DEF TypeOK, Unlink, Node
<1>2. \A n \in Node : next'[n] = IF n = prev[g] THEN next[g] ELSE next[n]
  BY DEF Unlink
<1>3. \A n \in Node : prev'[n] = IF n = next[g] THEN prev[g] ELSE prev[n]
  BY DEF Unlink
<1>4. /\ prev[g] \in Fn => ref[prev[g]] /\ owner[prev[g]] = owner[g]
      /\ next[g] \in Fn => ref[next[g]] /\ owner[next[g]] = owner[g]
      /\ prev[g] \in Fn \cup {NULL} /\ next[g] \in Fn \cup {NULL}
  BY ValuesAssumption DEF ListOK, Registered
<1>5. SentinelOK'
  BY <1>2, <1>3, <1>4, ValuesAssumption DEF SentinelOK, ListOK, Node
<1>6. StampsOK'
  BY <1>1 DEF ListOK, StampsOK
<1>7. \A h \in Fn : ref'[h] =>
          /\ mem'[h] = "live"
          /\ prev'[h] \in Registered(owner[h])' \cup {NULL}
          /\ next'[h] \in Registered(owner[h])' \cup {NULL}
  <2> SUFFICES ASSUME NEW h \in Fn, ref'[h]
      PROVE  /\ mem'[h] = "live"
             /\ prev'[h] \in Registered(owner[h])' \cup {NULL}
             /\ next'[h] \in Registered(owner[h])' \cup {NULL}
    OBVIOUS
  <2>1. ref[h] /\ h # g /\ h \in Node /\ g \in Node
    BY <1>1 DEF Node
  <2>2. /\ prev[h] \in Registered(owner[h]) \cup {NULL}
        /\ next[h] \in Registered(owner[h]) \cup {NULL}
        /\ prev[g] \in Registered(owner[g]) \cup {NULL}
        /\ next[g] \in Registered(owner[g]) \cup {NULL}
        /\ mem[h] = "live"
    BY <2>1 DEF ListOK
  <2>3. next[h] = g <=> prev[g] = h
    BY <2>1 DEF ListOK, WellLinked
  <2>4. prev[h] = g <=> next[g] = h
    BY <2>1 DEF ListOK, WellLinked
  <2>5. next[g] # g /\ prev[g] # g
    BY <1>4, <2>1 DEF ListOK, WellLinked, StampsOK, TypeOK
  <2>6. next'[h] \in Registered(owner[h])' \cup {NULL}
    BY <1>1, <1>2, <1>4, <2>1, <2>2, <2>3, <2>5, ValuesAssumption DEF Registered
  <2>7. prev'[h] \in Registered(owner[h])' \cup {NULL}
    BY <1>1, <1>3, <1>4, <2>1, <2>2, <2>4, <2>5, ValuesAssumption DEF Registered
  <2>8. QED
    BY <2>2, <2>6, <2>7
<1>8. WellLinked'
  <2> SUFFICES ASSUME NEW a \in Fn, NEW b \in Fn, ref'[a], ref'[b]
      PROVE  /\ next'[a] = b <=> prev'[b] = a
             /\ next'[a] = b => owner[a] = owner[b] /\ stamp[a] > stamp[b]
             /\ owner[a] = owner[b] /\ stamp[a] > stamp[b] =>
                   /\ next'[a] # NULL /\ stamp[next'[a]] >= stamp[b]
                   /\ prev'[b] # NULL /\ stamp[prev'[b]] =< stamp[a]
    BY DEF WellLinked
  <2>1. /\ ref[a] /\ ref[b] /\ a # g /\ b # g
        /\ a \in Node /\ b \in Node
        /\ next'[a] = IF a = prev[g] THEN next[g] ELSE next[a]
        /\ prev'[b] = IF b = next[g] THEN prev[g] ELSE prev[b]
    BY <1>1, <1>2, <1>3 DEF Node
  <2>2. \A x, y \in Fn : ref[x] /\ ref[y] =>
           /\ next[x] = y <=> prev[y] = x
           /\ next[x] = y => owner[x] = owner[y] /\ stamp[x] > stamp[y]
           /\ owner[x] = owner[y] /\ stamp[x] > stamp[y] =>
                 /\ next[x] # NULL /\ stamp[next[x]] >= stamp[y]
                 /\ prev[y] # NULL /\ stamp[prev[y]] =< stamp[x]
    BY DEF ListOK, WellLinked
  <2>3. /\ stamp \in [Fn -> Nat]
        /\ stamp[a] # stamp[g] /\ stamp[b] # stamp[g]
    BY <2>1 DEF TypeOK, ListOK, StampsOK
  <2>4. next'[a] = b <=> prev'[b] = a
    BY <2>1, <2>2
  <2>5. next'[a] = b => owner[a] = owner[b] /\ stamp[a] > stamp[b]
    BY <1>4, <2>1, <2>2, <2>3
  <2>6. ASSUME owner[a] = owner[b], stamp[a] > stamp[b]
        PROVE  next'[a] # NULL /\ stamp[next'[a]] >= stamp[b]
    <3>1. CASE a = prev[g]
      <4>1. next[a] = g /\ owner[g] = owner[a] /\ stamp[g] > stamp[b]
        BY <2>1, <2>2, <2>3, <2>6, <3>1
      <4>2. QED
        BY <2>1, <2>2, <2>6, <3>1, <4>1
    <3>2. CASE a # prev[g]
      BY <2>1, <2>2, <2>6, <3>2
    <3>3. QED
      BY <3>1, <3>2
  <2>7. ASSUME owner[a] = owner[b], stamp[a] > stamp[b]
        PROVE  prev'[b] # NULL /\ stamp[prev'[b]] =< stamp[a]
    <3>1. CASE b = next[g]
      <4>1. prev[b] = g /\ owner[g] = owner[b] /\ stamp[a] > stamp[g]
        BY <2>1, <2>2, <2>3, <2>7, <3>1
      <4>2. QED
        BY <2>1, <2>2, <2>7, <3>1, <4>1
    <3>2. CASE b # next[g]
      BY <2>1, <2>2, <2>7, <3>2
    <3>3. QED
      BY <3>1, <3>2
  <2>8. QED
    BY <2>4, <2>5, <2>6, <2>7
<1>9. QED
  BY <1>1, <1>2, <1>3, <1>4, <1>5, <1>6, <1>7, <1>8, ValuesAssumption DEF ListOK, Node
-----------------------------------------------------------------------------
(* The invariant, one lemma per action.                                    *)

\* The invariant holds initially: there is no list and no walk.
LEMMA InitIInv == Init => IInv
<1> SUFFICES ASSUME Init PROVE IInv
  OBVIOUS
<1>1. TypeOK
  BY InitTypeOK
<1>2. Len(stack) = 0 /\ \A g \in Fn : ~ref[g]
  BY EmptySeq, ValuesAssumption DEF Init, Node
<1>3. \A s \in Sock, a \in Fn : ~StartsAt(s, a)
  BY <1>2, ValuesAssumption DEF StartsAt, Init
<1>4. SentinelOK
  BY DEF Init, SentinelOK, Node
<1>5. ListOK
  BY <1>2, <1>4 DEF ListOK, StampsOK, WellLinked
<1>6. NoStalePointer /\ NoneLost /\ StartsFirst
  BY <1>2, <1>3 DEF NoStalePointer, NoneLost, StartsFirst
<1>7. SavedNextIsCurrent /\ WalksOK
  BY <1>2 DEF SavedNextIsCurrent, WalksOK
<1>8. CalledOK /\ EnteredOK
  BY <1>2 DEF CalledOK, EnteredOK, Init
<1>9. QED
  BY <1>1, <1>5, <1>6, <1>7, <1>8 DEF IInv

\* While a socket is not DONE no walk of it is in progress, and its head is
\* its newest function.
LEMMA HeadIsNewest ==
    ASSUME IInv, NEW s \in Sock, head[s] # DONE
    PROVE  /\ \A i \in 1..Len(stack) : stack[i].sock # s
           /\ \A h \in Registered(s) :
                 head[s] \in Registered(s) /\ stamp[h] =< stamp[head[s]]
<1>1. \A i \in 1..Len(stack) : stack[i].sock # s
  BY DEF IInv, WalksOK
<1>2. ASSUME NEW h \in Registered(s)
      PROVE  head[s] \in Registered(s) /\ stamp[h] =< stamp[head[s]]
  <2>1. PICK a \in Registered(s) : StartsAt(s, a) /\ stamp[h] =< stamp[a]
    BY DEF IInv, NoneLost, Registered
  <2>2. a = head[s]
    BY <1>1, <2>1 DEF StartsAt
  <2>3. QED
    BY <2>1, <2>2
<1>3. QED
  BY <1>1, <1>2

\* addgcfn_lua keeps it: the new node is put before the head, its newest elder.
LEMMA AddGcfnIInv ==
    ASSUME IInv, NEW s \in Sock, NEW g \in Fn, AddGcfn(s, g)
    PROVE  IInv'
<1>1. TypeOK /\ TypeOK'
  BY NextTypeOK DEF IInv, Next
<1>2. /\ ~ref[g] /\ g \notin called /\ head[s] # DONE
      /\ g # DONE /\ g # NULL
  BY ValuesAssumption DEF IInv, ListOK, CalledOK, AddGcfn, Link
<1>3. /\ \A h \in Node : ref'[h] <=> ref[h] \/ h = g
      /\ \A h \in Node : next'[h] = IF h = g THEN head[s] ELSE next[h]
      /\ \A h \in Node : prev'[h] =
            IF h = g THEN NULL ELSE IF h = head[s] THEN g ELSE prev[h]
      /\ \A h \in Fn : owner'[h] = IF h = g THEN s ELSE owner[h]
      /\ \A h \in Fn : stamp'[h] = IF h = g THEN clock + 1 ELSE stamp[h]
      /\ \A h \in Node : mem'[h] = IF h = g THEN "live" ELSE mem[h]
      /\ \A t \in Sock : head'[t] = IF t = s THEN g ELSE head[t]
      /\ clock' = clock + 1 /\ stack' = stack /\ called' = called
  BY <1>1 DEF AddGcfn, Link, TypeOK, Node
<1>4. /\ \A i \in 1..Len(stack) : stack[i].sock # s
      /\ \A h \in Registered(s) :
            head[s] \in Registered(s) /\ stamp[h] =< stamp[head[s]]
  BY <1>2, HeadIsNewest
<1>5. head[s] \in Registered(s) \cup {NULL} /\
      (head[s] \in Fn => prev[head[s]] = NULL)
  BY <1>1, <1>2 DEF IInv, NoStalePointer, StartsFirst, StartsAt, TypeOK, Ptr, Node
<1>6. /\ stamp \in [Fn -> Nat] /\ clock \in Nat
      /\ \A h \in Fn : ref[h] => stamp[h] =< clock /\ owner[h] \in Sock
      /\ \A x, y \in Fn : ref[x] /\ ref[y] /\ stamp[x] = stamp[y] => x = y
  BY <1>1 DEF IInv, ListOK, StampsOK, TypeOK
<1>7. \A h \in Fn : ref[h] =>
         /\ mem[h] = "live"
         /\ prev[h] \in Registered(owner[h]) \cup {NULL}
         /\ next[h] \in Registered(owner[h]) \cup {NULL}
  BY DEF IInv, ListOK
<1>8. SentinelOK'
  BY <1>2, <1>3, <1>5, ValuesAssumption DEF IInv, ListOK, SentinelOK, Node, Registered
<1>9. StampsOK'
  BY <1>3, <1>6 DEF StampsOK, Node
<1>10. \A h \in Fn : ref'[h] =>
         /\ mem'[h] = "live"
         /\ prev'[h] \in Registered(owner[h])' \cup {NULL}
         /\ next'[h] \in Registered(owner[h])' \cup {NULL}
  BY <1>2, <1>3, <1>5, <1>7, ValuesAssumption DEF Registered, Node
<1>11. WellLinked'
  <2> SUFFICES ASSUME NEW a \in Fn, NEW b \in Fn, ref'[a], ref'[b]
      PROVE  /\ next'[a] = b <=> prev'[b] = a
             /\ next'[a] = b => owner'[a] = owner'[b] /\ stamp'[a] > stamp'[b]
             /\ owner'[a] = owner'[b] /\ stamp'[a] > stamp'[b] =>
                   /\ next'[a] # NULL /\ stamp'[next'[a]] >= stamp'[b]
                   /\ prev'[b] # NULL /\ stamp'[prev'[b]] =< stamp'[a]
    BY DEF WellLinked
  <2>1. \A x, y \in Fn : ref[x] /\ ref[y] =>
           /\ next[x] = y <=> prev[y] = x
           /\ next[x] = y => owner[x] = owner[y] /\ stamp[x] > stamp[y]
           /\ owner[x] = owner[y] /\ stamp[x] > stamp[y] =>
                 /\ next[x] # NULL /\ stamp[next[x]] >= stamp[y]
                 /\ prev[y] # NULL /\ stamp[prev[y]] =< stamp[x]
    BY DEF IInv, ListOK, WellLinked
  <2>2. a \in Node /\ b \in Node /\ g \in Node
    BY DEF Node
  <2>3. CASE a = g /\ b = g
    BY <1>2, <1>3, <1>5, <1>6, <2>2, <2>3 DEF Registered
  <2>4. CASE a = g /\ b # g
    <3>1. ref[b] /\ prev[b] # g /\ stamp[b] =< clock
      BY <1>2, <1>3, <1>6, <1>7, <2>2, <2>4 DEF Registered
    <3>2. next'[a] = b <=> prev'[b] = a
      BY <1>3, <2>2, <2>4, <3>1
    <3>3. next'[a] = b => owner'[a] = owner'[b] /\ stamp'[a] > stamp'[b]
      BY <1>3, <1>5, <1>6, <2>2, <2>4, <3>1, ValuesAssumption DEF Registered
    <3>4. ASSUME owner'[a] = owner'[b]
          PROVE  /\ next'[a] # NULL /\ stamp'[next'[a]] >= stamp'[b]
                 /\ prev'[b] # NULL /\ stamp'[prev'[b]] =< stamp'[a]
      <4>1. b \in Registered(s)
        BY <1>3, <2>4, <3>1, <3>4 DEF Registered
      <4>2. head[s] \in Registered(s) /\ stamp[b] =< stamp[head[s]] /\ head[s] # g
        BY <1>2, <1>4, <4>1 DEF Registered
      <4>3. next'[a] # NULL /\ stamp'[next'[a]] >= stamp'[b]
        BY <1>3, <2>2, <2>4, <4>2, ValuesAssumption DEF Registered
      <4>4. CASE b = head[s]
        BY <1>2, <1>3, <1>6, <2>2, <2>4, <4>3, <4>4
      <4>5. CASE b # head[s]
        <5>1. stamp[head[s]] > stamp[b]
          BY <1>6, <3>1, <4>2, <4>5 DEF Registered
        <5>2. prev[b] # NULL /\ stamp[prev[b]] =< stamp[head[s]]
          BY <2>1, <3>1, <4>1, <4>2, <5>1 DEF Registered
        <5>3. prev[b] \in Fn /\ ref[prev[b]] /\ stamp[prev[b]] =< clock
          BY <1>6, <1>7, <3>1, <5>2 DEF Registered
        <5>4. QED
          BY <1>2, <1>3, <1>6, <2>2, <2>4, <4>3, <4>5, <5>2, <5>3
      <4>6. QED
        BY <4>4, <4>5
    <3>5. QED
      BY <3>2, <3>3, <3>4
  <2>5. CASE a # g /\ b = g
    BY <1>2, <1>3, <1>6, <1>7, <2>2, <2>5, ValuesAssumption DEF Registered
  <2>6. CASE a # g /\ b # g
    <3>1. /\ ref[a] /\ ref[b]
          /\ next'[a] = next[a] /\ owner'[a] = owner[a] /\ owner'[b] = owner[b]
          /\ stamp'[a] = stamp[a] /\ stamp'[b] = stamp[b]
          /\ prev'[b] = IF b = head[s] THEN g ELSE prev[b]
      BY <1>3, <2>2, <2>6
    <3>2. /\ next[a] \in Fn \cup {NULL} /\ next[a] # g
          /\ prev[b] \in Fn \cup {NULL} /\ prev[b] # g
      BY <1>2, <1>7, <3>1 DEF Registered
    <3>3. CASE b = head[s]
      <4>1. prev[b] = NULL /\ owner[b] = s
        BY <1>5, <3>3, ValuesAssumption DEF Registered
      <4>2. next[a] # b
        BY <2>1, <3>1, <4>1, ValuesAssumption
      <4>3. ~(owner[a] = owner[b] /\ stamp[a] > stamp[b])
        BY <2>1, <3>1, <4>1
      <4>4. QED
        BY <2>6, <3>1, <3>3, <4>2, <4>3
    <3>4. CASE b # head[s]
      BY <1>3, <2>1, <3>1, <3>2, <3>4
    <3>5. QED
      BY <3>3, <3>4
  <2>7. QED
    BY <2>3, <2>4, <2>5, <2>6
<1>12. ListOK'
  BY <1>8, <1>9, <1>10, <1>11 DEF ListOK
<1>13. \A t \in Sock, a \in Fn :
          StartsAt(t, a)' <=> IF t = s THEN a = g ELSE StartsAt(t, a)
  BY <1>3, <1>4 DEF StartsAt
<1>14. NoStalePointer'
  BY <1>2, <1>3, <1>10, <1>13 DEF IInv, NoStalePointer, Registered, Node
<1>15. NoneLost'
  <2> SUFFICES ASSUME NEW h \in Fn, ref'[h]
      PROVE  \E a \in Registered(owner[h])' :
                StartsAt(owner[h], a)' /\ stamp'[h] =< stamp'[a]
    BY DEF NoneLost
  <2>1. CASE owner'[h] = s
    <3>1. g \in Registered(s)' /\ StartsAt(s, g)'
      BY <1>3, <1>13 DEF Registered, Node
    <3>2. stamp'[h] =< stamp'[g]
      BY <1>3, <1>6 DEF Node
    <3>3. QED
      BY <2>1, <3>1, <3>2
  <2>2. CASE owner'[h] # s
    <3>1. ref[h] /\ h # g /\ owner'[h] = owner[h] /\ owner[h] \in Sock
      BY <1>3, <1>6, <2>2 DEF Node
    <3>2. PICK a \in Registered(owner[h]) :
             StartsAt(owner[h], a) /\ stamp[h] =< stamp[a]
      BY <3>1 DEF IInv, NoneLost
    <3>3. a # g /\ a \in Registered(owner[h])' /\ StartsAt(owner[h], a)'
      BY <1>2, <1>3, <1>13, <2>2, <3>1, <3>2 DEF Registered, Node
    <3>4. QED
      BY <1>3, <3>1, <3>2, <3>3 DEF Registered
  <2>3. QED
    BY <2>1, <2>2
<1>16. SavedNextIsCurrent'
  BY <1>2, <1>3 DEF IInv, SavedNextIsCurrent, Registered, Node
<1>17. StartsFirst'
  <2> SUFFICES ASSUME NEW t \in Sock, NEW a \in Fn, StartsAt(t, a)'
      PROVE  prev'[a] = NULL
    BY DEF StartsFirst
  <2>1. CASE t = s
    BY <1>3, <1>13, <2>1 DEF Node
  <2>2. CASE t # s
    <3>1. a \in Registered(t) /\ prev[a] = NULL
      BY <1>13, <2>2 DEF IInv, NoStalePointer, StartsFirst
    <3>2. a # head[s] /\ a # g
      BY <1>2, <1>5, <2>2, <3>1, ValuesAssumption DEF Registered
    <3>3. QED
      BY <1>3, <3>1, <3>2 DEF Node
  <2>3. QED
    BY <2>1, <2>2
<1>18. WalksOK'
  <2>1. \A i \in 1..Len(stack) : stack[i].sock \in Sock
    BY <1>1, FrameTypes DEF TypeOK
  <2>2. QED
    BY <1>3, <1>4, <2>1 DEF IInv, WalksOK, Outermost
<1>19. CalledOK'
  BY <1>1, <1>2, <1>3 DEF IInv, CalledOK, TypeOK, Node
<1>20. EnteredOK'
  BY <1>3 DEF IInv, EnteredOK
<1>21. QED
  BY <1>1, <1>12, <1>14, <1>15, <1>16, <1>17, <1>18, <1>19, <1>20 DEF IInv

\* The steps that change no list and no history: what is left to show is
\* about the stack.
LEMMA SameLists ==
    ASSUME ListOK, UNCHANGED <<ref, prev, next, mem, owner, stamp, clock>>
    PROVE  ListOK'
BY DEF ListOK, SentinelOK, StampsOK, WellLinked, Registered

\* delgcfn_lua keeps it: no walk stands at the node, for its socket is not DONE.
LEMMA DelGcfnIInv ==
    ASSUME IInv, ~ForeignDel, NEW s \in Sock, NEW g \in Fn, DelGcfn(s, g)
    PROVE  IInv'
<1>1. TypeOK /\ TypeOK'
  BY NextTypeOK DEF IInv, Next
<1>2. /\ head[s] # DONE
      /\ \A t \in Sock : head'[t] = IF t = s /\ head[s] = g THEN next[g] ELSE head[t]
      /\ UNCHANGED <<mem, stack, owner, stamp, clock, called>>
  BY <1>1 DEF DelGcfn, TypeOK, history
<1>3. /\ \A i \in 1..Len(stack) : stack[i].sock # s
      /\ \A h \in Registered(s) :
            head[s] \in Registered(s) /\ stamp[h] =< stamp[head[s]]
  BY <1>2, HeadIsNewest
<1>4. CASE ~ref[g]
  <2>1. head' = head /\ UNCHANGED nodes
    <3>1. head[s] # g
      BY <1>4 DEF IInv, NoStalePointer, StartsAt, Registered
    <3>2. QED
      BY <1>1, <1>2, <1>4, <3>1 DEF DelGcfn, TypeOK
  <2>2. UNCHANGED vars
    BY <1>2, <2>1 DEF vars, nodes
  <2>3. QED
    BY <1>1, <2>2 DEF vars, IInv, ListOK, SentinelOK, StampsOK, WellLinked,
       NoStalePointer, NoneLost, SavedNextIsCurrent, StartsFirst, WalksOK,
       CalledOK, EnteredOK, Registered, StartsAt, Outermost
<1>5. CASE ref[g]
  <2>1. Unlink(g) /\ owner[g] = s
    BY <1>5 DEF DelGcfn
  <2>2. /\ ListOK'
        /\ \A h \in Fn : ref'[h] <=> ref[h] /\ h # g
        /\ \A h \in Fn : ref[h] /\ owner[h] # s =>
              next'[h] = next[h] /\ prev'[h] = prev[h]
        /\ \A h \in Fn : h # next[g] => prev'[h] = prev[h]
        /\ next[g] \in Fn => prev'[next[g]] = prev[g]
    BY <1>1, <1>2, <1>5, <2>1, UnlinkListOK DEF IInv
  <2>3. /\ head[s] \in Registered(s) /\ prev[head[s]] = NULL
        /\ next[g] \in Registered(s) \cup {NULL}
        /\ next[g] \in Fn => prev[next[g]] = g /\ stamp[next[g]] < stamp[g]
    <3>1. g \in Registered(s)
      BY <1>5, <2>1 DEF Registered
    <3>2. head[s] \in Registered(s)
      BY <1>3, <3>1
    <3>3. prev[head[s]] = NULL
      BY <3>2 DEF IInv, StartsFirst, StartsAt, Registered
    <3>4. next[g] \in Registered(s) \cup {NULL}
      BY <1>5, <2>1 DEF IInv, ListOK
    <3>5. next[g] \in Fn => prev[next[g]] = g /\ stamp[next[g]] < stamp[g]
      BY <1>1, <1>5, <3>4, ValuesAssumption
      DEF IInv, ListOK, WellLinked, Registered, TypeOK
    <3>6. QED
      BY <3>2, <3>3, <3>4, <3>5
  <2>4. \A t \in Sock, a \in Fn :
           StartsAt(t, a)' <=>
              IF t = s THEN a = (IF head[s] = g THEN next[g] ELSE head[s])
              ELSE StartsAt(t, a)
    BY <1>2, <1>3 DEF StartsAt
  <2>5. \A t \in Sock : Registered(t)' = Registered(t) \ {g}
    BY <1>2, <2>2 DEF Registered
  <2>6. NoStalePointer'
    <3>1. next[g] # g
      BY <2>3, <1>1 DEF TypeOK
    <3>2. ASSUME NEW t \in Sock, NEW a \in Fn, StartsAt(t, a)'
          PROVE  a \in Registered(t)'
      <4>1. CASE t = s
        BY <2>3, <2>4, <2>5, <3>1, <3>2, <4>1, ValuesAssumption
      <4>2. CASE t # s
        BY <2>1, <2>4, <2>5, <3>2, <4>2 DEF IInv, NoStalePointer, Registered
      <4>3. QED
        BY <4>1, <4>2
    <3>3. QED
      BY <2>2, <3>2 DEF NoStalePointer, ListOK
  <2>7. NoneLost'
    <3> SUFFICES ASSUME NEW h \in Fn, ref'[h]
        PROVE  \E a \in Registered(owner[h])' :
                  StartsAt(owner[h], a)' /\ stamp'[h] =< stamp'[a]
      BY DEF NoneLost
    <3>1. ref[h] /\ h # g /\ owner'[h] = owner[h] /\ owner[h] \in Sock
      BY <1>2, <2>2 DEF IInv, ListOK, StampsOK
    <3>2. CASE owner[h] # s
      <4>1. PICK a \in Registered(owner[h]) :
               StartsAt(owner[h], a) /\ stamp[h] =< stamp[a]
        BY <3>1 DEF IInv, NoneLost
      <4>2. a # g /\ a \in Fn
        BY <2>1, <3>2, <4>1 DEF Registered
      <4>3. QED
        BY <1>2, <2>4, <2>5, <3>1, <3>2, <4>1, <4>2
    <3>3. CASE owner[h] = s /\ head[s] # g
      BY <1>2, <1>3, <2>3, <2>4, <2>5, <3>1, <3>3 DEF Registered
    <3>4. CASE owner[h] = s /\ head[s] = g
      <4>1. stamp[h] < stamp[g]
        BY <1>1, <1>3, <1>5, <3>1, <3>4
        DEF IInv, ListOK, StampsOK, Registered, TypeOK
      <4>2. next[g] # NULL /\ stamp[next[g]] >= stamp[h]
        BY <1>1, <1>5, <2>1, <3>1, <3>4, <4>1 DEF IInv, ListOK, WellLinked, TypeOK
      <4>3. PICK b \in Registered(s) : b = next[g]
        BY <2>3, <4>2
      <4>4. b # g
        BY <1>1, <2>3, <4>3 DEF Registered, TypeOK
      <4>5. b \in Registered(s)' /\ StartsAt(s, b)'
        BY <2>4, <2>5, <3>4, <4>3, <4>4 DEF Registered
      <4>6. QED
        BY <1>2, <3>1, <3>4, <4>2, <4>3, <4>5
    <3>5. QED
      BY <3>2, <3>3, <3>4
  <2>8. SavedNextIsCurrent'
    <3> SUFFICES ASSUME NEW i \in 1..Len(stack), stack[i].udf
        PROVE  /\ stack[i].cur \in Registered(stack[i].sock)'
               /\ next'[stack[i].cur] = stack[i].nxt
      BY <1>2 DEF SavedNextIsCurrent
    <3>1. /\ stack[i].cur \in Registered(stack[i].sock)
          /\ next[stack[i].cur] = stack[i].nxt
          /\ stack[i].sock # s /\ stack[i].sock \in Sock
      BY <1>1, <1>3, FrameTypes DEF IInv, SavedNextIsCurrent, TypeOK
    <3>2. stack[i].cur \in Registered(stack[i].sock)'
      BY <1>2, <2>1, <2>5, <3>1 DEF Registered
    <3>3. next'[stack[i].cur] = next[stack[i].cur]
      BY <2>2, <3>1 DEF Registered
    <3>4. QED
      BY <3>1, <3>2, <3>3
  <2>9. StartsFirst'
    <3> SUFFICES ASSUME NEW t \in Sock, NEW a \in Fn, StartsAt(t, a)'
        PROVE  prev'[a] = NULL
      BY DEF StartsFirst
    <3>1. CASE t # s
      BY <2>2, <2>4, <3>1 DEF IInv, NoStalePointer, StartsFirst, Registered
    <3>2. CASE t = s /\ head[s] # g
      <4>1. a = head[s] /\ a # next[g]
        BY <2>3, <2>4, <3>2, ValuesAssumption
      <4>2. QED
        BY <2>2, <2>3, <4>1
    <3>3. CASE t = s /\ head[s] = g
      BY <2>2, <2>3, <2>4, <3>3
    <3>4. QED
      BY <3>1, <3>2, <3>3
  <2>10. WalksOK'
    <3>1. \A i \in 1..Len(stack) : stack[i].sock \in Sock
      BY <1>1, FrameTypes DEF TypeOK
    <3>2. QED
      BY <1>2, <1>3, <3>1 DEF IInv, WalksOK, Outermost
  <2>11. CalledOK'
    BY <1>1, <1>2, <2>2 DEF IInv, CalledOK, TypeOK
  <2>12. EnteredOK'
    BY <1>2 DEF IInv, EnteredOK
  <2>13. QED
    BY <1>1, <2>2, <2>6, <2>7, <2>8, <2>9, <2>10, <2>11, <2>12 DEF IInv
<1>6. QED
  BY <1>4, <1>5

\* The entry of call_gcfn keeps it: the list goes from the head to the walk.
LEMMA StartWalkIInv ==
    ASSUME IInv, NEW s \in Sock, StartWalk(s)
    PROVE  IInv'
<1> DEFINE n == Len(stack)
<1>1. TypeOK /\ TypeOK' /\ stack \in Seq(Frame) /\ n \in Nat
  BY NextTypeOK, LenProperties DEF IInv, Next, TypeOK
<1>2. /\ Len(stack') = n + 1
      /\ \A i \in 1..n : stack'[i] = stack[i]
      /\ stack'[n + 1] = [sock |-> s, cur |-> head[s], nxt |-> NULL, udf |-> FALSE]
  <2>1. [sock |-> s, cur |-> head[s], nxt |-> NULL, udf |-> FALSE] \in Frame
    BY <1>1 DEF TypeOK, Frame, Ptr
  <2>2. QED
    BY <1>1, <2>1, AppendProperties DEF StartWalk
<1>3. /\ \A t \in Sock : head'[t] = IF t = s THEN DONE ELSE head[t]
      /\ UNCHANGED <<ref, prev, next, mem, owner, stamp, clock, called>>
  BY <1>1 DEF StartWalk, TypeOK, history
<1>4. \A i \in 1..(n + 1) : i \in 1..n \/ i = n + 1
  BY <1>1
<1>5. \A i \in 1..n : i \in 1..(n + 1) /\ i # n + 1
  BY <1>1
<1>6. ListOK'
  BY <1>3, SameLists DEF IInv
<1>7. \A t \in Sock, a \in Fn : StartsAt(t, a)' <=> StartsAt(t, a)
  <2> SUFFICES ASSUME NEW t \in Sock, NEW a \in Fn
      PROVE  StartsAt(t, a)' <=> StartsAt(t, a)
    OBVIOUS
  <2> HIDE DEF n
  <2>1. StartsAt(t, a)' <=>
           \/ head'[t] = a
           \/ \E i \in 1..(n + 1) : stack'[i].sock = t /\ stack'[i].cur = a
    BY <1>2 DEF StartsAt
  <2>2. (\E i \in 1..(n + 1) : stack'[i].sock = t /\ stack'[i].cur = a) <=>
           \/ \E i \in 1..n : stack[i].sock = t /\ stack[i].cur = a
           \/ s = t /\ head[s] = a
    BY <1>1, <1>2, <1>4, <1>5
  <2>3. QED
    BY <1>3, <2>1, <2>2, ValuesAssumption DEF StartsAt, n
<1>8. NoStalePointer' /\ NoneLost' /\ StartsFirst'
  BY <1>3, <1>7 DEF IInv, NoStalePointer, NoneLost, StartsFirst, Registered,
     ListOK, StampsOK
<1>9. SavedNextIsCurrent'
  <2> SUFFICES ASSUME NEW i \in 1..(n + 1), stack'[i].udf
      PROVE  /\ stack'[i].cur \in Registered(stack[i].sock)'
             /\ next'[stack'[i].cur] = stack'[i].nxt
    BY <1>2 DEF SavedNextIsCurrent
  <2>1. i \in 1..n /\ stack'[i] = stack[i]
    BY <1>2, <1>4
  <2>2. QED
    BY <1>3, <2>1 DEF IInv, SavedNextIsCurrent, Registered
<1>10. WalksOK'
  <2> SUFFICES ASSUME NEW i \in 1..(n + 1)
      PROVE  /\ head'[stack'[i].sock] = DONE
             /\ i < n + 1 => stack'[i].udf
             /\ ~Outermost(i)' => stack'[i].cur \notin Fn
    BY <1>2 DEF WalksOK
  <2>1. \A j \in 1..n : stack[j].sock \in Sock
    BY <1>1, FrameTypes
  <2>2. CASE i \in 1..n
    <3>1. \A j \in 1..(i - 1) : j \in 1..n
      BY <1>1, <2>2
    <3>2. Outermost(i)' <=> Outermost(i)
      BY <1>2, <2>2, <3>1 DEF Outermost
    <3>3. i < n => stack[i].udf
      BY <2>2 DEF IInv, WalksOK
    <3>4. i = n => stack[i].udf
      BY <2>2, EmptySeq DEF StartWalk, ScriptRuns, Top
    <3>5. QED
      BY <1>1, <1>2, <1>3, <2>1, <2>2, <3>2, <3>3, <3>4 DEF IInv, WalksOK
  <2>3. CASE i = n + 1
    <3>1. ASSUME ~Outermost(i)' PROVE head[s] = DONE
      <4>1. PICK j \in 1..n : stack[j].sock = s
        BY <1>1, <1>2, <2>3, <3>1 DEF Outermost
      <4>2. QED
        BY <4>1 DEF IInv, WalksOK
    <3>2. QED
      BY <1>1, <1>2, <1>3, <2>3, <3>1, ValuesAssumption
  <2>4. QED
    BY <1>4, <2>2, <2>3
<1>11. CalledOK'
  BY <1>2, <1>3, <1>5 DEF IInv, CalledOK
<1>12. EnteredOK'
  BY <1>2, <1>3, <1>4 DEF IInv, EnteredOK
<1>13. QED
  BY <1>1, <1>6, <1>8, <1>9, <1>10, <1>11, <1>12 DEF IInv

\* A step of the innermost walk leaves the other frames and all sockets alone.
LEMMA StepOfTop ==
    ASSUME TypeOK, stack # <<>>,
           NEW c \in Ptr, NEW x \in Ptr, NEW u \in BOOLEAN, u => c \in Fn,
           SetTop(c, x, u)
    PROVE  /\ Len(stack) \in Nat \ {0} /\ Len(stack') = Len(stack)
           /\ \A i \in 1..Len(stack) : i < Len(stack) => stack'[i] = stack[i]
           /\ Top' = [sock |-> Top.sock, cur |-> c, nxt |-> x, udf |-> u]
           /\ \A i \in 1..Len(stack) :
                 /\ stack'[i].sock = stack[i].sock
                 /\ Outermost(i)' <=> Outermost(i)
<1>1. stack \in Seq(Frame)
  BY DEF TypeOK
<1>2. Len(stack) \in Nat \ {0} /\ Len(stack) \in 1..Len(stack)
  BY <1>1, TopIsFrame
<1>3. /\ Len(stack') = Len(stack)
      /\ \A i \in 1..(Len(stack) - 1) : stack'[i] = stack[i]
      /\ stack'[Len(stack)] = [sock |-> Top.sock, cur |-> c, nxt |-> x, udf |-> u]
  BY <1>1, SetTopFacts
<1>4. \A i \in 1..Len(stack) :
         /\ i < Len(stack) => stack'[i] = stack[i]
         /\ stack'[i].sock = stack[i].sock
  BY <1>2, <1>3 DEF Top
<1>5. \A i \in 1..Len(stack) : Outermost(i)' <=> Outermost(i)
  BY <1>2, <1>4 DEF Outermost
<1>6. QED
  BY <1>2, <1>3, <1>4, <1>5 DEF Top

\* The innermost walk, when it stands at a function.
LEMMA TopAtFn ==
    ASSUME IInv, stack # <<>>, Top.cur \in Fn
    PROVE  /\ Top.sock \in Sock /\ Top.cur \in Registered(Top.sock)
           /\ mem[Top.cur] = "live" /\ head[Top.sock] = DONE
           /\ \A i \in 1..Len(stack) :
                 i < Len(stack) => stack[i].udf /\ stack[i].sock # Top.sock
<1>1. stack \in Seq(Frame)
  BY DEF IInv, TypeOK
<1>2. Len(stack) \in 1..Len(stack) /\ Top = stack[Len(stack)] /\ Top \in Frame
  BY <1>1, TopIsFrame DEF Top
<1>3. Top.sock \in Sock
  BY <1>2 DEF Frame
<1>4. Top.cur \in Registered(Top.sock)
  BY <1>2, <1>3 DEF IInv, NoStalePointer, StartsAt
<1>5. Outermost(Len(stack)) /\ head[Top.sock] = DONE
  BY <1>2 DEF IInv, WalksOK
<1>6. \A i \in 1..Len(stack) :
         i < Len(stack) => stack[i].udf /\ stack[i].sock # Top.sock
  BY <1>2, <1>5 DEF IInv, WalksOK, Outermost
<1>7. QED
  BY <1>3, <1>4, <1>5, <1>6 DEF IInv, ListOK, Registered

\* Entering a UDF keeps it: its node is the newest one left of its socket.
LEMMA EnterUdfIInv ==
    ASSUME IInv, EnterUdf
    PROVE  IInv'
<1>1. TypeOK /\ TypeOK' /\ stack # <<>> /\ ~Top.udf /\ Top.cur \in Fn
  BY NextTypeOK DEF IInv, Next, WalkStep, EnterUdf, Visiting
<1>2. /\ Top.sock \in Sock /\ Top.cur \in Registered(Top.sock)
      /\ mem[Top.cur] = "live" /\ head[Top.sock] = DONE
      /\ \A i \in 1..Len(stack) :
            i < Len(stack) => stack[i].udf /\ stack[i].sock # Top.sock
  BY <1>1, TopAtFn
<1>3. SetTop(Top.cur, next[Top.cur], TRUE)
  BY <1>2 DEF EnterUdf, NextRead
<1>4. Top.cur \in Ptr /\ next[Top.cur] \in Ptr
  BY <1>1 DEF TypeOK, Ptr, Node
<1>5. /\ Len(stack) \in Nat \ {0} /\ Len(stack') = Len(stack)
      /\ \A i \in 1..Len(stack) : i < Len(stack) => stack'[i] = stack[i]
      /\ Top' = [sock |-> Top.sock, cur |-> Top.cur, nxt |-> next[Top.cur],
                 udf |-> TRUE]
      /\ \A i \in 1..Len(stack) :
            /\ stack'[i].sock = stack[i].sock
            /\ Outermost(i)' <=> Outermost(i)
  BY <1>1, <1>3, <1>4, StepOfTop
<1>6. /\ UNCHANGED <<head, ref, prev, next, mem, owner, stamp, clock>>
      /\ called' = called \cup {Top.cur}
  BY DEF EnterUdf
<1>7. \A i \in 1..Len(stack) : i < Len(stack) \/ stack'[i] = Top'
  BY <1>5 DEF Top
<1>8. \A i \in 1..Len(stack) : i < Len(stack) \/ stack[i] = Top
  BY <1>5 DEF Top
<1>9. \A i \in 1..Len(stack) : stack'[i].cur = stack[i].cur
  BY <1>5, <1>7, <1>8
<1>10. ListOK'
  BY <1>6, SameLists DEF IInv
<1>11. \A t \in Sock, a \in Fn : StartsAt(t, a)' <=> StartsAt(t, a)
  BY <1>5, <1>6, <1>9 DEF StartsAt
<1>12. NoStalePointer' /\ NoneLost' /\ StartsFirst'
  BY <1>6, <1>11 DEF IInv, NoStalePointer, NoneLost, StartsFirst, Registered,
     ListOK, StampsOK
<1>13. SavedNextIsCurrent'
  BY <1>2, <1>5, <1>6, <1>7 DEF IInv, SavedNextIsCurrent, Registered
<1>14. WalksOK'
  BY <1>2, <1>5, <1>6, <1>9 DEF IInv, WalksOK
<1>15. CalledOK'
  <2> SUFFICES ASSUME NEW g \in called'
      PROVE  /\ mem'[g] # "unused"
             /\ ref'[g] => \E i \in 1..Len(stack') : stack'[i].udf /\ stack'[i].cur = g
    BY DEF CalledOK
  <2>1. CASE g = Top.cur
    <3>1. Len(stack) \in 1..Len(stack') /\ stack'[Len(stack)] = Top'
      BY <1>5 DEF Top
    <3>2. QED
      BY <1>2, <1>5, <1>6, <2>1, <3>1
  <2>2. CASE g \in called
    BY <1>1, <1>5, <1>6, <1>8, <2>2 DEF IInv, CalledOK
  <2>3. QED
    BY <1>6, <2>1, <2>2
<1>16. EnteredOK'
  BY <1>5, <1>6, <1>7 DEF IInv, EnteredOK
<1>17. QED
  BY <1>1, <1>10, <1>12, <1>13, <1>14, <1>15, <1>16 DEF IInv

\* A walk that stands at the sentinel ends: nothing else changes.
LEMMA LeaveSentinelIInv ==
    ASSUME IInv, TypeOK', stack # <<>>, ~Top.udf, Top.cur = DONE,
           SetTop(NULL, NULL, FALSE),
           \A g \in Fn : ref'[g] = ref[g],
           UNCHANGED <<head, prev, next, mem, owner, stamp, clock, called>>
    PROVE  IInv'
<1>1. NULL \in Ptr /\ FALSE \in BOOLEAN /\ DONE \notin Fn /\ NULL \notin Fn
  BY ValuesAssumption DEF Ptr
<1>2. /\ Len(stack) \in Nat \ {0} /\ Len(stack') = Len(stack)
      /\ \A i \in 1..Len(stack) : i < Len(stack) => stack'[i] = stack[i]
      /\ Top' = [sock |-> Top.sock, cur |-> NULL, nxt |-> NULL, udf |-> FALSE]
      /\ \A i \in 1..Len(stack) :
            /\ stack'[i].sock = stack[i].sock
            /\ Outermost(i)' <=> Outermost(i)
  <2>1. TypeOK /\ (FALSE => NULL \in Fn)
    BY DEF IInv
  <2>2. QED
    BY <1>1, <2>1, StepOfTop
<1>3. \A i \in 1..Len(stack) : i < Len(stack) \/ (stack'[i] = Top' /\ stack[i] = Top)
  BY <1>2 DEF Top
<1>4. \A i \in 1..Len(stack), a \in Fn : stack'[i].cur = a <=> stack[i].cur = a
  BY <1>1, <1>2, <1>3
<1>5. ListOK'
  BY DEF IInv, ListOK, SentinelOK, StampsOK, WellLinked, Registered
<1>6. \A t \in Sock, a \in Fn : StartsAt(t, a)' <=> StartsAt(t, a)
  BY <1>2, <1>4 DEF StartsAt
<1>7. NoStalePointer' /\ NoneLost' /\ StartsFirst'
  BY <1>6 DEF IInv, NoStalePointer, NoneLost, StartsFirst, Registered,
     ListOK, StampsOK
<1>8. SavedNextIsCurrent'
  BY <1>2, <1>3 DEF IInv, SavedNextIsCurrent, Registered
<1>9. WalksOK'
  BY <1>1, <1>2, <1>3 DEF IInv, WalksOK
<1>10. CalledOK'
  BY <1>2, <1>3 DEF IInv, CalledOK, TypeOK
<1>11. EnteredOK'
  BY <1>2, <1>3 DEF IInv, EnteredOK
<1>12. QED
  BY <1>5, <1>7, <1>8, <1>9, <1>10, <1>11 DEF IInv

\* Passing a deleted node keeps it: only the sentinel can be met so.
LEMMA SkipDeletedIInv ==
    ASSUME IInv, SkipDeleted
    PROVE  IInv'
<1>1. TypeOK /\ TypeOK' /\ stack # <<>> /\ ~Top.udf /\ Top.cur # NULL
  BY NextTypeOK DEF IInv, Next, WalkStep, SkipDeleted, Visiting
<1>2. Top.cur \notin Fn
  BY <1>1, TopAtFn DEF SkipDeleted, RefRead, Registered
<1>3. Top.cur = DONE
  <2>1. Top \in Frame
    BY <1>1, TopIsFrame DEF TypeOK
  <2>2. QED
    BY <1>1, <1>2, <2>1 DEF Frame, Ptr, Node
<1>4. SetTop(NULL, NULL, FALSE)
  BY <1>3 DEF SkipDeleted, NextRead, IInv, ListOK, SentinelOK
<1>5. QED
  BY <1>1, <1>3, <1>4, LeaveSentinelIInv DEF SkipDeleted, history

\* The call of the sentinel keeps it, though it takes away its reference.
LEMMA VisitSentinelIInv ==
    ASSUME IInv, VisitSentinel
    PROVE  IInv'
<1>1. TypeOK /\ TypeOK' /\ stack # <<>> /\ ~Top.udf /\ Top.cur = DONE
  BY NextTypeOK DEF IInv, Next, WalkStep, VisitSentinel, Visiting
<1>2. prev[DONE] = NULL /\ next[DONE] = NULL
  BY DEF IInv, ListOK, SentinelOK
<1>3. SetTop(NULL, NULL, FALSE)
  BY <1>2 DEF VisitSentinel
<1>4. \A n \in Node : n # NULL
  BY ValuesAssumption DEF Node
<1>5. prev' = prev /\ next' = next
  BY <1>1, <1>2, <1>4 DEF VisitSentinel, Unlink, TypeOK
<1>6. \A g \in Fn : ref'[g] = ref[g]
  BY <1>1, ValuesAssumption DEF VisitSentinel, Unlink, TypeOK, Node
<1>7. QED
  BY <1>1, <1>3, <1>5, <1>6, LeaveSentinelIInv DEF VisitSentinel, history

\* The end of call_gcfn keeps it: a walk that has ended owes no function.
LEMMA FinishWalkIInv ==
    ASSUME IInv, FinishWalk
    PROVE  IInv'
<1> DEFINE n == Len(stack) - 1
<1>1. /\ TypeOK /\ TypeOK' /\ stack \in Seq(Frame) /\ stack # <<>>
      /\ ~Top.udf /\ Top.cur = NULL
      /\ UNCHANGED <<head, ref, prev, next, mem, owner, stamp, clock, called>>
  BY NextTypeOK DEF IInv, Next, WalkStep, FinishWalk, TypeOK, history
<1>2. /\ Len(stack) \in Nat \ {0} /\ n \in Nat /\ Len(stack') = n
      /\ \A i \in 1..n : stack'[i] = stack[i]
  BY <1>1, TopIsFrame, PopFacts DEF FinishWalk
<1>3. \A i \in 1..Len(stack) : i \in 1..n \/ stack[i] = Top
  BY <1>2 DEF Top
<1>4. \A i \in 1..n : i \in 1..Len(stack) /\ i < Len(stack)
  BY <1>2
<1>5. ListOK'
  BY <1>1, SameLists DEF IInv
<1>6. \A t \in Sock, a \in Fn : StartsAt(t, a)' <=> StartsAt(t, a)
  BY <1>1, <1>2, <1>3, <1>4, ValuesAssumption DEF StartsAt
<1>7. NoStalePointer' /\ NoneLost' /\ StartsFirst'
  BY <1>1, <1>6 DEF IInv, NoStalePointer, NoneLost, StartsFirst, Registered,
     ListOK, StampsOK
<1>8. SavedNextIsCurrent'
  BY <1>1, <1>2, <1>4 DEF IInv, SavedNextIsCurrent, Registered
<1>9. WalksOK'
  <2>1. \A i \in 1..n : Outermost(i)' <=> Outermost(i)
    BY <1>2 DEF Outermost
  <2>2. QED
    BY <1>1, <1>2, <1>4, <2>1 DEF IInv, WalksOK
<1>10. CalledOK'
  BY <1>1, <1>2, <1>3 DEF IInv, CalledOK
<1>11. EnteredOK'
  BY <1>1, <1>2, <1>4 DEF IInv, EnteredOK
<1>12. QED
  BY <1>1, <1>5, <1>7, <1>8, <1>9, <1>10, <1>11 DEF IInv

\* The collector keeps it: nothing points to a node without references.
LEMMA CollectIInv ==
    ASSUME IInv, NEW g \in Fn, Collect(g)
    PROVE  IInv'
<1>1. TypeOK /\ TypeOK'
  BY NextTypeOK DEF IInv, Next
<1>2. /\ ~ref[g] /\ g # DONE
      /\ \A n \in Node : mem'[n] = IF n = g THEN "freed" ELSE mem[n]
      /\ UNCHANGED <<head, ref, prev, next, stack, owner, stamp, clock, called>>
  BY <1>1, ValuesAssumption DEF Collect, TypeOK, history
<1>3. ListOK'
  BY <1>2 DEF IInv, ListOK, SentinelOK, StampsOK, WellLinked, Registered, Node
<1>4. NoStalePointer' /\ NoneLost' /\ StartsFirst'
  BY <1>2, <1>3 DEF IInv, NoStalePointer, NoneLost, StartsFirst, Registered,
     StartsAt, ListOK
<1>5. SavedNextIsCurrent' /\ WalksOK'
  BY <1>2 DEF IInv, SavedNextIsCurrent, WalksOK, Outermost, Registered
<1>6. CalledOK'
  BY <1>1, <1>2 DEF IInv, CalledOK, TypeOK, Node
<1>7. EnteredOK'
  BY <1>2 DEF IInv, EnteredOK
<1>8. QED
  BY <1>1, <1>3, <1>4, <1>5, <1>6, <1>7 DEF IInv

\* The return of a UDF keeps it: the saved next is the next newest function.
LEMMA UdfReturnIInv ==
    ASSUME IInv, UdfReturn
    PROVE  IInv'
<1> DEFINE g == Top.cur
           s == Top.sock
<1>1. /\ TypeOK /\ TypeOK' /\ stack # <<>> /\ Top.udf
      /\ UNCHANGED <<head, mem, owner, stamp, clock, called>>
  BY NextTypeOK DEF IInv, Next, UdfReturn, history
<1>2. Top \in Frame /\ g \in Fn /\ Top.nxt \in Ptr
  BY <1>1, TopIsFrame DEF TypeOK, Frame
<1>3. /\ s \in Sock /\ g \in Registered(s) /\ head[s] = DONE
      /\ \A i \in 1..Len(stack) :
            i < Len(stack) => stack[i].udf /\ stack[i].sock # s
  BY <1>1, <1>2, TopAtFn
<1>4. Top.nxt = next[g]
  BY <1>1, TopIsFrame DEF IInv, TypeOK, SavedNextIsCurrent, Top
<1>5. ref[g] /\ owner[g] = s /\ Unlink(g)
  BY <1>3 DEF UdfReturn, Registered
<1>6. /\ Len(stack) \in Nat \ {0} /\ Len(stack') = Len(stack)
      /\ \A i \in 1..Len(stack) : i < Len(stack) => stack'[i] = stack[i]
      /\ Top' = [sock |-> s, cur |-> next[g], nxt |-> NULL, udf |-> FALSE]
      /\ \A i \in 1..Len(stack) :
            /\ stack'[i].sock = stack[i].sock
            /\ Outermost(i)' <=> Outermost(i)
  <2>1. NULL \in Ptr /\ (FALSE => NULL \in Fn) /\ SetTop(Top.nxt, NULL, FALSE)
    BY DEF Ptr, UdfReturn
  <2>2. QED
    BY <1>1, <1>2, <1>4, <2>1, StepOfTop
<1>7. /\ ListOK'
      /\ \A h \in Fn : ref'[h] <=> ref[h] /\ h # g
      /\ \A h \in Fn : ref[h] /\ owner[h] # s =>
            next'[h] = next[h] /\ prev'[h] = prev[h]
      /\ next[g] \in Fn => prev'[next[g]] = prev[g]
  BY <1>1, <1>2, <1>5, UnlinkListOK DEF IInv
<1>8. /\ prev[g] = NULL
      /\ next[g] \in Registered(s) \cup {NULL}
      /\ next[g] \in Fn => stamp[next[g]] < stamp[g]
  <2>1. prev[g] = NULL
    BY <1>1, <1>2, <1>3, TopIsFrame DEF IInv, StartsFirst, StartsAt, TypeOK, Top
  <2>2. next[g] \in Registered(s) \cup {NULL}
    BY <1>2, <1>5 DEF IInv, ListOK
  <2>3. next[g] \in Fn => stamp[next[g]] < stamp[g]
    BY <1>1, <1>2, <1>5, <2>2, ValuesAssumption
    DEF IInv, ListOK, WellLinked, Registered, TypeOK
  <2>4. QED
    BY <2>1, <2>2, <2>3
<1>9. /\ Len(stack) \in 1..Len(stack)
      /\ \A i \in 1..Len(stack) :
            i < Len(stack) \/ (i = Len(stack) /\ stack'[i] = Top' /\ stack[i] = Top)
  BY <1>6 DEF Top
<1>10. \A t \in Sock, a \in Fn :
          /\ StartsAt(t, a)' <=> IF t = s THEN a = next[g] ELSE StartsAt(t, a)
          /\ t = s => (StartsAt(t, a) <=> a = g)
  <2> SUFFICES ASSUME NEW t \in Sock, NEW a \in Fn
      PROVE  /\ StartsAt(t, a)' <=> IF t = s THEN a = next[g] ELSE StartsAt(t, a)
             /\ t = s => (StartsAt(t, a) <=> a = g)
    OBVIOUS
  <2>1. CASE t = s
    <3>1. head[t] # a /\ head'[t] # a
      BY <1>1, <1>3, <2>1, ValuesAssumption
    <3>2. \A i \in 1..Len(stack) : stack[i].sock = t <=> i = Len(stack)
      BY <1>3, <1>6, <1>9, <2>1
    <3>3. StartsAt(t, a) <=> a = g
      BY <1>9, <3>1, <3>2 DEF StartsAt
    <3>4. StartsAt(t, a)' <=> a = next[g]
      BY <1>6, <1>9, <3>1, <3>2 DEF StartsAt
    <3>5. QED
      BY <2>1, <3>3, <3>4
  <2>2. CASE t # s
    <3>1. \A i \in 1..Len(stack) : stack[i].sock = t => stack'[i] = stack[i]
      BY <1>6, <1>9, <2>2
    <3>2. QED
      BY <1>1, <1>6, <2>2, <3>1 DEF StartsAt
  <2>3. QED
    BY <2>1, <2>2
<1>11. \A t \in Sock : Registered(t)' = Registered(t) \ {g}
  BY <1>1, <1>7 DEF Registered
<1>12. next[g] # g
  BY <1>1, <1>2, <1>8 DEF TypeOK
<1>13. NoStalePointer'
  <2>1. ASSUME NEW t \in Sock, NEW a \in Fn, StartsAt(t, a)'
        PROVE  a \in Registered(t)'
    <3>1. CASE t = s
      BY <1>8, <1>10, <1>11, <1>12, <2>1, <3>1, ValuesAssumption
    <3>2. CASE t # s
      BY <1>5, <1>10, <1>11, <2>1, <3>2 DEF IInv, NoStalePointer, Registered
    <3>3. QED
      BY <3>1, <3>2
  <2>2. QED
    BY <1>7, <2>1 DEF NoStalePointer, ListOK
<1>14. NoneLost'
  <2> SUFFICES ASSUME NEW h \in Fn, ref'[h]
      PROVE  \E a \in Registered(owner[h])' :
                StartsAt(owner[h], a)' /\ stamp'[h] =< stamp'[a]
    BY DEF NoneLost
  <2>1. ref[h] /\ h # g /\ owner'[h] = owner[h] /\ owner[h] \in Sock
    BY <1>1, <1>7 DEF IInv, ListOK, StampsOK
  <2>2. PICK a \in Registered(owner[h]) :
           StartsAt(owner[h], a) /\ stamp[h] =< stamp[a]
    BY <2>1 DEF IInv, NoneLost
  <2>3. CASE owner[h] # s
    <3>1. a # g /\ a \in Fn
      BY <1>5, <2>2, <2>3 DEF Registered
    <3>2. QED
      BY <1>1, <1>10, <1>11, <2>1, <2>2, <2>3, <3>1
  <2>4. CASE owner[h] = s
    <3>1. stamp[h] < stamp[g]
      <4>1. a = g
        BY <1>10, <2>1, <2>2, <2>4 DEF Registered
      <4>2. stamp[h] # stamp[g]
        BY <1>2, <1>5, <2>1 DEF IInv, ListOK, StampsOK
      <4>3. stamp[h] \in Nat /\ stamp[g] \in Nat
        BY <1>1, <1>2 DEF TypeOK
      <4>4. QED
        BY <2>2, <4>1, <4>2, <4>3
    <3>2. next[g] # NULL /\ stamp[next[g]] >= stamp[h]
      BY <1>1, <1>2, <1>5, <2>1, <2>4, <3>1 DEF IInv, ListOK, WellLinked, TypeOK
    <3>3. PICK t \in Sock : t = s
      BY <1>3
    <3>4. PICK b \in Registered(t) : b = next[g]
      BY <1>8, <3>2, <3>3
    <3>5. b \in Registered(t)' /\ StartsAt(t, b)'
      <4>1. b \in Fn /\ b # g
        BY <1>12, <3>4 DEF Registered
      <4>2. QED
        BY <1>10, <1>11, <3>3, <3>4, <4>1
    <3>6. stamp'[h] =< stamp'[b] /\ owner'[h] = t
      BY <1>1, <2>1, <2>4, <3>2, <3>3, <3>4
    <3>7. QED
      BY <3>5, <3>6
  <2>5. QED
    BY <2>3, <2>4
<1>15. SavedNextIsCurrent'
  <2> SUFFICES ASSUME NEW i \in 1..Len(stack), stack'[i].udf
      PROVE  /\ stack'[i].cur \in Registered(stack[i].sock)'
             /\ next'[stack'[i].cur] = stack'[i].nxt
    BY <1>6 DEF SavedNextIsCurrent
  <2>1. i < Len(stack) /\ stack'[i] = stack[i] /\ stack[i].sock # s
    BY <1>3, <1>6, <1>9
  <2>2. /\ stack[i].cur \in Registered(stack[i].sock)
        /\ next[stack[i].cur] = stack[i].nxt
    BY <2>1 DEF IInv, SavedNextIsCurrent
  <2>3. QED
    BY <1>1, <1>5, <1>7, <2>1, <2>2 DEF Registered
<1>16. StartsFirst'
  <2> SUFFICES ASSUME NEW t \in Sock, NEW a \in Fn, StartsAt(t, a)'
      PROVE  prev'[a] = NULL
    BY DEF StartsFirst
  <2>1. CASE t # s
    BY <1>7, <1>10, <2>1 DEF IInv, NoStalePointer, StartsFirst, Registered
  <2>2. CASE t = s
    BY <1>7, <1>8, <1>10, <2>2
  <2>3. QED
    BY <2>1, <2>2
<1>17. WalksOK'
  <2> SUFFICES ASSUME NEW i \in 1..Len(stack)
      PROVE  /\ head[stack[i].sock] = DONE
             /\ i < Len(stack) => stack'[i].udf
             /\ ~Outermost(i) => stack'[i].cur \notin Fn
    BY <1>1, <1>6 DEF WalksOK
  <2>1. i = Len(stack) => Outermost(i)
    BY <1>2, <1>9 DEF IInv, WalksOK
  <2>2. QED
    BY <1>6, <1>9, <2>1 DEF IInv, WalksOK
<1>18. CalledOK'
  BY <1>1, <1>6, <1>7, <1>9 DEF IInv, CalledOK, TypeOK
<1>19. EnteredOK'
  BY <1>1, <1>6, <1>9 DEF IInv, EnteredOK
<1>20. QED
  BY <1>1, <1>7, <1>13, <1>14, <1>15, <1>16, <1>17, <1>18, <1>19 DEF IInv
-----------------------------------------------------------------------------
(* The theorems.                                                           *)

\* Every step of an instance whose scripts pass delgcfn only gcfns of its own
\* socket keeps the invariant.
LEMMA NextIInv ==
    ASSUME ~ForeignDel
    PROVE  IInv /\ [Next]_vars => IInv'
<1> SUFFICES ASSUME IInv, [Next]_vars PROVE IInv'
  OBVIOUS
<1>1. ASSUME NEW s \in Sock, NEW g \in Fn, AddGcfn(s, g) PROVE IInv'
  BY <1>1, AddGcfnIInv
<1>2. ASSUME NEW s \in Sock, NEW g \in Fn, DelGcfn(s, g) PROVE IInv'
  BY <1>2, DelGcfnIInv
<1>3. ASSUME NEW s \in Sock, StartWalk(s) PROVE IInv'
  BY <1>3, StartWalkIInv
<1>4. CASE EnterUdf
  BY <1>4, EnterUdfIInv
<1>5. CASE SkipDeleted
  BY <1>5, SkipDeletedIInv
<1>6. CASE VisitSentinel
  BY <1>6, VisitSentinelIInv
<1>7. CASE FinishWalk
  BY <1>7, FinishWalkIInv
<1>8. CASE UdfReturn
  BY <1>8, UdfReturnIInv
<1>9. ASSUME NEW g \in Fn, Collect(g) PROVE IInv'
  BY <1>9, CollectIInv
<1>10. CASE UNCHANGED vars
  BY <1>10 DEF vars, IInv, TypeOK, ListOK, SentinelOK, StampsOK, WellLinked,
     NoStalePointer, NoneLost, SavedNextIsCurrent, StartsFirst, WalksOK,
     CalledOK, EnteredOK, Registered, StartsAt, Outermost
<1>11. QED
  BY <1>1, <1>2, <1>3, <1>4, <1>5, <1>6, <1>7, <1>8, <1>9, <1>10
  DEF Next, WalkStep

\* The inductive invariant holds in every reachable state.
THEOREM Inductive ==
    ASSUME ~ForeignDel
    PROVE  Spec => []IInv
BY InitIInv, NextIInv, PTL DEF Spec

\* No pointer the C code follows leads to a deleted node.
THEOREM ListsNeverStale ==
    ASSUME ~ForeignDel
    PROVE  Spec => []NoStalePointer
<1>1. IInv => NoStalePointer
  BY DEF IInv
<1>2. QED
  BY <1>1, Inductive, PTL

\* The walk's saved next is never overtaken by what a UDF does.
THEOREM SavedNextSafe ==
    ASSUME ~ForeignDel
    PROVE  Spec => []SavedNextIsCurrent
<1>1. IInv => SavedNextIsCurrent
  BY DEF IInv
<1>2. QED
  BY <1>1, Inductive, PTL

\* Links are mutual and sorted, and a list starts at its newest function.
THEOREM ListsComplete ==
    ASSUME ~ForeignDel
    PROVE  Spec => []ListsIntact
<1>1. IInv => ListsIntact
  BY DEF IInv, ListOK, ListsIntact
<1>2. QED
  BY <1>1, Inductive, PTL

\* A socket whose outermost walk has ended has no function left uncalled.
LEMMA IInvCallsAll == IInv => AllCalledAtEnd
<1> SUFFICES ASSUME IInv, NEW i \in 1..Len(stack), Outermost(i),
                    stack[i].cur = NULL, NEW g \in Registered(stack[i].sock)
             PROVE  FALSE
  BY DEF AllCalledAtEnd
<1> DEFINE s == stack[i].sock
<1>1. s \in Sock /\ head[s] = DONE /\ stack \in Seq(Frame)
  BY FrameTypes DEF IInv, WalksOK, TypeOK
<1>2. PICK a \in Registered(s) : StartsAt(s, a)
  BY DEF IInv, NoneLost, Registered
<1>3. PICK j \in 1..Len(stack) : stack[j].sock = s /\ stack[j].cur = a
  BY <1>1, <1>2, ValuesAssumption DEF StartsAt, Registered
<1>4. Outermost(j) /\ j # i
  BY <1>3, ValuesAssumption DEF IInv, WalksOK, Registered
<1>5. j < i \/ i < j
  BY <1>4
<1>6. QED
  BY <1>3, <1>4, <1>5 DEF Outermost

\* When the outermost walk of a socket ends, each of its functions was called.
THEOREM ClosingCallsAll ==
    ASSUME ~ForeignDel
    PROVE  Spec => []AllCalledAtEnd
BY IInvCallsAll, Inductive, PTL

\* A UDF is entered at most once, while it is registered, only when its socket
\* is closing, and before every older function of the socket.
THEOREM NewestFirstOnce ==
    ASSUME ~ForeignDel
    PROVE  Spec => CalledOnceNewestFirst
<1>1. ASSUME IInv, [Next]_vars, EntersUdf PROVE EnterUdf
  <2>0. stack # <<>> /\ ~Top.udf /\ Len(stack') = Len(stack) /\ Top'.udf
    BY <1>1 DEF EntersUdf
  <2>1. ~ScriptRuns
    BY <1>1, <2>0 DEF ScriptRuns
  <2>2. stack \in Seq(Frame) /\ Len(stack) \in Nat \ {0}
    BY <1>1, <2>0, TopIsFrame DEF IInv, TypeOK
  <2>3. ~SkipDeleted
    <3> SUFFICES ASSUME SkipDeleted PROVE FALSE
      OBVIOUS
    <3>1. PICK n \in NextRead(Top.cur) : SetTop(n, NULL, FALSE)
      BY DEF SkipDeleted
    <3>2. stack'[Len(stack)] = [sock |-> Top.sock, cur |-> n, nxt |-> NULL, udf |-> FALSE]
      BY <2>2, <3>1 DEF SetTop
    <3>3. QED
      BY <1>1, <2>0, <3>2 DEF Top
  <2>4. ~VisitSentinel
    BY <1>1, <2>0, <2>2 DEF VisitSentinel, SetTop, Top
  <2>5. ~FinishWalk
    BY <1>1, <2>0, <2>2, PopFacts DEF FinishWalk
  <2>6. stack' # stack
    BY <1>1, <2>0 DEF Top
  <2>7. QED
    BY <1>1, <2>0, <2>1, <2>3, <2>4, <2>5, <2>6
    DEF Next, WalkStep, AddGcfn, Link, DelGcfn, StartWalk, UdfReturn, Collect, vars
<1>2. ASSUME IInv, EnterUdf PROVE CalledInOrder
  <2>1. stack # <<>> /\ ~Top.udf /\ Top.cur \in Fn
    BY <1>2 DEF EnterUdf, Visiting
  <2>2. /\ Top.sock \in Sock /\ Top.cur \in Registered(Top.sock)
        /\ head[Top.sock] = DONE
        /\ \A i \in 1..Len(stack) :
              i < Len(stack) => stack[i].sock # Top.sock
    BY <1>2, <2>1, TopAtFn
  <2>3. ref[Top.cur] /\ owner[Top.cur] = Top.sock
    BY <2>2 DEF Registered
  <2>4. \A i \in 1..Len(stack) : i < Len(stack) \/ stack[i] = Top
    BY <1>2, <2>1, TopIsFrame DEF IInv, TypeOK, Top
  <2>5. Top.cur \notin called
    <3> SUFFICES ASSUME Top.cur \in called PROVE FALSE
      OBVIOUS
    <3>1. PICK i \in 1..Len(stack) : stack[i].udf /\ stack[i].cur = Top.cur
      BY <1>2, <2>3 DEF IInv, CalledOK
    <3>2. Top.cur \in Registered(stack[i].sock)
      BY <1>2, <3>1 DEF IInv, SavedNextIsCurrent
    <3>3. QED
      BY <2>1, <2>2, <2>3, <2>4, <3>1, <3>2 DEF Registered
  <2>6. ASSUME NEW h \in Registered(Top.sock) PROVE stamp[h] =< stamp[Top.cur]
    <3>1. PICK a \in Registered(Top.sock) :
             StartsAt(Top.sock, a) /\ stamp[h] =< stamp[a]
      BY <1>2 DEF IInv, NoneLost, Registered
    <3>2. a = Top.cur
      BY <2>2, <2>4, <3>1, ValuesAssumption DEF StartsAt, Registered
    <3>3. QED
      BY <3>1, <3>2
  <2>7. QED
    BY <2>2, <2>3, <2>5, <2>6 DEF CalledInOrder
<1>3. IInv /\ [Next]_vars => [CalledInOrder]_vars
  BY <1>1, <1>2 DEF CalledInOrder
<1>4. QED
  BY <1>3, Inductive, PTL DEF Spec, CalledOnceNewestFirst

\* The list of a socket that is DONE shrinks by calls alone.
THEOREM DoneListShrinksByCalls ==
    ASSUME ~ForeignDel
    PROVE  Spec => DoneOnlyCalls
<1>1. ASSUME IInv, [Next]_vars, NEW s \in Sock, head[s] = DONE PROVE OnlyCallsOf(s)
  <2>0. TypeOK
    BY <1>1 DEF IInv
  <2>1. ASSUME NEW t \in Sock, NEW g \in Fn, AddGcfn(t, g) PROVE OnlyCallsOf(s)
    <3>1. ~ref[g] /\ t # s
      BY <1>1, <2>1 DEF AddGcfn, Link, IInv, ListOK
    <3>2. QED
      BY <1>1, <2>0, <2>1, <3>1 DEF AddGcfn, Link, OnlyCallsOf, Registered, TypeOK, Node
  <2>2. ASSUME NEW t \in Sock, NEW g \in Fn, DelGcfn(t, g) PROVE OnlyCallsOf(s)
    <3>1. t # s /\ head'[s] = DONE /\ owner' = owner
      BY <1>1, <2>0, <2>2 DEF DelGcfn, TypeOK, history
    <3>2. \A h \in Fn : ref'[h] = (ref[h] /\ ~(h = g /\ owner[g] = t))
      BY <2>0, <2>2 DEF DelGcfn, Unlink, nodes, TypeOK, Node
    <3>3. QED
      BY <3>1, <3>2 DEF OnlyCallsOf, Registered
  <2>3. ASSUME NEW t \in Sock, StartWalk(t) PROVE OnlyCallsOf(s)
    BY <1>1, <2>0, <2>3 DEF StartWalk, OnlyCallsOf, Registered, TypeOK, history
  <2>4. CASE EnterUdf \/ SkipDeleted \/ FinishWalk
    BY <1>1, <2>4 DEF EnterUdf, SkipDeleted, FinishWalk, OnlyCallsOf, Registered, history
  <2>5. CASE VisitSentinel
    BY <1>1, <2>0, <2>5, ValuesAssumption
    DEF VisitSentinel, Unlink, OnlyCallsOf, Registered, history, TypeOK, Node
  <2>6. CASE UdfReturn
    <3>1. Len(stack) \in 1..Len(stack) /\ Top.cur \in Fn
      BY <2>0, <2>6, TopIsFrame DEF UdfReturn, TypeOK, Frame
    <3>2. Top.cur \in called
      BY <1>1, <2>6, <3>1 DEF IInv, EnteredOK, UdfReturn, Top
    <3>3. \A h \in Fn : h # Top.cur => ref'[h] = ref[h]
      BY <2>0, <2>6 DEF UdfReturn, Unlink, nodes, TypeOK, Node
    <3>4. ref'[Top.cur] => ref[Top.cur]
      BY <2>0, <2>6, <3>1 DEF UdfReturn, Unlink, nodes, TypeOK, Node
    <3>5. QED
      BY <1>1, <2>6, <3>2, <3>3, <3>4 DEF UdfReturn, OnlyCallsOf, Registered, history
  <2>7. ASSUME NEW g \in Fn, Collect(g) PROVE OnlyCallsOf(s)
    BY <1>1, <2>7 DEF Collect, OnlyCallsOf, Registered, history
  <2>8. CASE UNCHANGED vars
    BY <1>1, <2>8 DEF vars, OnlyCallsOf, Registered
  <2>9. QED
    BY <1>1, <2>1, <2>2, <2>3, <2>4, <2>5, <2>6, <2>7, <2>8 DEF Next, WalkStep
<1>2. IInv /\ [Next]_vars => [\A s \in Sock : OnlyCallsOf(s)]_vars
  BY <1>1 DEF OnlyCallsOf
<1>3. QED
  BY <1>2, Inductive, PTL DEF Spec, DoneOnlyCalls
-----------------------------------------------------------------------------
(* addgcfn interrupted by finalisers (module GcfnAlloc).                   *)

\* What AllocTypeOK says of the addgcfn calls in progress.
LEMMA AddingTypes ==
    ASSUME AllocTypeOK
    PROVE  /\ Len(adding) \in Nat /\ Len(stack) \in Nat
           /\ \A k \in 1..Len(adding) : adding[k].sock \in Sock /\ adding[k].depth \in Nat
<1>1. adding \in Seq([sock : Sock, depth : Nat]) /\ stack \in Seq(Frame)
  BY DEF AllocTypeOK, TypeOK
<1>2. Len(adding) \in Nat /\ Len(stack) \in Nat
  BY <1>1, LenProperties
<1>3. \A k \in 1..Len(adding) : adding[k] \in [sock : Sock, depth : Nat]
  BY <1>1, ElementOfSeq
<1>4. QED
  BY <1>2, <1>3

\* An addgcfn in progress does not notice what happens above its frame.
LEMMA AddsKept ==
    ASSUME AllocInv, adding' = adding,
           NEW n \in Nat, n =< Len(stack), n =< Len(stack'), Len(stack') \in Nat,
           \A k \in 1..Len(adding) : adding[k].depth =< n,
           \A i \in 1..n : stack'[i].sock = stack[i].sock /\ stack'[i].udf = stack[i].udf
    PROVE  AddsSafe'
<1>1. /\ Len(adding) \in Nat /\ Len(stack) \in Nat
      /\ \A k \in 1..Len(adding) : adding[k].depth \in Nat
  BY AddingTypes DEF AllocInv
<1>2. ASSUME NEW k \in 1..Len(adding), NEW d \in Nat, d = adding[k].depth
      PROVE  /\ d =< Len(stack')
             /\ d > 0 => stack'[d].udf
             /\ \A i \in 1..d : stack'[i].sock # adding[k].sock
             /\ \A l \in 1..k : adding[l].depth =< d
  <2>1. /\ d > 0 => stack[d].udf
        /\ \A i \in 1..d : stack[i].sock # adding[k].sock
        /\ \A l \in 1..k : adding[l].depth =< d
    BY <1>2 DEF AllocInv, AddsSafe
  <2>2. d =< n /\ \A i \in 1..d : i \in 1..n
    BY <1>1, <1>2
  <2>3. d > 0 => d \in 1..n
    BY <2>2
  <2>4. d =< Len(stack')
    BY <2>2
  <2>5. QED
    BY <2>1, <2>2, <2>3, <2>4
<1>3. QED
  BY <1>1, <1>2 DEF AddsSafe

\* Below a walk between two UDFs, and below a UDF that has called nothing, every
\* addgcfn in progress is further down.
LEMMA AddsBelowTop ==
    ASSUME AllocInv, stack # <<>>, ~Top.udf \/ ~Allocating
    PROVE  \A k \in 1..Len(adding) : adding[k].depth =< Len(stack) - 1
<1>1. /\ Len(adding) \in Nat /\ Len(stack) \in Nat /\ Len(stack) # 0
      /\ \A k \in 1..Len(adding) : adding[k].depth \in Nat
  BY AddingTypes, EmptySeq, TopIsFrame DEF AllocInv, AllocTypeOK, TypeOK
<1>2. SUFFICES ASSUME NEW k \in 1..Len(adding) PROVE adding[k].depth # Len(stack)
  BY <1>1 DEF AllocInv, AddsSafe
<1>3. CASE ~Top.udf
  BY <1>1, <1>3 DEF AllocInv, AddsSafe, Top
<1>4. CASE ~Allocating
  <2>1. Len(adding) \in 1..Len(adding) /\ k \in 1..Len(adding) /\ adding # <<>>
    BY <1>1
  <2>2. adding[Len(adding)].depth # Len(stack)
    BY <1>4, <2>1 DEF Allocating
  <2>3. /\ adding[Len(adding)].depth =< Len(stack)
        /\ adding[k].depth =< adding[Len(adding)].depth
    BY <1>1, <2>1 DEF AllocInv, AddsSafe
  <2>4. QED
    BY <1>1, <2>1, <2>2, <2>3
<1>5. QED
  BY <1>3, <1>4

\* A step of the innermost walk leaves the other frames and the addgcfn calls alone.
LEMMA TopOnly ==
    ASSUME AllocInv, stack # <<>>, adding' = adding, ~Top.udf \/ ~Allocating,
           NEW c \in Ptr, NEW x \in Ptr, NEW u \in BOOLEAN, u => c \in Fn,
           SetTop(c, x, u)
    PROVE  /\ Len(stack) \in Nat \ {0} /\ Len(stack') = Len(stack)
           /\ \A i \in 1..Len(stack) : i < Len(stack) => stack'[i] = stack[i]
           /\ \A i \in 1..Len(stack) : i < Len(stack) \/ (stack'[i] = Top' /\ stack[i] = Top)
           /\ Top' = [sock |-> Top.sock, cur |-> c, nxt |-> x, udf |-> u]
           /\ \A i \in 1..Len(stack) :
                 /\ stack'[i].sock = stack[i].sock
                 /\ Outermost(i)' <=> Outermost(i)
           /\ AddsSafe'
<1>1. /\ Len(stack) \in Nat \ {0} /\ Len(stack') = Len(stack)
      /\ \A i \in 1..Len(stack) : i < Len(stack) => stack'[i] = stack[i]
      /\ Top' = [sock |-> Top.sock, cur |-> c, nxt |-> x, udf |-> u]
      /\ \A i \in 1..Len(stack) :
            /\ stack'[i].sock = stack[i].sock
            /\ Outermost(i)' <=> Outermost(i)
  <2>1. TypeOK
    BY DEF AllocInv, AllocTypeOK
  <2>2. QED
    BY <2>1, StepOfTop
<1>2. \A i \in 1..Len(stack) : i < Len(stack) \/ (stack'[i] = Top' /\ stack[i] = Top)
  BY <1>1 DEF Top
<1>3. AddsSafe'
  <2> DEFINE n == Len(stack) - 1
  <2>1. n \in Nat /\ n =< Len(stack) /\ n =< Len(stack') /\ Len(stack') \in Nat
    BY <1>1
  <2>2. \A k \in 1..Len(adding) : adding[k].depth =< n
    BY AddsBelowTop
  <2>3. \A i \in 1..n : stack'[i].sock = stack[i].sock /\ stack'[i].udf = stack[i].udf
    BY <1>1
  <2> HIDE DEF n
  <2>4. QED
    BY <2>1, <2>2, <2>3, AddsKept
<1>4. QED
  BY <1>1, <1>2, <1>3

\* lls_gcfn_del of a registered node leaves no link to it.
LEMMA UnlinkSafe ==
    ASSUME AllocInv, NEW g \in Fn, ref[g], Unlink(g), UNCHANGED <<mem, owner, stamp, clock>>
    PROVE  /\ NodesSafe' /\ SentinelSafe'
           /\ \A h \in Fn : ref'[h] <=> ref[h] /\ h # g
           /\ \A h \in Node : next'[h] = IF h = prev[g] THEN next[g] ELSE next[h]
           /\ \A h \in Node : prev'[h] = IF h = next[g] THEN prev[g] ELSE prev[h]
<1>1. /\ ref \in [Node -> BOOLEAN] /\ next \in [Node -> Ptr] /\ prev \in [Node -> Ptr]
      /\ stamp \in [Fn -> Nat] /\ DONE \notin Fn /\ Fn \subseteq Node /\ DONE \in Node
      /\ NULL \notin Node
  BY ValuesAssumption DEF AllocInv, AllocTypeOK, TypeOK, Node
<1>2. \A h \in Fn : ref'[h] <=> ref[h] /\ h # g
  BY <1>1 DEF Unlink
<1>3. /\ \A h \in Node : next'[h] = IF h = prev[g] THEN next[g] ELSE next[h]
      /\ \A h \in Node : prev'[h] = IF h = next[g] THEN prev[g] ELSE prev[h]
      /\ ref'[DONE] = ref[DONE]
  BY <1>1 DEF Unlink
<1>4. \A h \in Fn : ref[h] =>
         /\ mem[h] = "live" /\ owner[h] \in Sock /\ stamp[h] =< clock
         /\ next[h] \in Fn => Linked(h, next[h])
         /\ prev[h] \in Fn => Linked(prev[h], h)
         /\ prev[h] # DONE
  BY DEF AllocInv, NodesSafe
<1>5. /\ next[g] \in Fn => Linked(g, next[g])
      /\ prev[g] \in Fn => Linked(prev[g], g)
      /\ prev[g] # DONE /\ prev[g] # g /\ next[g] # g
      /\ next[g] \in Ptr /\ prev[g] \in Ptr
  BY <1>1, <1>4 DEF Linked
<1>6. NodesSafe'
  <2> SUFFICES ASSUME NEW h \in Fn, ref'[h]
      PROVE  /\ mem[h] = "live" /\ owner[h] \in Sock /\ stamp[h] =< clock
             /\ next'[h] \in Fn => Linked(h, next[h])'
             /\ prev'[h] \in Fn => Linked(prev[h], h)'
             /\ prev'[h] # DONE
    BY DEF NodesSafe
  <2>1. ref[h] /\ h # g /\ h \in Node
    BY <1>1, <1>2
  <2>2. ASSUME next'[h] \in Fn PROVE Linked(h, next[h])'
    <3>1. CASE h = prev[g]
      <4>1. next'[h] = next[g] /\ Linked(g, next[g]) /\ Linked(h, g) /\ next[g] # g
        BY <1>3, <1>5, <2>1, <2>2, <3>1
      <4>2. PICK k \in Fn : k = next[g]
        BY <2>2, <4>1
      <4>3. ref'[k] /\ prev'[k] = h
        BY <1>1, <1>2, <1>3, <3>1, <4>1, <4>2 DEF Linked
      <4>4. owner[h] = owner[k] /\ stamp[h] > stamp[k]
        BY <1>1, <4>1, <4>2 DEF Linked
      <4>5. QED
        BY <4>1, <4>2, <4>3, <4>4 DEF Linked
    <3>2. CASE h # prev[g]
      <4>1. next'[h] = next[h] /\ Linked(h, next[h])
        BY <1>3, <1>4, <2>1, <2>2, <3>2
      <4>2. PICK k \in Fn : k = next[h]
        BY <2>2, <4>1
      <4>3. k # g /\ k # next[g]
        BY <1>5, <2>1, <3>2, <4>1, <4>2 DEF Linked
      <4>4. ref'[k] /\ prev'[k] = h
        BY <1>1, <1>2, <1>3, <4>1, <4>2, <4>3 DEF Linked
      <4>5. QED
        BY <4>1, <4>2, <4>4 DEF Linked
    <3>3. QED
      BY <3>1, <3>2
  <2>3. ASSUME prev'[h] \in Fn PROVE Linked(prev[h], h)'
    <3>1. CASE h = next[g]
      <4>1. prev'[h] = prev[g] /\ Linked(prev[g], g) /\ Linked(g, h) /\ prev[g] # g
        BY <1>3, <1>5, <2>1, <2>3, <3>1
      <4>2. PICK k \in Fn : k = prev[g]
        BY <2>3, <4>1
      <4>3. ref'[k] /\ next'[k] = h
        BY <1>1, <1>2, <1>3, <3>1, <4>1, <4>2 DEF Linked
      <4>4. owner[k] = owner[h] /\ stamp[k] > stamp[h]
        BY <1>1, <4>1, <4>2 DEF Linked
      <4>5. QED
        BY <4>1, <4>2, <4>3, <4>4 DEF Linked
    <3>2. CASE h # next[g]
      <4>1. prev'[h] = prev[h] /\ Linked(prev[h], h)
        BY <1>3, <1>4, <2>1, <2>3, <3>2
      <4>2. PICK k \in Fn : k = prev[h]
        BY <2>3, <4>1
      <4>3. k # g /\ k # prev[g]
        BY <1>5, <2>1, <3>2, <4>1, <4>2 DEF Linked
      <4>4. ref'[k] /\ next'[k] = h
        BY <1>1, <1>2, <1>3, <4>1, <4>2, <4>3 DEF Linked
      <4>5. QED
        BY <4>1, <4>2, <4>4 DEF Linked
    <3>3. QED
      BY <3>1, <3>2
  <2>4. prev'[h] # DONE
    BY <1>3, <1>4, <1>5, <2>1
  <2>5. QED
    BY <1>4, <2>1, <2>2, <2>3, <2>4
<1>7. SentinelSafe'
  <2>1. /\ mem[DONE] = "live" /\ next[DONE] = NULL /\ prev[DONE] # DONE
        /\ ref[DONE] /\ prev[DONE] \in Fn => ref[prev[DONE]] /\ next[prev[DONE]] = DONE
    BY DEF AllocInv, SentinelSafe
  <2>2. next'[DONE] = NULL /\ prev'[DONE] # DONE
    BY <1>1, <1>3, <1>5, <2>1
  <2>3. ASSUME ref[DONE], prev'[DONE] \in Fn
        PROVE  ref'[prev'[DONE]] /\ next'[prev'[DONE]] = DONE
    <3>1. CASE next[g] = DONE
      <4>1. prev'[DONE] = prev[g] /\ ref[prev[g]] /\ prev[g] # g
        BY <1>1, <1>3, <1>5, <2>3, <3>1 DEF Linked
      <4>2. QED
        BY <1>1, <1>2, <1>3, <2>3, <3>1, <4>1
    <3>2. CASE next[g] # DONE
      <4>1. prev'[DONE] = prev[DONE] /\ ref[prev[DONE]] /\ next[prev[DONE]] = DONE
        BY <1>1, <1>3, <2>1, <2>3, <3>2
      <4>2. prev[DONE] # g /\ prev[DONE] # prev[g]
        BY <1>1, <1>5, <2>3, <3>2, <4>1 DEF Linked
      <4>3. QED
        BY <1>1, <1>2, <1>3, <2>3, <4>1, <4>2
    <3>3. QED
      BY <3>1, <3>2
  <2>4. QED
    BY <1>3, <2>1, <2>2, <2>3 DEF SentinelSafe
<1>8. QED
  BY <1>2, <1>3, <1>6, <1>7

\* The innermost walk, when it stands at a function.
LEMMA TopSafe ==
    ASSUME AllocInv, stack # <<>>, Top.cur \in Fn
    PROVE  /\ Top.sock \in Sock /\ Top.cur \in Registered(Top.sock)
           /\ mem[Top.cur] = "live" /\ head[Top.sock] = DONE
           /\ \A i \in 1..Len(stack) :
                 i < Len(stack) => stack[i].udf /\ stack[i].sock # Top.sock
<1>1. stack \in Seq(Frame)
  BY DEF AllocInv, AllocTypeOK, TypeOK
<1>2. Len(stack) \in 1..Len(stack) /\ Top = stack[Len(stack)] /\ Top \in Frame
  BY <1>1, TopIsFrame DEF Top
<1>3. Top.sock \in Sock
  BY <1>2 DEF Frame
<1>4. /\ Outermost(Len(stack)) /\ head[Top.sock] = DONE
      /\ Top.cur \in Registered(Top.sock)
  BY <1>2 DEF AllocInv, WalksSafe
<1>5. \A i \in 1..Len(stack) :
         i < Len(stack) => stack[i].udf /\ stack[i].sock # Top.sock
  BY <1>2, <1>4 DEF AllocInv, WalksSafe, Outermost
<1>6. QED
  BY <1>3, <1>4, <1>5 DEF AllocInv, NodesSafe, Registered

\* Entering a UDF keeps the invariant.
LEMMA EnterUdfSafe ==
    ASSUME AllocInv, EnterUdf, adding' = adding, torn' = torn
    PROVE  AllocInv'
<1>1. /\ TypeOK /\ AllocTypeOK /\ TypeOK' /\ stack # <<>> /\ ~Top.udf /\ Top.cur \in Fn
  BY NextTypeOK DEF AllocInv, AllocTypeOK, Next, WalkStep, EnterUdf, Visiting
<1>2. Top.cur \in Registered(Top.sock) /\ mem[Top.cur] = "live"
  BY <1>1, TopSafe
<1>3. SetTop(Top.cur, next[Top.cur], TRUE)
  BY <1>2 DEF EnterUdf, NextRead
<1>4. Top.cur \in Ptr /\ next[Top.cur] \in Ptr
  BY <1>1 DEF TypeOK, Ptr, Node
<1>5. /\ Len(stack) \in Nat \ {0} /\ Len(stack') = Len(stack)
      /\ \A i \in 1..Len(stack) : i < Len(stack) => stack'[i] = stack[i]
      /\ \A i \in 1..Len(stack) : i < Len(stack) \/ (stack'[i] = Top' /\ stack[i] = Top)
      /\ Top' = [sock |-> Top.sock, cur |-> Top.cur, nxt |-> next[Top.cur], udf |-> TRUE]
      /\ \A i \in 1..Len(stack) :
            /\ stack'[i].sock = stack[i].sock
            /\ Outermost(i)' <=> Outermost(i)
      /\ AddsSafe'
  BY <1>1, <1>3, <1>4, TopOnly
<1>6. UNCHANGED <<head, ref, prev, next, mem, owner, stamp, clock>>
  BY DEF EnterUdf
<1>7. NodesSafe' /\ SentinelSafe' /\ HeadsSafe'
  BY <1>6 DEF AllocInv, NodesSafe, Linked, SentinelSafe, HeadsSafe, Registered
<1>8. WalksSafe'
  <2> SUFFICES ASSUME NEW i \in 1..Len(stack)
      PROVE  /\ head[stack'[i].sock] = DONE
             /\ i < Len(stack) => stack'[i].udf
             /\ ~Outermost(i)' => stack'[i].cur \notin Fn
             /\ stack'[i].cur \in Fn => stack'[i].cur \in Registered(stack'[i].sock)
             /\ stack'[i].nxt \in Fn => stack'[i].udf /\ next[stack'[i].cur] = stack'[i].nxt
    BY <1>5, <1>6 DEF WalksSafe, Registered
  <2>1. /\ head[stack[i].sock] = DONE
        /\ i < Len(stack) => stack[i].udf
        /\ ~Outermost(i) => stack[i].cur \notin Fn
        /\ stack[i].cur \in Fn => stack[i].cur \in Registered(stack[i].sock)
        /\ stack[i].nxt \in Fn => stack[i].udf /\ next[stack[i].cur] = stack[i].nxt
    BY DEF AllocInv, WalksSafe
  <2>2. QED
    BY <1>5, <2>1
<1>9. AllocTypeOK'
  BY <1>1 DEF AllocTypeOK
<1>10. QED
  BY <1>5, <1>7, <1>8, <1>9 DEF AllocInv

\* A walk that stands at the sentinel ends; of the lists, at most the link of the
\* last node before the sentinel changes.
LEMMA LeaveSentinelSafe ==
    ASSUME AllocInv, TypeOK', stack # <<>>, ~Top.udf, Top.cur = DONE,
           SetTop(NULL, NULL, FALSE),
           NodesSafe', SentinelSafe', HeadsSafe',
           \A g \in Fn : ref'[g] = ref[g],
           \A g \in Fn : ref[g] /\ next[g] \in Fn => next'[g] = next[g],
           UNCHANGED <<head, owner, adding, torn>>
    PROVE  AllocInv'
<1>1. NULL \in Ptr /\ FALSE \in BOOLEAN /\ DONE \notin Fn /\ NULL \notin Fn
  BY ValuesAssumption DEF Ptr
<1>2. /\ Len(stack) \in Nat \ {0} /\ Len(stack') = Len(stack)
      /\ \A i \in 1..Len(stack) : i < Len(stack) => stack'[i] = stack[i]
      /\ \A i \in 1..Len(stack) : i < Len(stack) \/ (stack'[i] = Top' /\ stack[i] = Top)
      /\ Top' = [sock |-> Top.sock, cur |-> NULL, nxt |-> NULL, udf |-> FALSE]
      /\ \A i \in 1..Len(stack) :
            /\ stack'[i].sock = stack[i].sock
            /\ Outermost(i)' <=> Outermost(i)
      /\ AddsSafe'
  <2>1. FALSE => NULL \in Fn
    OBVIOUS
  <2>2. QED
    BY <1>1, <2>1, TopOnly
<1>3. WalksSafe'
  <2> SUFFICES ASSUME NEW i \in 1..Len(stack)
      PROVE  /\ head[stack'[i].sock] = DONE
             /\ i < Len(stack) => stack'[i].udf
             /\ ~Outermost(i)' => stack'[i].cur \notin Fn
             /\ stack'[i].cur \in Fn => stack'[i].cur \in Registered(stack'[i].sock)
             /\ stack'[i].nxt \in Fn => stack'[i].udf /\ next'[stack'[i].cur] = stack'[i].nxt
    BY <1>2 DEF WalksSafe, Registered
  <2>1. /\ head[stack[i].sock] = DONE
        /\ i < Len(stack) => stack[i].udf
        /\ ~Outermost(i) => stack[i].cur \notin Fn
        /\ stack[i].cur \in Fn => stack[i].cur \in Registered(stack[i].sock)
        /\ stack[i].nxt \in Fn => stack[i].udf /\ next[stack[i].cur] = stack[i].nxt
    BY DEF AllocInv, WalksSafe
  <2>2. CASE i < Len(stack)
    <3>1. stack'[i] = stack[i] /\ stack[i].cur \in Fn
      BY <1>2, <2>1, <2>2, FrameTypes DEF AllocInv, AllocTypeOK, TypeOK
    <3>2. stack[i].nxt \in Fn => next'[stack[i].cur] = next[stack[i].cur]
      BY <2>1, <3>1 DEF Registered
    <3>3. QED
      BY <1>2, <2>1, <2>2, <3>1, <3>2
  <2>3. CASE stack'[i] = Top' /\ ~(i < Len(stack))
    BY <1>1, <1>2, <2>1, <2>3
  <2>4. QED
    BY <1>2, <2>2, <2>3
<1>4. AllocTypeOK'
  BY DEF AllocInv, AllocTypeOK
<1>5. QED
  BY <1>2, <1>3, <1>4 DEF AllocInv

\* Passing a deleted node keeps the invariant: only the sentinel can be met so.
LEMMA SkipDeletedSafe ==
    ASSUME AllocInv, SkipDeleted, adding' = adding, torn' = torn
    PROVE  AllocInv'
<1>1. TypeOK /\ TypeOK' /\ stack # <<>> /\ ~Top.udf /\ Top.cur # NULL
  BY NextTypeOK DEF AllocInv, AllocTypeOK, Next, WalkStep, SkipDeleted, Visiting
<1>2. Top.cur \notin Fn
  BY <1>1, TopSafe DEF SkipDeleted, RefRead, Registered
<1>3. Top.cur = DONE
  <2>1. Top \in Frame
    BY <1>1, TopIsFrame DEF TypeOK
  <2>2. QED
    BY <1>1, <1>2, <2>1 DEF Frame, Ptr, Node
<1>4. SetTop(NULL, NULL, FALSE)
  BY <1>3 DEF SkipDeleted, NextRead, AllocInv, SentinelSafe
<1>5. UNCHANGED <<head, ref, prev, next, mem, owner, stamp, clock>>
  BY DEF SkipDeleted, history
<1>6. NodesSafe' /\ SentinelSafe' /\ HeadsSafe'
  BY <1>5 DEF AllocInv, NodesSafe, Linked, SentinelSafe, HeadsSafe, Registered
<1>7. QED
  BY <1>1, <1>3, <1>4, <1>5, <1>6, LeaveSentinelSafe

\* The call of the sentinel keeps it: the node before it loses a link to no node.
LEMMA VisitSentinelSafe ==
    ASSUME AllocInv, VisitSentinel, adding' = adding, torn' = torn
    PROVE  AllocInv'
<1>1. TypeOK /\ TypeOK' /\ stack # <<>> /\ ~Top.udf /\ Top.cur = DONE /\ ref[DONE]
  BY NextTypeOK DEF AllocInv, AllocTypeOK, Next, WalkStep, VisitSentinel, Visiting
<1>2. /\ mem[DONE] = "live" /\ next[DONE] = NULL /\ prev[DONE] # DONE
      /\ prev[DONE] \in Fn => ref[prev[DONE]] /\ next[prev[DONE]] = DONE
  BY <1>1 DEF AllocInv, SentinelSafe
<1>3. SetTop(NULL, NULL, FALSE)
  BY <1>2 DEF VisitSentinel
<1>4. /\ ref \in [Node -> BOOLEAN] /\ next \in [Node -> Ptr] /\ prev \in [Node -> Ptr]
      /\ DONE \notin Fn /\ Fn \subseteq Node /\ DONE \in Node /\ NULL \notin Node
      /\ NULL \notin Fn
  BY <1>1, ValuesAssumption DEF TypeOK, Node
<1>5. /\ prev' = prev
      /\ \A n \in Node : next'[n] = IF n = prev[DONE] THEN NULL ELSE next[n]
      /\ ref'[DONE] = FALSE /\ \A g \in Fn : ref'[g] = ref[g]
      /\ UNCHANGED <<head, mem, owner, stamp, clock>>
  BY <1>2, <1>4 DEF VisitSentinel, Unlink, history
<1>6. \A g \in Fn : ref[g] /\ next[g] \in Fn => next'[g] = next[g]
  BY <1>2, <1>4, <1>5
<1>7. NodesSafe'
  <2> SUFFICES ASSUME NEW g \in Fn, ref'[g]
      PROVE  /\ mem[g] = "live" /\ owner[g] \in Sock /\ stamp[g] =< clock
             /\ next'[g] \in Fn => Linked(g, next[g])'
             /\ prev[g] \in Fn => Linked(prev[g], g)'
             /\ prev[g] # DONE
    BY <1>5 DEF NodesSafe
  <2>1. /\ mem[g] = "live" /\ owner[g] \in Sock /\ stamp[g] =< clock
        /\ next[g] \in Fn => Linked(g, next[g])
        /\ prev[g] \in Fn => Linked(prev[g], g)
        /\ prev[g] # DONE
    BY <1>5 DEF AllocInv, NodesSafe
  <2>2. next'[g] \in Fn => next'[g] = next[g]
    BY <1>4, <1>5
  <2>3. \A a, b \in Fn : Linked(a, b) => Linked(a, b)'
    BY <1>4, <1>5, <1>6 DEF Linked
  <2>4. next'[g] \in Fn => Linked(g, next[g])'
    BY <2>1, <2>2, <2>3
  <2>5. prev[g] \in Fn => Linked(prev[g], g)'
    BY <1>5, <2>1, <2>3
  <2>6. QED
    BY <2>1, <2>4, <2>5
<1>8. SentinelSafe'
  BY <1>2, <1>4, <1>5 DEF SentinelSafe
<1>9. HeadsSafe'
  BY <1>5 DEF AllocInv, HeadsSafe, Registered
<1>10. QED
  BY <1>1, <1>3, <1>5, <1>6, <1>7, <1>8, <1>9, LeaveSentinelSafe

\* The end of call_gcfn keeps it.
LEMMA FinishWalkSafe ==
    ASSUME AllocInv, FinishWalk, adding' = adding, torn' = torn
    PROVE  AllocInv'
<1> DEFINE n == Len(stack) - 1
<1>1. /\ TypeOK /\ TypeOK' /\ stack \in Seq(Frame) /\ stack # <<>> /\ ~Top.udf
      /\ UNCHANGED <<head, ref, prev, next, mem, owner, stamp, clock>>
  BY NextTypeOK DEF AllocInv, AllocTypeOK, Next, WalkStep, FinishWalk, TypeOK, history
<1>2. /\ Len(stack) \in Nat \ {0} /\ n \in Nat /\ Len(stack') = n
      /\ \A i \in 1..n : stack'[i] = stack[i]
  BY <1>1, TopIsFrame, PopFacts DEF FinishWalk
<1>3. \A i \in 1..n : i \in 1..Len(stack) /\ i < Len(stack)
  BY <1>2
<1>4. NodesSafe' /\ SentinelSafe' /\ HeadsSafe'
  BY <1>1 DEF AllocInv, NodesSafe, Linked, SentinelSafe, HeadsSafe, Registered
<1>5. WalksSafe'
  <2>1. ASSUME NEW i \in 1..n PROVE Outermost(i)' <=> Outermost(i)
    <3>1. \A j \in 1..i : stack'[j] = stack[j]
      BY <1>2
    <3>2. i \in 1..i /\ \A j \in 1..(i - 1) : j \in 1..i
      BY <1>2
    <3>3. QED
      BY <3>1, <3>2 DEF Outermost
  <2>2. QED
    BY <1>1, <1>2, <1>3, <2>1 DEF AllocInv, WalksSafe, Registered
<1>6. AddsSafe'
  <2>1. \A k \in 1..Len(adding) : adding[k].depth =< n
    BY <1>1, AddsBelowTop
  <2>2. \A i \in 1..n : stack'[i].sock = stack[i].sock /\ stack'[i].udf = stack[i].udf
    BY <1>2
  <2>3. n =< Len(stack) /\ n =< Len(stack') /\ Len(stack') \in Nat
    BY <1>2
  <2> HIDE DEF n
  <2>4. QED
    BY <1>2, <2>1, <2>2, <2>3, AddsKept
<1>7. AllocTypeOK'
  BY <1>1 DEF AllocInv, AllocTypeOK
<1>8. QED
  BY <1>4, <1>5, <1>6, <1>7 DEF AllocInv

\* Steps that leave the stack and the addgcfn calls alone.
LEMMA SameWalks ==
    ASSUME AllocInv, UNCHANGED <<stack, adding>>
    PROVE  AddsSafe' /\ \A i \in 1..Len(stack) : Outermost(i)' <=> Outermost(i)
  BY DEF AllocInv, AddsSafe, Outermost

\* The collector keeps it: it frees no registered node.
LEMMA CollectSafe ==
    ASSUME AllocInv, NEW g \in Fn, Collect(g), adding' = adding, torn' = torn
    PROVE  AllocInv'
<1>1. TypeOK /\ TypeOK'
  BY NextTypeOK DEF AllocInv, AllocTypeOK, Next
<1>2. /\ UNCHANGED <<head, ref, prev, next, stack, owner, stamp, clock>>
      /\ mem' = [mem EXCEPT ![g] = "freed"] /\ ~ref[g] /\ g # DONE
  BY ValuesAssumption DEF Collect, history
<1>3. AddsSafe' /\ \A i \in 1..Len(stack) : Outermost(i)' <=> Outermost(i)
  BY <1>2, SameWalks
<1>4. \A h \in Node : h # g => mem'[h] = mem[h]
  BY <1>1, <1>2 DEF TypeOK
<1>5. NodesSafe'
  BY <1>2, <1>4 DEF AllocInv, NodesSafe, Linked, Node
<1>6. SentinelSafe' /\ HeadsSafe'
  BY <1>2, <1>4 DEF AllocInv, SentinelSafe, HeadsSafe, Registered, Node
<1>7. WalksSafe'
  BY <1>2, <1>3 DEF AllocInv, WalksSafe, Registered
<1>8. AllocTypeOK'
  BY <1>1 DEF AllocInv, AllocTypeOK
<1>9. QED
  BY <1>3, <1>5, <1>6, <1>7, <1>8 DEF AllocInv

\* The return of a UDF keeps it: the node is deleted, and the next that was saved is
\* still registered.
LEMMA UdfReturnSafe ==
    ASSUME AllocInv, UdfReturn, ~Allocating, adding' = adding, torn' = torn
    PROVE  AllocInv'
<1> DEFINE g == Top.cur
           x == Top.nxt
<1>1. /\ TypeOK /\ TypeOK' /\ stack # <<>> /\ Top.udf /\ SetTop(x, NULL, FALSE)
      /\ UNCHANGED <<head, mem, owner, stamp, clock>>
  BY NextTypeOK DEF AllocInv, AllocTypeOK, Next, UdfReturn, history
<1>2. Top \in Frame /\ g \in Fn /\ x \in Ptr /\ NULL \in Ptr /\ NULL \notin Fn
  BY <1>1, TopIsFrame, ValuesAssumption DEF TypeOK, Frame, Ptr
<1>3. /\ g \in Registered(Top.sock) /\ head[Top.sock] = DONE /\ ref[g]
      /\ \A i \in 1..Len(stack) :
            i < Len(stack) => stack[i].udf /\ stack[i].sock # Top.sock
  BY <1>1, <1>2, TopSafe DEF Registered
<1>4. Unlink(g)
  BY <1>3 DEF UdfReturn
<1>5. /\ NodesSafe' /\ SentinelSafe'
      /\ \A h \in Fn : ref'[h] <=> ref[h] /\ h # g
      /\ \A h \in Node : next'[h] = IF h = prev[g] THEN next[g] ELSE next[h]
      /\ \A h \in Node : prev'[h] = IF h = next[g] THEN prev[g] ELSE prev[h]
  BY <1>1, <1>2, <1>3, <1>4, UnlinkSafe
<1>6. /\ Len(stack) \in Nat \ {0} /\ Len(stack') = Len(stack)
      /\ \A i \in 1..Len(stack) : i < Len(stack) => stack'[i] = stack[i]
      /\ \A i \in 1..Len(stack) : i < Len(stack) \/ (stack'[i] = Top' /\ stack[i] = Top)
      /\ Top' = [sock |-> Top.sock, cur |-> x, nxt |-> NULL, udf |-> FALSE]
      /\ \A i \in 1..Len(stack) :
            /\ stack'[i].sock = stack[i].sock
            /\ Outermost(i)' <=> Outermost(i)
      /\ AddsSafe'
  <2>1. FALSE => x \in Fn
    OBVIOUS
  <2> HIDE DEF x
  <2>2. QED
    BY <1>1, <1>2, <2>1, TopOnly
<1>7. /\ next[g] \in Fn => Linked(g, next[g])
      /\ prev[g] \in Fn => Linked(prev[g], g)
      /\ owner[g] = Top.sock
  BY <1>2, <1>3 DEF AllocInv, NodesSafe, Registered
<1>8. HeadsSafe'
  <2> SUFFICES ASSUME NEW s \in Sock, NEW h \in Fn, head[s] = h
      PROVE  ref'[h] /\ owner[h] = s /\ prev'[h] = NULL
    BY <1>1 DEF HeadsSafe, Registered
  <2>1. ref[h] /\ owner[h] = s /\ prev[h] = NULL
    BY DEF AllocInv, HeadsSafe, Registered
  <2>2. owner[h] # owner[g]
    BY <1>3, <1>7, <2>1, ValuesAssumption
  <2>3. h # g /\ h # next[g]
    BY <1>7, <2>2 DEF Linked
  <2>4. QED
    BY <1>5, <2>1, <2>3 DEF Node
<1>9. WalksSafe'
  <2> SUFFICES ASSUME NEW i \in 1..Len(stack)
      PROVE  /\ head[stack'[i].sock] = DONE
             /\ i < Len(stack) => stack'[i].udf
             /\ ~Outermost(i)' => stack'[i].cur \notin Fn
             /\ stack'[i].cur \in Fn =>
                   ref'[stack'[i].cur] /\ owner[stack'[i].cur] = stack'[i].sock
             /\ stack'[i].nxt \in Fn => stack'[i].udf /\ next'[stack'[i].cur] = stack'[i].nxt
    BY <1>1, <1>6 DEF WalksSafe, Registered
  <2>1. /\ head[stack[i].sock] = DONE
        /\ i < Len(stack) => stack[i].udf
        /\ ~Outermost(i) => stack[i].cur \notin Fn
        /\ stack[i].cur \in Fn => ref[stack[i].cur] /\ owner[stack[i].cur] = stack[i].sock
        /\ stack[i].nxt \in Fn => stack[i].udf /\ next[stack[i].cur] = stack[i].nxt
    BY DEF AllocInv, WalksSafe, Registered
  <2>2. CASE i < Len(stack)
    <3>1. stack'[i] = stack[i] /\ stack[i].cur \in Fn
      BY <1>1, <1>6, <2>1, <2>2, FrameTypes DEF TypeOK
    <3>2. owner[stack[i].cur] # owner[g]
      BY <1>3, <1>7, <2>1, <2>2, <3>1
    <3>3. stack[i].cur # g /\ stack[i].cur # prev[g]
      BY <1>7, <3>1, <3>2 DEF Linked
    <3>4. ref'[stack[i].cur] /\ next'[stack[i].cur] = next[stack[i].cur]
      BY <1>5, <2>1, <3>1, <3>3 DEF Node
    <3>5. QED
      BY <1>6, <2>1, <2>2, <3>1, <3>4
  <2>3. CASE stack'[i] = Top' /\ stack[i] = Top /\ ~(i < Len(stack))
    <3>1. stack'[i] = [sock |-> Top.sock, cur |-> x, nxt |-> NULL, udf |-> FALSE]
      BY <1>6, <2>3
    <3>2. x \in Fn => Linked(g, x)
      BY <1>7, <2>1, <2>3
    <3>3. x \in Fn => ref'[x] /\ owner[x] = Top.sock
      BY <1>1, <1>2, <1>5, <1>7, <3>2 DEF Linked, TypeOK
    <3>4. Outermost(i)'
      BY <1>2, <1>6, <2>1, <2>3
    <3>5. QED
      BY <1>2, <1>3, <2>3, <3>1, <3>3, <3>4
  <2>4. QED
    BY <1>6, <2>2, <2>3
<1>10. AllocTypeOK'
  BY <1>1 DEF AllocInv, AllocTypeOK
<1>11. QED
  BY <1>5, <1>6, <1>8, <1>9, <1>10 DEF AllocInv

\* The entry of call_gcfn keeps it, be it a script or the collector that closes the
\* socket.
LEMMA StartWalkSafe ==
    ASSUME AllocInv, NEW s \in Sock, StartWalk(s), adding' = adding, torn' = torn \cup {s}
    PROVE  AllocInv'
<1> DEFINE f == [sock |-> s, cur |-> head[s], nxt |-> NULL, udf |-> FALSE]
           n == Len(stack)
<1>1. /\ TypeOK /\ TypeOK' /\ stack \in Seq(Frame) /\ head \in [Sock -> Ptr]
      /\ UNCHANGED <<ref, prev, next, mem, owner, stamp, clock>>
      /\ stack' = Append(stack, f)
      /\ \A t \in Sock : head'[t] = IF t = s THEN DONE ELSE head[t]
      /\ DONE \notin Fn /\ NULL \notin Fn
  BY NextTypeOK, ValuesAssumption
  DEF AllocInv, AllocTypeOK, Next, StartWalk, TypeOK, history
<1>2. f \in Frame
  BY <1>1 DEF Frame, Ptr
<1>3. n \in Nat /\ Len(stack') = n + 1 /\ stack'[n + 1] = f
      /\ \A i \in 1..n : stack'[i] = stack[i]
  <2> HIDE DEF f
  <2>1. QED
    BY <1>1, <1>2, AppendProperties
<1>4. NodesSafe' /\ SentinelSafe' /\ HeadsSafe'
  BY <1>1 DEF AllocInv, NodesSafe, Linked, SentinelSafe, HeadsSafe, Registered
<1>5. WalksSafe'
  <2> SUFFICES ASSUME NEW i \in 1..(n + 1)
      PROVE  /\ head'[stack'[i].sock] = DONE
             /\ i < n + 1 => stack'[i].udf
             /\ ~Outermost(i)' => stack'[i].cur \notin Fn
             /\ stack'[i].cur \in Fn => stack'[i].cur \in Registered(stack'[i].sock)
             /\ stack'[i].nxt \in Fn => stack'[i].udf /\ next[stack'[i].cur] = stack'[i].nxt
    BY <1>1, <1>3 DEF WalksSafe, Registered
  <2>1. CASE i \in 1..n
    <3>1. /\ head[stack[i].sock] = DONE
          /\ i < n => stack[i].udf
          /\ ~Outermost(i) => stack[i].cur \notin Fn
          /\ stack[i].cur \in Fn => stack[i].cur \in Registered(stack[i].sock)
          /\ stack[i].nxt \in Fn => stack[i].udf /\ next[stack[i].cur] = stack[i].nxt
      BY <2>1 DEF AllocInv, WalksSafe
    <3>2. stack[i].udf
      <4>1. CASE i = n
        <5>1. stack # <<>>
          BY <1>3, <2>1
        <5>2. QED
          BY <4>1, <5>1 DEF StartWalk, ScriptRuns, Top
      <4>2. QED
        BY <1>3, <2>1, <3>1, <4>1
    <3>3. \A j \in 1..i : stack'[j] = stack[j]
      BY <1>3, <2>1
    <3>4. Outermost(i)' <=> Outermost(i)
      BY <1>3, <2>1, <3>3 DEF Outermost
    <3>5. stack[i].sock \in Sock
      BY <1>1, <2>1, FrameTypes
    <3>6. QED
      BY <1>1, <1>3, <2>1, <3>1, <3>2, <3>4, <3>5
  <2>2. CASE i = n + 1
    <3>1. /\ stack'[i].sock = s /\ stack'[i].cur = head[s] /\ stack'[i].nxt = NULL
          /\ ~(i < n + 1)
      BY <1>3, <2>2
    <3>2. head[s] \in Fn => head[s] \in Registered(s)
      BY DEF AllocInv, HeadsSafe
    <3>3. ASSUME ~Outermost(i)' PROVE head[s] = DONE
      <4>1. PICK j \in 1..n : stack[j].sock = s
        BY <1>3, <2>2, <3>1, <3>3 DEF Outermost
      <4>2. QED
        BY <4>1 DEF AllocInv, WalksSafe
    <3>4. QED
      BY <1>1, <3>1, <3>2, <3>3
  <2>3. QED
    BY <1>3, <2>1, <2>2
<1>6. AddsSafe'
  <2>1. \A k \in 1..Len(adding) : adding[k].depth =< n
    BY DEF AllocInv, AddsSafe
  <2>2. \A i \in 1..n : stack'[i].sock = stack[i].sock /\ stack'[i].udf = stack[i].udf
    BY <1>3
  <2>3. n =< Len(stack) /\ n =< Len(stack') /\ Len(stack') \in Nat
    BY <1>3
  <2> HIDE DEF n
  <2>4. QED
    BY <1>3, <2>1, <2>2, <2>3, AddsKept
<1>7. AllocTypeOK'
  BY <1>1 DEF AllocInv, AllocTypeOK
<1>8. QED
  BY <1>4, <1>5, <1>6, <1>7 DEF AllocInv

\* delgcfn keeps it, as long as a script passes no socket the function of another.
LEMMA DelGcfnSafe ==
    ASSUME AllocInv, ~ForeignDel, NEW s \in Sock, NEW g \in Fn, DelGcfn(s, g),
           adding' = adding, torn' = torn
    PROVE  AllocInv'
<1>1. /\ TypeOK /\ TypeOK' /\ head[s] # DONE /\ (ref[g] => owner[g] = s)
      /\ UNCHANGED <<mem, stack, owner, stamp, clock>>
      /\ \A t \in Sock : head'[t] = IF t = s /\ head[s] = g THEN next[g] ELSE head[t]
      /\ DONE \notin Fn /\ NULL \notin Fn
  BY NextTypeOK, ValuesAssumption
  DEF AllocInv, AllocTypeOK, Next, DelGcfn, TypeOK, history
<1>2. AllocTypeOK'
  BY <1>1 DEF AllocInv, AllocTypeOK
<1>3. AddsSafe' /\ \A i \in 1..Len(stack) : Outermost(i)' <=> Outermost(i)
  BY <1>1, SameWalks
<1>4. CASE ~ref[g]
  <2>1. head[s] # g
    BY <1>4 DEF AllocInv, HeadsSafe, Registered
  <2>2. UNCHANGED <<prev, next, ref>> /\ head' = head
    BY <1>1, <1>4, <2>1 DEF DelGcfn, nodes, TypeOK
  <2>3. QED
    BY <1>1, <1>2, <1>3, <2>2
    DEF AllocInv, NodesSafe, Linked, SentinelSafe, HeadsSafe, WalksSafe, Registered
<1>5. CASE ref[g]
  <2>1. Unlink(g) /\ owner[g] = s
    BY <1>1, <1>5 DEF DelGcfn
  <2>2. /\ NodesSafe' /\ SentinelSafe'
        /\ \A h \in Fn : ref'[h] <=> ref[h] /\ h # g
        /\ \A h \in Node : next'[h] = IF h = prev[g] THEN next[g] ELSE next[h]
        /\ \A h \in Node : prev'[h] = IF h = next[g] THEN prev[g] ELSE prev[h]
    BY <1>1, <1>5, <2>1, UnlinkSafe
  <2>3. /\ next[g] \in Fn => Linked(g, next[g])
        /\ prev[g] \in Fn => Linked(prev[g], g)
    BY <1>5 DEF AllocInv, NodesSafe
  <2>4. HeadsSafe'
    <3> SUFFICES ASSUME NEW t \in Sock, NEW h \in Fn, head'[t] = h
        PROVE  ref'[h] /\ owner[h] = t /\ prev'[h] = NULL
      BY <1>1 DEF HeadsSafe, Registered
    <3>1. CASE t = s /\ head[s] = g
      <4>1. h = next[g] /\ Linked(g, h) /\ prev[g] = NULL
        BY <1>1, <2>3, <3>1 DEF AllocInv, HeadsSafe
      <4>2. h # g
        BY <1>1, <4>1 DEF Linked, TypeOK
      <4>3. QED
        BY <1>1, <2>1, <2>2, <3>1, <4>1, <4>2 DEF Linked, Node
    <3>2. CASE ~(t = s /\ head[s] = g)
      <4>1. head[t] = h /\ ref[h] /\ owner[h] = t /\ prev[h] = NULL
        BY <1>1, <3>2 DEF AllocInv, HeadsSafe, Registered
      <4>2. h # g
        BY <2>1, <3>2, <4>1
      <4>3. h # next[g]
        BY <1>1, <2>3, <4>1 DEF Linked
      <4>4. QED
        BY <2>2, <4>1, <4>2, <4>3 DEF Node
    <3>3. QED
      BY <3>1, <3>2
  <2>5. WalksSafe'
    <3> SUFFICES ASSUME NEW i \in 1..Len(stack)
        PROVE  /\ head'[stack[i].sock] = DONE
               /\ i < Len(stack) => stack[i].udf
               /\ ~Outermost(i) => stack[i].cur \notin Fn
               /\ stack[i].cur \in Fn =>
                     ref'[stack[i].cur] /\ owner[stack[i].cur] = stack[i].sock
               /\ stack[i].nxt \in Fn => stack[i].udf /\ next'[stack[i].cur] = stack[i].nxt
      BY <1>1, <1>3 DEF WalksSafe, Registered
    <3>1. /\ head[stack[i].sock] = DONE
          /\ i < Len(stack) => stack[i].udf
          /\ ~Outermost(i) => stack[i].cur \notin Fn
          /\ stack[i].cur \in Fn => ref[stack[i].cur] /\ owner[stack[i].cur] = stack[i].sock
          /\ stack[i].nxt \in Fn => stack[i].udf /\ next[stack[i].cur] = stack[i].nxt
      BY DEF AllocInv, WalksSafe, Registered
    <3>2. stack[i].sock \in Sock /\ (stack[i].udf => stack[i].cur \in Fn)
      BY <1>1, FrameTypes DEF TypeOK
    <3>3. stack[i].sock # s
      BY <1>1, <3>1
    <3>4. ASSUME stack[i].cur \in Fn
          PROVE  ref'[stack[i].cur] /\ next'[stack[i].cur] = next[stack[i].cur]
      <4>1. owner[stack[i].cur] # owner[g]
        BY <2>1, <3>1, <3>3, <3>4
      <4>2. stack[i].cur # g /\ stack[i].cur # prev[g]
        BY <2>3, <3>4, <4>1 DEF Linked
      <4>3. QED
        BY <2>2, <3>1, <3>4, <4>2 DEF Node
    <3>5. QED
      BY <1>1, <3>1, <3>2, <3>3, <3>4
  <2>6. QED
    BY <1>2, <1>3, <2>2, <2>4, <2>5 DEF AllocInv
<1>6. QED
  BY <1>4, <1>5

\* An addgcfn that begins keeps it: on a socket that is not DONE no walk is in
\* progress.
LEMMA AddBeginSafe ==
    ASSUME AllocInv, NEW s \in Sock, AddBegin(s)
    PROVE  AllocInv'
<1> DEFINE e == [sock |-> s, depth |-> Len(stack)]
           m == Len(adding)
<1>1. /\ AllocTypeOK /\ adding \in Seq([sock : Sock, depth : Nat])
      /\ stack \in Seq(Frame) /\ Len(stack) \in Nat /\ head[s] # DONE
      /\ adding' = Append(adding, e)
      /\ UNCHANGED <<head, ref, prev, next, mem, stack, owner, stamp, clock, called, torn>>
  BY LenProperties DEF AllocInv, AllocTypeOK, TypeOK, AddBegin, vars
<1>2. e \in [sock : Sock, depth : Nat]
  BY <1>1
<1>3. /\ m \in Nat /\ Len(adding') = m + 1 /\ adding'[m + 1] = e
      /\ \A k \in 1..m : adding'[k] = adding[k]
      /\ adding' \in Seq([sock : Sock, depth : Nat])
  <2> HIDE DEF e
  <2>1. QED
    BY <1>1, <1>2, AppendProperties
<1>4. \A i \in 1..Len(stack) : stack[i].sock # s
  BY <1>1 DEF AllocInv, WalksSafe
<1>5. Len(stack) > 0 => stack[Len(stack)].udf
  BY <1>1 DEF AddBegin, ScriptRuns, Top
<1>6. AddsSafe'
  <2>1. ASSUME NEW k \in 1..m
        PROVE  LET d == adding'[k].depth IN
               /\ d =< Len(stack)
               /\ d > 0 => stack[d].udf
               /\ \A i \in 1..d : stack[i].sock # adding'[k].sock
               /\ \A l \in 1..k : adding'[l].depth =< d
    <3>1. adding'[k] = adding[k] /\ \A l \in 1..k : adding'[l] = adding[l]
      BY <1>3, <2>1
    <3>2. QED
      BY <3>1 DEF AllocInv, AddsSafe
  <2>2. \A l \in 1..(m + 1) : adding'[l].depth =< Len(stack)
    <3>1. \A l \in 1..m : adding'[l].depth =< Len(stack)
      BY <2>1
    <3>2. adding'[m + 1].depth = Len(stack)
      BY <1>3
    <3>3. QED
      BY <1>1, <1>3, <3>1, <3>2
  <2>3. /\ adding'[m + 1].depth = Len(stack) /\ adding'[m + 1].sock = s
    BY <1>3
  <2>4. \A k \in 1..(m + 1) : k \in 1..m \/ k = m + 1
    BY <1>3
  <2>5. QED
    BY <1>1, <1>3, <1>4, <1>5, <2>1, <2>2, <2>3, <2>4 DEF AddsSafe
<1>7. NodesSafe' /\ SentinelSafe' /\ HeadsSafe'
  BY <1>1 DEF AllocInv, NodesSafe, Linked, SentinelSafe, HeadsSafe, Registered
<1>8. WalksSafe'
  BY <1>1 DEF AllocInv, WalksSafe, Outermost, Registered
<1>9. AllocTypeOK'
  BY <1>1, <1>3 DEF AllocTypeOK, TypeOK
<1>10. QED
  BY <1>6, <1>7, <1>8, <1>9 DEF AllocInv

\* A sequence without its last element.
LEMMA WithoutLast ==
    ASSUME NEW S, NEW q \in Seq(S), q # <<>>
    PROVE  LET m == Len(q) - 1
               r == SubSeq(q, 1, m) IN
           /\ m \in Nat /\ Len(q) = m + 1
           /\ r \in Seq(S) /\ Len(r) = m
           /\ \A k \in 1..m : r[k] = q[k]
<1> DEFINE m == Len(q) - 1
           r == SubSeq(q, 1, m)
<1>1. m \in Nat /\ Len(q) = m + 1
  <2>1. Len(q) \in Nat /\ Len(q) # 0
    BY LenProperties, EmptySeq
  <2>2. QED
    BY <2>1
<1>2. \A i \in 1..m : q[i] \in S
  BY <1>1, ElementOfSeq
<1> HIDE DEF m
<1>3. /\ SubSeq(q, 1, m) \in Seq(S)
      /\ Len(SubSeq(q, 1, m)) = IF 1 <= m THEN m - 1 + 1 ELSE 0
      /\ \A i \in 1..(m - 1 + 1) : SubSeq(q, 1, m)[i] = q[1 + i - 1]
  BY <1>1, <1>2, SubSeqProperties
<1>4. m - 1 + 1 = m /\ \A i \in 1..m : 1 + i - 1 = i
  BY <1>1
<1>5. QED
  BY <1>1, <1>3, <1>4 DEF m

\* The rest of addgcfn links its node before whatever the head is, the sentinel
\* included: no walk of the socket is in progress.
LEMMA LinkSafe ==
    ASSUME AllocInv, NEW s \in Sock, NEW h, h = head[s], NEW g \in Fn, Link(s, g),
           \A i \in 1..Len(stack) : stack[i].sock # s
    PROVE  TypeOK' /\ NodesSafe' /\ SentinelSafe' /\ HeadsSafe' /\ WalksSafe'
<1>1. TypeOK
  BY DEF AllocInv, AllocTypeOK
<1>2. /\ DONE \notin Fn /\ NULL \notin Fn /\ DONE # NULL /\ g # DONE
      /\ Fn \subseteq Node /\ DONE \in Node /\ NULL \notin Node
  BY ValuesAssumption DEF Node
<1>3. /\ mem[g] = "unused"
      /\ \A k \in Node : mem'[k] = IF k = g THEN "live" ELSE mem[k]
      /\ \A k \in Node : ref'[k] = IF k = g THEN TRUE ELSE ref[k]
      /\ \A k \in Node : next'[k] = IF k = g THEN h ELSE next[k]
      /\ \A k \in Node : prev'[k] = IF k = g THEN NULL ELSE IF k = h THEN g ELSE prev[k]
      /\ \A t \in Sock : head'[t] = IF t = s THEN g ELSE head[t]
      /\ \A k \in Fn : owner'[k] = IF k = g THEN s ELSE owner[k]
      /\ \A k \in Fn : stamp'[k] = IF k = g THEN clock + 1 ELSE stamp[k]
      /\ clock \in Nat /\ clock' = clock + 1 /\ stamp \in [Fn -> Nat]
      /\ stack' = stack /\ called' = called
  BY <1>1, <1>2 DEF TypeOK, Link
<1>4. TypeOK'
  <2>1. head' \in [Sock -> Ptr] /\ ref' \in [Node -> BOOLEAN]
    BY <1>1, <1>2 DEF TypeOK, Link, Ptr
  <2>2. prev' \in [Node -> Ptr] /\ next' \in [Node -> Ptr]
    BY <1>1, <1>2 DEF TypeOK, Link, Ptr
  <2>3. /\ owner' \in [Fn -> Sock \cup {NULL}] /\ stamp' \in [Fn -> Nat] /\ clock' \in Nat
        /\ mem' \in [Node -> {"unused", "live", "freed"}]
    BY <1>1, <1>2 DEF TypeOK, Link
  <2>4. QED
    BY <1>1, <1>3, <2>1, <2>2, <2>3 DEF TypeOK
<1>5. /\ ~ref[g] /\ h \in Ptr
      /\ h \in Fn => ref[h] /\ owner[h] = s /\ prev[h] = NULL /\ h # g
  BY <1>1, <1>3 DEF AllocInv, NodesSafe, HeadsSafe, Registered, TypeOK
<1>6. ASSUME NEW k \in Fn, ref[k]
      PROVE  /\ k # g /\ mem[k] = "live" /\ owner[k] \in Sock /\ stamp[k] =< clock
             /\ next[k] \in Fn => Linked(k, next[k])
             /\ prev[k] \in Fn => Linked(prev[k], k)
             /\ prev[k] # DONE
  BY <1>5, <1>6 DEF AllocInv, NodesSafe
<1>7. ASSUME NEW a \in Fn, NEW b \in Fn, Linked(a, b) PROVE Linked(a, b)'
  <2>1. a # g /\ b # g /\ a \in Node /\ b \in Node /\ prev[b] = a
    BY <1>2, <1>5, <1>7 DEF Linked
  <2>2. b # h
    BY <1>2, <1>5, <2>1
  <2>3. ref'[a] /\ ref'[b] /\ next'[a] = b /\ prev'[b] = a
    BY <1>3, <1>7, <2>1, <2>2 DEF Linked
  <2>4. /\ owner'[a] = owner[a] /\ owner'[b] = owner[b]
        /\ stamp'[a] = stamp[a] /\ stamp'[b] = stamp[b]
    BY <1>3, <2>1
  <2>5. QED
    BY <1>7, <2>3, <2>4 DEF Linked
<1>8. ASSUME h \in Fn PROVE Linked(g, h)'
  <2>1. ref[h] /\ owner[h] = s /\ h # g /\ stamp[h] =< clock /\ stamp[h] \in Nat
    BY <1>3, <1>5, <1>6, <1>8
  <2>2. ref'[g] /\ ref'[h] /\ next'[g] = h /\ prev'[h] = g
    BY <1>2, <1>3, <1>8, <2>1
  <2>3. /\ owner'[g] = s /\ owner'[h] = s
        /\ stamp'[g] = clock + 1 /\ stamp'[h] = stamp[h]
    BY <1>3, <1>8, <2>1
  <2>4. stamp'[g] > stamp'[h]
    BY <1>3, <2>1, <2>3
  <2>5. QED
    BY <2>2, <2>3, <2>4 DEF Linked
<1>9. NodesSafe'
  <2> SUFFICES ASSUME NEW k \in Fn, ref'[k]
      PROVE  /\ mem'[k] = "live" /\ owner'[k] \in Sock /\ stamp'[k] =< clock'
             /\ next'[k] \in Fn => Linked(k, next[k])'
             /\ prev'[k] \in Fn => Linked(prev[k], k)'
             /\ prev'[k] # DONE
    BY DEF NodesSafe
  <2>1. CASE k = g
    <3>1. /\ mem'[k] = "live" /\ owner'[k] = s /\ stamp'[k] = clock'
          /\ next'[k] = h /\ prev'[k] = NULL
      BY <1>2, <1>3, <2>1
    <3>2. QED
      BY <1>2, <1>3, <1>8, <2>1, <3>1
  <2>2. CASE k # g
    <3>1. ref[k]
      BY <1>2, <1>3, <2>2
    <3>2. /\ mem'[k] = "live" /\ owner'[k] \in Sock /\ stamp'[k] =< clock'
          /\ next'[k] = next[k]
      BY <1>2, <1>3, <1>6, <2>2, <3>1
    <3>3. next'[k] \in Fn => Linked(k, next[k])'
      BY <1>6, <1>7, <3>1, <3>2
    <3>4. CASE k = h
      <4>1. prev'[k] = g
        BY <1>2, <1>3, <2>2, <3>4
      <4>2. QED
        BY <1>2, <1>8, <3>2, <3>3, <3>4, <4>1
    <3>5. CASE k # h
      <4>1. prev'[k] = prev[k]
        BY <1>2, <1>3, <2>2, <3>5
      <4>2. prev'[k] \in Fn => Linked(prev[k], k)'
        BY <1>6, <1>7, <3>1, <4>1
      <4>3. QED
        BY <1>6, <3>1, <3>2, <3>3, <4>1, <4>2
    <3>6. QED
      BY <3>4, <3>5
  <2>3. QED
    BY <2>1, <2>2
<1>10. SentinelSafe'
  <2>1. /\ mem[DONE] = "live" /\ next[DONE] = NULL /\ prev[DONE] # DONE
        /\ ref[DONE] /\ prev[DONE] \in Fn => ref[prev[DONE]] /\ next[prev[DONE]] = DONE
    BY DEF AllocInv, SentinelSafe
  <2>2. /\ mem'[DONE] = "live" /\ next'[DONE] = NULL /\ ref'[DONE] = ref[DONE]
        /\ prev'[DONE] = IF h = DONE THEN g ELSE prev[DONE]
    <3>1. DONE # g /\ DONE \in Node
      BY <1>2
    <3>2. /\ mem'[DONE] = mem[DONE] /\ next'[DONE] = next[DONE] /\ ref'[DONE] = ref[DONE]
          /\ prev'[DONE] = IF DONE = h THEN g ELSE prev[DONE]
      BY <1>3, <3>1
    <3>3. QED
      BY <2>1, <3>2
  <2>3. CASE h = DONE
    BY <1>2, <1>3, <2>2, <2>3 DEF SentinelSafe
  <2>4. CASE h # DONE
    <3>1. ref[DONE] /\ prev[DONE] \in Fn => ref'[prev[DONE]] /\ next'[prev[DONE]] = DONE
      BY <1>2, <1>3, <1>6, <2>1
    <3>2. QED
      BY <2>1, <2>2, <2>4, <3>1 DEF SentinelSafe
  <2>5. QED
    BY <2>3, <2>4
<1>11. HeadsSafe'
  <2> SUFFICES ASSUME NEW t \in Sock, NEW k \in Fn, head'[t] = k
      PROVE  ref'[k] /\ owner'[k] = t /\ prev'[k] = NULL
    BY DEF HeadsSafe, Registered
  <2>1. CASE t = s
    <3>1. k = g
      BY <1>3, <2>1
    <3>2. ref'[g] /\ owner'[g] = s /\ prev'[g] = NULL
      BY <1>2, <1>3
    <3>3. QED
      BY <2>1, <3>1, <3>2
  <2>2. CASE t # s
    <3>1. ref[k] /\ owner[k] = t /\ prev[k] = NULL
      BY <1>3, <2>2 DEF AllocInv, HeadsSafe, Registered
    <3>2. k # g /\ k # h
      BY <1>5, <2>2, <3>1
    <3>3. QED
      BY <1>2, <1>3, <3>1, <3>2
  <2>3. QED
    BY <2>1, <2>2
<1>12. WalksSafe'
  <2> SUFFICES ASSUME NEW i \in 1..Len(stack)
      PROVE  /\ head'[stack[i].sock] = DONE
             /\ i < Len(stack) => stack[i].udf
             /\ ~Outermost(i) => stack[i].cur \notin Fn
             /\ stack[i].cur \in Fn =>
                   ref'[stack[i].cur] /\ owner'[stack[i].cur] = stack[i].sock
             /\ stack[i].nxt \in Fn => stack[i].udf /\ next'[stack[i].cur] = stack[i].nxt
    BY <1>3 DEF WalksSafe, Registered, Outermost
  <2>1. /\ head[stack[i].sock] = DONE
        /\ i < Len(stack) => stack[i].udf
        /\ ~Outermost(i) => stack[i].cur \notin Fn
        /\ stack[i].cur \in Fn => ref[stack[i].cur] /\ owner[stack[i].cur] = stack[i].sock
        /\ stack[i].nxt \in Fn => stack[i].udf /\ next[stack[i].cur] = stack[i].nxt
    BY DEF AllocInv, WalksSafe, Registered
  <2>2. stack[i].sock \in Sock /\ stack[i].sock # s /\ (stack[i].udf => stack[i].cur \in Fn)
    BY <1>1, FrameTypes DEF TypeOK
  <2>3. stack[i].cur \in Fn =>
           /\ ref'[stack[i].cur] /\ owner'[stack[i].cur] = owner[stack[i].cur]
           /\ next'[stack[i].cur] = next[stack[i].cur]
    BY <1>2, <1>3, <1>5, <2>1
  <2>4. QED
    BY <1>3, <2>1, <2>2, <2>3
<1>13. QED
  BY <1>4, <1>9, <1>10, <1>11, <1>12

\* addgcfn keeps the invariant when it ends at last.
LEMMA AddEndSafe ==
    ASSUME AllocInv, NEW g \in Fn, AddEnd(g)
    PROVE  AllocInv'
<1> DEFINE m == Len(adding) - 1
<1>1. /\ AllocTypeOK /\ adding \in Seq([sock : Sock, depth : Nat]) /\ torn \subseteq Sock
      /\ adding # <<>> /\ adding[Len(adding)].depth = Len(stack)
      /\ adding' = SubSeq(adding, 1, m) /\ torn' = torn
      /\ Link(adding[Len(adding)].sock, g)
  BY DEF AllocInv, AllocTypeOK, AddEnd, Allocating
<1>2. /\ m \in Nat /\ Len(adding) = m + 1
      /\ adding' \in Seq([sock : Sock, depth : Nat]) /\ Len(adding') = m
      /\ \A k \in 1..m : adding'[k] = adding[k]
  BY <1>1, WithoutLast
<1>3. PICK s \in Sock : /\ adding[Len(adding)].sock = s
                        /\ \A i \in 1..Len(stack) : stack[i].sock # s
  <2>1. Len(adding) \in 1..Len(adding)
    BY <1>2
  <2>2. QED
    BY <1>1, <2>1, AddingTypes DEF AllocInv, AddsSafe
<1>4. PICK h : h = head[s]
  OBVIOUS
<1>5. TypeOK' /\ NodesSafe' /\ SentinelSafe' /\ HeadsSafe' /\ WalksSafe'
  <2>1. Link(s, g)
    BY <1>1, <1>3
  <2>2. QED
    BY <1>3, <1>4, <2>1, LinkSafe
<1>6. AddsSafe'
  <2>1. stack' = stack
    BY <1>1 DEF Link
  <2>2. \A k \in 1..m : k \in 1..Len(adding) /\ \A l \in 1..k : l \in 1..m
    BY <1>2
  <2> HIDE DEF m
  <2>3. QED
    BY <1>2, <2>1, <2>2 DEF AllocInv, AddsSafe
<1>7. QED
  BY <1>1, <1>2, <1>5, <1>6 DEF AllocInv, AllocTypeOK

\* The invariant holds initially: there is no list, no walk and no addgcfn.
LEMMA InitAllocInv == AllocInit => AllocInv
<1> SUFFICES ASSUME AllocInit PROVE AllocInv
  OBVIOUS
<1>1. Init /\ adding = <<>> /\ torn = {} /\ TypeOK
  BY InitTypeOK DEF AllocInit
<1>2. Len(stack) = 0 /\ Len(adding) = 0 /\ adding \in Seq([sock : Sock, depth : Nat])
  BY <1>1, EmptySeq DEF Init
<1>3. \A g \in Fn : ~ref[g]
  BY <1>1, ValuesAssumption DEF Init, Node
<1>4. SentinelSafe /\ HeadsSafe
  BY <1>1, ValuesAssumption DEF Init, SentinelSafe, HeadsSafe, Node
<1>5. QED
  BY <1>1, <1>2, <1>3, <1>4
  DEF AllocInv, AllocTypeOK, NodesSafe, WalksSafe, AddsSafe

\* Every step keeps it.
LEMMA NextAllocInv ==
    ASSUME ~ForeignDel, AllocInv, [AllocNext]_allocVars
    PROVE  AllocInv'
<1>1. ASSUME NEW s \in Sock, AddBegin(s) PROVE AllocInv'
  BY <1>1, AddBeginSafe
<1>2. ASSUME NEW s \in Sock, Teardown(s) PROVE AllocInv'
  BY <1>2, StartWalkSafe DEF Teardown
<1>3. ASSUME NEW s \in Sock, Finaliser(s) PROVE AllocInv'
  BY <1>3, StartWalkSafe DEF Finaliser
<1>4. ASSUME NEW g \in Fn, AddEnd(g) PROVE AllocInv'
  BY <1>4, AddEndSafe
<1>5. CASE Others
  <2>1. adding' = adding /\ torn' = torn
    BY <1>5 DEF Others
  <2>2. CASE WalkStep
    BY <2>1, <2>2, EnterUdfSafe, SkipDeletedSafe, VisitSentinelSafe, FinishWalkSafe
    DEF WalkStep
  <2>3. ASSUME NEW g \in Fn, Collect(g) PROVE AllocInv'
    BY <2>1, <2>3, CollectSafe
  <2>4. CASE ~Allocating /\ UdfReturn
    BY <2>1, <2>4, UdfReturnSafe
  <2>5. ASSUME NEW s \in Sock, NEW g \in Fn, DelGcfn(s, g) PROVE AllocInv'
    BY <2>1, <2>5, DelGcfnSafe
  <2>6. QED
    BY <1>5, <2>2, <2>3, <2>4, <2>5 DEF Others
<1>6. CASE UNCHANGED allocVars
  BY <1>6 DEF allocVars, vars, AllocInv, AllocTypeOK, TypeOK, NodesSafe, Linked,
     SentinelSafe, HeadsSafe, WalksSafe, AddsSafe, Registered, Outermost
<1>7. QED
  BY <1>1, <1>2, <1>3, <1>4, <1>5, <1>6 DEF AllocNext

\* The inductive invariant of addgcfn in two steps, for scripts that pass delgcfn the
\* functions of the socket.
THEOREM AllocInductive == ASSUME ~ForeignDel PROVE AllocSpec => []AllocInv
<1>1. AllocInv /\ [AllocNext]_allocVars => AllocInv'
  BY NextAllocInv
<1>2. QED
  BY <1>1, InitAllocInv, PTL DEF AllocSpec

\* AllocTypeOK: every variable keeps its type.
THEOREM AllocTypeCorrect == ASSUME ~ForeignDel PROVE AllocSpec => []AllocTypeOK
<1>1. AllocInv => AllocTypeOK
  BY DEF AllocInv
<1>2. QED
  BY <1>1, AllocInductive, PTL

\* NoFreedPointer: whatever finalisers the collector runs while addgcfn allocates, the
\* heads of the lists, the walks and the links of registered nodes lead to live nodes.
THEOREM NothingFreedIsUsed == ASSUME ~ForeignDel PROVE AllocSpec => []NoFreedPointer
<1>1. AllocInv => NoFreedPointer
  <2> SUFFICES ASSUME AllocInv PROVE NoFreedPointer
    OBVIOUS
  <2> DEFINE Safe(p) == p \in Fn => ref[p] /\ mem[p] = "live"
  <2>1. \A p \in Fn : ref[p] => mem[p] = "live"
    BY DEF AllocInv, NodesSafe
  <2>2. \A s \in Sock : Safe(head[s])
    BY <2>1 DEF AllocInv, HeadsSafe, Registered
  <2>3. \A g \in Fn : ref[g] => Safe(next[g]) /\ Safe(prev[g])
    BY <2>1 DEF AllocInv, NodesSafe, Linked
  <2>4. ASSUME NEW i \in 1..Len(stack) PROVE Safe(stack[i].cur) /\ Safe(stack[i].nxt)
    <3>1. /\ stack[i].cur \in Fn => ref[stack[i].cur]
          /\ stack[i].nxt \in Fn => stack[i].udf /\ next[stack[i].cur] = stack[i].nxt
      BY DEF AllocInv, WalksSafe, Registered
    <3>2. stack[i].udf => stack[i].cur \in Fn
      BY FrameTypes DEF AllocInv, AllocTypeOK, TypeOK
    <3>3. QED
      BY <2>1, <2>3, <3>1, <3>2
  <2>5. QED
    BY <2>2, <2>3, <2>4 DEF NoFreedPointer
<1>2. QED
  BY <1>1, AllocInductive, PTL
-----------------------------------------------------------------------------
(* Gcfn implements GcfnStack.                                              *)

\* q lists the functions of S by descending f.
Sorted(q, S, f) ==
    /\ q \in Seq(Fn)
    /\ \A i \in 1..Len(q) : q[i] \in S
    /\ \A g \in S : \E i \in 1..Len(q) : q[i] = g
    /\ \A i, j \in 1..Len(q) : i < j => f[q[i]] > f[q[j]]

\* A list of one set agrees with another up to where they are both defined.
LEMMA SortedSame ==
    ASSUME NEW S \in SUBSET Fn, NEW f, \A g \in S : f[g] \in Nat,
           NEW q, NEW r, Sorted(q, S, f), Sorted(r, S, f),
           NEW i \in Nat, i < Len(q), i < Len(r),
           \A j \in 1..i : q[j] = r[j]
    PROVE  q[i + 1] = r[i + 1]
<1>1. PICK a, b, k \in Nat : a = Len(q) /\ b = Len(r) /\ k = i + 1
  OBVIOUS
<1>2. a \in Nat /\ b \in Nat /\ k \in 1..a /\ k \in 1..b
  BY <1>1, LenProperties DEF Sorted
<1>3. PICK m \in 1..b : r[m] = q[k]
  BY <1>1, <1>2 DEF Sorted
<1>4. PICK n \in 1..a : q[n] = r[k]
  BY <1>1, <1>2 DEF Sorted
<1>5. f[q[k]] \in Nat /\ f[r[k]] \in Nat
  BY <1>1, <1>2 DEF Sorted
<1>6. m >= k
  <2>1. ASSUME m < k PROVE FALSE
    <3>1. m \in 1..i /\ m \in 1..a
      BY <1>1, <1>2, <1>3, <2>1
    <3>2. q[m] = q[k]
      BY <1>3, <3>1
    <3>3. f[q[m]] > f[q[k]]
      BY <1>1, <1>2, <2>1, <3>1 DEF Sorted
    <3>4. QED
      BY <1>5, <3>2, <3>3
  <2>2. QED
    BY <1>1, <1>2, <1>3, <2>1
<1>7. n >= k
  <2>1. ASSUME n < k PROVE FALSE
    <3>1. n \in 1..i /\ n \in 1..b
      BY <1>1, <1>2, <1>4, <2>1
    <3>2. r[n] = r[k]
      BY <1>4, <3>1
    <3>3. f[r[n]] > f[r[k]]
      BY <1>1, <1>2, <2>1, <3>1 DEF Sorted
    <3>4. QED
      BY <1>5, <3>2, <3>3
  <2>2. QED
    BY <1>1, <1>2, <1>4, <2>1
<1>8. CASE m = k
  BY <1>1, <1>3, <1>8
<1>9. CASE n = k
  BY <1>1, <1>4, <1>9
<1>10. CASE m # k /\ n # k
  <2>1. f[r[k]] > f[r[m]]
    BY <1>1, <1>2, <1>3, <1>6, <1>10 DEF Sorted
  <2>2. f[q[k]] > f[q[n]]
    BY <1>1, <1>2, <1>4, <1>7, <1>10 DEF Sorted
  <2>3. QED
    BY <1>3, <1>4, <1>5, <2>1, <2>2
<1>11. QED
  BY <1>8, <1>9, <1>10

\* There is nothing in the one that the other does not have.
LEMMA SortedNoLonger ==
    ASSUME NEW S \in SUBSET Fn, NEW f, \A g \in S : f[g] \in Nat,
           NEW q, NEW r, Sorted(q, S, f), Sorted(r, S, f),
           \A j \in 1..Len(q) : j \in 1..Len(r) => q[j] = r[j]
    PROVE  Len(r) =< Len(q)
<1>1. PICK a, b : a = Len(q) /\ b = Len(r) /\ a \in Nat /\ b \in Nat
  BY LenProperties DEF Sorted
<1> SUFFICES ASSUME a < b PROVE FALSE
  BY <1>1
<1>2. PICK k : k = a + 1 /\ k \in 1..b
  BY <1>1
<1>3. PICK n \in 1..a : q[n] = r[k]
  BY <1>1, <1>2 DEF Sorted
<1>4. n \in 1..b /\ n < k /\ q[n] = r[n]
  BY <1>1, <1>2, <1>3
<1>5. f[r[n]] > f[r[k]]
  BY <1>1, <1>2, <1>4 DEF Sorted
<1>6. f[r[k]] \in Nat
  BY <1>1, <1>2 DEF Sorted
<1>7. QED
  BY <1>3, <1>4, <1>5, <1>6

\* There is one list of a set.
LEMMA SortedUnique ==
    ASSUME NEW S \in SUBSET Fn, NEW f, \A g \in S : f[g] \in Nat,
           NEW q, NEW r, Sorted(q, S, f), Sorted(r, S, f)
    PROVE  q = r
<1>1. q \in Seq(Fn) /\ r \in Seq(Fn) /\ Len(q) \in Nat /\ Len(r) \in Nat
  BY LenProperties DEF Sorted
<1> DEFINE P == {n \in Nat : \A j \in 1..n : j =< Len(q) /\ j =< Len(r) => q[j] = r[j]}
<1>2. 0 \in P
  OBVIOUS
<1>3. ASSUME NEW n \in Nat, n \in P PROVE n + 1 \in P
  <2>1. \A j \in 1..n : j =< Len(q) /\ j =< Len(r) => q[j] = r[j]
    BY <1>3
  <2>2. CASE n < Len(q) /\ n < Len(r)
    <3>1. \A j \in 1..n : q[j] = r[j]
      BY <1>1, <2>1, <2>2
    <3>2. q[n + 1] = r[n + 1]
      BY <2>2, <3>1, SortedSame
    <3>3. \A j \in 1..(n + 1) : j \in 1..n \/ j = n + 1
      OBVIOUS
    <3>4. QED
      BY <3>1, <3>2, <3>3
  <2>3. CASE ~(n < Len(q) /\ n < Len(r))
    <3>1. \A j \in 1..(n + 1) : j =< Len(q) /\ j =< Len(r) => j \in 1..n
      BY <1>1, <2>3
    <3>2. QED
      BY <2>1, <3>1
  <2>4. QED
    BY <2>2, <2>3
<1> HIDE DEF P
<1>4. Nat \subseteq P
  BY <1>2, <1>3, SetInduction
<1>5. \A j \in 1..Len(q) : j \in 1..Len(r) => q[j] = r[j]
  <2>1. Len(q) \in P
    BY <1>1, <1>4
  <2>2. \A j \in 1..Len(q) : j =< Len(q) /\ j =< Len(r) => q[j] = r[j]
    BY <2>1 DEF P
  <2>3. QED
    BY <1>1, <2>2
<1>6. Len(r) =< Len(q) /\ Len(q) =< Len(r)
  <2>1. \A j \in 1..Len(r) : j \in 1..Len(q) => r[j] = q[j]
    BY <1>5
  <2>2. QED
    BY <1>5, <2>1, SortedNoLonger
<1>7. Len(q) = Len(r)
  BY <1>1, <1>6
<1>8. QED
  BY <1>1, <1>5, <1>7, SeqEqual

\* The list of no functions.
LEMMA SortedNothing ==
    ASSUME NEW f PROVE Sorted(<<>>, {}, f)
BY DEF Sorted

\* Lists with one function more or less.
LEMMA SortedCons ==
    ASSUME NEW S, NEW f, NEW q, Sorted(q, S, f), NEW g \in Fn,
           \A h \in S : f[g] > f[h]
    PROVE  Sorted(<<g>> \o q, S \cup {g}, f)
<1>1. q \in Seq(Fn) /\ Len(q) \in Nat /\ <<g>> \in Seq(Fn)
  BY LenProperties DEF Sorted
<1>2. PICK r : r = <<g>> \o q
  OBVIOUS
<1>3. /\ r \in Seq(Fn) /\ Len(r) = Len(q) + 1 /\ r[1] = g
      /\ \A i \in 1..Len(q) : r[i + 1] = q[i]
  BY <1>1, <1>2, ConcatProperties
<1>4. PICK a \in Nat : a = Len(q) /\ Len(r) = a + 1
  BY <1>1, <1>3
<1>5. ASSUME NEW i \in 1..Len(r) PROVE i = 1 \/ \E j \in 1..a : i = j + 1
  BY <1>4
<1>6. \A i \in 1..Len(r) : r[i] \in S \cup {g}
  BY <1>3, <1>4, <1>5 DEF Sorted
<1>7. ASSUME NEW h \in S \cup {g} PROVE \E i \in 1..Len(r) : r[i] = h
  <2>1. CASE h = g
    <3>1. 1 \in 1..Len(r)
      BY <1>4
    <3>2. QED
      BY <1>3, <2>1, <3>1
  <2>2. CASE h \in S
    <3>1. PICK i \in 1..Len(q) : q[i] = h
      BY <2>2 DEF Sorted
    <3>2. i + 1 \in 1..Len(r)
      BY <1>4
    <3>3. QED
      BY <1>3, <3>1, <3>2
  <2>3. QED
    BY <2>1, <2>2
<1>8. ASSUME NEW i \in 1..Len(r), NEW j \in 1..Len(r), i < j PROVE f[r[i]] > f[r[j]]
  <2>1. PICK m \in 1..a : j = m + 1
    BY <1>4, <1>5, <1>8
  <2>2. r[j] = q[m] /\ q[m] \in S
    BY <1>3, <1>4, <2>1 DEF Sorted
  <2>3. CASE i = 1
    BY <1>3, <2>2, <2>3
  <2>4. CASE i # 1
    <3>1. PICK n \in 1..a : i = n + 1
      BY <1>5, <2>4
    <3>2. n < m /\ r[i] = q[n]
      BY <1>3, <1>4, <1>8, <2>1, <3>1
    <3>3. f[q[n]] > f[q[m]]
      BY <1>4, <3>2 DEF Sorted
    <3>4. QED
      BY <2>2, <3>2, <3>3
  <2>5. QED
    BY <2>3, <2>4
<1>9. Sorted(r, S \cup {g}, f)
  BY <1>3, <1>6, <1>7, <1>8 DEF Sorted
<1>10. QED
  BY <1>2, <1>9

\* A list without one of its functions.
LEMMA SortedRemove ==
    ASSUME NEW S \in SUBSET Fn, NEW f, \A g \in S : f[g] \in Nat,
           NEW q, Sorted(q, S, f), NEW k \in 1..Len(q)
    PROVE  Sorted(RemoveAt(q, k), S \ {q[k]}, f)
<1>1. PICK r, a : r = RemoveAt(q, k) /\ a = Len(q) /\ a \in Nat
  BY LenProperties DEF Sorted
<1>2. /\ r \in Seq(Fn) /\ Len(r) = a - 1 /\ q \in Seq(Fn)
      /\ \A i \in 1..Len(r) : r[i] = q[IF i < k THEN i ELSE i + 1]
  BY <1>1, RemoveAtElements DEF Sorted
<1>3. ASSUME NEW i \in 1..Len(r)
      PROVE  \E j \in 1..a : r[i] = q[j] /\ j # k /\ j = IF i < k THEN i ELSE i + 1
  <2>1. PICK j : j = IF i < k THEN i ELSE i + 1
    OBVIOUS
  <2>2. j \in 1..a /\ j # k
    BY <1>1, <1>2, <2>1
  <2>3. QED
    BY <1>2, <2>1, <2>2
<1>4. ASSUME NEW i \in 1..a, NEW j \in 1..a, i # j PROVE q[i] # q[j]
  <2>1. f[q[i]] \in Nat /\ f[q[j]] \in Nat
    BY <1>1 DEF Sorted
  <2>2. f[q[i]] > f[q[j]] \/ f[q[j]] > f[q[i]]
    BY <1>1, <1>4 DEF Sorted
  <2>3. QED
    BY <2>1, <2>2
<1>5. \A i \in 1..Len(r) : r[i] \in S \ {q[k]}
  BY <1>1, <1>3, <1>4 DEF Sorted
<1>6. ASSUME NEW h \in S \ {q[k]} PROVE \E i \in 1..Len(r) : r[i] = h
  <2>1. PICK j \in 1..a : q[j] = h /\ j # k
    BY <1>1, <1>6 DEF Sorted
  <2>2. PICK i : i = IF j < k THEN j ELSE j - 1
    OBVIOUS
  <2>3. i \in 1..Len(r) /\ j = IF i < k THEN i ELSE i + 1
    BY <1>1, <1>2, <2>1, <2>2
  <2>4. QED
    BY <1>2, <2>1, <2>3
<1>7. ASSUME NEW i \in 1..Len(r), NEW j \in 1..Len(r), i < j PROVE f[r[i]] > f[r[j]]
  <2>1. PICK m \in 1..a : r[i] = q[m] /\ m = IF i < k THEN i ELSE i + 1
    BY <1>3
  <2>2. PICK n \in 1..a : r[j] = q[n] /\ n = IF j < k THEN j ELSE j + 1
    BY <1>3
  <2>3. m < n
    BY <1>1, <1>2, <1>7, <2>1, <2>2
  <2>4. QED
    BY <1>1, <2>1, <2>2, <2>3 DEF Sorted
<1>8. Sorted(r, S \ {q[k]}, f)
  BY <1>2, <1>5, <1>6, <1>7 DEF Sorted
<1>9. QED
  BY <1>1, <1>8

-----------------------------------------------------------------------------
\* The function that Chain defines by recursion.
IsFollow(f, m) ==
    f = [k \in 0..m |->
           [n \in Ptr |-> IF k = 0 \/ n \notin Fn THEN <<>> ELSE <<n>> \o f[k - 1][next[n]]]]

\* The recursive function of Chain exists,
LEMMA FollowExists ==
    ASSUME NEW m \in Nat
    PROVE  \E f : IsFollow(f, m)
<1> DEFINE F(g, k) ==
        [n \in Ptr |-> IF k = 0 \/ n \notin Fn THEN <<>> ELSE <<n>> \o g[k - 1][next[n]]]
           P == {i \in Nat : \E f : f = [k \in 0..i |-> F(f, k)]}
<1>1. 0 \in P
  <2>1. PICK h : h = [n \in Ptr |-> <<>>]
    OBVIOUS
  <2>2. PICK f : f = [k \in 0..0 |-> h]
    OBVIOUS
  <2>3. \A k \in 0..0 : F(f, k) = h
    BY <2>1
  <2>4. f = [k \in 0..0 |-> F(f, k)]
    BY <2>2, <2>3
  <2>5. QED
    BY <2>4
<1>2. ASSUME NEW i \in Nat, i \in P PROVE i + 1 \in P
  <2>1. PICK f : f = [k \in 0..i |-> F(f, k)]
    BY <1>2
  <2>2. PICK g : g = [k \in 0..(i + 1) |-> IF k = i + 1 THEN F(f, k) ELSE f[k]]
    OBVIOUS
  <2>3. \A k \in 0..i : g[k] = f[k]
    BY <2>2
  <2>4. ASSUME NEW k \in 0..(i + 1) PROVE F(g, k) = F(f, k)
    <3>1. CASE k = 0
      BY <3>1
    <3>2. CASE k # 0
      <4>1. k - 1 \in 0..i
        BY <3>2
      <4>2. g[k - 1] = f[k - 1]
        BY <2>3, <4>1
      <4>3. QED
        BY <4>2
    <3>3. QED
      BY <3>1, <3>2
  <2>5. ASSUME NEW k \in 0..(i + 1) PROVE g[k] = F(g, k)
    <3>1. CASE k = i + 1
      BY <2>2, <2>4, <3>1
    <3>2. CASE k # i + 1
      <4>1. k \in 0..i
        BY <3>2
      <4>2. f[k] = F(f, k)
        BY <2>1, <4>1
      <4>3. QED
        BY <2>3, <2>4, <4>1, <4>2
    <3>3. QED
      BY <3>1, <3>2
  <2> HIDE DEF F
  <2>6. g = [k \in 0..(i + 1) |-> g[k]]
    BY <2>2
  <2>7. g = [k \in 0..(i + 1) |-> F(g, k)]
    BY <2>5, <2>6
  <2>8. QED
    BY <2>7
<1>3. m \in P
  <2> HIDE DEF P
  <2>1. QED
    BY <1>1, <1>2, SetInduction
<1>4. QED
  BY <1>3 DEF IsFollow

\* Chain is one of its values,
LEMMA ChainFollow ==
    ASSUME TypeOK, NEW p \in Ptr
    PROVE  \E f : IsFollow(f, clock) /\ Chain(p) = f[clock][p]
<1> DEFINE f == CHOOSE f : IsFollow(f, clock)
<1>1. Chain(p) = f[clock][p]
  BY DEF Chain, IsFollow
<1>2. IsFollow(f, clock)
  BY FollowExists DEF TypeOK
<1> HIDE DEF f
<1>3. QED
  BY <1>1, <1>2

\* and each value is a node before the one for the node's next.
LEMMA FollowStep ==
    ASSUME TypeOK, NEW f, IsFollow(f, clock)
    PROVE  \A k \in 0..clock : \A p \in Ptr :
              f[k][p] = IF k = 0 \/ p \notin Fn THEN <<>> ELSE <<p>> \o f[k - 1][next[p]]
<1>1. ASSUME NEW k \in 0..clock
      PROVE  f[k] = [n \in Ptr |-> IF k = 0 \/ n \notin Fn THEN <<>>
                                   ELSE <<n>> \o f[k - 1][next[n]]]
  BY Zenon DEF IsFollow
<1>2. QED
  BY <1>1, Zenon

\* The clock starts at one.
StampsPositive == \A g \in Fn : ref[g] => stamp[g] > 0

\* The functions of a socket from a on.
From(a) == {g \in Registered(owner[a]) : stamp[g] =< stamp[a]}

\* The functions from a on are a, and those from its next on.
LEMMA OneByOne ==
    ASSUME IInv, NEW a \in Fn, ref[a]
    PROVE  /\ owner[a] \in Sock /\ stamp[a] \in Nat /\ stamp[a] =< clock /\ a \in From(a)
           /\ From(a) \in SUBSET Fn
           /\ next[a] \in Fn => /\ ref[next[a]] /\ stamp[next[a]] < stamp[a]
                                /\ From(a) = From(next[a]) \cup {a}
           /\ next[a] \notin Fn => From(a) = {a}
<1>1. /\ TypeOK /\ ListOK /\ StampsOK /\ WellLinked
      /\ owner[a] \in Sock /\ stamp[a] \in Nat /\ stamp[a] =< clock
      /\ next[a] \in Registered(owner[a]) \cup {NULL}
  BY DEF IInv, TypeOK, ListOK, StampsOK
<1>2. a \in From(a) /\ From(a) \in SUBSET Fn
  BY <1>1 DEF From, Registered
<1>3. ASSUME NEW g \in From(a) PROVE /\ g \in Fn /\ ref[g] /\ owner[g] = owner[a]
                                     /\ stamp[g] \in Nat /\ stamp[g] =< stamp[a]
                                     /\ g # a => stamp[g] < stamp[a]
  <2>1. g \in Fn /\ ref[g] /\ owner[g] = owner[a] /\ stamp[g] =< stamp[a]
    BY <1>3 DEF From, Registered
  <2>2. stamp[g] \in Nat
    BY <1>1, <2>1 DEF TypeOK
  <2>3. g # a => stamp[g] # stamp[a]
    BY <1>1, <2>1 DEF StampsOK
  <2>4. QED
    BY <1>1, <2>1, <2>2, <2>3
<1>4. CASE next[a] \in Fn
  <2>1. PICK b \in Fn : b = next[a]
    BY <1>4
  <2>2. ref[b] /\ owner[b] = owner[a] /\ stamp[b] \in Nat
    BY <1>1, <2>1, ValuesAssumption DEF Registered, TypeOK
  <2>3. stamp[b] < stamp[a]
    BY <1>1, <2>1, <2>2 DEF WellLinked
  <2>4. ASSUME NEW g \in From(a), g # a PROVE g \in From(b)
    <3>1. g \in Fn /\ ref[g] /\ owner[g] = owner[a] /\ stamp[g] < stamp[a]
      BY <1>3, <2>4
    <3>2. stamp[g] \in Nat
      BY <1>3
    <3>3. stamp[b] >= stamp[g]
      BY <1>1, <2>1, <3>1, <3>2 DEF WellLinked
    <3>4. stamp[g] =< stamp[b]
      BY <2>2, <3>2, <3>3
    <3>5. QED
      BY <2>2, <3>1, <3>4 DEF From, Registered
  <2>5. ASSUME NEW g \in From(b) PROVE g \in From(a)
    <3>1. g \in Fn /\ ref[g] /\ owner[g] = owner[a] /\ stamp[g] =< stamp[b]
      BY <2>2 DEF From, Registered
    <3>2. stamp[g] \in Nat
      BY <1>1, <3>1 DEF TypeOK
    <3>3. stamp[g] =< stamp[a]
      BY <1>1, <2>2, <2>3, <3>1, <3>2
    <3>4. QED
      BY <3>1, <3>3 DEF From, Registered
  <2>6. From(a) = From(b) \cup {a}
    BY <1>2, <2>4, <2>5
  <2>7. QED
    BY <1>1, <1>2, <1>4, <2>1, <2>2, <2>3, <2>6
<1>5. CASE next[a] \notin Fn
  <2>1. next[a] = NULL
    BY <1>1, <1>5 DEF Registered
  <2>2. ASSUME NEW g \in From(a), g # a PROVE FALSE
    <3>1. g \in Fn /\ ref[g] /\ owner[g] = owner[a] /\ stamp[g] < stamp[a]
      BY <1>3, <2>2
    <3>2. stamp[a] > stamp[g]
      BY <1>1, <1>3, <3>1
    <3>3. QED
      BY <1>1, <2>1, <3>1, <3>2 DEF WellLinked
  <2>3. QED
    BY <1>1, <1>2, <1>5, <2>2
<1>6. QED
  BY <1>4, <1>5

\* Following the links from a lists them.
LEMMA FollowSorted ==
    ASSUME IInv, StampsPositive, NEW f, IsFollow(f, clock)
    PROVE  \A a \in Fn : ref[a] => Sorted(f[clock][a], From(a), stamp)
<1>1. TypeOK /\ clock \in Nat
  BY DEF IInv, TypeOK
<1>2. \A k \in 0..clock : \A p \in Ptr :
         f[k][p] = IF k = 0 \/ p \notin Fn THEN <<>> ELSE <<p>> \o f[k - 1][next[p]]
  BY <1>1, FollowStep
<1> DEFINE P == {k \in Nat : k =< clock => \A a \in Fn : ref[a] /\ stamp[a] =< k =>
                                               Sorted(f[k][a], From(a), stamp)}
<1>3. 0 \in P
  <2>1. ASSUME NEW a \in Fn, ref[a], stamp[a] =< 0 PROVE FALSE
    BY <1>1, <2>1 DEF StampsPositive, TypeOK
  <2>2. QED
    BY <2>1
<1>4. ASSUME NEW k \in Nat, k \in P PROVE k + 1 \in P
  <2> SUFFICES ASSUME k + 1 =< clock, NEW a \in Fn, ref[a], stamp[a] =< k + 1
               PROVE  Sorted(f[k + 1][a], From(a), stamp)
    OBVIOUS
  <2>1. PICK m : m = k + 1 /\ m \in 0..clock /\ m # 0 /\ m - 1 = k /\ k \in 0..clock /\ k =< clock
    BY <1>1
  <2>2. f[m][a] = <<a>> \o f[k][next[a]]
    <3>1. a \in Ptr
      BY DEF Ptr, Node
    <3>2. f[m][a] = IF m = 0 \/ a \notin Fn THEN <<>> ELSE <<a>> \o f[m - 1][next[a]]
      BY <1>2, <2>1, <3>1, Zenon
    <3>3. QED
      BY <2>1, <3>2
  <2>3. /\ stamp[a] \in Nat /\ From(a) \in SUBSET Fn
        /\ next[a] \in Fn => /\ ref[next[a]] /\ stamp[next[a]] < stamp[a]
                             /\ From(a) = From(next[a]) \cup {a}
        /\ next[a] \notin Fn => From(a) = {a}
    BY OneByOne
  <2>4. CASE next[a] \in Fn
    <3>1. PICK b \in Fn : b = next[a] /\ ref[b] /\ stamp[b] < stamp[a] /\ stamp[b] \in Nat
      BY <1>1, <2>3, <2>4 DEF TypeOK
    <3>2. stamp[b] =< k
      BY <2>3, <3>1
    <3>3. Sorted(f[k][b], From(b), stamp)
      BY <1>4, <2>1, <3>1, <3>2
    <3>4. \A h \in From(b) : stamp[a] > stamp[h]
      <4>1. ASSUME NEW h \in From(b) PROVE stamp[a] > stamp[h]
        <5>1. h \in Fn /\ stamp[h] =< stamp[b]
          BY <4>1 DEF From, Registered
        <5>2. stamp[h] \in Nat
          BY <1>1, <5>1 DEF TypeOK
        <5>3. QED
          BY <2>3, <3>1, <5>1, <5>2
      <4>2. QED
        BY <4>1
    <3>5. Sorted(<<a>> \o f[k][b], From(b) \cup {a}, stamp)
      BY <3>3, <3>4, SortedCons
    <3>6. QED
      BY <2>1, <2>2, <2>3, <3>1, <3>5
  <2>5. CASE next[a] \notin Fn
    <3>1. f[k][next[a]] = <<>>
      <4>1. PICK p \in Ptr : p = next[a]
        BY <1>1 DEF TypeOK, Node
      <4>2. f[k][p] = IF k = 0 \/ p \notin Fn THEN <<>> ELSE <<p>> \o f[k - 1][next[p]]
        BY <1>2, <2>1, Zenon
      <4>3. QED
        BY <2>5, <4>1, <4>2
    <3>2. Sorted(<<a>> \o <<>>, {} \cup {a}, stamp)
      BY SortedNothing, SortedCons
    <3>3. {} \cup {a} = {a}
      OBVIOUS
    <3>4. QED
      BY <2>1, <2>2, <2>3, <2>5, <3>1, <3>2, <3>3
  <2>6. QED
    BY <2>4, <2>5
<1> HIDE DEF P
<1>5. clock \in P
  BY <1>1, <1>3, <1>4, SetInduction
<1>6. ASSUME NEW a \in Fn, ref[a] PROVE stamp[a] =< clock
  BY <1>6, OneByOne
<1>7. QED
  BY <1>1, <1>5, <1>6 DEF P

\* So Chain lists the functions from p on.
LEMMA ChainSorted ==
    ASSUME IInv, StampsPositive, NEW p \in Ptr
    PROVE  /\ p \in Fn /\ ref[p] => Sorted(Chain(p), From(p), stamp)
           /\ p \notin Fn => Sorted(Chain(p), {}, stamp)
<1>1. TypeOK /\ clock \in Nat
  BY DEF IInv, TypeOK
<1>2. PICK f : IsFollow(f, clock) /\ Chain(p) = f[clock][p]
  BY <1>1, ChainFollow
<1>3. CASE p \in Fn
  BY <1>2, <1>3, FollowSorted
<1>4. CASE p \notin Fn
  <2>1. \A k \in 0..clock : \A n \in Ptr :
           f[k][n] = IF k = 0 \/ n \notin Fn THEN <<>> ELSE <<n>> \o f[k - 1][next[n]]
    BY <1>1, <1>2, FollowStep
  <2>2. clock \in 0..clock
    BY <1>1
  <2>3. f[clock][p] = IF clock = 0 \/ p \notin Fn THEN <<>>
                      ELSE <<p>> \o f[clock - 1][next[p]]
    BY <2>1, <2>2, Zenon
  <2>4. Chain(p) = <<>>
    BY <1>2, <1>4, <2>3
  <2>5. QED
    BY <1>4, <2>4, SortedNothing
<1>5. QED
  BY <1>3, <1>4

\* The functions of s that are not running.
Waiting(s) == {g \in Registered(s) : \A i \in 1..Len(stack) :
                                        stack[i].udf => stack[i].cur # g}

\* What is left to read of a socket's list, in order.
PendingSorted ==
    \A s \in Sock : Rest(s) \in Ptr /\ Sorted(Chain(Rest(s)), Waiting(s), stamp)

\* The rest of a socket's list is what waits.
LEMMA RestIsWaiting ==
    ASSUME IInv, NEW s \in Sock
    PROVE  /\ Rest(s) \in Ptr
           /\ Rest(s) \in Fn => ref[Rest(s)] /\ Waiting(s) = From(Rest(s))
           /\ Rest(s) \notin Fn => Waiting(s) = {}
<1>1. /\ TypeOK /\ NoStalePointer /\ NoneLost /\ SavedNextIsCurrent /\ WalksOK /\ ListOK
      /\ head[s] \in Ptr
  BY DEF IInv, TypeOK
<1>2. \A i \in 1..Len(stack) :
         /\ stack[i].sock \in Sock /\ stack[i].cur \in Ptr /\ stack[i].nxt \in Ptr
         /\ stack[i].udf \in BOOLEAN /\ (stack[i].udf => stack[i].cur \in Fn)
  BY <1>1, FrameTypes DEF TypeOK
\* A function of s that runs is the one at which the outermost walk of s stands.
<1>3. ASSUME NEW i \in 1..Len(stack), stack[i].udf, stack[i].cur \in Registered(s)
      PROVE  stack[i].sock = s /\ Outermost(i)
  <2>1. stack[i].cur \in Registered(stack[i].sock)
    BY <1>1, <1>3 DEF SavedNextIsCurrent
  <2>2. stack[i].sock = s
    BY <1>3, <2>1 DEF Registered
  <2>3. Outermost(i)
    BY <1>1, <1>2, <1>3 DEF WalksOK
  <2>4. QED
    BY <2>2, <2>3
\* The list starts at the newest.
<1>4. ASSUME NEW p \in Ptr, \A a \in Fn : StartsAt(s, a) => a = p
      PROVE  /\ p \in Registered(s) => Registered(s) = From(p)
             /\ p \notin Registered(s) => Registered(s) = {}
  <2>1. ASSUME NEW g \in Registered(s) PROVE p \in Registered(s) /\ stamp[g] =< stamp[p]
    <3>1. g \in Fn /\ ref[g] /\ owner[g] = s
      BY DEF Registered
    <3>2. PICK a \in Registered(s) : StartsAt(s, a) /\ stamp[g] =< stamp[a]
      BY <1>1, <3>1 DEF NoneLost
    <3>3. a \in Fn
      BY DEF Registered
    <3>4. a = p
      BY <1>4, <3>2, <3>3
    <3>5. QED
      BY <3>2, <3>4
  <2>2. p \in Registered(s) => owner[p] = s
    BY DEF Registered
  <2>3. QED
    BY <2>1, <2>2 DEF From
<1>5. CASE head[s] # DONE
  <2>1. Rest(s) = head[s]
    BY <1>5 DEF Rest
  <2>2. \A i \in 1..Len(stack) : stack[i].sock # s
    BY <1>5, HeadIsNewest
  <2>3. Waiting(s) = Registered(s)
    BY <1>3, <2>2 DEF Waiting
  <2>4. \A a \in Fn : StartsAt(s, a) => a = head[s]
    BY <2>2 DEF StartsAt
  <2>5. head[s] \in Fn => head[s] \in Registered(s)
    BY <1>1 DEF NoStalePointer, StartsAt
  <2>6. QED
    BY <1>1, <1>4, <2>1, <2>3, <2>4, <2>5 DEF Registered
<1>6. CASE head[s] = DONE /\ ~\E i \in 1..Len(stack) : stack[i].sock = s /\ Outermost(i)
  <2>1. Rest(s) = NULL
    BY <1>6 DEF Rest
  <2>2. ASSUME NEW a \in Fn, StartsAt(s, a) PROVE FALSE
    BY <1>1, <1>6, <2>2, ValuesAssumption DEF StartsAt, WalksOK
  <2>3. Registered(s) = {}
    <3>1. NULL \in Ptr /\ NULL \notin Fn
      BY ValuesAssumption DEF Ptr
    <3>2. NULL \notin Registered(s)
      BY <3>1 DEF Registered
    <3>3. QED
      BY <1>4, <2>2, <3>1, <3>2
  <2>4. QED
    BY <2>1, <2>3, ValuesAssumption DEF Waiting, Ptr
<1>7. CASE head[s] = DONE /\ \E i \in 1..Len(stack) : stack[i].sock = s /\ Outermost(i)
  <2> DEFINE walks == {i \in 1..Len(stack) : stack[i].sock = s /\ Outermost(i)}
  <2>1. PICK i \in 1..Len(stack) : stack[i].sock = s /\ Outermost(i)
    BY <1>7
  <2>2. ASSUME NEW j \in 1..Len(stack), stack[j].sock = s, Outermost(j) PROVE j = i
    <3>1. Len(stack) \in Nat
      BY <1>1, LenProperties DEF TypeOK
    <3>2. QED
      BY <2>1, <2>2, <3>1 DEF Outermost
  <2>3. walks = {i}
    BY <2>1, <2>2
  <2>4. Rest(s) = IF stack[i].udf THEN stack[i].nxt ELSE stack[i].cur
    <3>1. Rest(s) = LET f == stack[CHOOSE j \in walks : TRUE]
                    IN  IF f.udf THEN f.nxt ELSE f.cur
      BY <1>7, <2>3 DEF Rest
    <3>2. (CHOOSE j \in walks : TRUE) = i
      BY <2>3
    <3> HIDE DEF walks
    <3>3. QED
      BY <3>1, <3>2
  <2>5. \A a \in Fn : StartsAt(s, a) => a = stack[i].cur
    BY <1>1, <1>7, <2>2, ValuesAssumption DEF StartsAt, WalksOK
  <2>6. stack[i].cur \in Fn => stack[i].cur \in Registered(s)
    BY <1>1, <2>1 DEF NoStalePointer, StartsAt
  <2>7. CASE ~stack[i].udf
    <3>1. Waiting(s) = Registered(s)
      BY <1>3, <2>2, <2>7 DEF Waiting
    <3>2. QED
      BY <1>2, <1>4, <2>4, <2>5, <2>6, <2>7, <3>1 DEF Registered
  <2>8. CASE stack[i].udf
    <3>1. PICK a \in Fn : a = stack[i].cur /\ a \in Registered(s) /\ ref[a] /\ owner[a] = s
      BY <1>2, <2>6, <2>8 DEF Registered
    <3>2. Rest(s) = next[a]
      BY <1>1, <2>4, <2>8, <3>1 DEF SavedNextIsCurrent
    <3>3. Registered(s) = From(a)
      BY <1>2, <1>4, <2>5, <3>1
    <3>4. Waiting(s) = Registered(s) \ {a}
      <4>1. \A g \in Waiting(s) : g \in Registered(s) /\ g # a
        BY <2>8, <3>1 DEF Waiting
      <4>2. ASSUME NEW g \in Registered(s), g # a PROVE g \in Waiting(s)
        BY <1>3, <2>2, <3>1, <4>2 DEF Waiting
      <4>3. QED
        BY <4>1, <4>2 DEF Waiting
    <3>5. /\ stamp[a] \in Nat
          /\ next[a] \in Fn => /\ ref[next[a]] /\ stamp[next[a]] < stamp[a]
                               /\ From(a) = From(next[a]) \cup {a}
          /\ next[a] \notin Fn => From(a) = {a}
      BY <3>1, OneByOne
    <3>6. next[a] \in Fn => a \notin From(next[a])
      <4>1. ASSUME next[a] \in Fn, a \in From(next[a]) PROVE FALSE
        <5>1. stamp[a] =< stamp[next[a]]
          BY <4>1 DEF From
        <5>2. stamp[next[a]] \in Nat
          BY <1>1, <4>1 DEF TypeOK
        <5>3. QED
          BY <3>5, <4>1, <5>1, <5>2
      <4>2. QED
        BY <4>1
    <3>7. Rest(s) \in Ptr
      BY <1>2, <2>4, <2>8
    <3>8. QED
      BY <3>2, <3>3, <3>4, <3>5, <3>6, <3>7
  <2>9. QED
    BY <1>2, <2>7, <2>8
<1>8. QED
  BY <1>5, <1>6, <1>7

\* The rest of each list holds the waiting functions, newest first.
LEMMA PendingNow == IInv /\ StampsPositive => PendingSorted
<1> SUFFICES ASSUME IInv, StampsPositive, NEW s \in Sock
             PROVE  Rest(s) \in Ptr /\ Sorted(Chain(Rest(s)), Waiting(s), stamp)
  BY DEF PendingSorted
<1>1. PICK p : p = Rest(s)
  OBVIOUS
<1>2. /\ p \in Ptr
      /\ p \in Fn => ref[p] /\ Waiting(s) = From(p)
      /\ p \notin Fn => Waiting(s) = {}
  BY <1>1, RestIsWaiting
<1>3. /\ p \in Fn /\ ref[p] => Sorted(Chain(p), From(p), stamp)
      /\ p \notin Fn => Sorted(Chain(p), {}, stamp)
  BY <1>2, ChainSorted
<1>4. Sorted(Chain(p), Waiting(s), stamp)
  BY <1>2, <1>3
<1>5. QED
  BY <1>1, <1>2, <1>4

\* The first of a list.
LEMMA SortedTail ==
    ASSUME NEW S \in SUBSET Fn, NEW f, \A g \in S : f[g] \in Nat,
           NEW q, Sorted(q, S, f), NEW g \in S, \A h \in S : f[h] =< f[g]
    PROVE  q # <<>> /\ Head(q) = g /\ Sorted(Tail(q), S \ {g}, f)
<1>1. q \in Seq(Fn) /\ Len(q) \in Nat
  BY LenProperties DEF Sorted
<1>2. PICK i \in 1..Len(q) : q[i] = g
  BY DEF Sorted
<1>3. Len(q) # 0 /\ 1 \in 1..Len(q)
  BY <1>1, <1>2
<1>4. q # <<>>
  BY <1>1, <1>3, EmptySeq
<1>5. i = 1
  <2>1. ASSUME i # 1 PROVE FALSE
    <3>1. f[q[1]] > f[q[i]]
      BY <1>2, <1>3, <2>1 DEF Sorted
    <3>2. q[1] \in S
      BY <1>3 DEF Sorted
    <3>3. f[q[1]] =< f[g] /\ f[q[1]] \in Nat /\ f[g] \in Nat
      BY <3>2
    <3>4. QED
      BY <1>2, <3>1, <3>3
  <2>2. QED
    BY <2>1
<1>6. PICK r : r = RemoveAt(q, 1)
  OBVIOUS
<1>7. Sorted(r, S \ {g}, f)
  BY <1>2, <1>5, <1>6, SortedRemove
<1>8. /\ r \in Seq(Fn) /\ Len(r) = Len(q) - 1
      /\ \A j \in 1..Len(r) : r[j] = q[j + 1]
  <2>1. /\ r \in Seq(Fn) /\ Len(r) = Len(q) - 1
        /\ \A j \in 1..Len(r) : r[j] = q[IF j < 1 THEN j ELSE j + 1]
    BY <1>1, <1>3, <1>6, RemoveAtElements
  <2>2. QED
    BY <1>1, <2>1
<1>9. PICK t : t = Tail(q)
  OBVIOUS
<1>10. /\ t \in Seq(Fn) /\ Len(t) = Len(q) - 1
       /\ \A j \in 1..Len(t) : t[j] = q[j + 1]
  BY <1>1, <1>4, <1>9, HeadTailProperties
<1>11. t = r
  BY <1>8, <1>10, SeqEqual
<1>12. Head(q) = q[1]
  OBVIOUS
<1>13. QED
  BY <1>2, <1>4, <1>5, <1>7, <1>9, <1>11, <1>12

\* The order depends on the stamps of the listed functions only.
LEMMA SortedKept ==
    ASSUME NEW S, NEW f, NEW h, \A g \in S : h[g] = f[g], NEW q, Sorted(q, S, f)
    PROVE  Sorted(q, S, h)
BY DEF Sorted

\* The variables of GcfnStack.
Pending(s) == Chain(Rest(s))
Pendings == [s \in Sock |-> Pending(s)]
Closed == [s \in Sock |-> head[s] = DONE]
Running == [i \in 1..InUdfs |-> Activation(stack[i])]
Used == {g \in Fn : mem[g] # "unused"}

\* The invariant of the refinement: each list is in order.
Waits == \A s \in Sock : /\ Sorted(Pending(s), Waiting(s), stamp)
                         /\ Waiting(s) \in SUBSET Fn
                         /\ \A g \in Waiting(s) : stamp[g] \in Nat
Good == IInv /\ Waits

\* It follows from those of Gcfn.
LEMMA GoodNow == IInv /\ StampsPositive => Good
<1>1. IInv => \A s \in Sock : /\ Waiting(s) \in SUBSET Fn
                              /\ \A g \in Waiting(s) : stamp[g] \in Nat
  BY DEF IInv, TypeOK, Waiting, Registered
<1>2. PendingSorted => \A s \in Sock : Sorted(Pending(s), Waiting(s), stamp)
  BY DEF PendingSorted, Pending
<1>3. QED
  BY <1>1, <1>2, PendingNow DEF Good, Waits

\* A list stays as it is if the same functions wait, and a change of them by one
\* is a change of the list by one.
LEMMA PendingSame ==
    ASSUME Waits, Waits', NEW s \in Sock, Waiting(s)' = Waiting(s),
           \A g \in Waiting(s) : stamp'[g] = stamp[g]
    PROVE  Pending(s)' = Pending(s)
<1>1. PICK q, r, S, f, h : /\ q = Pending(s) /\ r = Pending(s)' /\ S = Waiting(s)
                           /\ f = stamp /\ h = stamp'
  OBVIOUS
<1>2. Sorted(q, S, f) /\ S \in SUBSET Fn /\ \A g \in S : f[g] \in Nat
  BY <1>1 DEF Waits
<1>3. Sorted(r, S, h) /\ \A g \in S : f[g] = h[g]
  BY <1>1 DEF Waits
<1>4. Sorted(r, S, f)
  BY <1>3, SortedKept
<1>5. q = r
  BY <1>2, <1>4, SortedUnique
<1>6. QED
  BY <1>1, <1>5

\* (A function is added.)
LEMMA PendingCons ==
    ASSUME Waits, Waits', NEW s \in Sock, NEW g \in Fn, Waiting(s)' = Waiting(s) \cup {g},
           \A h \in Waiting(s) : stamp'[h] = stamp[h] /\ stamp'[g] > stamp[h]
    PROVE  Pending(s)' = <<g>> \o Pending(s)
<1>1. PICK q, r, S, T, f, h : /\ q = Pending(s) /\ r = Pending(s)' /\ S = Waiting(s)
                              /\ f = stamp /\ h = stamp' /\ T = S \cup {g}
  OBVIOUS
<1>2. Sorted(q, S, f) /\ \A x \in S : h[x] = f[x] /\ h[g] > h[x]
  BY <1>1 DEF Waits
<1>3. Sorted(r, T, h) /\ T \in SUBSET Fn /\ \A x \in T : h[x] \in Nat
  BY <1>1 DEF Waits
<1>4. Sorted(q, S, h)
  BY <1>2, SortedKept
<1>5. Sorted(<<g>> \o q, T, h)
  BY <1>1, <1>2, <1>4, SortedCons
<1>6. r = <<g>> \o q
  BY <1>3, <1>5, SortedUnique
<1>7. QED
  BY <1>1, <1>6

\* (A function is deleted.)
LEMMA PendingRemove ==
    ASSUME Waits, Waits', NEW s \in Sock, NEW g \in Waiting(s),
           Waiting(s)' = Waiting(s) \ {g}, \A h \in Waiting(s) : stamp'[h] = stamp[h]
    PROVE  \E i \in 1..Len(Pending(s)) :
              Pending(s)[i] = g /\ Pending(s)' = RemoveAt(Pending(s), i)
<1>1. PICK q, r, S, T, f, h : /\ q = Pending(s) /\ r = Pending(s)' /\ S = Waiting(s)
                              /\ f = stamp /\ h = stamp' /\ T = S \ {g}
  OBVIOUS
<1>2. Sorted(q, S, f) /\ S \in SUBSET Fn /\ (\A x \in S : f[x] \in Nat) /\ g \in S
  BY <1>1 DEF Waits
<1>3. Sorted(r, T, h) /\ \A x \in T : f[x] = h[x]
  BY <1>1 DEF Waits
<1>4. Sorted(r, T, f)
  BY <1>3, SortedKept
<1>5. PICK i \in 1..Len(q) : q[i] = g
  BY <1>2 DEF Sorted
<1>6. Sorted(RemoveAt(q, i), T, f)
  BY <1>1, <1>2, <1>5, SortedRemove
<1>7. T \in SUBSET Fn /\ \A x \in T : f[x] \in Nat
  BY <1>1, <1>2
<1>8. r = RemoveAt(q, i)
  BY <1>4, <1>6, <1>7, SortedUnique
<1>9. QED
  BY <1>1, <1>5, <1>8

\* (The newest function is called.)
LEMMA PendingTail ==
    ASSUME Waits, Waits', NEW s \in Sock, NEW g \in Waiting(s),
           Waiting(s)' = Waiting(s) \ {g},
           \A h \in Waiting(s) : stamp'[h] = stamp[h] /\ stamp[h] =< stamp[g]
    PROVE  Pending(s) # <<>> /\ Head(Pending(s)) = g /\ Pending(s)' = Tail(Pending(s))
<1>1. PICK q, r, S, T, f, h : /\ q = Pending(s) /\ r = Pending(s)' /\ S = Waiting(s)
                              /\ f = stamp /\ h = stamp' /\ T = S \ {g}
  OBVIOUS
<1>2. Sorted(q, S, f) /\ S \in SUBSET Fn /\ (\A x \in S : f[x] \in Nat) /\ g \in S
  BY <1>1 DEF Waits
<1>3. Sorted(r, T, h) /\ \A x \in T : f[x] = h[x]
  BY <1>1 DEF Waits
<1>4. Sorted(r, T, f)
  BY <1>3, SortedKept
<1>5. q # <<>> /\ Head(q) = g /\ Sorted(Tail(q), T, f)
  BY <1>1, <1>2, SortedTail
<1>6. T \in SUBSET Fn /\ \A x \in T : f[x] \in Nat
  BY <1>1, <1>2
<1>7. r = Tail(q)
  BY <1>4, <1>5, <1>6, SortedUnique
<1>8. QED
  BY <1>1, <1>5, <1>7

\* A step that GcfnStack does not see.
LEMMA QuietStep ==
    ASSUME Waits, Waits', \A s \in Sock : Waiting(s)' = Waiting(s), stamp' = stamp,
           Closed' = Closed, Running' = Running, Used' = Used
    PROVE  UNCHANGED Stack!vars
<1>1. \A s \in Sock : Pending(s)' = Pending(s)
  BY PendingSame
<1>2. Pendings' = Pendings
  BY <1>1 DEF Pendings
<1>3. QED
  BY <1>2 DEF Stack!vars, Pendings, Pending, Closed, Running, Used

\* The functions being executed.
LEMMA RunningFacts ==
    ASSUME IInv
    PROVE  /\ stack \in Seq(Frame) /\ Len(stack) \in Nat
           /\ ScriptRuns => InUdfs = Len(stack)
           /\ ~ScriptRuns => InUdfs = Len(stack) - 1 /\ stack # <<>> /\ Len(stack) # 0
           /\ InUdfs \in Nat
           /\ Running \in Seq([sock : Sock, fn : Fn]) /\ Len(Running) = InUdfs
           /\ \A i \in 1..InUdfs : /\ i \in 1..Len(stack) /\ stack[i].udf
                                   /\ Running[i] = [sock |-> stack[i].sock, fn |-> stack[i].cur]
<1>1. stack \in Seq(Frame) /\ Len(stack) \in Nat
  BY LenProperties DEF IInv, TypeOK
<1>2. /\ ScriptRuns => InUdfs = Len(stack)
      /\ ~ScriptRuns => InUdfs = Len(stack) - 1 /\ stack # <<>> /\ Len(stack) # 0
  BY <1>1, EmptySeq DEF InUdfs, ScriptRuns
<1>3. InUdfs \in Nat
  BY <1>1, <1>2
<1>4. ASSUME NEW i \in 1..InUdfs
      PROVE  i \in 1..Len(stack) /\ stack[i].udf /\ stack[i].sock \in Sock /\ stack[i].cur \in Fn
  <2>1. i \in 1..Len(stack)
    BY <1>1, <1>2, <1>3
  <2>2. stack[i].udf
    <3>1. CASE i < Len(stack)
      BY <2>1, <3>1 DEF IInv, WalksOK
    <3>2. CASE i = Len(stack)
      BY <1>1, <1>2, <2>1, <3>2, EmptySeq DEF ScriptRuns, Top
    <3>3. QED
      BY <1>1, <2>1, <3>1, <3>2
  <2>3. QED
    BY <1>1, <2>1, <2>2, FrameTypes
<1>5. \A i \in 1..InUdfs : Activation(stack[i]) \in [sock : Sock, fn : Fn]
  BY <1>4 DEF Activation
<1>6. Running \in Seq([sock : Sock, fn : Fn]) /\ Len(Running) = InUdfs
  BY <1>3, <1>5, IsASeq DEF Running
<1>7. QED
  BY <1>1, <1>2, <1>3, <1>4, <1>6 DEF Running, Activation

\* The same, of this state and of the next.
RunningIs ==
    /\ Running \in Seq([sock : Sock, fn : Fn]) /\ Len(Running) = InUdfs
    /\ \A i \in 1..InUdfs : Running[i] = [sock |-> stack[i].sock, fn |-> stack[i].cur]
LEMMA RunningNow == IInv => RunningIs
  BY RunningFacts DEF RunningIs
LEMMA RunningNext == IInv' => RunningIs'
  BY RunningNow, PTL

\* A step that leaves the executed functions alone.
LEMMA RunningSame ==
    ASSUME InUdfs' = InUdfs,
           \A i \in 1..InUdfs : stack'[i].sock = stack[i].sock /\ stack'[i].cur = stack[i].cur
    PROVE  Running' = Running
BY DEF Running, Activation

\* addgcfn puts its function on the top.
LEMMA AddRefines ==
    ASSUME Good, Good', NEW s \in Sock, NEW g \in Fn, AddGcfn(s, g)
    PROVE  Stack!Add(s, g)
<1>1. TypeOK /\ TypeOK' /\ Waits /\ Waits'
  BY DEF Good, IInv
<1>2. /\ head[s] # DONE /\ mem[g] = "unused" /\ stack' = stack
      /\ \A t \in Sock : head'[t] = IF t = s THEN g ELSE head[t]
      /\ \A n \in Node : mem'[n] = IF n = g THEN "live" ELSE mem[n]
      /\ \A n \in Node : ref'[n] = IF n = g THEN TRUE ELSE ref[n]
      /\ \A h \in Fn : owner'[h] = IF h = g THEN s ELSE owner[h]
      /\ \A h \in Fn : stamp'[h] = IF h = g THEN clock + 1 ELSE stamp[h]
  BY <1>1, Zenon DEF AddGcfn, Link, TypeOK, Node
<1>3. ~ref[g]
  BY <1>2 DEF Good, IInv, NoStalePointer
<1>4. \A i \in 1..Len(stack) : stack[i].udf => stack[i].cur # g
  BY <1>3 DEF Good, IInv, SavedNextIsCurrent, Registered
<1>5. \A h \in Fn : h \in Node
  BY DEF Node
<1>6. /\ Registered(s)' = Registered(s) \cup {g}
      /\ \A t \in Sock : t # s => Registered(t)' = Registered(t)
  <2>1. \A h \in Fn : ref'[h] <=> h = g \/ ref[h]
    BY <1>2, <1>5, Zenon
  <2>2. owner'[g] = s /\ \A h \in Fn : h # g => owner'[h] = owner[h]
    BY <1>2
  <2>3. QED
    BY <1>3, <2>1, <2>2 DEF Registered
<1>7. /\ Waiting(s)' = Waiting(s) \cup {g}
      /\ \A t \in Sock : t # s => Waiting(t)' = Waiting(t)
  BY <1>2, <1>4, <1>6 DEF Waiting
<1>8. \A t \in Sock : \A h \in Waiting(t) : /\ stamp'[h] = stamp[h]
                                            /\ stamp'[g] > stamp[h]
  <2>1. ASSUME NEW t \in Sock, NEW h \in Waiting(t)
        PROVE  stamp'[h] = stamp[h] /\ stamp'[g] > stamp[h]
    <3>1. h \in Fn /\ ref[h] /\ h # g
      BY <1>3 DEF Waiting, Registered
    <3>2. stamp[h] =< clock /\ stamp[h] \in Nat /\ clock \in Nat
      BY <3>1, <1>1 DEF Good, IInv, ListOK, StampsOK, TypeOK
    <3>3. QED
      BY <1>2, <3>1, <3>2
  <2>2. QED
    BY <2>1
<1>9. Pending(s)' = <<g>> \o Pending(s)
  BY <1>1, <1>7, <1>8, PendingCons
<1>10. \A t \in Sock : t # s => Pending(t)' = Pending(t)
  BY <1>1, <1>7, <1>8, PendingSame
<1>11. Pendings' = [Pendings EXCEPT ![s] = <<g>> \o @]
  BY <1>9, <1>10 DEF Pendings
<1>12. Closed' = Closed /\ ~Closed[s]
  <2>1. g # DONE
    BY ValuesAssumption
  <2>2. \A t \in Sock : (head'[t] = DONE) <=> (head[t] = DONE)
    BY <1>2, <2>1
  <2>3. QED
    BY <1>2, <2>2 DEF Closed
<1>13. g \notin Used /\ Used' = Used \cup {g}
  BY <1>2, <1>5 DEF Used
<1>14. Running' = Running
  BY <1>2 DEF Running, InUdfs, ScriptRuns, Top
<1>15. QED
  BY <1>11, <1>12, <1>13, <1>14 DEF Stack!Add, Pendings, Pending, Closed, Used, Running

\* delgcfn takes its function out, or does nothing if that is done.
LEMMA DeleteRefines ==
    ASSUME Good, Good', ~ForeignDel, NEW s \in Sock, NEW g \in Fn, DelGcfn(s, g)
    PROVE  Stack!Delete(s, g) \/ UNCHANGED Stack!vars
<1>1. TypeOK /\ TypeOK' /\ Waits /\ Waits'
  BY DEF Good, IInv
<1>2. /\ head[s] # DONE
      /\ \A t \in Sock : head'[t] = IF t = s /\ head[s] = g THEN next[g] ELSE head[t]
      /\ UNCHANGED <<mem, stack, owner, stamp, clock, called>>
  BY <1>1 DEF DelGcfn, TypeOK, history
<1>3. Running' = Running /\ Used' = Used
  BY <1>2 DEF Running, InUdfs, ScriptRuns, Top, Used
<1>4. CASE ~ref[g]
  <2>1. head[s] # g
    BY <1>4 DEF Good, IInv, NoStalePointer, StartsAt, Registered
  <2>2. \A t \in Sock : head'[t] = head[t]
    BY <1>2, <2>1
  <2>3. ref' = ref
    BY <1>4 DEF DelGcfn, nodes
  <2>4. \A t \in Sock : Waiting(t)' = Waiting(t)
    BY <1>2, <2>3 DEF Waiting, Registered
  <2>5. Closed' = Closed
    BY <2>2 DEF Closed
  <2>6. QED
    BY <1>1, <1>2, <1>3, <2>4, <2>5, QuietStep
<1>5. CASE ref[g]
  <2>1. owner[g] = s /\ \A h \in Fn : ref'[h] = IF h = g THEN FALSE ELSE ref[h]
    BY <1>1, <1>5 DEF DelGcfn, Unlink, TypeOK, Node
  <2>2. next[g] # DONE
    BY <1>5, ValuesAssumption DEF Good, IInv, ListOK, Registered
  <2>3. Closed' = Closed /\ ~Closed[s]
    BY <1>2, <2>2 DEF Closed
  <2>4. \A i \in 1..Len(stack) : stack[i].sock # s
    BY <1>2, HeadIsNewest DEF Good
  <2>5. \A i \in 1..Len(stack) : stack[i].udf => stack[i].cur # g
    BY <2>1, <2>4 DEF Good, IInv, SavedNextIsCurrent, Registered
  <2>6. /\ g \in Waiting(s) /\ Waiting(s)' = Waiting(s) \ {g}
        /\ \A t \in Sock : t # s => Waiting(t)' = Waiting(t)
    BY <1>2, <1>5, <2>1, <2>5 DEF Waiting, Registered
  <2>7. \E i \in 1..Len(Pending(s)) :
           Pending(s)[i] = g /\ Pending(s)' = RemoveAt(Pending(s), i)
    BY <1>1, <1>2, <2>6, PendingRemove
  <2>8. \A t \in Sock : t # s => Pending(t)' = Pending(t)
    BY <1>1, <1>2, <2>6, PendingSame
  <2>9. \E i \in 1..Len(Pendings[s]) :
           /\ Pendings[s][i] = g
           /\ Pendings' = [Pendings EXCEPT ![s] = RemoveAt(@, i)]
    BY <2>7, <2>8 DEF Pendings
  <2>10. Stack!Delete(s, g)
    <3>1. PICK i \in 1..Len(Pendings[s]) :
             /\ Pendings[s][i] = g
             /\ Pendings' = [Pendings EXCEPT ![s] = RemoveAt(@, i)]
      BY <2>9
    <3>2. Stack!RemoveAt(Pendings[s], i) = RemoveAt(Pendings[s], i)
      BY DEF Stack!RemoveAt, RemoveAt
    <3>3. /\ ~Closed[s]
          /\ \E j \in 1..Len(Pendings[s]) :
                /\ Pendings[s][j] = g
                /\ Pendings' = [Pendings EXCEPT ![s] = Stack!RemoveAt(Pendings[s], j)]
          /\ UNCHANGED <<Closed, Running, Used>>
      BY <1>3, <2>3, <3>1, <3>2
    <3>4. QED
      BY <3>3, Zenon DEF Stack!Delete, Pendings, Pending, Closed, Used, Running
  <2>11. QED
    BY <2>10
<1>6. QED
  BY <1>4, <1>5

\* call_gcfn marks the socket.
LEMMA CloseRefines ==
    ASSUME Good, Good', NEW s \in Sock, StartWalk(s)
    PROVE  Stack!Close(s)
<1>1. TypeOK /\ TypeOK' /\ Waits /\ Waits' /\ IInv /\ IInv'
  BY DEF Good, IInv
<1> DEFINE f == [sock |-> s, cur |-> head[s], nxt |-> NULL, udf |-> FALSE]
<1>2. /\ ScriptRuns /\ stack' = Append(stack, f)
      /\ \A t \in Sock : head'[t] = IF t = s THEN DONE ELSE head[t]
      /\ UNCHANGED <<ref, prev, next, mem, owner, stamp, clock, called>>
  BY <1>1 DEF StartWalk, TypeOK, history
<1>3. /\ Len(stack) \in Nat /\ Len(stack') = Len(stack) + 1
      /\ \A i \in 1..Len(stack) : stack'[i] = stack[i]
      /\ stack'[Len(stack) + 1] = f
  <2>1. stack \in Seq(Frame) /\ f \in Frame
    BY <1>1 DEF TypeOK, Frame, Ptr
  <2>2. PICK g : g = f
    OBVIOUS
  <2> HIDE DEF f
  <2>3. QED
    BY <1>2, <2>1, <2>2, AppendProperties, LenProperties
<1>4. \A i \in 1..Len(stack') : i \in 1..Len(stack) \/ stack'[i] = f
  BY <1>3
<1>5. \A i \in 1..Len(stack') : stack'[i].udf => i \in 1..Len(stack) /\ stack'[i] = stack[i]
  BY <1>3, <1>4
<1>6. \A i \in 1..Len(stack) : i \in 1..Len(stack') /\ stack'[i] = stack[i]
  BY <1>3
<1>7. \A t \in Sock : Waiting(t)' = Waiting(t)
  BY <1>2, <1>5, <1>6 DEF Waiting, Registered
<1>8. \A t \in Sock : Pending(t)' = Pending(t)
  BY <1>1, <1>2, <1>7, PendingSame
<1>9. Pendings' = Pendings
  BY <1>8 DEF Pendings
<1>10. Closed' = [Closed EXCEPT ![s] = TRUE]
  BY <1>2 DEF Closed
<1>11. Used' = Used
  BY <1>2 DEF Used
<1>12. Running' = Running
  <2>1. InUdfs = Len(stack)
    BY <1>1, <1>2, RunningFacts
  <2>2. ~ScriptRuns'
    <3>1. stack' # <<>>
      BY <1>3, EmptySeq DEF TypeOK
    <3>2. Top' = f
      BY <1>3 DEF Top
    <3>3. QED
      BY <3>1, <3>2 DEF ScriptRuns
  <2>3. InUdfs' = Len(stack)
    BY <1>3, <2>2 DEF InUdfs
  <2>4. QED
    BY <1>3, <2>1, <2>3, RunningSame
<1>13. QED
  BY <1>9, <1>10, <1>11, <1>12 DEF Stack!Close, Pendings, Pending, Closed, Used, Running

\* The innermost walk, when C code runs.
LEMMA TopIsLast ==
    ASSUME IInv, stack # <<>>
    PROVE  /\ Len(stack) \in 1..Len(stack) /\ Top = stack[Len(stack)] /\ Top \in Frame
           /\ ~Top.udf => ~ScriptRuns /\ InUdfs = Len(stack) - 1
           /\ Top.udf => ScriptRuns /\ InUdfs = Len(stack)
<1>1. stack \in Seq(Frame)
  BY DEF IInv, TypeOK
<1>2. Len(stack) \in 1..Len(stack) /\ Top \in Frame
  BY <1>1, TopIsFrame
<1>3. QED
  BY <1>2 DEF Top, ScriptRuns, InUdfs

\* lls_gcfn_call enters the function on the top.
LEMMA CallRefines ==
    ASSUME Good, Good', EnterUdf
    PROVE  Stack!Call(Top.sock)
<1>1. TypeOK /\ TypeOK' /\ Waits /\ Waits' /\ IInv /\ IInv'
  BY DEF Good, IInv
<1>2. /\ stack # <<>> /\ ~Top.udf /\ Top.cur \in Fn
      /\ UNCHANGED <<head, ref, prev, next, mem, owner, stamp, clock>>
  BY DEF EnterUdf, Visiting
<1>3. PICK s, g : s = Top.sock /\ g = Top.cur
  OBVIOUS
<1>4. /\ s \in Sock /\ g \in Registered(s) /\ head[s] = DONE /\ g \in Fn
      /\ mem[g] = "live"
      /\ \A i \in 1..Len(stack) : i < Len(stack) => stack[i].udf /\ stack[i].sock # s
  BY <1>1, <1>2, <1>3, TopAtFn
<1>5. PICK n \in Ptr : SetTop(g, n, TRUE)
  BY <1>1, <1>3, <1>4 DEF EnterUdf, NextRead, TypeOK, Node
<1>6. /\ Len(stack) \in Nat \ {0} /\ Len(stack') = Len(stack)
      /\ \A i \in 1..Len(stack) : i < Len(stack) => stack'[i] = stack[i]
      /\ Top' = [sock |-> s, cur |-> g, nxt |-> n, udf |-> TRUE]
  <2>1. g \in Ptr
    BY <1>4 DEF Ptr, Node
  <2>2. QED
    BY <1>1, <1>2, <1>3, <1>4, <1>5, <2>1, StepOfTop
<1>7. /\ Len(stack) \in 1..Len(stack) /\ Top = stack[Len(stack)] /\ Top' = stack'[Len(stack)]
      /\ \A i \in 1..Len(stack) : i < Len(stack) \/ i = Len(stack)
  BY <1>1, <1>2, <1>6, TopIsLast DEF Top
<1>8. \A i \in 1..Len(stack) : stack[i].udf => stack[i].cur # g
  <2>1. ASSUME NEW i \in 1..Len(stack), stack[i].udf, stack[i].cur = g PROVE FALSE
    <3>1. g \in Registered(stack[i].sock)
      BY <1>1, <2>1 DEF IInv, SavedNextIsCurrent
    <3>2. stack[i].sock = s
      BY <1>4, <3>1 DEF Registered
    <3>3. i = Len(stack)
      BY <1>4, <1>7, <3>2
    <3>4. QED
      BY <1>2, <1>7, <2>1, <3>3
  <2>2. QED
    BY <2>1
<1>9. \A t \in Sock : Registered(t)' = Registered(t)
  BY <1>2 DEF Registered
<1>10. \A t \in Sock : Waiting(t)' = Waiting(t) \ {g}
  <2>1. ASSUME NEW h
        PROVE  (\A i \in 1..Len(stack') : stack'[i].udf => stack'[i].cur # h)
                 <=> h # g /\ \A i \in 1..Len(stack) : stack[i].udf => stack[i].cur # h
    BY <1>2, <1>6, <1>7
  <2>2. QED
    BY <1>9, <2>1 DEF Waiting
<1>11. g \in Waiting(s)
  BY <1>4, <1>8 DEF Waiting
<1>12. \A t \in Sock : t # s => Waiting(t)' = Waiting(t)
  BY <1>4, <1>10 DEF Waiting, Registered
<1>13. \A h \in Waiting(s) : stamp'[h] = stamp[h] /\ stamp[h] =< stamp[g]
  <2>1. ASSUME NEW h \in Waiting(s) PROVE stamp[h] =< stamp[g]
    <3>1. h \in Fn /\ ref[h] /\ owner[h] = s
      BY DEF Waiting, Registered
    <3>2. PICK a \in Registered(s) : StartsAt(s, a) /\ stamp[h] =< stamp[a]
      BY <1>1, <3>1 DEF IInv, NoneLost
    <3>3. a \in Fn /\ a # DONE
      BY ValuesAssumption DEF Registered
    <3>4. PICK i \in 1..Len(stack) : stack[i].sock = s /\ stack[i].cur = a
      BY <1>4, <3>2, <3>3 DEF StartsAt
    <3>5. i = Len(stack)
      BY <1>4, <1>7, <3>4
    <3>6. a = g
      BY <1>3, <1>7, <3>4, <3>5
    <3>7. QED
      BY <3>2, <3>6
  <2>2. QED
    BY <1>2, <2>1
<1>14. Pending(s) # <<>> /\ Head(Pending(s)) = g /\ Pending(s)' = Tail(Pending(s))
  BY <1>1, <1>4, <1>10, <1>11, <1>13, PendingTail
<1>15. \A t \in Sock : t # s => Pending(t)' = Pending(t)
  BY <1>1, <1>2, <1>12, PendingSame
<1>16. Pendings[s] = Pending(s) /\ Pendings' = [Pendings EXCEPT ![s] = Tail(@)]
  BY <1>4, <1>14, <1>15 DEF Pendings
<1>17. Closed' = Closed /\ Closed[s] /\ Used' = Used
  BY <1>2, <1>4 DEF Closed, Used
<1>18. InUdfs = Len(stack) - 1 /\ InUdfs' = Len(stack)
  <2>1. stack' # <<>> /\ Top'.udf
    BY <1>1, <1>6, EmptySeq DEF TypeOK
  <2>2. ScriptRuns'
    BY <2>1 DEF ScriptRuns
  <2>3. InUdfs' = Len(stack)
    BY <1>6, <2>2 DEF InUdfs
  <2>4. QED
    BY <1>1, <1>2, <2>3, TopIsLast
<1>19. PICK m \in Nat : m = InUdfs /\ m + 1 = Len(stack) /\ InUdfs' = m + 1
  BY <1>6, <1>18
<1>20. /\ Running \in Seq([sock : Sock, fn : Fn]) /\ Len(Running) = m
       /\ \A i \in 1..m : Running[i] = [sock |-> stack[i].sock, fn |-> stack[i].cur]
  BY <1>1, <1>19, RunningFacts
<1>21. PICK r : r = Running'
  OBVIOUS
<1>22. /\ r \in Seq([sock : Sock, fn : Fn]) /\ Len(r) = m + 1
       /\ \A i \in 1..(m + 1) : r[i] = [sock |-> stack'[i].sock, fn |-> stack'[i].cur]
  <2>1. RunningIs'
    BY <1>1, RunningNext
  <2>2. QED
    BY <1>19, <1>21, <2>1 DEF RunningIs
<1>23. \A i \in 1..Len(Running) : Running[i].sock # s
  <2>1. ASSUME NEW i \in 1..m PROVE Running[i].sock # s
    <3>1. i \in 1..Len(stack) /\ i < Len(stack)
      BY <1>19
    <3>2. Running[i].sock = stack[i].sock
      BY <1>20, <2>1
    <3>3. QED
      BY <1>4, <3>1, <3>2
  <2>2. QED
    BY <1>20, <2>1
<1>24. r = Append(Running, [sock |-> s, fn |-> g])
  <2>1. PICK e, t : e = [sock |-> s, fn |-> g] /\ t = Append(Running, e)
    OBVIOUS
  <2>2. e \in [sock : Sock, fn : Fn]
    BY <1>4, <2>1
  <2>3. /\ t \in Seq([sock : Sock, fn : Fn]) /\ Len(t) = m + 1 /\ t[m + 1] = e
        /\ \A i \in 1..m : t[i] = Running[i]
    BY <1>20, <2>1, <2>2, AppendProperties
  <2>4. \A i \in 1..m : r[i] = t[i]
    <3>1. ASSUME NEW i \in 1..m PROVE r[i] = t[i]
      <4>1. i \in 1..Len(stack) /\ i < Len(stack) /\ i \in 1..(m + 1)
        BY <1>19
      <4>2. stack'[i] = stack[i]
        BY <1>6, <4>1
      <4>3. r[i] = [sock |-> stack'[i].sock, fn |-> stack'[i].cur]
        BY <1>22, <4>1
      <4>4. Running[i] = [sock |-> stack[i].sock, fn |-> stack[i].cur]
        BY <1>20, <3>1
      <4>5. t[i] = Running[i]
        BY <2>3, <3>1
      <4>6. QED
        BY <4>2, <4>3, <4>4, <4>5
    <3>2. QED
      BY <3>1
  <2>5. r[m + 1] = e
    <3>1. m + 1 \in 1..(m + 1)
      OBVIOUS
    <3>2. stack'[m + 1] = Top'
      BY <1>7, <1>19
    <3>3. QED
      BY <1>6, <1>22, <2>1, <3>1, <3>2
  <2>6. \A i \in 1..Len(r) : r[i] = t[i]
    BY <1>22, <2>3, <2>4, <2>5
  <2>7. r = t
    BY <1>22, <2>3, <2>6, SeqEqual
  <2>8. QED
    BY <2>1, <2>7
<1>25. /\ Closed[s] /\ Pendings[s] # <<>>
       /\ \A i \in 1..Len(Running) : Running[i].sock # s
       /\ Pendings' = [Pendings EXCEPT ![s] = Tail(@)]
       /\ Running' = Append(Running, [sock |-> s, fn |-> Head(Pendings[s])])
       /\ Closed' = Closed /\ Used' = Used
  BY <1>14, <1>16, <1>17, <1>21, <1>23, <1>24
<1>26. Stack!Call(s)
  BY <1>25 DEF Stack!Call, Pendings, Pending, Closed, Used, Running
<1>27. QED
  BY <1>3, <1>26

\* A walk that stands at the sentinel ends: GcfnStack does not see it.
LEMMA LeaveSentinelRefines ==
    ASSUME Good, Good', stack # <<>>, ~Top.udf, Top.cur = DONE,
           SetTop(NULL, NULL, FALSE), \A g \in Fn : ref'[g] = ref[g],
           UNCHANGED <<head, mem, owner, stamp>>
    PROVE  UNCHANGED Stack!vars
<1>1. TypeOK /\ TypeOK' /\ Waits /\ Waits' /\ IInv /\ IInv'
  BY DEF Good, IInv
<1>2. /\ Len(stack) \in Nat \ {0} /\ Len(stack') = Len(stack)
      /\ \A i \in 1..Len(stack) : i < Len(stack) => stack'[i] = stack[i]
      /\ Top' = [sock |-> Top.sock, cur |-> NULL, nxt |-> NULL, udf |-> FALSE]
  <2>1. NULL \in Ptr /\ FALSE \in BOOLEAN /\ (FALSE => NULL \in Fn)
    BY DEF Ptr
  <2>2. QED
    BY <1>1, <2>1, StepOfTop
<1>3. /\ Top = stack[Len(stack)] /\ Top' = stack'[Len(stack)]
      /\ \A i \in 1..Len(stack) : i < Len(stack) \/ i = Len(stack)
  BY <1>2 DEF Top
<1>4. \A i \in 1..Len(stack) : /\ stack'[i].udf <=> stack[i].udf
                               /\ stack[i].udf => stack'[i] = stack[i]
  BY <1>2, <1>3
<1>5. \A t \in Sock : Waiting(t)' = Waiting(t)
  BY <1>2, <1>4 DEF Waiting, Registered
<1>6. Closed' = Closed /\ Used' = Used
  BY DEF Closed, Used
<1>7. Running' = Running
  <2>1. InUdfs = Len(stack) - 1
    BY <1>1, TopIsLast
  <2>2. ~ScriptRuns'
    BY <1>1, <1>2, EmptySeq DEF ScriptRuns, TypeOK
  <2>3. InUdfs' = Len(stack) - 1
    BY <1>2, <2>2 DEF InUdfs
  <2>4. \A i \in 1..(Len(stack) - 1) : stack'[i] = stack[i]
    BY <1>2
  <2>5. QED
    BY <2>1, <2>3, <2>4, RunningSame
<1>8. QED
  BY <1>1, <1>5, <1>6, <1>7, QuietStep

\* Passing a deleted node is such a step,
LEMMA SkipDeletedRefines ==
    ASSUME Good, Good', SkipDeleted
    PROVE  UNCHANGED Stack!vars
<1>1. IInv /\ TypeOK /\ stack # <<>> /\ ~Top.udf /\ Top.cur # NULL
  BY DEF Good, IInv, SkipDeleted, Visiting
<1>2. Top.cur \notin Fn
  BY <1>1, TopAtFn DEF SkipDeleted, RefRead, Registered
<1>3. Top.cur = DONE
  <2>1. Top \in Frame
    BY <1>1, TopIsFrame DEF TypeOK
  <2>2. QED
    BY <1>1, <1>2, <2>1 DEF Frame, Ptr, Node
<1>4. SetTop(NULL, NULL, FALSE)
  BY <1>1, <1>3 DEF SkipDeleted, NextRead, IInv, ListOK, SentinelOK
<1>5. (\A g \in Fn : ref'[g] = ref[g]) /\ UNCHANGED <<head, mem, owner, stamp>>
  BY DEF SkipDeleted, history
<1>6. QED
  BY <1>1, <1>3, <1>4, <1>5, LeaveSentinelRefines

\* and so is the call of the sentinel.
LEMMA VisitSentinelRefines ==
    ASSUME Good, Good', VisitSentinel
    PROVE  UNCHANGED Stack!vars
<1>1. IInv /\ TypeOK /\ stack # <<>> /\ ~Top.udf /\ Top.cur = DONE
  BY DEF Good, IInv, VisitSentinel, Visiting
<1>2. SetTop(NULL, NULL, FALSE)
  BY <1>1 DEF VisitSentinel, IInv, ListOK, SentinelOK
<1>3. \A g \in Fn : ref'[g] = ref[g]
  BY <1>1, ValuesAssumption DEF VisitSentinel, Unlink, TypeOK, Node
<1>4. UNCHANGED <<head, mem, owner, stamp>>
  BY DEF VisitSentinel, history
<1>5. QED
  BY <1>1, <1>2, <1>3, <1>4, LeaveSentinelRefines

\* The end of call_gcfn: the walk had left its functions before.
LEMMA FinishRefines ==
    ASSUME Good, Good', FinishWalk
    PROVE  UNCHANGED Stack!vars
<1> DEFINE n == Len(stack) - 1
<1>1. /\ TypeOK /\ TypeOK' /\ Waits /\ Waits' /\ IInv /\ IInv'
      /\ stack \in Seq(Frame) /\ stack # <<>> /\ ~Top.udf
      /\ UNCHANGED <<head, ref, prev, next, mem, owner, stamp, clock, called>>
  BY DEF Good, IInv, FinishWalk, TypeOK, history
<1>2. /\ Len(stack) \in Nat \ {0} /\ n \in Nat /\ Len(stack') = n
      /\ \A i \in 1..n : stack'[i] = stack[i]
  BY <1>1, TopIsFrame, PopFacts DEF FinishWalk
<1>3. \A i \in 1..Len(stack) : i \in 1..n \/ stack[i] = Top
  BY <1>2 DEF Top
<1>4. \A i \in 1..n : i \in 1..Len(stack) /\ i < Len(stack)
  BY <1>2
<1>5. \A t \in Sock : Waiting(t)' = Waiting(t)
  <2>1. ASSUME NEW h
        PROVE  (\A i \in 1..Len(stack') : stack'[i].udf => stack'[i].cur # h)
                 <=> (\A i \in 1..Len(stack) : stack[i].udf => stack[i].cur # h)
    BY <1>1, <1>2, <1>3, <1>4
  <2>2. \A t \in Sock : Registered(t)' = Registered(t)
    BY <1>1 DEF Registered
  <2>3. QED
    BY <2>1, <2>2 DEF Waiting
<1>6. Closed' = Closed /\ Used' = Used
  BY <1>1 DEF Closed, Used
<1>7. InUdfs = n
  BY <1>1, TopIsLast
<1>8. ScriptRuns'
  <2>1. CASE n = 0
    <3>1. stack' = <<>>
      BY <1>1, <1>2, <2>1, EmptySeq DEF TypeOK
    <3>2. QED
      BY <3>1 DEF ScriptRuns
  <2>2. CASE n # 0
    <3>1. n \in 1..n
      BY <1>2, <2>2
    <3>2. n \in 1..Len(stack) /\ n < Len(stack)
      BY <1>4, <3>1
    <3>3. stack[n].udf
      BY <1>1, <3>2 DEF IInv, WalksOK
    <3>4. Top' = stack[n]
      BY <1>2, <3>1 DEF Top
    <3>5. QED
      BY <3>3, <3>4 DEF ScriptRuns
  <2>3. QED
    BY <2>1, <2>2
<1>9. InUdfs' = n
  BY <1>2, <1>8 DEF InUdfs
<1>10. Running' = Running
  BY <1>2, <1>7, <1>9, RunningSame
<1>11. QED
  BY <1>1, <1>5, <1>6, <1>10, QuietStep

\* The collector frees only what GcfnStack has forgotten.
LEMMA CollectRefines ==
    ASSUME Good, Good', NEW g \in Fn, Collect(g)
    PROVE  UNCHANGED Stack!vars
<1>1. TypeOK /\ TypeOK' /\ Waits /\ Waits'
  BY DEF Good, IInv
<1>2. /\ mem[g] = "live" /\ UNCHANGED <<head, ref, stack, owner, stamp>>
      /\ \A n \in Node : mem'[n] = IF n = g THEN "freed" ELSE mem[n]
  BY <1>1 DEF Collect, history, TypeOK
<1>3. \A h \in Fn : mem'[h] # "unused" <=> mem[h] # "unused"
  BY <1>2 DEF Node
<1>4. Closed' = Closed /\ Used' = Used
  BY <1>2, <1>3 DEF Closed, Used
<1>5. Running' = Running
  BY <1>2 DEF Running, InUdfs, ScriptRuns, Top
<1>6. \A t \in Sock : Waiting(t)' = Waiting(t)
  BY <1>2 DEF Waiting, Registered
<1>7. QED
  BY <1>1, <1>2, <1>4, <1>5, <1>6, QuietStep

\* The UDF returns: its function is deleted, and none is waiting the less.
LEMMA ReturnRefines ==
    ASSUME Good, Good', UdfReturn
    PROVE  Stack!Return
<1>1. /\ TypeOK /\ TypeOK' /\ Waits /\ Waits' /\ IInv /\ IInv'
      /\ stack # <<>> /\ Top.udf
      /\ UNCHANGED <<head, mem, owner, stamp, clock, called>>
  BY DEF Good, IInv, UdfReturn, history
<1>2. PICK s, g : s = Top.sock /\ g = Top.cur
  OBVIOUS
<1>3. Top \in Frame /\ g \in Fn /\ Top.nxt \in Ptr
  BY <1>1, <1>2, TopIsFrame DEF TypeOK, Frame
<1>4. /\ s \in Sock /\ g \in Registered(s) /\ ref[g]
      /\ \A i \in 1..Len(stack) : i < Len(stack) => stack[i].udf /\ stack[i].sock # s
  BY <1>1, <1>2, <1>3, TopAtFn DEF Registered
<1>5. \A h \in Fn : ref'[h] <=> ref[h] /\ h # g
  <2>1. Unlink(g)
    BY <1>2, <1>4 DEF UdfReturn
  <2>2. QED
    BY <1>1, <1>3, <2>1 DEF Unlink, TypeOK, Node
<1>6. /\ Len(stack) \in Nat \ {0} /\ Len(stack') = Len(stack)
      /\ \A i \in 1..Len(stack) : i < Len(stack) => stack'[i] = stack[i]
      /\ Top' = [sock |-> s, cur |-> Top.nxt, nxt |-> NULL, udf |-> FALSE]
  <2>1. NULL \in Ptr /\ FALSE \in BOOLEAN /\ (FALSE => Top.nxt \in Fn)
        /\ SetTop(Top.nxt, NULL, FALSE)
    BY DEF Ptr, UdfReturn
  <2>2. QED
    BY <1>1, <1>2, <1>3, <2>1, StepOfTop
<1>7. /\ Len(stack) \in 1..Len(stack) /\ Top = stack[Len(stack)] /\ Top' = stack'[Len(stack)]
      /\ \A i \in 1..Len(stack) : i < Len(stack) \/ i = Len(stack)
  BY <1>6 DEF Top
<1>8. \A t \in Sock : Registered(t)' = Registered(t) \ {g}
  BY <1>1, <1>5 DEF Registered
<1>9. \A t \in Sock : Waiting(t)' = Waiting(t)
  <2>1. ASSUME NEW h
        PROVE  (\A i \in 1..Len(stack) : stack[i].udf => stack[i].cur # h)
                 <=> h # g /\ \A i \in 1..Len(stack') : stack'[i].udf => stack'[i].cur # h
    BY <1>1, <1>2, <1>6, <1>7
  <2>2. QED
    BY <1>8, <2>1 DEF Waiting
<1>10. \A t \in Sock : Pending(t)' = Pending(t)
  BY <1>1, <1>9, PendingSame
<1>11. Pendings' = Pendings
  BY <1>10 DEF Pendings
<1>12. Closed' = Closed /\ Used' = Used
  BY <1>1 DEF Closed, Used
<1>13. InUdfs = Len(stack) /\ InUdfs' = Len(stack) - 1
  <2>1. ~ScriptRuns'
    BY <1>1, <1>6, EmptySeq DEF ScriptRuns, TypeOK
  <2>2. InUdfs' = Len(stack) - 1
    BY <1>6, <2>1 DEF InUdfs
  <2>3. QED
    BY <1>1, <2>2, TopIsLast
<1>14. PICK m \in Nat : m + 1 = Len(stack) /\ InUdfs = m + 1 /\ InUdfs' = m
  BY <1>6, <1>13
<1>15. PICK q, r, R : q = Running /\ r = Running' /\ R = [sock : Sock, fn : Fn]
  OBVIOUS
<1>16. /\ q \in Seq(R) /\ Len(q) = m + 1
       /\ \A i \in 1..(m + 1) : q[i] = [sock |-> stack[i].sock, fn |-> stack[i].cur]
  BY <1>1, <1>14, <1>15, RunningNow DEF RunningIs
<1>17. /\ r \in Seq(R) /\ Len(r) = m
       /\ \A i \in 1..m : r[i] = [sock |-> stack'[i].sock, fn |-> stack'[i].cur]
  <2>1. RunningIs'
    BY <1>1, RunningNext
  <2>2. QED
    BY <1>14, <1>15, <2>1 DEF RunningIs
<1>18. r = SubSeq(q, 1, m)
  <2>1. PICK t : t = SubSeq(q, 1, m)
    OBVIOUS
  <2>2. t \in Seq(R) /\ Len(t) = m /\ \A i \in 1..m : t[i] = q[i]
    <3>1. \A i \in 1..m : q[i] \in R
      BY <1>16, ElementOfSeq
    <3>2. /\ SubSeq(q, 1, m) \in Seq(R)
          /\ Len(SubSeq(q, 1, m)) = IF 1 <= m THEN m - 1 + 1 ELSE 0
          /\ \A i \in 1..(m - 1 + 1) : SubSeq(q, 1, m)[i] = q[1 + i - 1]
      BY <3>1, SubSeqProperties
    <3>3. m - 1 + 1 = m /\ (\A i \in 1..m : 1 + i - 1 = i) /\ (~(1 <= m) => m = 0)
      OBVIOUS
    <3>4. QED
      BY <2>1, <3>2, <3>3
  <2>3. \A i \in 1..Len(r) : r[i] = t[i]
    <3>1. ASSUME NEW i \in 1..m PROVE r[i] = t[i]
      <4>1. i \in 1..Len(stack) /\ i < Len(stack) /\ i \in 1..(m + 1)
        BY <1>14
      <4>2. stack'[i] = stack[i]
        BY <1>6, <4>1
      <4>3. q[i] = [sock |-> stack[i].sock, fn |-> stack[i].cur]
        BY <1>16, <4>1
      <4>4. r[i] = [sock |-> stack'[i].sock, fn |-> stack'[i].cur]
        BY <1>17, <3>1
      <4>5. t[i] = q[i]
        BY <2>2, <3>1
      <4>6. QED
        BY <4>2, <4>3, <4>4, <4>5
    <3>2. QED
      BY <1>17, <3>1
  <2>4. r = t
    BY <1>17, <2>2, <2>3, SeqEqual
  <2>5. QED
    BY <2>1, <2>4
<1>19. /\ Running # <<>>
       /\ Running' = SubSeq(Running, 1, Len(Running) - 1)
  <2>1. Len(q) # 0 /\ Len(q) - 1 = m
    BY <1>16
  <2>2. q # <<>>
    BY <1>16, <2>1, EmptySeq
  <2>3. QED
    BY <1>15, <1>18, <2>1, <2>2
<1>20. QED
  BY <1>11, <1>12, <1>19 DEF Stack!Return, Pendings, Pending, Closed, Used, Running

\* Stamps count from one.
LEMMA StampsCount == Spec => []StampsPositive
<1>1. Init => StampsPositive
  <2> SUFFICES ASSUME Init, NEW g \in Fn PROVE ~ref[g]
    BY DEF StampsPositive
  <2>1. g # DONE /\ g \in Node
    BY ValuesAssumption DEF Node
  <2>2. ref[g] = (g = DONE)
    BY <2>1 DEF Init
  <2>3. QED
    BY <2>1, <2>2, Zenon
<1>2. TypeOK /\ StampsPositive /\ [Next]_vars => StampsPositive'
  <2> SUFFICES ASSUME TypeOK, StampsPositive, [Next]_vars PROVE StampsPositive'
    OBVIOUS
  <2>1. ASSUME NEW s \in Sock, NEW g \in Fn, AddGcfn(s, g) PROVE StampsPositive'
    <3>1. \A h \in Fn : /\ h # g => (ref'[h] <=> ref[h])
                        /\ stamp'[h] = IF h = g THEN clock + 1 ELSE stamp[h]
      BY <2>1, Zenon DEF AddGcfn, Link, TypeOK, Node
    <3>2. clock + 1 > 0
      BY DEF TypeOK
    <3>3. QED
      BY <3>1, <3>2 DEF StampsPositive
  <2>2. ASSUME NEW n \in Node, Unlink(n), stamp' = stamp PROVE StampsPositive'
    <3>1. \A h \in Fn : ref'[h] => ref[h]
      BY <2>2, Zenon DEF Unlink, TypeOK, Node
    <3>2. QED
      BY <2>2, <3>1 DEF StampsPositive
  <2>3. ASSUME ref' = ref, stamp' = stamp PROVE StampsPositive'
    BY <2>3 DEF StampsPositive
  <2>4. ASSUME NEW s \in Sock, NEW g \in Fn, DelGcfn(s, g) PROVE StampsPositive'
    <3>1. stamp' = stamp /\ (Unlink(g) \/ ref' = ref) /\ g \in Node
      BY <2>4 DEF DelGcfn, history, nodes, Node
    <3>2. QED
      BY <2>2, <2>3, <3>1
  <2>5. ASSUME NEW s \in Sock, StartWalk(s) PROVE StampsPositive'
    BY <2>3, <2>5 DEF StartWalk, history
  <2>6. CASE EnterUdf
    BY <2>3, <2>6 DEF EnterUdf
  <2>7. CASE SkipDeleted
    BY <2>3, <2>7 DEF SkipDeleted, history
  <2>8. CASE VisitSentinel
    BY <2>2, <2>8 DEF VisitSentinel, history, Node
  <2>9. CASE FinishWalk
    BY <2>3, <2>9 DEF FinishWalk, history
  <2>10. CASE UdfReturn
    <3>1. /\ stamp' = stamp /\ (Unlink(Top.cur) \/ ref' = ref)
          /\ stack # <<>> /\ Top.udf
      BY <2>10 DEF UdfReturn, history, nodes
    <3>2. Top.cur \in Node
      BY <3>1, TopIsFrame DEF TypeOK, Frame, Node
    <3>3. QED
      BY <2>2, <2>3, <3>1, <3>2
  <2>11. ASSUME NEW g \in Fn, Collect(g) PROVE StampsPositive'
    BY <2>3, <2>11 DEF Collect, history
  <2>12. CASE UNCHANGED vars
    BY <2>3, <2>12 DEF vars
  <2>13. QED
    BY <2>1, <2>4, <2>5, <2>6, <2>7, <2>8, <2>9, <2>10, <2>11, <2>12 DEF Next, WalkStep
<1>3. QED
  BY <1>1, <1>2, TypeCorrect, PTL DEF Spec

\* At first no function waits, and none runs.
LEMMA InitRefines == Init /\ Good => Stack!Init
<1> SUFFICES ASSUME Init, Good PROVE Stack!Init
  OBVIOUS
<1>1. \A g \in Fn : ~ref[g] /\ g \in Node /\ g # DONE
  <2>1. ASSUME NEW g \in Fn PROVE ~ref[g] /\ g \in Node /\ g # DONE
    <3>1. g # DONE /\ g \in Node
      BY ValuesAssumption DEF Node
    <3>2. ref[g] = (g = DONE)
      BY <3>1 DEF Init
    <3>3. QED
      BY <3>1, <3>2, Zenon
  <2>2. QED
    BY <2>1
<1>2. \A s \in Sock : Waiting(s) = {}
  BY <1>1 DEF Waiting, Registered
<1>3. \A s \in Sock : Pending(s) = <<>>
  <2>1. ASSUME NEW s \in Sock PROVE Pending(s) = <<>>
    <3>1. PICK q : q = Pending(s)
      OBVIOUS
    <3>2. Sorted(q, {}, stamp) /\ Sorted(<<>>, {}, stamp)
      BY <1>2, <3>1, SortedNothing DEF Good, Waits
    <3>3. q = <<>>
      BY <3>2, SortedUnique
    <3>4. QED
      BY <3>1, <3>3
  <2>2. QED
    BY <2>1
<1>4. Pendings = [s \in Sock |-> <<>>]
  BY <1>3 DEF Pendings
<1>5. Closed = [s \in Sock |-> FALSE]
  BY ValuesAssumption DEF Init, Closed
<1>6. Used = {}
  BY <1>1 DEF Init, Used
<1>7. Running = <<>>
  <2>1. stack = <<>> /\ ScriptRuns
    BY DEF Init, ScriptRuns
  <2>2. Len(stack) = 0
    BY <2>1, EmptySeq
  <2>3. RunningIs /\ InUdfs = 0
    BY <2>1, <2>2, RunningNow DEF Good, InUdfs
  <2>4. QED
    BY <2>3, EmptySeq DEF RunningIs
<1>8. QED
  BY <1>4, <1>5, <1>6, <1>7 DEF Stack!Init, Pendings, Pending, Closed, Used, Running

\* Each step is one of GcfnStack, or none.
LEMMA NextRefines ==
    ASSUME ~ForeignDel
    PROVE  Good /\ Good' /\ [Next]_vars => [Stack!Next]_(Stack!vars)
<1> SUFFICES ASSUME Good, Good', [Next]_vars PROVE Stack!Next \/ UNCHANGED Stack!vars
  OBVIOUS
<1>1. ASSUME NEW s \in Sock, NEW g \in Fn, AddGcfn(s, g) PROVE Stack!Next
  BY <1>1, AddRefines DEF Stack!Next
<1>2. ASSUME NEW s \in Sock, NEW g \in Fn, DelGcfn(s, g)
      PROVE  Stack!Next \/ UNCHANGED Stack!vars
  BY <1>2, DeleteRefines DEF Stack!Next
<1>3. ASSUME NEW s \in Sock, StartWalk(s) PROVE Stack!Next
  BY <1>3, CloseRefines DEF Stack!Next
<1>4. CASE EnterUdf
  <2>1. Top.sock \in Sock
    BY <1>4, TopAtFn DEF Good, EnterUdf, Visiting
  <2>2. QED
    BY <1>4, <2>1, CallRefines DEF Stack!Next
<1>5. CASE SkipDeleted
  BY <1>5, SkipDeletedRefines
<1>6. CASE VisitSentinel
  BY <1>6, VisitSentinelRefines
<1>7. CASE FinishWalk
  BY <1>7, FinishRefines
<1>8. CASE UdfReturn
  BY <1>8, ReturnRefines DEF Stack!Next
<1>9. ASSUME NEW g \in Fn, Collect(g) PROVE UNCHANGED Stack!vars
  BY <1>9, CollectRefines
<1>10. CASE UNCHANGED vars
  <2>1. UNCHANGED <<head, ref, mem, stack, owner, stamp>>
    BY <1>10 DEF vars
  <2>2. \A t \in Sock : Waiting(t)' = Waiting(t)
    BY <2>1 DEF Waiting, Registered
  <2>3. Closed' = Closed /\ Running' = Running /\ Used' = Used
    BY <2>1 DEF Closed, Running, Used, InUdfs, ScriptRuns, Top
  <2>4. QED
    BY <2>1, <2>2, <2>3, QuietStep DEF Good
<1>11. QED
  BY <1>1, <1>2, <1>3, <1>4, <1>5, <1>6, <1>7, <1>8, <1>9, <1>10 DEF Next, WalkStep

\* The lists, walks and sentinel of the C code behave as the stacks of
\* GcfnStack: what is added last is called first, each function once, none while
\* another of the same socket runs, whatever the UDFs do.
THEOREM GcfnImplementsStack ==
    ASSUME ~ForeignDel
    PROVE  Spec => ImplementsStack
<1>1. Spec => []Good
  BY Inductive, StampsCount, GoodNow, PTL
<1>2. Spec => [][Stack!Next]_(Stack!vars)
  BY <1>1, NextRefines, PTL DEF Spec
<1>3. Spec => Stack!Init
  BY <1>1, InitRefines, PTL DEF Spec
<1>4. QED
  BY <1>2, <1>3, PTL DEF ImplementsStack, Stack!Spec
=============================================================================
