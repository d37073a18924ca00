--------------------------- MODULE Socket_proofs ----------------------------
(***************************************************************************)
(* Proofs about Socket, for any sets of objects, functions and descriptor  *)
(* numbers: no descriptor is lost, no function is forgotten or called too  *)
(* late, and in a plain run every close(2) hits the descriptor it means.   *)
(* Each step is one of Gcfn, or leaves its variables alone: Gcfn_proofs is *)
(* instantiated as P, so that what it proves holds of the walks here; no   *)
(* addgcfn is interrupted in Socket.                                       *)
(***************************************************************************)
EXTENDS Socket, SequenceTheorems, TLAPS

P == INSTANCE Gcfn_proofs WITH adding <- <<>>, torn <- {}

-----------------------------------------------------------------------------
(* The walks are those of module Gcfn.                                     *)

\* G and P name the same definitions.
LEMMA SameInit == P!Init <=> G!Init
BY DEF P!Init, G!Init, P!Node, G!Node

LEMMA SameTypes == P!TypeOK <=> G!TypeOK
BY DEF P!TypeOK, G!TypeOK, P!Ptr, G!Ptr, P!Node, G!Node, P!Frame, G!Frame

LEMMA SameNext == P!Next <=> G!Next
BY DEF P!Next, G!Next, P!AddGcfn, G!AddGcfn, P!Link, G!Link, P!DelGcfn, G!DelGcfn,
   P!Unlink, G!Unlink, P!StartWalk, G!StartWalk, P!WalkStep, G!WalkStep,
   P!EnterUdf, G!EnterUdf, P!SkipDeleted, G!SkipDeleted,
   P!VisitSentinel, G!VisitSentinel, P!FinishWalk, G!FinishWalk,
   P!UdfReturn, G!UdfReturn, P!Collect, G!Collect, P!Visiting, G!Visiting,
   P!SetTop, G!SetTop, P!NextRead, G!NextRead, P!RefRead, G!RefRead,
   P!ScriptRuns, G!ScriptRuns, P!Top, G!Top, P!Ptr, G!Ptr, P!Node, G!Node,
   P!nodes, G!nodes, P!history, G!history

\* A step of Socket is a step of its walks, or does not touch them.
LEMMA WalksOfGcfn == Next => G!Next \/ UNCHANGED gcfnVars
<1> SUFFICES ASSUME Next PROVE G!Next \/ UNCHANGED gcfnVars
  OBVIOUS
<1>1. ASSUME NEW s \in Sock, NEW n \in Fd,
             New(s, n) \/ Wrap(s, n) \/ AcceptFd(s, n) \/ RecvFd(s, n)
      PROVE  UNCHANGED gcfnVars
  BY <1>1 DEF New, Wrap, AcceptFd, RecvFd
<1>2. ASSUME NEW s \in Sock, NEW t \in Sock, NEW n \in Fd, NEW m \in Fd,
             Pair(s, t, n, m) \/ PairFails(s, n, m) \/ Accept(s, t, n) \/ Dup(s, t, n)
      PROVE  UNCHANGED gcfnVars
  BY <1>2 DEF Pair, PairFails, Accept, Dup, Derive
<1>3. ASSUME NEW n \in Fd, CloseFd(n) PROVE UNCHANGED gcfnVars
  BY <1>3 DEF CloseFd
<1>4. ASSUME NEW s \in Sock, NEW g \in Fn, AddGcfn(s, g) \/ DelGcfn(s, g)
      PROVE  G!Next
  BY <1>4 DEF AddGcfn, DelGcfn, G!Next
<1>5. ASSUME NEW s \in Sock, Close(s) \/ Unwrap(s) \/ Finalise(s)
      PROVE  G!Next
  BY <1>5 DEF Close, Unwrap, Finalise, Enter, G!Next
<1>6. ASSUME NEW s \in Sock, FinaliseClosed(s) PROVE UNCHANGED gcfnVars
  BY <1>6 DEF FinaliseClosed
<1>7. CASE CloseEnd \/ FinaliseEnd \/ UnwrapEnd
  BY <1>7 DEF CloseEnd, FinaliseEnd, UnwrapEnd, Back, G!Next, G!WalkStep
<1>8. CASE Walk \/ UdfReturn
  BY <1>8 DEF Walk, UdfReturn, G!Next, G!WalkStep
<1>9. ASSUME NEW g \in Fn, Collect(g) PROVE G!Next
  BY <1>9 DEF Collect, G!Next
<1>10. QED
  BY <1>1, <1>2, <1>3, <1>4, <1>5, <1>6, <1>7, <1>8, <1>9 DEF Next
-----------------------------------------------------------------------------
(* Stack and pending calls.                                                *)

\* What a pending call keeps.
PendingCall == [op : {"close", "gc", "unwrap"}, fd : Fd \cup {NoFd}]

\* A sequence without its last element.
LEMMA Shortened ==
    ASSUME NEW S, NEW q \in Seq(S), q # <<>>
    PROVE  /\ Len(q) \in Nat \ {0} /\ q[Len(q)] \in S
           /\ SubSeq(q, 1, Len(q) - 1) \in Seq(S)
           /\ Len(SubSeq(q, 1, Len(q) - 1)) = Len(q) - 1
           /\ \A i \in 1..(Len(q) - 1) : SubSeq(q, 1, Len(q) - 1)[i] = q[i]
<1> DEFINE n == Len(q) - 1
<1>1. Len(q) \in Nat \ {0} /\ n \in Nat /\ q[Len(q)] \in S
  BY EmptySeq, ElementOfSeq
<1>2. \A i \in 1..n : q[i] \in S
  BY <1>1, ElementOfSeq
<1>3. /\ SubSeq(q, 1, n) \in Seq(S)
      /\ Len(SubSeq(q, 1, n)) = IF 1 <= n THEN n - 1 + 1 ELSE 0
      /\ \A i \in 1..(n - 1 + 1) : SubSeq(q, 1, n)[i] = q[1 + i - 1]
  <2> HIDE DEF n
  <2>1. QED
    BY <1>1, <1>2, SubSeqProperties
<1>4. n - 1 + 1 = n /\ \A i \in 1..n : 1 + i - 1 = i
  BY <1>1
<1>5. QED
  BY <1>1, <1>3, <1>4

\* The types, spelled out.
LEMMA Types ==
    ASSUME TypeOK
    PROVE  /\ stack \in Seq(P!Frame) /\ calls \in Seq(PendingCall)
           /\ Len(stack) \in Nat /\ Len(calls) = Len(stack)
           /\ \A i \in 1..Len(stack) :
                 stack[i].sock \in Sock /\ calls[i] \in PendingCall
<1>1. stack \in Seq(P!Frame) /\ calls \in Seq(PendingCall) /\ Len(calls) = Len(stack)
  BY SameTypes DEF TypeOK, P!TypeOK, PendingCall
<1>2. QED
  BY <1>1, P!FrameTypes, ElementOfSeq, LenProperties, ValuesAssumption

\* The openings are numbered from 1 on.
LEMMA Numbers ==
    ASSUME TypeOK
    PROVE  /\ setup.maxopen \in Nat /\ opened \in Nat
           /\ tab \in [Fd -> 0..opened] /\ own \in [Sock -> 0..opened]
           /\ raw \subseteq 1..opened
<1>1. setup \in [mode : {"plain", "reenter", "pairfails"}, maxopen : Nat]
  BY FdAssumption DEF TypeOK
<1>2. setup.maxopen \in Nat
  BY <1>1
<1>3. opened \in Nat
  BY <1>2 DEF TypeOK
<1>4. QED
  BY <1>2, <1>3 DEF TypeOK

\* Every step keeps the types of Gcfn's variables.
LEMMA GcfnTypes ==
    ASSUME TypeOK, Next
    PROVE  G!TypeOK'
<1>1. [P!Next]_(P!vars)
  BY WalksOfGcfn, SameNext DEF gcfnVars, P!vars
<1>2. P!TypeOK'
  BY <1>1, P!NextTypeOK, SameTypes, ValuesAssumption DEF TypeOK
<1>3. QED
  BY <1>2 DEF P!TypeOK, G!TypeOK, P!Ptr, G!Ptr, P!Node, G!Node, P!Frame, G!Frame
-----------------------------------------------------------------------------
(* The inductive invariant: one lemma per kind of step.                    *)

\* The initial state.
LEMMA InitIInv == Init => IInv
<1> SUFFICES ASSUME Init PROVE IInv
  OBVIOUS
<1>1. G!TypeOK
  BY P!InitTypeOK, SameInit, SameTypes, ValuesAssumption DEF Init
<1>2. stack = <<>> /\ Len(stack) = 0
  BY EmptySeq DEF Init, G!Init
<1>3. TypeOK
  BY <1>1, <1>2, EmptySeq, FdAssumption DEF Init, TypeOK
<1>4. QED
  BY <1>2, <1>3 DEF Init, IInv, OwnersOK, PendingOK, NotReentered, PlainOK, ClosedIsDone, GivenUp

\* A system call opens n for the new object s (new, accept, dup).
LEMMA NewObjectIInv ==
    ASSUME IInv, Next, NEW s \in Sock, NEW n \in Fd,
           Opens(n), Attach(s, n, opened + 1),
           UNCHANGED <<gcfnVars, setup, calls, raw>>
    PROVE  IInv'
<1>1. TypeOK'
  <2>1. G!TypeOK'
    BY GcfnTypes DEF IInv
  <2>2. QED
    BY <2>1, FdAssumption DEF IInv, TypeOK, Opens, Attach, gcfnVars
<1>2. /\ opened \in Nat /\ life[s] = "none" /\ tab[n] = 0
      /\ \A k \in Fd : tab'[k] = IF k = n THEN opened + 1 ELSE tab[k]
      /\ \A k \in Fd : tab[k] \in 0..opened
      /\ \A t \in Sock :
            /\ fd'[t] = IF t = s THEN n ELSE fd[t]
            /\ own'[t] = IF t = s THEN opened + 1 ELSE own[t]
            /\ life'[t] = IF t = s THEN "live" ELSE life[t]
            /\ own[t] \in 0..opened /\ fd[t] \in Fd \cup {NoFd}
      /\ UNCHANGED <<head, stack, setup, calls, raw>>
      /\ raw \subseteq 1..opened
  BY FdAssumption DEF IInv, TypeOK, Opens, Attach, Unused, gcfnVars
<1>3. \A i \in 1..Len(stack) : stack[i].sock \in Sock /\ stack[i].sock # s
  BY <1>2, Types DEF IInv, PendingOK
<1>4. OwnersOK'
  <2>1. \A k, m \in Fd : tab'[k] = tab'[m] /\ tab'[k] # 0 => k = m
    BY <1>2 DEF IInv, OwnersOK
  <2>2. \A t \in Sock : fd'[t] # NoFd => own'[t] # 0
    BY <1>2 DEF IInv, OwnersOK
  <2>3. ASSUME NEW k \in Fd, tab'[k] # 0
        PROVE  tab'[k] \in raw' \/ \E t \in Holders(k)' : own'[t] = tab'[k]
    BY <1>2, <2>3 DEF IInv, OwnersOK, Holders
  <2>4. QED
    BY <2>1, <2>2, <2>3 DEF OwnersOK
<1>5. PendingOK' /\ NotReentered'
  BY <1>2, <1>3 DEF IInv, PendingOK, NotReentered
<1>6. PlainOK'
  <2> SUFFICES ASSUME setup.mode = "plain" PROVE PlainOK'
    BY <1>2 DEF PlainOK
  <2>1. PlainOK
    BY DEF IInv
  <2>2. \A u \in Sock : life[u] = "live" /\ fd[u] # NoFd =>
           /\ fd[u] \in Fd /\ own[u] # 0 /\ tab[fd[u]] = own[u] /\ own[u] \notin raw
           /\ fd[u] # n
           /\ \A v \in Sock : life[v] = "live" /\ fd[v] = fd[u] => v = u
    BY <1>2, <2>1 DEF IInv, OwnersOK, PlainOK, Holders
  <2>3. \A u, v \in Sock : life'[u] = "live" /\ fd'[u] # NoFd =>
           /\ tab'[fd'[u]] = own'[u] /\ own'[u] \notin raw'
           /\ life'[v] = "live" /\ fd'[v] = fd'[u] => v = u
    BY <1>2, <2>2, FdAssumption
  <2>4. QED
    BY <1>2, <1>3, <2>1, <2>3 DEF PlainOK, Holders
<1>7. ClosedIsDone'
  BY <1>2, FdAssumption DEF IInv, ClosedIsDone, GivenUp
<1>8. QED
  BY <1>1, <1>4, <1>5, <1>6, <1>7 DEF IInv

\* socket.pair.
LEMMA PairIInv ==
    ASSUME IInv, Next, NEW s \in Sock, NEW t \in Sock, NEW n \in Fd, NEW m \in Fd,
           Pair(s, t, n, m)
    PROVE  IInv'
<1>1. TypeOK'
  <2>1. G!TypeOK'
    BY GcfnTypes DEF IInv
  <2>2. QED
    <3>1. opened \in Nat /\ setup.maxopen \in Nat /\ opened' \in 0..setup.maxopen
      BY Numbers DEF IInv, TypeOK, Pair
    <3>2. tab \in [Fd -> 0..opened'] /\ own \in [Sock -> 0..opened']
      BY <3>1, Numbers DEF IInv, Pair
    <3>3. /\ tab' \in [Fd -> 0..opened'] /\ own' \in [Sock -> 0..opened']
          /\ raw' \subseteq 1..opened'
      <4>1. {opened + 1, opened + 2} \subseteq 0..opened' /\ raw' = raw
        BY <3>1 DEF Pair
      <4>2. tab' \in [Fd -> 0..opened'] /\ own' \in [Sock -> 0..opened']
        BY <3>2, <4>1 DEF Pair
      <4>3. raw' \subseteq 1..opened'
        BY <3>1, <4>1, Numbers DEF IInv, Pair
      <4>4. QED
        BY <4>2, <4>3
    <3>4. /\ fd' \in [Sock -> Fd \cup {NoFd}]
          /\ life' \in [Sock -> {"none", "live", "lost", "bare", "finalised"}]
      BY DEF IInv, TypeOK, Pair
    <3>5. QED
      BY <2>1, <3>1, <3>2, <3>3, <3>4 DEF IInv, TypeOK, Pair, gcfnVars
<1>2. /\ opened \in Nat /\ life[s] = "none" /\ life[t] = "none" /\ s # t /\ n # m
      /\ tab[n] = 0 /\ tab[m] = 0
      /\ \A k \in Fd : tab'[k] = IF k = n THEN opened + 1
                                 ELSE IF k = m THEN opened + 2 ELSE tab[k]
      /\ \A k \in Fd : tab[k] \in 0..opened
      /\ \A u \in Sock :
            /\ fd'[u] = IF u = s THEN n ELSE IF u = t THEN m ELSE fd[u]
            /\ own'[u] = IF u = s THEN opened + 1
                         ELSE IF u = t THEN opened + 2 ELSE own[u]
            /\ life'[u] = IF u \in {s, t} THEN "live" ELSE life[u]
            /\ own[u] \in 0..opened /\ fd[u] \in Fd \cup {NoFd}
      /\ UNCHANGED <<head, stack, setup, calls, raw>>
      /\ raw \subseteq 1..opened
  BY FdAssumption DEF IInv, TypeOK, Pair, Unused, gcfnVars
<1>3. \A i \in 1..Len(stack) : stack[i].sock \in Sock /\ stack[i].sock \notin {s, t}
  BY <1>2, Types DEF IInv, PendingOK
<1>4. OwnersOK'
  <2>1. \A k, j \in Fd : tab'[k] = tab'[j] /\ tab'[k] # 0 => k = j
    BY <1>2 DEF IInv, OwnersOK
  <2>2. \A u \in Sock : fd'[u] # NoFd => own'[u] # 0
    BY <1>2 DEF IInv, OwnersOK
  <2>3. ASSUME NEW k \in Fd, tab'[k] # 0
        PROVE  tab'[k] \in raw' \/ \E u \in Holders(k)' : own'[u] = tab'[k]
    BY <1>2, <2>3 DEF IInv, OwnersOK, Holders
  <2>4. QED
    BY <2>1, <2>2, <2>3 DEF OwnersOK
<1>5. PendingOK' /\ NotReentered'
  BY <1>2, <1>3 DEF IInv, PendingOK, NotReentered
<1>6. PlainOK'
  <2> SUFFICES ASSUME setup.mode = "plain" PROVE PlainOK'
    BY <1>2 DEF PlainOK
  <2>1. PlainOK
    BY DEF IInv
  <2>2. \A u \in Sock : life[u] = "live" /\ fd[u] # NoFd =>
           /\ fd[u] \in Fd /\ own[u] # 0 /\ tab[fd[u]] = own[u] /\ own[u] \notin raw
           /\ fd[u] \notin {n, m}
           /\ \A v \in Sock : life[v] = "live" /\ fd[v] = fd[u] => v = u
    BY <1>2, <2>1 DEF IInv, OwnersOK, PlainOK, Holders
  <2>3. \A u, v \in Sock : life'[u] = "live" /\ fd'[u] # NoFd =>
           /\ tab'[fd'[u]] = own'[u] /\ own'[u] \notin raw'
           /\ life'[v] = "live" /\ fd'[v] = fd'[u] => v = u
    <3>1. ASSUME NEW u \in Sock, life'[u] = "live", fd'[u] # NoFd
          PROVE  tab'[fd'[u]] = own'[u] /\ own'[u] \notin raw'
      <4>1. CASE u \in {s, t}
        BY <1>2, <3>1, <4>1
      <4>2. CASE u \notin {s, t}
        BY <1>2, <2>2, <3>1, <4>2
      <4>3. QED
        BY <4>1, <4>2
    <3>2. ASSUME NEW u \in Sock, life'[u] = "live", fd'[u] # NoFd,
                 NEW v \in Sock, life'[v] = "live", fd'[v] = fd'[u]
          PROVE  v = u
      <4>1. CASE u \in {s, t}
        BY <1>2, <2>2, <3>2, <4>1
      <4>2. CASE u \notin {s, t}
        BY <1>2, <2>2, <3>2, <4>2
      <4>3. QED
        BY <4>1, <4>2
    <3>3. QED
      BY <3>1, <3>2
  <2>4. QED
    BY <1>2, <1>3, <2>1, <2>3 DEF PlainOK, Holders
<1>7. ClosedIsDone'
  BY <1>2, FdAssumption DEF IInv, ClosedIsDone, GivenUp
<1>8. QED
  BY <1>1, <1>4, <1>5, <1>6, <1>7 DEF IInv

\* socket.pair that fails: the lost object is no holder of its number.
LEMMA PairFailsIInv ==
    ASSUME IInv, Next, NEW s \in Sock, NEW n \in Fd, NEW m \in Fd, PairFails(s, n, m)
    PROVE  IInv'
<1>1. TypeOK'
  <2>1. G!TypeOK'
    BY GcfnTypes DEF IInv
  <2>2. QED
    BY <2>1, FdAssumption DEF IInv, TypeOK, PairFails, gcfnVars
<1>2. /\ opened \in Nat /\ life[s] = "none" /\ setup.mode # "plain"
      /\ \A u \in Sock :
            /\ fd'[u] = IF u = s THEN n ELSE fd[u]
            /\ own'[u] = IF u = s THEN opened + 1 ELSE own[u]
            /\ life'[u] = IF u = s THEN "lost" ELSE life[u]
      /\ UNCHANGED <<head, stack, setup, calls, raw, tab>>
  BY DEF IInv, TypeOK, PairFails, Unused, gcfnVars
<1>3. \A i \in 1..Len(stack) : stack[i].sock \in Sock /\ stack[i].sock # s
  BY <1>2, Types DEF IInv, PendingOK
<1>4. OwnersOK'
  BY <1>2 DEF IInv, OwnersOK, Holders
<1>5. PendingOK' /\ NotReentered'
  BY <1>2, <1>3 DEF IInv, PendingOK, NotReentered
<1>6. PlainOK' /\ ClosedIsDone'
  BY <1>2, FdAssumption DEF IInv, PlainOK, ClosedIsDone, GivenUp
<1>7. QED
  BY <1>1, <1>4, <1>5, <1>6 DEF IInv

\* acceptfd and recvfd.
LEMMA AcceptFdIInv ==
    ASSUME IInv, Next, NEW s \in Sock, NEW n \in Fd, AcceptFd(s, n)
    PROVE  IInv'
<1>1. TypeOK'
  <2>1. G!TypeOK'
    BY GcfnTypes DEF IInv
  <2>2. QED
    BY <2>1, FdAssumption DEF IInv, TypeOK, AcceptFd, Opens, gcfnVars
<1>2. /\ opened \in Nat /\ tab[n] = 0 /\ raw' = raw \cup {opened + 1}
      /\ \A k \in Fd : tab'[k] = IF k = n THEN opened + 1 ELSE tab[k]
      /\ \A k \in Fd : tab[k] \in 0..opened
      /\ \A t \in Sock : own[t] \in 0..opened /\ fd[t] \in Fd \cup {NoFd}
      /\ UNCHANGED <<head, stack, setup, calls, fd, own, life>>
  BY DEF IInv, TypeOK, AcceptFd, Opens, gcfnVars
<1>3. OwnersOK'
  BY <1>2 DEF IInv, OwnersOK, Holders
<1>4. PendingOK' /\ NotReentered' /\ ClosedIsDone'
  BY <1>2 DEF IInv, PendingOK, NotReentered, ClosedIsDone, GivenUp
<1>5. PlainOK'
  BY <1>2 DEF IInv, OwnersOK, PlainOK, Holders
<1>6. QED
  BY <1>1, <1>3, <1>4, <1>5 DEF IInv

\* socket.wrap.
LEMMA WrapIInv ==
    ASSUME IInv, Next, NEW s \in Sock, NEW n \in Fd, Wrap(s, n)
    PROVE  IInv'
<1>1. TypeOK'
  <2>1. G!TypeOK'
    BY GcfnTypes DEF IInv
  <2>2. QED
    BY <2>1, FdAssumption DEF IInv, TypeOK, Wrap, Attach, gcfnVars
<1>2. /\ life[s] = "none" /\ tab[n] \in raw /\ tab[n] # 0 /\ raw' = raw \ {tab[n]}
      /\ \A t \in Sock :
            /\ fd'[t] = IF t = s THEN n ELSE fd[t]
            /\ own'[t] = IF t = s THEN tab[n] ELSE own[t]
            /\ life'[t] = IF t = s THEN "live" ELSE life[t]
            /\ fd[t] \in Fd \cup {NoFd}
      /\ UNCHANGED <<head, stack, setup, calls, tab>>
  BY DEF IInv, TypeOK, Wrap, Attach, Unused, gcfnVars
<1>3. \A i \in 1..Len(stack) : stack[i].sock \in Sock /\ stack[i].sock # s
  BY <1>2, Types DEF IInv, PendingOK
<1>4. OwnersOK'
  BY <1>2 DEF IInv, OwnersOK, Holders
<1>5. PendingOK' /\ NotReentered'
  BY <1>2, <1>3 DEF IInv, PendingOK, NotReentered
<1>6. PlainOK'
  <2> SUFFICES ASSUME setup.mode = "plain" PROVE PlainOK'
    BY <1>2 DEF PlainOK
  <2>1. PlainOK
    BY DEF IInv
  <2>2. \A u \in Sock : life[u] = "live" /\ fd[u] # NoFd =>
           /\ fd[u] \in Fd /\ own[u] # 0 /\ tab[fd[u]] = own[u] /\ own[u] \notin raw
           /\ fd[u] # n
           /\ \A v \in Sock : life[v] = "live" /\ fd[v] = fd[u] => v = u
    BY <1>2, <2>1 DEF IInv, OwnersOK, PlainOK, Holders
  <2>3. \A u, v \in Sock : life'[u] = "live" /\ fd'[u] # NoFd =>
           /\ tab'[fd'[u]] = own'[u] /\ own'[u] \notin raw'
           /\ life'[v] = "live" /\ fd'[v] = fd'[u] => v = u
    BY <1>2, <2>2, FdAssumption
  <2>4. QED
    BY <1>2, <1>3, <2>1, <2>3 DEF PlainOK, Holders
<1>7. ClosedIsDone'
  BY <1>2, FdAssumption DEF IInv, ClosedIsDone, GivenUp
<1>8. QED
  BY <1>1, <1>4, <1>5, <1>6, <1>7 DEF IInv

\* socket.close of a number.
LEMMA CloseFdIInv ==
    ASSUME IInv, Next, NEW n \in Fd, CloseFd(n)
    PROVE  IInv'
<1>1. TypeOK'
  <2>1. G!TypeOK'
    BY GcfnTypes DEF IInv
  <2>2. QED
    <3>1. raw' \subseteq 1..opened /\ tab' \in [Fd -> 0..opened]
      <4>1. opened \in Nat /\ tab \in [Fd -> 0..opened] /\ raw \subseteq 1..opened
        BY Numbers DEF IInv
      <4>2. 0 \in 0..opened /\ tab' = [tab EXCEPT ![n] = 0] /\ raw' \subseteq raw
        BY <4>1 DEF CloseFd
      <4>3. QED
        BY <4>1, <4>2
    <3>2. QED
      BY <2>1, <3>1 DEF IInv, TypeOK, CloseFd, gcfnVars
<1>2. /\ tab[n] \in raw /\ raw' = raw \ {tab[n]}
      /\ \A k \in Fd : tab'[k] = IF k = n THEN 0 ELSE tab[k]
      /\ \A t \in Sock : fd[t] \in Fd \cup {NoFd}
      /\ UNCHANGED <<head, stack, setup, calls, fd, own, life>>
  BY DEF IInv, TypeOK, CloseFd, gcfnVars
<1>3. OwnersOK'
  BY <1>2 DEF IInv, OwnersOK, Holders
<1>4. PendingOK' /\ NotReentered' /\ ClosedIsDone'
  BY <1>2 DEF IInv, PendingOK, NotReentered, ClosedIsDone, GivenUp
<1>5. PlainOK'
  BY <1>2 DEF IInv, OwnersOK, PlainOK, Holders
<1>6. QED
  BY <1>1, <1>3, <1>4, <1>5 DEF IInv

\* addgcfn and delgcfn leave the head of a socket that is DONE alone.
LEMMA ListIInv ==
    ASSUME IInv, Next, NEW s \in Sock, NEW g \in Fn, AddGcfn(s, g) \/ DelGcfn(s, g)
    PROVE  IInv'
<1>1. /\ \A t \in Sock : head[t] = DONE => head'[t] = DONE
      /\ UNCHANGED sockVars /\ UNCHANGED stack
  <2>1. head \in [Sock -> G!Ptr]
    BY DEF IInv, TypeOK, G!TypeOK
  <2>2. QED
    BY <2>1 DEF AddGcfn, DelGcfn, G!AddGcfn, G!Link, G!DelGcfn
<1>2. TypeOK'
  BY <1>1, GcfnTypes DEF IInv, TypeOK, sockVars
<1>3. \A i \in 1..Len(stack) : stack[i].sock \in Sock
  BY Types DEF IInv
<1>4. QED
  BY <1>1, <1>2, <1>3 DEF IInv, OwnersOK, PendingOK, NotReentered, PlainOK, ClosedIsDone, GivenUp,
     Holders, sockVars

\* A finaliser of an object without descriptor ends the object's life.
LEMMA FinaliseClosedIInv ==
    ASSUME IInv, Next, NEW s \in Sock, FinaliseClosed(s)
    PROVE  IInv'
<1>1. TypeOK'
  <2>1. G!TypeOK'
    BY GcfnTypes DEF IInv
  <2>2. QED
    BY <2>1 DEF IInv, TypeOK, FinaliseClosed, gcfnVars
<1>2. /\ fd[s] = NoFd /\ life[s] = "live"
      /\ \A t \in Sock : life'[t] = IF t = s THEN "finalised" ELSE life[t]
      /\ UNCHANGED <<head, stack, setup, calls, fd, own, raw, tab>>
  BY DEF IInv, TypeOK, FinaliseClosed, gcfnVars
<1>3. \A i \in 1..Len(stack) : stack[i].sock \in Sock /\ stack[i].sock # s
  BY Types DEF IInv, FinaliseClosed, InCall
<1>4. OwnersOK'
  <2>1. \A n \in Fd : Holders(n)' = Holders(n)
    BY <1>2, FdAssumption DEF Holders
  <2>2. QED
    BY <1>2, <2>1 DEF IInv, OwnersOK
<1>5. PendingOK' /\ NotReentered' /\ ClosedIsDone'
  BY <1>2, <1>3 DEF IInv, PendingOK, NotReentered, ClosedIsDone, GivenUp
<1>6. PlainOK'
  BY <1>2, <1>3 DEF IInv, PlainOK, Holders
<1>7. QED
  BY <1>1, <1>4, <1>5, <1>6 DEF IInv

\* The steps of a walk keep its socket.
LEMMA WalkKeepsSockets ==
    ASSUME TypeOK, Walk \/ UdfReturn
    PROVE  /\ Len(stack') = Len(stack)
           /\ \A i \in 1..Len(stack) : stack'[i].sock = stack[i].sock
           /\ UNCHANGED head /\ UNCHANGED sockVars
<1>1. stack \in Seq(P!Frame) /\ stack # <<>> /\ Len(stack) \in Nat
  BY Types DEF Walk, UdfReturn, G!EnterUdf, G!SkipDeleted, G!VisitSentinel, G!UdfReturn,
     G!Visiting
<1>2. ASSUME NEW c, NEW n, NEW u, G!SetTop(c, n, u)
      PROVE  /\ Len(stack') = Len(stack)
             /\ \A i \in 1..Len(stack) : stack'[i].sock = stack[i].sock
  <2> DEFINE f == [sock |-> stack[Len(stack)].sock, cur |-> c, nxt |-> n, udf |-> u]
  <2>1. stack' = [stack EXCEPT ![Len(stack)] = f] /\ f.sock = stack[Len(stack)].sock
    BY <1>2 DEF G!SetTop, G!Top
  <2>2. DOMAIN stack = 1..Len(stack)
    BY <1>1, LenProperties
  <2>3. DOMAIN stack' = DOMAIN stack
        /\ \A i \in DOMAIN stack : stack'[i] = IF i = Len(stack) THEN f ELSE stack[i]
    <3> HIDE DEF f
    <3>1. QED
      BY <1>1, <2>1, <2>2
  <2>4. Len(stack') = Len(stack)
    BY <1>1, <2>2, <2>3
  <2>5. QED
    BY <2>1, <2>2, <2>3, <2>4
<1>3. \E c, n, u : G!SetTop(c, n, u)
  BY DEF Walk, UdfReturn, G!EnterUdf, G!SkipDeleted, G!VisitSentinel, G!UdfReturn
<1>4. UNCHANGED head /\ UNCHANGED sockVars
  BY DEF Walk, UdfReturn, G!EnterUdf, G!SkipDeleted, G!VisitSentinel, G!UdfReturn
<1>5. QED
  BY <1>2, <1>3, <1>4

LEMMA WalkIInv ==
    ASSUME IInv, Next, Walk \/ UdfReturn
    PROVE  IInv'
<1>1. /\ Len(stack') = Len(stack)
      /\ \A i \in 1..Len(stack) : stack'[i].sock = stack[i].sock
      /\ UNCHANGED head /\ UNCHANGED sockVars
  BY WalkKeepsSockets DEF IInv
<1>2. TypeOK'
  BY <1>1, GcfnTypes DEF IInv, TypeOK, sockVars
<1>3. QED
  BY <1>1, <1>2 DEF IInv, OwnersOK, PendingOK, NotReentered, PlainOK, ClosedIsDone, GivenUp,
     Holders, sockVars

\* The collector frees a function.
LEMMA CollectIInv ==
    ASSUME IInv, Next, NEW g \in Fn, Collect(g)
    PROVE  IInv'
<1>1. UNCHANGED <<head, stack>> /\ UNCHANGED sockVars
  BY DEF Collect, G!Collect
<1>2. TypeOK'
  BY <1>1, GcfnTypes DEF IInv, TypeOK, sockVars
<1>3. QED
  BY <1>1, <1>2 DEF IInv, OwnersOK, PendingOK, NotReentered, PlainOK, ClosedIsDone, GivenUp,
     Holders, sockVars

\* The entry of call_gcfn: from close or __gc only of an object with a number, from
\* __gc and unless UDFs reenter only of one without a pending call.
LEMMA EnterIInv ==
    ASSUME IInv, Next, NEW s \in Sock, NEW op \in {"close", "gc", "unwrap"},
           Enter(s, op), life[s] \in {"live", "lost"}, op = "close" => fd[s] # NoFd,
           setup.mode # "reenter" => ~InCall(s)
    PROVE  IInv'
<1> DEFINE f == [sock |-> s, cur |-> head[s], nxt |-> NULL, udf |-> FALSE]
           c == [op |-> op, fd |-> fd[s]]
<1>1. /\ stack' = Append(stack, f) /\ calls' = Append(calls, c)
      /\ head' = [head EXCEPT ![s] = DONE]
      /\ UNCHANGED <<setup, fd, life, tab, opened, own, raw>>
  BY DEF Enter, G!StartWalk
<1>2. c \in PendingCall /\ f.sock = s /\ c.op = op /\ c.fd = fd[s]
  BY DEF IInv, TypeOK, PendingCall
<1>3. /\ Len(stack) \in Nat /\ Len(calls) = Len(stack)
      /\ stack \in Seq(P!Frame) /\ calls \in Seq(PendingCall)
      /\ \A i \in 1..Len(stack) : stack[i].sock \in Sock
  BY Types DEF IInv
<1>4. /\ Len(stack') = Len(stack) + 1
      /\ stack'[Len(stack) + 1] = f
      /\ \A i \in 1..Len(stack) : stack'[i] = stack[i]
  <2> HIDE DEF f
  <2>1. stack \in Seq(P!Frame \cup {f}) /\ f \in P!Frame \cup {f}
    BY <1>3
  <2>2. QED
    BY <1>1, <2>1, AppendProperties
<1>5. /\ calls' \in Seq(PendingCall)
      /\ Len(calls') = Len(stack) + 1
      /\ calls'[Len(stack) + 1] = c
      /\ \A i \in 1..Len(stack) : calls'[i] = calls[i]
  <2> HIDE DEF c
  <2>1. QED
    BY <1>1, <1>2, <1>3, AppendProperties
<1> HIDE DEF f, c
<1>6. 1..(Len(stack) + 1) = (1..Len(stack)) \cup {Len(stack) + 1}
  BY <1>3
<1>7. TypeOK'
  BY <1>1, <1>4, <1>5, GcfnTypes DEF IInv, TypeOK, PendingCall
<1>8. OwnersOK'
  BY <1>1 DEF IInv, OwnersOK, Holders
<1>9. \A t \in Sock : head'[t] = IF t = s THEN DONE ELSE head[t]
  BY <1>1 DEF IInv, TypeOK, G!TypeOK
<1>10. PendingOK'
  <2> SUFFICES ASSUME NEW i \in 1..(Len(stack) + 1)
      PROVE  /\ life[stack'[i].sock] # "none" /\ head'[stack'[i].sock] = DONE
             /\ calls'[i].op = "close" => fd[stack'[i].sock] \in {calls'[i].fd, NoFd}
    BY <1>1, <1>4 DEF PendingOK
  <2>1. CASE i = Len(stack) + 1
    BY <1>2, <1>4, <1>5, <1>9, <2>1
  <2>2. CASE i \in 1..Len(stack)
    BY <1>3, <1>4, <1>5, <1>9, <2>2 DEF IInv, PendingOK
  <2>3. QED
    BY <1>6, <2>1, <2>2
<1>11. NotReentered'
  <2> SUFFICES ASSUME setup.mode # "reenter",
                      NEW i \in 1..(Len(stack) + 1), NEW j \in 1..(Len(stack) + 1),
                      stack'[i].sock = stack'[j].sock
               PROVE  i = j
    BY <1>1, <1>4 DEF NotReentered
  <2>1. \A k \in 1..Len(stack) : stack[k].sock # s
    BY DEF InCall
  <2>2. QED
    BY <1>2, <1>4, <1>6, <2>1 DEF IInv, NotReentered
<1>12. PlainOK'
  <2> SUFFICES ASSUME setup.mode = "plain" PROVE PlainOK'
    BY <1>1 DEF PlainOK
  <2>1. PlainOK
    BY DEF IInv
  <2>2. ASSUME NEW i \in 1..(Len(stack) + 1)
        PROVE  /\ life[stack'[i].sock] = "live"
               /\ calls'[i].op = "close" =>
                     calls'[i].fd = fd[stack'[i].sock] /\ calls'[i].fd # NoFd
    <3>1. CASE i = Len(stack) + 1
      BY <1>2, <1>4, <1>5, <2>1, <3>1 DEF PlainOK
    <3>2. CASE i \in 1..Len(stack)
      BY <1>4, <1>5, <2>1, <3>2 DEF PlainOK
    <3>3. QED
      BY <1>6, <3>1, <3>2
  <2>3. QED
    BY <1>1, <1>4, <2>1, <2>2 DEF PlainOK, Holders
<1>13. ClosedIsDone'
  BY <1>1, <1>9 DEF IInv, ClosedIsDone, GivenUp
<1>14. QED
  BY <1>7, <1>8, <1>10, <1>11, <1>12, <1>13 DEF IInv

\* The return of call_gcfn takes the innermost call off.
LEMMA BackFacts ==
    ASSUME IInv, NEW op, Back(op)
    PROVE  /\ Len(stack) \in Nat \ {0} /\ Len(stack) \in 1..Len(stack)
           /\ G!Top.sock = stack[Len(stack)].sock /\ G!Top.sock \in Sock
           /\ Call = calls[Len(stack)] /\ Call \in PendingCall /\ Call.op = op
           /\ Len(stack') = Len(stack) - 1 /\ Len(calls') = Len(stack')
           /\ calls' \in Seq(PendingCall)
           /\ 1..Len(stack') \subseteq 1..Len(stack)
           /\ \A i \in 1..Len(stack') : stack'[i] = stack[i] /\ calls'[i] = calls[i]
           /\ UNCHANGED head
<1>1. /\ stack # <<>> /\ Call.op = op
      /\ stack' = SubSeq(stack, 1, Len(stack) - 1)
      /\ calls' = SubSeq(calls, 1, Len(calls) - 1) /\ UNCHANGED head
  BY DEF Back, G!FinishWalk
<1>2. /\ stack \in Seq(P!Frame) /\ calls \in Seq(PendingCall)
      /\ Len(stack) \in Nat /\ Len(calls) = Len(stack)
      /\ \A i \in 1..Len(stack) : stack[i].sock \in Sock /\ calls[i] \in PendingCall
  BY Types DEF IInv
<1>3. calls # <<>>
  BY <1>1, <1>2, EmptySeq
<1>4. Len(stack) \in Nat \ {0} /\ Len(stack') = Len(stack) - 1
      /\ \A i \in 1..(Len(stack) - 1) : stack'[i] = stack[i]
  BY <1>1, <1>2, Shortened
<1>5. /\ calls' \in Seq(PendingCall) /\ Len(calls') = Len(calls) - 1
      /\ \A i \in 1..(Len(calls) - 1) : calls'[i] = calls[i]
  BY <1>1, <1>2, <1>3, Shortened
<1>6. QED
  BY <1>1, <1>2, <1>4, <1>5 DEF G!Top, Call

\* close_lua closes the number it has saved, the only one its object can have.
LEMMA CloseEndIInv ==
    ASSUME IInv, Next, CloseEnd
    PROVE  IInv'
<1> DEFINE s == G!Top.sock
           m == Call.fd
<1>1. Back("close")
  BY DEF CloseEnd
<1>2. /\ Len(stack) \in 1..Len(stack) /\ s = stack[Len(stack)].sock /\ s \in Sock
      /\ Call = calls[Len(stack)] /\ Call.op = "close" /\ m \in Fd \cup {NoFd}
      /\ Len(calls') = Len(stack')
      /\ calls' \in Seq(PendingCall) /\ 1..Len(stack') \subseteq 1..Len(stack)
      /\ \A i \in 1..Len(stack') : stack'[i] = stack[i] /\ calls'[i] = calls[i]
      /\ \A i \in 1..Len(stack') : i # Len(stack)
      /\ \A i \in 1..Len(stack) : stack[i].sock \in Sock
      /\ UNCHANGED head
  BY <1>1, BackFacts, Types DEF PendingCall, IInv
<1>3. /\ fd' = [fd EXCEPT ![s] = NoFd] /\ tab' = [k \in Fd |-> IF k = m THEN 0 ELSE tab[k]]
      /\ UNCHANGED <<setup, life, opened, own, raw>>
  BY DEF CloseEnd, KernelClose
<1>4. fd[s] \in {m, NoFd} /\ life[s] # "none" /\ head[s] = DONE
  BY <1>2 DEF IInv, PendingOK
<1> HIDE DEF s, m
<1>5. \A t \in Sock : fd'[t] = IF t = s THEN NoFd ELSE fd[t]
  BY <1>3 DEF IInv, TypeOK
<1>6. TypeOK'
  <2>1. G!TypeOK'
    BY GcfnTypes DEF IInv
  <2>2. tab' \in [Fd -> 0..opened]
    <3>1. opened \in Nat /\ tab \in [Fd -> 0..opened]
      BY Numbers DEF IInv
    <3>2. QED
      BY <1>3, <3>1
  <2>3. QED
    BY <1>2, <1>3, <2>1, <2>2 DEF IInv, TypeOK, PendingCall
<1>7. OwnersOK'
  <2>1. \A t \in Sock : fd'[t] # NoFd => own'[t] # 0
    BY <1>3, <1>5 DEF IInv, OwnersOK
  <2>2. \A k, j \in Fd : tab'[k] = tab'[j] /\ tab'[k] # 0 => k = j
    BY <1>3 DEF IInv, OwnersOK
  <2>3. ASSUME NEW k \in Fd, tab'[k] # 0
        PROVE  tab'[k] \in raw' \/ \E t \in Holders(k)' : own'[t] = tab'[k]
    <3>1. k # m /\ tab'[k] = tab[k] /\ k # NoFd
      BY <1>3, <2>3, FdAssumption
    <3>2. Holders(k)' = Holders(k)
      BY <1>3, <1>4, <1>5, <3>1 DEF Holders
    <3>3. QED
      BY <1>3, <2>3, <3>1, <3>2 DEF IInv, OwnersOK
  <2>4. QED
    BY <2>1, <2>2, <2>3 DEF OwnersOK
<1>8. PendingOK' /\ NotReentered' /\ ClosedIsDone'
  <2>1. PendingOK'
    BY <1>2, <1>3, <1>5 DEF IInv, PendingOK
  <2>2. NotReentered'
    BY <1>2, <1>3 DEF IInv, NotReentered
  <2>3. ClosedIsDone'
    BY <1>2, <1>3, <1>4, <1>5 DEF IInv, ClosedIsDone, GivenUp
  <2>4. QED
    BY <2>1, <2>2, <2>3
<1>9. PlainOK'
  <2> SUFFICES ASSUME setup.mode = "plain" PROVE PlainOK'
    BY <1>3 DEF PlainOK
  <2>1. PlainOK /\ NotReentered
    BY DEF IInv
  <2>2. life[s] = "live" /\ m = fd[s] /\ m # NoFd
    BY <1>2, <2>1 DEF PlainOK, m
  <2>3. \A i \in 1..Len(stack') : stack[i].sock # s
    BY <1>2, <2>1 DEF NotReentered
  <2>4. \A t \in Sock : life[t] = "live" /\ t # s => fd[t] # m
    BY <1>2, <2>1, <2>2 DEF PlainOK, Holders
  <2>5. \A t \in Sock : fd[t] \in Fd \cup {NoFd}
    BY DEF IInv, TypeOK
  <2>6. \A t \in Sock : life[t] = "live" /\ fd'[t] # NoFd =>
           /\ tab'[fd'[t]] = own[t] /\ own[t] \notin raw
           /\ \A u \in Sock : life[u] = "live" /\ fd'[u] = fd'[t] => u = t
    BY <1>3, <1>5, <2>1, <2>4, <2>5 DEF PlainOK, Holders
  <2>7. QED
    BY <1>2, <1>3, <1>5, <2>1, <2>3, <2>6 DEF PlainOK, Holders
<1>10. QED
  BY <1>6, <1>7, <1>8, <1>9 DEF IInv

\* gc_lua closes the number of its object, and ends the object's life.
LEMMA FinaliseEndIInv ==
    ASSUME IInv, Next, FinaliseEnd
    PROVE  IInv'
<1> DEFINE s == G!Top.sock
           m == fd[s]
<1>1. Back("gc")
  BY DEF FinaliseEnd
<1>2. /\ Len(stack) \in 1..Len(stack) /\ s = stack[Len(stack)].sock /\ s \in Sock
      /\ Len(calls') = Len(stack')
      /\ calls' \in Seq(PendingCall) /\ 1..Len(stack') \subseteq 1..Len(stack)
      /\ \A i \in 1..Len(stack') : stack'[i] = stack[i] /\ calls'[i] = calls[i]
      /\ \A i \in 1..Len(stack') : i # Len(stack)
      /\ \A i \in 1..Len(stack) : stack[i].sock \in Sock
      /\ UNCHANGED head
  BY <1>1, BackFacts, Types DEF IInv
<1>3. /\ tab' = [k \in Fd |-> IF k = m THEN 0 ELSE tab[k]]
      /\ life' = [life EXCEPT ![s] = "finalised"]
      /\ UNCHANGED <<setup, fd, opened, own, raw>>
  BY DEF FinaliseEnd, KernelClose
<1>4. life[s] # "none" /\ head[s] = DONE
  BY <1>2 DEF IInv, PendingOK
<1>5. \A t \in Sock : life'[t] = IF t = s THEN "finalised" ELSE life[t]
  BY <1>3 DEF IInv, TypeOK
<1>6. m = fd[s]
  OBVIOUS
<1> HIDE DEF s, m
<1>7. TypeOK'
  <2>1. G!TypeOK'
    BY GcfnTypes DEF IInv
  <2>2. tab' \in [Fd -> 0..opened]
    <3>1. opened \in Nat /\ tab \in [Fd -> 0..opened]
      BY Numbers DEF IInv
    <3>2. QED
      BY <1>3, <3>1
  <2>3. QED
    BY <1>2, <1>3, <2>1, <2>2 DEF IInv, TypeOK, PendingCall
<1>8. OwnersOK'
  <2>1. \A k, j \in Fd : tab'[k] = tab'[j] /\ tab'[k] # 0 => k = j
    BY <1>3 DEF IInv, OwnersOK
  <2>2. ASSUME NEW k \in Fd, tab'[k] # 0
        PROVE  tab'[k] \in raw' \/ \E t \in Holders(k)' : own'[t] = tab'[k]
    <3>1. k # m /\ tab'[k] = tab[k]
      BY <1>3, <2>2
    <3>2. Holders(k)' = Holders(k)
      BY <1>3, <1>5, <1>6, <3>1 DEF Holders
    <3>3. QED
      BY <1>3, <2>2, <3>1, <3>2 DEF IInv, OwnersOK
  <2>3. QED
    BY <1>3, <2>1, <2>2 DEF IInv, OwnersOK
<1>9. PendingOK' /\ NotReentered' /\ ClosedIsDone'
  <2>1. PendingOK'
    BY <1>2, <1>3, <1>5 DEF IInv, PendingOK
  <2>2. NotReentered'
    BY <1>2, <1>3 DEF IInv, NotReentered
  <2>3. ClosedIsDone'
    BY <1>2, <1>3, <1>4, <1>5 DEF IInv, ClosedIsDone, GivenUp
  <2>4. QED
    BY <2>1, <2>2, <2>3
<1>10. PlainOK'
  <2> SUFFICES ASSUME setup.mode = "plain" PROVE PlainOK'
    BY <1>3 DEF PlainOK
  <2>1. PlainOK /\ NotReentered
    BY DEF IInv
  <2>2. life[s] = "live"
    BY <1>2, <2>1 DEF PlainOK
  <2>3. \A i \in 1..Len(stack') : stack[i].sock # s
    BY <1>2, <2>1 DEF NotReentered
  <2>4. \A t \in Sock : life[t] = "live" /\ t # s /\ fd[t] # NoFd => fd[t] # m
    BY <1>2, <1>6, <2>1, <2>2 DEF PlainOK, Holders
  <2>5. \A t \in Sock : fd[t] \in Fd \cup {NoFd}
    BY DEF IInv, TypeOK
  <2>6. \A t \in Sock : life'[t] = "live" /\ fd[t] # NoFd =>
           /\ tab'[fd[t]] = own[t] /\ own[t] \notin raw
           /\ \A u \in Sock : life'[u] = "live" /\ fd[u] = fd[t] => u = t
    BY <1>3, <1>5, <2>1, <2>4, <2>5 DEF PlainOK, Holders
  <2>7. QED
    BY <1>2, <1>3, <1>5, <2>1, <2>3, <2>6 DEF PlainOK, Holders
<1>11. QED
  BY <1>7, <1>8, <1>9, <1>10 DEF IInv

\* unwrap_lua hands its object's descriptor to the script.
LEMMA UnwrapEndIInv ==
    ASSUME IInv, Next, UnwrapEnd
    PROVE  IInv'
<1> DEFINE s == G!Top.sock
<1>1. Back("unwrap")
  BY DEF UnwrapEnd
<1>2. /\ Len(stack) \in 1..Len(stack) /\ s = stack[Len(stack)].sock /\ s \in Sock
      /\ Len(calls') = Len(stack')
      /\ calls' \in Seq(PendingCall) /\ 1..Len(stack') \subseteq 1..Len(stack)
      /\ \A i \in 1..Len(stack') : stack'[i] = stack[i] /\ calls'[i] = calls[i]
      /\ \A i \in 1..Len(stack') : i # Len(stack)
      /\ \A i \in 1..Len(stack) : stack[i].sock \in Sock
      /\ UNCHANGED head
  BY <1>1, BackFacts, Types DEF IInv
<1>3. /\ life' = [life EXCEPT ![s] = "bare"] /\ fd' = [fd EXCEPT ![s] = NoFd]
      /\ raw' = IF fd[s] # NoFd THEN raw \cup {own[s]} ELSE raw
      /\ UNCHANGED <<setup, tab, opened, own>>
  BY DEF UnwrapEnd
<1>4. life[s] # "none" /\ head[s] = DONE
  BY <1>2 DEF IInv, PendingOK
<1> HIDE DEF s
<1>5. \A t \in Sock : /\ life'[t] = IF t = s THEN "bare" ELSE life[t]
                      /\ fd'[t] = IF t = s THEN NoFd ELSE fd[t]
  BY <1>3 DEF IInv, TypeOK
<1>6. TypeOK'
  <2>1. G!TypeOK'
    BY GcfnTypes DEF IInv
  <2>2. raw' \subseteq 1..opened
    <3>1. opened \in Nat /\ own[s] \in 0..opened /\ raw \subseteq 1..opened
      BY <1>2, Numbers DEF IInv
    <3>2. fd[s] # NoFd => own[s] # 0
      BY <1>2 DEF IInv, OwnersOK
    <3>3. raw' \subseteq raw \cup {own[s]} /\ (fd[s] = NoFd => raw' = raw)
      BY <1>3
    <3>4. CASE fd[s] = NoFd
      BY <3>1, <3>3, <3>4
    <3>5. CASE fd[s] # NoFd
      <4>1. own[s] \in 1..opened
        BY <3>1, <3>2, <3>5
      <4>2. QED
        BY <3>1, <3>3, <4>1
    <3>6. QED
      BY <3>4, <3>5
  <2>3. QED
    BY <1>2, <1>3, <2>1, <2>2 DEF IInv, TypeOK, PendingCall
<1>7. OwnersOK'
  <2>1. ASSUME NEW k \in Fd, tab'[k] # 0
        PROVE  tab'[k] \in raw' \/ \E t \in Holders(k)' : own'[t] = tab'[k]
    <3>1. tab[k] \in raw \/ \E t \in Holders(k) : own[t] = tab[k]
      BY <1>3, <2>1 DEF IInv, OwnersOK
    <3>2. CASE tab[k] \in raw
      BY <1>3, <3>2
    <3>3. ASSUME NEW t \in Holders(k), own[t] = tab[k]
          PROVE  tab'[k] \in raw' \/ \E u \in Holders(k)' : own'[u] = tab'[k]
      <4>1. CASE t = s
        BY <1>3, <3>3, <4>1, FdAssumption DEF Holders
      <4>2. CASE t # s
        BY <1>3, <1>5, <3>3, <4>2 DEF Holders
      <4>3. QED
        BY <4>1, <4>2
    <3>4. QED
      BY <3>1, <3>2, <3>3
  <2>2. QED
    BY <1>3, <1>5, <2>1 DEF IInv, OwnersOK
<1>8. PendingOK' /\ NotReentered' /\ ClosedIsDone'
  <2>1. PendingOK'
    BY <1>2, <1>3, <1>5 DEF IInv, PendingOK
  <2>2. NotReentered'
    BY <1>2, <1>3 DEF IInv, NotReentered
  <2>3. ClosedIsDone'
    BY <1>2, <1>3, <1>4, <1>5 DEF IInv, ClosedIsDone, GivenUp
  <2>4. QED
    BY <2>1, <2>2, <2>3
<1>9. PlainOK'
  <2> SUFFICES ASSUME setup.mode = "plain" PROVE PlainOK'
    BY <1>3 DEF PlainOK
  <2>1. PlainOK /\ NotReentered
    BY DEF IInv
  <2>2. life[s] = "live"
    BY <1>2, <2>1 DEF PlainOK
  <2>3. \A i \in 1..Len(stack') : stack[i].sock # s
    BY <1>2, <2>1 DEF NotReentered
  <2>4. ASSUME NEW t \in Sock, life[t] = "live", t # s, fd[t] # NoFd
        PROVE  own[t] \notin raw'
    <3>1. CASE fd[s] = NoFd
      BY <1>3, <2>1, <2>4, <3>1 DEF PlainOK
    <3>2. CASE fd[s] # NoFd
      <4>1. fd[t] \in Fd /\ fd[s] \in Fd /\ fd[t] # fd[s]
        BY <1>2, <2>1, <2>2, <2>4, <3>2 DEF PlainOK, Holders, IInv, TypeOK
      <4>2. tab[fd[t]] = own[t] /\ tab[fd[s]] = own[s] /\ own[t] # 0
        BY <1>2, <2>1, <2>2, <2>4, <3>2 DEF PlainOK, IInv, OwnersOK
      <4>3. own[t] # own[s] /\ own[t] \notin raw
        BY <2>1, <2>4, <4>1, <4>2 DEF PlainOK, IInv, OwnersOK
      <4>4. QED
        BY <1>3, <4>3
    <3>3. QED
      BY <3>1, <3>2
  <2>5. \A t \in Sock : life'[t] = "live" /\ fd'[t] # NoFd =>
           /\ tab'[fd'[t]] = own[t] /\ own[t] \notin raw'
           /\ \A u \in Sock : life'[u] = "live" /\ fd'[u] = fd'[t] => u = t
    BY <1>3, <1>5, <2>1, <2>4 DEF PlainOK, Holders
  <2>6. QED
    BY <1>2, <1>3, <1>5, <2>1, <2>3, <2>5 DEF PlainOK, Holders
<1>10. QED
  BY <1>6, <1>7, <1>8, <1>9 DEF IInv
-----------------------------------------------------------------------------
(* The theorems.                                                           *)

\* Every step keeps the invariant, whatever scripts pass to delgcfn.
LEMMA NextIInv == IInv /\ [Next]_vars => IInv'
<1> SUFFICES ASSUME IInv, [Next]_vars PROVE IInv'
  OBVIOUS
<1>1. CASE UNCHANGED vars
  <2>1. G!TypeOK'
    BY <1>1 DEF IInv, TypeOK, G!TypeOK, vars, gcfnVars
  <2>2. UNCHANGED <<head, stack, setup, fd, life, calls, tab, opened, own, raw>>
    BY <1>1 DEF vars, gcfnVars, sockVars
  <2>3. TypeOK'
    BY <2>1, <2>2 DEF IInv, TypeOK
  <2>4. OwnersOK' /\ PlainOK' /\ ClosedIsDone'
    BY <2>2 DEF IInv, OwnersOK, PlainOK, ClosedIsDone, GivenUp, Holders
  <2>5. PendingOK' /\ NotReentered'
    BY <2>2 DEF IInv, PendingOK, NotReentered
  <2>6. QED
    BY <2>3, <2>4, <2>5 DEF IInv
<1> SUFFICES ASSUME Next PROVE IInv'
  BY <1>1
<1>2. ASSUME NEW s \in Sock, NEW n \in Fd, New(s, n) PROVE IInv'
  BY <1>2, NewObjectIInv DEF New
<1>3. ASSUME NEW s \in Sock, NEW n \in Fd, Wrap(s, n) PROVE IInv'
  BY <1>3, WrapIInv
<1>4. ASSUME NEW s \in Sock, NEW n \in Fd, AcceptFd(s, n) \/ RecvFd(s, n) PROVE IInv'
  BY <1>4, AcceptFdIInv DEF RecvFd
<1>5. ASSUME NEW s \in Sock, NEW t \in Sock, NEW n \in Fd, NEW m \in Fd, Pair(s, t, n, m)
      PROVE  IInv'
  BY <1>5, PairIInv
<1>6. ASSUME NEW s \in Sock, NEW n \in Fd, NEW m \in Fd, PairFails(s, n, m) PROVE IInv'
  BY <1>6, PairFailsIInv
<1>7. ASSUME NEW s \in Sock, NEW t \in Sock, NEW n \in Fd, Accept(s, t, n) \/ Dup(s, t, n)
      PROVE  IInv'
  BY <1>7, NewObjectIInv DEF Accept, Dup, Derive
<1>8. ASSUME NEW n \in Fd, CloseFd(n) PROVE IInv'
  BY <1>8, CloseFdIInv
<1>9. ASSUME NEW s \in Sock, NEW g \in Fn, AddGcfn(s, g) \/ DelGcfn(s, g) PROVE IInv'
  BY <1>9, ListIInv
<1>10. ASSUME NEW s \in Sock, Close(s) PROVE IInv'
  BY <1>10, EnterIInv DEF Close, MayTearDown, Usable
<1>11. ASSUME NEW s \in Sock, Unwrap(s) PROVE IInv'
  BY <1>11, EnterIInv DEF Unwrap, MayTearDown, Usable
<1>12. ASSUME NEW s \in Sock, Finalise(s) PROVE IInv'
  BY <1>12, EnterIInv DEF Finalise
<1>13. ASSUME NEW s \in Sock, FinaliseClosed(s) PROVE IInv'
  BY <1>13, FinaliseClosedIInv
<1>14. CASE CloseEnd
  BY <1>14, CloseEndIInv
<1>15. CASE FinaliseEnd
  BY <1>15, FinaliseEndIInv
<1>16. CASE UnwrapEnd
  BY <1>16, UnwrapEndIInv
<1>17. CASE Walk \/ UdfReturn
  BY <1>17, WalkIInv
<1>18. ASSUME NEW g \in Fn, Collect(g) PROVE IInv'
  BY <1>18, CollectIInv
<1>19. QED
  BY <1>2, <1>3, <1>4, <1>5, <1>6, <1>7, <1>8, <1>9, <1>10, <1>11, <1>12, <1>13,
     <1>14, <1>15, <1>16, <1>17, <1>18 DEF Next

\* The inductive invariant holds in every reachable state.
THEOREM Inductive == Spec => []IInv
BY InitIInv, NextIInv, PTL DEF Spec

\* Every variable keeps its type, whatever scripts do.
THEOREM TypeCorrect == Spec => []TypeOK
<1>1. IInv => TypeOK
  BY DEF IInv
<1>2. QED
  BY <1>1, Inductive, PTL

\* Every descriptor that is open belongs to a living object or to the script, also
\* when UDFs close their own socket, and when pair fails half-way.
THEOREM NothingLeaks == Spec => []NoLeak
<1>1. IInv => NoLeak
  BY DEF IInv, OwnersOK, NoLeak
<1>2. QED
  BY <1>1, Inductive, PTL

\* In a plain run nobody else will close the descriptor of an object.
THEOREM OneParty == Spec => []OneInCharge
<1>1. IInv => OneInCharge
  <2> SUFFICES ASSUME IInv, setup.mode = "plain"
      PROVE  /\ \A n \in Fd, s, t \in Sock :
                   {s, t} \subseteq Holders(n) => s = t /\ tab[n] \notin raw
             /\ \A s \in Sock : life[s] = "live" /\ fd[s] # NoFd => tab[fd[s]] = own[s]
    BY DEF OneInCharge
  <2>1. PlainOK
    BY DEF IInv
  <2>2. ASSUME NEW n \in Fd, NEW s \in Sock, NEW t \in Sock, {s, t} \subseteq Holders(n)
        PROVE  s = t /\ tab[n] \notin raw
    <3>1. life[s] = "live" /\ fd[s] = n /\ n # NoFd /\ t \in Holders(fd[s])
      BY <2>2, FdAssumption DEF Holders
    <3>2. QED
      BY <2>1, <3>1 DEF PlainOK
  <2>3. QED
    BY <2>1, <2>2 DEF PlainOK
<1>2. QED
  BY <1>1, Inductive, PTL

\* In a plain run the close(2) at the end of close_lua hits the object's descriptor.
THEOREM CloseIsRight == Spec => []CloseHitsOwn
<1>1. IInv => CloseHitsOwn
  <2> SUFFICES ASSUME IInv, setup.mode = "plain",
                      NEW i \in 1..Len(calls), calls[i].op = "close"
               PROVE  tab[calls[i].fd] = own[stack[i].sock]
    BY DEF CloseHitsOwn
  <2>1. i \in 1..Len(stack) /\ stack[i].sock \in Sock
    BY Types DEF IInv
  <2>2. QED
    BY <2>1 DEF IInv, PlainOK
<1>2. QED
  BY <1>1, Inductive, PTL

\* No function can be added to an object that has given up its descriptor.
THEOREM GivenUpIsDone == Spec => []ClosedIsDone
<1>1. IInv => ClosedIsDone
  BY DEF IInv
<1>2. QED
  BY <1>1, Inductive, PTL

\* What Gcfn_proofs proves of the lists holds of Socket.
LEMMA ListsInductive ==
    ASSUME ~ForeignDel
    PROVE  Spec => []P!IInv
<1>1. P!Spec => []P!IInv
  BY P!Inductive, ValuesAssumption
<1>2. Init => P!Init
  BY SameInit DEF Init
<1>3. [Next]_vars => [P!Next]_(P!vars)
  BY WalksOfGcfn, SameNext DEF vars, gcfnVars, P!vars
<1>4. QED
  BY <1>1, <1>2, <1>3, PTL DEF Spec, P!Spec

\* A function of an object that has given up its descriptor is on the way of a walk,
\* when handles are passed only to their own socket.
THEOREM NobodyStranded ==
    ASSUME ~ForeignDel
    PROVE  Spec => []NoneStranded
<1>1. P!IInv /\ IInv => NoneStranded
  <2> SUFFICES ASSUME P!IInv, IInv, NEW s \in Sock, GivenUp(s), NEW g \in G!Registered(s)
               PROVE  \E i \in 1..Len(stack) :
                         stack[i].sock = s /\ stack[i].cur \in G!Registered(s)
    BY DEF NoneStranded
  <2>1. head[s] = DONE
    BY DEF IInv, ClosedIsDone
  <2>2. g \in Fn /\ ref[g] /\ owner[g] = s
    BY DEF G!Registered
  <2>3. PICK a \in G!Registered(s) : P!StartsAt(s, a)
    BY <2>2 DEF P!IInv, P!NoneLost, P!Registered, G!Registered
  <2>4. a # DONE
    BY ValuesAssumption DEF G!Registered, G!ValuesAssumption
  <2>5. QED
    BY <2>1, <2>3, <2>4 DEF P!StartsAt
<1>2. QED
  BY <1>1, ListsInductive, Inductive, PTL

\* The end of a call whose socket has no UDF running.
LEMMA EndsUncalled ==
    ASSUME P!IInv, IInv, NEW op, Back(op), ~UdfRuns(G!Top.sock)
    PROVE  G!Registered(G!Top.sock) = {}
<1>1. /\ Len(stack) \in 1..Len(stack) /\ Len(stack) \in Nat
      /\ G!Top.sock = stack[Len(stack)].sock
      /\ stack[Len(stack)].cur = NULL
  BY BackFacts DEF Back, G!FinishWalk, G!Top
<1>2. P!Outermost(Len(stack))
  <2>1. \A j \in 1..(Len(stack) - 1) : j \in 1..Len(stack) /\ j < Len(stack)
    BY <1>1
  <2>2. \A j \in 1..(Len(stack) - 1) : stack[j].udf
    BY <2>1 DEF P!IInv, P!WalksOK
  <2>3. QED
    BY <1>1, <2>1, <2>2 DEF UdfRuns, P!Outermost
<1>3. P!AllCalledAtEnd
  BY P!IInvCallsAll, ValuesAssumption
<1>4. QED
  BY <1>1, <1>2, <1>3 DEF P!AllCalledAtEnd, P!Registered, G!Registered

\* Only the ends of close, unwrap and __gc let go of a descriptor.
LEMMA EndsLetGo ==
    ASSUME IInv, Next, NEW s \in Sock, LetsGo(s)
    PROVE  s = G!Top.sock /\ \E op \in {"close", "gc", "unwrap"} : Back(op)
<1>1. /\ fd \in [Sock -> Fd \cup {NoFd}]
      /\ Len(calls) \in Nat
  BY Types DEF IInv, TypeOK
<1>2. ASSUME NEW op, Back(op), StepOf(s)
      PROVE  s = G!Top.sock
  <2>1. Len(calls') = Len(stack') /\ 1..Len(stack') \subseteq 1..Len(stack)
        /\ (\A i \in 1..Len(stack') : i # Len(stack)) /\ Len(calls') = Len(calls) - 1
    BY <1>1, <1>2, BackFacts, Shortened, Types DEF IInv, Back, G!FinishWalk
  <2>2. QED
    BY <1>1, <1>2, <2>1 DEF StepOf
<1>3. CASE CloseEnd
  <2>1. Back("close") /\ fd' = [fd EXCEPT ![G!Top.sock] = NoFd]
    BY <1>3 DEF CloseEnd
  <2>2. QED
    BY <1>1, <1>2, <2>1 DEF LetsGo
<1>4. CASE UnwrapEnd
  <2>1. Back("unwrap") /\ fd' = [fd EXCEPT ![G!Top.sock] = NoFd]
    BY <1>4 DEF UnwrapEnd
  <2>2. QED
    BY <1>1, <1>2, <2>1 DEF LetsGo
<1>5. CASE FinaliseEnd
  <2>1. Back("gc") /\ fd' = fd
    BY <1>5 DEF FinaliseEnd
  <2>2. QED
    BY <1>2, <2>1 DEF LetsGo
<1>6. ASSUME NEW t \in Sock, Close(t) \/ Unwrap(t) \/ Finalise(t)
      PROVE  FALSE
  BY <1>6 DEF Close, Unwrap, Finalise, Enter, LetsGo
<1>7. ASSUME ~CloseEnd, ~UnwrapEnd, ~FinaliseEnd,
             \A t \in Sock : ~(Close(t) \/ Unwrap(t) \/ Finalise(t))
      PROVE  FALSE
  <2>1. calls' = calls
    BY <1>7 DEF Next, New, Wrap, AcceptFd, RecvFd, Pair, PairFails, Accept, Dup,
       Derive, CloseFd, AddGcfn, DelGcfn, FinaliseClosed, Walk, UdfReturn, Collect, sockVars
  <2>2. UNCHANGED fd \/ \A t \in Sock : fd'[t] \in {fd[t]} \cup Fd
    BY <1>1, <1>7 DEF Next, New, Wrap, AcceptFd, RecvFd, Pair, PairFails, Accept, Dup,
       Derive, Attach, CloseFd, AddGcfn, DelGcfn, FinaliseClosed, Walk, UdfReturn,
       Collect, sockVars
  <2>3. QED
    BY <1>1, <2>1, <2>2, FdAssumption DEF LetsGo, StepOf
<1>8. QED
  BY <1>3, <1>4, <1>5, <1>6, <1>7

\* When a call of close, unwrap or __gc lets go of a descriptor, in any setup, each
\* function of its object was called or deleted, unless one of them makes the call;
\* handles are passed only to their own socket.
THEOREM FunctionsGoFirst ==
    ASSUME ~ForeignDel
    PROVE  Spec => TeardownAfterUdfs
<1> DEFINE UdfsGone == \A s \in Sock : LetsGo(s) /\ ~UdfRuns(s) => G!Registered(s) = {}
<1>1. P!IInv /\ IInv /\ [Next]_vars => [UdfsGone]_vars
  <2> SUFFICES ASSUME P!IInv, IInv, Next, NEW s \in Sock, LetsGo(s), ~UdfRuns(s)
               PROVE  G!Registered(s) = {}
    OBVIOUS
  <2>1. QED
    BY EndsLetGo, EndsUncalled
<1>2. QED
  BY <1>1, ListsInductive, Inductive, PTL DEF Spec, TeardownAfterUdfs
=============================================================================
