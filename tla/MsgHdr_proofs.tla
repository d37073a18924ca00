--------------------------- MODULE MsgHdr_proofs ----------------------------
(***************************************************************************)
(* Proofs about MsgHdr, for any number of headers and objects: the address *)
(* and control pointers are never left to freed memory.                    *)
(***************************************************************************)
EXTENDS MsgHdr, TLAPS

\* Each kind of object fits one part, and NULL is none.
LEMMA Kinds ==
    /\ NULL \notin Obj
    /\ \A p \in Part : Fits[p] \subseteq Obj
    /\ Fits.name = Addr /\ Fits.iov = Iov /\ Fits.control = Ctl
BY PartsAssumption DEF Obj, Part, Fits

\* Setting a part of a header (control(), name() and iov()) to an object that
\* the script or the header itself holds keeps the invariant.
LEMMA SetKeeps ==
    ASSUME IInv, NEW h \in Header, NEW p \in Part,
           NEW o \in Fits[p] \cup {NULL}, o \notin freed,
           \/ p = "control" /\ SetControl(h, o)
           \/ p = "name" /\ SetName(h, o)
           \/ p = "iov" /\ SetIov(h, o)
    PROVE  IInv'
<1>1. /\ ref' = [ref EXCEPT ![h][p] = o]
      /\ held' = held \cup ({ref[h][p]} \ {NULL})
      /\ freed' = freed /\ spoiled' = spoiled
  BY DEF SetControl, SetName, SetIov, SetRef
<1>2. /\ ref \in [Header -> [Part -> Obj \cup {NULL}]]
      /\ ptr \in [Header -> [Part -> Obj \cup {NULL}]]
      /\ \A g \in Header, q \in Part :
            ref[g][q] \in Fits[q] \cup {NULL} /\ ptr[g][q] \in Fits[q] \cup {NULL}
      /\ held \subseteq Obj /\ freed \subseteq Obj /\ held \cap freed = {}
      /\ spoiled \subseteq Addr
  BY DEF IInv, TypeOK
<1>3. \A g \in Header, q \in Part :
         ref'[g][q] = IF g = h /\ q = p THEN o ELSE ref[g][q]
  BY <1>1, <1>2
<1>4. \A g \in Header :
         /\ ptr'[g].control = IF g = h /\ p = "control" THEN o ELSE ptr[g].control
         /\ ptr'[g].name = IF g = h /\ p = "name" THEN o
                           ELSE IF g = h /\ p = "iov" THEN NULL ELSE ptr[g].name
         /\ ptr'[g].iov = IF g = h /\ p = "iov" /\ o # NULL THEN o ELSE ptr[g].iov
  BY <1>2 DEF SetControl, SetName, SetIov, Part
<1>5. ref' \in [Header -> [Part -> Obj \cup {NULL}]]
  BY <1>1, <1>2, Kinds
<1>6. ptr' \in [Header -> [Part -> Obj \cup {NULL}]]
  <2>1. o \in Obj \cup {NULL} /\ NULL \in Obj \cup {NULL}
    BY Kinds
  <2>2. CASE p = "control" /\ SetControl(h, o)
    BY <1>2, <2>1, <2>2 DEF SetControl, Part
  <2>3. CASE p = "name" /\ SetName(h, o)
    BY <1>2, <2>1, <2>3 DEF SetName, Part
  <2>4. CASE p = "iov" /\ SetIov(h, o)
    <3> DEFINE q == [ptr EXCEPT ![h].name = NULL]
    <3>1. q \in [Header -> [Part -> Obj \cup {NULL}]] /\ q[h].iov = ptr[h].iov
      BY <1>2, <2>1 DEF Part
    <3>2. ptr' = [q EXCEPT ![h].iov = IF o # NULL THEN o ELSE q[h].iov]
      BY <1>2, <2>4, <3>1 DEF SetIov, Part
    <3>3. q[h].iov \in Obj \cup {NULL}
      BY <3>1 DEF Part
    <3> HIDE DEF q
    <3>4. QED
      BY <2>1, <3>1, <3>2, <3>3 DEF Part
  <2>5. QED
    BY <2>2, <2>3, <2>4
<1>7. \A g \in Header, q \in Part : ptr'[g][q] \in Fits[q] \cup {NULL}
  <2>1. \A g \in Header : ptr'[g].name \in Fits.name \cup {NULL}
    BY <1>2, <1>4 DEF Part
  <2>2. \A g \in Header : ptr'[g].iov \in Fits.iov \cup {NULL}
    BY <1>2, <1>4 DEF Part
  <2>3. \A g \in Header : ptr'[g].control \in Fits.control \cup {NULL}
    BY <1>2, <1>4 DEF Part
  <2>4. QED
    BY <2>1, <2>2, <2>3 DEF Part
<1>8. held' \subseteq Obj /\ held' \cap freed' = {}
  BY <1>1, <1>2 DEF IInv, ReferencedAlive
<1>9. TypeOK'
  BY <1>1, <1>2, <1>3, <1>5, <1>6, <1>7, <1>8 DEF TypeOK
<1>10. NameAndControlAsSet'
  BY <1>3, <1>4 DEF IInv, NameAndControlAsSet, Part
<1>11. ReferencedAlive'
  BY <1>1, <1>3 DEF IInv, ReferencedAlive
<1>12. QED
  BY <1>9, <1>10, <1>11 DEF IInv

\* The initial state satisfies the invariant: new headers have no parts.
LEMMA InitIInv == Init => IInv
<1> SUFFICES ASSUME Init PROVE IInv
  OBVIOUS
<1>1. TypeOK
  BY DEF Init, TypeOK, Part
<1>2. NameAndControlAsSet /\ ReferencedAlive
  BY DEF Init, NameAndControlAsSet, ReferencedAlive, Part
<1>3. QED
  BY <1>1, <1>2 DEF IInv

\* Every operation, of the script and of the collector, keeps the invariant.
LEMMA NextIInv == IInv /\ [Next]_vars => IInv'
<1> SUFFICES ASSUME IInv, [Next]_vars PROVE IInv'
  OBVIOUS
<1>1. /\ ref \in [Header -> [Part -> Obj \cup {NULL}]]
      /\ ptr \in [Header -> [Part -> Obj \cup {NULL}]]
      /\ \A g \in Header, q \in Part :
            ref[g][q] \in Fits[q] \cup {NULL} /\ ptr[g][q] \in Fits[q] \cup {NULL}
      /\ held \subseteq Obj /\ freed \subseteq Obj /\ held \cap freed = {}
      /\ spoiled \subseteq Addr
      /\ NULL \notin freed
  BY Kinds DEF IInv, TypeOK
<1>2. ASSUME NEW h \in Header, Set(h) PROVE IInv'
  <2>1. \A p \in Part : \A o \in Arg(p) : o \in Fits[p] \cup {NULL} /\ o \notin freed
    BY <1>1 DEF Arg
  <2>2. CASE \E o \in Arg("control") : SetControl(h, o)
    BY <2>1, <2>2, SetKeeps DEF Part
  <2>3. CASE \E o \in Arg("name") : SetName(h, o)
    BY <2>1, <2>3, SetKeeps DEF Part
  <2>4. CASE \E o \in Arg("iov") : SetIov(h, o)
    BY <2>1, <2>4, SetKeeps DEF Part
  <2>5. QED
    BY <1>2, <2>2, <2>3, <2>4 DEF Set
<1>3. ASSUME NEW h \in Header, Get(h) PROVE IInv'
  <2>1. \A p \in Part : ref[h][p] \in Fits[p] \cup {NULL} /\ ref[h][p] \notin freed
    BY <1>1 DEF IInv, ReferencedAlive
  <2>2. CASE SetControl(h, ref[h].control)
    BY <2>1, <2>2, SetKeeps DEF Part
  <2>3. CASE SetName(h, ref[h].name)
    BY <2>1, <2>3, SetKeeps DEF Part
  <2>4. CASE SetIov(h, ref[h].iov)
    BY <2>1, <2>4, SetKeeps DEF Part
  <2>5. QED
    BY <1>3, <2>2, <2>3, <2>4 DEF Get
<1>4. ASSUME NEW h \in Header, Renew(h) PROVE IInv'
  <2>1. \A g \in Header, q \in Part :
           /\ ref'[g][q] = IF g = h THEN NULL ELSE ref[g][q]
           /\ ptr'[g][q] = IF g = h THEN NULL ELSE ptr[g][q]
    BY <1>1, <1>4 DEF Renew
  <2>2. TypeOK'
    BY <1>1, <1>4, <2>1 DEF TypeOK, Renew
  <2>3. NameAndControlAsSet' /\ ReferencedAlive'
    BY <1>1, <1>4, <2>1 DEF IInv, NameAndControlAsSet, ReferencedAlive, Renew, Part
  <2>4. QED
    BY <2>2, <2>3 DEF IInv
<1>5. ASSUME NEW o \in Obj, Drop(o) PROVE IInv'
  BY <1>1, <1>5 DEF IInv, TypeOK, NameAndControlAsSet, ReferencedAlive, Drop
<1>6. ASSUME NEW o \in Obj, Collect(o) PROVE IInv'
  <2>1. \A h \in Header, p \in Part : ref[h][p] # o
    BY <1>6 DEF Collect, Referenced
  <2>2. QED
    BY <1>1, <1>6, <2>1 DEF IInv, TypeOK, NameAndControlAsSet, ReferencedAlive, Collect
<1>7. ASSUME NEW h \in Header, RecvMsg(h) PROVE IInv'
  <2>1. ptr[h].name \in Addr
    BY <1>1, <1>7, Kinds DEF RecvMsg, Part
  <2>2. QED
    BY <1>1, <1>7, <2>1 DEF IInv, TypeOK, NameAndControlAsSet, ReferencedAlive, RecvMsg
<1>8. CASE UNCHANGED vars
  BY <1>8 DEF vars, IInv, TypeOK, NameAndControlAsSet, ReferencedAlive
<1>9. QED
  BY <1>2, <1>3, <1>4, <1>5, <1>6, <1>7, <1>8 DEF Next

\* Every variable keeps its type.
THEOREM TypeCorrect == Spec => []TypeOK
<1>1. IInv => TypeOK
  BY DEF IInv
<1>2. QED
  BY <1>1, InitIInv, NextIInv, PTL DEF Spec

\* No replaced or removed address or control list is used, whatever calls of
\* name(), iov() and control() there were.
THEOREM UsedIsSet == Spec => []NameAndControlAsSet
<1>1. IInv => NameAndControlAsSet
  BY DEF IInv
<1>2. QED
  BY <1>1, InitIInv, NextIInv, PTL DEF Spec

\* The address and control pointers of no header ever dangle, whatever the script
\* drops and whenever the collector runs.
THEOREM PointersAlive == Spec => []NameAndControlAlive
<1>1. IInv => NameAndControlAlive
  BY Kinds DEF IInv, TypeOK, NameAndControlAsSet, ReferencedAlive, NameAndControlAlive,
     Alive, Part
<1>2. QED
  BY <1>1, InitIInv, NextIInv, PTL DEF Spec
=============================================================================
