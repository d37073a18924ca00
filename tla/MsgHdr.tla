------------------------------- MODULE MsgHdr -------------------------------
(***************************************************************************)
(* llsocket.msghdr (msghdr.c): a header that sendmsg_lua and recvmsg_lua   *)
(* (socket.c) pass on to the kernel.  Its three parts (an address, an      *)
(* iovec, a list of control messages) are other userdata: the header holds *)
(* a registry reference to each, and next to it a bare pointer, the only   *)
(* one of the two that sendmsg and recvmsg look at.  The Lua collector     *)
(* frees an object that neither a script nor the registry holds.           *)
(*                                                                         *)
(* An addrinfo holds a pointer, ai_addr, to its sockaddr.  As msg_name the *)
(* kernel is given the place of that pointer, not the sockaddr: recvmsg    *)
(* writes the sender's address over the pointer.                           *)
(***************************************************************************)
EXTENDS FiniteSets

CONSTANTS
    Header,         \* the msghdr objects
    Addr, Iov, Ctl, \* the objects to be set with name(), iov() and control()
    NULL            \* the null pointer and LUA_NOREF

ASSUME PartsAssumption ==
    /\ NULL \notin Addr \cup Iov \cup Ctl
    /\ Addr \cap Iov = {} /\ Iov \cap Ctl = {} /\ Addr \cap Ctl = {}

VARIABLES
    ref,            \* name_ref, iov_ref and control_ref of each header
    ptr,            \* name, iov and control of each header
    held,           \* the objects the script holds
    freed,          \* the objects the collector has freed
    spoiled         \* the addrinfo objects whose ai_addr was overwritten

vars == <<ref, ptr, held, freed, spoiled>>

Obj == Addr \cup Iov \cup Ctl
Part == {"name", "iov", "control"}
Fits == [name |-> Addr, iov |-> Iov, control |-> Ctl]

Init ==
    /\ ref = [h \in Header |-> [p \in Part |-> NULL]]
    /\ ptr = [h \in Header |-> [p \in Part |-> NULL]]
    /\ held = Obj
    /\ freed = {}
    /\ spoiled = {}

-----------------------------------------------------------------------------
\* What the script can pass to a method: nil, or an object it holds.
Arg(p) == {NULL} \cup (held \cap Fits[p])

\* The previous object is returned, so that the script holds it again.
SetRef(h, p, o) ==
    /\ ref' = [ref EXCEPT ![h][p] = o]
    /\ held' = held \cup ({ref[h][p]} \ {NULL})

\* Mutant of SetControl: nil releases the reference and keeps the pointer.
SetControl_keepsPtr(h, o) ==
    /\ SetRef(h, "control", o)
    /\ ptr' = [ptr EXCEPT ![h].control = IF o # NULL THEN o ELSE @]
    /\ UNCHANGED <<freed, spoiled>>

\* Mutant of SetName: it sets the pointer of another part.
SetName_wrongPart(h, o) ==
    /\ SetRef(h, "name", o)
    /\ ptr' = [ptr EXCEPT ![h].iov = o]
    /\ UNCHANGED <<freed, spoiled>>

\* h:control(o) and h:name(o): release the old object, take the new one.
SetControl(h, o) ==
    /\ SetRef(h, "control", o)
    /\ ptr' = [ptr EXCEPT ![h].control = o]
    /\ UNCHANGED <<freed, spoiled>>

SetName(h, o) ==
    /\ SetRef(h, "name", o)
    /\ ptr' = [ptr EXCEPT ![h].name = o]
    /\ UNCHANGED <<freed, spoiled>>

\* h:iov(o): as it is written, it is `name' that is reset to NULL.
SetIov(h, o) ==
    /\ SetRef(h, "iov", o)
    /\ ptr' = [ptr EXCEPT ![h].name = NULL,
                          ![h].iov = IF o # NULL THEN o ELSE @]
    /\ UNCHANGED <<freed, spoiled>>

\* Without an argument the three methods find the object they have pushed
\* themselves where the argument would be, and set it once more.
Get(h) ==
    \/ SetControl(h, ref[h].control)
    \/ SetName(h, ref[h].name)
    \/ SetIov(h, ref[h].iov)

Set(h) ==
    \/ \E o \in Arg("control") : SetControl(h, o)
    \/ \E o \in Arg("name") : SetName(h, o)
    \/ \E o \in Arg("iov") : SetIov(h, o)

\* s:recvmsg(h) that receives a message with a source address: the kernel
\* stores it in &ai_addr.  (s:sendmsg(h) hands the kernel the bytes of the
\* pointer as the destination, and changes nothing.)
RecvMsg(h) ==
    /\ ptr[h].name # NULL
    /\ spoiled' = spoiled \cup {ptr[h].name}
    /\ UNCHANGED <<ref, ptr, held, freed>>

\* The script drops an object; the collector frees one that nobody holds.
Drop(o) ==
    /\ o \in held
    /\ held' = held \ {o}
    /\ UNCHANGED <<ref, ptr, freed, spoiled>>

\* __gc of a header that nobody uses any more, and a new one in its place.
Renew(h) ==
    /\ ref' = [ref EXCEPT ![h] = [p \in Part |-> NULL]]
    /\ ptr' = [ptr EXCEPT ![h] = [p \in Part |-> NULL]]
    /\ UNCHANGED <<held, freed, spoiled>>

Referenced == {ref[h][p] : h \in Header, p \in Part}
Collect(o) ==
    /\ o \notin held \cup Referenced \cup freed
    /\ freed' = freed \cup {o}
    /\ UNCHANGED <<ref, ptr, held, spoiled>>

Next ==
    \/ \E h \in Header : Set(h) \/ Get(h) \/ RecvMsg(h) \/ Renew(h)
    \/ \E o \in Obj : Drop(o) \/ Collect(o)

Spec == Init /\ [][Next]_vars
-----------------------------------------------------------------------------
\* Every variable keeps its type.
TypeOK ==
    /\ ref \in [Header -> [Part -> Obj \cup {NULL}]]
    /\ ptr \in [Header -> [Part -> Obj \cup {NULL}]]
    /\ \A h \in Header, p \in Part :
          ref[h][p] \in Fits[p] \cup {NULL} /\ ptr[h][p] \in Fits[p] \cup {NULL}
    /\ held \subseteq Obj /\ freed \subseteq Obj /\ held \cap freed = {}
    /\ spoiled \subseteq Addr

\* The address and the control messages that sendmsg and recvmsg will use have
\* not been freed, whoever else dropped them.
Alive(p) == \A h \in Header : ptr[h][p] \notin freed
NameAndControlAlive == Alive("name") /\ Alive("control")

\* sendmsg and recvmsg use the list of control messages that control() returns,
\* or none if that is nil, and never an address that was replaced or removed: it
\* is the one name() returns, or none (iov() takes it away, see SetIov).  The
\* iovec is not so: see IovRemoved.
NameAndControlAsSet ==
    \A h \in Header :
       /\ ptr[h].control = ref[h].control
       /\ ptr[h].name \in {ref[h].name, NULL}

\* "if argument is nil, the associated iovec will be removed": no header goes on
\* using an iovec after h:iov(nil).
IovRemoved == \A h \in Header : ref[h].iov = NULL => ptr[h].iov = NULL

\* name() returns the "previous llsocket.addrinfo object", and an addrinfo is
\* never changed once it is made: no receive spoils an address that the script
\* can still get at.
AddressesIntact == spoiled \cap (held \cup {ref[h].name : h \in Header}) = {}

\* The inductive invariant: the registry keeps its objects from the collector.
ReferencedAlive == \A h \in Header, p \in Part : ref[h][p] \notin freed
IInv == TypeOK /\ NameAndControlAsSet /\ ReferencedAlive
=============================================================================
