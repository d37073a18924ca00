------------------------------ MODULE CmsgHdrs ------------------------------
(***************************************************************************)
(* llsocket.cmsghdrs (cmsghdrs.c): control messages laid out one after the *)
(* other in one buffer, as sendmsg(2) and recvmsg(2) want them.  push lays *)
(* out at the end and grows the buffer; shift takes the first and moves the*)
(* rest down; recvmsg_lua (socket.c) lets the kernel write over the laid   *)
(* out part and takes over the length the kernel reports.                  *)
(*                                                                         *)
(* The contents of the buffer is the set of the messages that are intact in*)
(* it, each with its offset: a write destroys what it overlaps, and what   *)
(* lies beyond the length is forgotten, for nobody may read it.            *)
(***************************************************************************)
EXTENDS Integers, Sequences, FiniteSets

CONSTANTS
    Msg,            \* control messages: level, type and data of a cmsghdr
    Size,           \* the data bytes of each
    HDR,            \* CMSG_LEN(0)
    ALIGN,          \* what CMSG_SPACE rounds up to
    WORD,           \* 2^64: size_t arithmetic wraps around
    MaxLen          \* bound: bytes laid out in a run

ASSUME LayoutAssumption ==
    /\ Size \in [Msg -> Nat]
    /\ ALIGN \in Nat \ {0} /\ HDR \in Nat \ {0} /\ HDR % ALIGN = 0
    /\ MaxLen \in Nat /\ WORD \in Nat /\ MaxLen < WORD

VARIABLES
    data,           \* the messages intact in data
    bytes,          \* the size of data
    len,            \* how much of it is laid out
    out,            \* what the last call of shift returned
    fresh, got      \* history: the messages a recvmsg delivered just now

vars == <<data, bytes, len, out, fresh, got>>

CMSG_LEN(n) == HDR + n
CMSG_SPACE(n) == HDR + ((n + ALIGN - 1) \div ALIGN) * ALIGN

End(d) == d.off + CMSG_LEN(d.n)
Apart(d, e) == End(d) =< e.off \/ End(e) =< d.off

\* The messages new written over those of old, in `size' bytes of memory.
Over(old, new, size) ==
    {d \in old : \A e \in new : Apart(d, e)} \cup {e \in new : End(e) =< size}

Init ==
    /\ data = {}
    /\ bytes = 0
    /\ len = 0
    /\ out = <<>>
    /\ fresh = FALSE /\ got = <<>>

-----------------------------------------------------------------------------
\* Mutant of Grown: the buffer grows one push too late.
Grown_late(new) == IF len > bytes THEN new ELSE bytes

\* The size of the buffer into which `new' bytes are to be laid out.
Grown(new) == IF new > bytes THEN new ELSE bytes

\* cmsgs:push(m).
Push(m) ==
    LET new == len + CMSG_SPACE(Size[m]) IN
    /\ new =< MaxLen
    /\ bytes' = Grown(new)
    /\ data' = Over({d \in data : End(d) =< len},
                    {[off |-> len, msg |-> m, n |-> Size[m]]}, bytes')
    /\ len' = new
    /\ fresh' = FALSE
    /\ UNCHANGED <<out, got>>

\* CMSG_FIRSTHDR: there is a first header if there is room for one.
First == CHOOSE d \in data : d.off = 0

\* Mutant of Removed: without the padding behind the data.
Removed_unpadded(n) == CMSG_LEN(n)

\* The bytes a message with n bytes of data takes away with it.
Removed(n) == CMSG_SPACE(n)

\* Mutant of Moved: memmove from the first message on.
Moved_all(gone, rest) == {[d EXCEPT !.off = @ - gone] : d \in data}

\* memmove of the `rest' bytes behind the first `gone'.
Moved(gone, rest) ==
    {[d EXCEPT !.off = @ - gone] :
        d \in {d \in data : d.off >= gone /\ End(d) =< gone + rest}}

\* cmsgs:shift().
Shift ==
    /\ len >= HDR
    /\ LET gone == Removed(First.n) IN
       /\ out' = <<[msg |-> First.msg, n |-> First.n]>>
       /\ len' = (len - gone) % WORD
       /\ data' = Moved(gone, len')
    /\ fresh' = FALSE
    /\ UNCHANGED <<bytes, got>>

ShiftNothing ==
    /\ len < HDR
    /\ out' = <<>>
    /\ fresh' = FALSE
    /\ UNCHANGED <<data, bytes, len, got>>

-----------------------------------------------------------------------------
\* The kernel's put_cmsg with `room' bytes left: without room for a header it
\* writes nothing, else as much of the data as there is room for.
NoLess(a, b) == IF a < b THEN b ELSE a
NoMore(a, b) == IF a > b THEN b ELSE a
Left(m, room) ==
    IF room < HDR THEN room ELSE NoLess(room - CMSG_SPACE(Size[m]), 0)
Rooms(ms, room) ==
    LET left[k \in 0..Len(ms)] ==
          IF k = 0 THEN room ELSE Left(ms[k], left[k - 1])
    IN left

\* What the kernel writes of the messages ms.
Delivered(ms, room) ==
    LET left == Rooms(ms, room)
        Put(k) == [off |-> room - left[k - 1], msg |-> ms[k],
                   n |-> NoMore(Size[ms[k]], left[k - 1] - HDR)]
        Count == Cardinality({k \in 1..Len(ms) : left[k - 1] >= HDR})
    IN [k \in 1..Count |-> Put(k)]

\* Mutant of NewLen: the length is left to the next push or shift.
NewLen_kept(controllen) == len

\* cmsghdrs.len after a recvmsg(2) that left data.msg_controllen.
NewLen(controllen) == IF controllen # 0 THEN controllen ELSE len

\* sock:recvmsg(mh) of data that comes with the control messages ms.  The
\* kernel may write as much as is laid out; an empty list is not passed to it.
RecvMsg(ms) ==
    LET d == Delivered(ms, len)
        controllen == len - Rooms(ms, len)[Len(ms)]
    IN /\ len > 0
       /\ len' = NewLen(controllen)
       /\ data' = {e \in Over(data, {d[k] : k \in DOMAIN d}, bytes) : End(e) =< len'}
       /\ fresh' = TRUE
       /\ got' = [k \in DOMAIN d |-> [msg |-> d[k].msg, n |-> d[k].n]]
       /\ UNCHANGED <<bytes, out>>

Next ==
    \/ \E m \in Msg : Push(m)
    \/ Shift \/ ShiftNothing
    \/ \E k \in 0..2 : \E ms \in [1..k -> Msg] : RecvMsg(ms)

Spec == Init /\ [][Next]_vars
-----------------------------------------------------------------------------
Item == [msg : Msg, n : Nat]

\* Every variable keeps its type.
TypeOK ==
    /\ data \subseteq [off : Nat, msg : Msg, n : Nat]
    /\ bytes \in Nat /\ len \in Nat
    /\ out \in Seq(Item) /\ Len(out) =< 1
    /\ fresh \in BOOLEAN /\ got \in Seq(Item)

\* The offsets CMSG_FIRSTHDR and CMSG_NXTHDR visit lead from one intact message to
\* the next, without a gap, and to the end of what is laid out, which is in the
\* buffer: sendmsg passes a well-formed list to the kernel, and neither
\* `cmsg->len -= CMSG_SPACE(len)' can wrap around nor memmove read beyond it.
WellFormed ==
    /\ len =< bytes
    /\ \A d \in data : End(d) =< len
    /\ \A o \in {0} \cup {d.off + CMSG_SPACE(d.n) : d \in data} :
          o = len \/ \E d \in data : d.off = o
    /\ \A d, e \in data : d # e => Apart(d, e)

\* The list as sendmsg will send it and shift return it, front to back.
Items ==
    LET from[o \in 0..len] ==
          IF \E d \in data : d.off = o
          THEN LET d == CHOOSE d \in data : d.off = o
                   e == d.off + CMSG_SPACE(d.n)
               IN <<[msg |-> d.msg, n |-> d.n]>> \o IF e =< len THEN from[e] ELSE <<>>
          ELSE <<>>
    IN from[0]

\* cmsghdrs.c implements the queue of module CmsgQueue.
Queue == INSTANCE CmsgQueue WITH q <- Items
ImplementsQueue == Queue!Spec

\* When control messages came, the list holds those and nothing else: what the
\* list held before, and made room for them, cannot be mistaken for them.  (When
\* none came it still holds what it held, and a script cannot tell.)
HoldsWhatCame == fresh /\ got # <<>> => Items = got
=============================================================================
