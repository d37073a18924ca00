------------------------------- MODULE Stream -------------------------------
(***************************************************************************)
(* One direction of a connected pair of llsocket.sockets: the results of   *)
(* the send and receive methods of socket.c, the kernel's queue between    *)
(* them, and two scripts that use the results as doc/socket.md says: the   *)
(* sender repeats a call with what is left while `again' is true, the      *)
(* receiver repeats until all return values are nil (closed by the peer).  *)
(* A setup fixes the messages to send: data, a part of a file, a message   *)
(* with or without an iovec and with a list of descriptors (cmsghdr.c), or *)
(* a single descriptor.                                                    *)
(***************************************************************************)
EXTENDS Integers, SequencesExt

CONSTANTS
    Setups,         \* the sockets, builds and scripts to look at
    Cap,            \* bytes the kernel queues
    BufSize,        \* bytes a receive call asks for
    File,           \* bytes of the file that sendfile sends from
    Slots,          \* descriptors the receiver lays out a control list for
    INT             \* 2^32: what lua_pushboolean keeps of its argument

\* n bytes by send, sendto or write; of a file; by sendmsg with a list of
\* descriptors; or the one descriptor of sendfd, with the byte it travels with.
IsMessage(m) ==
    /\ Len(m.fds) =< Slots
    /\ \/ m.kind \in {"data", "file"} /\ m.n > 0 /\ m.fds = <<>>
       \/ m.kind = "msg"
       \/ m.kind = "fd" /\ m.n = 1 /\ Len(m.fds) = 1

\* The socket type; what the sender sends, one message after the other; the
\* method the receiver calls; HAVE_SENDFILE: sendfile(2), or pread and send.
IsSetup(su) ==
    /\ su.type \in {"stream", "dgram", "seqpacket"}
    /\ su.plan \in Seq([kind : {"data", "file", "msg", "fd"}, n : Nat, fds : Seq(Nat)])
    /\ \A i \in DOMAIN su.plan : IsMessage(su.plan[i])
    /\ su.reader \in {"recv", "recvmsg", "recvfd"}
    /\ su.sendfile \in BOOLEAN
    \* Descriptors without a byte of data do not travel on a stream; recvfd has
    \* room for one; recv tells nothing but an empty datagram from the end.
    /\ \A i \in DOMAIN su.plan :
          /\ su.plan[i].n = 0 /\ su.type = "stream" => su.plan[i].fds = <<>>
          /\ su.plan[i].n = 0 /\ su.type = "seqpacket" =>
                su.plan[i].fds # <<>> /\ su.reader # "recv"
          /\ su.reader = "recvfd" => Len(su.plan[i].fds) =< 1

ASSUME SetupAssumption ==
    /\ \A su \in Setups : IsSetup(su)
    /\ Slots \in Nat /\ File \in Nat /\ Cap \in Nat \ {0} /\ BufSize \in Nat \ {0} /\ INT \in Nat \ {0}

VARIABLES
    setup,          \* the setup of this run
    at,             \* the message of Plan being sent
    rest,           \* what is left of it, as far as the script knows
    taken,          \* bytes of data the kernel accepted
    failed,         \* a send method returned an error, and the script gave up
    shut,           \* the sender has closed its socket
    reset,          \* the connection was reset; the receiver was told
    queue,          \* the kernel's queue: segments of a stream, or records
    got,            \* what the receive methods returned: bytes of data
    fds,            \* and descriptors
    last            \* the last result of the receive method

sender == <<at, rest, taken, failed, shut>>
receiver == <<got, fds, last>>
vars == <<setup, sender, reset, queue, receiver>>

Type == setup.type
Plan == setup.plan
Reader == setup.reader
HaveSendfile == setup.sendfile

Sending == at =< Len(Plan) /\ ~failed
Receiving == last \in {"nothing", "value", "again"}
Connected == Receiving /\ reset = "no"

Record == Type # "stream"
SizeOf(i) == IF i =< Len(Plan) THEN Plan[i].n ELSE 0

\* Lengths and amounts of data of the first messages of a plan or a queue.
Total(s) == LET sum[i \in 0..Len(s)] == IF i = 0 THEN 0 ELSE sum[i - 1] + s[i].n
            IN sum
Queued == Total(queue)[Len(queue)]

Init ==
    /\ setup \in Setups
    /\ at = 1 /\ rest = SizeOf(1)
    /\ taken = 0 /\ failed = FALSE /\ shut = FALSE
    /\ reset = "no"
    /\ queue = <<>>
    /\ got = 0 /\ fds = <<>>
    /\ last = "nothing"

-----------------------------------------------------------------------------
\* The return value of a system call: a length, or -1 and errno.
Ok(n) == [n |-> n, errno |-> "none"]
Fails(e) == [n |-> 0, errno |-> e]
Again(rv) == rv.errno \in {"EAGAIN", "EINTR"}   \* EWOULDBLOCK is EAGAIN
Fatal(rv) == rv.errno \in {"EPIPE", "ECONNRESET"}

\* Mutants of SendResult: a partial send is taken for a complete one; -1 is
\* returned as the length.
SendResult_partialIsAll(rv, asked) ==
    [len |-> rv.n, err |-> Fatal(rv), again |-> Again(rv)]
SendResult_minusOne(rv, asked) ==
    CASE Again(rv) -> [len |-> 0 - 1, err |-> FALSE, again |-> TRUE]
      [] Fatal(rv) -> [len |-> 0, err |-> TRUE, again |-> FALSE]
      [] OTHER     -> [len |-> rv.n, err |-> FALSE, again |-> rv.n # asked]

\* The values (len, err, again) that send_lua, sendto_lua, sendmsg_lua and
\* write_lua return for rv, when `asked' bytes were to be sent.
SendResult(rv, asked) ==
    CASE Again(rv) -> [len |-> 0, err |-> FALSE, again |-> TRUE]
      [] Fatal(rv) -> [len |-> 0, err |-> TRUE, again |-> FALSE]
      [] OTHER     -> [len |-> rv.n, err |-> FALSE,
                       again |-> (asked - rv.n) % INT # 0]

\* Mutant of SendFdResult: again is len - rv, as in the other methods.
SendFdResult_lenMinusRv(rv) ==
    [len |-> 0, err |-> Fatal(rv), again |-> ~Fatal(rv)]

\* And sendfd_lua: neither the length nor, on success, again.
SendFdResult(rv) == [len |-> 0, err |-> Fatal(rv), again |-> Again(rv)]

\* What the script does with the result: go on, give up, or repeat.
React(res) ==
    /\ failed' = res.err
    /\ IF res.again \/ res.err
       THEN at' = at /\ rest' = rest - res.len
       ELSE at' = at + 1 /\ rest' = SizeOf(at + 1)

\* The kernel: an interrupt, no memory, no peer, or some bytes taken (a record
\* is taken whole).
Room(n) == Queued + n =< Cap
Refused ==
    {Fails("EINTR"), Fails("EAGAIN")}
    \cup (IF ~Connected THEN {Fails("EPIPE")} ELSE {})
Least(a, b) == IF a < b THEN a ELSE b
Accepted(asked) ==
    {Ok(n) : n \in {n \in 0..asked : Connected /\ Room(n)
                                     /\ (Record \/ n = 0 => n = asked)}}

\* Bytes without descriptors join those before them; on a stream, none are
\* queued when there are none.
Enqueue(n, rights) ==
    LET q == Len(queue) IN
    queue' = IF ~Record /\ n = 0 THEN queue
             ELSE IF ~Record /\ q > 0 /\ rights = <<>> /\ queue[q].rights = <<>>
             THEN [queue EXCEPT ![q].n = @ + n]
             ELSE Append(queue, [n |-> n, rights |-> rights])
Taking(rv, rights) ==
    IF rv.errno = "none"
    THEN Enqueue(rv.n, rights) /\ taken' = taken + rv.n
    ELSE UNCHANGED <<queue, taken>>

\* cmsghdr.rights(...): the bytes of the descriptors, four each, one after the
\* other; a byte is named by the descriptor it is of.
Rights(f) == [b \in 1..4 * Len(f) |-> f[(b + 3) \div 4]]

\* h:data() of such a header: four bytes each make a descriptor again.
Data(bytes) == [i \in 1..Len(bytes) \div 4 |-> bytes[4 * i]]

\* s:send(), sendto() and write().
Send(rv) == React(SendResult(rv, rest)) /\ Taking(rv, <<>>)

\* s:sendmsg(mh); the script takes the control list off mh once a part was sent.
SendMsg(rv) ==
    /\ React(SendResult(rv, rest))
    /\ Taking(rv, IF rest = SizeOf(at) THEN Rights(Plan[at].fds) ELSE <<>>)

\* s:sendfd(fd): the descriptor travels with one byte, iov_data.
SendFd(rv) ==
    /\ React(SendFdResult(rv))
    /\ Taking(rv, Rights(Plan[at].fds))

\* s:sendfile(fd, bytes, offset), the script passing on the offset of what is
\* left.  Linux: sendfile(2) returns 0 at the end of the file.
InFile == IF File > SizeOf(at) - rest THEN File - (SizeOf(at) - rest) ELSE 0
AtEof == IF InFile = 0 THEN {Ok(0)} ELSE {}

SendFileResult(rv, asked) ==
    CASE Again(rv) -> [len |-> 0, err |-> FALSE, again |-> TRUE]
      [] Fatal(rv) -> [len |-> 0, err |-> TRUE, again |-> FALSE]
      [] OTHER     -> [len |-> rv.n, err |-> FALSE, again |-> rv.n # asked]

\* Elsewhere: at the end of the file, pread returns 0 and nothing is sent.
PreadSendResult(rv, asked) ==
    IF rv = Ok(0) THEN [len |-> 0, err |-> FALSE, again |-> FALSE]
    ELSE SendResult(rv, asked)

SendFile(rv) ==
    /\ React(IF HaveSendfile THEN SendFileResult(rv, rest)
             ELSE PreadSendResult(rv, rest))
    /\ IF rv = Ok(0) THEN UNCHANGED <<queue, taken>> ELSE Taking(rv, <<>>)

SendStep ==
    /\ Sending
    /\ CASE Plan[at].kind = "data" -> \E rv \in Accepted(rest) \cup Refused : Send(rv)
         [] Plan[at].kind = "msg" -> \E rv \in Accepted(rest) \cup Refused : SendMsg(rv)
         [] Plan[at].kind = "file" ->
              \E rv \in AtEof \cup (Accepted(Least(rest, InFile)) \ {Ok(0)}) \cup Refused :
                 SendFile(rv)
         [] Plan[at].kind = "fd" -> \E rv \in Accepted(1) \cup Refused : SendFd(rv)
    /\ UNCHANGED <<setup, shut, reset, receiver>>

\* The script is through and closes its socket.
SenderClose ==
    /\ ~Sending /\ ~shut
    /\ shut' = TRUE
    /\ UNCHANGED <<setup, at, rest, taken, failed, reset, queue, receiver>>

\* The network resets the connection; what is queued is lost.
Reset ==
    /\ reset = "no" /\ ~shut /\ Type # "dgram"
    /\ reset' = "untold"
    /\ queue' = <<>>
    /\ UNCHANGED <<setup, sender, receiver>>

-----------------------------------------------------------------------------
\* Mutants of RecvResult: a short read is thrown away; 0 is no end.
RecvResult_shortIsAgain(rv) ==
    IF Fatal(rv) THEN "error"
    ELSE IF rv = Ok(0) /\ Type # "dgram" THEN "closed"
    ELSE IF Again(rv) \/ rv.n < BufSize THEN "again" ELSE "value"
RecvResult_neverClosed(rv) ==
    CASE Again(rv) -> "again" [] Fatal(rv) -> "error" [] OTHER -> "value"

\* The result of recv_lua, recvfrom_lua and read_lua for what the system
\* call returned: a value, all nil ("closed"), again, or an error.
RecvResult(rv) ==
    IF Again(rv) THEN "again"
    ELSE IF Fatal(rv) THEN "error"
    ELSE IF rv.n = 0 /\ Type # "dgram" THEN "closed" ELSE "value"

\* Mutant of RecvMsgResult: an empty datagram is taken for the end.
RecvMsgResult_anyType(rv, came) ==
    IF Again(rv) THEN "again" ELSE IF Fatal(rv) THEN "error"
    ELSE IF ~came /\ rv.n = 0 THEN "closed" ELSE "value"

\* recvmsg_lua with an iovec and a control list laid out: what came with control
\* messages is no end, also without data.
RecvMsgResult(rv, came) ==
    IF Again(rv) THEN "again"
    ELSE IF Fatal(rv) THEN "error"
    ELSE IF ~came /\ rv.n = 0 /\ Type # "dgram" THEN "closed" ELSE "value"

\* recvfd_lua: what comes without a descriptor is thrown away.
RecvFdResult(rv, came) ==
    IF Again(rv) THEN "again"
    ELSE IF Fatal(rv) THEN "error"
    ELSE IF came THEN "value"
    ELSE IF rv.n = 0 /\ Type # "dgram" THEN "closed" ELSE "again"

\* The return values of the system call when it takes nothing off the queue.
Closed == shut /\ queue = <<>> /\ Type # "dgram" /\ reset = "no"
Untaken ==
    {Fails("EINTR")}
    \cup (IF reset = "untold" THEN {Fails("ECONNRESET")} ELSE {})
    \cup (IF Closed \/ reset = "told" THEN {Ok(0)} ELSE {})
    \cup (IF queue = <<>> /\ reset = "no" /\ ~Closed THEN {Fails("EAGAIN")} ELSE {})
Told(rv) == reset' = IF Fatal(rv) THEN "told" ELSE reset

\* And when it takes some of the first segment, or the first record.
Taken(size) ==
    IF queue = <<>> THEN {}
    ELSE IF Record THEN {Least(queue[1].n, size)}
    ELSE {n \in 1..size : n =< queue[1].n}
Dequeue(n) ==
    IF Record \/ queue[1].n = n THEN queue' = Tail(queue)
    ELSE queue' = [queue EXCEPT ![1] = [n |-> @.n - n, rights |-> <<>>]]

\* The script lays out a list of as many -1 as it wants descriptors; recvmsg
\* writes over it only when some came, and the script shifts the list empty.
Laid == Rights([i \in 1..Slots |-> -1])
Came(rights) ==
    LET list == Data(IF rights = <<>> THEN Laid ELSE rights)
    IN FlattenSeq([i \in 1..Len(list) |-> IF list[i] = -1 THEN <<>> ELSE <<list[i]>>])

Result(rv, came) ==
    IF Reader = "recvmsg" THEN RecvMsgResult(rv, came) ELSE RecvResult(rv)

\* s:recv(), recvfrom(), read() and recvmsg().
Recv ==
    /\ \/ \E rv \in Untaken :
             /\ last' = Result(rv, FALSE)
             /\ Told(rv)
             /\ UNCHANGED <<queue, got, fds>>
       \/ \E n \in Taken(BufSize) :
             /\ last' = Result(Ok(n), queue[1].rights # <<>>)
             /\ got' = IF last' = "value" THEN got + n ELSE got
             /\ fds' = IF Reader = "recvmsg" /\ last' = "value"
                       THEN fds \o Came(queue[1].rights) ELSE fds
             /\ Dequeue(n)
             /\ UNCHANGED reset

\* s:recvfd(), which asks for one byte of data.
RecvFd ==
    /\ \/ \E rv \in Untaken :
             /\ last' = RecvFdResult(rv, FALSE)
             /\ Told(rv)
             /\ UNCHANGED <<queue, fds>>
       \/ \E n \in Taken(1) :
             /\ last' = RecvFdResult(Ok(n), queue[1].rights # <<>>)
             /\ fds' = IF last' = "value" THEN Append(fds, queue[1].rights[1]) ELSE fds
             /\ Dequeue(n)
             /\ UNCHANGED reset
    /\ UNCHANGED got

RecvStep ==
    /\ Receiving
    /\ \/ Reader # "recvfd" /\ Recv
       \/ Reader = "recvfd" /\ RecvFd
    /\ UNCHANGED <<setup, sender>>

Next == SendStep \/ SenderClose \/ Reset \/ RecvStep

Spec == Init /\ [][Next]_vars

\* The scripts repeat their calls, and the kernel does not interrupt a call
\* for ever.
FairSpec ==
    /\ Spec
    /\ WF_vars(SenderClose)
    /\ SF_vars(SendStep /\ (at' # at \/ rest' # rest \/ failed'))
    /\ SF_vars(RecvStep /\ (last' # "again" \/ queue' # queue))
-----------------------------------------------------------------------------
\* Every variable keeps its type.
TypeOK ==
    /\ setup \in Setups
    /\ at \in 1..Len(Plan) + 1 /\ rest \in 0..SizeOf(at) /\ taken \in Nat
    /\ failed \in BOOLEAN /\ shut \in BOOLEAN
    /\ reset \in {"no", "untold", "told"}
    /\ queue \in Seq([n : Nat, rights : Seq(Nat)]) /\ Queued =< Cap
    /\ got \in Nat /\ fds \in Seq(Nat)
    /\ last \in {"nothing", "value", "again", "closed", "error"}

\* The sender knows what the kernel has: (len, err, again) tell it to repeat
\* the call with exactly the bytes that were not taken, and to go on with the
\* next message ("again: true if len != #msg") when there are none.
SenderInStep == taken = Total(Plan)[at - 1] + SizeOf(at) - rest

\* No byte that the kernel took is lost or returned twice by recv, recvfrom,
\* read or recvmsg.
NoByteLost == Reader # "recvfd" /\ reset = "no" => got + Queued = taken

\* The receive methods say "close by peer" (all return values nil) only after
\* the peer has closed, and everything it has sent was received.
ClosedByPeer == last = "closed" => shut /\ queue = <<>> /\ reset = "no"

\* The descriptors that sendmsg and sendfd reported as sent, or sent with the
\* first bytes of a message, are the ones that recvmsg and recvfd have returned,
\* in that order and once, and those still queued: none is lost when a call is
\* repeated, when it returns a part, or with a record that has no data.
Sent == IF rest < SizeOf(at) THEN at ELSE at - 1
Planned(k) == FlattenSeq([i \in 1..k |-> Plan[i].fds])
Carried(q) == FlattenSeq([i \in 1..Len(q) |-> Data(q[i].rights)])
FdsInOrder ==
    Reader # "recv" /\ reset = "no" => fds \o Carried(queue) = Planned(Sent)

\* The loops of both scripts end, the receiver's at the end of the connection
\* (datagrams have none).
BothEnd == <>(~Sending) /\ <>(~Receiving \/ Type = "dgram")
-----------------------------------------------------------------------------
(* The inductive invariant of the proofs. *)

\* A descriptor is sent with its byte or not at all; and only of an empty message
\* is nothing left that still has to be sent.
SendingOK ==
    at =< Len(Plan) =>
       /\ Plan[at].kind = "fd" => rest = 1
       /\ rest = 0 => Plan[at].n = 0

\* On a stream no segment is empty, and no empty record looks like the end.
QueueOK ==
    \A i \in 1..Len(queue) : queue[i].n = 0 =>
       /\ Record
       /\ Type = "seqpacket" => queue[i].rights # <<>> /\ Reader # "recv"

IInv ==
    /\ TypeOK /\ SendingOK /\ QueueOK /\ ClosedByPeer
    /\ shut => ~Sending
    /\ reset = "told" => last = "error"

\* What the theorems about amounts take for granted.  SenderInStep: no message has
\* 2^32 bytes or more, and, where sendfile is built of pread and send, the file is
\* long enough.  NoByteLost: a record is not longer than the buffer it is received
\* with (the kernel cuts off the rest).
Small ==
    \A su \in Setups : \A i \in 1..Len(su.plan) :
       /\ su.plan[i].n < INT
       /\ su.plan[i].kind = "file" /\ ~su.sendfile => su.plan[i].n =< File
Fits ==
    \A su \in Setups : su.type # "stream" /\ su.reader # "recvfd" =>
       \A i \in 1..Len(su.plan) : su.plan[i].n =< BufSize

\* The records that recv and recvmsg take from have room in the receiver's buffer.
RecordsFit ==
    Record /\ Reader # "recvfd" => \A i \in 1..Len(queue) : queue[i].n =< BufSize

\* What is queued with bytes are whole descriptors, one at most where recvfd is used.
RightsOK ==
    \A i \in 1..Len(queue) :
       /\ queue[i].rights = Rights(Data(queue[i].rights))
       /\ Reader = "recvfd" => Len(Data(queue[i].rights)) =< 1
=============================================================================
