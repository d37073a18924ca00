------------------------------- MODULE Socket -------------------------------
(***************************************************************************)
(* Life of the descriptors behind llsocket.socket objects: the constructors*)
(* (new, pair, wrap, accept, dup), the raw descriptors a script holds      *)
(* (acceptfd, recvfd, unwrap), and the three ways an object lets go of its *)
(* descriptor (close, __gc, unwrap), each of which first calls the         *)
(* functions of its gcfn list: module Gcfn, instantiated as G.             *)
(*                                                                         *)
(* `calls' runs parallel to G's `stack': it is what the C function around  *)
(* each call_gcfn will do when call_gcfn is back.                          *)
(***************************************************************************)
EXTENDS Naturals, Sequences

CONSTANTS
    Sock, Fn, NULL, DONE, ForeignDel,   \* see Gcfn
    Fd,             \* the descriptor numbers of the process
    NoFd,           \* -1
    Setups          \* what may happen in a run, and a bound on it

\* "reenter": a UDF may close or unwrap the socket it belongs to; "pairfails":
\* fcntl(2) may fail in pair.  maxopen: descriptors opened in a run.
ASSUME FdAssumption ==
    /\ Fd \subseteq Nat /\ NoFd \notin Fd
    /\ Setups \subseteq [mode : {"plain", "reenter", "pairfails"}, maxopen : Nat]

VARIABLES
    head, ref, prev, next, mem, stack, owner, stamp, clock, called,  \* Gcfn
    setup,          \* the setup of this run
    fd,             \* lls_socket_t.fd
    life,           \* what the Lua object is
    calls,          \* the pending part of close_lua, gc_lua and unwrap_lua
    tab,            \* the kernel's table: which opening a number refers to
    opened,         \* how many descriptors were opened
    own,            \* history: the opening an object was made for
    raw             \* history: the openings the script must close itself

gcfnVars == <<head, ref, prev, next, mem, stack, owner, stamp, clock, called>>
G == INSTANCE Gcfn

\* The values differ as Gcfn assumes.
ASSUME ValuesAssumption == G!ValuesAssumption

sockVars == <<setup, fd, life, calls, tab, opened, own, raw>>
vars == <<gcfnVars, sockVars>>

Init ==
    /\ G!Init
    /\ setup \in Setups
    /\ fd = [s \in Sock |-> NoFd]
    /\ life = [s \in Sock |-> "none"]
    /\ calls = <<>>
    /\ tab = [n \in Fd |-> 0]
    /\ opened = 0
    /\ own = [s \in Sock |-> 0]
    /\ raw = {}

-----------------------------------------------------------------------------
InCall(s) == \E i \in 1..Len(stack) : stack[i].sock = s

\* The script can call a method of s: it is an object with its metatable.  A UDF
\* may also call one of the socket whose __gc has called it: lua_close finalises
\* objects that are still reachable.
Usable(s) == G!ScriptRuns /\ life[s] = "live"

\* The script may let go of s.
MayTearDown(s) == Usable(s) /\ (InCall(s) => setup.mode = "reenter")

\* A system call opens the number n, the lowest that is free.
Lowest(n, used) == \A k \in Fd : k < n => tab[k] # 0 \/ k \in used
Opens(n) ==
    /\ opened < setup.maxopen
    /\ tab[n] = 0 /\ Lowest(n, {})
    /\ tab' = [tab EXCEPT ![n] = opened + 1]
    /\ opened' = opened + 1

\* A new object s takes charge of the opening `id' at number n.
Unused(s) == life[s] = "none" /\ s = CHOOSE t \in Sock : life[t] = "none"
Attach(s, n, id) ==
    /\ Unused(s)
    /\ fd' = [fd EXCEPT ![s] = n]
    /\ own' = [own EXCEPT ![s] = id]
    /\ life' = [life EXCEPT ![s] = "live"]

\* socket.new(): with a failing socket() or fcntl() nothing stays open.
New(s, n) ==
    /\ G!ScriptRuns
    /\ Opens(n)
    /\ Attach(s, n, opened + 1)
    /\ UNCHANGED <<gcfnVars, setup, calls, raw>>

\* socket.pair(): both descriptors, then, one by one, their flags and objects.
Pair(s, t, n, m) ==
    /\ G!ScriptRuns
    /\ s # t /\ n < m
    /\ opened + 2 =< setup.maxopen
    /\ tab[n] = 0 /\ tab[m] = 0 /\ Lowest(n, {}) /\ Lowest(m, {n})
    /\ Unused(s) /\ life[t] = "none"
    /\ tab' = [tab EXCEPT ![n] = opened + 1, ![m] = opened + 2]
    /\ opened' = opened + 2
    /\ fd' = [fd EXCEPT ![s] = n, ![t] = m]
    /\ own' = [own EXCEPT ![s] = opened + 1, ![t] = opened + 2]
    /\ life' = [life EXCEPT ![s] = "live", ![t] = "live"]
    /\ UNCHANGED <<gcfnVars, setup, calls, raw>>

\* The flags of the second descriptor cannot be set: pair_lua closes both, with
\* an object of the first made already, which nobody will ever hold.
PairFails(s, n, m) ==
    /\ G!ScriptRuns /\ setup.mode = "pairfails"
    /\ n < m
    /\ opened + 2 =< setup.maxopen
    /\ tab[n] = 0 /\ tab[m] = 0 /\ Lowest(n, {}) /\ Lowest(m, {n})
    /\ Unused(s)
    /\ opened' = opened + 2
    /\ fd' = [fd EXCEPT ![s] = n]
    /\ own' = [own EXCEPT ![s] = opened + 1]
    /\ life' = [life EXCEPT ![s] = "lost"]
    /\ UNCHANGED <<gcfnVars, setup, calls, tab, raw>>

\* Mutant of Derive: the new object gets the number of the old one.
Derive_sameFd(s, t, n) ==
    /\ Usable(s)
    /\ fd[s] # NoFd /\ tab[fd[s]] # 0
    /\ tab[n] = 0
    /\ Attach(t, fd[s], tab[fd[s]])
    /\ UNCHANGED <<gcfnVars, setup, calls, tab, opened, raw>>

\* s:accept() and s:dup(): a system call on s's descriptor opens another one
\* for a new object t.  On a closed s the call fails and changes nothing.
Derive(s, t, n) ==
    /\ Usable(s)
    /\ fd[s] # NoFd /\ tab[fd[s]] # 0
    /\ Opens(n)
    /\ Attach(t, n, opened + 1)
    /\ UNCHANGED <<gcfnVars, setup, calls, raw>>

Accept(s, t, n) == Derive(s, t, n)
Dup(s, t, n) == Derive(s, t, n)

\* s:acceptfd(): the new descriptor goes to the script as a number.
AcceptFd(s, n) ==
    /\ Usable(s)
    /\ fd[s] # NoFd /\ tab[fd[s]] # 0
    /\ Opens(n)
    /\ raw' = raw \cup {opened + 1}
    /\ UNCHANGED <<gcfnVars, setup, fd, life, calls, own>>

\* s:recvfd(): and so does one that came in a message.
RecvFd(s, n) == AcceptFd(s, n)

\* socket.wrap(n) of a descriptor the script holds; it fails, and leaves the
\* number with the script, when n is not an open socket.
Wrap(s, n) ==
    /\ G!ScriptRuns
    /\ tab[n] \in raw
    /\ Attach(s, n, tab[n])
    /\ raw' = raw \ {tab[n]}
    /\ UNCHANGED <<gcfnVars, setup, calls, tab, opened>>

\* socket.close(n) of a descriptor the script holds.
CloseFd(n) ==
    /\ G!ScriptRuns
    /\ tab[n] \in raw
    /\ tab' = [tab EXCEPT ![n] = 0]
    /\ raw' = raw \ {tab[n]}
    /\ UNCHANGED <<gcfnVars, setup, fd, life, calls, opened, own>>

\* s:addgcfn() and s:delgcfn(), as Gcfn has them.
AddGcfn(s, g) == Usable(s) /\ G!AddGcfn(s, g) /\ UNCHANGED sockVars
DelGcfn(s, g) == Usable(s) /\ G!DelGcfn(s, g) /\ UNCHANGED sockVars

-----------------------------------------------------------------------------
\* Mutant of Enter: call_gcfn takes the list and does not mark the socket DONE.
Enter_unmarked(s, op) ==
    /\ G!ScriptRuns
    /\ stack' = Append(stack, [sock |-> s, cur |-> head[s], nxt |-> NULL,
                               udf |-> FALSE])
    /\ calls' = Append(calls, [op |-> op, fd |-> fd[s]])
    /\ head' = [head EXCEPT ![s] = NULL]
    /\ UNCHANGED <<ref, prev, next, mem, owner, stamp, clock, called>>
    /\ UNCHANGED <<setup, fd, life, tab, opened, own, raw>>

\* The call of call_gcfn, with what its caller keeps in a local variable.
Enter(s, op) ==
    /\ G!StartWalk(s)
    /\ calls' = Append(calls, [op |-> op, fd |-> fd[s]])
    /\ UNCHANGED <<setup, fd, life, tab, opened, own, raw>>

\* Mutant of KernelClose: closefd returns when shutdown(2) has failed.
KernelClose_skipped(n) == UNCHANGED tab

\* close(2): of a number that is not open it fails with EBADF.
KernelClose(n) == tab' = [k \in Fd |-> IF k = n THEN 0 ELSE tab[k]]

\* close_lua up to call_gcfn; it saves s->fd, and returns at once if it is -1.
Close(s) == MayTearDown(s) /\ fd[s] # NoFd /\ Enter(s, "close")

\* unwrap_lua up to call_gcfn; it looks at neither fd nor list.
Unwrap(s) == MayTearDown(s) /\ Enter(s, "unwrap")

\* Mutant of Finalise: gc_lua closes the descriptor before it calls the UDFs.
Finalise_closesFirst(s) ==
    /\ G!ScriptRuns
    /\ life[s] \in {"live", "lost"} /\ ~InCall(s)
    /\ fd[s] # NoFd
    /\ G!StartWalk(s)
    /\ calls' = Append(calls, [op |-> "gc", fd |-> fd[s]])
    /\ KernelClose(fd[s])
    /\ UNCHANGED <<setup, fd, life, opened, own, raw>>

\* gc_lua up to call_gcfn, once the object is unreachable or the Lua state is
\* closed: no method of it is on the stack.  A closed object has nothing to do.
Finalise(s) ==
    /\ G!ScriptRuns
    /\ life[s] \in {"live", "lost"} /\ ~InCall(s)
    /\ fd[s] # NoFd
    /\ Enter(s, "gc")

FinaliseClosed(s) ==
    /\ G!ScriptRuns
    /\ life[s] = "live" /\ ~InCall(s)
    /\ fd[s] = NoFd
    /\ life' = [life EXCEPT ![s] = "finalised"]
    /\ UNCHANGED <<gcfnVars, setup, fd, calls, tab, opened, own, raw>>

Call == calls[Len(calls)]

\* Mutant of Back: the pending part of the caller is executed once more.
Back_twice(op) ==
    /\ G!FinishWalk
    /\ Call.op = op
    /\ UNCHANGED calls

\* call_gcfn returns to its caller.
Back(op) ==
    /\ G!FinishWalk
    /\ Call.op = op
    /\ calls' = SubSeq(calls, 1, Len(calls) - 1)

\* close_lua after call_gcfn: closefd() of the number saved before the UDFs.
\* An error of shutdown(2) does not keep it from the close(2).
CloseEnd ==
    /\ Back("close")
    /\ fd' = [fd EXCEPT ![G!Top.sock] = NoFd]
    /\ KernelClose(Call.fd)
    /\ UNCHANGED <<setup, life, opened, own, raw>>

\* gc_lua after call_gcfn: it closes s->fd as it is now, and leaves it.
FinaliseEnd ==
    /\ Back("gc")
    /\ KernelClose(fd[G!Top.sock])
    /\ life' = [life EXCEPT ![G!Top.sock] = "finalised"]
    /\ UNCHANGED <<setup, fd, opened, own, raw>>

\* Mutant of UnwrapEnd: the object stays as it is.
UnwrapEnd_keepsFd ==
    LET s == G!Top.sock IN
    /\ Back("unwrap")
    /\ raw' = IF fd[s] # NoFd THEN raw \cup {own[s]} ELSE raw
    /\ UNCHANGED <<setup, fd, life, tab, opened, own>>

\* unwrap_lua after call_gcfn: the object loses its metatable, and the script
\* gets the descriptor.
UnwrapEnd ==
    LET s == G!Top.sock IN
    /\ Back("unwrap")
    /\ life' = [life EXCEPT ![s] = "bare"]
    /\ fd' = [fd EXCEPT ![s] = NoFd]
    /\ raw' = IF fd[s] # NoFd THEN raw \cup {own[s]} ELSE raw
    /\ UNCHANGED <<setup, tab, opened, own>>

Walk == (G!EnterUdf \/ G!SkipDeleted \/ G!VisitSentinel) /\ UNCHANGED sockVars
UdfReturn == G!UdfReturn /\ UNCHANGED sockVars
Collect(g) == G!Collect(g) /\ UNCHANGED sockVars

Next ==
    \/ \E s \in Sock, n \in Fd : New(s, n) \/ Wrap(s, n) \/ AcceptFd(s, n) \/ RecvFd(s, n)
    \/ \E s, t \in Sock, n, m \in Fd : Pair(s, t, n, m)
    \/ \E s \in Sock, n, m \in Fd : PairFails(s, n, m)
    \/ \E s, t \in Sock, n \in Fd : Accept(s, t, n) \/ Dup(s, t, n)
    \/ \E n \in Fd : CloseFd(n)
    \/ \E s \in Sock, g \in Fn : AddGcfn(s, g) \/ DelGcfn(s, g)
    \/ \E s \in Sock : Close(s) \/ Unwrap(s) \/ Finalise(s) \/ FinaliseClosed(s)
    \/ CloseEnd \/ FinaliseEnd \/ UnwrapEnd
    \/ Walk \/ UdfReturn
    \/ \E g \in Fn : Collect(g)

Spec == Init /\ [][Next]_vars

\* C code runs to completion, every UDF is assumed to return in the end.
FairSpec ==
    /\ Spec
    /\ WF_vars(Walk \/ CloseEnd \/ FinaliseEnd \/ UnwrapEnd)
    /\ SF_vars(UdfReturn)
-----------------------------------------------------------------------------
\* Every variable keeps its type.
TypeOK ==
    /\ G!TypeOK
    /\ fd \in [Sock -> Fd \cup {NoFd}]
    /\ life \in [Sock -> {"none", "live", "lost", "bare", "finalised"}]
    /\ calls \in Seq([op : {"close", "gc", "unwrap"}, fd : Fd \cup {NoFd}])
    /\ Len(calls) = Len(stack)
    /\ setup \in Setups /\ opened \in 0..setup.maxopen
    /\ tab \in [Fd -> 0..opened] /\ own \in [Sock -> 0..opened] /\ raw \subseteq 1..opened

\* The objects that will close number n: close, __gc and unwrap end with it.
Holders(n) == {s \in Sock : life[s] = "live" /\ fd[s] = n}

\* No descriptor is lost: what the library opened and nobody closed still
\* belongs to a living object or was handed to the script.
NoLeak == \A n \in Fd : tab[n] # 0 => Holders(n) # {} \/ tab[n] \in raw

\* In a plain run no descriptor has two parties who will close it, and an object
\* that holds a number holds the descriptor it was made for.
OneInCharge == setup.mode = "plain" =>
    /\ \A n \in Fd, s, t \in Sock : {s, t} \subseteq Holders(n) => s = t /\ tab[n] \notin raw
    /\ \A s \in Sock : life[s] = "live" /\ fd[s] # NoFd => tab[fd[s]] = own[s]

\* In a plain run the number that the pending close(2) of close_lua will be
\* called with keeps referring to the socket's own descriptor while the UDFs run.
CloseHitsOwn == setup.mode = "plain" =>
    \A i \in 1..Len(calls) : calls[i].op = "close" =>
       tab[calls[i].fd] = own[stack[i].sock]

\* The object has no descriptor to use or to close any more.
GivenUp(s) == life[s] # "none" /\ (fd[s] = NoFd \/ life[s] = "finalised")

\* A socket gives up its descriptor only after its list was taken: no UDF can be
\* added any more, to an object that nobody will close.
ClosedIsDone == \A s \in Sock : GivenUp(s) => head[s] = DONE

\* A UDF that is still there when its object has given up the descriptor (a UDF
\* has closed or unwrapped its own socket) is not forgotten: the outer call's
\* walk stands at a UDF of the object, and (ListsIntact of Gcfn) goes on to it.
NoneStranded ==
    \A s \in Sock : GivenUp(s) /\ G!Registered(s) # {} =>
       \E i \in 1..Len(stack) : stack[i].sock = s /\ stack[i].cur \in G!Registered(s)

\* A call of close, unwrap or __gc of s begins or ends in this step;
StepOf(s) ==
    \/ Len(calls') > Len(calls) /\ (stack[Len(stack)].sock)' = s
    \/ Len(calls') < Len(calls) /\ G!Top.sock = s
\*   it closes a descriptor, or hands one to the script, or s forgets its number.
LetsGo(s) ==
    \/ StepOf(s) /\ ~UNCHANGED <<tab, raw>>
    \/ fd[s] # NoFd /\ fd'[s] = NoFd
UdfRuns(s) == \E i \in 1..Len(stack) : stack[i].sock = s /\ stack[i].udf

\* When close, unwrap or __gc of an object closes or hands out the descriptor,
\* each UDF of the object was called or deleted before ("called when socket is
\* closed or unwrapped"), unless it is one of these UDFs that makes the call.
TeardownAfterUdfs ==
    [][\A s \in Sock : LetsGo(s) /\ ~UdfRuns(s) => G!Registered(s) = {}]_vars

\* An object whose teardown has begun has given up its descriptor in the end,
\* whatever the UDFs do on the way.
TeardownCompletes ==
    \A s \in Sock : InCall(s) ~> (fd[s] = NoFd \/ life[s] = "finalised")
-----------------------------------------------------------------------------
\* The inductive invariant: what the properties above rest on.
\*   An opening has one number, an object that has a number was made for one, and
\*   each opening still open is with the object made for it, or in raw;
OwnersOK ==
    /\ \A n, m \in Fd : tab[n] = tab[m] /\ tab[n] # 0 => n = m
    /\ \A s \in Sock : fd[s] # NoFd => own[s] # 0
    /\ \A n \in Fd : tab[n] # 0 =>
          tab[n] \in raw \/ \E s \in Holders(n) : own[s] = tab[n]
\*   the socket of a pending call is DONE, and has the number that close_lua has
\*   saved, or none any more;
PendingOK ==
    \A i \in 1..Len(stack) :
       /\ life[stack[i].sock] # "none" /\ head[stack[i].sock] = DONE
       /\ calls[i].op = "close" => fd[stack[i].sock] \in {calls[i].fd, NoFd}
\*   the pending calls are of different sockets, unless UDFs reenter;
NotReentered == setup.mode # "reenter" =>
    \A i, j \in 1..Len(stack) : stack[i].sock = stack[j].sock => i = j
\*   and in a plain run the objects keep their numbers until their call ends.
PlainOK == setup.mode = "plain" =>
    /\ \A s \in Sock : life[s] # "lost"
    /\ \A s \in Sock : life[s] = "live" /\ fd[s] # NoFd =>
          tab[fd[s]] = own[s] /\ own[s] \notin raw /\ \A t \in Holders(fd[s]) : t = s
    /\ \A i \in 1..Len(stack) :
          /\ life[stack[i].sock] = "live"
          /\ calls[i].op = "close" =>
                calls[i].fd = fd[stack[i].sock] /\ calls[i].fd # NoFd

IInv == TypeOK /\ OwnersOK /\ PendingOK /\ NotReentered /\ PlainOK /\ ClosedIsDone
=============================================================================
