-------------------------------- MODULE Gcfn --------------------------------
(***************************************************************************)
(* The user-defined close functions ("gc functions", UDFs) of the sockets  *)
(* of one Lua state: gcfn.c and the four places of socket.c that touch the *)
(* list (addgcfn, delgcfn, call_gcfn and its callers).                     *)
(*                                                                         *)
(* A socket heads a doubly linked list of lls_gcfn_t userdata.  Each node  *)
(* is kept alive by the registry reference ref_self until it is deleted;   *)
(* from then on the Lua collector may free it.  call_gcfn replaces the     *)
(* head by the static sentinel GCFN_DONE and walks the detached list.      *)
(* There is one thread, but a UDF is arbitrary Lua: while it runs, every   *)
(* operation may be called again, so `stack' holds the walks in progress,  *)
(* innermost last.                                                         *)
(***************************************************************************)
EXTENDS Naturals, Sequences

CONSTANTS
    Sock,           \* the socket objects
    Fn,             \* the lls_gcfn_t userdata, each allocated at most once
    NULL,           \* the null pointer
    DONE,           \* &GCFN_DONE
    ForeignDel      \* TRUE: a script may pass delgcfn another socket's gcfn

ASSUME ValuesAssumption ==
    /\ NULL \notin Fn \cup {DONE} \cup Sock
    /\ DONE \notin Fn
    /\ ForeignDel \in BOOLEAN

VARIABLES
    head,           \* lls_socket_t.gcfunc
    ref,            \* lls_gcfn_t.ref_self # LUA_NOREF
    prev, next,     \* the links of lls_gcfn_t
    mem,            \* what the allocator knows of a node
    stack,          \* the activations of call_gcfn, innermost last
    \* History, read by no guard except the discipline of DelGcfn:
    owner,          \* the socket a node was added to
    stamp, clock,   \* the order in which the nodes were added
    called          \* the nodes whose UDF has been entered

nodes == <<prev, next, ref>>
history == <<owner, stamp, clock, called>>
vars == <<head, ref, prev, next, mem, stack, owner, stamp, clock, called>>

Node == Fn \cup {DONE}
Ptr  == Node \cup {NULL}

\* One activation of call_gcfn: `cur' is gcfunc, `nxt' the saved next, and
\* `udf' tells whether the lua_pcall of lls_gcfn_call is in progress.
Frame == {f \in [sock : Sock, cur : Ptr, nxt : Ptr, udf : BOOLEAN] :
             f.udf => f.cur \in Fn}

Top == stack[Len(stack)]

\* Lua code executes (the main program or the innermost UDF), so that methods
\* may be called and the collector may run.
ScriptRuns == stack # <<>> => Top.udf

Init ==
    /\ head  = [s \in Sock |-> NULL]
    /\ ref   = [n \in Node |-> n = DONE]    \* GCFN_DONE = {}: ref_self is 0
    /\ prev  = [n \in Node |-> NULL]
    /\ next  = [n \in Node |-> NULL]
    /\ mem   = [n \in Node |-> IF n = DONE THEN "live" ELSE "unused"]
    /\ stack = <<>>
    /\ owner = [n \in Fn |-> NULL]
    /\ stamp = [n \in Fn |-> 0]
    /\ clock = 0
    /\ called = {}

-----------------------------------------------------------------------------
\* Mutants of Unlink: lls_gcfn_del relinks in one direction only.
Unlink_forwardOnly(g) ==
    /\ next' = [n \in Node |-> IF n = prev[g] THEN next[g] ELSE next[n]]
    /\ ref'  = [ref EXCEPT ![g] = FALSE]
    /\ UNCHANGED prev
Unlink_backOnly(g) ==
    /\ prev' = [n \in Node |-> IF n = next[g] THEN prev[g] ELSE prev[n]]
    /\ ref'  = [ref EXCEPT ![g] = FALSE]
    /\ UNCHANGED next

\* lls_gcfn_del of a node that still holds its references.
Unlink(g) ==
    /\ next' = [n \in Node |-> IF n = prev[g] THEN next[g] ELSE next[n]]
    /\ prev' = [n \in Node |-> IF n = next[g] THEN prev[g] ELSE prev[n]]
    /\ ref'  = [ref EXCEPT ![g] = FALSE]

\* lls_gcfn_new, and the linking at the head of s's list.
Link(s, g) ==
    /\ mem[g] = "unused"
    /\ mem'  = [mem EXCEPT ![g] = "live"]
    /\ ref'  = [ref EXCEPT ![g] = TRUE]
    /\ next' = [next EXCEPT ![g] = head[s]]
    /\ prev' = [n \in Node |-> IF n = g THEN NULL
                               ELSE IF n = head[s] THEN g ELSE prev[n]]
    /\ head' = [head EXCEPT ![s] = g]
    /\ owner' = [owner EXCEPT ![g] = s]
    /\ stamp' = [stamp EXCEPT ![g] = clock + 1]
    /\ clock' = clock + 1
    /\ UNCHANGED <<stack, called>>

\* s:addgcfn(); on a socket already DONE it returns EBADF and changes nothing.
\* (Module GcfnAlloc lets the collector run between the test and the linking.)
AddGcfn(s, g) == ScriptRuns /\ head[s] # DONE /\ Link(s, g)

\* Mutant of DelGcfn: it does not look whether the socket is DONE.
DelGcfn_anytime(s, g) ==
    /\ ScriptRuns
    /\ mem[g] = "live"
    /\ ref[g] /\ owner[g] # s => ForeignDel
    /\ head' = [head EXCEPT ![s] = IF @ = g THEN next[g] ELSE @]
    /\ IF ref[g] THEN Unlink(g) ELSE UNCHANGED nodes
    /\ UNCHANGED <<mem, stack, history>>

\* s:delgcfn(g) with a handle the script holds.  The handle may be stale; it
\* belongs to another socket only in the instances that say so.
DelGcfn(s, g) ==
    /\ ScriptRuns
    /\ mem[g] = "live"
    /\ ref[g] /\ owner[g] # s => ForeignDel
    /\ head[s] # DONE
    /\ head' = [head EXCEPT ![s] = IF @ = g THEN next[g] ELSE @]
    /\ IF ref[g] THEN Unlink(g) ELSE UNCHANGED nodes
    /\ UNCHANGED <<mem, stack, history>>

\* Mutant of StartWalk: the list is taken, but the socket is not marked DONE.
StartWalk_unmarked(s) ==
    /\ ScriptRuns
    /\ stack' = Append(stack, [sock |-> s, cur |-> head[s], nxt |-> NULL,
                               udf |-> FALSE])
    /\ head' = [head EXCEPT ![s] = NULL]
    /\ UNCHANGED <<ref, prev, next, mem, history>>

\* The entry of call_gcfn, from close, __gc or unwrap.
StartWalk(s) ==
    /\ ScriptRuns
    /\ stack' = Append(stack, [sock |-> s, cur |-> head[s], nxt |-> NULL,
                               udf |-> FALSE])
    /\ head' = [head EXCEPT ![s] = DONE]
    /\ UNCHANGED <<ref, prev, next, mem, history>>

\* Mutant of SetTop: the walk advances before the call, not after it.
SetTop_early(c, n, u) ==
    stack' = [stack EXCEPT ![Len(stack)] =
                 [sock |-> Top.sock, cur |-> n, nxt |-> c, udf |-> u]]

SetTop(c, n, u) ==
    stack' = [stack EXCEPT ![Len(stack)] =
                 [sock |-> Top.sock, cur |-> c, nxt |-> n, udf |-> u]]

\* What a read of a node's fields can return: freed memory holds anything.
NextRead(n) == IF mem[n] = "freed" THEN Ptr ELSE {next[n]}
RefRead(n)  == IF mem[n] = "freed" THEN BOOLEAN ELSE {ref[n]}

\* The loop of call_gcfn at a node: save its next, then enter lls_gcfn_call.
Visiting == stack # <<>> /\ ~Top.udf /\ Top.cur # NULL

\* The node still has a UDF: lua_pcall enters it.
EnterUdf ==
    /\ Visiting
    /\ Top.cur \in Fn
    /\ TRUE \in RefRead(Top.cur)
    /\ \E n \in NextRead(Top.cur) : SetTop(Top.cur, n, TRUE)
    /\ called' = called \cup {Top.cur}
    /\ UNCHANGED <<head, ref, prev, next, mem, owner, stamp, clock>>

\* The node was deleted: lls_gcfn_call does nothing and the loop goes on.
SkipDeleted ==
    /\ Visiting
    /\ FALSE \in RefRead(Top.cur)
    /\ \E n \in NextRead(Top.cur) : SetTop(n, NULL, FALSE)
    /\ UNCHANGED <<head, ref, prev, next, mem, history>>

\* call_gcfn on a socket that is DONE walks the sentinel itself.  Registry
\* slot 0 is no function: the pcall fails, and the sentinel loses its refs.
VisitSentinel ==
    /\ Visiting
    /\ Top.cur = DONE
    /\ ref[DONE]
    /\ SetTop(next[DONE], NULL, FALSE)
    /\ Unlink(DONE)
    /\ UNCHANGED <<head, mem, history>>

\* Mutants of UdfReturn: the node is not deleted; an error ends the walk.
UdfReturn_keepsNode ==
    /\ stack # <<>> /\ Top.udf
    /\ SetTop(Top.nxt, NULL, FALSE)
    /\ UNCHANGED <<head, ref, prev, next, mem, history>>
UdfReturn_stops ==
    /\ stack # <<>> /\ Top.udf
    /\ SetTop(NULL, NULL, FALSE)
    /\ IF ref[Top.cur] THEN Unlink(Top.cur) ELSE UNCHANGED nodes
    /\ UNCHANGED <<head, mem, history>>

\* The UDF returns, or raises an error that lua_pcall swallows: lls_gcfn_call
\* deletes the node and the loop takes the next that was saved.
UdfReturn ==
    /\ stack # <<>> /\ Top.udf
    /\ SetTop(Top.nxt, NULL, FALSE)
    /\ IF ref[Top.cur] THEN Unlink(Top.cur) ELSE UNCHANGED nodes
    /\ UNCHANGED <<head, mem, history>>

\* The end of call_gcfn.
FinishWalk ==
    /\ stack # <<>> /\ ~Top.udf /\ Top.cur = NULL
    /\ stack' = SubSeq(stack, 1, Len(stack) - 1)
    /\ UNCHANGED <<head, ref, prev, next, mem, history>>

\* The Lua collector frees a node the registry no longer holds and whose
\* handle the script has dropped.
Collect(g) ==
    /\ ScriptRuns
    /\ mem[g] = "live" /\ ~ref[g]
    /\ mem' = [mem EXCEPT ![g] = "freed"]
    /\ UNCHANGED <<head, ref, prev, next, stack, history>>

WalkStep == EnterUdf \/ SkipDeleted \/ VisitSentinel \/ FinishWalk

Next ==
    \/ \E s \in Sock, g \in Fn : AddGcfn(s, g) \/ DelGcfn(s, g)
    \/ \E s \in Sock : StartWalk(s)
    \/ WalkStep
    \/ UdfReturn
    \/ \E g \in Fn : Collect(g)

Spec == Init /\ [][Next]_vars

\* C code runs to completion, and every UDF is assumed to return in the end.
FairSpec == Spec /\ WF_vars(WalkStep) /\ SF_vars(UdfReturn)
-----------------------------------------------------------------------------
\* Every variable keeps its type.
TypeOK ==
    /\ head \in [Sock -> Ptr]
    /\ ref \in [Node -> BOOLEAN]
    /\ prev \in [Node -> Ptr] /\ next \in [Node -> Ptr]
    /\ mem \in [Node -> {"unused", "live", "freed"}]
    /\ stack \in Seq(Frame)
    /\ owner \in [Fn -> Sock \cup {NULL}]
    /\ stamp \in [Fn -> Nat] /\ clock \in Nat
    /\ called \subseteq Fn

\* The functions still registered with s.
Registered(s) == {g \in Fn : ref[g] /\ owner[g] = s}

\* A walk or a method will read s's list from the node a on: the head of s, or
\* the node at which the walk of its closing stands, points to a.
StartsAt(s, a) ==
    \/ head[s] = a
    \/ \E i \in 1..Len(stack) : stack[i].sock = s /\ stack[i].cur = a

\* No pointer that call_gcfn, addgcfn, delgcfn or lls_gcfn_del will follow
\* leads to a node that was deleted, hence to memory the collector may free.
NoStalePointer ==
    /\ \A s \in Sock, a \in Fn : StartsAt(s, a) => a \in Registered(s)
    /\ \A g \in Fn : ref[g] =>
          /\ mem[g] = "live"
          /\ prev[g] \in Registered(owner[g]) \cup {NULL}
          /\ next[g] \in Registered(owner[g]) \cup {NULL}

\* The links of registered nodes are mutual and sorted: a node's next is the
\* newest of the older functions still registered with its socket
\* (lls_gcfn_del and addgcfn_lua keep both directions in step).
WellLinked ==
    \A g, h \in Fn : ref[g] /\ ref[h] =>
       /\ next[g] = h <=> prev[h] = g
       /\ next[g] = h => owner[g] = owner[h] /\ stamp[g] > stamp[h]
       /\ owner[g] = owner[h] /\ stamp[g] > stamp[h] =>
             /\ next[g] # NULL /\ stamp[next[g]] >= stamp[h]
             /\ prev[h] # NULL /\ stamp[prev[h]] =< stamp[g]

\* No function is lost: the list of a socket starts at the newest function
\* registered with it, so that (WellLinked) every older one is on the way.
NoneLost ==
    \A g \in Fn : ref[g] =>
       \E a \in Registered(owner[g]) : StartsAt(owner[g], a) /\ stamp[g] =< stamp[a]

\* Both together: the lists hold every registered function, in order.
ListsIntact == WellLinked /\ NoneLost

\* The next that call_gcfn saved before a UDF is still the node's next after
\* whatever the UDF did, and the node itself is still registered.
SavedNextIsCurrent ==
    \A i \in 1..Len(stack) : stack[i].udf =>
       /\ stack[i].cur \in Registered(stack[i].sock)
       /\ next[stack[i].cur] = stack[i].nxt

\* When the walk that took a socket's list reaches its end, no function of the
\* socket is registered: each was called, "when socket is closed or unwrapped".
\* (A close made by one of the UDFs ends before the older ones are called.)
Outermost(i) == \A j \in 1..(i - 1) : stack[j].sock # stack[i].sock
AllCalledAtEnd ==
    \A i \in 1..Len(stack) :
       Outermost(i) /\ stack[i].cur = NULL => Registered(stack[i].sock) = {}

EntersUdf ==
    stack # <<>> /\ ~Top.udf /\ Len(stack') = Len(stack) /\ Top'.udf
CalledInOrder ==
    EntersUdf => LET g == Top.cur IN
                 /\ ref[g] /\ g \notin called
                 /\ head[owner[g]] = DONE
                 /\ \A h \in Registered(owner[g]) : stamp[h] =< stamp[g]

\* A UDF is entered at most once, never after it was deleted, only when its
\* socket closes, and before every older function of the same socket ("called
\* in the order in which they were last added").
CalledOnceNewestFirst == [][CalledInOrder]_vars

OnlyCallsOf(s) ==
    head[s] = DONE =>
       /\ head'[s] = DONE
       /\ Registered(s)' \subseteq Registered(s)
       /\ Registered(s) \ Registered(s)' \subseteq called

\* Once a socket is DONE its list only shrinks, and by calls alone: nothing
\* is added, and delgcfn takes away no function that a walk still owes.
DoneOnlyCalls == [][\A s \in Sock : OnlyCallsOf(s)]_vars

\* A function registered when its socket is closed is called eventually,
\* however many other sockets the UDFs before it close.
EventuallyCalled ==
    \A g \in Fn : (ref[g] /\ owner[g] # NULL /\ head[owner[g]] = DONE)
                     ~> (g \in called)
-----------------------------------------------------------------------------
\* The inductive invariant: the properties above, and what they rest on.
\*   the sentinel and the order of the additions,
SentinelOK == prev[DONE] = NULL /\ next[DONE] = NULL /\ mem[DONE] = "live"
StampsOK ==
    /\ \A g \in Fn : ref[g] => owner[g] \in Sock /\ stamp[g] =< clock
    /\ \A g, h \in Fn : ref[g] /\ ref[h] /\ stamp[g] = stamp[h] => g = h
\*   a list starts at a node without a prev,
StartsFirst ==
    \A s \in Sock, a \in Fn : StartsAt(s, a) => prev[a] = NULL
\*   only the innermost walk is between two UDFs, the socket of every walk is
\*   DONE, and of the walks of one socket only the outermost has the list,
WalksOK ==
    \A i \in 1..Len(stack) :
       /\ head[stack[i].sock] = DONE
       /\ i < Len(stack) => stack[i].udf
       /\ ~Outermost(i) => stack[i].cur \notin Fn
\*   and the functions being executed are those that were entered and are
\*   still there.
EnteredOK == \A i \in 1..Len(stack) : stack[i].udf => stack[i].cur \in called
CalledOK ==
    \A g \in called :
       /\ mem[g] # "unused"
       /\ ref[g] => \E i \in 1..Len(stack) : stack[i].udf /\ stack[i].cur = g

ListOK ==
    /\ SentinelOK /\ StampsOK /\ WellLinked
    /\ \A g \in Fn : ref[g] =>
          /\ mem[g] = "live"
          /\ prev[g] \in Registered(owner[g]) \cup {NULL}
          /\ next[g] \in Registered(owner[g]) \cup {NULL}
IInv ==
    /\ TypeOK /\ ListOK /\ NoStalePointer /\ NoneLost /\ SavedNextIsCurrent
    /\ StartsFirst /\ WalksOK /\ CalledOK /\ EnteredOK
=============================================================================
