----------------------------- MODULE GcfnAlloc ------------------------------
(***************************************************************************)
(* addgcfn_lua tests s->gcfunc, and then allocates a closure and a         *)
(* userdata.  An allocation may run a step of the Lua collector, a step of *)
(* the collector the __gc of another, unreachable socket, and that calls   *)
(* the functions of its list, which are arbitrary Lua.  Gcfn takes addgcfn *)
(* as one step; here it is two, with such finalisers in between.           *)
(***************************************************************************)
EXTENDS Gcfn, FiniteSets

VARIABLES
    adding,         \* the addgcfn calls that are allocating, innermost last
    torn            \* history: the sockets that were closed or unwrapped

allocVars == <<vars, adding, torn>>

AllocInit == Init /\ adding = <<>> /\ torn = {}

\* The innermost C function is an addgcfn: no walk has begun above it.
Allocating == adding # <<>> /\ adding[Len(adding)].depth = Len(stack)

Unused == {g \in Fn : mem[g] = "unused"}

-----------------------------------------------------------------------------
\* addgcfn_lua up to its first allocation.
AddBegin(s) ==
    /\ ScriptRuns /\ ~Allocating
    /\ head[s] # DONE
    /\ Cardinality(Unused) > Len(adding)    \* bound: a node for each call
    /\ adding' = Append(adding, [sock |-> s, depth |-> Len(stack)])
    /\ UNCHANGED <<vars, torn>>

\* The rest of it: the new node is linked to what the head is by now.
AddEnd(g) ==
    /\ Allocating
    /\ Link(adding[Len(adding)].sock, g)
    /\ adding' = SubSeq(adding, 1, Len(adding) - 1)
    /\ UNCHANGED torn

\* The collector finalises a socket that nobody can reach any more; gc_lua does
\* nothing for one without a descriptor.
Finaliser(t) ==
    /\ Allocating
    /\ \A i \in 1..Len(adding) : adding[i].sock # t
    /\ t \notin torn
    /\ StartWalk(t)
    /\ torn' = torn \cup {t}
    /\ UNCHANGED adding

\* A script closes or unwraps a socket, or drops it.
Teardown(s) ==
    /\ ~Allocating
    /\ StartWalk(s)
    /\ torn' = torn \cup {s}
    /\ UNCHANGED adding

Others ==
    /\ \/ WalkStep
       \/ \E g \in Fn : Collect(g)
       \/ ~Allocating /\ UdfReturn
       \/ ~Allocating /\ \E s \in Sock, g \in Fn : DelGcfn(s, g)
    /\ UNCHANGED <<adding, torn>>

AllocNext ==
    \/ \E s \in Sock : AddBegin(s) \/ Teardown(s) \/ Finaliser(s)
    \/ \E g \in Fn : AddEnd(g)
    \/ Others

AllocSpec == AllocInit /\ [][AllocNext]_allocVars
-----------------------------------------------------------------------------
\* Every variable keeps its type.
AllocTypeOK ==
    /\ TypeOK
    /\ adding \in Seq([sock : Sock, depth : Nat]) /\ torn \subseteq Sock

\* Whatever the finalisers do, nothing leads to memory the collector may free:
\* neither the head of a list, nor a walk, nor the links of a registered node.
NoFreedPointer ==
    LET Safe(p) == p \in Fn => ref[p] /\ mem[p] = "live" IN
    /\ \A s \in Sock : Safe(head[s])
    /\ \A i \in 1..Len(stack) : Safe(stack[i].cur) /\ Safe(stack[i].nxt)
    /\ \A g \in Fn : ref[g] => Safe(next[g]) /\ Safe(prev[g])

\* A function that addgcfn has returned "will be called when socket is closed or
\* unwrapped": once that is over, the socket has no function any more.
NoneForgotten ==
    \A s \in torn :
       Registered(s) # {} => \E i \in 1..Len(stack) : stack[i].sock = s
-----------------------------------------------------------------------------
(* The inductive invariant of the proofs.  It is not that of Gcfn: an addgcfn *)
(* that ends late links a node before the sentinel of a closed socket.        *)

\* h is the next of g, and g the prev of h, in the list of one socket.
Linked(g, h) ==
    /\ ref[g] /\ ref[h] /\ owner[g] = owner[h] /\ stamp[g] > stamp[h]
    /\ next[g] = h /\ prev[h] = g

NodesSafe ==
    \A g \in Fn : ref[g] =>
       /\ mem[g] = "live" /\ owner[g] \in Sock /\ stamp[g] =< clock
       /\ next[g] \in Fn => Linked(g, next[g])
       /\ prev[g] \in Fn => Linked(prev[g], g)
       /\ prev[g] # DONE

\* Of the nodes before the sentinel it knows the last that was linked there, until
\* lls_gcfn_del has taken the sentinel itself for a node.
SentinelSafe ==
    /\ mem[DONE] = "live" /\ next[DONE] = NULL /\ prev[DONE] # DONE
    /\ ref[DONE] /\ prev[DONE] \in Fn => ref[prev[DONE]] /\ next[prev[DONE]] = DONE

HeadsSafe ==
    \A s \in Sock : head[s] \in Fn => head[s] \in Registered(s) /\ prev[head[s]] = NULL

WalksSafe ==
    \A i \in 1..Len(stack) :
       /\ head[stack[i].sock] = DONE
       /\ i < Len(stack) => stack[i].udf
       /\ ~Outermost(i) => stack[i].cur \notin Fn
       /\ stack[i].cur \in Fn => stack[i].cur \in Registered(stack[i].sock)
       /\ stack[i].nxt \in Fn => stack[i].udf /\ next[stack[i].cur] = stack[i].nxt

\* An addgcfn was called by the main program or by a UDF that is still running, and
\* no walk of its socket had begun then.
AddsSafe ==
    \A k \in 1..Len(adding) :
       LET d == adding[k].depth IN
       /\ d =< Len(stack)
       /\ d > 0 => stack[d].udf
       /\ \A i \in 1..d : stack[i].sock # adding[k].sock
       /\ \A l \in 1..k : adding[l].depth =< d

AllocInv ==
    /\ AllocTypeOK /\ NodesSafe /\ SentinelSafe /\ HeadsSafe /\ WalksSafe /\ AddsSafe
=============================================================================
