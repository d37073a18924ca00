--------------------------- MODULE GcfnRefinement ---------------------------
(***************************************************************************)
(* Gcfn implements GcfnStack: the pointers, read from a socket's head or   *)
(* from where its walk stands, spell the abstract stack.                   *)
(***************************************************************************)
EXTENDS Gcfn, SequencesExt

\* The nodes met from p along next, at most as many as were ever added.
Chain(p) ==
    LET follow[k \in 0..clock] ==
          [n \in Ptr |-> IF k = 0 \/ n \notin Fn THEN <<>>
                         ELSE <<n>> \o follow[k - 1][next[n]]]
    IN  follow[clock][p]

\* The pointer from which the rest of s's list will be read.
Rest(s) ==
    IF head[s] # DONE THEN head[s]
    ELSE LET walks == {i \in 1..Len(stack) : stack[i].sock = s /\ Outermost(i)}
         IN  IF walks = {} THEN NULL
             ELSE LET f == stack[CHOOSE i \in walks : TRUE]
                  IN  IF f.udf THEN f.nxt ELSE f.cur

\* How many of the walks are inside a UDF: C code runs in the innermost only.
InUdfs == IF ScriptRuns THEN Len(stack) ELSE Len(stack) - 1
Activation(f) == [sock |-> f.sock, fn |-> f.cur]

Stack == INSTANCE GcfnStack WITH
    pending <- [s \in Sock |-> Chain(Rest(s))],
    closed  <- [s \in Sock |-> head[s] = DONE],
    running <- [i \in 1..InUdfs |-> Activation(stack[i])],
    used    <- {g \in Fn : mem[g] # "unused"}

\* The doubly linked lists, the detached walks and the sentinel behave as
\* per-socket stacks of functions (addgcfn, delgcfn, call_gcfn).
ImplementsStack == Stack!Spec
=============================================================================
