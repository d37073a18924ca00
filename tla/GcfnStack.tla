----------------------------- MODULE GcfnStack ------------------------------
(***************************************************************************)
(* What a socket's close functions promise, without lists, sentinel or     *)
(* memory: per socket a stack of functions, "called in the order in which  *)
(* they were last added", each at most once, none while another function   *)
(* of the same socket runs, none added after the socket was closed.        *)
(***************************************************************************)
EXTENDS Sequences, SequencesExt

CONSTANTS Sock, Fn

VARIABLES
    pending,    \* per socket, the functions still to call, newest first
    closed,     \* per socket, whether its closing has begun
    running,    \* the functions being executed, innermost last
    used        \* every function that was ever added

vars == <<pending, closed, running, used>>

Init ==
    /\ pending = [s \in Sock |-> <<>>]
    /\ closed = [s \in Sock |-> FALSE]
    /\ running = <<>>
    /\ used = {}

Add(s, g) ==
    /\ ~closed[s] /\ g \notin used
    /\ pending' = [pending EXCEPT ![s] = <<g>> \o @]
    /\ used' = used \cup {g}
    /\ UNCHANGED <<closed, running>>

Delete(s, g) ==
    /\ ~closed[s]
    /\ \E i \in 1..Len(pending[s]) :
          pending[s][i] = g /\ pending' = [pending EXCEPT ![s] = RemoveAt(@, i)]
    /\ UNCHANGED <<closed, running, used>>

Close(s) ==
    /\ closed' = [closed EXCEPT ![s] = TRUE]
    /\ UNCHANGED <<pending, running, used>>

Call(s) ==
    /\ closed[s] /\ pending[s] # <<>>
    /\ \A i \in 1..Len(running) : running[i].sock # s
    /\ pending' = [pending EXCEPT ![s] = Tail(@)]
    /\ running' = Append(running, [sock |-> s, fn |-> Head(pending[s])])
    /\ UNCHANGED <<closed, used>>

Return ==
    /\ running # <<>>
    /\ running' = SubSeq(running, 1, Len(running) - 1)
    /\ UNCHANGED <<pending, closed, used>>

Next ==
    \/ \E s \in Sock, g \in Fn : Add(s, g) \/ Delete(s, g)
    \/ \E s \in Sock : Close(s) \/ Call(s)
    \/ Return

Spec == Init /\ [][Next]_vars
=============================================================================
