----------------------------- MODULE CmsgQueue ------------------------------
(***************************************************************************)
(* What an llsocket.cmsghdrs promises, without its buffer: a queue of      *)
(* control messages, filled by push or replaced by recvmsg, emptied by     *)
(* shift from the front.                                                   *)
(***************************************************************************)
EXTENDS Naturals, Sequences

CONSTANTS Msg, Size

VARIABLES q, out
vars == <<q, out>>

Init == q = <<>> /\ out = <<>>

Push(m) ==
    /\ q' = Append(q, [msg |-> m, n |-> Size[m]])
    /\ UNCHANGED out

Shift ==
    IF q = <<>> THEN out' = <<>> /\ UNCHANGED q
    ELSE out' = <<Head(q)>> /\ q' = Tail(q)

\* The messages in the list make room for those of ms that there is room for,
\* of which the last may be cut.  If none comes, the list stays as it is.
RecvMsg(ms) ==
    /\ q # <<>>
    /\ UNCHANGED out
    /\ \/ UNCHANGED q
       \/ /\ q' # <<>> /\ Len(q') =< Len(ms)
          /\ \A k \in 1..Len(q') :
                /\ q'[k].msg = ms[k]
                /\ q'[k].n =< Size[ms[k]]
                /\ k < Len(q') => q'[k].n = Size[ms[k]]

Next ==
    \/ \E m \in Msg : Push(m)
    \/ Shift
    \/ \E k \in 0..2 : \E ms \in [1..k -> Msg] : RecvMsg(ms)

Spec == Init /\ [][Next]_vars
=============================================================================
