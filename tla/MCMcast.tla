------------------------------- MODULE MCMcast -------------------------------
(* Instances of Mcast for TLC. *)
EXTENDS Mcast, TLC
CONSTANTS l1, l2
MCLinks == <<l1, l2>>
Setup(t, f, b, s) == [socktype |-> t, family |-> f, bare |-> b, script |-> s]
MCSetups ==
    {Setup("dgram", f, {}, s) : f \in {"inet", "inet6"}, s \in {"groups", "outgoing"}} \cup
    {Setup("raw", "inet", {l2}, "outgoing")} \cup
    {Setup("dgram", "inet", b, "others") : b \in SUBSET {l1, l2}} \cup
    {Setup("stream", "inet", {}, "groups"), Setup("dgram", "unix", {}, "outgoing")}
Symm == Permutations(Group) \cup Permutations(Source) \cup Permutations(Addr)
=============================================================================
