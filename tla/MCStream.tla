------------------------------ MODULE MCStream ------------------------------
(* Instances of Stream for TLC. *)
EXTENDS Stream
Bytes(n) == [kind |-> "data", n |-> n, fds |-> <<>>]
PartOfFile(n) == [kind |-> "file", n |-> n, fds |-> <<>>]
Msg(n, f) == [kind |-> "msg", n |-> n, fds |-> f]
Empty == Msg(0, <<>>)
Fd(f) == [kind |-> "fd", n |-> 1, fds |-> <<f>>]
PlanData == <<Bytes(3), Empty, Bytes(5), PartOfFile(4), Bytes(2)>>
PlanRecords == <<Bytes(1), Empty, Bytes(3), Bytes(2), Empty, Bytes(1), Empty>>
PlanFds == <<Fd(3), Bytes(2), Fd(5), Fd(4), Bytes(1), Fd(3)>>
PlanRights == <<Msg(3, <<7, 8>>), Bytes(2), Msg(2, <<9>>), Fd(7), Msg(1, <<8, 3>>)>>
PlanRightsOnly == <<Msg(0, <<7>>), Msg(2, <<8, 9>>), Msg(0, <<5, 7>>), Bytes(1)>>
Setup(t, p, r, s) == [type |-> t, plan |-> p, reader |-> r, sendfile |-> s]
MCSetups ==
    {Setup("stream", PlanData, r, s) : r \in {"recv", "recvmsg"}, s \in BOOLEAN} \cup
    {Setup("dgram", PlanRecords, r, TRUE) : r \in {"recv", "recvmsg"}} \cup
    {Setup("stream", PlanFds, r, TRUE) : r \in {"recvfd", "recvmsg"}} \cup
    {Setup("stream", PlanRights, "recvmsg", TRUE),
     Setup("seqpacket", PlanRightsOnly, "recvmsg", TRUE),
     Setup("dgram", PlanRightsOnly, "recvmsg", TRUE),
     Setup("seqpacket", <<Bytes(3), Bytes(1), Bytes(2), Bytes(4)>>, "recv", TRUE)}

\* The theorems about amounts are about these setups, too.
ASSUME AmountsAssumption == Small /\ Fits
=============================================================================
