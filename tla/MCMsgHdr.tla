------------------------------ MODULE MCMsgHdr ------------------------------
(* Instances of MsgHdr for TLC. *)
EXTENDS MsgHdr, TLC
Symm == Permutations(Header) \cup Permutations(Addr) \cup Permutations(Iov)
            \cup Permutations(Ctl)
=============================================================================
