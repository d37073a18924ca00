----------------------------- MODULE MCCmsgHdrs -----------------------------
(* Instances of CmsgHdrs for TLC: two sizes that CMSG_SPACE rounds up, one it *)
(* does not, and an empty one.                                             *)
EXTENDS CmsgHdrs, TLC
CONSTANTS m1, m2, m3
MCSize == m1 :> 1 @@ m2 :> 3 @@ m3 :> 4
=============================================================================
