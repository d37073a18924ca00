------------------------------ MODULE MCSocket ------------------------------
(* Instances of Socket for TLC. *)
EXTENDS Socket
MCSetups == {[mode |-> "plain", maxopen |-> 3], [mode |-> "reenter", maxopen |-> 2],
             [mode |-> "pairfails", maxopen |-> 3]}
=============================================================================
