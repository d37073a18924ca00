----------------------------- MODULE MCConnect -----------------------------
(* Instances of Connect for TLC. *)
EXTENDS Connect
MCSetups == [net : {"tcp", "unix"}, client : {"nonblock", "blocking", "sndtimeo"},
             listener : {"nonblock", "blocking"}]
=============================================================================
