---------------------------- MODULE MCLifecycle ----------------------------
(* TcpLifecycle for TLC; every constant is given its value in the cfg.       *)
EXTENDS TcpLifecycle
=============================================================================
