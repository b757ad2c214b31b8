------------------------------ MODULE MCUpload ------------------------------
(* TcpUpload for TLC; every constant is given its value in the cfg.          *)
EXTENDS TcpUpload
=============================================================================
