------------------------------ MODULE MCSync ------------------------------
(* Instance of BackendSync for TLC; the configuration gives the constants. *)
EXTENDS BackendSync
=============================================================================
