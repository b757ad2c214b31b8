---------------------------- MODULE MCDownload ----------------------------
(* Instance of TcpDownload for TLC; the configurations give the constants. *)
EXTENDS TcpDownload
=============================================================================
