------------------------------- MODULE MCUdp -------------------------------
(* UdpForwarding for TLC; every constant is given its value in the cfg.      *)
EXTENDS UdpForwarding
=============================================================================
