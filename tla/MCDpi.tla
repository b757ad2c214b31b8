------------------------------- MODULE MCDpi -------------------------------
(* Instance for Dpi.cfg: LANShield's use of the library joined with the    *)
(* library, and one sample of what its tables of hosts and networks hold.  *)
EXTENDS LanshieldDpi, NdpiEngine, DpiSamples

MCHosts == [facebook |-> "FACEBOOK"]
MCGuessed == (30 :> "FACEBOOK")
MCNetworks == [multicast |-> {224}, broadcast |-> {255}, google |-> {40}, messenger |-> {30}, teamviewer |-> {50}]
MCRandom == {"random"}
=============================================================================
