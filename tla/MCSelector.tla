----------------------------- MODULE MCSelector -----------------------------
(* NioSelector for TLC; the sessions are model values given in the cfg.      *)
EXTENDS NioSelector
=============================================================================
