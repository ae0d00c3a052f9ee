---------------------------- MODULE MCConnection ----------------------------
(* One account, for TLC; Tor and the events that occur are in the cfg.     *)
EXTENDS Connection
=============================================================================
