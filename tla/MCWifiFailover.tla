-------------------------- MODULE MCWifiFailover ---------------------------
(* TLC instance of WifiFailover: see the .cfg files for the sizes. *)
EXTENDS WifiFailover
=============================================================================
