--------------------------- MODULE MCNatsUplink ----------------------------
(* TLC instance of NatsUplink: see the .cfg for the sizes. *)
EXTENDS NatsUplink
=============================================================================
