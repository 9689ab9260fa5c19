--------------------------- MODULE MCInfluxWriter ---------------------------
(***************************************************************************)
(* TLC instance of InfluxWriter.  A batch fills with two messages or with  *)
(* two copies of one; while only one is published, only the ticker can     *)
(* flush it.                                                               *)
(***************************************************************************)
EXTENDS InfluxWriter
=============================================================================
