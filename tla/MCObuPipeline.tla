--------------------------- MODULE MCObuPipeline ---------------------------
(* TLC instance of ObuPipeline: see the .cfg for the sizes. *)
EXTENDS ObuPipeline
=============================================================================
