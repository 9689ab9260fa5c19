--------------------------- MODULE MCInputAdapter --------------------------
(***************************************************************************)
(* TLC instance of InputAdapter.  The messages: one of a bad size, one of  *)
(* a single packet, and batches of two packets of which one may be         *)
(* corrupted.                                                              *)
(***************************************************************************)
EXTENDS InputAdapter

Good(s) == [seq |-> s, good |-> TRUE]
Bad(s) == [seq |-> s, good |-> FALSE]

MCPayloads == { << >>, <<Good(0)>>, <<Good(0), Good(1)>>, <<Bad(0), Good(1)>> }
=============================================================================
