------------------------------- MODULE MCTtuTx -------------------------------
(***************************************************************************)
(* TLC instance of TtuTx: two sensors, three readings.                     *)
(***************************************************************************)
EXTENDS TtuTx

MCSlots == {Stack}
=============================================================================
