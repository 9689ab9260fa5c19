----------------------------- MODULE MCUartSync -----------------------------
(***************************************************************************)
(* TLC instance of UartSync: a marker of two bytes, packets of three.      *)
(***************************************************************************)
EXTENDS UartSync

MCMarker == <<1, 2>>

\* Packets without the marker, but with its bytes where they could deceive the
\* scanner once a neighbour is lost.
PlainBodies == {<<2, 0, 1>>, <<1, 0, 2>>}

ASSUME PlainBodiesApart == MarkerApart

MCNoises == {<< >>, <<1>>, <<1, 2>>}
=============================================================================
