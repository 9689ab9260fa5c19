------------------------------- MODULE MCEcuTx -------------------------------
(***************************************************************************)
(* TLC instance of EcuTx.  Three messages, one of them due every other     *)
(* round, over three rounds: a message is due again while its buffer       *)
(* waits, and in one round the node may be off the bus.  The messages of   *)
(* the output currents with their total over two cycles.  And every        *)
(* message or group of messages that share values over one round, with     *)
(* walks to either side, short ones, and every bit flipped.  The bound on  *)
(* rounds ends a task that goes on, so steps that change nothing are       *)
(* added.                                                                  *)
(***************************************************************************)
EXTENDS EcuTx

Bench(table, rounds, draws, off) ==
    [table |-> table, rounds |-> rounds, draws |-> draws, off |-> off]

Pd(a, b) == [k \in 1..(b - a + 1) |-> <<"PD", a + k - 1>>]

Shared == {<<<<"PE", 1>>, <<"PE", 3>>>>, Pd(6, 9), Pd(12, 15), Pd(16, 19)}
Bitfields == {Pd(10, 10), Pd(11, 11)}
Alone == {<<m>> : m \in {m \in Messages \ {<<"PE", 3>>} : m[1] # "PD"}}

MCBenches ==
    {Bench(<<<<"CD", 1>>, <<"PE", 1>>, <<"LG", 1>>>>, 3, {3}, {1}),
     Bench(Pd(1, 5), 5, {-5}, {})}
    \cup {Bench(t, 0, {-7, -4, 0, 1, 7}, {0}) : t \in Shared \cup Alone}
    \cup {Bench(t, 0, 0..30, {0}) : t \in Bitfields}

MCPlaces == {"boot", "low", "high"}
MCSlots == 1..5

Idle == UNCHANGED vars

MCSpec == Init /\ [][Next \/ Idle]_vars /\ Fairness
=============================================================================
