----------------------------- MODULE LossyFifo -----------------------------
(***************************************************************************)
(* The abstract promise of every packet path of the system (OBU -> NATS,   *)
(* OBU -> XBee, RSU -> NATS): a packet may be lost, but what comes out was *)
(* put in, comes out at most once, and in the order it was put in.         *)
(*                                                                         *)
(* Packets are the ordinals 1, 2, 3... of the order in which the producer  *)
(* offered them.  The paths of the firmware are shown to implement Spec.   *)
(***************************************************************************)
EXTENDS Integers, Sequences

VARIABLES
    sent,       \* how many packets the producer has offered
    delivered   \* the packets that have left the path, in order

vars == <<sent, delivered>>

Increasing(s) == \A i, j \in 1..Len(s) : i < j => s[i] < s[j]

Extends(t, s) ==
    /\ Len(s) <= Len(t)
    /\ \A i \in 1..Len(s) : t[i] = s[i]

Init ==
    /\ sent = 0
    /\ delivered = << >>

\* The producer hands one more packet to the path.
Send ==
    /\ sent' = sent + 1
    /\ UNCHANGED delivered

\* Some packets come out, none older than one that came out before.
Deliver ==
    /\ Extends(delivered', delivered)
    /\ Increasing(delivered')
    /\ \A i \in 1..Len(delivered') : delivered'[i] \in 1..sent
    /\ UNCHANGED sent

Next == Send \/ Deliver

Spec == Init /\ [][Next]_vars
=============================================================================
