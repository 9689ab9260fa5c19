----------------------------- MODULE MCEndToEnd -----------------------------
(***************************************************************************)
(* TLC instance of EndToEnd: one device, frames of no, some and all bytes, *)
(* paths as slow as the window is long.  The radio flips single bits all   *)
(* over a packet, pairs of bits, and bursts of sixteen.                    *)
(***************************************************************************)
EXTENDS EndToEnd

MCDevices == {<<124, 44, 103, 255, 0, 1>>}

MCCanFrame ==
    [n \in Seqs |->
       CASE n = 0 -> [canId |-> 256, data |-> <<1, 2, 3, 4, 5, 6, 7, 8>>]
         [] n = 1 -> [canId |-> 305419896, data |-> << >>]
         [] OTHER -> [canId |-> 2047, data |-> <<255, 0, n>>]]

\* The bytes of a packet and the bits of a byte, spread.
MCDamages ==
    {<< >>}
        \cup {[k \in {b} |-> 2^(b % 8)] : b \in 1..PacketSize}
        \cup {[k \in {3, b} |-> 2^(b % 8)] : b \in {1, 2, 4, 9, 17, 24, 33, 34}}
        \cup {[k \in {b, b + 1} |-> 255 - k] : b \in 1..(PacketSize - 1)}

\* The hypotheses of the theorems about EndToEnd.
ASSUME InstanceAssumption == EndToEndAssumption
ASSUME DamageShows == CrcTells

\* The check value of CRC-16/CCITT-FALSE (packet_crc.c names the algorithm), 0x29B1:
\* the CRC of the digits 1 to 9.
ASSUME CheckValue == Crc16([k \in 1..9 |-> 48 + k]) = <<41, 177>>
=============================================================================
