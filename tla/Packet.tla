------------------------------- MODULE Packet -------------------------------
(***************************************************************************)
(* The packet that carries a CAN frame from the OBU to the server, as the  *)
(* firmware builds and checks it (framework/core/packet) and the adapter   *)
(* decodes it (adapter.go): 34 bytes, little endian, with a CRC-16 at the  *)
(* end.  The 64-bit time stamp is a pair of words, the low one first.      *)
(***************************************************************************)
EXTENDS SignalUnits

PacketSize == 34
CanDataSize == 8
CanFrameType == 1

\* offsetof(zc2x_packet_t, crc16): the bytes the CRC covers.
Crc16Offset == 32

Bytes(n, count) == [k \in 1..count |-> ByteOf(n, k - 1)]

\* Bytes a to b - 1 of a packet, counted from 0: raw[a:b].
Part(raw, a, b) == SubSeq(raw, a + 1, b)

-----------------------------------------------------------------------------
(* The exclusive or of two bytes, by a table of its values on half bytes.  *)

HalfXor ==
    LET bit(n, k) == (n \div 2^k) % 2
        sum(a, b, k) == 2^k * ((bit(a, k) + bit(b, k)) % 2)
    IN  [a, b \in 0..15 |-> sum(a, b, 0) + sum(a, b, 1) + sum(a, b, 2) + sum(a, b, 3)]

ByteXor(x, y) == 16 * HalfXor[x \div 16, y \div 16] + HalfXor[x % 16, y % 16]

\* The register of the CRC is <<high byte, low byte>>.  One turn of the loop of
\* crc16_step: shift left, and add the polynomial 0x1021 when a one falls out.
Turned(crc) ==
    LET twice == <<(2 * crc[1] + crc[2] \div 128) % 256, (2 * crc[2]) % 256>>
    IN  IF crc[1] < 128 THEN twice ELSE <<ByteXor(twice[1], 16), ByteXor(twice[2], 33)>>

\* The eight turns, on a byte x that was added to an empty register.
Shifted ==
    [x \in 0..255 |->
       LET crc[i \in 0..8] == IF i = 0 THEN <<x, 0>> ELSE Turned(crc[i - 1])
       IN  crc[8]]

\* crc16_step.  The loop is linear, and the low byte of the register goes through it
\* without a one falling out: it ends up in the place of the high one.
Crc16Step(crc, byte) ==
    LET shifted == Shifted[ByteXor(crc[1], byte)]
    IN  <<ByteXor(shifted[1], crc[2]), shifted[2]>>

\* packet_crc16_compute, and crc16CCITTFalse of the adapter, which "mirrors" it: the
\* register after every byte, from CRC16_INIT on.
Crc16(data) ==
    LET step[crc \in (0..255) \X (0..255), byte \in 0..255] == Crc16Step(crc, byte)
        crc[i \in 0..Len(data)] == IF i = 0 THEN <<255, 255>> ELSE step[crc[i - 1], data[i]]
    IN  crc[Len(data)]

\* zc2x_packet_init for a frame of at most CanDataSize bytes: the rest is zero.
PacketInit(device, seq, timestamp, canId, data) ==
    LET body == <<CanFrameType>> \o device \o Bytes(seq, 4)
                  \o Bytes(timestamp[1], 4) \o Bytes(timestamp[2], 4)
                  \o Bytes(canId, 4) \o <<Len(data)>>
                  \o [k \in 1..CanDataSize |-> IF k <= Len(data) THEN data[k] ELSE 0]
        crc == Crc16(Part(body, 0, Crc16Offset))
    IN  body \o <<crc[2], crc[1]>>

\* zc2x_packet_validate returns ZC2X_OK.
PacketValidate(raw) ==
    /\ raw[1] = CanFrameType
    /\ raw[24] <= CanDataSize
    /\ Crc16(Part(raw, 0, Crc16Offset)) = <<raw[34], raw[33]>>

\* DecodePacket returns no error.
PacketDecodes(raw) == Len(raw) = PacketSize /\ PacketValidate(raw)

\* Mutant: the CAN id is read where a struct that is not packed would have it.
DecodeUnpacked(raw) ==
    [device    |-> Part(raw, 1, 7),
     sequence  |-> Unsigned(Part(raw, 7, 11)),
     timestamp |-> <<Unsigned(Part(raw, 11, 15)), Unsigned(Part(raw, 15, 19))>>,
     canId     |-> Unsigned(Part(raw, 20, 24)),
     dlc       |-> raw[24],
     data      |-> Part(raw, 24, 32)]

\* The packet it returns.
DecodePacket(raw) ==
    [device    |-> Part(raw, 1, 7),
     sequence  |-> Unsigned(Part(raw, 7, 11)),
     timestamp |-> <<Unsigned(Part(raw, 11, 15)), Unsigned(Part(raw, 15, 19))>>,
     canId     |-> Unsigned(Part(raw, 19, 23)),
     dlc       |-> raw[24],
     data      |-> Part(raw, 24, 32)]
=============================================================================
