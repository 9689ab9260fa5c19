----------------------------- MODULE SignalUnits -----------------------------
(***************************************************************************)
(* Decimal numbers, common to the encoders of the ECU and the decoder of   *)
(* the input service.  A resolution is a pair <<m, e>>, which stands for   *)
(* m * 10^-e.  A value of a signal of one or two bytes is an integer       *)
(* number of thousandths of its physical unit, so that what an encoder     *)
(* truncates shows; a value of a signal of four bytes is an integer number *)
(* of its own least significant digit.                                     *)
(***************************************************************************)
EXTENDS Integers, Sequences

One   == <<1, 0>>
Deci  == <<1, 1>>
Fifth == <<2, 1>>
Centi == <<1, 2>>
Milli == <<1, 3>>
Deg7  == <<1, 7>>

\* Decimals that a value of so many bytes carries, and its least significant
\* bit in them.
Decimals(size, res) == IF size = 4 THEN res[2] ELSE 3
Lsb(size, res) == IF size = 4 THEN res[1] ELSE res[1] * 10^(3 - res[2])

\* Little endian, two's complement: byte b of an integer, and the integer that
\* one to four bytes stand for.
ByteOf(n, b) == (n \div 256^b) % 256

Unsigned(bytes) ==
    LET part(k) == IF k <= Len(bytes) THEN bytes[k] * 256^(k - 1) ELSE 0
    IN  part(1) + part(2) + part(3) + part(4)

\* The most significant byte counts negative from 128.
Signed(bytes) ==
    LET n == Len(bytes)
        top == IF bytes[n] < 128 THEN bytes[n] ELSE bytes[n] - 256
    IN  Unsigned(SubSeq(bytes, 1, n - 1)) + top * 256^(n - 1)
=============================================================================
