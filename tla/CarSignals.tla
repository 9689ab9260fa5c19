------------------------------ MODULE CarSignals ------------------------------
(***************************************************************************)
(* What the ECU simulator puts into its CAN messages (ecu main.c and       *)
(* device_config.h): the identifiers, lengths and periods of the messages, *)
(* the random walks of the simulated car, and the layout each encode_*()   *)
(* writes.  Scheduling and transmission are in EcuTx.                      *)
(*                                                                         *)
(* A message is named <<group, number>>; the tyre messages FL, FR, RL, RR  *)
(* are <<"TTU", 1>> to <<"TTU", 4>>.  The car is a function from messages  *)
(* to the values their encoders move.  float is taken to be exact: with    *)
(* its rounding a raw value may be one less.                               *)
(***************************************************************************)
EXTENDS SignalUnits

Named(group, n) == {<<group, k>> : k \in 1..n}

Messages ==
    Named("CD", 7) \cup Named("TTU", 4) \cup Named("PE", 5) \cup Named("GPS", 2)
      \cup Named("PD", 19) \cup Named("EC", 12) \cup Named("DA", 2) \cup Named("LG", 1)

\* ECU_CAN_TICK_MS and the ECU_CAN_PERIOD_*_MS.
TickMs == 10

PeriodMs(m) ==
    CASE m[1] \in {"CD", "LG"} \/ m = <<"DA", 1>> -> 10
      [] m = <<"PE", 1>> \/ (m[1] = "EC" /\ m[2] \in {1, 2} \cup 5..9) -> 20
      [] m[1] = "PD" \/ (m[1] = "EC" /\ m[2] \in {10, 12}) -> 50
      [] m[1] = "PE" /\ m[2] \in {4, 5} -> 200
      [] OTHER -> 100

\* period_ticks, can_id and dlc of s_messages[].
PeriodTicks == [m \in Messages |-> PeriodMs(m) \div TickMs]

CanId ==
    LET base == [CD |-> 256, TTU |-> 304, GPS |-> 768, PD |-> 1024, EC |-> 1088,
                 DA |-> 1120, LG |-> 1136]
        pe == <<512, 528, 529, 544, 545>>
    IN  [m \in Messages |->
           CASE m[1] = "PE" -> pe[m[2]]
             [] m[1] = "CD" /\ m[2] >= 4 -> 368 + m[2] - 4
             [] m[1] \in {"CD", "TTU", "GPS"} -> base[m[1]] + 16 * (m[2] - 1)
             [] OTHER -> base[m[1]] + m[2] - 1]

Dlc(m) ==
    CASE m[1] = "CD" -> <<8, 4, 4, 6, 4, 8, 6>>[m[2]]
      [] m[1] \in {"TTU", "PE"} -> IF m = <<"PE", 3>> THEN 6 ELSE 8
      [] m[1] = "GPS" -> <<8, 6>>[m[2]]
      [] m[1] = "PD" -> CASE m[2] \in {5, 9, 19} -> 6 [] m[2] = 10 -> 4
                          [] m[2] = 11 -> 2 [] OTHER -> 8
      [] m[1] = "EC" -> <<8, 6, 8, 8, 7, 8, 8, 8, 8, 7, 6, 2>>[m[2]]
      [] OTHER -> 6

\* app_main asserts that dlc <= 8 and period_ticks > 0; the tick divides every
\* period ("must be the GCD", device_config.h).
ASSUME TableAssumption ==
    \A m \in Messages :
        Dlc(m) \in 1..8 /\ PeriodTicks[m] > 0 /\ PeriodMs(m) % TickMs = 0

-----------------------------------------------------------------------------
(* The encoders.  A field is written at byte "at" of the payload as        *)
(* (value + off) / res, truncated; before that its value has moved.        *)

Field(size, at, res, off, move, step, lo, hi) ==
    [size |-> size, at |-> at, res |-> res, off |-> off,
     move |-> move, step |-> step, lo |-> lo, hi |-> hi]

\* x = random_walk_f(x, step, lo, hi); put_u16/put_u8(buf, at, (x + off) / res)
U16(at, res, off, step, lo, hi) == Field(2, at, res, off, "walk", step, lo, hi)
U8(at, res, off, step, lo, hi) == Field(1, at, res, off, "walk", step, lo, hi)

\* Bounds of the model: the rounds that run, and what fuel_used_raw and
\* ec_run_time_total_s begin with, so that they stay below 2^31.
MaxCounter == 2000000000
MaxRounds == 500000
MaxInt == 2147483647

\* The bytes of a field, and the one bit of a boolean.
Width(f) == IF f.size = 0 THEN 1 ELSE f.size

\* A byte the simulator never changes.
Steady(at) == Field(1, at, One, 0, "steady", 0, 0, 0)

\* n fields of the same kind one after the other.
Row(n, size, res, off, step, lo, hi) ==
    [k \in 1..n |-> Field(size, size * (k - 1), res, off, "walk", step, lo, hi)]

\* n booleans, one bit each, from bit 0 of byte 0 (encode_pd_bits); the bit is
\* in "at".
Bits(n) == [k \in 1..n |-> Field(0, k - 1, One, 0, "flip", 0, 0, 1000)]

\* The three axes of an accelerometer: CD4, DA1 and LG1.
GForce == <<U16(0, Milli, 5000, 50, -2000, 2000), U16(2, Milli, 5000, 50, -2000, 2000),
            U16(4, Milli, 5000, 20, 500, 1500)>>

\* encode_cd1 to encode_cd7.
Cd == <<
    Row(4, 2, Deci, 0, 2000, 0, 260000),
    <<U16(0, Deci, 720000, 8000, -450000, 450000), U16(2, Deci, 0, 2000, 0, 260000)>>,
    <<U16(0, Deci, 0, 3000, 0, 150000), U16(2, Deci, 0, 2500, 0, 130000)>>,
    GForce,
    <<U16(0, Centi, 45000, 300, -45000, 45000), U16(2, Centi, 45000, 200, -45000, 45000)>>,
    Row(4, 2, Centi, 0, 1500, 0, 150000),
    <<U16(0, Centi, 163000, 3000, -163000, 163000), U16(2, Centi, 163000, 2000, -163000, 163000),
      U16(4, Centi, 163000, 2000, -163000, 163000)>> >>

\* encode_ttufl, encode_ttufr, encode_tturl, encode_tturr.
Ttu == Append(Row(3, 2, Deci, 40000, 1000, 40000, 140000),
              U16(6, Centi, 0, 20, 1000, 2500))

\* encode_pe1 to encode_pe5.  PE1 also moves fuel_used_raw, which PE3 sends.
Pe == <<
    <<U16(0, One, 0, 150000, 800000, 14000000), U8(2, One, 0, 5000, 0, 100000),
      U16(3, Milli, -500, 10, 750, 1200), U16(5, Deci, 0, 5000, 30000, 250000),
      Field(1, 7, One, 0, "shift", 1000, 0, 6000)>>,
    <<U16(0, Deci, 40000, 300, 70000, 110000), U16(2, Deci, 40000, 300, 80000, 130000),
      U16(4, Deci, 40000, 200, 15000, 65000), U16(6, Deci, 0, 100, 1500, 6000)>>,
    <<U16(0, Deci, 0, 100, 3000, 5000), Field(4, 2, One, 0, "burn", 0, 0, MaxCounter)>>,
    Row(4, 2, One, 0, 5000, 500000, 950000),
    Row(4, 2, One, 0, 5000, 500000, 950000) >>

\* encode_gps1 (put_i32, a step of 0.00002 degrees) and encode_gps2.
Gps == <<
    <<Field(4, 0, Deg7, 0, "walk", 200, -235605000, -235405000),
      Field(4, 4, Deg7, 0, "walk", 200, -466433000, -466233000)>>,
    <<U16(0, Deci, 1000000, 500, 710000, 810000), U16(2, Deci, 0, 2000, 0, 260000),
      Field(2, 4, Centi, 0, "wrap", 3000, 0, 359999)>> >>

\* encode_pd1, the last of whose channels is not random: the total of the
\* output currents.  encode_pd_currents, _voltages, _loads and _input_voltages
\* move the whole array when the first message of a bank is encoded.
Pd1 == <<U16(0, Centi, 0, 50, 11000, 15000), Field(2, 2, Deci, 0, "sum", 0, 0, 600000),
         U16(4, Deci, 40000, 500, 20000, 80000), Steady(6), U8(7, Deci, 0, 20, 9000, 10000)>>

Currents == Row(30, 1, Deci, 0, 300, 0, 20000)
Voltages == Row(30, 1, Deci, 0, 300, 0, 14000)
Loads == Row(30, 1, One, 0, 2000, 0, 100000)
InputVoltages == Row(16, 2, Centi, 0, 100, 0, 14000)

\* encode_ec1 to encode_ec12.
Ec == <<
    <<U16(0, Milli, -500, 10, 750, 1200), U16(2, Deci, 10000, 500, 0, 40000),
      U16(4, Centi, 0, 50, 11000, 15000), U16(6, Deci, -80000, 100, 95000, 105000)>>,
    <<U8(0, One, 0, 1000, 0, 15000), U8(1, One, 0, 2000, 10000, 90000),
      U16(2, Deci, 30000, 300, -20000, 20000), U16(4, Deci, 30000, 300, -20000, 20000)>>,
    <<U16(0, Deci, 40000, 300, 40000, 110000), U16(2, Deci, 40000, 200, 10000, 60000),
      U16(4, Deci, 40000, 200, 10000, 50000), U16(6, Deci, 40000, 100, 10000, 40000)>>,
    <<U16(0, Deci, 40000, 200, 10000, 50000), U16(2, Deci, 0, 50, 500, 2000),
      U16(4, Deci, 0, 200, 0, 40000), U16(6, Centi, 0, 200, 1000, 15000)>>,
    <<U16(0, Deci, 0, 3000, 100000, 250000), U16(2, Deci, 0, 3000, 100000, 250000),
      U16(4, Deci, 0, 3000, 20000, 150000), U8(6, One, 0, 500, 0, 100000)>>,
    Row(4, 2, Deci, 30000, 300, -20000, 20000),
    Row(2, 2, Deci, 30000, 300, -20000, 20000)
      \o [k \in 1..4 |-> U8(3 + k, One, 0, 2000, 10000, 90000)],
    Row(8, 1, One, 0, 500, 0, 10000),
    Row(8, 1, Fifth, 20000, 200, -5000, 5000),
    <<U8(0, One, 0, 1000, 80000, 100000), U8(1, One, 0, 1000, 80000, 100000)>>
      \o [k \in 1..5 |-> Steady(k + 1)],
    <<U8(0, One, 0, 50, 0, 100000), Steady(1), Field(4, 2, One, 0, "count", 1, 0, MaxCounter)>>,
    <<Steady(0), Steady(1)>> >>

\* encode_da2
Da2 == <<U16(0, Deci, 40000, 200, 20000, 60000), U16(2, Centi, 0, 10, 4800, 5200),
         U16(4, Centi, 0, 50, 11000, 15000)>>

-----------------------------------------------------------------------------
(* What each message moves, and what it sends.                             *)

\* The PDM banks: the first message, the array, and how much of it a message
\* carries (encode_pd2 to encode_pd9, encode_pd12 to encode_pd19).
Banks == {[first |-> 2, last |-> 5, array |-> Currents, slice |-> 8],
          [first |-> 6, last |-> 9, array |-> Voltages, slice |-> 8],
          [first |-> 12, last |-> 15, array |-> InputVoltages, slice |-> 4],
          [first |-> 16, last |-> 19, array |-> Loads, slice |-> 8]}

InBank(m, b) == m[1] = "PD" /\ m[2] \in b.first..b.last
Banked(m) == \E b \in Banks : InBank(m, b)
BankOf(m) == CHOOSE b \in Banks : InBank(m, b)

\* The channels of sim_state_t that are m's to move.
Channels ==
    [m \in Messages |->
       CASE m[1] = "CD" -> Cd[m[2]]
         [] m[1] = "TTU" -> Ttu
         [] m = <<"PE", 1>> -> Append(Pe[1], Pe[3][2])  \* fuel_used_raw
         [] m = <<"PE", 3>> -> SubSeq(Pe[3], 1, 1)
         [] m[1] = "PE" /\ m[2] \notin {1, 3} -> Pe[m[2]]
         [] m[1] = "GPS" -> Gps[m[2]]
         [] m = <<"PD", 1>> -> Pd1
         [] m = <<"PD", 10>> -> Bits(30)
         [] m = <<"PD", 11>> -> Bits(16)
         [] Banked(m) -> IF BankOf(m).first = m[2] THEN BankOf(m).array ELSE << >>
         [] m[1] = "EC" -> Ec[m[2]]
         [] m = <<"DA", 2>> -> Da2
         [] OTHER -> GForce]

\* What a message of a bank puts into its payload: a slice of the array.
Slice(m, b) ==
    LET start == b.slice * (m[2] - b.first)
        left == Len(b.array) - start
    IN  [k \in 1..(IF left < b.slice THEN left ELSE b.slice) |->
           [field |-> b.array[k], owner |-> <<"PD", b.first>>, channel |-> start + k]]

\* What m puts into its payload: its fields, and whose channels they are.
Puts ==
    [m \in Messages |->
       LET own(k) == [field |-> Channels[m][k], owner |-> m, channel |-> k]
       IN  CASE Banked(m) -> Slice(m, BankOf(m))
             [] m = <<"PE", 1>> -> [k \in 1..5 |-> own(k)]
             [] m = <<"PE", 3>> ->
                  <<own(1), [field |-> Pe[3][2], owner |-> <<"PE", 1>>, channel |-> 6]>>
             [] OTHER -> [k \in 1..Len(Channels[m]) |-> own(k)]]

-----------------------------------------------------------------------------
(* The simulated car: a function from messages to the values of their      *)
(* channels.                                                               *)

\* Every third output and input is on.
Thirds(n, on) == [k \in 1..n |-> IF k % 3 = 1 THEN on ELSE 0]

\* sim_state_init
SimStateInit(m) ==
    LET n == m[2]
        zeros == [k \in 1..Len(Channels[m]) |-> 0]
        g == <<0, 0, 1000>>
        cd == <<<<80000, 80000, 80000, 80000>>, <<0, 80000>>, <<5000, 4000>>, g,
                <<0, 0>>, <<60000, 60000, 60000, 60000>>, <<0, 0, 0>>>>
        egt == <<750000, 750000, 750000, 750000>>
        pe == <<<<4500000, 30000, 1000, 100000, 3000, 0>>,
                <<90000, 100000, 35000, 4000>>, <<4000>>, egt, egt>>
        gps == <<<<-235505000, -466333000>>, <<760000, 80000, 90000>>>>
        ec == <<<<1000, 20000, 13200, 101300>>, <<0, 30000, 0, 0>>,
                <<60000, 30000, 25000, 22000>>, <<25000, 1200, 5000, 5000>>,
                <<150000, 150000, 60000, 0>>>>
    IN  CASE m[1] = "CD" -> cd[n]
          [] m[1] = "TTU" -> <<85000, 85000, 85000, 1800>>
          [] m[1] = "PE" -> pe[n]
          [] m[1] = "GPS" -> gps[n]
          [] m = <<"PD", 1>> -> <<13200, 0, 45000, 0, 9500>>
          [] m = <<"PD", 2>> -> Thirds(30, 2000)
          [] m = <<"PD", 6>> -> Thirds(30, 13000)
          [] m = <<"PD", 10>> -> Thirds(30, 1000)
          [] m = <<"PD", 11>> -> Thirds(16, 1000)
          [] m = <<"PD", 12>> -> Thirds(16, 5000)
          [] m = <<"PD", 16>> -> Thirds(30, 40000)
          [] m[1] = "EC" /\ n <= 5 -> ec[n]
          [] m = <<"EC", 10>> -> <<100000, 100000, 1000, 0, 0, 0, 3000>>
          [] m = <<"EC", 11>> -> <<70000, 0, 0>>
          [] m = <<"DA", 2>> -> <<35000, 5000, 13200>>
          [] m[1] = "LG" \/ m = <<"DA", 1>> -> g
          [] OTHER -> zeros

\* A car at rest, and one that has wandered to an end of every range.
CarAt(place) ==
    [m \in Messages |->
       LET ch == Channels[m]
       IN  [k \in 1..Len(ch) |->
              CASE place = "boot" \/ ch[k].move = "steady" -> SimStateInit(m)[k]
                [] place = "low" /\ ch[k].move # "steady" -> ch[k].lo
                [] place = "high" /\ ch[k].move # "steady" -> ch[k].hi]]

\* The ends of the range of channel k of m.
Least(m, k) ==
    LET f == Channels[m][k] IN IF f.move = "steady" THEN SimStateInit(m)[k] ELSE f.lo
Most(m, k) ==
    LET f == Channels[m][k]
    IN  CASE f.move = "steady"            -> SimStateInit(m)[k]
          [] f.move \in {"burn", "count"} -> MaxInt
          [] OTHER                        -> f.hi

\* What a channel of m starts with.  That of a walk may be outside its range, as
\* those of EC7 are, until the first step.
ChannelsHold(m) ==
    \A k \in 1..Len(Channels[m]) :
        LET f == Channels[m][k]
            v == SimStateInit(m)[k]
        IN  /\ f.step \in Int /\ f.lo \in Int /\ f.hi \in Int /\ v \in Int /\ f.lo <= f.hi
            /\ f.move \in {"walk", "wrap", "shift", "flip", "sum", "count", "burn", "steady"}
            /\ f.move = "flip" => v \in {0, 1000} /\ f.lo = 0 /\ f.hi = 1000
            /\ f.move = "wrap" => f.lo = 0 /\ f.hi = 359999
            /\ f.move = "sum" => f.lo = 0 /\ f.hi = 600000
            /\ f.move \in {"burn", "count"} => v \in 0..MaxCounter /\ f.lo = 0 /\ f.hi = MaxCounter

\* random_walk_f and random_walk_d, for a draw of d sevenths of the step.
RandomWalk(v, f, d) ==
    LET n == v + (f.step * d) \div 7
    IN  CASE n < f.lo -> f.lo [] n > f.hi -> f.hi [] OTHER -> n

\* random_walk_wrap_360
RandomWalkWrap360(v, f, d) == (v + (f.step * d) \div 7) % 360000

\* The gear goes up or down by one, and stays in [0,6] (encode_pe1).
Shift(v, f, d) == RandomWalk(v, f, CASE d < 0 -> -7 [] d = 0 -> 0 [] d > 0 -> 7)

\* Up to eight values of an array, from the one after start.
SumOf8(values, start) ==
    LET at(k) == IF start + k \in DOMAIN values THEN values[start + k] ELSE 0
    IN  at(1) + at(2) + at(3) + at(4) + at(5) + at(6) + at(7) + at(8)

\* pd_total_current_a, over the array as it is now (encode_pd1).
TotalCurrent(car) ==
    LET currents == car[<<"PD", 2>>]
    IN  SumOf8(currents, 0) + SumOf8(currents, 8) + SumOf8(currents, 16)
          + SumOf8(currents, 24)

\* rpm * throttle_pct / 100 * 0.02 (encode_pe1).
Burnt(rpm, throttle) == ((rpm \div 10) * (throttle \div 100)) \div 5000000

\* Mutant: every message of a bank moves the array of its bank.
WalkedByEach(m) == IF Banked(m) THEN {<<"PD", BankOf(m).first>>} ELSE {m}

\* Whose channels the encoder of m moves: its own.  Those of a bank are moved by
\* the encoder of the first message and by no other.
WalkedBy(m) == IF Banked(m) /\ m[2] # BankOf(m).first THEN {} ELSE {m}

\* The channels ch, of values old, after an encoder has moved them.  A draw d stands
\* for the results of esp_random(): how far to walk, whether to shift, which bit to
\* flip.
Walked(ch, old, total, d) ==
    [k \in 1..Len(ch) |->
       CASE ch[k].move = "walk"  -> RandomWalk(old[k], ch[k], d)
         [] ch[k].move = "wrap"  -> RandomWalkWrap360(old[k], ch[k], d)
         [] ch[k].move = "shift" -> Shift(old[k], ch[k], d)
         [] ch[k].move = "flip"  -> IF k = d THEN 1000 - old[k] ELSE old[k]
         [] ch[k].move = "sum"   -> total
         [] ch[k].move = "count" -> old[k] + 1
         [] OTHER                -> old[k]]

\* encode_pe1 adds to fuel_used_raw what the new speed and throttle burn.
Fuelled(m, new) ==
    IF m = <<"PE", 1>> THEN [new EXCEPT ![6] = @ + Burnt(new[1], new[2])] ELSE new

\* The car after the encoder of m.
Moved(car, m, d) ==
    [o \in Messages |->
       IF o \in WalkedBy(m) THEN Fuelled(o, Walked(Channels[o], car[o], TotalCurrent(car), d))
       ELSE car[o]]

\* What the encoder of m reads from the car once it has moved.
Read(car, puts) == [k \in 1..Len(puts) |-> car[puts[k].owner][puts[k].channel]]
Sent(car, m) == Read(car, Puts[m])

\* Mutant: the offset of the signal is forgotten.
RawWithoutOffset(f, v) == v \div Lsb(f.size, f.res)

\* The integer a put writes: (value + off) / scale, cut off.
Raw(f, v) == (v + f.off) \div Lsb(f.size, f.res)

\* Bit p of a payload of booleans (encode_pd_bits), and the byte from there on.
BitPut(puts, values, p) ==
    IF \E k \in 1..Len(values) : puts[k].field.at = p /\ values[k] # 0 THEN 1 ELSE 0

EightBitsPut(puts, values, p) ==
    LET bit(q) == BitPut(puts, values, p + q)
    IN  bit(0) + 2 * bit(1) + 4 * bit(2) + 8 * bit(3)
          + 16 * bit(4) + 32 * bit(5) + 64 * bit(6) + 128 * bit(7)

\* Byte b of any other payload.  Later puts overwrite earlier ones, what no put
\* covers is zero.
BytePut(puts, values, b) ==
    LET at(k) == puts[k].field.at
        covering == {k \in 1..Len(values) : at(k) <= b /\ b < at(k) + puts[k].field.size}
        last == CHOOSE k \in covering : \A l \in covering : l <= k
    IN  IF covering = {} THEN 0
        ELSE ByteOf(Raw(puts[last].field, values[last]), b - at(last))

\* s_payload_buffers[i] after the puts, and as much of it as is sent.
Written(puts, dlc, values) ==
    [b1 \in 1..dlc |->
       IF puts[1].field.size = 0 THEN EightBitsPut(puts, values, 8 * (b1 - 1))
       ELSE BytePut(puts, values, b1 - 1)]

Payload(m, values) == Written(Puts[m], Dlc(m), values)
=============================================================================
