-------------------------------- MODULE Candb --------------------------------
(***************************************************************************)
(* The signal database of the input service (candb.go): the messages it    *)
(* knows by their CAN identifier, the fields it takes out of a payload,    *)
(* and the value and kind it publishes of each (signals.go).  The signals  *)
(* of a message are in the order of the table; their names are left out.   *)
(***************************************************************************)
EXTENDS SignalUnits

Signal(type, size, at, scale, bias, min, max) ==
    [type |-> type, size |-> size, at |-> at, scale |-> scale, bias |-> bias,
     min |-> min, max |-> max]

Uint16(at, scale, bias, min, max) == Signal("Uint16", 2, at, scale, bias, min, max)
Uint8(at, scale, min, max) == Signal("Uint8", 1, at, scale, 0, min, max)
Int32(at, scale, min, max) == Signal("Int32", 4, at, scale, 0, min, max)

\* Signals that many messages have.
Speed(at) == Uint16(at, Deci, 0, 0, 300000)
Temperature(at, max) == Uint16(at, Deci, -40000, -40000, max)
Pressure(at, max) == Uint16(at, Deci, 0, 0, max)
Acceleration(at) == Uint16(at, Milli, -5000, -5000, 5000)
AngularRate(at) == Uint16(at, Centi, -163000, -163000, 163000)
ChassisAngle(at) == Uint16(at, Centi, -45000, -45000, 45000)
Damper(at) == Uint16(at, Centi, 0, 0, 150000)
Lambda(at) == Uint16(at, Milli, 500, 500, 1500)
Battery(at) == Uint16(at, Centi, 0, 0, 20000)
CamAngle(at) == Uint16(at, Deci, -30000, -30000, 30000)
Exhaust(at) == Uint16(at, One, 0, 0, 1200000)
Percent(at) == Uint8(at, One, 0, 100000)
Flag(at) == Uint8(at, One, 0, 1000)
Number(at) == Uint8(at, One, 0, 255000)

Message(id, dlc, signals) == [id |-> id, dlc |-> dlc, signals |-> signals]

ChassisMessages == {
    Message(256, 8, <<Speed(0), Speed(2), Speed(4), Speed(6)>>),
    Message(272, 4, <<Uint16(0, Deci, -720000, -720000, 720000), Speed(2)>>),
    Message(288, 4, <<Pressure(0, 200000), Pressure(2, 200000)>>),
    Message(368, 6, <<Acceleration(0), Acceleration(2), Acceleration(4)>>),
    Message(369, 4, <<ChassisAngle(0), ChassisAngle(2)>>),
    Message(370, 8, <<Damper(0), Damper(2), Damper(4), Damper(6)>>),
    Message(371, 6, <<AngularRate(0), AngularRate(2), AngularRate(4)>>) }

TyreMessages ==
    {Message(id, 8, <<Temperature(0, 150000), Temperature(2, 150000),
                      Temperature(4, 150000), Uint16(6, Centi, 0, 0, 4000)>>)
       : id \in {304, 320, 336, 352}}

EngineMessages ==
    {Message(512, 8, <<Uint16(0, One, 0, 0, 16000000), Percent(2), Lambda(3),
                       Pressure(5, 300000), Number(7)>>),
     Message(528, 8, <<Temperature(0, 150000), Temperature(2, 170000),
                       Temperature(4, 120000), Pressure(6, 10000)>>),
     Message(529, 6, <<Pressure(0, 10000), Int32(2, One, 0, 2147483647)>>)}
    \cup {Message(id, 8, <<Exhaust(0), Exhaust(2), Exhaust(4), Exhaust(6)>>)
            : id \in {544, 545}}

GpsMessages == {
    Message(768, 8, <<Int32(0, Deg7, -900000000, 900000000),
                      Int32(4, Deg7, -1800000000, 1800000000)>>),
    Message(784, 6, <<Uint16(0, Deci, -1000000, -1000000, 5553500), Speed(2),
                      Uint16(4, Centi, 0, 0, 360000)>>) }

\* pdmOutputBankMessages: n channels of a byte, eight to a message; and
\* pdmInputVoltageBankMessages: n channels of two bytes, four to a message.
PdmBankMessages(startId, n, size, scale, max) ==
    LET slots == 8 \div size
        count(j) == IF n - slots * j < slots THEN n - slots * j ELSE slots
        type == IF size = 1 THEN "Uint8" ELSE "Uint16"
    IN  {Message(startId + j, size * count(j),
                 [k \in 1..count(j) |-> Signal(type, size, size * (k - 1), scale, 0, 0, max)])
           : j \in 0..((n + slots - 1) \div slots - 1)}

\* pdmBitfieldMessage
PdmBitfieldMessage(id, n) ==
    Message(id, (n + 7) \div 8, [k \in 1..n |-> Signal("Bit", 0, k - 1, One, 0, 0, 1000)])

PdmMessages ==
    {Message(1024, 8, <<Battery(0), Pressure(2, 400000), Temperature(4, 150000),
                        Number(6), Uint8(7, Deci, 0, 25500)>>),
     PdmBitfieldMessage(1033, 30), PdmBitfieldMessage(1034, 16)}
    \cup PdmBankMessages(1025, 30, 1, Deci, 25500)
    \cup PdmBankMessages(1029, 30, 1, Deci, 25500)
    \cup PdmBankMessages(1035, 16, 2, Centi, 20000)
    \cup PdmBankMessages(1039, 30, 1, One, 100000)

\* ecPerCylinderMessage
EcPerCylinderMessage(id, scale, bias, min, max) ==
    Message(id, 8, [k \in 1..8 |-> Signal("Uint8", 1, k - 1, scale, bias, min, max)])

EcuMessages == {
    Message(1088, 8, <<Lambda(0), Uint16(2, Deci, -10000, -10000, 60000), Battery(4),
                       Uint16(6, Deci, 80000, 80000, 110000)>>),
    Message(1089, 6, <<Percent(0), Percent(1), CamAngle(2), CamAngle(4)>>),
    Message(1090, 8, <<Temperature(0, 150000), Temperature(2, 150000),
                       Temperature(4, 150000), Temperature(6, 150000)>>),
    Message(1091, 8, <<Temperature(0, 150000), Pressure(2, 10000), Pressure(4, 50000),
                       Uint16(6, Centi, 0, 0, 20000)>>),
    Message(1092, 7, <<Pressure(0, 400000), Pressure(2, 400000),
                       Uint16(4, Deci, 0, 0, 200000), Percent(6)>>),
    Message(1093, 8, <<CamAngle(0), CamAngle(2), CamAngle(4), CamAngle(6)>>),
    Message(1094, 8, <<CamAngle(0), CamAngle(2), Percent(4), Percent(5),
                       Percent(6), Percent(7)>>),
    EcPerCylinderMessage(1095, One, 0, 0, 100000),
    EcPerCylinderMessage(1096, Fifth, -20000, -20000, 31000),
    Message(1097, 7, <<Percent(0), Percent(1), Flag(2), Flag(3),
                       Uint8(4, One, 0, 10000), Flag(5), Number(6)>>),
    Message(1098, 6, <<Percent(0), Number(1), Int32(2, One, 0, 2147483647)>>),
    Message(1099, 2, <<Number(0), Number(1)>>) }

DashAndLoggerMessages == {
    Message(1120, 6, <<Acceleration(0), Acceleration(2), Acceleration(4)>>),
    Message(1121, 6, <<Temperature(0, 150000), Uint16(2, Centi, 0, 0, 10000), Battery(4)>>),
    Message(1136, 6, <<Acceleration(0), Acceleration(2), Acceleration(4)>>) }

\* buildMessages and messagesByID
AllMessages ==
    ChassisMessages \cup TyreMessages \cup EngineMessages \cup GpsMessages
      \cup PdmMessages \cup EcuMessages \cup DashAndLoggerMessages

MessagesById ==
    [id \in {msg.id : msg \in AllMessages} |-> CHOOSE msg \in AllMessages : msg.id = id]

\* One definition for an identifier: messagesByID keeps the last of several.
ASSUME CandbAssumption == \A a, b \in AllMessages : a.id = b.id => a = b

-----------------------------------------------------------------------------

\* decodeRaw, of a signal that ends within the data (and else an error).
DecodeRaw(sig, data) ==
    LET bytes == SubSeq(data, sig.at + 1, sig.at + sig.size)
    IN  CASE sig.type = "Bit" -> (data[sig.at \div 8 + 1] \div 2^(sig.at % 8)) % 2
          [] sig.type \in {"Uint8", "Uint16"} -> Unsigned(bytes)
          [] sig.type = "Int32" -> Signed(bytes)

Exceeds(sig, data) ==
    IF sig.type = "Bit" THEN sig.at \div 8 >= Len(data) ELSE sig.at + sig.size > Len(data)

\* decimalPlaces, and roundToDecimals of a value with so many decimals.
DecimalPlaces(scale) == scale[2]

RoundToDecimals(v, decimals, places) ==
    LET p == 10^(decimals - places) IN ((v + p \div 2) \div p) * p

\* DecodeSignals refuses a frame it does not know or that is too short.
Fits(msg, data) ==
    /\ Len(data) >= msg.dlc
    /\ \A k \in 1..Len(msg.signals) : ~Exceeds(msg.signals[k], data)

Decodes(id, data) == id \in DOMAIN MessagesById /\ Fits(MessagesById[id], data)

\* DecodeSignals, and the Value of the TelemetryRecords.
Value(sig, data) ==
    RoundToDecimals(DecodeRaw(sig, data) * Lsb(sig.size, sig.scale) + sig.bias,
                    Decimals(sig.size, sig.scale), DecimalPlaces(sig.scale))

DecodeSignals(msg, data) == [k \in 1..Len(msg.signals) |-> Value(msg.signals[k], data)]

\* Signal.ValueKind
ValueKind(sig) ==
    IF sig.min = 0 /\ sig.max = 1000 THEN "bool"
    ELSE IF sig.scale = One THEN "int" ELSE "float"
=============================================================================
