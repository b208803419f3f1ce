----------------------------- MODULE Encodings ------------------------------
(***************************************************************************)
(* How the values of row key columns become a fixed number of bytes: the   *)
(* integer and date encodings and the byte helpers of utils.  A byte has   *)
(* Radix values and a long LongLength bytes, so that TLC can count them.   *)
(* A date is given as its day number, 0 for 1970-01-01.                    *)
(***************************************************************************)
EXTENDS Integers, SequencesExt

CONSTANTS
    Radix,          \* 256
    LongLength,     \* 8
    IntLength,      \* 4
    DateLength,     \* fixed_len_ of DateDimEnc, 3
    DaySeconds,     \* 86400
    DaysTo1970,     \* 719530
    ZoneOffset,     \* local midnight is so many seconds before that of UTC
    DstShift,       \* the seconds daylight saving time takes off
    UnsetTimes      \* what mktime may return for a tm that nothing has set

\* base to the power n.
Power(base, n) ==
    LET Powers[i \in Nat] == IF i = 0 THEN 1 ELSE base * Powers[i - 1] IN Powers[n]

ASSUME LengthAssumption ==
    /\ Radix \in Nat /\ Radix > 1 /\ Radix % 2 = 0
    /\ {DateLength, IntLength, LongLength} \subseteq Nat
    /\ 0 < DateLength /\ DateLength < IntLength /\ IntLength < LongLength

\* Local midnight is within a day of that of UTC.  mktime may take t for a time
\* with or without daylight saving, as nothing sets tm_isdst; here that never
\* changes the day.
ASSUME ZoneAssumption ==
    /\ DaySeconds \in Nat \ {0} /\ DaysTo1970 \in Nat /\ {ZoneOffset, DstShift} \subseteq Int
    /\ UnsetTimes \subseteq Int /\ UnsetTimes # {}
    /\ (-ZoneOffset) \div DaySeconds \in {-1, 0}
    /\ (-ZoneOffset - DstShift) \div DaySeconds = (-ZoneOffset) \div DaySeconds

\* An unsigned number as a signed one of so many bytes.
Signed(n, len) ==
    LET m == n % Power(Radix, len)
    IN  IF m < Power(Radix, len) \div 2 THEN m ELSE m - Power(Radix, len)

\* utils::write_long, and long_to_bytes for LongLength bytes: the low bytes.
WriteLong(num, size) == [i \in 1 .. size |-> (num \div Power(Radix, size - i)) % Radix]

\* utils::read_long: what `integer' held before is shifted out by a whole long
\* only.
ReadLong(bytes) ==
    LET size == Len(bytes)
        Value[i \in 0 .. size] == IF i = 0 THEN 0 ELSE Value[i - 1] * Radix + bytes[i]
    IN  {garbage * Power(Radix, size) + Value[size] : garbage \in 0 .. Power(Radix, LongLength - size) - 1}

-----------------------------------------------------------------------------
\* DimensionEncoding::is_null.
IsNull(bytes) == bytes # <<>> /\ \A i \in DOMAIN bytes : bytes[i] = Radix - 1

\* IntegerDimEnc::CAP.
Cap(len) == Power(Radix, len) \div 2 - 1

\* IntegerDimEnc::encode and decode; write_long and MASK take the low bytes.
EncodeInteger(value, len) == WriteLong((value + Cap(len)) % Power(Radix, LongLength), len)
DecodeInteger(bytes) ==
    {Signed(integer - Cap(Len(bytes)), Len(bytes)) : integer \in ReadLong(bytes)}

\* get_epoch_time.  What strptime cannot read leaves the day, month and year as
\* they were, which is not set.
EpochTimes(day) ==
    IF day \in Int THEN {day * DaySeconds - ZoneOffset - dst : dst \in {0, DstShift}}
    ELSE UnsetTimes

\* value_to_code: the seconds are unsigned, and the code an int.
DateCode(seconds) == Signed((seconds % Power(Radix, LongLength)) \div DaySeconds + DaysTo1970, IntLength)

EncodeDate(day) == {WriteLong(DateCode(seconds), DateLength) : seconds \in EpochTimes(day)}

\* code_to_value, of a column that is not declared with an integer type (one
\* that is has the same seconds written as a date; the job decodes neither): the
\* seconds are computed in an int, from a code with a byte read_long left in it.
DecodeDate(bytes) ==
    {Signed((Signed(code, IntLength) - DaysTo1970) * DaySeconds, IntLength) : code \in ReadLong(bytes)}

-----------------------------------------------------------------------------
\* parse_encoding_conf, of an encoding given as what is between its colons: the
\* last colon ends the name.
ParseEncodingConf(encoding) ==
    IF Len(encoding) = 1 THEN <<encoding>> ELSE <<Front(encoding), <<Last(encoding)>>>>

\* RowKeyColDesc::init: the encoding's name and arguments.
RowKeyColDesc(encoding) ==
    LET encoding_params == ParseEncodingConf(encoding)
    IN  [encoding_name |-> encoding_params[1], encoding_args |-> FlattenSeq(Tail(encoding_params))]

\* DimensionEncodingFactory::create.
Create(col_desc) ==
    CASE col_desc.encoding_name = <<"date">> ->
            [name |-> "date", fixed_len |-> DateLength]
      [] col_desc.encoding_name = <<"integer">> ->
            [name |-> "integer", fixed_len |-> col_desc.encoding_args[1]]
      [] OTHER -> [name |-> "integer", fixed_len |-> 4]

\* The bytes a number may be encoded in.
Encode(enc, value) ==
    IF enc.name = "date" THEN EncodeDate(value) ELSE {EncodeInteger(value, enc.fixed_len)}

\* A column's bytes stand for a value: a day may come back as the one before
\* it, and as any when the left byte is wrong.
StandsFor(enc, bytes, value) ==
    IF enc.name = "date"
    THEN {(value - 1) * DaySeconds, value * DaySeconds} \cap DecodeDate(bytes) # {}
    ELSE DecodeInteger(bytes) = {value}

\* The values that have bytes of their own: a date is after 1970-01-01, its
\* seconds are an int, and its bytes are not those of NULL.
HasBytes(enc, value) ==
    IF enc.name = "date"
    THEN value \in Nat \ {0} /\ value * DaySeconds < Power(Radix, IntLength) \div 2
                             /\ value + DaysTo1970 < Power(Radix, DateLength) - 1
    ELSE value \in -Cap(enc.fixed_len) .. Cap(enc.fixed_len)
=============================================================================
