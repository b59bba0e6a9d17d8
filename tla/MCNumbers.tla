------------------------------ MODULE MCNumbers ------------------------------
(***************************************************************************)
(* Numbers and Times on bounded inputs: every text of number characters,   *)
(* every integer to past a word, floats by their parts, instants and       *)
(* offsets to past the ends of their ranges.                               *)
(***************************************************************************)
EXTENDS Times, SequencesExt, FiniteSetsExt

CONSTANTS MaxText, MaxInt, MaxFrac

VARIABLES
    kind,       \* of input: "text", "integer", "float" or "time"
    input

vars == <<kind, input>>

MCLimit == <<49, 57>>
MCZeroExponent == -5
MCFirstSecond == -20

Exponents == {<< >>} \union {<<Mark>> \o sign \o digits :
                 sign \in {<< >>, <<Minus>>}, digits \in {<<48>>, <<49>>, <<50>>, <<48, 52>>, <<57, 57>>,
                              <<49, 48, 48>>, <<49, 48, 50>>, <<49, 48, 48, 48>>}}

Whole == {<<48>>} \union {s \in BoundedSeq({48, 49, 57}, MaxInt) : s # << >> /\ s[1] # 48}

Init ==
    \/ kind = "text" /\ input = << >>
    \/ kind = "integer" /\ input \in -(Word + 20) .. Word + 20
    \/ kind = "float" /\ \E int \in Whole, frac \in BoundedSeq({48, 49, 57}, MaxFrac), exp \in Exponents :
           input = [int |-> int, frac |-> frac, exp |-> exp]
    \/ kind = "time" /\ \E sec \in FirstSecond - 3 .. LastSecond + 3, ns \in {0, 5, 50, 120, 999},
                           offset \in -((MinutesPerDay + 2) * SecondsPerMinute) .. (MinutesPerDay + 2) * SecondsPerMinute :
           input = [sec |-> sec, ns |-> ns, offset |-> offset]

Grow == \E c \in {Minus, Plus, Point, Mark, 48, 49, 57} :
    /\ kind = "text" /\ Len(input) < MaxText
    /\ input' = Append(input, c)
    /\ UNCHANGED kind

Spec == Init /\ [][Grow]_vars

-----------------------------------------------------------------------------
(* The grammar as an automaton, and what digits spell.                     *)

Step(state, c) ==
    CASE state = "start" /\ c = Minus -> "minus"
      [] state \in {"start", "minus"} /\ c = Zero -> "zero"
      [] state \in {"start", "minus", "int"} /\ IsDigit(c) -> "int"
      [] state \in {"zero", "int"} /\ c = Point -> "point"
      [] state \in {"point", "frac"} /\ IsDigit(c) -> "frac"
      [] state \in {"zero", "int", "frac"} /\ c = Mark -> "mark"
      [] state = "mark" /\ c \in {Plus, Minus} -> "sign"
      [] state \in {"mark", "sign", "exp"} /\ IsDigit(c) -> "exp"
      [] OTHER -> "no number"

After(text) == FoldLeft(Step, "start", text)

Spelled(digits) == FoldLeft(LAMBDA v, c : 10 * v + c - Zero, 0, digits)
Value(text) == IF text[1] = Minus THEN -Spelled(Tail(text)) ELSE Spelled(text)

RECURSIVE Decimal(_)
Decimal(v) == IF v < 0 THEN <<Minus>> \o Decimal(-v)
              ELSE IF v < 10 THEN <<Zero + v>> ELSE Append(Decimal(v \div 10), Zero + (v % 10))

Within(v, low, high) == IF low <= v /\ v <= high THEN Is(v) ELSE Refused

-----------------------------------------------------------------------------
\* A text is a number or an integer exactly when the grammar says so, an integer decodes to
\* its value exactly when the type holds it, the last digit and the least value included,
\* and each value is written as its shortest decimal (DecodeInt64, DecodeUint64, IsNumber,
\* appendInt64 and appendUint64).
IntegersExact ==
    /\ kind = "text" =>
          LET integer == After(input) \in {"zero", "int"}
          IN  /\ IsNumber(input) <=> After(input) \in {"zero", "int", "frac", "exp"}
              /\ DecodeInt64(input) = IF integer THEN Within(Value(input), -Half, Half - 1) ELSE Refused
              /\ DecodeUint64(input) = IF integer /\ input[1] # Minus
                                       THEN Within(Value(input), 0, Word - 1) ELSE Refused
    /\ kind = "integer" =>
          /\ DecodeInt64(Decimal(input)) = Within(input, -Half, Half - 1)
          /\ DecodeUint64(Decimal(input)) = Within(input, 0, Word - 1)
          /\ input \in -Half .. Half - 1 => AppendInt64(input) = Decimal(input)
          /\ input \in 0 .. Word - 1 => AppendUint64(input) = Decimal(input)

\* What a rounding can tell of digits with their point before the first: zero, or the first
\* PointDigits, whether anything but zeros follows, and the point.
Seen(digits, more, point) ==
    LET Trimmed(d) == Reverse(TrimZeros(Reverse(d)))
        head == Least(Len(digits), PointDigits)
    IN  IF ~NonZero(digits) \/ point <= ZeroExponent THEN <<"zero">>
        ELSE <<Trimmed(SubSeq(digits, 1, head)), more \/ NonZero(SubSeq(digits, head + 1, Len(digits))), point>>

\* A float is refused exactly from the limit up, however its digits are split by the point
\* and the exponent, and what is handed to strconv, which keeps some of the digits and
\* misreads long points and exponents, is read as the number (decodeFloat: "hands strconv a
\* text it reads exactly").
FloatsKept ==
    kind = "float" =>
        LET text   == input.int \o (IF input.frac = << >> THEN << >> ELSE <<Point>> \o input.frac) \o input.exp
            exp    == IF input.exp = << >> THEN 0 ELSE Value(Tail(input.exp))
            digits == TrimZeros(input.int \o input.frac)
            point  == exp + Len(digits) - Len(input.frac)
            \* The whole part; past Limit when it has more digits.
            whole  == IF digits = << >> \/ point <= 0 THEN 0
                      ELSE IF point > Len(Limit) THEN Spelled(Limit)
                      ELSE Spelled([k \in 1 .. point |-> IF k <= Len(digits) THEN digits[k] ELSE Zero])
        IN  \A sign \in {<< >>, <<Minus>>} :
                LET result == DecodeFloat(sign \o text)
                IN  /\ result.ok <=> whole < Spelled(Limit)
                    /\ result.ok => LET r == result.read[1]
                                    IN  Seen(r.digits, r.more, r.point) = Seen(digits, FALSE, point)

\* The instant that a clock with its fraction and zone names.
ZoneMinutes(zone) ==
    IF zone = << >> THEN 0
    ELSE LET m == Spelled(SubSeq(zone, 2, 3)) * MinutesPerHour + Spelled(SubSeq(zone, 4, 5))
         IN  IF zone[1] = Minus THEN -m ELSE m

Nanos(fraction) ==
    IF fraction = << >> THEN 0
    ELSE Spelled(Tail(fraction)) * (Second \div 10 ^ (Len(fraction) - 1))

\* What either writer writes names the instant, or the nearest of the range when it lies
\* outside, on a clock within the range; the zone is that of the instant in whole minutes
\* unless it spans a day or takes the clock out of the range, and no zero ends a fraction.
TimesNameInstant ==
    kind = "time" =>
        LET nearest == IF input.sec < FirstSecond THEN <<FirstSecond, 0>>
                       ELSE IF input.sec > LastSecond THEN <<LastSecond, Second - 1>>
                       ELSE <<input.sec, input.ns>>
            zone == (IF input.offset < 0 THEN -1 ELSE 1) * (Max({input.offset, -input.offset}) \div SecondsPerMinute)
            kept == Max({zone, -zone}) < MinutesPerDay
                    /\ nearest[1] + zone * SecondsPerMinute \in FirstSecond .. LastSecond
        IN  \A keeping \in BOOLEAN :
                LET w == IF keeping THEN AppendTimeRFC3339Offset(input) ELSE AppendTimeRFC3339(input)
                    m == ZoneMinutes(w.zone)
                IN  /\ <<w.clock - m * SecondsPerMinute, Nanos(w.fraction)>> = nearest
                    /\ w.clock \in FirstSecond .. LastSecond
                    /\ m = IF keeping /\ kept THEN zone ELSE 0
                    /\ w.fraction # << >> => Last(w.fraction) # Zero
=============================================================================
