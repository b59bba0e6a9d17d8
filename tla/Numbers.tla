------------------------------- MODULE Numbers -------------------------------
(***************************************************************************)
(* The numbers of a document: their grammar (scan.go), the integers and    *)
(* floats they decode to (scalar.go) and the integers that are written     *)
(* (number.go).  A text is a sequence of bytes; a place in it is an index  *)
(* from 1, and 0 where the code returns false.                             *)
(*                                                                         *)
(* strconv is external.  Of a float only what strconv reads is modelled,   *)
(* the first digits of a number, whether more follow and where its point   *)
(* is: the rounding of it is strconv's.                                    *)
(***************************************************************************)
EXTENDS Integers, Sequences

CONSTANTS
    Word,               \* 2^64: how many values an unsigned integer has
    PointDigits,        \* the digits strconv keeps, 800
    MisreadExponent,    \* the power of ten from which strconv misreads an exponent, 100000
    ZeroExponent,       \* -400: 0.digits rounds to zero from there down
    Limit               \* the digits of float64Limit or float32Limit

ASSUME WordAssumption == Word \in Nat /\ Word > 1000 /\ Word % 2 = 0

\* What the comments of scalar.go say of its constants: the limit has no more digits
\* than strconv keeps and ends in none that is zero, and an exponent that strconv cuts
\* short is still one that rounds to zero, whatever digits come before the point.
ASSUME FloatAssumption ==
    /\ PointDigits \in Nat \ {0} /\ MisreadExponent \in Nat /\ MisreadExponent % 10 = 0
    /\ Limit \in Seq(48 .. 57) \ {<< >>} /\ Len(Limit) <= PointDigits
    /\ Limit[1] # 48 /\ Limit[Len(Limit)] # 48
    /\ ZeroExponent \in Int /\ PointDigits - MisreadExponent \div 10 <= ZeroExponent

Half == Word \div 2

Minus == 45
Plus  == 43
Point == 46
Zero  == 48
Mark  == 101        \* 'e', for 'E' too

IsDigit(c) == c \in 48 .. 57

Least(m, n) == IF m < n THEN m ELSE n

-----------------------------------------------------------------------------
(* The grammar.                                                            *)

Has(data, i, c) == i <= Len(data) /\ data[i] = c

SkipDigits(data, i) ==
    CHOOSE j \in i .. Len(data) + 1 :
        /\ \A k \in i .. j - 1 : IsDigit(data[k])
        /\ j > Len(data) \/ ~IsDigit(data[j])

SkipDigitRun(data, i) == LET j == SkipDigits(data, i) IN IF j > i THEN j ELSE 0

SkipInteger(data, i) ==
    LET j == IF Has(data, i, Minus) THEN i + 1 ELSE i
    IN  IF Has(data, j, Zero) THEN j + 1 ELSE SkipDigitRun(data, j)

SkipFraction(data, i) == IF Has(data, i, Point) THEN SkipDigitRun(data, i + 1) ELSE i

SkipExponent(data, i) ==
    LET signed == Has(data, i + 1, Plus) \/ Has(data, i + 1, Minus)
    IN  IF Has(data, i, Mark) THEN SkipDigitRun(data, IF signed THEN i + 2 ELSE i + 1) ELSE i

NoSpan == [intEnd |-> 0, fracEnd |-> 0, end |-> 0]

NumberAt(data, i) ==
    LET intEnd  == SkipInteger(data, i)
        fracEnd == SkipFraction(data, intEnd)
        end     == SkipExponent(data, fracEnd)
    IN  IF intEnd = 0 \/ fracEnd = 0 \/ end = 0 THEN NoSpan
        ELSE [intEnd |-> intEnd, fracEnd |-> fracEnd, end |-> end]

IsInteger(d) == SkipInteger(d, 1) = Len(d) + 1
IsNumber(d)  == NumberAt(d, 1).end = Len(d) + 1

-----------------------------------------------------------------------------
(* Integers.                                                               *)

Refused == [v |-> 0, ok |-> FALSE]
Is(v)   == [v |-> v, ok |-> TRUE]

\* Mutant of DigitsValue: overflow is looked for in the sum only.
DigitsValueWrapped(d) ==
    LET Value[k \in 0 .. Len(d)] ==
            LET sum == ((Value[k - 1].v * 10) % Word) + d[k] - Zero
            IN  IF k = 0 THEN Is(0)
                ELSE IF ~Value[k - 1].ok \/ sum >= Word THEN Refused
                ELSE Is(sum)
    IN  Value[Len(d)]

\* A digit a turn, until the product or the sum passes a word.
DigitsValue(d) ==
    LET Value[k \in 0 .. Len(d)] ==
            LET product == Value[k - 1].v * 10
                sum     == (product % Word) + d[k] - Zero
            IN  IF k = 0 THEN Is(0)
                ELSE IF ~Value[k - 1].ok \/ product >= Word \/ sum >= Word THEN Refused
                ELSE Is(sum)
    IN  Value[Len(d)]

DecodeInt64(d) ==
    LET negative == d[1] = Minus
        value    == DigitsValue(IF negative THEN Tail(d) ELSE d)
    IN  IF ~IsInteger(d) \/ ~value.ok THEN Refused
        ELSE IF value.v < Half THEN Is(IF negative THEN -value.v ELSE value.v)
        ELSE IF negative /\ value.v = Half THEN Is(-Half)
        ELSE Refused

DecodeUint64(d) == IF ~IsInteger(d) \/ d[1] = Minus THEN Refused ELSE DigitsValue(d)

Pair(v) == <<Zero + v \div 10, Zero + (v % 10)>>

\* Up to three digits at once, and more of them two a division.
AppendUint64(v) ==
    LET Pairs[w \in Nat] == IF w >= 100 THEN Pairs[w \div 100] \o Pair(w % 100)
                            ELSE IF w >= 10 THEN Pair(w) ELSE <<Zero + w>>
    IN  IF v \in 100 .. 999 THEN <<Zero + v \div 100>> \o Pair(v % 100) ELSE Pairs[v]

\* The magnitude of a negative number is the complement, less its sign bit, and one.
AppendInt64(v) == IF v < 0 THEN <<Minus>> \o AppendUint64(((-v - 1) % Half) + 1) ELSE AppendUint64(v)

-----------------------------------------------------------------------------
(* Floats.                                                                 *)

\* bytes.TrimLeft(d, "0"), external.
TrimZeros(d) == LET k == CHOOSE k \in 1 .. Len(d) + 1 :
                             /\ \A i \in 1 .. k - 1 : d[i] = Zero
                             /\ k > Len(d) \/ d[k] # Zero
                IN  SubSeq(d, k, Len(d))

NonZero(d) == TrimZeros(d) # << >>

\* The exponent that digits give, at most bound.
Saturated(digits, bound) ==
    LET E[k \in 0 .. Len(digits)] == IF k = 0 THEN 0 ELSE Least(E[k - 1] * 10 + digits[k] - Zero, bound)
    IN  E[Len(digits)]

ExponentOf(d, bound) ==
    IF d = << >> THEN 0
    ELSE IF d[2] = Minus THEN -Saturated(SubSeq(d, 3, Len(d)), bound)
    ELSE Saturated(SubSeq(d, IF d[2] = Plus THEN 3 ELSE 2, Len(d)), bound)

\* The significant digits of a number, before and behind its point one sequence here.
DecimalOf(d, s) ==
    LET first    == SubSeq(d, IF d[1] = Minus THEN 2 ELSE 1, s.intEnd - 1)
        second   == SubSeq(d, s.intEnd + 1, s.fracEnd - 1)
        exponent == ExponentOf(SubSeq(d, s.fracEnd, Len(d)), Len(d) + MisreadExponent)
        is(digits, point) == [negative |-> d[1] = Minus, digits |-> digits, point |-> point, exponent |-> exponent]
    IN  IF first[1] = Zero THEN is(TrimZeros(second), Len(TrimZeros(second)) - Len(second))
        ELSE is(first \o second, Len(first))

\* Digits less than those of Limit at the first place where they differ or have run out.
LessDigits(digits) ==
    \E k \in DOMAIN Limit :
        /\ k > Len(digits) \/ digits[k] < Limit[k]
        /\ \A before \in 1 .. k - 1 : before <= Len(digits) /\ digits[before] = Limit[before]

Below(n) ==
    LET x == n.point + n.exponent
    IN  \/ n.digits = << >> \/ x < Len(Limit)
        \/ x = Len(Limit) /\ LessDigits(n.digits)

\* Mutant of Exact: digits before the point are not counted.
ExactExponent(n) == n.exponent < MisreadExponent

Exact(n) == n.point <= PointDigits /\ n.exponent < MisreadExponent

\* [-]0.digits, a 1 for the digits that are left out, and the exponent.
Canonical(n) ==
    LET head == Least(Len(n.digits), PointDigits)
        x    == n.point + n.exponent
    IN  (IF n.negative THEN <<Minus>> ELSE << >>) \o <<Zero, Point>>
        \o SubSeq(n.digits, 1, head)
        \o (IF NonZero(SubSeq(n.digits, head + 1, Len(n.digits))) THEN <<49>> ELSE << >>)
        \o <<Mark>> \o AppendInt64(IF x < ZeroExponent THEN ZeroExponent ELSE x)

\* strconv.ParseFloat: PointDigits digits are kept, and the point is read among them;
\* digits of an exponent are added until the next would pass MisreadExponent.
Strconv(text) ==
    LET Place(c, otherwise) == IF \E k \in DOMAIN text : text[k] = c
                               THEN CHOOSE k \in DOMAIN text : text[k] = c ELSE otherwise
        e      == Place(Mark, Len(text) + 1)
        point  == Place(Point, e)
        before == TrimZeros(SubSeq(text, IF text[1] = Minus THEN 2 ELSE 1, point - 1))
        behind == SubSeq(text, point + 1, e - 1)
        digits == TrimZeros(before \o behind)
        head   == Least(Len(digits), PointDigits)
        signed == e < Len(text) /\ text[e + 1] \in {Plus, Minus}
        Read[k \in e .. Len(text)] ==
            IF k <= e + (IF signed THEN 1 ELSE 0) THEN 0
            ELSE IF Read[k - 1] < MisreadExponent \div 10 THEN Read[k - 1] * 10 + text[k] - Zero
            ELSE Read[k - 1]
        exponent == IF e > Len(text) THEN 0
                    ELSE IF text[e + 1] = Minus THEN -Read[Len(text)] ELSE Read[Len(text)]
    IN  [digits |-> SubSeq(digits, 1, head),
         more   |-> NonZero(SubSeq(digits, head + 1, Len(digits))),
         point  |-> exponent + (IF before # << >> THEN Least(Len(before), PointDigits)
                                ELSE Len(digits) - Len(behind))]

\* Whether the number d is decoded at all, and what of it strconv reads.
DecodeFloat(d) ==
    LET s == NumberAt(d, 1)
        n == DecimalOf(d, s)
    IN  IF s.end # Len(d) + 1 \/ ~Below(n) THEN [ok |-> FALSE, read |-> << >>]
        ELSE [ok |-> TRUE, read |-> <<Strconv(IF Exact(n) THEN d ELSE Canonical(n))>>]
=============================================================================
