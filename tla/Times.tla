-------------------------------- MODULE Times --------------------------------
(***************************************************************************)
(* The time writers of time.go.  An instant is its Unix second and the     *)
(* nanoseconds past it, a zone its offset in seconds; a wall clock is its  *)
(* second of UTC: the calendar that spells it is time's, external, as are  *)
(* the digits of its fields.                                               *)
(***************************************************************************)
EXTENDS Numbers

CONSTANTS FirstSecond, LastSecond,      \* firstUnixSecond and lastUnixSecond
          Second,                       \* a second in nanoseconds, a power of ten
          SecondsPerMinute, MinutesPerHour, MinutesPerDay

ASSUME TimeAssumption ==
    /\ FirstSecond \in Int /\ LastSecond \in Int /\ FirstSecond <= LastSecond
    /\ {Second, SecondsPerMinute, MinutesPerHour, MinutesPerDay} \subseteq Nat \ {0}

InTimeRange(sec) == FirstSecond <= sec /\ sec <= LastSecond

ClampTime(t) ==
    IF t.sec < FirstSecond THEN [t EXCEPT !.sec = FirstSecond, !.ns = 0]
    ELSE IF t.sec > LastSecond THEN [t EXCEPT !.sec = LastSecond, !.ns = Second - 1]
    ELSE t

\* The digits of a second and ns, without their 1 and the zeros at the end.
AppendFraction(ns) ==
    LET digits == Tail(AppendInt64(ns + Second))
        last   == CHOOSE k \in DOMAIN digits : digits[k] # Zero /\ \A j \in k + 1 .. Len(digits) : digits[j] = Zero
    IN  IF ns = 0 THEN << >> ELSE <<Point>> \o SubSeq(digits, 1, last)

\* Z is no byte here.
AppendZone(minutes) ==
    LET east == IF minutes < 0 THEN -minutes ELSE minutes
    IN  IF minutes = 0 THEN << >>
        ELSE <<IF minutes < 0 THEN Minus ELSE Plus>>
             \o Pair(east \div MinutesPerHour) \o Pair(east % MinutesPerHour)

AppendClock(sec, ns, minutes) ==
    [clock |-> sec, fraction |-> AppendFraction(ns), zone |-> AppendZone(minutes)]

AppendTimeRFC3339(t) == LET c == ClampTime(t) IN AppendClock(c.sec, c.ns, 0)

\* a / b of Go, towards zero.
Truncated(a, b) == IF a < 0 THEN -((-a) \div b) ELSE a \div b

\* Mutant of AppendTimeRFC3339Offset: the wall clock may leave the range.
AppendTimeRFC3339OffsetAnywhere(t) ==
    LET c       == ClampTime(t)
        minutes == Truncated(t.offset, SecondsPerMinute)
    IN  IF -MinutesPerDay < minutes /\ minutes < MinutesPerDay
        THEN AppendClock(c.sec + minutes * SecondsPerMinute, c.ns, minutes)
        ELSE AppendClock(c.sec, c.ns, 0)

AppendTimeRFC3339Offset(t) ==
    LET c       == ClampTime(t)
        minutes == Truncated(t.offset, SecondsPerMinute)
        wall    == c.sec + minutes * SecondsPerMinute
    IN  IF -MinutesPerDay < minutes /\ minutes < MinutesPerDay /\ InTimeRange(wall)
        THEN AppendClock(wall, c.ns, minutes)
        ELSE AppendClock(c.sec, c.ns, 0)
=============================================================================
