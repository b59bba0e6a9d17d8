SPECIFICATION Spec
CONSTANTS
    Word = 16384
    PointDigits = 2
    MisreadExponent = 100
    ZeroExponent <- MCZeroExponent
    Limit <- MCLimit
    FirstSecond <- MCFirstSecond
    LastSecond = 40
    Second = 1000
    SecondsPerMinute = 3
    MinutesPerHour = 2
    MinutesPerDay = 5
    MaxText = 6
    MaxInt = 4
    MaxFrac = 4
CHECK_DEADLOCK FALSE
INVARIANTS
    IntegersExact
    FloatsKept
    TimesNameInstant
