-------------------------------- MODULE Swar ---------------------------------
(***************************************************************************)
(* The runs of swar.go and scan.go, which test a word of bytes at a time,  *)
(* and hex4 of decode.go, which reads four hex digits as one word.  A word *)
(* is a sequence of bytes, its lanes, the least significant first; its     *)
(* arithmetic borrows and carries from lane to lane, as that of the word   *)
(* does, so that what it says of a byte may be wrong behind another byte.  *)
(*                                                                         *)
(* A byte is a number, data a sequence of bytes, and a place in it an      *)
(* index from 1, Len(data) + 1 at the end.                                 *)
(***************************************************************************)
EXTENDS Integers, Sequences

CONSTANT WordSize       \* the bytes of a word, 8 in the code

ASSUME WordSizeAssumption == WordSize \in Nat \ {0}

Byte == 0 .. 255

Space == 32
Quote == 34
Backslash == 92

-----------------------------------------------------------------------------
(* Words.                                                                  *)

\* The word x less y in every lane.
Minus(x, y) ==
    LET Borrow[k \in 0 .. Len(x)] ==
            IF k > 0 /\ x[k] < y + Borrow[k - 1] THEN 1 ELSE 0
    IN  [k \in DOMAIN x |-> (256 + x[k] - y - Borrow[k - 1]) % 256]

\* The word x and y in every lane added.
Plus(x, y) ==
    LET Carry[k \in 0 .. Len(x)] ==
            IF k > 0 /\ x[k] + y + Carry[k - 1] > 255 THEN 1 ELSE 0
    IN  [k \in DOMAIN x |-> (x[k] + y + Carry[k - 1]) % 256]

\* The exclusive or of two bytes, bit by bit.
XorByte[a \in Byte, b \in Byte] ==
    IF a = 0 THEN b ELSE 2 * XorByte[a \div 2, b \div 2] + ((a + b) % 2)

Xor(x, y) == [k \in DOMAIN x |-> XorByte[x[k], y]]

\* The lanes whose high bit is set: a word masked by swarHi or hexTops.
High(x) == {k \in DOMAIN x : x[k] >= 128}

BorrowLanes(x) == High(Minus(x, 1)) \ High(x)

PlainMask(w) == High(Minus(w, Space)) \union High(w)
                \union BorrowLanes(Xor(w, Quote)) \union BorrowLanes(Xor(w, Backslash))

\* Mutant of BodyMask: bytes of UTF-8 are flagged where a space is borrowed from them.
BodyMaskAnyHigh(w) == High(Minus(w, Space))
                      \union BorrowLanes(Xor(w, Quote)) \union BorrowLanes(Xor(w, Backslash))

BodyMask(w) == (High(Minus(w, Space)) \ High(w))
               \union BorrowLanes(Xor(w, Quote)) \union BorrowLanes(Xor(w, Backslash))

\* How many lanes lie below the lowest flag.
FirstLane(m) == (CHOOSE k \in m : \A other \in m : k <= other) - 1

Load(data, j) == SubSeq(data, j, j + WordSize - 1)

\* A word moved down by n lanes, zeros above.
ShiftedDown(w, n) == [k \in DOMAIN w |-> IF k + n \in DOMAIN w THEN w[k + n] ELSE 0]

-----------------------------------------------------------------------------
(* Runs.                                                                   *)

PlainByte(c) == c >= Space /\ c < 128 /\ c # Quote /\ c # Backslash
BodyByte(c)  == c >= Space /\ c # Quote /\ c # Backslash

\* The first place from j on whose byte is none of Bytes: plainBytes, bodyBytes and
\* bracedBytes.
ByteRun(data, j, Bytes) ==
    CHOOSE k \in j .. Len(data) + 1 :
        /\ \A before \in j .. k - 1 : data[before] \in Bytes
        /\ k > Len(data) \/ data[k] \notin Bytes

PlainSet == {c \in Byte : PlainByte(c)}
BodySet  == {c \in Byte : BodyByte(c)}

\* A word at a time while a whole one is left, then byte by byte: bodyRun and bracedRun.
WordRun(data, j, Mask(_), Bytes) ==
    LET Run[k \in j .. Len(data) + 1] ==
            LET m == Mask(Load(data, k))
            IN  IF k + WordSize > Len(data) + 1 THEN ByteRun(data, k, Bytes)
                ELSE IF m # {} THEN k + FirstLane(m)
                ELSE Run[k + WordSize]
    IN  Run[j]

BodyRun(data, j) == WordRun(data, j, BodyMask, BodySet)

\* The last word is read again from its start, or, less than a word from the end, moved
\* down to j with zeros above, which are not plain.
PlainRun(data, j) ==
    LET last == Len(data) - WordSize + 1
        lastMask == PlainMask(Load(data, last))
        Run[k \in j .. Len(data) + WordSize] ==
            LET m == PlainMask(Load(data, k))
            IN  IF k >= last
                THEN IF lastMask # {} THEN last + FirstLane(lastMask) ELSE Len(data) + 1
                ELSE IF m # {} THEN k + FirstLane(m)
                ELSE Run[k + WordSize]
    IN  IF last < 1 THEN ByteRun(data, j, PlainSet)
        ELSE IF j > last + 1 THEN j + FirstLane(PlainMask(ShiftedDown(Load(data, last), j - last)))
        ELSE Run[j]

\* '}' is as far past '{' as ']' is past '['.
CloserOf(opener) == opener + 2

BracedMask(w, opener) ==
    BorrowLanes(Xor(w, Quote)) \union BorrowLanes(Xor(w, opener)) \union BorrowLanes(Xor(w, CloserOf(opener)))

BracedRun(data, j, opener) ==
    LET Stops == {Quote, opener, CloserOf(opener)}
    IN  IF j <= Len(data) /\ data[j] \in Stops THEN j
        ELSE WordRun(data, j, LAMBDA w : BracedMask(w, opener), Byte \ Stops)

-----------------------------------------------------------------------------
(* Hex digits.                                                             *)

Malformed == -2

\* The word of four bytes of big-endian data, each lane with bit 5 set: lower case.
Reversed(digits) == [k \in 1 .. 4 |-> digits[5 - k]]
Lowered(w) == [k \in DOMAIN w |-> IF (w[k] \div 32) % 2 = 1 THEN w[k] ELSE w[k] + 32]

\* The lanes of w between two characters, by additions that set the high bit.
Between(w, first, past) == High(Plus(w, 128 - first)) \ High(Plus(w, 128 - past))

\* '0' to '9' are worth their low nibble and letters 9 more, a lane at a time; the lanes,
\* each below 16 then, are joined by two shifts.
Hex4(digits) ==
    LET w == Reversed(digits)
        v == [k \in 1 .. 4 |-> (w[k] % 16) + 9 * ((w[k] \div 64) % 2)]
    IN  IF Between(w, 48, 58) \union Between(Lowered(w), 97, 103) # 1 .. 4 THEN Malformed
        ELSE (16 * v[4] + v[3]) * 256 + 16 * v[2] + v[1]
=============================================================================
