----------------------------- MODULE StringCodec -----------------------------
(***************************************************************************)
(* The strings of a document, byte by byte: the scanners of scan.go,       *)
(* validate.go and decode.go that find the end of a string, decode it or   *)
(* compare it on the way, the writer of escape.go, and the order of keys   *)
(* of encode.go.  The scanners are separate loops over the same steps: a   *)
(* clean run, a short escape, or what runeAt reads.                        *)
(*                                                                         *)
(* Bytes and places are those of Swar; a run there is what its byte by     *)
(* byte form finds.  unicode/utf8 is external.                             *)
(***************************************************************************)
EXTENDS Swar

-----------------------------------------------------------------------------
(* unicode/utf8.                                                           *)

RuneError == 65533

\* The continuation bytes that a first byte of UTF-8 calls for, and the least and
\* the greatest second byte.
Continued(c) == IF c \in 194 .. 223 THEN 1
                ELSE IF c \in 224 .. 239 THEN 2 ELSE IF c \in 240 .. 244 THEN 3 ELSE 0
Second(c) == (IF c = 224 THEN 160 ELSE IF c = 240 THEN 144 ELSE 128)
             .. (IF c = 237 THEN 159 ELSE IF c = 244 THEN 143 ELSE 191)

\* DecodeRune at data[j]: RuneError and one byte for what is no UTF-8.
DecodeRune(data, j) ==
    LET c == data[j]
        n == Continued(c)
        tail(k) == data[j + k] - 128
        valid == /\ n > 0 /\ j + n <= Len(data)
                 /\ data[j + 1] \in Second(c)
                 /\ \A k \in 2 .. n : data[j + k] \in 128 .. 191
    IN  IF c < 128 THEN [r |-> c, n |-> 1]
        ELSE IF ~valid THEN [r |-> RuneError, n |-> 1]
        ELSE [n |-> n + 1,
              r |-> IF n = 1 THEN (c - 192) * 64 + tail(1)
                    ELSE IF n = 2 THEN (c - 224) * 4096 + tail(1) * 64 + tail(2)
                    ELSE (c - 240) * 262144 + tail(1) * 4096 + tail(2) * 64 + tail(3)]

EncodeRune(rune) ==
    LET r == IF rune < 0 THEN RuneError ELSE rune
        Low(k) == 128 + ((r \div k) % 64)
    IN  IF r < 128 THEN <<r>>
        ELSE IF r < 2048 THEN <<192 + (r \div 64), Low(1)>>
        ELSE IF r < 65536 THEN <<224 + (r \div 4096), Low(64), Low(1)>>
        ELSE <<240 + (r \div 262144), Low(4096), Low(64), Low(1)>>

-----------------------------------------------------------------------------
(* Steps of a scan.                                                        *)

CleanRun(data, j) ==
    LET Clean[k \in j .. Len(data) + 1] ==
            LET past == ByteRun(data, k, PlainSet)
                size == DecodeRune(data, past).n
            IN  IF past > Len(data) \/ data[past] < 128 \/ size = 1 THEN past ELSE Clean[past + size]
    IN  Clean[j]

\* The byte that the letter c of a short escape stands for, or 0: quote, backslash,
\* slash, b, f, n, r and t.
UnescapeByte(c) == CASE c \in {34, 92, 47} -> c
                     [] c = 98 -> 8 [] c = 102 -> 12 [] c = 110 -> 10 [] c = 114 -> 13 [] c = 116 -> 9
                     [] OTHER -> 0

LetterU == 117

ShortEscape(data, j) ==
    IF data[j] # Backslash \/ j = Len(data) \/ data[j + 1] = LetterU THEN 0 ELSE UnescapeByte(data[j + 1])

\* The readings of a string body: anyBody and utf8Body, the lowest rune each keeps.
BadRune  == -1
AnyBody  == BadRune
Utf8Body == 0

\* Malformed unless an escape of four hex digits starts at data[j].
UnicodeEscape(data, j) ==
    IF j + 5 > Len(data) \/ data[j] # Backslash \/ data[j + 1] # LetterU
    THEN Malformed ELSE Hex4(SubSeq(data, j + 2, j + 5))

Surrogates == 55296 .. 57343
HighHalves == 55296 .. 56319
LowHalves  == 56320 .. 57343

\* Mutant of RuneAt: the low half of a pair is not looked at.
RuneAtUnpaired(data, i) ==
    LET hi == UnicodeEscape(data, i)
        lo == UnicodeEscape(data, i + 6)
    IN  IF data[i] # Backslash THEN [r |-> IF BodyByte(data[i]) THEN BadRune ELSE Malformed, n |-> 1]
        ELSE IF hi = Malformed THEN [r |-> Malformed, n |-> 1]
        ELSE IF hi \notin Surrogates THEN [r |-> hi, n |-> 6]
        ELSE IF lo # Malformed
             THEN [r |-> 65536 + ((hi - 55296) % 1024) * 1024 + ((lo - 56320) % 1024), n |-> 12]
        ELSE [r |-> BadRune, n |-> 6]

RuneAt(data, i) ==
    LET hi == UnicodeEscape(data, i)
        lo == UnicodeEscape(data, i + 6)
    IN  IF data[i] # Backslash THEN [r |-> IF BodyByte(data[i]) THEN BadRune ELSE Malformed, n |-> 1]
        ELSE IF hi = Malformed THEN [r |-> Malformed, n |-> 1]
        ELSE IF hi \notin Surrogates THEN [r |-> hi, n |-> 6]
        ELSE IF hi \in HighHalves /\ lo \in LowHalves
             THEN [r |-> 65536 + (hi - 55296) * 1024 + (lo - 56320), n |-> 12]
        ELSE [r |-> BadRune, n |-> 6]

-----------------------------------------------------------------------------
(* Scanners: the end is 0 where the code returns false.                    *)

\* Where the bodies of stringEnd and strictEnd end, by the runs and the reading of each.
BodyEnd(data, j, Run(_, _), lowest) ==
    LET End[k \in j .. Len(data) + 1] ==
            LET past == Run(data, k)
                rune == RuneAt(data, past)
            IN  IF past > Len(data) THEN 0
                ELSE IF data[past] = Quote THEN past + 1
                ELSE IF ShortEscape(data, past) # 0 THEN End[past + 2]
                ELSE IF rune.r >= lowest THEN End[past + rune.n] ELSE 0
    IN  End[j]

StringEnd(data, j)  == BodyEnd(data, j, BodyRun, AnyBody)
StrictEnd(data, at) == BodyEnd(data, at + 1, CleanRun, Utf8Body)

NoText == [text |-> << >>, end |-> 0]

\* tokenAt and decodeFrom, what is decoded and the place past the token.
TokenAt(data, i, lowest) ==
    LET From[j \in i .. Len(data) + 1] ==
            LET k     == CleanRun(data, j)
                short == ShortEscape(data, k)
                rune  == RuneAt(data, k)
                Then(bytes, past) ==
                    LET rest == From[past]
                    IN  IF rest.end = 0 THEN NoText
                        ELSE [rest EXCEPT !.text = SubSeq(data, j, k - 1) \o bytes \o @]
            IN  IF k > Len(data) THEN NoText
                ELSE IF data[k] = Quote THEN [text |-> SubSeq(data, j, k - 1), end |-> k + 1]
                ELSE IF short # 0 THEN Then(<<short>>, k + 2)
                ELSE IF rune.r < lowest THEN NoText
                ELSE Then(EncodeRune(rune.r), k + rune.n)
    IN  IF i > Len(data) \/ data[i] # Quote THEN NoText ELSE From[i + 1]

\* Whether bytes lie in s from s[j] on.
HasAt(s, j, bytes) == j + Len(bytes) - 1 <= Len(s) /\ SubSeq(s, j, j + Len(bytes) - 1) = bytes

MatchedPrefix(d, from, s) ==
    LET Match[i \in from .. Len(d) + 1, j \in 1 .. Len(s) + 1] ==
            LET k     == CleanRun(d, i)
                at    == j + k - i
                short == ShortEscape(d, k)
                rune  == RuneAt(d, k)
                bytes == EncodeRune(rune.r)
            IN  IF ~HasAt(s, j, SubSeq(d, i, k - 1)) THEN [stop |-> k, equal |-> FALSE]
                ELSE IF k > Len(d) THEN [stop |-> k, equal |-> FALSE]
                ELSE IF d[k] = Quote THEN [stop |-> k, equal |-> at = Len(s) + 1]
                ELSE IF short # 0
                     THEN IF HasAt(s, at, <<short>>) THEN Match[k + 2, at + 1]
                          ELSE [stop |-> k + 2, equal |-> FALSE]
                ELSE IF rune.r = Malformed THEN [stop |-> k, equal |-> FALSE]
                ELSE IF HasAt(s, at, bytes) THEN Match[k + rune.n, at + Len(bytes)]
                ELSE [stop |-> k + rune.n, equal |-> FALSE]
    IN  Match[from, 1]

EqualString(raw, s) ==
    /\ raw # << >> /\ raw[1] = Quote
    /\ LET m == MatchedPrefix(raw, 2, s) IN m.equal /\ m.stop = Len(raw)

\* A name that does not match is scanned on from where the comparison stopped.
MatchName(data, i, s) ==
    LET m == MatchedPrefix(data, i + 1, s)
    IN  IF i > Len(data) \/ data[i] # Quote THEN [end |-> 0, equal |-> FALSE]
        ELSE IF m.stop > Len(data) \/ data[m.stop] # Quote
             THEN [end |-> StringEnd(data, m.stop), equal |-> FALSE]
        ELSE [end |-> m.stop + 1, equal |-> m.equal]

-----------------------------------------------------------------------------
(* Writing.                                                                *)

LowerHex(d) == IF d < 10 THEN 48 + d ELSE 87 + d

EscapedASCII(c) ==
    CASE c \in {34, 92} -> <<92, c>>
      [] c = 8 -> <<92, 98>> [] c = 12 -> <<92, 102>> [] c = 10 -> <<92, 110>>
      [] c = 13 -> <<92, 114>> [] c = 9 -> <<92, 116>>
      [] OTHER -> <<92, LetterU, 48, 48, LowerHex(c \div 16), LowerHex(c % 16)>>

\* Mutant of AppendEscaped: a byte that utf8 rejects is copied.
AppendEscapedRaw(p) ==
    LET From[i \in 1 .. Len(p) + 1] ==
            LET rune == DecodeRune(p, i)
            IN  IF i > Len(p) THEN << >>
                ELSE IF ~BodyByte(p[i]) THEN EscapedASCII(p[i]) \o From[i + 1]
                ELSE SubSeq(p, i, i + rune.n - 1) \o From[i + rune.n]
    IN  From[1]

\* Plain runs as they are, escapes for what no body holds, and the clean run of UTF-8
\* or a replacement for the byte.
AppendEscaped(p) ==
    LET From[i \in 1 .. Len(p) + 1] ==
            LET j     == ByteRun(p, i, PlainSet)
                rune  == DecodeRune(p, j)
                clean == CleanRun(p, j + rune.n)
            IN  SubSeq(p, i, j - 1) \o
                (IF j > Len(p) THEN << >>
                 ELSE IF ~BodyByte(p[j]) THEN EscapedASCII(p[j]) \o From[j + 1]
                 ELSE IF rune.n = 1 THEN EncodeRune(rune.r) \o From[j + 1]
                 ELSE SubSeq(p, j, clean - 1) \o From[clean])
    IN  From[1]

-----------------------------------------------------------------------------
(* The order of keys.                                                      *)

InRune(s, i) == i <= Len(s) /\ s[i] \in 128 .. 191

\* Mutant of CommonRunes: the prefix may end within a rune.
CommonBytes(a, b) ==
    LET shorter == IF Len(a) < Len(b) THEN Len(a) ELSE Len(b)
    IN  CHOOSE p \in 0 .. shorter :
            /\ SubSeq(a, 1, p) = SubSeq(b, 1, p)
            /\ p = shorter \/ a[p + 1] # b[p + 1]

CommonRunes(a, b) ==
    LET shorter == IF Len(a) < Len(b) THEN Len(a) ELSE Len(b)
        common  == CHOOSE p \in 0 .. shorter :
                       /\ SubSeq(a, 1, p) = SubSeq(b, 1, p)
                       /\ p = shorter \/ a[p + 1] # b[p + 1]
        Ends(p) == p = 0 \/ ~(InRune(a, p + 1) \/ InRune(b, p + 1))
    IN  CHOOSE p \in 0 .. common : Ends(p) /\ \A longer \in p + 1 .. common : ~Ends(longer)

From(s, i) == SubSeq(s, i, Len(s))

Sign(m, n) == IF m < n THEN -1 ELSE IF m = n THEN 0 ELSE 1

CompareWritten(x, y) ==
    LET Compare[i \in 1 .. Len(x) + 1, j \in 1 .. Len(y) + 1] ==
            LET p == CommonRunes(From(x, i), From(y, j))
                rx == DecodeRune(x, i + p)
                ry == DecodeRune(y, j + p)
            IN  IF i + p > Len(x) \/ j + p > Len(y) THEN Sign(Len(x) - i, Len(y) - j)
                ELSE IF rx.r # ry.r THEN Sign(rx.r, ry.r)
                ELSE Compare[i + p + rx.n, j + p + ry.n]
    IN  Compare[1, 1]
=============================================================================
