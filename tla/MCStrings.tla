------------------------------ MODULE MCStrings ------------------------------
(***************************************************************************)
(* StringCodec and Swar on bounded data, which grows by a piece a step:    *)
(* texts of pieces that a string's scanners tell apart, words of bytes at  *)
(* the edges of what the masks flag, and the bytes at the edges of the hex *)
(* digits.                                                                 *)
(***************************************************************************)
EXTENDS StringCodec, SequencesExt

CONSTANTS MaxPieces, MaxBytes

VARIABLES
    kind,       \* what data is made of
    pieces,     \* how many pieces were put together
    data

vars == <<kind, pieces, data>>

Accent   == <<195, 169>>                        \* U+00E9
Smile    == <<240, 159, 152, 128>>              \* U+1F600
Replaced == <<239, 191, 189>>                   \* U+FFFD

\* \ud83d and \ude00, the halves of U+1F600, and \u0061.
High16 == <<92, 117, 100, 56, 51, 68>>
Low16  == <<92, 117, 68, 101, 48, 48>>
Ascii16 == <<92, 117, 48, 48, 54, 49>>

Pieces == [text  |-> {<<97>>, <<34>>, <<92>>, <<92, 110>>, <<10>>, <<92, 117, 49>>,
                      High16, Low16, Ascii16, Accent, <<195>>, <<128>>, Smile, Replaced},
           word  |-> {<<c>> : c \in {0, 31, 32, 33, 34, 35, 92, 93, 128, 162}},
           brace |-> {<<c>> : c \in {33, 34, 35, 91, 92, 93, 123, 124, 125, 219}},
           digit |-> {<<c>> : c \in {47, 48, 57, 58, 64, 65, 70, 71, 96, 97, 102, 103, 127, 128, 175, 176, 255}}]

Most == [text |-> MaxPieces, word |-> MaxBytes, brace |-> MaxBytes, digit |-> 4]

Init == kind \in DOMAIN Pieces /\ pieces = 0 /\ data = << >>

Grow == \E p \in Pieces[kind] :
    /\ pieces < Most[kind]
    /\ pieces' = pieces + 1
    /\ data' = data \o p
    /\ UNCHANGED kind

Spec == Init /\ [][Grow]_vars

-----------------------------------------------------------------------------
Digit(c) == IF c \in 48 .. 57 THEN c - 48 ELSE IF c \in 65 .. 70 THEN c - 55
            ELSE IF c \in 97 .. 102 THEN c - 87 ELSE -1

\* However the bytes of a word borrow from and carry into each other, a run by words ends
\* where the run byte by byte does, from any place behind a plain byte, in the last word,
\* the tail under it and data shorter than a word too; and four bytes are hex digits as a
\* word exactly when each is one (plainMask: "the lowest flag is exact"; plainRun, bodyRun,
\* bracedRun and hex4).
WordsExact ==
    /\ \A j \in 1 .. Len(data) + 1 :
          /\ kind = "word" =>
                /\ BodyRun(data, j) = ByteRun(data, j, BodySet)
                /\ j = 1 \/ PlainByte(data[j - 1]) => PlainRun(data, j) = ByteRun(data, j, PlainSet)
          /\ kind = "brace" => \A opener \in {91, 123} :
                BracedRun(data, j, opener) = ByteRun(data, j, Byte \ {34, opener, opener + 2})
    /\ kind = "digit" /\ Len(data) = 4 =>
          LET d == [k \in 1 .. 4 |-> Digit(data[k])]
          IN  Hex4(data) = IF -1 \in ToSet(d) THEN Malformed
                           ELSE ((d[1] * 16 + d[2]) * 16 + d[3]) * 16 + d[4]

-----------------------------------------------------------------------------
(* A string read one character at a time.                                  *)

Escape16(d, j) ==
    IF j + 5 <= Len(d) /\ d[j] = 92 /\ d[j + 1] = 117 /\ \A k \in j + 2 .. j + 5 : Digit(d[k]) >= 0
    THEN ((Digit(d[j + 2]) * 16 + Digit(d[j + 3])) * 16 + Digit(d[j + 4])) * 16 + Digit(d[j + 5])
    ELSE -1

Short == [c \in {34, 92, 47, 98, 102, 110, 114, 116} |->
            IF c \in {34, 92, 47} THEN c ELSE [k \in {98, 102, 110, 114, 116} |->
                CASE k = 98 -> 8 [] k = 102 -> 12 [] k = 110 -> 10 [] k = 114 -> 13 [] OTHER -> 9][c]]

\* The character at d[j]: how many bytes it takes, what it decodes to, whether it is
\* malformed, a code point ("good"), or written as U+FFFD ("bad").
Character(d, j) ==
    LET c    == d[j]
        code == Escape16(d, j)
        next == Escape16(d, j + 6)
        utf8 == DecodeRune(d, j)
        is(n, text, how) == [n |-> n, text |-> text, how |-> how]
    IN  IF c < 32 THEN is(1, << >>, "malformed")
        ELSE IF c = 92 THEN
            IF j < Len(d) /\ d[j + 1] \in DOMAIN Short THEN is(2, <<Short[d[j + 1]]>>, "good")
            ELSE IF code = -1 THEN is(1, << >>, "malformed")
            ELSE IF code \notin 55296 .. 57343 THEN is(6, EncodeRune(code), "good")
            ELSE IF code < 56320 /\ next \in 56320 .. 57343
                 THEN is(12, EncodeRune(65536 + (code - 55296) * 1024 + next - 56320), "good")
            ELSE is(6, Replaced, "bad")
        ELSE IF c < 128 THEN is(1, <<c>>, "good")
        ELSE IF utf8.n = 1 THEN is(1, Replaced, "bad")
        ELSE is(utf8.n, SubSeq(d, j, j + utf8.n - 1), "good")

\* The string body from d[j] on: what it decodes to, the place past it, whether it holds
\* code points only; end is 0 for what is no string.
RECURSIVE Reading(_, _)
Reading(d, j) ==
    IF j > Len(d) THEN [text |-> << >>, end |-> 0, clean |-> FALSE]
    ELSE IF d[j] = Quote THEN [text |-> << >>, end |-> j + 1, clean |-> TRUE]
    ELSE LET c    == Character(d, j)
             rest == Reading(d, j + c.n)
         IN  IF c.how = "malformed" \/ rest.end = 0 THEN [text |-> << >>, end |-> 0, clean |-> FALSE]
             ELSE [text |-> c.text \o rest.text, end |-> rest.end, clean |-> c.how = "good" /\ rest.clean]

\* The texts as string tokens: not ended, and ended.
Tokens == IF kind = "text" THEN {<<Quote>> \o data, <<Quote>> \o data \o <<Quote>>} ELSE {}

Near(text) == {text, Append(text, 97), << >>, Replaced, <<195>>}
              \union (IF text = << >> THEN {} ELSE {Front(text), Tail(text)})

\* A string ends at the same quote for each scanner, and is refused by all for the same
\* bytes, but that those of the strict rule refuse what has no code point too; what is
\* decoded is what its characters are, however they fall into runs, and a comparison on the
\* way finds equal exactly what decodes to the same bytes (stringEnd, strictEnd, tokenAt,
\* matchName and EqualString).
ScannersAgree ==
    \A t \in Tokens :
        LET r == Reading(t, 2)
            strictEnd == IF r.clean THEN r.end ELSE 0
        IN  /\ StringEnd(t, 2) = r.end
            /\ StrictEnd(t, 1) = strictEnd
            /\ TokenAt(t, 1, AnyBody) = [text |-> r.text, end |-> r.end]
            /\ TokenAt(t, 1, Utf8Body) = IF r.clean THEN [text |-> r.text, end |-> r.end] ELSE NoText
            /\ \A s \in Near(r.text) :
                  /\ MatchName(t, 1, s) = [end |-> r.end, equal |-> r.end # 0 /\ s = r.text]
                  /\ EqualString(t, s) <=> r.end = Len(t) + 1 /\ s = r.text

RECURSIVE Runes(_)
Runes(p) == IF p = << >> THEN << >>
            ELSE LET rune == DecodeRune(p, 1)
                 IN  <<rune.r>> \o Runes(SubSeq(p, rune.n + 1, Len(p)))

Text(runes) == FlattenSeq([k \in DOMAIN runes |-> EncodeRune(runes[k])])

\* What is escaped is a string of the strict rule that decodes to the bytes it was made
\* of, with U+FFFD for each that is no UTF-8 (AppendEscaped).
EscapesRoundTrip ==
    kind = "text" =>
        LET written == <<Quote>> \o AppendEscaped(data) \o <<Quote>>
        IN  TokenAt(written, 1, Utf8Body) = [text |-> Text(Runes(data)), end |-> Len(written) + 1]

RECURSIVE Order(_, _)
Order(x, y) == IF x = << >> \/ y = << >> THEN Sign(Len(x), Len(y))
               ELSE IF Head(x) # Head(y) THEN Sign(Head(x), Head(y))
               ELSE Order(Tail(x), Tail(y))

\* Keys are ordered as the runes that are written for them, and alike when these are the
\* same, though the comparison skips equal bytes and starts again within them
\* (compareWritten: "each byte utf8 rejects read as U+FFFD").
NamesOrdered ==
    kind = "text" =>
        \A k \in 0 .. Len(data) : \A m \in k .. Len(data) :
            LET x == SubSeq(data, 1, m)
                y == SubSeq(data, 1, k) \o SubSeq(data, m + 1, Len(data))
            IN  CompareWritten(x, y) = Order(Runes(x), Runes(y))
=============================================================================
