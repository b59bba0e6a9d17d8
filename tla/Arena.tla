------------------------------- MODULE Arena -------------------------------
(***************************************************************************)
(* The arena of decode.go: the buffer that the strings a call decodes are  *)
(* carved from.  A string is decoded in pieces at the end of the chunk in  *)
(* use; a chunk without room for the next piece gives way to a larger one, *)
(* to which the string being decoded moves.  What was carved is handed to  *)
(* the caller and must never be written again, unless a walk takes a mark  *)
(* and rewinds to it once the strings carved since have been let go.       *)
(*                                                                         *)
(* Bytes are counted, not kept: a chunk is a number and a string a range   *)
(* of bytes of a chunk, and wrote is the range that the last step wrote.   *)
(***************************************************************************)
EXTENDS Integers, Sequences

CONSTANTS
    DocLengths,     \* lengths of the documents tried
    Room            \* arenaRoom

GrowthNone == 1     \* mutant of Growth: a new chunk as large as the last

Growth == 2         \* arenaGrowth

ASSUME ArenaAssumption ==
    /\ DocLengths \subseteq Nat
    /\ Room \in Nat \ {0}

VARIABLES
    docLen,         \* len(data)
    utf8,           \* whether every string of the document is valid UTF-8
    at,             \* the bytes of the document read so far
    chunk,          \* the chunk in use, 0 before the first
    capacity, length,   \* cap and len of arena.buf
    phase,          \* "between" strings, "decoding" one, or "failed"
    size, floor,    \* of the string being decoded: bytes so far, least chunk
    views,          \* the carved strings that the caller holds
    marks,          \* the marks taken, and what the caller held then
    wrote,          \* what the last step wrote
    allocated,      \* the bytes of all chunks so far
    decoded         \* the bytes of all strings decoded or copied so far

document == <<docLen, utf8>>
string   == <<phase, size, floor>>
vars == <<document, at, chunk, capacity, length, string, views, marks, wrote, allocated, decoded>>

Smaller(x, y) == IF x < y THEN x ELSE y
Larger(x, y)  == IF x < y THEN y ELSE x

Bytes(c, from, to) == [chunk |-> c, from |-> from, to |-> to]
Nothing == Bytes(0, 0, 0)

Overlap(r, s) == r.chunk = s.chunk /\ r.from < s.to /\ s.from < r.to

Init == /\ docLen \in DocLengths /\ utf8 \in BOOLEAN
        /\ at = 0
        /\ chunk = 0 /\ capacity = 0 /\ length = 0
        /\ phase = "between" /\ size = 0 /\ floor = 0
        /\ views = {} /\ marks = << >>
        /\ wrote = Nothing
        /\ allocated = 0 /\ decoded = 0

\* Mutants of Floor: the rest of the document past an empty string, nothing, or the rest
\* of the document however long.
FloorPastString(i) == Smaller(docLen - i - 2, Room)
FloorNone(i)  == 0
FloorWhole(i) == docLen - i

\* min(len(data)-i, room), for the string whose quote is data[i]
Floor(i) == Smaller(docLen - i, Room)

\* Whether the chunk in use has room for n bytes past the held ones of a string.
Fits(held, n) == capacity - (length + held) >= n

\* Where that string starts once it has.
Base(held, n) == IF Fits(held, n) THEN length ELSE 0

\* grow for n bytes past the held ones, and their append: in the chunk in use when it
\* has room, else in a new one, to which the held bytes are copied.
Write(held, n, least) ==
    /\ IF Fits(held, n)
       THEN /\ UNCHANGED <<chunk, capacity, allocated>>
            /\ wrote' = Bytes(chunk, length + held, length + held + n)
       ELSE /\ chunk' = chunk + 1
            /\ capacity' = Larger(Larger(held + n, Growth * capacity), least)
            /\ allocated' = allocated + capacity'
            /\ wrote' = Bytes(chunk', 0, held + n)
    /\ decoded' = decoded + n

\* carve: the string of n bytes at from is handed out, and later strings go past it.
Carve(from, n) ==
    /\ length' = from + n
    /\ views' = views \union {Bytes(chunk', from, from + n)}

\* tokenAt meets a string that needs decoding, with its quote at data[i].
Start(i) ==
    /\ phase = "between" /\ at <= i /\ i < docLen
    /\ phase' = "decoding" /\ size' = 0 /\ floor' = Floor(i)
    /\ at' = i + 1
    /\ wrote' = Nothing
    /\ UNCHANGED <<document, chunk, capacity, length, views, marks, allocated, decoded>>

\* decodeFrom: a clean run and the escape or rune past it, taken bytes of the document
\* that decode to n.  A byte that is no UTF-8 becomes a U+FFFD of three.
Piece(taken, n) ==
    /\ phase = "decoding"
    /\ at + taken <= docLen
    /\ n <= taken + IF utf8 THEN 0 ELSE 2
    /\ Write(size, n, floor)
    /\ length' = Base(size, n)
    /\ size' = size + n
    /\ at' = at + taken
    /\ UNCHANGED <<document, phase, floor, views, marks>>

\* decodeFrom at the closing quote, past a last clean run of n bytes, and carve.
Finish(n) ==
    /\ phase = "decoding" /\ size > 0
    /\ at + n + 1 <= docLen
    /\ Write(size, n, floor)
    /\ Carve(Base(size, n), size + n)
    /\ phase' = "between" /\ size' = 0 /\ floor' = 0
    /\ at' = at + n + 1
    /\ UNCHANGED <<document, marks>>

\* decodeFrom at a fault: what it wrote past the carved strings stays uncarved, and the
\* walk ends.
Fail ==
    /\ phase = "decoding"
    /\ phase' = "failed"
    /\ wrote' = Nothing
    /\ UNCHANGED <<document, at, chunk, capacity, length, size, floor, views, marks,
                   allocated, decoded>>

\* text of DecodeValue, and keep: a string of n bytes that needs no decoding, its quote at
\* data[i], is copied.
Keep(i, n) ==
    /\ phase = "between"
    /\ at <= i /\ i + n + 2 <= docLen
    /\ Write(0, n, Floor(i))
    /\ Carve(Base(0, n), n)
    /\ at' = i + n + 2
    /\ UNCHANGED <<document, string, marks>>

\* mark, as a walk reads the opener of an object.
Mark ==
    /\ phase = "between" /\ at < docLen
    /\ marks' = Append(marks, [capacity |-> capacity, length |-> length,
                               held |-> views, chunk |-> chunk])
    /\ at' = at + 1
    /\ wrote' = Nothing
    /\ UNCHANGED <<document, chunk, capacity, length, string, views, allocated, decoded>>

\* Mutant of Rewind: the chunk in use is reused whole.
RewindWhole ==
    /\ phase = "between" /\ at < docLen /\ marks # << >>
    /\ length' = 0
    /\ views' = marks[Len(marks)].held
    /\ marks' = SubSeq(marks, 1, Len(marks) - 1)
    /\ at' = at + 1
    /\ wrote' = Nothing
    /\ UNCHANGED <<document, chunk, capacity, string, allocated, decoded>>

\* rewind to the last mark, as the walk reads the closer: the caller has let go of the
\* strings carved since.
Rewind ==
    /\ phase = "between" /\ at < docLen /\ marks # << >>
    /\ LET m == marks[Len(marks)] IN
          /\ length' = IF capacity = m.capacity THEN m.length ELSE 0
          /\ views' = m.held
    /\ marks' = SubSeq(marks, 1, Len(marks) - 1)
    /\ at' = at + 1
    /\ wrote' = Nothing
    /\ UNCHANGED <<document, chunk, capacity, string, allocated, decoded>>

Next ==
    \/ \E i \in 0 .. docLen - 1 : Start(i)
    \/ \E taken \in 1 .. docLen, n \in 1 .. docLen + 2 : Piece(taken, n)
    \/ \E n \in 0 .. docLen : Finish(n)
    \/ \E i \in 0 .. docLen, n \in 0 .. docLen : Keep(i, n)
    \/ Fail \/ Mark \/ Rewind

Spec == Init /\ [][Next]_vars

-----------------------------------------------------------------------------
Views == [chunk : Nat, from : Nat, to : Nat]
Marks == [capacity : Nat, length : Nat, held : SUBSET Views, chunk : Nat]

TypeOK ==
    /\ docLen \in Nat /\ utf8 \in BOOLEAN
    /\ at \in Nat /\ at <= docLen
    /\ chunk \in Nat /\ capacity \in Nat /\ length \in Nat
    /\ phase \in {"between", "decoding", "failed"}
    /\ size \in Nat /\ floor \in Nat
    /\ views \subseteq Views
    /\ marks \in Seq(Marks)
    /\ wrote \in Views
    /\ allocated \in Nat /\ decoded \in Nat

\* A decoded string that the caller holds is never written again: not by the string
\* after it, nor by one that outgrows the chunk, nor by those decoded in the room that
\* a rewind gave back (arena: "A carved string is never written again").
NeverRewritten == [][\A v \in views \cap views' : ~Overlap(wrote', v)]_vars

\* The capacity of a mark tells its chunk from every later one, which is what rewind
\* compares (arenaMark: "its capacity names the chunk, as each new chunk outgrows the
\* last"); and a mark of the chunk in use lies within what it holds.
MarksNameChunks ==
    \A j \in 1 .. Len(marks) :
        /\ marks[j].capacity = capacity <=> marks[j].chunk = chunk
        /\ marks[j].chunk = chunk => marks[j].length <= length

\* A document no longer than the room, of valid strings, takes one chunk at most,
\* wherever its first string to decode starts (README, operational limits).
OneChunk == docLen <= Room /\ utf8 => chunk <= 1

\* What a call allocates follows what it decodes: the room of one chunk, or four times
\* the bytes decoded, however its strings are spread over the document and however
\* often it rewinds (README: "in proportion to the names it decodes, plus at most 4 KiB").
AllocationFollowsDecoding == allocated <= Larger(Room, 4 * decoded)
=============================================================================
