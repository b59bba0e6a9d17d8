----------------------------- MODULE ArenaProofs -----------------------------
(***************************************************************************)
(* Arena for documents of every length and every room: no string that the  *)
(* caller holds is written again, a short document takes one chunk, and    *)
(* the bytes allocated follow the bytes decoded.                           *)
(*                                                                         *)
(* The invariant has three parts.  MarksSound: marks are ordered by chunk  *)
(* and length, and a chunk and its capacity name each other.  Live: held   *)
(* strings lie below the end of the chunk in use or in an earlier chunk.   *)
(* Budget: what each chunk is large enough for, and small enough for.      *)
(***************************************************************************)
EXTENDS Arena, SequenceTheorems, TLAPS

\* The strings of V lie in chunk c up to byte l, or in earlier chunks.
LiveIn(V, c, l) == \A v \in V : v.chunk < c \/ (v.chunk = c /\ v.to <= l)

Live == LiveIn(views, chunk, length)

MarksSound ==
    /\ \A j \in 1 .. Len(marks) :
          /\ \/ marks[j].chunk < chunk /\ marks[j].capacity < capacity
             \/ /\ marks[j].chunk = chunk /\ marks[j].capacity = capacity
                /\ marks[j].length <= length
          /\ LiveIn(marks[j].held, marks[j].chunk, marks[j].length)
    /\ \A i, j \in 1 .. Len(marks) : i < j =>
          \/ marks[i].chunk < marks[j].chunk
          \/ marks[i].chunk = marks[j].chunk /\ marks[i].length <= marks[j].length

\* The string being decoded lies within the chunk, and no chunk is empty.
InChunk ==
    /\ length + size <= capacity
    /\ chunk = 0 <=> capacity = 0
    /\ phase = "between" => size = 0

\* Chunks outgrow what is left to read, and follow what was decoded.
Budget ==
    /\ length + size <= decoded
    /\ allocated <= 2 * capacity
    /\ chunk <= 1 => allocated = capacity
    /\ chunk >= 1 => capacity >= docLen - at \/ capacity >= Room
    /\ phase = "decoding" => /\ floor <= Room /\ (chunk >= 1 => capacity >= floor)
                             /\ floor >= docLen - at \/ floor >= Room
    /\ chunk = 1 => capacity <= Room \/ capacity <= decoded
    /\ chunk >= 2 => capacity <= 2 * decoded

\* A short document of valid strings has room for the rest of it in the first chunk.
Short ==
    docLen <= Room /\ utf8 =>
        /\ chunk <= 1
        /\ phase # "failed" /\ chunk = 1 => capacity >= docLen - at + length + size
        /\ phase = "decoding" => floor >= docLen - at + size + 1

IInv == TypeOK /\ MarksSound /\ Live /\ InChunk /\ Budget /\ Short

-----------------------------------------------------------------------------
\* grow and the append after it: in the chunk in use past its end, or in a new chunk
\* that is larger than the last one and large enough.
LEMMA WriteEffect ==
    ASSUME chunk \in Nat, capacity \in Nat, length \in Nat, allocated \in Nat, decoded \in Nat,
           NEW held \in Nat, NEW n \in Nat, NEW least \in Nat,
           length + held <= capacity,
           Write(held, n, least)
    PROVE  /\ decoded' = decoded + n /\ decoded' \in Nat
           /\ chunk' \in Nat /\ capacity' \in Nat /\ allocated' \in Nat /\ wrote' \in Views
           /\ Base(held, n) \in Nat /\ Base(held, n) + held + n <= capacity'
           /\ \/ /\ chunk' = chunk /\ capacity' = capacity /\ allocated' = allocated
                 /\ Base(held, n) = length
                 /\ wrote' = Bytes(chunk, length + held, length + held + n)
              \/ /\ chunk' = chunk + 1 /\ capacity' > capacity
                 /\ allocated' = allocated + capacity'
                 /\ Base(held, n) = 0
                 /\ wrote' = Bytes(chunk + 1, 0, held + n)
                 /\ capacity' >= 2 * capacity /\ capacity' >= least
                 /\ capacity' \in {held + n, 2 * capacity, least}
                 /\ capacity < length + held + n
<1>1. CASE Fits(held, n)
    <2>1. /\ chunk' = chunk /\ capacity' = capacity /\ allocated' = allocated
          /\ wrote' = Bytes(chunk, length + held, length + held + n)
          /\ decoded' = decoded + n
        BY <1>1 DEF Write
    <2>2. Base(held, n) = length /\ length + held + n <= capacity
        BY <1>1 DEF Base, Fits
    <2>3. wrote' \in Views
        BY <2>1 DEF Bytes, Views
    <2> QED BY <2>1, <2>2, <2>3
<1>2. CASE ~Fits(held, n)
    <2>1. /\ chunk' = chunk + 1
          /\ capacity' = Larger(Larger(held + n, 2 * capacity), least)
          /\ allocated' = allocated + capacity'
          /\ wrote' = Bytes(chunk', 0, held + n)
          /\ decoded' = decoded + n
        BY <1>2 DEF Write, Growth
    <2>2. Base(held, n) = 0 /\ capacity < length + held + n
        BY <1>2 DEF Base, Fits
    <2>3. /\ capacity' \in Nat /\ capacity' >= held + n
          /\ capacity' >= 2 * capacity /\ capacity' >= least
          /\ capacity' \in {held + n, 2 * capacity, least}
        BY <2>1 DEF Larger
    <2>4. capacity' > capacity
        BY <2>2, <2>3
    <2>5. wrote' \in Views
        BY <2>1 DEF Bytes, Views
    <2> QED BY <2>1, <2>2, <2>3, <2>4, <2>5
<1> QED BY <1>1, <1>2

\* What a write does to the chunk in use: it stays and keeps what it held, or gives way.
Advances ==
    \/ chunk' = chunk /\ capacity' = capacity /\ length' >= length
    \/ chunk' = chunk + 1 /\ capacity' > capacity

LEMMA MarkTypes ==
    ASSUME TypeOK, NEW j \in 1 .. Len(marks)
    PROVE  /\ marks[j].capacity \in Nat /\ marks[j].length \in Nat /\ marks[j].chunk \in Nat
           /\ marks[j].held \subseteq Views
<1>1. marks \in Seq(Marks)
    BY DEF TypeOK
<1>2. marks[j] \in Marks
    BY <1>1
<1> QED BY <1>2 DEF Marks

\* Marks outlive a write.
LEMMA MarksKept ==
    ASSUME TypeOK, MarksSound, marks' = marks, Advances,
           chunk' \in Nat, capacity' \in Nat, length' \in Nat
    PROVE  MarksSound'
<1>1. chunk \in Nat /\ capacity \in Nat /\ length \in Nat
    BY DEF TypeOK
<1>2. ASSUME NEW j \in 1 .. Len(marks)
      PROVE  \/ marks[j].chunk < chunk' /\ marks[j].capacity < capacity'
             \/ /\ marks[j].chunk = chunk' /\ marks[j].capacity = capacity'
                /\ marks[j].length <= length'
    <2>1. marks[j].capacity \in Nat /\ marks[j].length \in Nat /\ marks[j].chunk \in Nat
        BY MarkTypes
    <2>2. \/ marks[j].chunk < chunk /\ marks[j].capacity < capacity
          \/ /\ marks[j].chunk = chunk /\ marks[j].capacity = capacity
             /\ marks[j].length <= length
        BY DEF MarksSound
    <2> QED BY <1>1, <2>1, <2>2 DEF Advances
<1> QED BY <1>2 DEF MarksSound

\* So do the strings the caller holds.
LEMMA LiveKept ==
    ASSUME TypeOK, Live, Advances, chunk' \in Nat, length' \in Nat
    PROVE  LiveIn(views, chunk', length')
<1>1. chunk \in Nat /\ length \in Nat /\ views \subseteq Views
    BY DEF TypeOK
<1>2. ASSUME NEW v \in views
      PROVE  v.chunk < chunk' \/ (v.chunk = chunk' /\ v.to <= length')
    <2>1. v.chunk \in Nat /\ v.to \in Nat
        BY <1>1 DEF Views
    <2>2. v.chunk < chunk \/ (v.chunk = chunk /\ v.to <= length)
        BY DEF Live, LiveIn
    <2> QED BY <1>1, <2>1, <2>2 DEF Advances
<1> QED BY <1>2 DEF LiveIn

\* Nothing written at or past the end of the chunk in use, or in a new one, is part of a
\* string that the caller holds.
LEMMA WriteApart ==
    ASSUME TypeOK, Live, NEW from \in Nat, NEW to \in Nat, NEW c \in Nat,
           \/ c = chunk /\ from >= length
           \/ c = chunk + 1
    PROVE  \A v \in views : ~Overlap(Bytes(c, from, to), v)
<1>1. chunk \in Nat /\ length \in Nat /\ views \subseteq Views
    BY DEF TypeOK
<1>2. ASSUME NEW v \in views
      PROVE  ~Overlap(Bytes(c, from, to), v)
    <2>1. v.chunk \in Nat /\ v.to \in Nat
        BY <1>1 DEF Views
    <2>2. v.chunk < chunk \/ (v.chunk = chunk /\ v.to <= length)
        BY DEF Live, LiveIn
    <2> QED BY <1>1, <2>1, <2>2 DEF Overlap, Bytes
<1> QED BY <1>2

-----------------------------------------------------------------------------
LEMMA InitInvariant == Init => IInv
<1> SUFFICES ASSUME Init
             PROVE  IInv
    OBVIOUS
<1>1. TypeOK
    BY ArenaAssumption DEF Init, TypeOK, Views, Nothing, Bytes
<1>2. MarksSound /\ Live
    BY DEF Init, MarksSound, Live, LiveIn
<1>3. InChunk
    BY DEF Init, InChunk
<1>4. Budget /\ Short
    BY <1>1, ArenaAssumption DEF Init, Budget, Short, TypeOK
<1> QED BY <1>1, <1>2, <1>3, <1>4 DEF IInv

\* The numbers of the arena, for steps that need no more of its type.
LEMMA Numbers ==
    ASSUME TypeOK
    PROVE  /\ docLen \in Nat /\ at \in Nat /\ at <= docLen
           /\ chunk \in Nat /\ capacity \in Nat /\ length \in Nat
           /\ size \in Nat /\ floor \in Nat
           /\ allocated \in Nat /\ decoded \in Nat
           /\ Room \in Nat /\ Room > 0
BY ArenaAssumption DEF TypeOK

LEMMA FloorRange ==
    ASSUME TypeOK, NEW i \in Nat, i <= docLen
    PROVE  /\ Floor(i) \in Nat /\ Floor(i) <= Room /\ Floor(i) <= docLen - i
           /\ Floor(i) = Room \/ Floor(i) = docLen - i
BY Numbers DEF Floor, Smaller

LEMMA StartStep ==
    ASSUME IInv, NEW i \in 0 .. docLen - 1, Start(i)
    PROVE  IInv'
<1> USE DEF IInv
<1>1. /\ docLen \in Nat /\ at \in Nat /\ at <= docLen
      /\ chunk \in Nat /\ capacity \in Nat /\ length \in Nat
      /\ size \in Nat /\ floor \in Nat
      /\ allocated \in Nat /\ decoded \in Nat
      /\ Room \in Nat /\ Room > 0
    BY Numbers
<1>2. /\ phase = "between" /\ phase' = "decoding" /\ at <= i /\ at' = i + 1
      /\ size' = 0 /\ floor' = Floor(i) /\ wrote' = Nothing
      /\ UNCHANGED <<docLen, utf8, chunk, capacity, length, views, marks, allocated, decoded>>
    BY DEF Start, document
<1>3. /\ i \in Nat /\ Floor(i) \in Nat /\ Floor(i) <= Room /\ Floor(i) <= docLen - i
      /\ Floor(i) = Room \/ Floor(i) = docLen - i
    BY <1>1, FloorRange
<1>4. TypeOK'
    BY <1>1, <1>2, <1>3 DEF TypeOK, Nothing, Bytes, Views
<1>5. MarksSound' /\ Live'
    BY <1>2 DEF MarksSound, Live
<1>6. InChunk' /\ size = 0
    BY <1>1, <1>2 DEF InChunk
<1>7. Budget'
    BY <1>1, <1>2, <1>3, <1>6 DEF Budget
<1>8. Short'
    BY <1>1, <1>2, <1>3, <1>6 DEF Short
<1> QED BY <1>4, <1>5, <1>6, <1>7, <1>8

\* The arithmetic of a piece that the chunk in use has room for: a2, len2 and size2 are
\* the place in the document, the length and the size after it.
LEMMA StayNumbers ==
    ASSUME NEW a2 \in Nat, NEW len2 \in Nat, NEW size2 \in Nat, NEW n \in Nat,
           TypeOK, at < a2,
           len2 + size2 = length + size + n,
           length + size + n <= capacity, length + size <= decoded
    PROVE  /\ len2 + size2 <= capacity /\ len2 + size2 <= decoded + n
           /\ capacity >= docLen - at => capacity >= docLen - a2
           /\ capacity <= decoded => capacity <= decoded + n
           /\ capacity <= 2 * decoded => capacity <= 2 * (decoded + n)
           /\ n <= a2 - at /\ capacity >= docLen - at + length + size
                => capacity >= docLen - a2 + len2 + size2
<1>1. /\ docLen \in Nat /\ at \in Nat /\ capacity \in Nat /\ length \in Nat
      /\ size \in Nat /\ decoded \in Nat
    BY Numbers
<1> QED BY <1>1

\* The arithmetic of one that it has no room for: cap2 is the capacity of the new chunk.
LEMMA GrowNumbers ==
    ASSUME NEW cap2 \in Nat, NEW n \in Nat, NEW least \in Nat,
           TypeOK,
           size + n <= cap2, cap2 >= 2 * capacity, cap2 > capacity,
           cap2 = size + n \/ cap2 = 2 * capacity \/ cap2 = least,
           capacity < length + size + n, length + size <= decoded,
           allocated <= 2 * capacity, least <= Room
    PROVE  /\ size + n <= decoded + n
           /\ cap2 > 0 /\ allocated + cap2 <= 2 * cap2
           /\ capacity = 0 => allocated + cap2 = cap2 /\ (cap2 <= Room \/ cap2 <= decoded + n)
           /\ capacity >= least => cap2 <= 2 * (decoded + n)
<1>1. /\ capacity \in Nat /\ length \in Nat /\ size \in Nat
      /\ decoded \in Nat /\ allocated \in Nat /\ Room \in Nat
    BY Numbers
<1>2. size + n <= decoded + n
    BY <1>1
<1>3. cap2 > 0 /\ allocated + cap2 <= 2 * cap2
    BY <1>1
<1>4. capacity = 0 => allocated + cap2 = cap2 /\ (cap2 <= Room \/ cap2 <= decoded + n)
    BY <1>1
<1>5. capacity >= least => cap2 <= 2 * (decoded + n)
    BY <1>1
<1> QED BY <1>2, <1>3, <1>4, <1>5

\* The steps that write, as one: a string of held bytes is given n more from a place in
\* the document to a later one, and stays in decoding or is carved.
LEMMA WriteStep ==
    ASSUME IInv,
           NEW held \in Nat, NEW n \in Nat, NEW least \in Nat,
           Write(held, n, least),
           UNCHANGED <<docLen, utf8, marks>>,
           phase # "failed",
           held = size,
           least <= Room, chunk >= 1 => capacity >= least,
           least >= docLen - at' \/ least >= Room,
           at' \in Nat, at < at', at' <= docLen, floor' \in Nat,
           utf8 => n <= at' - at,
           docLen <= Room /\ utf8 => least >= docLen - at' + size + n,
           \/ /\ phase' = "decoding" /\ phase = "decoding"
              /\ size' = held + n /\ floor' = floor /\ least = floor
              /\ length' = Base(held, n) /\ views' = views
           \/ /\ phase' = "between" /\ size' = 0
              /\ Carve(Base(held, n), held + n)
    PROVE  IInv' /\ \A v \in views : ~Overlap(wrote', v)
<1>1. /\ docLen \in Nat /\ at \in Nat /\ at <= docLen
      /\ chunk \in Nat /\ capacity \in Nat /\ length \in Nat
      /\ size \in Nat /\ floor \in Nat
      /\ allocated \in Nat /\ decoded \in Nat
      /\ Room \in Nat /\ Room > 0
    BY Numbers DEF IInv
<1>2. length + held <= capacity /\ (chunk = 0 <=> capacity = 0)
    BY DEF IInv, InChunk
<1> DEFINE base == Base(held, n)
<1>3. /\ decoded' = decoded + n /\ decoded' \in Nat
      /\ chunk' \in Nat /\ capacity' \in Nat /\ allocated' \in Nat /\ wrote' \in Views
      /\ base \in Nat /\ base + held + n <= capacity'
    BY <1>1, <1>2, WriteEffect
<1>4. \/ /\ chunk' = chunk /\ capacity' = capacity /\ allocated' = allocated
         /\ base = length
         /\ wrote' = Bytes(chunk, length + held, length + held + n)
      \/ /\ chunk' = chunk + 1 /\ capacity' > capacity
         /\ allocated' = allocated + capacity'
         /\ base = 0
         /\ wrote' = Bytes(chunk + 1, 0, held + n)
         /\ capacity' >= 2 * capacity /\ capacity' >= least
         /\ capacity' \in {held + n, 2 * capacity, least}
         /\ capacity < length + held + n
    BY <1>1, <1>2, WriteEffect
<1> HIDE DEF base
<1>5. /\ length' \in Nat /\ length' >= base /\ length' + size' = base + held + n
      /\ size' \in Nat /\ floor' \in Nat
    BY <1>1, <1>3 DEF Carve, base
<1>6. Advances
    BY <1>1, <1>3, <1>4, <1>5 DEF Advances
<1>7. views' \subseteq Views /\ Live'
    <2>1. LiveIn(views, chunk', length') /\ views \subseteq Views
        BY <1>3, <1>5, <1>6, LiveKept DEF IInv, TypeOK
    <2>2. CASE views' = views
        BY <2>1, <2>2 DEF Live
    <2>3. CASE Carve(Base(held, n), held + n)
        <3>1. /\ views' = views \union {Bytes(chunk', base, base + (held + n))}
              /\ length' = base + (held + n)
            BY <2>3 DEF Carve, base
        <3>2. Bytes(chunk', base, base + (held + n)) \in Views
            BY <1>3 DEF Bytes, Views
        <3>3. LiveIn({Bytes(chunk', base, base + (held + n))}, chunk', length')
            BY <1>3, <3>1 DEF LiveIn, Bytes
        <3> QED BY <2>1, <3>1, <3>2, <3>3 DEF Live, LiveIn
    <2> QED BY <2>2, <2>3
<1>8. TypeOK'
    <2>1. /\ docLen' \in Nat /\ utf8' \in BOOLEAN /\ marks' \in Seq(Marks)
          /\ phase' \in {"between", "decoding", "failed"} /\ at' <= docLen'
        BY DEF IInv, TypeOK
    <2> QED BY <1>3, <1>5, <1>7, <2>1 DEF TypeOK
<1>9. MarksSound'
    BY <1>3, <1>5, <1>6, MarksKept DEF IInv
<1>10. PICK cap2 \in Nat, len2 \in Nat, size2 \in Nat, a2 \in Nat :
            /\ capacity' = cap2 /\ length' = len2 /\ size' = size2 /\ at' = a2
            /\ at < a2 /\ a2 <= docLen
            /\ least >= docLen - a2 \/ least >= Room
            /\ utf8 => n <= a2 - at
            /\ docLen <= Room /\ utf8 => least >= docLen - a2 + size + n
    BY <1>3, <1>5
<1>11. /\ decoded' = decoded + n /\ length + size <= decoded
       /\ allocated <= 2 * capacity
       /\ chunk <= 1 => allocated = capacity
       /\ chunk >= 1 => capacity >= docLen - at \/ capacity >= Room
       /\ chunk = 1 => capacity <= Room \/ capacity <= decoded
       /\ chunk >= 2 => capacity <= 2 * decoded
    BY <1>3 DEF IInv, Budget
<1>12. docLen' = docLen /\ utf8' = utf8
    OBVIOUS
<1>13. \/ phase' = "decoding" /\ phase = "decoding" /\ floor' = floor /\ least = floor
       \/ phase' = "between" /\ size' = 0
    OBVIOUS
<1>14. phase = "decoding" => /\ floor <= Room /\ (chunk >= 1 => capacity >= floor)
                             /\ floor >= docLen - at \/ floor >= Room
    BY DEF IInv, Budget
<1>15. docLen <= Room /\ utf8 /\ phase' = "decoding" => floor' >= docLen - at' + size' + 1
    <2>1. SUFFICES ASSUME docLen <= Room, utf8, phase' = "decoding"
                   PROVE  floor' >= docLen - at' + size' + 1
        OBVIOUS
    <2>2. n <= a2 - at /\ floor >= docLen - at + size + 1
        BY <1>13, <1>10, <2>1 DEF IInv, Short
    <2>3. size' = size + n /\ floor' = floor
        BY <2>1
    <2>4. floor >= docLen - a2 + (size + n) + 1
        BY <1>1, <1>10, <2>2
    <2> QED BY <1>10, <2>3, <2>4
<1>16. ASSUME chunk' = chunk, capacity' = capacity, allocated' = allocated, base = length
      PROVE  InChunk' /\ Budget' /\ Short'
    <2>1. len2 + size2 = length + size + n /\ length + size + n <= capacity /\ cap2 = capacity
        <3>1. length' + size' = len2 + size2
            BY <1>10
        <3> QED BY <1>1, <1>3, <1>5, <1>10, <1>16, <3>1
    <2>2. /\ len2 + size2 <= capacity /\ len2 + size2 <= decoded + n
          /\ capacity >= docLen - at => capacity >= docLen - a2
          /\ capacity <= decoded => capacity <= decoded + n
          /\ capacity <= 2 * decoded => capacity <= 2 * (decoded + n)
          /\ n <= a2 - at /\ capacity >= docLen - at + length + size
               => capacity >= docLen - a2 + len2 + size2
        BY <1>10, <1>11, <2>1, StayNumbers DEF IInv
    <2>3. InChunk'
        <3>1. length' + size' <= capacity'
            BY <1>10, <2>1, <2>2
        <3>2. chunk' = 0 <=> capacity' = 0
            BY <1>2, <1>16
        <3> QED BY <1>13, <3>1, <3>2 DEF InChunk
    <2>4. Budget'
        <3>1. length' + size' <= decoded'
            BY <1>10, <1>11, <2>2
        <3>2. allocated' <= 2 * capacity'
            BY <1>10, <1>11, <1>16, <2>1
        <3>3. chunk' <= 1 => allocated' = capacity'
            BY <1>11, <1>16
        <3>4. chunk' >= 1 => capacity' >= docLen' - at' \/ capacity' >= Room
            BY <1>10, <1>11, <1>12, <1>16, <2>1, <2>2
        <3>5. /\ chunk' = 1 => capacity' <= Room \/ capacity' <= decoded'
              /\ chunk' >= 2 => capacity' <= 2 * decoded'
            BY <1>11, <1>10, <1>16, <2>1, <2>2
        <3>6. phase' = "decoding" => /\ floor' <= Room /\ (chunk' >= 1 => capacity' >= floor')
                                     /\ floor' >= docLen' - at' \/ floor' >= Room
            BY <1>12, <1>16, <1>10, <1>13, <1>14
        <3> QED BY <3>1, <3>2, <3>3, <3>4, <3>5, <3>6 DEF Budget
    <2>5. Short'
        <3>1. SUFFICES ASSUME docLen <= Room, utf8
                       PROVE  /\ chunk' <= 1
                              /\ chunk' = 1 => capacity' >= docLen' - at' + length' + size'
            BY <1>12, <1>15 DEF Short
        <3>2. /\ chunk <= 1 /\ n <= a2 - at
              /\ chunk = 1 => capacity >= docLen - at + length + size
            BY <1>10, <3>1 DEF IInv, Short
        <3> QED BY <1>10, <1>16, <1>12, <2>1, <2>2, <3>2
    <2> QED BY <2>3, <2>4, <2>5
<1>17. ASSUME chunk' = chunk + 1, capacity' > capacity,
             allocated' = allocated + capacity', base = 0,
             capacity' >= 2 * capacity, capacity' >= least,
             capacity' \in {held + n, 2 * capacity, least},
             capacity < length + held + n
      PROVE  InChunk' /\ Budget' /\ Short'
    <2>1. /\ len2 + size2 = size + n /\ size + n <= cap2
          /\ cap2 >= 2 * capacity /\ cap2 >= least /\ cap2 > capacity
          /\ cap2 = size + n \/ cap2 = 2 * capacity \/ cap2 = least
          /\ capacity < length + size + n /\ allocated' = allocated + cap2
        <3>1. length' + size' = len2 + size2
            BY <1>10
        <3>2. len2 + size2 = size + n /\ size + n <= cap2
            BY <1>1, <1>3, <1>5, <1>10, <1>17, <3>1
        <3> QED BY <1>10, <1>17, <3>2
    <2>2. /\ cap2 \in Nat /\ length + size <= decoded /\ allocated <= 2 * capacity /\ TypeOK
        BY <1>10, <1>11 DEF IInv
    <2>3. /\ size + n <= decoded + n
          /\ cap2 > 0 /\ allocated + cap2 <= 2 * cap2
          /\ capacity = 0 => allocated + cap2 = cap2 /\ (cap2 <= Room \/ cap2 <= decoded + n)
          /\ capacity >= least => cap2 <= 2 * (decoded + n)
        BY <2>1, <2>2, GrowNumbers
    <2>4. /\ len2 + size2 <= cap2 /\ len2 + size2 <= decoded + n
          /\ least >= docLen - a2 => cap2 >= docLen - a2
          /\ least >= docLen - a2 + size + n => cap2 >= docLen - a2 + len2 + size2
        BY <1>1, <1>10, <2>1, <2>3
    <2>5. InChunk'
        <3>1. length' + size' <= capacity'
            BY <1>10, <2>1, <2>3, <2>4
        <3>2. chunk' # 0 /\ capacity' # 0
            BY <1>1, <1>10, <1>17, <2>3, <2>4
        <3> QED BY <1>13, <3>1, <3>2 DEF InChunk
    <2>6. Budget'
        <3>1. length' + size' <= decoded'
            BY <1>10, <1>11, <2>3, <2>4
        <3>2. allocated' <= 2 * capacity'
            BY <1>10, <2>1, <2>3, <2>4
        <3>3. chunk' <= 1 => capacity = 0
            BY <1>1, <1>2, <1>17
        <3>4. /\ chunk' <= 1 => allocated' = capacity'
              /\ chunk' = 1 => capacity' <= Room \/ capacity' <= decoded'
            BY <1>10, <1>11, <2>1, <2>3, <2>4, <3>3
        <3>5. chunk' >= 1 => capacity' >= docLen' - at' \/ capacity' >= Room
            BY <1>1, <1>10, <1>12, <2>1, <2>3, <2>4
        <3>6. chunk' >= 2 => capacity' <= 2 * decoded'
            BY <1>1, <1>10, <1>11, <1>17, <2>3, <2>4
        <3>7. phase' = "decoding" => /\ floor' <= Room /\ (chunk' >= 1 => capacity' >= floor')
                                     /\ floor' >= docLen' - at' \/ floor' >= Room
            BY <1>12, <1>17, <1>10, <1>13, <1>14
        <3> QED BY <3>1, <3>2, <3>3, <3>4, <3>5, <3>6, <3>7 DEF Budget
    <2>7. Short'
        <3>1. SUFFICES ASSUME docLen <= Room, utf8
                       PROVE  /\ chunk' <= 1
                              /\ chunk' = 1 => capacity' >= docLen' - at' + length' + size'
            BY <1>12, <1>15 DEF Short
        <3>2. /\ chunk <= 1 /\ n <= a2 - at
              /\ chunk = 1 => capacity >= docLen - at + length + size
            BY <1>10, <3>1 DEF IInv, Short
        <3>3. chunk = 0
            BY <1>1, <1>10, <2>1, <3>2
        <3>4. cap2 >= docLen - a2 + len2 + size2
            BY <1>10, <2>3, <2>4, <3>1
        <3> QED BY <1>10, <1>17, <1>12, <3>3, <3>4
    <2> QED BY <2>5, <2>6, <2>7
<1>18. InChunk' /\ Budget' /\ Short'
    BY <1>4, <1>16, <1>17
<1>19. \A v \in views : ~Overlap(wrote', v)
    <2>1. \/ wrote' = Bytes(chunk, length + held, length + held + n)
          \/ wrote' = Bytes(chunk + 1, 0, held + n)
        BY <1>4
    <2>2. \A v \in views : ~Overlap(Bytes(chunk, length + held, length + held + n), v)
        BY <1>1, WriteApart DEF IInv
    <2>3. \A v \in views : ~Overlap(Bytes(chunk + 1, 0, held + n), v)
        BY <1>1, WriteApart DEF IInv
    <2> QED BY <2>1, <2>2, <2>3
<1> QED BY <1>7, <1>8, <1>9, <1>18, <1>19 DEF IInv

\* A string that gets a piece.
LEMMA PieceStep ==
    ASSUME IInv, NEW taken \in 1 .. docLen, NEW n \in 1 .. docLen + 2, Piece(taken, n)
    PROVE  IInv' /\ \A v \in views : ~Overlap(wrote', v)
<1>1. /\ docLen \in Nat /\ at \in Nat /\ size \in Nat /\ floor \in Nat
    BY Numbers DEF IInv
<1>2. /\ phase = "decoding" /\ phase' = "decoding" /\ Write(size, n, floor)
      /\ at + taken <= docLen /\ at' = at + taken
      /\ n <= taken + (IF utf8 THEN 0 ELSE 2)
      /\ length' = Base(size, n) /\ size' = size + n /\ floor' = floor /\ views' = views
      /\ UNCHANGED <<docLen, utf8, marks>>
    BY DEF Piece, document
<1>3. taken \in Nat /\ taken >= 1 /\ n \in Nat
    BY <1>1
<1>4. /\ floor <= Room /\ (chunk >= 1 => capacity >= floor)
      /\ floor >= docLen - at \/ floor >= Room
    BY <1>2 DEF IInv, Budget
<1>5. at + taken \in Nat /\ at < at + taken
      /\ (floor >= docLen - (at + taken) \/ floor >= Room)
    BY <1>1, <1>3, <1>4
<1>6. utf8 => n <= (at + taken) - at
    BY <1>1, <1>2, <1>3
<1>7. docLen <= Room /\ utf8 => floor >= docLen - (at + taken) + size + n
    <2>1. SUFFICES ASSUME docLen <= Room, utf8
                   PROVE  floor >= docLen - (at + taken) + size + n
        OBVIOUS
    <2>2. floor >= docLen - at + size + 1
        BY <1>2, <2>1 DEF IInv, Short
    <2> QED BY <1>1, <1>3, <1>6, <2>1, <2>2
<1> QED BY <1>1, <1>2, <1>3, <1>4, <1>5, <1>6, <1>7, WriteStep

\* A string that is finished.
LEMMA FinishStep ==
    ASSUME IInv, NEW n \in 0 .. docLen, Finish(n)
    PROVE  IInv' /\ \A v \in views : ~Overlap(wrote', v)
<1>1. /\ docLen \in Nat /\ at \in Nat /\ size \in Nat /\ floor \in Nat
    BY Numbers DEF IInv
<1>2. /\ phase = "decoding" /\ phase' = "between" /\ Write(size, n, floor)
      /\ at + n + 1 <= docLen /\ at' = at + n + 1
      /\ Carve(Base(size, n), size + n) /\ size' = 0 /\ floor' = 0
      /\ UNCHANGED <<docLen, utf8, marks>>
    BY DEF Finish, document
<1>3. n \in Nat
    BY <1>1
<1>4. /\ floor <= Room /\ (chunk >= 1 => capacity >= floor)
      /\ floor >= docLen - at \/ floor >= Room
    BY <1>2 DEF IInv, Budget
<1>5. at + n + 1 \in Nat /\ at < at + n + 1
      /\ (floor >= docLen - (at + n + 1) \/ floor >= Room)
    BY <1>1, <1>3, <1>4
<1>6. n <= (at + n + 1) - at
    BY <1>1, <1>3
<1>7. docLen <= Room /\ utf8 => floor >= docLen - (at + n + 1) + size + n
    <2>1. SUFFICES ASSUME docLen <= Room, utf8
                   PROVE  floor >= docLen - (at + n + 1) + size + n
        OBVIOUS
    <2>2. floor >= docLen - at + size + 1
        BY <1>2, <2>1 DEF IInv, Short
    <2> QED BY <1>1, <1>3, <2>2
<1> QED BY <1>1, <1>2, <1>3, <1>4, <1>5, <1>6, <1>7, WriteStep

\* A string that is copied.
LEMMA KeepStep ==
    ASSUME IInv, NEW i \in 0 .. docLen, NEW n \in 0 .. docLen, Keep(i, n)
    PROVE  IInv' /\ \A v \in views : ~Overlap(wrote', v)
<1>1. /\ docLen \in Nat /\ at \in Nat /\ size \in Nat /\ chunk \in Nat /\ capacity \in Nat
      /\ Room \in Nat
    BY Numbers DEF IInv
<1>2. /\ phase = "between" /\ at <= i /\ i + n + 2 <= docLen
      /\ Write(0, n, Floor(i)) /\ Carve(Base(0, n), n) /\ at' = i + n + 2
      /\ UNCHANGED <<docLen, utf8, marks, phase, size, floor>>
    BY DEF Keep, document, string
<1>3. i \in Nat /\ n \in Nat /\ i <= docLen
    BY <1>1
<1>4. size = 0
    BY <1>2 DEF IInv, InChunk
<1>5. /\ Floor(i) \in Nat /\ Floor(i) <= Room /\ Floor(i) <= docLen - i
      /\ Floor(i) = Room \/ Floor(i) = docLen - i
    BY <1>3, FloorRange DEF IInv
<1>6. chunk >= 1 => capacity >= Floor(i)
    <2>1. chunk >= 1 => capacity >= docLen - at \/ capacity >= Room
        BY DEF IInv, Budget
    <2> QED BY <1>1, <1>2, <1>3, <1>5, <2>1
<1>7. /\ i + n + 2 \in Nat /\ at < i + n + 2
      /\ Floor(i) >= docLen - (i + n + 2) \/ Floor(i) >= Room
      /\ n <= (i + n + 2) - at
    BY <1>1, <1>2, <1>3, <1>5
<1>8. docLen <= Room => Floor(i) >= docLen - (i + n + 2) + size + n
    BY <1>1, <1>2, <1>3, <1>4, <1>5
<1>9. Carve(Base(0, n), 0 + n) /\ size' = 0 /\ floor' \in Nat
    <2>1. 0 + n = n
        BY <1>3
    <2>2. floor \in Nat
        BY Numbers DEF IInv
    <2> QED BY <1>2, <1>4, <2>1, <2>2
<1>10. Floor(i) >= docLen - at' \/ Floor(i) >= Room
    BY <1>2, <1>7
<1>11. n <= at' - at /\ at < at' /\ at' <= docLen /\ at' \in Nat
    BY <1>2, <1>7
<1>12. docLen <= Room => Floor(i) >= docLen - at' + 0 + n
    BY <1>2, <1>4, <1>8
<1> QED BY <1>2, <1>3, <1>4, <1>5, <1>6, <1>9, <1>10, <1>11, <1>12, WriteStep

\* A string given up.
LEMMA FailStep == ASSUME IInv, Fail PROVE IInv'
<1>1. /\ phase = "decoding" /\ phase' = "failed" /\ wrote' = Nothing
      /\ UNCHANGED <<docLen, utf8, at, chunk, capacity, length, size, floor, views, marks,
                     allocated, decoded>>
    BY DEF Fail, document
<1>2. TypeOK'
    BY <1>1 DEF IInv, TypeOK, Nothing, Bytes, Views
<1>3. MarksSound' /\ Live'
    BY <1>1 DEF IInv, MarksSound, Live
<1>4. InChunk' /\ Budget'
    BY <1>1 DEF IInv, InChunk, Budget
<1>5. Short'
    BY <1>1 DEF IInv, Short
<1> QED BY <1>2, <1>3, <1>4, <1>5 DEF IInv

\* A new mark lies at the end of the chunk in use, past every other.
LEMMA MarkStep == ASSUME IInv, Mark PROVE IInv'
<1> DEFINE m == [capacity |-> capacity, length |-> length, held |-> views, chunk |-> chunk]
<1>1. /\ phase = "between" /\ at < docLen /\ marks' = Append(marks, m) /\ at' = at + 1
      /\ wrote' = Nothing
      /\ UNCHANGED <<docLen, utf8, chunk, capacity, length, phase, size, floor, views,
                     allocated, decoded>>
    BY DEF Mark, document, string
<1>2. /\ docLen \in Nat /\ at \in Nat
      /\ chunk \in Nat /\ capacity \in Nat /\ length \in Nat /\ size \in Nat /\ Room \in Nat
    BY Numbers DEF IInv
<1>3. m \in Marks /\ m.capacity = capacity /\ m.length = length /\ m.chunk = chunk /\ m.held = views
    BY <1>2 DEF IInv, TypeOK, Marks
<1> HIDE DEF m
<1>4. marks \in Seq(Marks)
    BY DEF IInv, TypeOK
<1>5. /\ marks' \in Seq(Marks) /\ Len(marks') = Len(marks) + 1
      /\ marks'[Len(marks) + 1] = m
      /\ \A j \in 1 .. Len(marks) : marks'[j] = marks[j]
      /\ Len(marks) \in Nat
    BY <1>1, <1>3, <1>4
<1>6. TypeOK'
    <2>1. at' \in Nat /\ at' <= docLen'
        BY <1>1, <1>2
    <2> QED BY <1>1, <1>5, <2>1 DEF IInv, TypeOK, Nothing, Bytes, Views
<1>7. Live'
    BY <1>1 DEF IInv, Live
<1>8. MarksSound'
    <2>1. ASSUME NEW j \in 1 .. Len(marks')
          PROVE  /\ \/ marks'[j].chunk < chunk' /\ marks'[j].capacity < capacity'
                    \/ /\ marks'[j].chunk = chunk' /\ marks'[j].capacity = capacity'
                       /\ marks'[j].length <= length'
                 /\ LiveIn(marks'[j].held, marks'[j].chunk, marks'[j].length)
        <3>1. j \in 1 .. Len(marks) \/ j = Len(marks) + 1
            BY <1>5
        <3>2. CASE j \in 1 .. Len(marks)
            BY <1>1, <1>5, <3>2 DEF IInv, MarksSound
        <3>3. CASE j = Len(marks) + 1
            BY <1>1, <1>2, <1>3, <1>5, <3>3 DEF IInv, Live
        <3> QED BY <3>1, <3>2, <3>3
    <2>2. ASSUME NEW i \in 1 .. Len(marks'), NEW j \in 1 .. Len(marks'), i < j
          PROVE  \/ marks'[i].chunk < marks'[j].chunk
                 \/ marks'[i].chunk = marks'[j].chunk /\ marks'[i].length <= marks'[j].length
        <3>1. i \in 1 .. Len(marks) /\ (j \in 1 .. Len(marks) \/ j = Len(marks) + 1)
            BY <1>5, <2>2
        <3>2. CASE j \in 1 .. Len(marks)
            BY <1>5, <2>2, <3>1, <3>2 DEF IInv, MarksSound
        <3>3. CASE j = Len(marks) + 1
            <4>1. marks'[j] = m /\ marks'[i] = marks[i]
                BY <1>5, <3>1, <3>3
            <4>2. marks[i].chunk < chunk \/ (marks[i].chunk = chunk /\ marks[i].length <= length)
                BY <3>1 DEF IInv, MarksSound
            <4> QED BY <1>3, <4>1, <4>2
        <3> QED BY <3>1, <3>2, <3>3
    <2> QED BY <2>1, <2>2 DEF MarksSound
<1>9. InChunk'
    BY <1>1 DEF IInv, InChunk
<1>10. Budget'
    <2>1. chunk >= 1 => capacity >= docLen - (at + 1) \/ capacity >= Room
        BY <1>2 DEF IInv, Budget
    <2> QED BY <1>1, <2>1 DEF IInv, Budget
<1>11. Short'
    <2>1. docLen <= Room /\ utf8 =>
            /\ chunk <= 1
            /\ phase # "failed" /\ chunk = 1 => capacity >= docLen - (at + 1) + length + size
        BY <1>2 DEF IInv, Short
    <2> QED BY <1>1, <2>1 DEF Short
<1> QED BY <1>6, <1>7, <1>8, <1>9, <1>10, <1>11 DEF IInv

\* A rewind: the capacity of the last mark tells whether its chunk is in use.
LEMMA RewindStep == ASSUME IInv, Rewind PROVE IInv'
<1> DEFINE m == marks[Len(marks)]
           back == IF capacity = m.capacity THEN m.length ELSE 0
<1>1. /\ phase = "between" /\ at < docLen /\ marks # << >>
      /\ length' = back /\ views' = m.held
      /\ marks' = SubSeq(marks, 1, Len(marks) - 1) /\ at' = at + 1 /\ wrote' = Nothing
      /\ UNCHANGED <<docLen, utf8, chunk, capacity, phase, size, floor, allocated, decoded>>
    BY DEF Rewind, document, string
<1>2. /\ docLen \in Nat /\ at \in Nat /\ at <= docLen
      /\ chunk \in Nat /\ capacity \in Nat /\ length \in Nat /\ size \in Nat /\ Room \in Nat
      /\ decoded \in Nat
    BY Numbers DEF IInv
<1>3. marks \in Seq(Marks)
    BY DEF IInv, TypeOK
<1>4. Len(marks) \in 1 .. Len(marks) /\ Len(marks) \in Nat
    BY <1>1, <1>3
<1>5. /\ m.capacity \in Nat /\ m.length \in Nat /\ m.chunk \in Nat /\ m.held \subseteq Views
    BY <1>4, MarkTypes DEF IInv
<1>6. /\ \/ m.chunk < chunk /\ m.capacity < capacity
         \/ m.chunk = chunk /\ m.capacity = capacity /\ m.length <= length
      /\ LiveIn(m.held, m.chunk, m.length)
    BY <1>4 DEF IInv, MarksSound
<1>7. /\ marks' \in Seq(Marks) /\ Len(marks') = Len(marks) - 1
      /\ \A j \in 1 .. Len(marks') : marks'[j] = marks[j] /\ j \in 1 .. Len(marks) /\ j < Len(marks)
    <2> DEFINE k == Len(marks) - 1
    <2>1. k \in Int /\ (1 <= k => k - 1 + 1 = k) /\ (~(1 <= k) => k = 0)
        BY <1>4
    <2>2. \A j \in 1 .. k : marks[j] \in Marks
        BY <1>3, <1>4
    <2>3. /\ SubSeq(marks, 1, k) \in Seq(Marks)
          /\ Len(SubSeq(marks, 1, k)) = IF 1 <= k THEN k - 1 + 1 ELSE 0
          /\ \A j \in 1 .. k - 1 + 1 : SubSeq(marks, 1, k)[j] = marks[1 + j - 1]
        BY <2>1, <2>2, SubSeqProperties
    <2>4. \A j \in 1 .. k : j \in 1 .. k - 1 + 1 /\ 1 + j - 1 = j
        BY <2>1
    <2>5. /\ marks' \in Seq(Marks) /\ Len(marks') = Len(marks) - 1
          /\ \A j \in 1 .. Len(marks) - 1 : marks'[j] = marks[j]
        BY <1>1, <2>1, <2>3, <2>4
    <2>6. \A j \in 1 .. Len(marks) - 1 : j \in 1 .. Len(marks) /\ j < Len(marks)
        BY <1>4
    <2> QED BY <2>5, <2>6
<1>8. \/ m.chunk < chunk /\ back = 0
      \/ m.chunk = chunk /\ back = m.length
    BY <1>2, <1>5, <1>6
<1>9. back \in Nat /\ back <= length
    BY <1>2, <1>5, <1>6, <1>8
<1> HIDE DEF m, back
<1>10. TypeOK'
    <2>1. at' \in Nat /\ at' <= docLen'
        BY <1>1, <1>2
    <2> QED BY <1>1, <1>5, <1>7, <1>9, <2>1 DEF IInv, TypeOK, Nothing, Bytes, Views
<1>11. Live'
    <2>1. ASSUME NEW v \in m.held
          PROVE  v.chunk < chunk \/ (v.chunk = chunk /\ v.to <= back)
        <3>1. v.chunk \in Nat /\ v.to \in Nat
            BY <1>5 DEF Views
        <3>2. v.chunk < m.chunk \/ (v.chunk = m.chunk /\ v.to <= m.length)
            BY <1>6 DEF LiveIn
        <3> QED BY <1>2, <1>5, <1>8, <3>1, <3>2
    <2> QED BY <1>1, <2>1 DEF Live, LiveIn
<1>12. MarksSound'
    <2>1. ASSUME NEW j \in 1 .. Len(marks')
          PROVE  /\ \/ marks[j].chunk < chunk /\ marks[j].capacity < capacity
                    \/ /\ marks[j].chunk = chunk /\ marks[j].capacity = capacity
                       /\ marks[j].length <= back
                 /\ LiveIn(marks[j].held, marks[j].chunk, marks[j].length)
        <3>1. j \in 1 .. Len(marks) /\ j < Len(marks)
            BY <1>7
        <3>2. marks[j].capacity \in Nat /\ marks[j].length \in Nat /\ marks[j].chunk \in Nat
            BY <3>1, MarkTypes DEF IInv
        <3>3. /\ \/ marks[j].chunk < chunk /\ marks[j].capacity < capacity
                 \/ marks[j].chunk = chunk /\ marks[j].capacity = capacity
              /\ LiveIn(marks[j].held, marks[j].chunk, marks[j].length)
            BY <3>1 DEF IInv, MarksSound
        <3>4. \/ marks[j].chunk < m.chunk
              \/ marks[j].chunk = m.chunk /\ marks[j].length <= m.length
            BY <1>4, <3>1 DEF IInv, MarksSound, m
        <3> QED BY <1>2, <1>5, <1>8, <3>2, <3>3, <3>4
    <2>2. ASSUME NEW i \in 1 .. Len(marks'), NEW j \in 1 .. Len(marks'), i < j
          PROVE  \/ marks[i].chunk < marks[j].chunk
                 \/ marks[i].chunk = marks[j].chunk /\ marks[i].length <= marks[j].length
        BY <1>7, <2>2 DEF IInv, MarksSound
    <2>3. chunk' = chunk /\ capacity' = capacity /\ length' = back
        BY <1>1
    <2> QED BY <1>7, <2>1, <2>2, <2>3 DEF MarksSound
<1>13. InChunk'
    <2>1. back + size <= capacity /\ (chunk = 0 <=> capacity = 0) /\ size = 0
        BY <1>1, <1>2, <1>9 DEF IInv, InChunk
    <2> QED BY <1>1, <2>1 DEF InChunk
<1>14. Budget'
    <2>1. /\ back + size <= decoded
          /\ chunk >= 1 => capacity >= docLen - (at + 1) \/ capacity >= Room
        BY <1>2, <1>9 DEF IInv, Budget
    <2> QED BY <1>1, <2>1 DEF IInv, Budget
<1>15. Short'
    <2>1. docLen <= Room /\ utf8 =>
            /\ chunk <= 1
            /\ chunk = 1 => capacity >= docLen - (at + 1) + back + size
        BY <1>1, <1>2, <1>9 DEF IInv, Short
    <2> QED BY <1>1, <2>1 DEF Short
<1> QED BY <1>10, <1>11, <1>12, <1>13, <1>14, <1>15 DEF IInv

\* Every step keeps the invariant, and writes no string that the caller holds.
LEMMA StepInvariant ==
    ASSUME IInv, [Next]_vars
    PROVE  IInv' /\ (Next => \A v \in views : ~Overlap(wrote', v))
<1>1. ASSUME wrote' = Nothing
      PROVE  \A v \in views : ~Overlap(wrote', v)
    <2>1. \A v \in views : v.from \in Nat
        BY DEF IInv, TypeOK, Views
    <2> QED BY <1>1, <2>1 DEF Overlap, Nothing, Bytes
<1>2. ASSUME NEW i \in 0 .. docLen - 1, Start(i)
      PROVE  IInv' /\ \A v \in views : ~Overlap(wrote', v)
    BY <1>1, <1>2, StartStep DEF Start
<1>3. ASSUME NEW taken \in 1 .. docLen, NEW n \in 1 .. docLen + 2, Piece(taken, n)
      PROVE  IInv' /\ \A v \in views : ~Overlap(wrote', v)
    BY <1>3, PieceStep
<1>4. ASSUME NEW n \in 0 .. docLen, Finish(n)
      PROVE  IInv' /\ \A v \in views : ~Overlap(wrote', v)
    BY <1>4, FinishStep
<1>5. ASSUME NEW i \in 0 .. docLen, NEW n \in 0 .. docLen, Keep(i, n)
      PROVE  IInv' /\ \A v \in views : ~Overlap(wrote', v)
    BY <1>5, KeepStep
<1>6. CASE Fail
    BY <1>1, <1>6, FailStep DEF Fail
<1>7. CASE Mark
    BY <1>1, <1>7, MarkStep DEF Mark
<1>8. CASE Rewind
    BY <1>1, <1>8, RewindStep DEF Rewind
<1>9. ASSUME UNCHANGED vars
      PROVE  IInv'
    <2>1. UNCHANGED <<docLen, utf8, at, chunk, capacity, length, phase, size, floor, views,
                      marks, wrote, allocated, decoded>>
        BY <1>9 DEF vars, document, string
    <2> QED BY <2>1 DEF IInv, TypeOK, MarksSound, Live, InChunk, Budget, Short
<1>10. ASSUME Next
       PROVE  IInv' /\ \A v \in views : ~Overlap(wrote', v)
    BY <1>2, <1>3, <1>4, <1>5, <1>6, <1>7, <1>8, <1>10 DEF Next
<1> QED BY <1>9, <1>10

\* The invariant holds throughout every call.
THEOREM Invariance == Spec => []IInv
<1>1. IInv /\ [Next]_vars => IInv'
    BY StepInvariant
<1> QED BY <1>1, InitInvariant, PTL DEF Spec

\* The arena keeps its types: no length, capacity or count goes below zero, and the walk
\* reads nothing past its document.
THEOREM TypeCorrect == Spec => []TypeOK
<1>1. IInv => TypeOK
    BY DEF IInv
<1> QED BY <1>1, Invariance, PTL

\* A carved string that the caller holds is never written again, whatever the strings,
\* the growth of chunks and the nesting of marks and rewinds.
THEOREM CarvedIsFinal == Spec => NeverRewritten
<1>1. IInv /\ [Next]_vars => [\A v \in views \cap views' : ~Overlap(wrote', v)]_vars
    <2>1. ASSUME IInv, [Next]_vars
          PROVE  [\A v \in views \cap views' : ~Overlap(wrote', v)]_vars
        <3>1. CASE Next
            BY <2>1, <3>1, StepInvariant
        <3>2. CASE UNCHANGED vars
            BY <3>2
        <3> QED BY <2>1, <3>1, <3>2
    <2> QED BY <2>1
<1> QED BY <1>1, Invariance, PTL DEF Spec, NeverRewritten

\* rewind may compare capacities to tell chunks apart.
THEOREM CapacityNamesChunk == Spec => []MarksNameChunks
<1>1. IInv => MarksNameChunks
    <2>1. ASSUME IInv, NEW j \in 1 .. Len(marks)
          PROVE  /\ marks[j].capacity = capacity <=> marks[j].chunk = chunk
                 /\ marks[j].chunk = chunk => marks[j].length <= length
        <3>1. /\ chunk \in Nat /\ capacity \in Nat /\ length \in Nat
              /\ marks[j].capacity \in Nat /\ marks[j].length \in Nat /\ marks[j].chunk \in Nat
            BY <2>1, Numbers, MarkTypes DEF IInv
        <3>2. \/ marks[j].chunk < chunk /\ marks[j].capacity < capacity
              \/ /\ marks[j].chunk = chunk /\ marks[j].capacity = capacity
                 /\ marks[j].length <= length
            BY <2>1 DEF IInv, MarksSound
        <3> QED BY <3>1, <3>2
    <2> QED BY <2>1 DEF MarksNameChunks
<1> QED BY <1>1, Invariance, PTL

\* A valid document of up to the room's bytes costs one allocation for its strings.
THEOREM ShortTakesOneChunk == Spec => []OneChunk
<1>1. IInv => OneChunk
    BY DEF IInv, Short, OneChunk
<1> QED BY <1>1, Invariance, PTL

\* A call allocates in proportion to what it decodes, past the room of one chunk.
THEOREM AllocationIsBounded == Spec => []AllocationFollowsDecoding
<1>1. ASSUME IInv
      PROVE  AllocationFollowsDecoding
    <2>1. /\ chunk \in Nat /\ capacity \in Nat /\ allocated \in Nat /\ decoded \in Nat
          /\ Room \in Nat
        BY <1>1, Numbers DEF IInv
    <2>2. /\ allocated <= 2 * capacity
          /\ chunk <= 1 => allocated = capacity
          /\ chunk = 1 => capacity <= Room \/ capacity <= decoded
          /\ chunk >= 2 => capacity <= 2 * decoded
          /\ chunk = 0 <=> capacity = 0
        BY <1>1 DEF IInv, Budget, InChunk
    <2>3. allocated <= Room \/ allocated <= 4 * decoded
        BY <2>1, <2>2
    <2> QED BY <2>1, <2>3 DEF AllocationFollowsDecoding, Larger
<1> QED BY <1>1, Invariance, PTL
=============================================================================
