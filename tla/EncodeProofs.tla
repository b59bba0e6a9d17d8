---------------------------- MODULE EncodeProofs ----------------------------
(***************************************************************************)
(* Encode for any values, any hash, any depth and any growth of the        *)
(* buckets: no container is open twice, the buckets and the stack of keys  *)
(* are those of the open containers, every write is a legal call of the    *)
(* Builder, and what is written is the text that recursion gives the value.*)
(***************************************************************************)
EXTENDS ValueTree, SequenceTheorems, FiniteSetTheorems, FunctionTheorems, WellFoundedInduction, TLAPS

Frames == [value : {c \in Values : c.kind \in ContainerKinds /\ c.ptr # 0},
           firstKey : Nat, next : Nat, older : Nat]

Texts == {"null", "scalar", "comma", "colon", "openObject", "closeObject",
          "openArray", "closeArray"} \union {Names[n] : n \in DOMAIN Names}

\* Types, and that what is written or open lies in the memory.
Typed ==
    /\ memory \in Memories /\ InMemory(memory, v)
    /\ pc \in {"value", "search", "next", "done"} /\ at \in Nat
    /\ open \in Seq(Frames) /\ keys \in Seq(Keys) /\ buckets \in Seq(Nat)
    /\ buf \in Seq(Texts) /\ needSep \in BOOLEAN
    /\ \A k \in DOMAIN open : InMemory(memory, open[k].value)

\* Where the keys of the k-th open container end: where those of the next object start.
KeysEnd(k) ==
    LET inner == {j \in Objects : j > k}
    IN  IF inner = {} THEN Len(keys)
        ELSE open[CHOOSE j \in inner : \A i \in inner : j <= i].firstKey

\* Each object's keys are in the stack, those of outer ones before those of inner ones;
\* and what was written of a container is part of it.
KeysStacked ==
    /\ \A k \in Objects :
        /\ open[k].firstKey <= Len(keys)
        /\ \A j \in Objects : j < k => open[j].firstKey + open[j].next <= open[k].firstKey
        /\ open[k].firstKey + open[k].next <= Len(keys)
    /\ \A k \in DOMAIN open \ Objects : open[k].next <= open[k].value.length

\* A search looks in the bucket of its value, and has passed no frame of that identity.
SearchSound ==
    pc = "search" =>
        /\ v.kind \in ContainerKinds /\ ~Refused /\ buckets # << >>
        /\ at # 0 => at \in DOMAIN open /\ Bucket(open[at].value, Len(buckets)) = Bucket(v, Len(buckets))
        /\ \A k \in DOMAIN open : Id(open[k].value) = Id(v) => k <= at

\* Without buckets no frame is chained to another.
Unchained == buckets = << >> => \A k \in DOMAIN open : open[k].older = 0

\* While no container is open nothing is written before the value.
Fresh == pc \in {"value", "search"} /\ open = << >> => buf = << >>

IInv == /\ Typed /\ PathDistinct /\ Chained /\ Unchained
        /\ KeysOfOpen /\ KeysStacked /\ SearchSound /\ Fresh

-----------------------------------------------------------------------------
(* Numbers.                                                                *)

Less == {p \in Nat \X Nat : p[1] < p[2]}

\* A set of naturals has a least element, by which inductions are made here.
LEMMA LeastNat ==
    ASSUME NEW S \in SUBSET Nat, S # {}
    PROVE  \E n \in S : \A m \in S : n <= m
<1>1. IsWellFoundedOn(Less, Nat)
    BY NatLessThanWellFounded DEF OpToRel, Less
<1>2. PICK n \in S : \A m \in S : <<m, n>> \notin Less
    BY <1>1, WFMin
<1>3. ASSUME NEW m \in S PROVE n <= m
    <2>1. m \in Nat /\ n \in Nat
        OBVIOUS
    <2>2. ~(m < n)
        BY <1>2, <2>1 DEF Less
    <2> QED BY <2>1, <2>2
<1> QED BY <1>3

\* What Newest is of a set of numbers up to n.
LEMMA NewestOf ==
    ASSUME NEW n \in Nat, NEW S \in SUBSET (1 .. n)
    PROVE  /\ Newest(S) \in 0 .. n
           /\ S = {} => Newest(S) = 0
           /\ S # {} => Newest(S) \in S
           /\ \A i \in S : i <= Newest(S)
<1>1. CASE S = {}
    BY <1>1 DEF Newest
<1>2. CASE S # {}
    <2>1. \A i \in S : i \in Nat /\ i <= n
        OBVIOUS
    <2> DEFINE D == {d \in Nat : \E i \in S : d = n - i}
    <2>2. \A i \in S : n - i \in D
        BY <2>1
    <2>3. D \in SUBSET Nat /\ D # {}
        BY <1>2, <2>2
    <2>4. PICK d \in D : \A e \in D : d <= e
        BY <2>3, LeastNat
    <2>5. PICK j \in S : d = n - j
        OBVIOUS
    <2>6. \A i \in S : i <= j
        BY <2>1, <2>2, <2>4, <2>5
    <2>7. \E k \in S : \A i \in S : i <= k
        BY <2>6
    <2>8. Newest(S) \in S /\ \A i \in S : i <= Newest(S)
        BY <1>2, <2>7, Zenon DEF Newest
    <2>9. Newest(S) \in 1 .. n
        BY <2>8
    <2> QED BY <1>2, <2>8, <2>9
<1> QED BY <1>1, <1>2

LEMMA NewestIs ==
    ASSUME NEW n \in Nat, NEW S \in SUBSET (1 .. n), NEW j \in S, \A i \in S : i <= j
    PROVE  Newest(S) = j
<1>1. Newest(S) \in S /\ j <= Newest(S)
    BY NewestOf
<1>2. Newest(S) <= j
    BY <1>1
<1>3. j \in 1 .. n /\ Newest(S) \in 1 .. n
    BY <1>1
<1> QED BY <1>1, <1>2, <1>3

LEMMA Scaled ==
    ASSUME NEW k \in Nat, NEW l \in Nat, NEW b \in Nat, k <= l
    PROVE  k * b <= b * l
<1>1. l = k + (l - k) /\ l - k \in Nat
    OBVIOUS
<1>2. b * (k + (l - k)) = b * k + b * (l - k)
    BY <1>1
<1>3. b * (l - k) \in Nat /\ b * k \in Nat /\ k * b = b * k
    BY <1>1
<1> QED BY <1>1, <1>2, <1>3

\* A value's bucket is one of those there are.
LEMMA BucketRange ==
    ASSUME NEW c, c.ptr \in Pointers, NEW n \in Nat \ {0}
    PROVE  Bucket(c, n) \in 1 .. n
<1> DEFINE h == Hash[c.ptr]
           q == (h * n) \div HashRange
<1>1. h \in Nat /\ h < HashRange /\ HashRange \in Nat \ {0}
    BY HashAssumption
<1>2. h * n < HashRange * n
    BY <1>1
<1>3. h * n \in Nat /\ q \in Nat /\ HashRange * q <= h * n
    BY <1>1
<1>4. q < n
    <2> HIDE DEF q, h
    <2>1. SUFFICES ASSUME n <= q PROVE FALSE
        BY <1>3
    <2>2. HashRange * n <= HashRange * q
        BY <1>1, <1>3, <2>1
    <2> QED BY <1>1, <1>2, <1>3, <2>2
<1> QED BY <1>3, <1>4 DEF Bucket

-----------------------------------------------------------------------------
(* Sorting.                                                                *)

StrictOrder(R, S) ==
    /\ \A x \in S : <<x, x>> \notin R
    /\ \A x, y \in S : x # y => <<x, y>> \in R \/ <<y, x>> \in R
    /\ \A x, y, z \in S : <<x, y>> \in R /\ <<y, z>> \in R => <<x, z>> \in R

\* The elements that come before x, and the place of x.
Earlier(R, S, x) == {y \in S : <<y, x>> \in R}
Place(R, S) == [x \in S |-> Cardinality(Earlier(R, S, x)) + 1]

\* Places follow the order and are those from 1 to the number of the elements.
LEMMA Places ==
    ASSUME NEW S, IsFiniteSet(S), NEW R, StrictOrder(R, S)
    PROVE  /\ Place(R, S) \in Surjection(S, 1 .. Cardinality(S))
           /\ \A x, y \in S : Place(R, S)[x] < Place(R, S)[y] => <<x, y>> \in R
<1> DEFINE p == Place(R, S)
<1>1. ASSUME NEW x \in S
      PROVE  /\ IsFiniteSet(Earlier(R, S, x)) /\ x \notin Earlier(R, S, x)
             /\ p[x] \in 1 .. Cardinality(S)
    <2>1. Earlier(R, S, x) \in SUBSET S /\ x \notin Earlier(R, S, x)
        BY DEF Earlier, StrictOrder
    <2>2. /\ IsFiniteSet(Earlier(R, S, x)) /\ Cardinality(Earlier(R, S, x)) <= Cardinality(S)
          /\ Cardinality(S) = Cardinality(Earlier(R, S, x)) => S = Earlier(R, S, x)
        BY <2>1, FS_Subset
    <2>3. Cardinality(Earlier(R, S, x)) \in Nat /\ Cardinality(S) \in Nat
        BY <2>2, FS_CardinalityType
    <2>4. Cardinality(Earlier(R, S, x)) # Cardinality(S)
        BY <2>1, <2>2
    <2>5. p[x] = Cardinality(Earlier(R, S, x)) + 1
        BY DEF Place
    <2> QED BY <2>1, <2>2, <2>3, <2>4, <2>5
<1>2. ASSUME NEW x \in S, NEW y \in S, <<x, y>> \in R
      PROVE  p[x] < p[y]
    <2> DEFINE E == Earlier(R, S, x)  F == Earlier(R, S, y)
    <2>1. E \union {x} \in SUBSET F
        BY <1>2 DEF Earlier, StrictOrder
    <2>2. Cardinality(E \union {x}) <= Cardinality(F)
        BY <1>1, <2>1, FS_Subset
    <2>3. Cardinality(E \union {x}) = Cardinality(E) + 1
        BY <1>1, FS_AddElement
    <2>4. Cardinality(E) \in Nat /\ Cardinality(F) \in Nat
        BY <1>1, FS_CardinalityType
    <2>5. p[x] = Cardinality(E) + 1 /\ p[y] = Cardinality(F) + 1
        BY DEF Place
    <2> HIDE DEF E, F, p
    <2> QED BY <2>2, <2>3, <2>4, <2>5
<1>3. \A x \in S : p[x] \in 1 .. Cardinality(S)
    BY <1>1
<1>4. p \in [S -> 1 .. Cardinality(S)]
    BY <1>3 DEF Place
<1>5. \A x, y \in S : x # y => <<x, y>> \in R \/ <<y, x>> \in R
    BY DEF StrictOrder
<1> HIDE DEF p
<1>6. p \in Injection(S, 1 .. Cardinality(S))
    <2>1. ASSUME NEW x \in S, NEW y \in S, p[x] = p[y], x # y PROVE FALSE
        <3>1. p[x] \in Int
            BY <1>3
        <3>2. p[x] < p[y] \/ p[y] < p[x]
            BY <1>2, <1>5, <2>1
        <3> QED BY <2>1, <3>1, <3>2
    <2> QED BY <1>4, <2>1 DEF Injection, IsInjective
<1>7. Cardinality(S) \in Nat
    BY FS_CardinalityType
<1>8. IsFiniteSet(1 .. Cardinality(S)) /\ Cardinality(1 .. Cardinality(S)) = Cardinality(S)
    <2>1. IsFiniteSet(1 .. Cardinality(S)) /\
          Cardinality(1 .. Cardinality(S)) = IF 1 > Cardinality(S) THEN 0 ELSE Cardinality(S) - 1 + 1
        BY <1>7, FS_Interval
    <2> QED BY <1>7, <2>1
<1>9. p \in Surjection(S, 1 .. Cardinality(S))
    BY <1>6, <1>8, FS_Injection
<1>10. ASSUME NEW x \in S, NEW y \in S, p[x] < p[y] PROVE <<x, y>> \in R
    <2>1. p[x] \in Int /\ p[y] \in Int
        BY <1>3
    <2>2. ~(p[y] < p[x]) /\ p[x] # p[y]
        BY <1>10, <2>1
    <2>3. <<y, x>> \notin R
        BY <1>2, <2>2
    <2> QED BY <1>5, <2>2, <2>3
<1> QED BY <1>9, <1>10 DEF p

\* A finite set that is strictly ordered has its elements in a sequence in that order.
LEMMA Arranged ==
    ASSUME NEW S, IsFiniteSet(S), NEW R, StrictOrder(R, S)
    PROVE  \E s \in [1 .. Cardinality(S) -> S] :
               \A i, j \in DOMAIN s : i < j => <<s[i], s[j]>> \in R
<1> DEFINE p == Place(R, S)
           n == Cardinality(S)
           s == [i \in 1 .. n |-> CHOOSE x \in S : p[x] = i]
<1>1. p \in Surjection(S, 1 .. n) /\ \A x, y \in S : p[x] < p[y] => <<x, y>> \in R
    BY Places
<1> HIDE DEF p
<1>2. \A i \in 1 .. n : \E x \in S : p[x] = i
    BY <1>1 DEF Surjection
<1>3. \A i \in 1 .. n : s[i] \in S /\ p[s[i]] = i
    BY <1>2
<1>4. s \in [1 .. n -> S]
    BY <1>3
<1>5. \A i, j \in DOMAIN s : i < j => <<s[i], s[j]>> \in R
    BY <1>1, <1>3
<1> HIDE DEF s
<1> QED BY <1>4, <1>5

\* The two orders of keys.
Bytewise == {p \in Keys \X Keys : ByBytes(p[1], p[2])}
Runewise == {p \in Keys \X Keys : CompareKeys(p[1], p[2])}

LEMMA KeyOrders ==
    ASSUME NEW S \in SUBSET Keys
    PROVE  StrictOrder(Bytewise, S) /\ StrictOrder(Runewise, S)
<1>1. \A k \in S : k \in Nat /\ k \in Keys /\ Reads[k] \in Nat
    <2>1. DOMAIN Names \subseteq Nat
        BY KeysAssumption, LenProperties
    <2> QED BY <2>1, KeysAssumption
<1>2. StrictOrder(Bytewise, S)
    BY <1>1 DEF StrictOrder, Bytewise, ByBytes
<1>3. StrictOrder(Runewise, S)
    <2>1. \A x, y \in S : <<x, y>> \in Runewise <=> CompareKeys(x, y)
        BY <1>1 DEF Runewise
    <2>2. \A x \in S : ~CompareKeys(x, x)
        BY <1>1 DEF CompareKeys
    <2>3. \A x, y \in S : x # y => CompareKeys(x, y) \/ CompareKeys(y, x)
        BY <1>1 DEF CompareKeys
    <2>4. \A x, y, z \in S : CompareKeys(x, y) /\ CompareKeys(y, z) => CompareKeys(x, z)
        BY <1>1 DEF CompareKeys
    <2> QED BY <2>1, <2>2, <2>3, <2>4 DEF StrictOrder
<1> QED BY <1>2, <1>3

LEMMA SortedIn ==
    ASSUME NEW S \in SUBSET Keys, IsFiniteSet(S)
    PROVE  Sorted(S, ByBytes) \in Seq(S) /\ Sorted(S, CompareKeys) \in Seq(S)
<1>1. Cardinality(S) \in Nat
    BY FS_CardinalityType
<1>2. [1 .. Cardinality(S) -> S] \subseteq Seq(S)
    BY <1>1, SeqDef
<1>3. \E s \in [1 .. Cardinality(S) -> S] : \A i, j \in DOMAIN s : i < j => ByBytes(s[i], s[j])
    <2>1. PICK s \in [1 .. Cardinality(S) -> S] :
              \A i, j \in DOMAIN s : i < j => <<s[i], s[j]>> \in Bytewise
        BY KeyOrders, Arranged
    <2> QED BY <2>1 DEF Bytewise
<1>4. \E s \in [1 .. Cardinality(S) -> S] : \A i, j \in DOMAIN s : i < j => CompareKeys(s[i], s[j])
    <2>1. PICK s \in [1 .. Cardinality(S) -> S] :
              \A i, j \in DOMAIN s : i < j => <<s[i], s[j]>> \in Runewise
        BY KeyOrders, Arranged
    <2> QED BY <2>1 DEF Runewise
<1>5. Sorted(S, ByBytes) \in [1 .. Cardinality(S) -> S]
    BY <1>3, Zenon DEF Sorted
<1>6. Sorted(S, CompareKeys) \in [1 .. Cardinality(S) -> S]
    BY <1>4, Zenon DEF Sorted
<1> QED BY <1>2, <1>5, <1>6

\* The keys of a map, sorted, are keys of the map.
LEMMA SortedKeysIn ==
    ASSUME NEW S \in SUBSET Keys, IsFiniteSet(S)
    PROVE  SortedKeys(S) \in Seq(S)
<1> DEFINE s == Sorted(S, CompareKeys)
           T == {s[i] : i \in {j \in DOMAIN s : j > 1 => Reads[s[j - 1]] # Reads[s[j]]}}
<1>1. Sorted(S, ByBytes) \in Seq(S) /\ s \in Seq(S)
    BY SortedIn
<1> HIDE DEF s
<1>2. T \in SUBSET S
    BY <1>1, LenProperties
<1>3. IsFiniteSet(T) /\ T \in SUBSET Keys
    BY <1>2, FS_Subset
<1> HIDE DEF T
<1>4. Sorted(T, CompareKeys) \in Seq(T)
    BY <1>3, SortedIn
<1>5. Sorted(T, CompareKeys) \in Seq(S)
    BY <1>2, <1>4, SeqMonotonic
<1> QED BY <1>1, <1>5 DEF SortedKeys, Compacted, s, T

-----------------------------------------------------------------------------
(* Filing frames into buckets.                                             *)

NewestAt(f, m, b, n) == Newest({j \in 1 .. n : Bucket(f[j].value, m) = b})

\* The frames f with the first k of them filed in m buckets.
FiledFrame(f, m, k, i) ==
    IF i <= k THEN [f[i] EXCEPT !.older = NewestAt(f, m, Bucket(f[i].value, m), i - 1)] ELSE f[i]
FiledTo(f, m, k) ==
    [open    |-> [i \in 1 .. Len(f) |-> FiledFrame(f, m, k, i)],
     buckets |-> [b \in 1 .. m |-> NewestAt(f, m, b, k)]]

LEMMA FrameBucket ==
    ASSUME NEW f \in Seq(Frames), NEW m \in Nat \ {0}, NEW i \in 1 .. Len(f)
    PROVE  f[i] \in Frames /\ f[i].value.ptr \in Pointers /\ Bucket(f[i].value, m) \in 1 .. m
<1>1. f[i] \in Frames
    BY ElementOfSeq
<1>2. f[i].value.ptr \in Pointers
    BY <1>1 DEF Frames, Values
<1> QED BY <1>1, <1>2, BucketRange

LEMMA NewestAtRange ==
    ASSUME NEW f, NEW m, NEW b, NEW n \in Nat
    PROVE  /\ NewestAt(f, m, b, n) \in 0 .. n
           /\ NewestAt(f, m, b, n) # 0 =>
                  /\ NewestAt(f, m, b, n) \in 1 .. n
                  /\ Bucket(f[NewestAt(f, m, b, n)].value, m) = b
           /\ \A j \in 1 .. n : Bucket(f[j].value, m) = b => j <= NewestAt(f, m, b, n)
<1> DEFINE S == {j \in 1 .. n : Bucket(f[j].value, m) = b}
<1>1. S \in SUBSET (1 .. n)
    OBVIOUS
<1>2. /\ Newest(S) \in 0 .. n
      /\ S = {} => Newest(S) = 0
      /\ S # {} => Newest(S) \in S
      /\ \A i \in S : i <= Newest(S)
    BY <1>1, NewestOf
<1>3. NewestAt(f, m, b, n) = Newest(S)
    BY DEF NewestAt
<1> QED BY <1>2, <1>3

\* The newest of n frames is the n-th if that is in the bucket, and else the newest before.
LEMMA NewestStep ==
    ASSUME NEW f, NEW m, NEW b, NEW n \in Nat \ {0}
    PROVE  NewestAt(f, m, b, n) = IF Bucket(f[n].value, m) = b THEN n ELSE NewestAt(f, m, b, n - 1)
<1> DEFINE S(k) == {j \in 1 .. k : Bucket(f[j].value, m) = b}
<1>1. CASE Bucket(f[n].value, m) = b
    <2>1. n \in S(n) /\ (\A i \in S(n) : i <= n) /\ S(n) \in SUBSET (1 .. n)
        BY <1>1
    <2>2. Newest(S(n)) = n
        BY <2>1, NewestIs
    <2> QED BY <1>1, <2>2 DEF NewestAt
<1>2. CASE Bucket(f[n].value, m) # b
    <2>1. S(n) = S(n - 1)
        BY <1>2
    <2> QED BY <1>2, <2>1 DEF NewestAt
<1> QED BY <1>1, <1>2

\* Only the values of the frames count.
LEMMA NewestSame ==
    ASSUME NEW f, NEW g, NEW m, NEW b, NEW n, \A j \in 1 .. n : f[j].value = g[j].value
    PROVE  NewestAt(f, m, b, n) = NewestAt(g, m, b, n)
<1>1. {j \in 1 .. n : Bucket(f[j].value, m) = b} = {j \in 1 .. n : Bucket(g[j].value, m) = b}
    OBVIOUS
<1> QED BY <1>1 DEF NewestAt

\* What filing leaves: the same frames, with the newest before each in its bucket.
LEMMA FiledToIs ==
    ASSUME NEW f \in Seq(Frames), NEW m \in Nat \ {0}, NEW k \in 0 .. Len(f)
    PROVE  LET s == FiledTo(f, m, k)
           IN  /\ s.open \in Seq(Frames) /\ Len(s.open) = Len(f)
               /\ \A i \in 1 .. Len(f) :
                      /\ s.open[i].value = f[i].value /\ s.open[i].firstKey = f[i].firstKey
                      /\ s.open[i].next = f[i].next
                      /\ i <= k => s.open[i].older = NewestAt(f, m, Bucket(f[i].value, m), i - 1)
               /\ s.buckets \in Seq(Nat) /\ Len(s.buckets) = m
               /\ \A b \in 1 .. m : s.buckets[b] = NewestAt(f, m, b, k)
<1> DEFINE o == [i \in 1 .. Len(f) |-> FiledFrame(f, m, k, i)]
           c == [b \in 1 .. m |-> NewestAt(f, m, b, k)]
<1>1. Len(f) \in Nat /\ k \in Nat
    BY LenProperties
<1>2. ASSUME NEW i \in 1 .. Len(f)
      PROVE  /\ o[i] \in Frames
             /\ o[i].value = f[i].value /\ o[i].firstKey = f[i].firstKey /\ o[i].next = f[i].next
             /\ i <= k => o[i].older = NewestAt(f, m, Bucket(f[i].value, m), i - 1)
    <2>1. f[i] \in Frames /\ o[i] = FiledFrame(f, m, k, i)
        BY FrameBucket
    <2> DEFINE w == NewestAt(f, m, Bucket(f[i].value, m), i - 1)
    <2>2. w \in Nat
        <3>1. i - 1 \in Nat
            BY <1>1
        <3> HIDE DEF o
        <3> QED BY <3>1, NewestAtRange
    <2> HIDE DEF w, o
    <2>3. FiledFrame(f, m, k, i) = IF i <= k THEN [f[i] EXCEPT !.older = w] ELSE f[i]
        BY DEF FiledFrame, w
    <2> QED BY <2>1, <2>2, <2>3 DEF Frames, w
<1>3. o \in [1 .. Len(f) -> Frames]
    BY <1>2
<1>4. o \in Seq(Frames) /\ Len(o) = Len(f)
    BY <1>1, <1>3, SeqDef, LenProperties
<1>5. \A b \in 1 .. m : c[b] \in Nat
    BY <1>1, NewestAtRange
<1>6. c \in [1 .. m -> Nat]
    BY <1>5
<1>7. c \in Seq(Nat) /\ Len(c) = m
    BY <1>6, SeqDef, LenProperties
<1>8. FiledTo(f, m, k).open = o /\ FiledTo(f, m, k).buckets = c
    BY DEF FiledTo
<1> HIDE DEF o
<1> QED BY <1>2, <1>4, <1>7, <1>8

LEMMA FiledKept ==
    ASSUME NEW f \in Seq(Frames), NEW m \in Nat \ {0}, NEW k \in 0 .. Len(f),
           NEW s, s = FiledTo(f, m, k)
    PROVE  Len(s.buckets) = m /\ \A i \in 1 .. Len(f) : s.open[i].value = f[i].value
BY FiledToIs

\* Filing the next frame.
LEMMA FileStep ==
    ASSUME NEW f \in Seq(Frames), NEW m \in Nat \ {0}, NEW k \in 1 .. Len(f)
    PROVE  File(FiledTo(f, m, k - 1), k) = FiledTo(f, m, k)
<1> DEFINE s == FiledTo(f, m, k - 1)
           t == FiledTo(f, m, k)
           b == Bucket(f[k].value, m)
<1>1. k - 1 \in 0 .. Len(f) /\ k \in 0 .. Len(f) /\ Len(f) \in Nat
    BY LenProperties
<1>2. /\ s.open = [i \in 1 .. Len(f) |-> FiledFrame(f, m, k - 1, i)]
      /\ s.buckets = [c \in 1 .. m |-> NewestAt(f, m, c, k - 1)]
      /\ t.open = [i \in 1 .. Len(f) |-> FiledFrame(f, m, k, i)]
      /\ t.buckets = [c \in 1 .. m |-> NewestAt(f, m, c, k)]
      /\ t = [open |-> t.open, buckets |-> t.buckets]
    BY DEF FiledTo
<1>3. s.open[k].value = f[k].value /\ Len(s.buckets) = m
    <2>1. PICK j \in 0 .. Len(f) : j = k - 1
        BY <1>1
    <2>2. s = FiledTo(f, m, j)
        BY <2>1
    <2> HIDE DEF s, t, b
    <2>3. Len(s.buckets) = m /\ \A i \in 1 .. Len(f) : s.open[i].value = f[i].value
        BY <2>2, FiledKept
    <2> QED BY <2>3
<1>4. b \in 1 .. m
    BY FrameBucket
<1>5. s.buckets[b] = NewestAt(f, m, b, k - 1)
    BY <1>2, <1>4
<1>6. [s.open EXCEPT ![k].older = s.buckets[b]] = t.open
    <2>1. \A i \in 1 .. Len(f) : i # k => FiledFrame(f, m, k - 1, i) = FiledFrame(f, m, k, i)
        BY <1>1 DEF FiledFrame
    <2>2. FiledFrame(f, m, k - 1, k) = f[k]
        BY <1>1 DEF FiledFrame
    <2>3. FiledFrame(f, m, k, k) = [f[k] EXCEPT !.older = NewestAt(f, m, b, k - 1)]
        BY <1>1 DEF FiledFrame
    <2> DEFINE so == s.open  to == t.open  w == NewestAt(f, m, b, k - 1)
    <2>4. /\ so = [i \in 1 .. Len(f) |-> FiledFrame(f, m, k - 1, i)]
          /\ to = [i \in 1 .. Len(f) |-> FiledFrame(f, m, k, i)]
          /\ s.buckets[b] = w /\ FiledFrame(f, m, k, k) = [f[k] EXCEPT !.older = w]
        BY <1>2, <1>5, <2>3
    <2> HIDE DEF s, t, b, so, to, w
    <2>5. so[k] = f[k]
        BY <2>2, <2>4
    <2>6. to = [i \in 1 .. Len(f) |-> IF i = k THEN [f[k] EXCEPT !.older = w] ELSE so[i]]
        BY <2>1, <2>4
    <2>7. [so EXCEPT ![k] = [f[k] EXCEPT !.older = w]] = to
        BY <2>4, <2>6
    <2> QED BY <2>4, <2>5, <2>7 DEF so, to
<1>7. [s.buckets EXCEPT ![b] = k] = t.buckets
    <2>1. \A c \in 1 .. m : NewestAt(f, m, c, k) = IF c = b THEN k ELSE NewestAt(f, m, c, k - 1)
        BY NewestStep
    <2> DEFINE sb == s.buckets  tb == t.buckets
    <2>2. /\ sb = [c \in 1 .. m |-> NewestAt(f, m, c, k - 1)]
          /\ tb = [c \in 1 .. m |-> NewestAt(f, m, c, k)]
        BY <1>2
    <2> HIDE DEF s, t, b, sb, tb
    <2>3. tb = [c \in 1 .. m |-> IF c = b THEN k ELSE sb[c]]
        BY <2>1, <2>2
    <2> QED BY <2>2, <2>3 DEF sb, tb
<1> HIDE DEF s, t, b
<1>8. File(s, k) = [open |-> [s.open EXCEPT ![k].older = s.buckets[b]], buckets |-> [s.buckets EXCEPT ![b] = k]]
    BY <1>3 DEF File, b
<1> QED BY <1>2, <1>6, <1>7, <1>8 DEF s, t

\* Without a frame in them the buckets are empty.
LEMMA FiledNone ==
    ASSUME NEW f \in Seq(Frames), NEW m \in Nat \ {0}
    PROVE  FiledTo(f, m, 0) = [open |-> f, buckets |-> [b \in 1 .. m |-> 0]]
<1>1. f = [i \in 1 .. Len(f) |-> f[i]]
    BY LenProperties
<1>2. \A i \in 1 .. Len(f) : FiledFrame(f, m, 0, i) = f[i]
    BY LenProperties DEF FiledFrame
<1>3. \A b \in 1 .. m : NewestAt(f, m, b, 0) = 0
    BY NewestAtRange
<1> QED BY <1>1, <1>2, <1>3 DEF FiledTo

\* The recursion of Refiled files the frames one after the other.
LEMMA RefiledIs ==
    ASSUME NEW f \in Seq(Frames), f # << >>
    PROVE  LET m == BucketsGrowth * BucketsPerFrame * Len(f)
           IN  m \in Nat \ {0} /\ Refiled(f) = FiledTo(f, m, Len(f) - 1)
<1> DEFINE n == Len(f)
           m == BucketsGrowth * BucketsPerFrame * n
           Start == [open |-> f, buckets |-> [b \in 1 .. m |-> 0]]
           Filed == CHOOSE F : F = [k \in 0 .. n - 1 |-> IF k = 0 THEN Start ELSE File(F[k - 1], k)]
           W == [k \in 0 .. n - 1 |-> FiledTo(f, m, k)]
<1>1. n \in Nat \ {0}
    BY EmptySeq, LenProperties
<1>2. m \in Nat \ {0}
    <2>1. BucketsGrowth * BucketsPerFrame \in Nat \ {0}
        BY BoundsAssumption
    <2> QED BY <1>1, <2>1
<1> HIDE DEF m
<1>3. Start = FiledTo(f, m, 0)
    BY <1>2, FiledNone
<1>4. \A k \in 1 .. n - 1 : File(FiledTo(f, m, k - 1), k) = FiledTo(f, m, k)
    BY <1>1, <1>2, FileStep
<1>5. W = [k \in 0 .. n - 1 |-> IF k = 0 THEN Start ELSE File(W[k - 1], k)]
    <2> HIDE DEF Start
    <2>1. \A k \in 0 .. n - 1 : FiledTo(f, m, k) = IF k = 0 THEN Start ELSE File(W[k - 1], k)
        BY <1>1, <1>3, <1>4
    <2> QED BY <2>1
<1>6. Filed = [k \in 0 .. n - 1 |-> IF k = 0 THEN Start ELSE File(Filed[k - 1], k)]
    <2>1. \E F : F = [k \in 0 .. n - 1 |-> IF k = 0 THEN Start ELSE File(F[k - 1], k)]
        BY <1>5
    <2> QED BY <2>1, Zenon
<1>7. Refiled(f) = Filed[n - 1]
    BY DEF Refiled, m
<1> DEFINE D == {k \in 0 .. n - 1 : Filed[k] # FiledTo(f, m, k)}
<1> HIDE DEF Filed, Start
<1>8. D = {}
    <2>1. SUFFICES ASSUME D # {} PROVE FALSE
        OBVIOUS
    <2> DEFINE E == D
    <2>2. E \in SUBSET Nat
        BY <1>1
    <2> HIDE DEF E
    <2>3. PICK k \in E : \A j \in E : k <= j
        BY <2>1, <2>2, LeastNat DEF E
    <2>4. k \in 0 .. n - 1
        BY DEF E
    <2>5. k # 0
        BY <1>1, <1>3, <1>6, <2>3 DEF E
    <2>6. k \in 1 .. n - 1 /\ k - 1 \in 0 .. n - 1 /\ k - 1 \notin E
        BY <1>1, <2>3, <2>4, <2>5
    <2>7. Filed[k - 1] = FiledTo(f, m, k - 1)
        BY <2>6 DEF E
    <2>8. Filed[k] = File(Filed[k - 1], k)
        BY <1>6, <2>4, <2>5
    <2>9. Filed[k] # FiledTo(f, m, k)
        BY DEF E
    <2> QED BY <1>4, <2>6, <2>7, <2>8, <2>9
<1>9. Filed[n - 1] = FiledTo(f, m, n - 1)
    BY <1>1, <1>8
<1> QED BY <1>2, <1>7, <1>9 DEF m

\* index keeps frames that are chained through their buckets chained, or keeps no buckets.
LEMMA IndexedIs ==
    ASSUME open \in Seq(Frames), buckets \in Seq(Nat), Chained, NEW c \in Frames
    PROVE  LET f == Append(open, c)
           IN  \/ buckets = << >> /\ Indexed(f) = [open |-> f, buckets |-> << >>]
               \/ \E m \in Nat \ {0} : /\ Len(f) * BucketsPerFrame <= m
                                       /\ Indexed(f) = FiledTo(f, m, Len(f))
<1> DEFINE f == Append(open, c)
           n == Len(f)
<1>1. /\ f \in Seq(Frames) /\ f # << >> /\ n \in Nat \ {0} /\ n = Len(open) + 1
      /\ \A i \in 1 .. Len(open) : f[i] = open[i]
      /\ f[n] = c
    BY AppendProperties, LenProperties
<1> HIDE DEF f
<1>2. CASE buckets = << >> /\ n <= InlineOpenValues
    BY <1>2 DEF Indexed, f
<1>3. CASE ~(buckets = << >> /\ n <= InlineOpenValues) /\ n > Len(buckets) \div BucketsPerFrame
    <2> DEFINE m == BucketsGrowth * BucketsPerFrame * n
    <2>1. m \in Nat \ {0} /\ Refiled(f) = FiledTo(f, m, n - 1)
        BY <1>1, RefiledIs
    <2>2. n \in 1 .. Len(f)
        BY <1>1
    <2>3. File(Refiled(f), n) = FiledTo(f, m, n)
        <3> HIDE DEF m
        <3> QED BY <1>1, <2>1, <2>2, FileStep
    <2>4. n * BucketsPerFrame <= m
        <3> DEFINE e == BucketsPerFrame * n
        <3>1. e \in Nat /\ e = n * BucketsPerFrame
            BY <1>1, BoundsAssumption
        <3>2. m = BucketsGrowth * e
            BY <1>1, BoundsAssumption
        <3>3. e <= BucketsGrowth * e
            <4> HIDE DEF e
            <4> QED BY <3>1, BoundsAssumption
        <3> QED BY <3>1, <3>2, <3>3
    <2>5. Indexed(f) = File(Refiled(f), n)
        BY <1>3 DEF Indexed
    <2> QED BY <2>1, <2>3, <2>4, <2>5 DEF f
<1>4. CASE ~(buckets = << >> /\ n <= InlineOpenValues) /\ ~(n > Len(buckets) \div BucketsPerFrame)
    <2> DEFINE m == Len(buckets)
    <2>1. m \in Nat /\ n <= m \div BucketsPerFrame
        BY <1>1, <1>4, LenProperties, BoundsAssumption
    <2>2. n * BucketsPerFrame <= m /\ m \in Nat \ {0}
        <3> DEFINE q == m \div BucketsPerFrame
        <3>1. q \in Nat /\ BucketsPerFrame * q <= m /\ n <= q
            BY <2>1, BoundsAssumption
        <3> HIDE DEF q, m
        <3>2. n * BucketsPerFrame <= BucketsPerFrame * q
            BY <1>1, <3>1, BoundsAssumption, Scaled
        <3>3. n * BucketsPerFrame \in Nat \ {0} /\ BucketsPerFrame * q \in Nat
            BY <1>1, <3>1, BoundsAssumption
        <3>4. m \in Nat
            BY <2>1
        <3> QED BY <3>1, <3>2, <3>3, <3>4
    <2>3. buckets # << >>
        BY <2>2
    <2>4. n - 1 \in 0 .. n /\ n \in 1 .. Len(f) /\ n - 1 = Len(open)
        BY <1>1
    <2>5. f = FiledTo(f, m, n - 1).open
        <3> DEFINE o == FiledTo(f, m, n - 1).open
        <3>1. o = [i \in 1 .. n |-> FiledFrame(f, m, n - 1, i)]
            BY DEF FiledTo
        <3>2. ASSUME NEW i \in 1 .. n PROVE FiledFrame(f, m, n - 1, i) = f[i]
            <4>1. CASE i = Len(f)
                BY <1>1, <4>1 DEF FiledFrame
            <4>2. CASE i # Len(f)
                <5>1. i \in 1 .. Len(open) /\ i \in DOMAIN open /\ f[i] = open[i]
                    BY <1>1, <4>2, LenProperties
                <5>2. open[i].older = NewestAt(open, m, Bucket(f[i].value, m), i - 1)
                    BY <2>3, <5>1 DEF Chained, NewestIn, NewestAt
                <5>3. \A j \in 1 .. i - 1 : f[j].value = open[j].value
                    <6>1. \A j \in 1 .. i - 1 : j \in 1 .. Len(open)
                        BY <1>1, <5>1, LenProperties
                    <6> QED BY <1>1, <6>1
                <5>4. f[i].older = NewestAt(f, m, Bucket(f[i].value, m), i - 1)
                    BY <5>1, <5>2, <5>3, NewestSame
                <5>5. f[i] \in Frames
                    BY <1>1, ElementOfSeq
                <5> DEFINE w == NewestAt(f, m, Bucket(f[i].value, m), i - 1)
                <5>6. [f[i] EXCEPT !.older = w] = f[i]
                    <6> HIDE DEF w
                    <6> QED BY <5>4, <5>5 DEF Frames, w
                <5>7. i <= n - 1
                    BY <1>1, <5>1
                <5> QED BY <5>6, <5>7 DEF FiledFrame
            <4> QED BY <4>1, <4>2
        <3>3. f = [i \in 1 .. n |-> f[i]]
            BY <1>1, LenProperties
        <3> QED BY <3>1, <3>2, <3>3
    <2>6. buckets = FiledTo(f, m, n - 1).buckets
        <3>1. \A b \in DOMAIN buckets : buckets[b] = NewestAt(open, m, b, n - 1)
            BY <2>3, <2>4 DEF Chained, NewestIn, NewestAt
        <3>2. \A b \in DOMAIN buckets : buckets[b] = NewestAt(f, m, b, n - 1)
            <4>1. \A j \in 1 .. n - 1 : f[j].value = open[j].value
                BY <1>1, <2>4
            <4> QED BY <3>1, <4>1, NewestSame
        <3>3. DOMAIN buckets = 1 .. m /\ buckets = [b \in DOMAIN buckets |-> buckets[b]]
            BY LenProperties
        <3> QED BY <3>2, <3>3 DEF FiledTo
    <2>7. [open |-> f, buckets |-> buckets] = FiledTo(f, m, n - 1)
        BY <2>5, <2>6 DEF FiledTo
    <2>8. File([open |-> f, buckets |-> buckets], n) = FiledTo(f, m, n)
        BY <1>1, <2>2, <2>4, <2>7, FileStep
    <2>9. Indexed(f) = File([open |-> f, buckets |-> buckets], n)
        BY <1>4 DEF Indexed
    <2> QED BY <2>2, <2>8, <2>9 DEF f
<1> QED BY <1>2, <1>3, <1>4

-----------------------------------------------------------------------------
(* The ends of the keys of an object.                                      *)

ObjectsOf(o) == {k \in DOMAIN o : o[k].value.kind = "object"}
InnerOf(o, k) == {j \in ObjectsOf(o) : j > k}
\* KeysEnd of the k-th of the frames o, while there are l keys.
EndOf(o, l, k) ==
    IF InnerOf(o, k) = {} THEN l
    ELSE o[CHOOSE j \in InnerOf(o, k) : \A i \in InnerOf(o, k) : j <= i].firstKey

LEMMA EndIs ==
    ASSUME NEW o \in Seq(Frames), NEW l, NEW k
    PROVE  \/ InnerOf(o, k) = {} /\ EndOf(o, l, k) = l
           \/ \E j \in InnerOf(o, k) :
                  (\A i \in InnerOf(o, k) : j <= i) /\ EndOf(o, l, k) = o[j].firstKey
<1> DEFINE I == InnerOf(o, k)
<1>1. I \in SUBSET Nat
    BY LenProperties DEF InnerOf, ObjectsOf
<1>2. CASE I = {}
    BY <1>2 DEF EndOf
<1>3. CASE I # {}
    <2> HIDE DEF I
    <2>1. \E j \in I : \A i \in I : j <= i
        BY <1>1, <1>3, LeastNat
    <2> DEFINE j == CHOOSE j \in I : \A i \in I : j <= i
    <2>2. j \in I /\ \A i \in I : j <= i
        BY <2>1, Zenon
    <2>3. EndOf(o, l, k) = o[j].firstKey
        BY <1>3 DEF EndOf, I
    <2> QED BY <2>2, <2>3 DEF I
<1> QED BY <1>2, <1>3

\* Who the least inner object is says where the keys end.
LEMMA EndAt ==
    ASSUME NEW o \in Seq(Frames), NEW l, NEW k, NEW j \in InnerOf(o, k),
           \A i \in InnerOf(o, k) : j <= i
    PROVE  EndOf(o, l, k) = o[j].firstKey
<1>1. PICK h \in InnerOf(o, k) :
          (\A i \in InnerOf(o, k) : h <= i) /\ EndOf(o, l, k) = o[h].firstKey
    BY EndIs
<1>2. h \in Nat /\ j \in Nat
    BY LenProperties DEF InnerOf, ObjectsOf
<1> QED BY <1>1, <1>2

\* The keys of frames that differ in what they are chained to and in what was written of
\* them end alike.
LEMMA EndSame ==
    ASSUME NEW o \in Seq(Frames), NEW p \in Seq(Frames), Len(p) = Len(o),
           \A i \in 1 .. Len(o) : p[i].value = o[i].value /\ p[i].firstKey = o[i].firstKey,
           NEW l, NEW k
    PROVE  ObjectsOf(p) = ObjectsOf(o) /\ EndOf(p, l, k) = EndOf(o, l, k)
<1>1. DOMAIN o = 1 .. Len(o) /\ DOMAIN p = 1 .. Len(o)
    BY LenProperties
<1>2. ObjectsOf(p) = ObjectsOf(o)
    BY <1>1 DEF ObjectsOf
<1>3. InnerOf(p, k) = InnerOf(o, k) /\ InnerOf(o, k) \subseteq 1 .. Len(o)
    BY <1>1, <1>2 DEF InnerOf, ObjectsOf
<1>4. CASE InnerOf(o, k) = {}
    <2>1. EndOf(p, l, k) = l /\ EndOf(o, l, k) = l
        BY <1>3, <1>4 DEF EndOf
    <2> QED BY <1>2, <2>1
<1>5. CASE InnerOf(o, k) # {}
    <2>1. PICK j \in InnerOf(o, k) :
              (\A i \in InnerOf(o, k) : j <= i) /\ EndOf(o, l, k) = o[j].firstKey
        BY <1>5, EndIs
    <2>2. EndOf(p, l, k) = p[j].firstKey
        BY <1>3, <2>1, EndAt
    <2> QED BY <1>2, <1>3, <2>1, <2>2
<1> QED BY <1>4, <1>5

LEMMA ObjectsPushed ==
    ASSUME NEW o \in Seq(Frames), NEW p \in Seq(Frames), Len(p) = Len(o) + 1,
           \A i \in 1 .. Len(o) : p[i].value = o[i].value
    PROVE  ObjectsOf(p) = ObjectsOf(o) \union
               (IF p[Len(p)].value.kind = "object" THEN {Len(p)} ELSE {})
<1>1. Len(o) \in Nat /\ DOMAIN o = 1 .. Len(o) /\ DOMAIN p = 1 .. Len(o) + 1
    BY LenProperties
<1> QED BY <1>1 DEF ObjectsOf

\* The keys of the innermost object end where the stack does.
LEMMA EndOfLast ==
    ASSUME NEW o \in Seq(Frames), NEW l
    PROVE  EndOf(o, l, Len(o)) = l
<1>1. InnerOf(o, Len(o)) = {}
    BY LenProperties DEF InnerOf, ObjectsOf
<1> QED BY <1>1 DEF EndOf

\* A frame more: an object's keys start where those of the last object end, and an array
\* has none.
LEMMA EndPushed ==
    ASSUME NEW o \in Seq(Frames), NEW p \in Seq(Frames), Len(p) = Len(o) + 1,
           \A i \in 1 .. Len(o) : p[i].value = o[i].value /\ p[i].firstKey = o[i].firstKey,
           NEW l, NEW m,
           p[Len(p)].value.kind # "object" => m = l,
           p[Len(p)].value.kind = "object" => p[Len(p)].firstKey = l
    PROVE  \A k \in ObjectsOf(o) : EndOf(p, m, k) = EndOf(o, l, k)
<1>1. Len(o) \in Nat /\ DOMAIN o = 1 .. Len(o) /\ DOMAIN p = 1 .. Len(o) + 1
    BY LenProperties
<1>2. ObjectsOf(p) = ObjectsOf(o) \union
          (IF p[Len(p)].value.kind = "object" THEN {Len(p)} ELSE {})
    BY ObjectsPushed
<1>3. ObjectsOf(o) \subseteq 1 .. Len(o)
    BY <1>1 DEF ObjectsOf
<1>4. ASSUME NEW k \in ObjectsOf(o) PROVE EndOf(p, m, k) = EndOf(o, l, k)
    <2>1. k \in 1 .. Len(o) /\ InnerOf(o, k) \subseteq 1 .. Len(o)
        BY <1>3 DEF InnerOf
    <2>2. InnerOf(p, k) = InnerOf(o, k) \union
              (IF p[Len(p)].value.kind = "object" THEN {Len(p)} ELSE {})
        BY <1>1, <1>2, <2>1 DEF InnerOf
    <2>3. CASE InnerOf(o, k) = {} /\ p[Len(p)].value.kind # "object"
        BY <2>2, <2>3 DEF EndOf
    <2>4. CASE InnerOf(o, k) = {} /\ p[Len(p)].value.kind = "object"
        <3>1. InnerOf(p, k) = {Len(p)} /\ Len(p) \in Nat
            BY <1>1, <2>2, <2>4
        <3>2. Len(p) \in InnerOf(p, k) /\ \A i \in InnerOf(p, k) : Len(p) <= i
            BY <3>1
        <3>3. EndOf(p, m, k) = p[Len(p)].firstKey
            BY <3>2, EndAt
        <3> QED BY <2>4, <3>3 DEF EndOf
    <2>5. CASE InnerOf(o, k) # {}
        <3>1. PICK j \in InnerOf(o, k) :
                  (\A i \in InnerOf(o, k) : j <= i) /\ EndOf(o, l, k) = o[j].firstKey
            BY <2>5, EndIs
        <3>2. j \in 1 .. Len(o) /\ j \in InnerOf(p, k)
            BY <2>1, <2>2, <3>1
        <3>3. ASSUME NEW i \in InnerOf(p, k) PROVE j <= i
            <4>1. i \in InnerOf(o, k) \/ i = Len(o) + 1
                BY <2>2
            <4> QED BY <1>1, <3>1, <3>2, <4>1
        <3>4. EndOf(p, m, k) = p[j].firstKey
            BY <3>2, <3>3, EndAt
        <3> QED BY <3>1, <3>2, <3>4
    <2> QED BY <2>3, <2>4, <2>5
<1> QED BY <1>4

-----------------------------------------------------------------------------
(* The steps.                                                              *)

LEMMA KeysOfOpenIs ==
    /\ Objects = ObjectsOf(open) /\ Objects' = ObjectsOf(open')
    /\ KeysOfOpen <=> \A k \in Objects :
           SubSeq(keys, open[k].firstKey + 1, EndOf(open, Len(keys), k))
               = SortedKeys(DOMAIN memory[open[k].value.ptr])
    /\ KeysOfOpen' <=> \A k \in Objects' :
           SubSeq(keys', open'[k].firstKey + 1, EndOf(open', Len(keys'), k))
               = SortedKeys(DOMAIN memory'[open'[k].value.ptr])
BY DEF KeysOfOpen, Objects, ObjectsOf, EndOf, InnerOf

\* Frames whose values and first keys stay, and whose keys do, have the keys they had.
LEMMA KeysKept ==
    ASSUME KeysOfOpen, open \in Seq(Frames), open' \in Seq(Frames), Len(open') = Len(open),
           \A i \in 1 .. Len(open) : /\ open'[i].value = open[i].value
                                     /\ open'[i].firstKey = open[i].firstKey,
           UNCHANGED <<memory, keys>>
    PROVE  KeysOfOpen'
<1>1. ObjectsOf(open') = ObjectsOf(open) /\ ObjectsOf(open) \subseteq 1 .. Len(open)
    BY EndSame, LenProperties DEF ObjectsOf
<1>2. \A k : EndOf(open', Len(keys), k) = EndOf(open, Len(keys), k)
    BY EndSame
<1>3. \A k \in ObjectsOf(open) : SubSeq(keys, open[k].firstKey + 1, EndOf(open, Len(keys), k))
                                     = SortedKeys(DOMAIN memory[open[k].value.ptr])
    BY KeysOfOpenIs
<1>4. \A k \in ObjectsOf(open') : SubSeq(keys', open'[k].firstKey + 1, EndOf(open', Len(keys'), k))
                                      = SortedKeys(DOMAIN memory'[open'[k].value.ptr])
    BY <1>1, <1>2, <1>3
<1> QED BY <1>4, KeysOfOpenIs

\* The frames and the buckets once v is pushed.
LEMMA Pushed ==
    ASSUME IInv, v.kind \in ContainerKinds, v.ptr # 0, Push
    PROVE  /\ open' \in Seq(Frames) /\ Len(open') = Len(open) + 1
           /\ \A i \in 1 .. Len(open) :
                  /\ open'[i].value = open[i].value /\ open'[i].firstKey = open[i].firstKey
                  /\ open'[i].next = open[i].next
           /\ open'[Len(open')].value = v /\ open'[Len(open')].next = 0
           /\ v.kind = "object" => open'[Len(open')].firstKey = Len(keys)
           /\ buckets' \in Seq(Nat)
           /\ Chained' /\ Unchained'
<1> DEFINE c == Frame(v)
           f == Append(open, c)
           n == Len(f)
<1>1. v \in Values /\ v.ptr \in Pointers /\ open \in Seq(Frames) /\ keys \in Seq(Keys)
      /\ buckets \in Seq(Nat)
    BY DEF IInv, Typed, InMemory, Values
<1>2. c \in Frames /\ c.value = v /\ c.next = 0 /\ c.older = 0
      /\ (v.kind = "object" => c.firstKey = Len(keys))
    BY <1>1, PointersAssumption, LenProperties DEF Frame, Frames
<1>3. /\ f \in Seq(Frames) /\ n \in Nat \ {0} /\ n = Len(open) + 1
      /\ \A i \in 1 .. Len(open) : f[i] = open[i]
      /\ f[n] = c
    BY <1>1, <1>2, AppendProperties, LenProperties
<1>4. open' = Indexed(f).open /\ buckets' = Indexed(f).buckets
    BY DEF Push
<1>5. \/ buckets = << >> /\ Indexed(f) = [open |-> f, buckets |-> << >>]
      \/ \E m \in Nat \ {0} : n * BucketsPerFrame <= m /\ Indexed(f) = FiledTo(f, m, n)
    <2> HIDE DEF c
    <2> QED BY <1>1, <1>2, IndexedIs DEF IInv
<1> HIDE DEF f, c
<1>6. CASE buckets = << >> /\ Indexed(f) = [open |-> f, buckets |-> << >>]
    <2>1. open' = f /\ buckets' = << >>
        BY <1>4, <1>6
    <2>2. \A k \in DOMAIN f : f[k].older = 0
        <3>1. DOMAIN f = 1 .. n /\ DOMAIN open = 1 .. Len(open)
            BY <1>1, <1>3, LenProperties
        <3>2. \A k \in DOMAIN open : open[k].older = 0
            BY <1>6 DEF IInv, Unchained
        <3>3. \A k \in 1 .. n : k \in 1 .. Len(open) \/ k = n
            BY <1>3
        <3> QED BY <1>2, <1>3, <3>1, <3>2, <3>3
    <2>3. Chained' /\ Unchained'
        BY <2>1, <2>2 DEF Chained, Unchained
    <2> QED BY <1>2, <1>3, <2>1, <2>3, EmptySeq
<1>7. ASSUME NEW m \in Nat \ {0}, n * BucketsPerFrame <= m, Indexed(f) = FiledTo(f, m, n)
      PROVE  /\ open' \in Seq(Frames) /\ Len(open') = n
             /\ \A i \in 1 .. n :
                    /\ open'[i].value = f[i].value /\ open'[i].firstKey = f[i].firstKey
                    /\ open'[i].next = f[i].next
             /\ buckets' \in Seq(Nat) /\ Chained' /\ Unchained'
    <2>1. n \in 0 .. Len(f)
        BY <1>3
    <2>2. /\ open' \in Seq(Frames) /\ Len(open') = Len(f)
          /\ \A i \in 1 .. Len(f) :
                 /\ open'[i].value = f[i].value /\ open'[i].firstKey = f[i].firstKey
                 /\ open'[i].next = f[i].next
                 /\ i <= n => open'[i].older = NewestAt(f, m, Bucket(f[i].value, m), i - 1)
          /\ buckets' \in Seq(Nat) /\ Len(buckets') = m
          /\ \A b \in 1 .. m : buckets'[b] = NewestAt(f, m, b, n)
        BY <1>3, <1>4, <1>7, <2>1, FiledToIs
    <2>3. DOMAIN open' = 1 .. n /\ DOMAIN buckets' = 1 .. m /\ buckets' # << >>
        BY <2>2, LenProperties, EmptySeq
    <2>4. ASSUME NEW k \in 1 .. n
          PROVE  open'[k].older = NewestAt(open', m, Bucket(open'[k].value, m), k - 1)
        <3>1. \A j \in 1 .. k - 1 : j \in 1 .. n
            BY <1>3
        <3>2. \A j \in 1 .. k - 1 : f[j].value = open'[j].value
            BY <2>2, <3>1
        <3>3. k <= n /\ k \in 1 .. Len(f)
            BY <1>3
        <3> QED BY <2>2, <3>2, <3>3, NewestSame
    <2>5. \A b \in 1 .. m : buckets'[b] = NewestAt(open', m, b, n)
        BY <2>2, NewestSame
    <2>6. Chained'
        BY <1>7, <2>2, <2>3, <2>4, <2>5 DEF Chained, NewestIn, NewestAt
    <2>7. Unchained'
        BY <2>3 DEF Unchained
    <2> QED BY <2>2, <2>6, <2>7
<1>8. CASE \E m \in Nat \ {0} : n * BucketsPerFrame <= m /\ Indexed(f) = FiledTo(f, m, n)
    <2>1. /\ open' \in Seq(Frames) /\ Len(open') = n
          /\ \A i \in 1 .. n : /\ open'[i].value = f[i].value /\ open'[i].firstKey = f[i].firstKey
                               /\ open'[i].next = f[i].next
          /\ buckets' \in Seq(Nat) /\ Chained' /\ Unchained'
        BY <1>7, <1>8
    <2>2. \A i \in 1 .. Len(open) : i \in 1 .. n /\ f[i] = open[i]
        BY <1>3
    <2>3. n \in 1 .. n
        BY <1>3
    <2> QED BY <1>2, <1>3, <2>1, <2>2, <2>3
<1> QED BY <1>5, <1>6, <1>8

\* Parts of sequences.
LEMMA SamePart ==
    ASSUME NEW S, NEW s \in Seq(S), NEW t \in Seq(S), NEW a \in Nat \ {0}, NEW e \in Nat,
           e <= Len(s), e <= Len(t), \A i \in a .. e : s[i] = t[i]
    PROVE  SubSeq(s, a, e) = SubSeq(t, a, e)
<1>1. a \in Int /\ e \in Int /\ Len(s) \in Nat /\ Len(t) \in Nat
    BY LenProperties
<1>2. \A i \in a .. e : s[i] \in S /\ t[i] \in S
    BY <1>1, ElementOfSeq
<1> DEFINE x == SubSeq(s, a, e)  y == SubSeq(t, a, e)
<1>3. /\ x \in Seq(S) /\ Len(x) = (IF a <= e THEN e - a + 1 ELSE 0)
      /\ \A i \in 1 .. e - a + 1 : x[i] = s[a + i - 1]
    BY <1>1, <1>2, SubSeqProperties
<1>4. /\ y \in Seq(S) /\ Len(y) = (IF a <= e THEN e - a + 1 ELSE 0)
      /\ \A i \in 1 .. e - a + 1 : y[i] = t[a + i - 1]
    BY <1>1, <1>2, SubSeqProperties
<1> HIDE DEF x, y
<1>5. ASSUME NEW i \in 1 .. Len(x) PROVE x[i] = y[i]
    <2>1. i \in 1 .. e - a + 1 /\ a + i - 1 \in a .. e
        BY <1>1, <1>3
    <2> QED BY <1>3, <1>4, <2>1
<1> QED BY <1>3, <1>4, <1>5, SeqEqual DEF x, y

LEMMA SecondPart ==
    ASSUME NEW S, NEW s \in Seq(S), NEW t \in Seq(S)
    PROVE  SubSeq(s \o t, Len(s) + 1, Len(s \o t)) = t
<1> DEFINE a == Len(s) + 1  e == Len(s \o t)  x == SubSeq(s \o t, a, e)
<1>1. /\ s \o t \in Seq(S) /\ e = Len(s) + Len(t)
      /\ \A i \in 1 .. Len(s) + Len(t) : (s \o t)[i] = IF i <= Len(s) THEN s[i] ELSE t[i - Len(s)]
      /\ Len(s) \in Nat /\ Len(t) \in Nat
    BY ConcatProperties, LenProperties
<1>2. \A i \in a .. e : (s \o t)[i] \in S
    BY <1>1, ElementOfSeq
<1>3. a \in Int /\ e \in Int
    BY <1>1
<1>4. /\ x \in Seq(S) /\ Len(x) = (IF a <= e THEN e - a + 1 ELSE 0)
      /\ \A i \in 1 .. e - a + 1 : x[i] = (s \o t)[a + i - 1]
    <2> DEFINE u == s \o t
    <2>1. \A i \in a .. e : u[i] \in S
        BY <1>2
    <2>2. /\ SubSeq(u, a, e) \in Seq(S) /\ Len(SubSeq(u, a, e)) = (IF a <= e THEN e - a + 1 ELSE 0)
          /\ \A i \in 1 .. e - a + 1 : SubSeq(u, a, e)[i] = u[a + i - 1]
        <3> HIDE DEF u, a, e
        <3> QED BY <1>3, <2>1, SubSeqProperties
    <2> QED BY <2>2
<1> HIDE DEF x
<1>5. Len(x) = Len(t)
    BY <1>1, <1>4
<1>6. ASSUME NEW i \in 1 .. Len(t) PROVE x[i] = t[i]
    <2> DEFINE j == a + i - 1
    <2>1. i \in 1 .. e - a + 1 /\ j \in 1 .. Len(s) + Len(t) /\ ~(j <= Len(s)) /\ j - Len(s) = i
        BY <1>1
    <2>2. x[i] = (s \o t)[j]
        BY <1>4, <2>1
    <2> HIDE DEF j
    <2> QED BY <1>1, <2>1, <2>2
<1> QED BY <1>4, <1>5, <1>6, SeqEqual DEF x

LEMMA FrontIs ==
    ASSUME NEW S, NEW s \in Seq(S), s # << >>
    PROVE  LET o == SubSeq(s, 1, Len(s) - 1)
           IN  o \in Seq(S) /\ Len(o) = Len(s) - 1 /\ \A k \in 1 .. Len(s) - 1 : o[k] = s[k]
<1> DEFINE n == Len(s)
<1>1. n \in Nat \ {0} /\ \A k \in 1 .. n - 1 : s[k] \in S
    BY EmptySeq, LenProperties, ElementOfSeq
<1> DEFINE e == n - 1
<1>2. e \in Nat /\ e \in Int /\ 1 \in Int /\ \A k \in 1 .. e : s[k] \in S
    BY <1>1
<1> HIDE DEF e
<1>3. /\ SubSeq(s, 1, e) \in Seq(S) /\ Len(SubSeq(s, 1, e)) = (IF 1 <= e THEN e - 1 + 1 ELSE 0)
      /\ \A k \in 1 .. e - 1 + 1 : SubSeq(s, 1, e)[k] = s[1 + k - 1]
    BY <1>2, SubSeqProperties
<1>4. Len(SubSeq(s, 1, e)) = e
    BY <1>2, <1>3
<1>5. ASSUME NEW k \in 1 .. e PROVE SubSeq(s, 1, e)[k] = s[k]
    <2>1. k \in 1 .. e - 1 + 1 /\ 1 + k - 1 = k
        BY <1>2
    <2>2. SubSeq(s, 1, e)[k] = s[1 + k - 1]
        BY <1>3, <2>1
    <2> QED BY <2>1, <2>2
<1> QED BY <1>3, <1>4, <1>5 DEF e

\* What is written of the values are tokens and names.
LEMMA TextsIn ==
    /\ \A c \in Values : c.kind \in ContainerKinds => Opener[c.kind] \in Texts /\ Closer[c.kind] \in Texts
    /\ \A c \in Values : c.kind \notin ContainerKinds => Token[c.kind] \in Texts
    /\ "null" \in Texts
    /\ Comma \in Seq(Texts)
    /\ \A k \in Keys : Keyed(k) \in Seq(Texts)
<1>1. {"null", "scalar", "comma", "colon", "openObject", "closeObject", "openArray", "closeArray"} \subseteq Texts
    BY DEF Texts
<1>2. Comma \in Seq(Texts)
    BY <1>1 DEF Comma
<1>3. ASSUME NEW k \in Keys PROVE Keyed(k) \in Seq(Texts)
    <2>1. Names[Reads[k]] \in Texts
        BY KeysAssumption DEF Texts
    <2>2. <<Names[Reads[k]], "colon">> \in Seq(Texts)
        BY <1>1, <2>1
    <2> QED BY <1>2, <2>2, ConcatProperties DEF Keyed
<1>4. \A c \in Values : c.kind \in ContainerKinds => Opener[c.kind] \in Texts /\ Closer[c.kind] \in Texts
    BY <1>1 DEF Values, ContainerKinds, Opener, Closer
<1>5. \A c \in Values : c.kind \notin ContainerKinds => Token[c.kind] \in Texts
    BY <1>1 DEF Values, ContainerKinds, Token
<1> QED BY <1>1, <1>2, <1>3, <1>4, <1>5

LEMMA PushStep ==
    ASSUME IInv, v.kind \in ContainerKinds, ~Refused,
           \A k \in DOMAIN open : Id(open[k].value) # Id(v), Push
    PROVE  IInv'
<1> DEFINE n == Len(open)
<1>1. /\ v \in Values /\ v.ptr # 0 /\ InMemory(memory, v) /\ open \in Seq(Frames)
      /\ keys \in Seq(Keys) /\ buf \in Seq(Texts) /\ n \in Nat /\ DOMAIN open = 1 .. n
      /\ Len(keys) \in Nat
    BY LenProperties DEF IInv, Typed, InMemory, Refused
<1>2. /\ open' \in Seq(Frames) /\ Len(open') = n + 1
      /\ \A i \in 1 .. n :
             /\ open'[i].value = open[i].value /\ open'[i].firstKey = open[i].firstKey
             /\ open'[i].next = open[i].next
      /\ open'[Len(open')].value = v /\ open'[Len(open')].next = 0
      /\ v.kind = "object" => open'[Len(open')].firstKey = Len(keys)
      /\ buckets' \in Seq(Nat)
      /\ Chained' /\ Unchained'
    BY <1>1, Pushed
<1>3. DOMAIN open' = 1 .. n + 1 /\ \A k \in 1 .. n + 1 : k \in 1 .. n \/ k = n + 1
    BY <1>1, <1>2, LenProperties
<1>4. /\ buf' = Append(buf, Opener[v.kind]) /\ needSep' = FALSE /\ pc' = "next"
      /\ keys' = (IF v.kind = "object" THEN keys \o SortedKeys(DOMAIN memory[v.ptr]) ELSE keys)
      /\ UNCHANGED <<memory, root, v, at>>
    BY DEF Push
<1>5. v.kind = "object" => DOMAIN memory[v.ptr] \in SUBSET Keys
                           /\ SortedKeys(DOMAIN memory[v.ptr]) \in Seq(Keys)
    <2>1. v.kind = "object" => DOMAIN memory[v.ptr] \in SUBSET Keys /\ IsFiniteSet(DOMAIN memory[v.ptr])
        BY <1>1 DEF InMemory
    <2> QED BY <2>1, SortedKeysIn, SeqMonotonic
<1>6. /\ keys' \in Seq(Keys) /\ Len(keys') \in Nat /\ Len(keys) <= Len(keys')
      /\ \A i \in 1 .. Len(keys) : keys'[i] = keys[i]
      /\ v.kind # "object" => keys' = keys
      /\ v.kind = "object" => SubSeq(keys', Len(keys) + 1, Len(keys')) = SortedKeys(DOMAIN memory[v.ptr])
    <2>1. CASE v.kind = "object"
        <3> DEFINE s == SortedKeys(DOMAIN memory[v.ptr])
        <3>1. s \in Seq(Keys) /\ Len(s) \in Nat /\ keys' = keys \o s
            BY <1>4, <1>5, <2>1, LenProperties
        <3> HIDE DEF s
        <3>2. /\ keys \o s \in Seq(Keys) /\ Len(keys \o s) = Len(keys) + Len(s)
              /\ \A i \in 1 .. Len(keys) + Len(s) :
                     (keys \o s)[i] = IF i <= Len(keys) THEN keys[i] ELSE s[i - Len(keys)]
            BY <1>1, <3>1, ConcatProperties
        <3>3. SubSeq(keys', Len(keys) + 1, Len(keys')) = s
            BY <1>1, <3>1, SecondPart
        <3>4. \A i \in 1 .. Len(keys) : (keys \o s)[i] = keys[i]
            BY <1>1, <3>1, <3>2
        <3> QED BY <1>1, <2>1, <3>1, <3>2, <3>3, <3>4 DEF s
    <2>2. CASE v.kind # "object"
        BY <1>1, <1>4, <2>2
    <2> QED BY <2>1, <2>2
<1>7. Typed'
    <2>1. Opener[v.kind] \in Texts
        BY <1>1, TextsIn
    <2>2. buf' \in Seq(Texts)
        BY <1>1, <1>4, <2>1, AppendProperties
    <2>3. \A k \in DOMAIN open' : InMemory(memory', open'[k].value)
        <3>1. \A k \in 1 .. n : InMemory(memory, open[k].value)
            BY <1>1 DEF IInv, Typed
        <3> QED BY <1>1, <1>2, <1>3, <1>4, <3>1
    <2>4. memory' \in Memories /\ InMemory(memory', v') /\ at' \in Nat
        BY <1>1, <1>4 DEF IInv, Typed
    <2> QED BY <1>2, <1>4, <1>6, <2>2, <2>3, <2>4 DEF Typed
<1>8. PathDistinct'
    <2>1. n + 1 <= MaxDepth
        BY <1>1, BoundsAssumption DEF IInv, PathDistinct, Refused
    <2>2. \A j, k \in 1 .. n : Id(open[j].value) = Id(open[k].value) => j = k
        BY <1>1 DEF IInv, PathDistinct
    <2>3. \A k \in 1 .. n : Id(open[k].value) # Id(v)
        BY <1>1
    <2>4. \A j, k \in 1 .. n + 1 : Id(open'[j].value) = Id(open'[k].value) => j = k
        BY <1>2, <1>3, <2>2, <2>3
    <2> QED BY <1>2, <1>3, <2>1, <2>4 DEF PathDistinct, Id
<1>9. /\ ObjectsOf(open') = ObjectsOf(open) \union (IF v.kind = "object" THEN {n + 1} ELSE {})
      /\ \A k \in ObjectsOf(open) : EndOf(open', Len(keys'), k) = EndOf(open, Len(keys), k)
      /\ EndOf(open', Len(keys'), n + 1) = Len(keys')
    <2>1. /\ open'[Len(open')].value.kind # "object" => Len(keys') = Len(keys)
          /\ open'[Len(open')].value.kind = "object" => open'[Len(open')].firstKey = Len(keys)
          /\ open'[Len(open')].value.kind = v.kind
        BY <1>2, <1>6
    <2>2. Len(open') = Len(open) + 1
        BY <1>2
    <2>3. /\ ObjectsOf(open') = ObjectsOf(open) \union
                 (IF open'[Len(open')].value.kind = "object" THEN {Len(open')} ELSE {})
          /\ \A k \in ObjectsOf(open) : EndOf(open', Len(keys'), k) = EndOf(open, Len(keys), k)
          /\ EndOf(open', Len(keys'), Len(open')) = Len(keys')
        <3> HIDE DEF n
        <3>1. \A i \in 1 .. Len(open) : /\ open'[i].value = open[i].value
                                        /\ open'[i].firstKey = open[i].firstKey
            BY <1>2 DEF n
        <3>2. open \in Seq(Frames) /\ open' \in Seq(Frames)
            BY <1>1, <1>2
        <3>3. ObjectsOf(open') = ObjectsOf(open) \union
                  (IF open'[Len(open')].value.kind = "object" THEN {Len(open')} ELSE {})
            BY <2>2, <3>1, <3>2, ObjectsPushed
        <3>4. /\ \A k \in ObjectsOf(open) : EndOf(open', Len(keys'), k) = EndOf(open, Len(keys), k)
              /\ EndOf(open', Len(keys'), Len(open')) = Len(keys')
            BY <2>1, <2>2, <3>1, <3>2, EndPushed, EndOfLast
        <3> QED BY <3>3, <3>4
    <2> QED BY <2>1, <2>2, <2>3
<1>10. ObjectsOf(open) \subseteq 1 .. n /\ \A k \in ObjectsOf(open) : EndOf(open, Len(keys), k) \in 0 .. Len(keys)
    <2>1. ObjectsOf(open) \subseteq 1 .. n
        BY <1>1 DEF ObjectsOf
    <2>2. ASSUME NEW k \in ObjectsOf(open) PROVE EndOf(open, Len(keys), k) \in 0 .. Len(keys)
        <3>1. \A j \in ObjectsOf(open) : open[j].firstKey \in 0 .. Len(keys)
            <4>1. \A j \in ObjectsOf(open) : open[j] \in Frames
                BY <1>1, <2>1, ElementOfSeq
            <4>2. \A j \in ObjectsOf(open) : open[j].firstKey \in Nat
                BY <4>1 DEF Frames
            <4>3. \A j \in ObjectsOf(open) : open[j].firstKey <= Len(keys)
                <5>1. Objects = ObjectsOf(open)
                    BY DEF Objects, ObjectsOf
                <5> QED BY <5>1 DEF IInv, KeysStacked
            <4>4. Len(keys) \in Nat
                BY <1>1
            <4> QED BY <4>2, <4>3, <4>4
        <3> QED BY <1>1, <3>1, EndIs, SMTT(30) DEF InnerOf
    <2> QED BY <2>1, <2>2
<1>11. KeysOfOpen'
    <2>1. ASSUME NEW k \in ObjectsOf(open')
          PROVE  SubSeq(keys', open'[k].firstKey + 1, EndOf(open', Len(keys'), k))
                     = SortedKeys(DOMAIN memory'[open'[k].value.ptr])
        <3>1. CASE k \in ObjectsOf(open)
            <4> DEFINE a == open[k].firstKey + 1
                       e == EndOf(open, Len(keys), k)
            <4>1. open[k] \in Frames /\ k \in 1 .. n
                BY <1>1, <1>10, <3>1, ElementOfSeq
            <4>2. a \in Nat \ {0} /\ e \in 0 .. Len(keys)
                BY <1>10, <3>1, <4>1 DEF Frames
            <4>3. SubSeq(keys, a, e) = SortedKeys(DOMAIN memory[open[k].value.ptr])
                BY <3>1, KeysOfOpenIs DEF IInv
            <4> HIDE DEF a, e
            <4>4. SubSeq(keys', a, e) = SubSeq(keys, a, e)
                <5>1. \A i \in a .. e : i \in 1 .. Len(keys)
                    BY <1>1, <4>2
                <5>2. e \in Nat /\ e <= Len(keys) /\ e <= Len(keys')
                    BY <1>1, <1>6, <4>2
                <5> QED BY <1>1, <1>6, <4>2, <5>1, <5>2, SamePart
            <4> QED BY <1>2, <1>4, <1>9, <3>1, <4>1, <4>3, <4>4 DEF a, e
        <3>2. CASE k = n + 1 /\ v.kind = "object"
            BY <1>2, <1>4, <1>6, <1>9, <3>2
        <3> QED BY <1>9, <3>1, <3>2
    <2> QED BY <2>1, KeysOfOpenIs
<1>12. KeysStacked'
    <2>1. \A k \in ObjectsOf(open) :
              /\ open[k].firstKey <= Len(keys)
              /\ \A j \in ObjectsOf(open) : j < k => open[j].firstKey + open[j].next <= open[k].firstKey
              /\ open[k].firstKey + open[k].next <= Len(keys)
        BY KeysOfOpenIs DEF IInv, KeysStacked
    <2>2. \A k \in 1 .. n : open[k] \in Frames
        BY <1>1, ElementOfSeq
    <2>3. \A k \in ObjectsOf(open') : (k \in ObjectsOf(open) /\ k \in 1 .. n) \/ (k = n + 1 /\ v.kind = "object")
        BY <1>9, <1>10
    <2>4. ASSUME NEW k \in ObjectsOf(open')
          PROVE  /\ open'[k].firstKey <= Len(keys')
                 /\ open'[k].firstKey + open'[k].next <= Len(keys')
                 /\ \A j \in ObjectsOf(open') :
                        j < k => open'[j].firstKey + open'[j].next <= open'[k].firstKey
        <3>1. CASE k \in ObjectsOf(open) /\ k \in 1 .. n
            <4>1. ASSUME NEW j \in ObjectsOf(open'), j < k PROVE j \in ObjectsOf(open) /\ j \in 1 .. n
                <5>1. j # n + 1
                    BY <1>1, <3>1, <4>1
                <5> QED BY <2>3, <5>1
            <4>2. open[k].firstKey \in Nat /\ open[k].next \in Nat
                BY <2>2, <3>1 DEF Frames
            <4>3. open'[k].firstKey = open[k].firstKey /\ open'[k].next = open[k].next
                BY <1>2, <3>1
            <4>4. \A j \in ObjectsOf(open') :
                      j < k => open'[j].firstKey + open'[j].next <= open'[k].firstKey
                BY <1>2, <2>1, <3>1, <4>1, <4>3
            <4>5. open[k].firstKey <= Len(keys) /\ open[k].firstKey + open[k].next <= Len(keys)
                BY <2>1, <3>1
            <4> QED BY <1>1, <1>6, <4>2, <4>3, <4>4, <4>5
        <3>2. CASE k = n + 1 /\ v.kind = "object"
            <4>1. open'[k].firstKey = Len(keys) /\ open'[k].next = 0
                BY <1>2, <3>2
            <4>2. ASSUME NEW j \in ObjectsOf(open'), j < k
                  PROVE  open'[j].firstKey + open'[j].next <= open'[k].firstKey
                <5>1. j # n + 1
                    BY <1>1, <3>2, <4>2
                <5>2. j \in ObjectsOf(open) /\ j \in 1 .. n
                    BY <2>3, <5>1
                <5>3. open'[j].firstKey = open[j].firstKey /\ open'[j].next = open[j].next
                    BY <1>2, <5>2
                <5> QED BY <2>1, <4>1, <5>2, <5>3
            <4> QED BY <1>1, <1>6, <4>1, <4>2
        <3> QED BY <2>3, <3>1, <3>2
    <2>5. ASSUME NEW k \in DOMAIN open' \ ObjectsOf(open')
          PROVE  open'[k].next <= open'[k].value.length
        <3>1. CASE k \in 1 .. n
            <4>1. k \in DOMAIN open \ ObjectsOf(open)
                BY <1>1, <1>9, <3>1
            <4> QED BY <1>2, <3>1, <4>1, KeysOfOpenIs DEF IInv, KeysStacked
        <3>2. CASE k = n + 1
            BY <1>1, <1>2, <3>2 DEF Values
        <3> QED BY <1>3, <3>1, <3>2
    <2> QED BY <2>4, <2>5, KeysOfOpenIs DEF KeysStacked
<1>13. SearchSound' /\ Fresh'
    BY <1>4 DEF SearchSound, Fresh
<1> QED BY <1>2, <1>7, <1>8, <1>11, <1>12, <1>13 DEF IInv

\* A step that opens and closes nothing.
LEMMA QuietStep ==
    ASSUME IInv, UNCHANGED <<memory, v, open, keys, buckets>>,
           pc' \in {"value", "search", "next", "done"}, at' \in Nat,
           buf' \in Seq(Texts), needSep' \in BOOLEAN, SearchSound', Fresh'
    PROVE  IInv'
<1>1. Typed'
    BY DEF IInv, Typed
<1>2. PathDistinct'
    BY DEF IInv, PathDistinct, Id
<1>3. Chained' /\ Unchained'
    BY DEF IInv, Chained, NewestIn, Unchained
<1>4. KeysOfOpen'
    BY KeysOfOpenIs DEF IInv
<1>5. KeysStacked'
    BY KeysOfOpenIs DEF IInv, KeysStacked
<1> QED BY <1>1, <1>2, <1>3, <1>4, <1>5 DEF IInv

LEMMA RawStep ==
    ASSUME IInv, NEW token \in Texts, Raw(token)
    PROVE  IInv'
<1>1. /\ buf' = Append(buf, token) /\ pc' = "next"
      /\ UNCHANGED <<memory, v, open, keys, buckets, at, needSep>>
    BY DEF Raw, encoder
<1>2. buf' \in Seq(Texts) /\ at' \in Nat /\ needSep' \in BOOLEAN
    BY <1>1, AppendProperties DEF IInv, Typed
<1>3. SearchSound' /\ Fresh'
    BY <1>1 DEF SearchSound, Fresh
<1> QED BY <1>1, <1>2, <1>3, QuietStep

\* Containers of one identity are in one bucket.
LEMMA SameBucket ==
    ASSUME NEW c, NEW d, Id(c) = Id(d), NEW n
    PROVE  Bucket(c, n) = Bucket(d, n)
BY DEF Id, Bucket

\* The chain of a bucket: from its head, and on from each of its frames, to the newest of
\* those before.
LEMMA ChainIs ==
    ASSUME IInv, buckets # << >>
    PROVE  /\ Len(open) \in Nat /\ DOMAIN open = 1 .. Len(open)
           /\ Len(buckets) \in Nat \ {0} /\ DOMAIN buckets = 1 .. Len(buckets)
           /\ \A k \in 1 .. Len(open) :
                  open[k].older = NewestAt(open, Len(buckets), Bucket(open[k].value, Len(buckets)), k - 1)
           /\ \A b \in 1 .. Len(buckets) : buckets[b] = NewestAt(open, Len(buckets), b, Len(open))
           /\ Len(open) * BucketsPerFrame <= Len(buckets)
<1>1. open \in Seq(Frames) /\ buckets \in Seq(Nat)
    BY DEF IInv, Typed
<1>2. /\ Len(open) \in Nat /\ DOMAIN open = 1 .. Len(open)
      /\ Len(buckets) \in Nat \ {0} /\ DOMAIN buckets = 1 .. Len(buckets)
    BY <1>1, LenProperties, EmptySeq
<1> QED BY <1>2 DEF IInv, Chained, NewestIn, NewestAt

\* Frames whose values and chains stay are chained as they were.
LEMMA ChainKept ==
    ASSUME IInv, open' \in Seq(Frames), Len(open') = Len(open), buckets' = buckets,
           \A i \in 1 .. Len(open) : /\ open'[i].value = open[i].value
                                     /\ open'[i].older = open[i].older
    PROVE  Chained'
<1> DEFINE n == Len(open)  m == Len(buckets)
<1>1. SUFFICES ASSUME buckets # << >> PROVE Chained'
    BY DEF Chained
<1>2. /\ n \in Nat /\ m \in Nat \ {0} /\ DOMAIN buckets = 1 .. m
      /\ \A k \in 1 .. n : open[k].older = NewestAt(open, m, Bucket(open[k].value, m), k - 1)
      /\ \A b \in 1 .. m : buckets[b] = NewestAt(open, m, b, n)
      /\ n * BucketsPerFrame <= m
    BY <1>1, ChainIs
<1>3. ASSUME NEW k \in 1 .. n, NEW q, NEW b PROVE NewestAt(open, q, b, k - 1) = NewestAt(open', q, b, k - 1)
    <2>1. \A j \in 1 .. k - 1 : j \in 1 .. n
        BY <1>2
    <2>2. \A j \in 1 .. k - 1 : open[j].value = open'[j].value
        BY <2>1
    <2> QED BY <2>2, NewestSame
<1>4. ASSUME NEW q, NEW b PROVE NewestAt(open, q, b, n) = NewestAt(open', q, b, n)
    <2>1. \A j \in 1 .. n : open[j].value = open'[j].value
        OBVIOUS
    <2> QED BY <2>1, NewestSame
<1> HIDE DEF m
<1>5. \A k \in 1 .. n : open'[k].older = NewestAt(open', m, Bucket(open'[k].value, m), k - 1)
    BY <1>2, <1>3
<1>6. \A b \in 1 .. m : buckets[b] = NewestAt(open', m, b, n)
    BY <1>2, <1>4
<1>7. DOMAIN open' = 1 .. n
    BY LenProperties
<1> QED BY <1>2, <1>5, <1>6, <1>7 DEF Chained, NewestIn, NewestAt, m

LEMMA SearchStep ==
    ASSUME IInv, Search
    PROVE  IInv'
<1> DEFINE m == Len(buckets)
           b == Bucket(v, m)
<1>1. /\ v.kind \in ContainerKinds /\ ~Refused /\ buckets # << >>
      /\ at' = buckets[b] /\ pc = "value" /\ pc' = "search"
      /\ UNCHANGED <<memory, root, v, open, keys, buckets, buf, needSep>>
    BY DEF Search, encoder, builder
<1>2. v.ptr \in Pointers
    BY <1>1 DEF IInv, Typed, InMemory, Values, Refused
<1>3. /\ Len(open) \in Nat /\ DOMAIN open = 1 .. Len(open) /\ m \in Nat \ {0}
      /\ \A c \in 1 .. m : buckets[c] = NewestAt(open, m, c, Len(open))
    BY <1>1, ChainIs
<1>4. b \in 1 .. m
    BY <1>2, <1>3, BucketRange
<1> HIDE DEF m, b
<1>5. at' = NewestAt(open, m, b, Len(open))
    BY <1>1, <1>3, <1>4
<1>6. /\ at' \in 0 .. Len(open)
      /\ at' # 0 => at' \in 1 .. Len(open) /\ Bucket(open[at'].value, m) = b
      /\ \A j \in 1 .. Len(open) : Bucket(open[j].value, m) = b => j <= at'
    BY <1>3, <1>5, NewestAtRange
<1>7. ASSUME NEW k \in 1 .. Len(open), Id(open[k].value) = Id(v) PROVE k <= at'
    <2>1. Bucket(open[k].value, m) = b
        <3>1. open[k].value.ptr = v.ptr
            BY <1>7 DEF Id
        <3> QED BY <3>1 DEF b, Bucket
    <2> QED BY <1>6, <2>1
<1>8. SearchSound'
    BY <1>1, <1>3, <1>6, <1>7 DEF SearchSound, Refused, Id, Bucket, b, m
<1>9. Fresh'
    BY <1>1 DEF IInv, Fresh
<1>10. at' \in Nat /\ buf' \in Seq(Texts) /\ needSep' \in BOOLEAN
    BY <1>1, <1>3, <1>6 DEF IInv, Typed
<1> QED BY <1>1, <1>8, <1>9, <1>10, QuietStep

LEMMA PassFrameStep ==
    ASSUME IInv, PassFrame
    PROVE  IInv'
<1> DEFINE m == Len(buckets)
           b == Bucket(v, m)
<1>1. /\ pc = "search" /\ at \in DOMAIN open /\ Id(open[at].value) # Id(v)
      /\ at' = open[at].older
      /\ UNCHANGED <<memory, root, pc, v, open, keys, buckets, buf, needSep>>
    BY DEF PassFrame, encoder, builder
<1>2. /\ v.kind \in ContainerKinds /\ ~Refused /\ buckets # << >>
      /\ at # 0 => Bucket(open[at].value, m) = b
      /\ \A k \in DOMAIN open : Id(open[k].value) = Id(v) => k <= at
    BY <1>1 DEF IInv, SearchSound
<1>3. /\ Len(open) \in Nat /\ DOMAIN open = 1 .. Len(open) /\ m \in Nat \ {0}
      /\ \A k \in 1 .. Len(open) :
             open[k].older = NewestAt(open, m, Bucket(open[k].value, m), k - 1)
    BY <1>2, ChainIs
<1> HIDE DEF m, b
<1>4. at \in 1 .. Len(open) /\ at - 1 \in Nat /\ at' = NewestAt(open, m, b, at - 1)
    BY <1>1, <1>2, <1>3
<1>5. /\ at' \in 0 .. at - 1
      /\ at' # 0 => at' \in 1 .. at - 1 /\ Bucket(open[at'].value, m) = b
      /\ \A j \in 1 .. at - 1 : Bucket(open[j].value, m) = b => j <= at'
    BY <1>4, NewestAtRange
<1>6. ASSUME NEW k \in 1 .. Len(open), Id(open[k].value) = Id(v) PROVE k <= at'
    <2>1. k <= at /\ k # at
        BY <1>1, <1>2, <1>3, <1>6
    <2>2. k \in 1 .. at - 1
        BY <1>3, <1>4, <2>1
    <2>3. Bucket(open[k].value, m) = b
        BY <1>6, SameBucket DEF b
    <2> QED BY <1>5, <2>2, <2>3
<1>7. at' # 0 => at' \in 1 .. Len(open) /\ Bucket(open[at'].value, m) = b
    BY <1>3, <1>4, <1>5
<1>8. SearchSound'
    BY <1>1, <1>2, <1>3, <1>6, <1>7 DEF SearchSound, Refused, Id, Bucket, b, m
<1>9. Fresh'
    BY <1>1 DEF IInv, Fresh
<1>10. at' \in Nat /\ buf' \in Seq(Texts) /\ needSep' \in BOOLEAN
    BY <1>1, <1>4, <1>5 DEF IInv, Typed
<1> QED BY <1>1, <1>8, <1>9, <1>10, QuietStep

\* The innermost container.
LEMMA InnermostIs ==
    ASSUME IInv, open # << >>
    PROVE  /\ Len(open) \in Nat \ {0} /\ DOMAIN open = 1 .. Len(open)
           /\ Len(open) \in DOMAIN open /\ Innermost = open[Len(open)] /\ Innermost \in Frames
           /\ InMemory(memory, Innermost.value) /\ Innermost.value.ptr # 0
           /\ Len(keys) \in Nat
           /\ Innermost.value.kind = "array" =>
                  Innermost.next <= Innermost.value.length
           /\ Innermost.value.kind = "object" =>
                  /\ Innermost.firstKey + Innermost.next <= Len(keys)
                  /\ SubSeq(keys, Innermost.firstKey + 1, Len(keys))
                         = SortedKeys(DOMAIN memory[Innermost.value.ptr])
<1>1. /\ open \in Seq(Frames) /\ keys \in Seq(Keys)
      /\ \A k \in DOMAIN open : InMemory(memory, open[k].value)
    BY DEF IInv, Typed
<1>2. /\ Len(open) \in Nat \ {0} /\ DOMAIN open = 1 .. Len(open)
      /\ Len(open) \in DOMAIN open /\ Innermost = open[Len(open)] /\ Innermost \in Frames
      /\ InMemory(memory, Innermost.value)
    BY <1>1, EmptySeq, LenProperties DEF Innermost
<1>3. Innermost.value.ptr # 0 /\ Innermost.value.kind \in ContainerKinds /\ Len(keys) \in Nat
    BY <1>1, <1>2, LenProperties DEF Frames
<1>4. Innermost.value.kind = "object" =>
          /\ Innermost.firstKey + Innermost.next <= Len(keys)
          /\ SubSeq(keys, Innermost.firstKey + 1, Len(keys))
                 = SortedKeys(DOMAIN memory[Innermost.value.ptr])
    <2>1. SUFFICES ASSUME Innermost.value.kind = "object"
                   PROVE  /\ Innermost.firstKey + Innermost.next <= Len(keys)
                          /\ SubSeq(keys, Innermost.firstKey + 1, Len(keys))
                                 = SortedKeys(DOMAIN memory[Innermost.value.ptr])
        OBVIOUS
    <2>2. Len(open) \in Objects
        BY <1>2, <2>1 DEF Objects
    <2>3. EndOf(open, Len(keys), Len(open)) = Len(keys)
        BY <1>1, EndOfLast
    <2> QED BY <1>2, <2>2, <2>3, KeysOfOpenIs DEF IInv, KeysStacked
<1>5. Innermost.value.kind = "array" => Innermost.next <= Innermost.value.length
    BY <1>2 DEF IInv, KeysStacked, Objects
<1> QED BY <1>2, <1>3, <1>4, <1>5

\* An item of the innermost container is begun: its frame counts it.
LEMMA AdvanceStep ==
    ASSUME IInv, open # << >>,
           open' = [open EXCEPT ![Len(open)].next = Innermost.next + 1],
           UNCHANGED <<memory, keys, buckets, at>>, InMemory(memory, v'),
           pc' = "value", buf' \in Seq(Texts), needSep' = TRUE,
           Innermost.value.kind = "array" => Innermost.next # Innermost.value.length,
           Innermost.value.kind = "object" => Innermost.firstKey + Innermost.next # Len(keys)
    PROVE  IInv'
<1> DEFINE n == Len(open)
           f == Innermost
           g == [f EXCEPT !.next = f.next + 1]
<1>1. /\ n \in Nat \ {0} /\ DOMAIN open = 1 .. n /\ n \in DOMAIN open
      /\ f = open[n] /\ f \in Frames /\ Len(keys) \in Nat
      /\ f.value.kind = "array" => f.next <= f.value.length
      /\ f.value.kind = "object" => f.firstKey + f.next <= Len(keys)
    BY InnermostIs
<1>2. open \in Seq(Frames) /\ open' = [open EXCEPT ![n] = g] /\ g \in Frames
      /\ g.value = f.value /\ g.firstKey = f.firstKey /\ g.older = f.older /\ g.next = f.next + 1
    <2>1. open \in Seq(Frames)
        BY DEF IInv, Typed
    <2>2. g \in Frames /\ g.value = f.value /\ g.firstKey = f.firstKey /\ g.older = f.older
          /\ g.next = f.next + 1
        BY <1>1 DEF Frames
    <2>3. open' = [open EXCEPT ![n] = g]
        BY <1>1
    <2> QED BY <2>1, <2>2, <2>3
<1> HIDE DEF g, f
<1>3. open' \in Seq(Frames) /\ Len(open') = n
      /\ \A k \in 1 .. n : open'[k] = IF k = n THEN g ELSE open[k]
    BY <1>1, <1>2, ExceptSeq, SMTT(30)
<1>4. DOMAIN open' = 1 .. n
    BY <1>3, LenProperties
<1>5. \A k \in 1 .. n : /\ open'[k].value = open[k].value /\ open'[k].firstKey = open[k].firstKey
                        /\ open'[k].older = open[k].older
                        /\ open'[k].next = IF k = n THEN f.next + 1 ELSE open[k].next
    BY <1>1, <1>2, <1>3
<1>6. Typed'
    <2>1. \A k \in DOMAIN open' : InMemory(memory', open'[k].value)
        BY <1>1, <1>4, <1>5 DEF IInv, Typed
    <2> QED BY <1>3, <2>1 DEF IInv, Typed
<1>7. PathDistinct'
    <2>1. \A j, k \in 1 .. n : Id(open[j].value) = Id(open[k].value) => j = k
        BY <1>1 DEF IInv, PathDistinct
    <2>2. \A j, k \in 1 .. n : Id(open'[j].value) = Id(open'[k].value) => j = k
        BY <1>5, <2>1
    <2> QED BY <1>3, <1>4, <2>2 DEF IInv, PathDistinct, Id
<1>8. Chained'
    BY <1>2, <1>3, <1>5, ChainKept
<1>9. Unchained'
    BY <1>1, <1>4, <1>5 DEF IInv, Unchained
<1>10. KeysOfOpen'
    BY <1>2, <1>3, <1>5, KeysKept DEF IInv
<1>11. KeysStacked'
    <2>1. ObjectsOf(open') = ObjectsOf(open) /\ ObjectsOf(open) \subseteq 1 .. n
        BY <1>1, <1>4, <1>5 DEF ObjectsOf
    <2>2. \A k \in 1 .. n : open[k] \in Frames
        BY <1>2, ElementOfSeq
    <2>3. \A k \in 1 .. n : open[k].firstKey \in Nat /\ open[k].next \in Nat /\ open[k].value.length \in Nat
        BY <2>2 DEF Frames, Values
    <2>4. ASSUME NEW k \in ObjectsOf(open)
          PROVE  /\ open'[k].firstKey <= Len(keys)
                 /\ \A j \in ObjectsOf(open) :
                        j < k => open'[j].firstKey + open'[j].next <= open'[k].firstKey
                 /\ open'[k].firstKey + open'[k].next <= Len(keys)
        <3>1. /\ k \in 1 .. n /\ open[k].firstKey <= Len(keys)
              /\ \A j \in ObjectsOf(open) : j < k => open[j].firstKey + open[j].next <= open[k].firstKey
              /\ open[k].firstKey + open[k].next <= Len(keys)
            BY <2>1, KeysOfOpenIs DEF IInv, KeysStacked
        <3>2. \A j \in ObjectsOf(open) : j < k => j \in 1 .. n /\ j # n
            BY <1>1, <2>1, <3>1
        <3>3. k = n => f.firstKey + f.next + 1 <= Len(keys)
            <4>1. k = n => f.value.kind = "object"
                BY <1>1 DEF ObjectsOf
            <4>2. f.firstKey \in Nat /\ f.next \in Nat
                BY <1>1 DEF Frames
            <4> QED BY <1>1, <4>1, <4>2 DEF f
        <3>4. open'[k].firstKey + open'[k].next <= Len(keys)
            <4>1. CASE k = n
                BY <1>1, <1>5, <2>3, <3>1, <3>3, <4>1
            <4>2. CASE k # n
                BY <1>5, <3>1, <4>2
            <4> QED BY <4>1, <4>2
        <3> QED BY <1>5, <3>1, <3>2, <3>4
    <2>5. ASSUME NEW k \in DOMAIN open' \ ObjectsOf(open') PROVE open'[k].next <= open'[k].value.length
        <3>1. k \in 1 .. n /\ k \notin ObjectsOf(open) /\ k \in DOMAIN open
            BY <1>1, <1>4, <2>1
        <3>2. open[k].next <= open[k].value.length
            BY <3>1, KeysOfOpenIs DEF IInv, KeysStacked
        <3>3. CASE k = n
            <4>1. f.value.kind # "object" /\ f.value.kind \in ContainerKinds
                BY <1>1, <3>1, <3>3 DEF ObjectsOf, Frames
            <4>2. f.next # f.value.length
                BY <4>1 DEF ContainerKinds, f
            <4>3. open'[k].next = open[k].next + 1 /\ open'[k].value.length = open[k].value.length
                BY <1>1, <1>5, <3>1, <3>3
            <4>4. open[k].next # open[k].value.length
                BY <1>1, <3>3, <4>2
            <4> QED BY <2>3, <3>1, <3>2, <4>3, <4>4
        <3>4. CASE k # n
            BY <1>5, <3>1, <3>2, <3>4
        <3> QED BY <3>3, <3>4
    <2> QED BY <2>1, <2>4, <2>5, KeysOfOpenIs DEF KeysStacked
<1>12. SearchSound' /\ Fresh'
    <2>1. open' # << >>
        BY <1>1, <1>3, EmptySeq
    <2> QED BY <2>1 DEF SearchSound, Fresh
<1> QED BY <1>6, <1>7, <1>8, <1>9, <1>10, <1>11, <1>12 DEF IInv

LEMMA ElementStep ==
    ASSUME IInv, Element
    PROVE  IInv'
<1> DEFINE f == Innermost
<1>1. /\ open # << >> /\ f.value.kind = "array" /\ f.next # f.value.length
      /\ buf' = buf \o Comma /\ needSep' = TRUE
      /\ open' = [open EXCEPT ![Len(open)].next = f.next + 1]
      /\ v' = memory[f.value.ptr][f.next + 1]
      /\ pc' = "value" /\ UNCHANGED <<memory, keys, buckets, at>>
    BY DEF Element
<1>2. /\ f \in Frames /\ InMemory(memory, f.value) /\ f.value.ptr # 0
      /\ f.next <= f.value.length
    BY <1>1, InnermostIs
<1>3. f.value.ptr \in Pointers /\ f.next + 1 \in DOMAIN memory[f.value.ptr]
    <2>1. f.value.ptr \in Pointers /\ f.next \in Nat /\ f.value.length \in Nat
        BY <1>2 DEF Frames, Values
    <2>2. 1 .. f.value.length \subseteq DOMAIN memory[f.value.ptr]
        BY <1>1, <1>2 DEF InMemory
    <2>3. f.next + 1 \in 1 .. f.value.length
        BY <1>1, <1>2, <2>1
    <2> QED BY <2>1, <2>2, <2>3
<1>4. InMemory(memory, v')
    BY <1>1, <1>3, MemoriesAssumption DEF IInv, Typed
<1>5. buf' \in Seq(Texts)
    BY <1>1, TextsIn, ConcatProperties DEF IInv, Typed
<1>6. f.value.kind # "object"
    BY <1>1
<1> QED BY <1>1, <1>4, <1>5, <1>6, AdvanceStep

LEMMA MemberStep ==
    ASSUME IInv, Member
    PROVE  IInv'
<1> DEFINE f == Innermost
           k == keys[f.firstKey + f.next + 1]
           s == SortedKeys(DOMAIN memory[f.value.ptr])
<1>1. /\ open # << >> /\ f.value.kind = "object" /\ f.firstKey + f.next # Len(keys)
      /\ buf' = buf \o Keyed(k) /\ needSep' = TRUE
      /\ open' = [open EXCEPT ![Len(open)].next = f.next + 1]
      /\ v' = memory[f.value.ptr][k]
      /\ pc' = "value" /\ UNCHANGED <<memory, keys, buckets, at>>
    BY DEF Member
<1>2. /\ f \in Frames /\ InMemory(memory, f.value) /\ f.value.ptr # 0 /\ Len(keys) \in Nat
      /\ f.firstKey + f.next <= Len(keys)
      /\ SubSeq(keys, f.firstKey + 1, Len(keys)) = s
    BY <1>1, InnermostIs
<1>3. /\ f.value.ptr \in Pointers /\ f.firstKey \in Nat /\ f.next \in Nat
      /\ keys \in Seq(Keys) /\ memory \in Memories
    BY <1>2 DEF Frames, Values, IInv, Typed
<1>4. IsFiniteSet(DOMAIN memory[f.value.ptr]) /\ DOMAIN memory[f.value.ptr] \in SUBSET Keys
    BY <1>1, <1>2 DEF InMemory
<1>5. s \in Seq(DOMAIN memory[f.value.ptr])
    BY <1>4, SortedKeysIn
<1> HIDE DEF s, f
<1>6. k \in DOMAIN memory[f.value.ptr]
    <2> DEFINE a == f.firstKey + 1  e == Len(keys)
               i == f.next + 1
    <2>1. a \in 1 .. e /\ e \in Nat /\ i \in 1 .. e - a + 1 /\ a + i - 1 = f.firstKey + f.next + 1
        <3>1. /\ f.firstKey + f.next # Len(keys) /\ f.firstKey + f.next <= Len(keys)
              /\ Len(keys) \in Nat /\ f.firstKey \in Nat /\ f.next \in Nat
            BY <1>1, <1>2, <1>3
        <3>2. PICK x \in Nat, y \in Nat, z \in Nat : x = f.firstKey /\ y = f.next /\ z = Len(keys)
            BY <3>1
        <3>3. x + y + 1 <= z /\ a = x + 1 /\ e = z /\ i = y + 1
            BY <3>1, <3>2
        <3>4. /\ x + 1 \in 1 .. z /\ y + 1 \in 1 .. z - (x + 1) + 1
              /\ (x + 1) + (y + 1) - 1 = x + y + 1
            BY <3>3
        <3> HIDE DEF a, e, i
        <3> QED BY <3>2, <3>3, <3>4, Zenon
    <2>2. \A j \in a .. e : keys[j] \in Keys
        BY <1>3, <2>1, ElementOfSeq
    <2>3. k = keys[a + i - 1]
        BY <2>1
    <2>4. SubSeq(keys, a, e) = s
        BY <1>2
    <2> HIDE DEF a, e, i, k
    <2>5. /\ Len(SubSeq(keys, a, e)) = (IF a <= e THEN e - a + 1 ELSE 0)
          /\ \A j \in 1 .. e - a + 1 : SubSeq(keys, a, e)[j] = keys[a + j - 1]
        BY <2>1, <2>2, SubSeqProperties
    <2>6. s[i] = k /\ i \in 1 .. Len(s)
        BY <2>1, <2>3, <2>4, <2>5
    <2> QED BY <1>5, <2>6, ElementOfSeq
<1>7. InMemory(memory, v') /\ k \in Keys
    BY <1>1, <1>3, <1>4, <1>6, MemoriesAssumption
<1>8. buf' \in Seq(Texts)
    <2>1. Keyed(k) \in Seq(Texts)
        BY <1>7, TextsIn
    <2> HIDE DEF k
    <2> QED BY <1>1, <2>1, ConcatProperties DEF IInv, Typed
<1> HIDE DEF k
<1>9. f.value.kind # "array"
    BY <1>1
<1> QED BY <1>1, <1>7, <1>8, <1>9, AdvanceStep DEF f

LEMMA CloseStep ==
    ASSUME IInv, Close
    PROVE  IInv'
<1> DEFINE n == Len(open)
           f == Innermost
           o == SubSeq(open, 1, n - 1)
<1>1. /\ pc = "next" /\ open # << >> /\ Exhausted(f) /\ keys' = KeysLeft(f) /\ buckets' = Unfiled(f)
      /\ open' = o /\ buf' = Append(buf, Closer[f.value.kind]) /\ needSep' = TRUE
      /\ UNCHANGED <<memory, root, pc, v, at>>
    BY DEF Close
<1>2. /\ n \in Nat \ {0} /\ DOMAIN open = 1 .. n /\ n \in DOMAIN open
      /\ f = open[n] /\ f \in Frames /\ Len(keys) \in Nat
      /\ f.value.kind = "object" => f.firstKey + f.next <= Len(keys)
    BY <1>1, InnermostIs
<1>3. /\ open \in Seq(Frames) /\ keys \in Seq(Keys) /\ buckets \in Seq(Nat) /\ buf \in Seq(Texts)
      /\ f.value \in Values /\ f.value.kind \in ContainerKinds /\ f.value.ptr \in Pointers
      /\ f.firstKey \in Nat /\ f.next \in Nat
    BY <1>2 DEF IInv, Typed, Frames, Values
<1>4. o \in Seq(Frames) /\ Len(o) = n - 1 /\ \A k \in 1 .. n - 1 : o[k] = open[k]
    BY <1>1, <1>3, FrontIs
<1> HIDE DEF f, o
<1>5. DOMAIN o = 1 .. n - 1 /\ \A k \in 1 .. n - 1 : k \in 1 .. n
    BY <1>2, <1>4, LenProperties
<1>6. /\ keys' \in Seq(Keys) /\ Len(keys') <= Len(keys) /\ Len(keys') \in Nat
      /\ \A i \in 1 .. Len(keys') : keys'[i] = keys[i]
      /\ f.value.kind # "object" => keys' = keys
      /\ f.value.kind = "object" => Len(keys') = f.firstKey
    <2>1. CASE f.value.kind = "object"
        <3>1. keys' = SubSeq(keys, 1, f.firstKey) /\ f.firstKey <= Len(keys)
            BY <1>1, <1>2, <1>3, <2>1 DEF KeysLeft
        <3>2. \A i \in 1 .. f.firstKey : keys[i] \in Keys
            BY <1>2, <1>3, <3>1, ElementOfSeq
        <3>3. /\ keys' \in Seq(Keys) /\ Len(keys') = (IF 1 <= f.firstKey THEN f.firstKey - 1 + 1 ELSE 0)
              /\ \A i \in 1 .. f.firstKey - 1 + 1 : keys'[i] = keys[1 + i - 1]
            BY <1>3, <3>1, <3>2, SubSeqProperties
        <3>4. \A i \in 1 .. f.firstKey : i \in 1 .. f.firstKey - 1 + 1 /\ 1 + i - 1 = i
            BY <1>3
        <3> QED BY <1>2, <1>3, <2>1, <3>1, <3>3, <3>4
    <2>2. CASE f.value.kind # "object"
        BY <1>1, <1>2, <1>3, <2>2 DEF KeysLeft
    <2> QED BY <2>1, <2>2
<1>7. /\ ObjectsOf(open) = ObjectsOf(o) \union (IF f.value.kind = "object" THEN {n} ELSE {})
      /\ \A k \in ObjectsOf(o) : EndOf(open, Len(keys), k) = EndOf(o, Len(keys'), k)
      /\ ObjectsOf(o) \subseteq 1 .. n - 1
    <2>1. Len(open) = Len(o) + 1 /\ \A i \in 1 .. Len(o) : open[i].value = o[i].value /\ open[i].firstKey = o[i].firstKey
        BY <1>2, <1>4
    <2>2. /\ open[Len(open)].value.kind # "object" => Len(keys) = Len(keys')
          /\ open[Len(open)].value.kind = "object" => open[Len(open)].firstKey = Len(keys')
        BY <1>2, <1>6
    <2>3. ObjectsOf(open) = ObjectsOf(o) \union
              (IF open[Len(open)].value.kind = "object" THEN {Len(open)} ELSE {})
        BY <1>3, <1>4, <2>1, ObjectsPushed
    <2>4. \A k \in ObjectsOf(o) : EndOf(open, Len(keys), k) = EndOf(o, Len(keys'), k)
        <3> HIDE DEF n
        <3>1. PICK l, m : l = Len(keys') /\ m = Len(keys)
            OBVIOUS
        <3>2. /\ open[Len(open)].value.kind # "object" => m = l
              /\ open[Len(open)].value.kind = "object" => open[Len(open)].firstKey = l
            BY <2>2, <3>1
        <3>3. open \in Seq(Frames) /\ o \in Seq(Frames)
            BY <1>3, <1>4
        <3>4. \A k \in ObjectsOf(o) : EndOf(open, m, k) = EndOf(o, l, k)
            BY <2>1, <3>2, <3>3, EndPushed
        <3> QED BY <3>1, <3>4
    <2> QED BY <1>2, <1>5, <2>3, <2>4 DEF ObjectsOf
<1>8. Typed'
    <2>1. Closer[f.value.kind] \in Texts
        BY <1>3, TextsIn
    <2>2. buf' \in Seq(Texts)
        BY <1>1, <1>3, <2>1, AppendProperties
    <2>3. \A k \in DOMAIN o : InMemory(memory, o[k].value)
        BY <1>2, <1>4, <1>5 DEF IInv, Typed
    <2>4. buckets' \in Seq(Nat)
        <3>1. CASE buckets = << >>
            BY <1>1, <1>3, <3>1 DEF Unfiled
        <3>2. CASE buckets # << >>
            <4>1. Len(buckets) \in Nat \ {0}
                BY <3>2, ChainIs
            <4>2. Bucket(f.value, Len(buckets)) \in 1 .. Len(buckets)
                BY <1>3, <4>1, BucketRange
            <4>3. f.older \in Nat
                BY <1>2 DEF Frames
            <4> QED BY <1>1, <1>3, <3>2, <4>2, <4>3, ExceptSeq DEF Unfiled
        <3> QED BY <3>1, <3>2
    <2> QED BY <1>1, <1>4, <1>6, <2>2, <2>3, <2>4 DEF IInv, Typed
<1>9. PathDistinct'
    <2>1. Len(open) <= MaxDepth /\ \A j, k \in 1 .. n : Id(open[j].value) = Id(open[k].value) => j = k
        BY <1>2 DEF IInv, PathDistinct
    <2>2. \A j, k \in 1 .. n - 1 : Id(o[j].value) = Id(o[k].value) => j = k
        BY <1>4, <1>5, <2>1
    <2>3. n - 1 <= MaxDepth
        BY <1>2, <2>1, BoundsAssumption
    <2> QED BY <1>1, <1>4, <1>5, <2>2, <2>3 DEF PathDistinct, Id
<1>10. Chained'
    <2>1. CASE buckets = << >>
        BY <1>1, <2>1 DEF Chained, Unfiled
    <2>2. CASE buckets # << >>
        <3> DEFINE m == Len(buckets)
                   h == Bucket(f.value, m)
        <3>1. /\ m \in Nat \ {0} /\ DOMAIN buckets = 1 .. m
              /\ \A k \in 1 .. n : open[k].older = NewestAt(open, m, Bucket(open[k].value, m), k - 1)
              /\ \A b \in 1 .. m : buckets[b] = NewestAt(open, m, b, n)
              /\ n * BucketsPerFrame <= m
            BY <2>2, ChainIs
        <3>2. h \in 1 .. m /\ buckets' = [buckets EXCEPT ![h] = f.older]
            BY <1>1, <1>3, <2>2, <3>1, BucketRange DEF Unfiled
        <3>3. DOMAIN buckets' = 1 .. m /\ Len(buckets') = m
            BY <1>3, <3>1, <3>2, LenProperties
        <3> HIDE DEF n
        <3>4. ASSUME NEW k \in 1 .. n, NEW q, NEW b PROVE NewestAt(open, q, b, k - 1) = NewestAt(o, q, b, k - 1)
            <4>1. \A j \in 1 .. k - 1 : j \in 1 .. n - 1
                BY <1>2
            <4>2. \A j \in 1 .. k - 1 : open[j].value = o[j].value
                BY <1>4, <4>1
            <4> QED BY <4>2, NewestSame
        <3> HIDE DEF h, m
        <3>5. ASSUME NEW k \in 1 .. n - 1
              PROVE  o[k].older = NewestAt(o, m, Bucket(o[k].value, m), k - 1)
            <4>1. k \in 1 .. n /\ o[k] = open[k]
                BY <1>4, <1>5
            <4> QED BY <3>1, <3>4, <4>1
        <3>6. ASSUME NEW b \in 1 .. m PROVE buckets'[b] = NewestAt(o, m, b, n - 1)
            <4>1. NewestAt(open, m, b, n - 1) = NewestAt(o, m, b, n - 1)
                BY <1>2, <3>4
            <4>2. CASE b = h
                <5>1. buckets'[b] = open[n].older
                    BY <1>2, <3>1, <3>2, <4>2
                <5>2. open[n].older = NewestAt(open, m, b, n - 1)
                    BY <1>2, <3>1, <4>2 DEF h
                <5> QED BY <4>1, <5>1, <5>2
            <4>3. CASE b # h
                <5>1. buckets'[b] = NewestAt(open, m, b, n)
                    BY <3>1, <3>2, <4>3
                <5>2. Bucket(open[n].value, m) # b
                    BY <1>2, <4>3 DEF h
                <5> QED BY <1>2, <4>1, <5>1, <5>2, NewestStep
            <4> QED BY <4>2, <4>3
        <3>7. (n - 1) * BucketsPerFrame <= m
            <4>1. n \in Nat \ {0} /\ BucketsPerFrame \in Nat
                BY <1>2, BoundsAssumption
            <4>2. (n - 1) * BucketsPerFrame = n * BucketsPerFrame - BucketsPerFrame
                BY <4>1
            <4>3. n * BucketsPerFrame \in Nat
                BY <4>1
            <4> QED BY <3>1, <4>1, <4>2, <4>3
        <3>8. Len(open') = n - 1 /\ DOMAIN open' = 1 .. n - 1 /\ open' = o
            BY <1>1, <1>4, <1>5
        <3>9. /\ \A k \in DOMAIN open' : open'[k].older = NewestAt(open', m, Bucket(open'[k].value, m), k - 1)
              /\ \A b \in DOMAIN buckets' : buckets'[b] = NewestAt(open', m, b, Len(open'))
              /\ Len(open') * BucketsPerFrame <= m
            BY <3>3, <3>5, <3>6, <3>7, <3>8
        <3> QED BY <3>3, <3>9 DEF Chained, NewestIn, NewestAt
    <2> QED BY <2>1, <2>2
<1>11. Unchained'
    <2>1. CASE buckets = << >>
        <3>1. \A k \in 1 .. n : open[k].older = 0
            BY <1>2, <2>1 DEF IInv, Unchained
        <3> QED BY <1>1, <1>4, <1>5, <3>1 DEF Unchained
    <2>2. CASE buckets # << >>
        <3>1. DOMAIN buckets' = DOMAIN buckets /\ DOMAIN buckets = 1 .. Len(buckets) /\ Len(buckets) \in Nat \ {0}
            BY <1>1, <2>2, ChainIs DEF Unfiled
        <3>2. buckets' # << >>
            BY <3>1
        <3> QED BY <3>2 DEF Unchained
    <2> QED BY <2>1, <2>2
<1>12. \A k \in ObjectsOf(open) :
          /\ open[k].firstKey \in Nat /\ open[k].next \in Nat
          /\ open[k].firstKey + open[k].next <= Len(keys) /\ open[k].firstKey <= Len(keys)
          /\ \A j \in ObjectsOf(open) : j < k => open[j].firstKey + open[j].next <= open[k].firstKey
    <2>1. ObjectsOf(open) \subseteq 1 .. n
        BY <1>2 DEF ObjectsOf
    <2>2. \A k \in ObjectsOf(open) : open[k] \in Frames
        BY <1>3, <2>1, ElementOfSeq
    <2> QED BY <2>2, KeysOfOpenIs DEF IInv, KeysStacked, Frames
<1>13. \A k \in ObjectsOf(o) :
          /\ k \in 1 .. n - 1 /\ k \in ObjectsOf(open) /\ o[k] = open[k]
          /\ open[k].firstKey + open[k].next <= Len(keys') /\ open[k].firstKey <= Len(keys')
    <2>1. SUFFICES ASSUME NEW k \in ObjectsOf(o)
                   PROVE  /\ k \in 1 .. n - 1 /\ k \in ObjectsOf(open) /\ o[k] = open[k]
                          /\ open[k].firstKey + open[k].next <= Len(keys')
                          /\ open[k].firstKey <= Len(keys')
        OBVIOUS
    <2>2. k \in 1 .. n - 1 /\ k \in ObjectsOf(open) /\ o[k] = open[k]
        BY <1>4, <1>7
    <2>3. CASE f.value.kind = "object"
        <3>1. n \in ObjectsOf(open) /\ k < n
            <4>1. k < n
                BY <1>2, <2>2
            <4>2. n \in ObjectsOf(open)
                BY <1>2, <2>3 DEF ObjectsOf
            <4> QED BY <4>1, <4>2
        <3>2. open[k].firstKey + open[k].next <= Len(keys')
            BY <1>2, <1>6, <1>12, <2>2, <2>3, <3>1
        <3>3. open[k].firstKey \in Nat /\ open[k].next \in Nat
            BY <1>12, <2>2
        <3> QED BY <1>6, <2>2, <3>2, <3>3
    <2>4. CASE f.value.kind # "object"
        BY <1>6, <1>12, <2>2, <2>4
    <2> QED BY <2>3, <2>4
<1>14. KeysOfOpen'
    <2>1. ASSUME NEW k \in ObjectsOf(o)
          PROVE  SubSeq(keys', o[k].firstKey + 1, EndOf(o, Len(keys'), k))
                     = SortedKeys(DOMAIN memory[o[k].value.ptr])
        <3> DEFINE a == open[k].firstKey + 1
                   e == EndOf(o, Len(keys'), k)
        <3>1. k \in ObjectsOf(open) /\ o[k] = open[k] /\ e = EndOf(open, Len(keys), k) /\ a \in Nat \ {0}
            BY <1>7, <1>12, <1>13
        <3>2. SubSeq(keys, a, e) = SortedKeys(DOMAIN memory[o[k].value.ptr])
            BY <3>1, KeysOfOpenIs DEF IInv
        <3>3. e \in 0 .. Len(keys')
            <4>1. \A j \in ObjectsOf(o) : o[j].firstKey \in 0 .. Len(keys')
                BY <1>6, <1>12, <1>13
            <4>2. \A j \in InnerOf(o, k) : j \in ObjectsOf(o)
                BY DEF InnerOf
            <4>3. e = Len(keys') \/ \E j \in InnerOf(o, k) : e = o[j].firstKey
                BY <1>4, EndIs
            <4> QED BY <1>6, <4>1, <4>2, <4>3
        <3> HIDE DEF a, e
        <3>4. \A i \in a .. e : i \in 1 .. Len(keys')
            BY <1>6, <3>1, <3>3
        <3>5. e \in Nat /\ e <= Len(keys) /\ e <= Len(keys')
            BY <1>2, <1>6, <3>3
        <3>6. SubSeq(keys', a, e) = SubSeq(keys, a, e)
            BY <1>3, <1>6, <3>1, <3>4, <3>5, SamePart
        <3> QED BY <3>1, <3>2, <3>6 DEF a, e
    <2> QED BY <1>1, <2>1, KeysOfOpenIs
<1>15. KeysStacked'
    <2>1. \A k \in ObjectsOf(o) : \A j \in ObjectsOf(o) :
              j < k => o[j].firstKey + o[j].next <= o[k].firstKey
        BY <1>12, <1>13
    <2>2. \A k \in ObjectsOf(o) : /\ o[k].firstKey <= Len(keys')
                                 /\ o[k].firstKey + o[k].next <= Len(keys')
        BY <1>13
    <2>3. ASSUME NEW k \in DOMAIN o \ ObjectsOf(o) PROVE o[k].next <= o[k].value.length
        <3>1. k \in 1 .. n - 1 /\ k \in DOMAIN open /\ o[k] = open[k]
            BY <1>2, <1>4, <1>5
        <3>2. k \notin ObjectsOf(open)
            BY <3>1 DEF ObjectsOf
        <3> QED BY <3>1, <3>2, KeysOfOpenIs DEF IInv, KeysStacked
    <2> QED BY <1>1, <2>1, <2>2, <2>3, KeysOfOpenIs DEF KeysStacked
<1>16. SearchSound' /\ Fresh'
    BY <1>1 DEF SearchSound, Fresh
<1> QED BY <1>8, <1>9, <1>10, <1>11, <1>14, <1>15, <1>16 DEF IInv

-----------------------------------------------------------------------------
LEMMA Initial == Init => IInv
<1> SUFFICES ASSUME Init PROVE IInv
    OBVIOUS
<1>2. Typed
    <2>1. InMemory(memory, v)
        BY MemoriesAssumption DEF Init
    <2>2. << >> \in Seq(Frames) /\ << >> \in Seq(Keys) /\ << >> \in Seq(Nat) /\ << >> \in Seq(Texts)
        BY EmptySeq
    <2>3. DOMAIN open = {}
        BY DEF Init
    <2> QED BY <2>1, <2>2, <2>3 DEF Init, Typed
<1>3. PathDistinct /\ Chained /\ Unchained /\ KeysOfOpen /\ KeysStacked
    BY BoundsAssumption, EmptySeq DEF Init, PathDistinct, Chained, Unchained, KeysOfOpen, KeysStacked, Objects
<1>4. SearchSound /\ Fresh
    BY DEF Init, SearchSound, Fresh
<1> QED BY <1>2, <1>3, <1>4 DEF IInv

LEMMA Inductive == IInv /\ [Next]_vars => IInv'
<1> SUFFICES ASSUME IInv, [Next]_vars PROVE IInv'
    OBVIOUS
<1>2. v \in Values
    BY DEF IInv, Typed, InMemory
<1>3. CASE Scalar
    BY <1>2, <1>3, RawStep, TextsIn DEF Scalar
<1>4. CASE Null
    BY <1>4, RawStep, TextsIn DEF Null
<1>5. CASE EnterScanned
    BY <1>5, PushStep DEF EnterScanned, Scanned
<1>6. CASE Search
    BY <1>6, SearchStep
<1>7. CASE PassFrame
    BY <1>7, PassFrameStep
<1>8. CASE NullOnPath
    BY <1>8, RawStep, TextsIn DEF NullOnPath
<1>9. CASE EnterSearched
    <2>1. /\ v.kind \in ContainerKinds /\ ~Refused /\ at = 0 /\ Push
          /\ \A k \in DOMAIN open : Id(open[k].value) = Id(v) => k <= at
        BY <1>9 DEF EnterSearched, IInv, SearchSound
    <2>2. \A k \in DOMAIN open : k \in Nat \ {0}
        BY LenProperties DEF IInv, Typed
    <2>3. \A k \in DOMAIN open : Id(open[k].value) # Id(v)
        BY <2>1, <2>2
    <2> QED BY <2>1, <2>3, PushStep
<1>10. CASE Element
    BY <1>10, ElementStep
<1>11. CASE Member
    BY <1>11, MemberStep
<1>12. CASE Close
    BY <1>12, CloseStep
<1>13. CASE Finish
    <2>1. SearchSound' /\ Fresh'
        BY <1>13 DEF Finish, SearchSound, Fresh
    <2>2. /\ UNCHANGED <<memory, v, open, keys, buckets, at, buf, needSep>> /\ pc' = "done"
        BY <1>13 DEF Finish, encoder, builder
    <2>3. at' \in Nat /\ buf' \in Seq(Texts) /\ needSep' \in BOOLEAN
        BY <2>2 DEF IInv, Typed
    <2> QED BY <2>1, <2>2, <2>3, QuietStep
<1>14. CASE UNCHANGED vars
    <2>1. UNCHANGED <<memory, v, pc, open, keys, buckets, at, buf, needSep>>
        BY <1>14 DEF vars, encoder, builder
    <2>2. SearchSound' /\ Fresh'
        BY <2>1 DEF IInv, SearchSound, Fresh, Refused, Id
    <2>3. pc' \in {"value", "search", "next", "done"} /\ at' \in Nat /\ buf' \in Seq(Texts) /\ needSep' \in BOOLEAN
        BY <2>1 DEF IInv, Typed
    <2> QED BY <2>1, <2>2, <2>3, QuietStep
<1> QED BY <1>3, <1>4, <1>5, <1>6, <1>7, <1>8, <1>9, <1>10, <1>11, <1>12, <1>13, <1>14 DEF Next

\* In every state the path has no container twice, each bucket chains its frames newest
\* first, and the keys of the open objects lie behind each other (enter, index, next, close).
THEOREM Invariance == Spec => []IInv
BY Initial, Inductive, PTL DEF Spec

\* What the invariant says of the types.
LEMMA TypesOfInvariant == IInv => TypeOK
<1> SUFFICES ASSUME IInv PROVE TypeOK
    OBVIOUS
<1>1. /\ open \in Seq(Frames) /\ keys \in Seq(Keys) /\ buckets \in Seq(Nat)
      /\ Len(open) \in Nat /\ DOMAIN open = 1 .. Len(open)
      /\ pc \in {"value", "search", "next", "done"} /\ at \in Nat /\ needSep \in BOOLEAN
    BY LenProperties DEF IInv, Typed
<1>2. pc = "search" => at \in 0 .. Len(open)
    BY <1>1 DEF IInv, SearchSound
<1>3. ASSUME NEW k \in 1 .. Len(open)
      PROVE  open[k].value.kind \in ContainerKinds /\ open[k].value.ptr \in Pointers
    <2>1. open[k] \in Frames
        BY <1>1, ElementOfSeq
    <2> QED BY <2>1 DEF Frames, Values
<1>4. ASSUME NEW k \in 1 .. Len(open) PROVE open[k].older \in 0 .. k - 1
    <2>1. CASE buckets = << >>
        BY <1>1, <2>1 DEF IInv, Unchained
    <2>2. CASE buckets # << >>
        <3>1. open[k].older = NewestAt(open, Len(buckets), Bucket(open[k].value, Len(buckets)), k - 1)
            BY <2>2, ChainIs
        <3>2. k - 1 \in Nat
            BY <1>1
        <3> QED BY <3>1, <3>2, NewestAtRange
    <2> QED BY <2>1, <2>2
<1>5. ASSUME NEW b \in DOMAIN buckets PROVE buckets[b] \in 0 .. Len(open)
    <2>1. buckets # << >> /\ b \in 1 .. Len(buckets)
        BY <1>1, LenProperties
    <2>2. buckets[b] = NewestAt(open, Len(buckets), b, Len(open))
        BY <2>1, ChainIs
    <2> QED BY <1>1, <2>2, NewestAtRange
<1> QED BY <1>1, <1>2, <1>3, <1>4, <1>5 DEF TypeOK

\* No container is open twice, the search of a bucket meets exactly its open containers,
\* and the keys of the open objects lie behind each other.
THEOREM Soundness == Spec => []OpenSound
<1>1. IInv => OpenSound
    BY TypesOfInvariant DEF OpenSound, IInv
<1> QED BY <1>1, Invariance, PTL

-----------------------------------------------------------------------------
(* The calls of the Builder.                                               *)

Tokens == {Plain(t) : t \in Texts}
Mapped(b) == [k \in 1 .. Len(b) |-> Plain(b[k])]
KindsOf(o) == [k \in 1 .. Len(o) |-> o[k].value.kind]

LEMMA PlainIs ==
    /\ Plain("null") = "scalar" /\ Plain("scalar") = "scalar"
    /\ \A t \in {"comma", "colon", "openObject", "closeObject", "openArray", "closeArray"} : Plain(t) = t
    /\ \A n \in DOMAIN Names : Plain(Names[n]) = "string"
BY NamesAssumption DEF Plain

LEMMA MappedIs ==
    ASSUME NEW s \in Seq(Texts)
    PROVE  /\ Mapped(s) \in Seq(Tokens) /\ Len(Mapped(s)) = Len(s)
           /\ \A k \in 1 .. Len(s) : Mapped(s)[k] = Plain(s[k])
<1>1. Len(s) \in Nat /\ \A k \in 1 .. Len(s) : s[k] \in Texts
    BY LenProperties, ElementOfSeq
<1>2. Mapped(s) \in [1 .. Len(s) -> Tokens]
    BY <1>1 DEF Mapped, Tokens
<1>3. Mapped(s) \in Seq(Tokens) /\ Len(Mapped(s)) = Len(s)
    BY <1>1, <1>2, SeqDef, LenProperties
<1> QED BY <1>3 DEF Mapped

LEMMA MappedConcat ==
    ASSUME NEW s \in Seq(Texts), NEW t \in Seq(Texts)
    PROVE  Mapped(s \o t) = Mapped(s) \o Mapped(t)
<1> DEFINE x == Mapped(s)  y == Mapped(t)  z == Mapped(s \o t)
<1>1. /\ s \o t \in Seq(Texts) /\ Len(s \o t) = Len(s) + Len(t)
      /\ \A i \in 1 .. Len(s) + Len(t) : (s \o t)[i] = IF i <= Len(s) THEN s[i] ELSE t[i - Len(s)]
      /\ Len(s) \in Nat /\ Len(t) \in Nat
    BY ConcatProperties, LenProperties
<1>2. /\ x \in Seq(Tokens) /\ Len(x) = Len(s) /\ \A k \in 1 .. Len(s) : x[k] = Plain(s[k])
      /\ y \in Seq(Tokens) /\ Len(y) = Len(t) /\ \A k \in 1 .. Len(t) : y[k] = Plain(t[k])
      /\ z \in Seq(Tokens) /\ Len(z) = Len(s) + Len(t)
      /\ \A k \in 1 .. Len(s) + Len(t) : z[k] = Plain((s \o t)[k])
    BY <1>1, MappedIs
<1> HIDE DEF x, y, z
<1>3. /\ x \o y \in Seq(Tokens) /\ Len(x \o y) = Len(s) + Len(t)
      /\ \A i \in 1 .. Len(s) + Len(t) : (x \o y)[i] = IF i <= Len(s) THEN x[i] ELSE y[i - Len(s)]
    <2>1. x \in Seq(Tokens) /\ y \in Seq(Tokens)
        BY <1>2
    <2>2. /\ x \o y \in Seq(Tokens) /\ Len(x \o y) = Len(x) + Len(y)
          /\ \A i \in 1 .. Len(x) + Len(y) : (x \o y)[i] = IF i <= Len(x) THEN x[i] ELSE y[i - Len(x)]
        BY <2>1, ConcatProperties
    <2>3. Len(x) = Len(s) /\ Len(y) = Len(t)
        BY <1>2
    <2> QED BY <2>2, <2>3
<1>4. ASSUME NEW i \in 1 .. Len(z) PROVE z[i] = (x \o y)[i]
    <2>1. CASE i <= Len(s)
        <3>1. i \in 1 .. Len(s) /\ i \in 1 .. Len(s) + Len(t)
            BY <1>1, <1>2, <2>1
        <3> QED BY <1>1, <1>2, <1>3, <2>1, <3>1
    <2>2. CASE ~(i <= Len(s))
        <3>1. i - Len(s) \in 1 .. Len(t) /\ i \in 1 .. Len(s) + Len(t)
            BY <1>1, <1>2, <2>2
        <3> QED BY <1>1, <1>2, <1>3, <2>2, <3>1
    <2> QED BY <2>1, <2>2
<1> QED BY <1>2, <1>3, <1>4, SeqEqual DEF x, y, z

LEMMA MappedAppend ==
    ASSUME NEW s \in Seq(Texts), NEW e \in Texts
    PROVE  Mapped(Append(s, e)) = Append(Mapped(s), Plain(e))
<1>1. Append(s, e) = s \o <<e>> /\ <<e>> \in Seq(Texts)
    BY AppendIsConcat
<1>2. Mapped(<<e>>) = <<Plain(e)>>
    BY DEF Mapped
<1>3. Plain(e) \in Tokens /\ Mapped(s) \in Seq(Tokens)
    BY MappedIs DEF Tokens
<1>4. Append(Mapped(s), Plain(e)) = Mapped(s) \o <<Plain(e)>>
    BY <1>3, AppendIsConcat
<1> QED BY <1>1, <1>2, <1>4, MappedConcat

LEMMA MappedComma ==
    /\ Mapped(Comma) = Comma
    /\ \A k \in Keys : Mapped(Keyed(k)) = Comma \o <<"string", "colon">>
<1>1. Mapped(Comma) = Comma
    BY PlainIs DEF Mapped, Comma
<1>2. ASSUME NEW k \in Keys PROVE Mapped(Keyed(k)) = Comma \o <<"string", "colon">>
    <2> DEFINE w == <<Names[Reads[k]], "colon">>
    <2>1. Names[Reads[k]] \in Texts /\ "colon" \in Texts /\ Plain(Names[Reads[k]]) = "string"
        BY KeysAssumption, PlainIs DEF Texts
    <2>2. w \in Seq(Texts)
        BY <2>1
    <2>3. Mapped(w) = <<"string", "colon">>
        BY <2>1, PlainIs DEF Mapped
    <2> HIDE DEF w
    <2> QED BY <1>1, <2>2, <2>3, MappedConcat, TextsIn DEF Keyed, w
<1> QED BY <1>1, <1>2

\* The state of the Builder's caller that an encoder is.
Owed == pc \in {"value", "search"} /\ open # << >>

LEMMA CallsIs ==
    /\ Calls!vars = <<Mapped(buf), needSep, KindsOf(open), Owed>>
    /\ Calls!Comma = Comma /\ Calls!KeyTokens = <<"string", "colon">>
BY DEF Calls!vars, Calls!Comma, Comma, Calls!KeyTokens, Mapped, KindsOf, Owed

\* A token that is neither a comma nor a key is the value that is owed, or the document.
LEMMA RawCalls ==
    ASSUME IInv, pc \in {"value", "search"}, NEW token \in {"null", "scalar"}, Raw(token)
    PROVE  Calls!Raw
<1>1. /\ buf' = Append(buf, token) /\ pc' = "next" /\ UNCHANGED <<open, needSep>>
      /\ buf \in Seq(Texts) /\ token \in Texts /\ Plain(token) = "scalar"
    BY PlainIs DEF Raw, encoder, IInv, Typed, Texts
<1>2. Mapped(buf') = Append(Mapped(buf), "scalar")
    BY <1>1, MappedAppend
<1>3. Owed \/ Mapped(buf) = << >>
    <2>1. CASE open = << >>
        <3>1. buf = << >>
            BY <2>1 DEF IInv, Fresh
        <3> QED BY <3>1 DEF Mapped
    <2>2. CASE open # << >>
        BY <2>2 DEF Owed
    <2> QED BY <2>1, <2>2
<1>4. Owed' = FALSE /\ UNCHANGED <<needSep, KindsOf(open)>>
    BY <1>1 DEF Owed, KindsOf
<1> QED BY <1>2, <1>3, <1>4 DEF Calls!Raw, Mapped, KindsOf, Owed

LEMMA PushCalls ==
    ASSUME IInv, pc \in {"value", "search"}, v.kind \in ContainerKinds, ~Refused, Push
    PROVE  Calls!Begin(v.kind)
<1> DEFINE n == Len(open)
<1>1. /\ v \in Values /\ v.ptr # 0 /\ open \in Seq(Frames) /\ buf \in Seq(Texts) /\ n \in Nat
    BY LenProperties DEF IInv, Typed, InMemory, Refused
<1>2. /\ open' \in Seq(Frames) /\ Len(open') = n + 1
      /\ \A i \in 1 .. n : open'[i].value = open[i].value
      /\ open'[Len(open')].value = v
    BY <1>1, Pushed
<1>3. buf' = Append(buf, Opener[v.kind]) /\ needSep' = FALSE /\ pc' = "next"
    BY DEF Push
<1>4. Mapped(buf') = Append(Mapped(buf), Opener[v.kind])
    <2>1. Opener[v.kind] \in Texts /\ Plain(Opener[v.kind]) = Opener[v.kind]
        BY <1>1, TextsIn, PlainIs DEF Opener, ContainerKinds
    <2> QED BY <1>1, <1>3, <2>1, MappedAppend
<1>5. Owed \/ Mapped(buf) = << >>
    <2>1. CASE open = << >>
        <3>1. buf = << >>
            BY <2>1 DEF IInv, Fresh
        <3> QED BY <3>1 DEF Mapped
    <2>2. CASE open # << >>
        BY <2>2 DEF Owed
    <2> QED BY <2>1, <2>2
<1>6. KindsOf(open') = Append(KindsOf(open), v.kind)
    <2>1. \A i \in 1 .. n + 1 : i \in 1 .. n \/ i = n + 1
        BY <1>1
    <2>2. KindsOf(open') = [i \in 1 .. n + 1 |-> IF i = n + 1 THEN v.kind ELSE open[i].value.kind]
        BY <1>1, <1>2, <2>1 DEF KindsOf
    <2>3. KindsOf(open) \in Seq({c.value.kind : c \in Frames}) /\ Len(KindsOf(open)) = n
        <3>1. KindsOf(open) \in [1 .. n -> {c.value.kind : c \in Frames}]
            BY <1>1, ElementOfSeq DEF KindsOf
        <3> QED BY <1>1, <3>1, SeqDef, LenProperties
    <2>4. Append(KindsOf(open), v.kind) = [i \in 1 .. n + 1 |-> IF i = n + 1 THEN v.kind ELSE KindsOf(open)[i]]
        BY <2>3 DEF KindsOf
    <2>5. \A i \in 1 .. n : KindsOf(open)[i] = open[i].value.kind
        BY DEF KindsOf
    <2> QED BY <2>1, <2>2, <2>4, <2>5
<1>7. Owed' = FALSE
    BY <1>3 DEF Owed
<1>8. Calls!Opener = Opener
    BY DEF Calls!Opener, Opener
<1> QED BY <1>3, <1>4, <1>5, <1>6, <1>7, <1>8 DEF Calls!Begin, Mapped, KindsOf, Owed

\* A frame that counts an item has the kind it had.
LEMMA AdvancedKinds ==
    ASSUME IInv, open # << >>, NEW g, open' = [open EXCEPT ![Len(open)].next = g]
    PROVE  KindsOf(open') = KindsOf(open) /\ open' # << >>
<1>1. open \in Seq(Frames) /\ Len(open) \in Nat \ {0}
    BY InnermostIs DEF IInv, Typed
<1>2. DOMAIN open = 1 .. Len(open) /\ \A k \in 1 .. Len(open) : open[k] \in Frames
    BY <1>1, LenProperties, ElementOfSeq
<1> DEFINE h == [open[Len(open)] EXCEPT !.next = g]
<1>3. open' = [open EXCEPT ![Len(open)] = h] /\ h.value = open[Len(open)].value
    BY <1>1, <1>2 DEF Frames
<1> HIDE DEF h
<1>4. \A k \in 1 .. Len(open) : open'[k].value = open[k].value
    BY <1>2, <1>3
<1>5. DOMAIN open' = 1 .. Len(open) /\ Len(open') = Len(open)
    BY <1>1, <1>2, <1>3
<1> QED BY <1>1, <1>4, <1>5 DEF KindsOf

LEMMA ElementCalls ==
    ASSUME IInv, Element
    PROVE  Calls!CommaAlone
<1>1. /\ open # << >> /\ pc = "next" /\ Innermost.value.kind = "array" /\ buf' = buf \o Comma /\ needSep' = TRUE
      /\ open' = [open EXCEPT ![Len(open)].next = Innermost.next + 1] /\ pc' = "value"
    BY DEF Element
<1>2. Mapped(buf') = Mapped(buf) \o Comma
    BY <1>1, MappedConcat, MappedComma, TextsIn DEF IInv, Typed
<1>3. KindsOf(open') = KindsOf(open) /\ open' # << >>
    BY <1>1, AdvancedKinds
<1>4. Len(open) \in Nat \ {0} /\ Innermost = open[Len(open)]
    BY <1>1, InnermostIs
<1>5. /\ KindsOf(open) # << >> /\ Len(KindsOf(open)) = Len(open)
      /\ KindsOf(open)[Len(open)] = "array"
    BY <1>1, <1>4 DEF KindsOf
<1>6. ~Owed /\ Owed' = TRUE
    BY <1>1, <1>3 DEF Owed
<1> QED BY <1>1, <1>2, <1>3, <1>5, <1>6, CallsIs DEF Calls!CommaAlone, Calls!Within, Mapped, KindsOf, Owed

\* The key that is written next is one of the innermost object's.
LEMMA KeyWritten ==
    ASSUME IInv, open # << >>, Innermost.value.kind = "object",
           Innermost.firstKey + Innermost.next # Len(keys)
    PROVE  /\ keys[Innermost.firstKey + Innermost.next + 1] \in Keys
<1>1. /\ Innermost \in Frames /\ Innermost.firstKey + Innermost.next <= Len(keys)
      /\ keys \in Seq(Keys) /\ Len(keys) \in Nat
    BY InnermostIs DEF IInv, Typed
<1>2. Innermost.firstKey \in Nat /\ Innermost.next \in Nat
    BY <1>1 DEF Frames
<1>3. Innermost.firstKey + Innermost.next + 1 \in 1 .. Len(keys)
    BY <1>1, <1>2
<1> QED BY <1>1, <1>3, ElementOfSeq

LEMMA MemberCalls ==
    ASSUME IInv, Member
    PROVE  Calls!KeyAlone
<1> DEFINE k == keys[Innermost.firstKey + Innermost.next + 1]
<1>1. /\ open # << >> /\ pc = "next" /\ Innermost.value.kind = "object"
      /\ Innermost.firstKey + Innermost.next # Len(keys)
      /\ buf' = buf \o Keyed(k) /\ needSep' = TRUE
      /\ open' = [open EXCEPT ![Len(open)].next = Innermost.next + 1] /\ pc' = "value"
    BY DEF Member
<1>2. k \in Keys
    BY <1>1, KeyWritten
<1> HIDE DEF k
<1>3. Mapped(buf') = Mapped(buf) \o (Comma \o <<"string", "colon">>)
    <2>1. Mapped(Keyed(k)) = Comma \o <<"string", "colon">> /\ Keyed(k) \in Seq(Texts)
        BY <1>2, MappedComma, TextsIn
    <2>2. buf \in Seq(Texts)
        BY DEF IInv, Typed
    <2> QED BY <1>1, <2>1, <2>2, MappedConcat
<1>4. KindsOf(open') = KindsOf(open) /\ open' # << >>
    BY <1>1, AdvancedKinds
<1>5. Len(open) \in Nat \ {0} /\ Innermost = open[Len(open)]
    BY <1>1, InnermostIs
<1>6. /\ KindsOf(open) # << >> /\ Len(KindsOf(open)) = Len(open)
      /\ KindsOf(open)[Len(open)] = "object"
    BY <1>1, <1>5 DEF KindsOf
<1>7. ~Owed /\ Owed' = TRUE
    BY <1>1, <1>4 DEF Owed
<1>8. \E key \in Calls!FieldKeys : Mapped(buf') = Mapped(buf) \o key
    BY <1>3, CallsIs DEF Calls!FieldKeys
<1> QED BY <1>1, <1>4, <1>6, <1>7, <1>8 DEF Calls!KeyAlone, Calls!Within, Mapped, KindsOf, Owed

LEMMA CloseCalls ==
    ASSUME IInv, Close
    PROVE  Calls!End
<1> DEFINE n == Len(open)
           f == Innermost
<1>1. /\ open # << >> /\ pc = "next" /\ pc' = "next" /\ buf' = Append(buf, Closer[f.value.kind])
      /\ needSep' = TRUE /\ open' = SubSeq(open, 1, n - 1)
    BY DEF Close
<1>2. n \in Nat \ {0} /\ f = open[n] /\ f \in Frames /\ open \in Seq(Frames) /\ buf \in Seq(Texts)
    BY <1>1, InnermostIs DEF IInv, Typed
<1>3. f.value \in Values /\ f.value.kind \in ContainerKinds
    BY <1>2 DEF Frames
<1> HIDE DEF f
<1>4. Mapped(buf') = Append(Mapped(buf), Closer[f.value.kind])
    <2>1. Closer[f.value.kind] \in Texts /\ Plain(Closer[f.value.kind]) = Closer[f.value.kind]
        BY <1>3, TextsIn, PlainIs DEF Closer, ContainerKinds
    <2> QED BY <1>1, <1>2, <2>1, MappedAppend
<1>5. /\ KindsOf(open) # << >> /\ Len(KindsOf(open)) = n /\ KindsOf(open)[n] = f.value.kind
    BY <1>2 DEF KindsOf
<1>6. KindsOf(open') = SubSeq(KindsOf(open), 1, n - 1)
    <2> DEFINE K == KindsOf(open)  T == {K[j] : j \in 1 .. n}  q == SubSeq(K, 1, n - 1)
    <2>1. Len(open') = n - 1 /\ \A k \in 1 .. n - 1 : open'[k] = open[k]
        BY <1>1, <1>2, FrontIs
    <2>2. K \in Seq(T) /\ \A k \in 1 .. n : K[k] = open[k].value.kind
        <3>1. K \in [1 .. n -> T]
            BY DEF KindsOf
        <3>2. \A k \in 1 .. n : K[k] = open[k].value.kind
            BY DEF KindsOf
        <3> HIDE DEF K, T
        <3> QED BY <1>2, <3>1, <3>2, SeqDef
    <2>3. Len(K) = n /\ K # << >>
        BY <1>5
    <2> HIDE DEF K, T
    <2>4. /\ SubSeq(K, 1, Len(K) - 1) \in Seq(T)
          /\ Len(SubSeq(K, 1, Len(K) - 1)) = Len(K) - 1
          /\ \A k \in 1 .. Len(K) - 1 : SubSeq(K, 1, Len(K) - 1)[k] = K[k]
        BY <2>2, <2>3, FrontIs
    <2>5. q \in Seq(T) /\ Len(q) = n - 1 /\ \A k \in 1 .. n - 1 : q[k] = K[k]
        BY <2>3, <2>4
    <2> HIDE DEF q
    <2>6. q = [k \in 1 .. n - 1 |-> q[k]]
        BY <2>5, LenProperties
    <2>7. \A k \in 1 .. n - 1 : q[k] = open[k].value.kind
        BY <1>2, <2>2, <2>5
    <2>8. KindsOf(open') = [k \in 1 .. n - 1 |-> open[k].value.kind]
        BY <2>1 DEF KindsOf
    <2> QED BY <2>6, <2>7, <2>8 DEF q, K
<1>7. ~Owed /\ Owed' = FALSE
    BY <1>1 DEF Owed
<1>8. Calls!Closer = Closer
    BY DEF Calls!Closer, Closer
<1> QED BY <1>1, <1>4, <1>5, <1>6, <1>7, <1>8 DEF Calls!End, Mapped, KindsOf, Owed

LEMMA InitialCalls == Init => Calls!Init
<1> SUFFICES ASSUME Init PROVE Calls!Init
    OBVIOUS
<1>1. Mapped(buf) = << >> /\ KindsOf(open) = << >> /\ Owed = FALSE /\ needSep = FALSE
    BY DEF Init, Mapped, KindsOf, Owed
<1> QED BY <1>1 DEF Calls!Init, Mapped, KindsOf, Owed

LEMMA StepCalls == IInv /\ [Next]_vars => [Calls!Next]_(Calls!vars)
<1> SUFFICES ASSUME IInv, [Next]_vars PROVE [Calls!Next]_(Calls!vars)
    OBVIOUS
<1>1. v \in Values
    BY DEF IInv, Typed, InMemory
<1>2. CASE Scalar
    <2>1. Token[v.kind] \in {"null", "scalar"}
        BY <1>1, <1>2 DEF Scalar, Values, ContainerKinds, Token
    <2> QED BY <1>2, <2>1, RawCalls DEF Scalar, Calls!Next
<1>3. CASE Null
    BY <1>3, RawCalls DEF Null, Calls!Next
<1>4. CASE NullOnPath
    BY <1>4, RawCalls DEF NullOnPath, Calls!Next
<1>5. CASE EnterScanned \/ EnterSearched
    <2>1. pc \in {"value", "search"} /\ v.kind \in ContainerKinds /\ ~Refused /\ Push
        BY <1>5 DEF EnterScanned, EnterSearched, IInv, SearchSound
    <2>2. Calls!Begin(v.kind)
        BY <2>1, PushCalls
    <2>3. v.kind \in Calls!Kinds
        BY <2>1 DEF Calls!Kinds, ContainerKinds
    <2>4. \E kind \in Calls!Kinds :
              Calls!BeginField(kind) \/ Calls!BeginElement(kind) \/ Calls!Begin(kind)
        BY <2>2, <2>3 DEF Calls!Begin
    <2> QED BY <2>4 DEF Calls!Next
<1>6. CASE Element
    BY <1>6, ElementCalls DEF Calls!Next
<1>7. CASE Member
    BY <1>7, MemberCalls DEF Calls!Next
<1>8. CASE Close
    BY <1>8, CloseCalls DEF Calls!Next
<1>9. CASE Search \/ PassFrame
    <2>1. UNCHANGED <<buf, needSep, open>> /\ pc \in {"value", "search"} /\ pc' \in {"value", "search"}
        BY <1>9 DEF Search, PassFrame, encoder, builder
    <2> QED BY <2>1, CallsIs DEF Calls!vars
<1>10. CASE Finish
    <2>1. UNCHANGED <<buf, needSep, open>> /\ pc = "next" /\ pc' = "done"
        BY <1>10 DEF Finish, encoder, builder
    <2> QED BY <2>1, CallsIs DEF Calls!vars
<1>11. CASE UNCHANGED vars
    BY <1>11 DEF vars, encoder, builder, Calls!vars
<1> QED BY <1>2, <1>3, <1>4, <1>5, <1>6, <1>7, <1>8, <1>9, <1>10, <1>11 DEF Next

\* The encoder makes the calls that the Builder's contract allows, and no others: what it
\* writes is what the Builder writes of them.
THEOREM Refinement == Spec => CallsBuilder
<1>1. Spec => Calls!Init /\ [][Calls!Next]_(Calls!vars)
    BY InitialCalls, StepCalls, Invariance, PTL DEF Spec
<1> QED BY <1>1 DEF CallsBuilder, Calls!Spec

-----------------------------------------------------------------------------
(* What the calls write, by the theorem of the Builder.                    *)

CONSTANTS
    MaxWritten, MaxNesting  \* the bounds of the grammar that a document is compared with

GrammarBounds == MaxWritten \in Nat /\ MaxWritten >= 2 /\ MaxNesting \in Nat

Text == INSTANCE BuilderProofs WITH
    Lengths <- {}, MaxWritten <- MaxWritten, MaxNesting <- MaxNesting,
    buf  <- [k \in 1 .. Len(buf) |-> Plain(buf[k])],
    open <- [k \in 1 .. Len(open) |-> open[k].value.kind],
    owed <- pc \in {"value", "search"} /\ open # << >>

\* An encoder that has written a value has written something, and it is done when nothing
\* is open.
Begun == /\ pc \in {"next", "done"} => buf # << >>
         /\ pc = "done" => open = << >>

LEMMA BeginsWriting == Spec => []Begun
<1>1. Init => Begun
    BY DEF Init, Begun
<1>2. IInv /\ Begun /\ [Next]_vars => Begun'
    <2> SUFFICES ASSUME IInv, Begun, [Next]_vars PROVE Begun'
        OBVIOUS
    <2>1. buf \in Seq(Texts)
        BY DEF IInv, Typed
    <2>2. ASSUME NEW token, buf' = Append(buf, token), pc' = "next" PROVE Begun'
        <3>1. buf' # << >>
            BY <2>1, <2>2
        <3> QED BY <2>2, <3>1 DEF Begun
    <2>3. CASE Scalar \/ Null \/ NullOnPath
        BY <2>2, <2>3 DEF Scalar, Null, NullOnPath, Raw
    <2>4. CASE EnterScanned \/ EnterSearched
        BY <2>2, <2>4 DEF EnterScanned, EnterSearched, Push
    <2>5. CASE Close
        BY <2>2, <2>5 DEF Close
    <2>6. CASE Element \/ Member
        BY <2>6 DEF Element, Member, Begun
    <2>7. CASE Search \/ PassFrame
        BY <2>7 DEF Search, PassFrame, Begun
    <2>8. CASE Finish
        BY <2>8 DEF Finish, encoder, builder, Begun
    <2>9. CASE UNCHANGED vars
        BY <2>9 DEF vars, encoder, builder, Begun
    <2> QED BY <2>3, <2>4, <2>5, <2>6, <2>7, <2>8, <2>9 DEF Next
<1> QED BY <1>1, <1>2, Invariance, PTL DEF Spec

LEMMA SameInit == Calls!Init => Text!Init
BY DEF Calls!Init, Text!Init

LEMMA SameStep == [Calls!Next]_(Calls!vars) => [Text!Next]_(Text!vars)
BY DEF Calls!Next, Text!Next, Calls!Field, Text!Field, Calls!KeyAlone, Text!KeyAlone,
       Calls!Element, Text!Element, Calls!CommaAlone, Text!CommaAlone, Calls!RawMembers,
       Text!RawMembers, Calls!Raw, Text!Raw, Calls!End, Text!End, Calls!Reset,
       Text!Reset, Calls!BeginField, Text!BeginField, Calls!BeginElement,
       Text!BeginElement, Calls!Begin, Text!Begin, Calls!vars, Text!vars, Calls!Comma,
       Text!Comma, Calls!KeyTokens, Text!KeyTokens, Calls!Prefix, Text!Prefix,
       Calls!Precomputed, Text!Precomputed, Calls!FieldKeys, Text!FieldKeys,
       Calls!Listed, Text!Listed, Calls!StringArray, Text!StringArray, Calls!Written,
       Text!Written, Calls!Within, Text!Within, Calls!Members, Text!Members,
       Calls!Kinds, Text!Kinds, Calls!Opener, Text!Opener, Calls!Closer, Text!Closer,
       Calls!builder, Text!builder

\* What is done is one JSON value: the automaton of the Builder has read all of it and has
\* nothing open, and it is a value of the grammar, where that is bounded widely enough.
OneDocument ==
    pc = "done" =>
        /\ Text!Reads(Text!Start, Mapped(buf), <<"done", << >> >>)
        /\ Len(buf) <= MaxWritten /\ Len(buf) \div 2 <= MaxNesting =>
              Mapped(buf) \in Text!Json!Values[MaxNesting]

\* Whatever the value, shared and cyclic containers included, what the encoder has written
\* when appendValue returns is one JSON value (encode.go: "null for the rest, for cycles
\* and past MaxDepth").
THEOREM WritesDocument == ASSUME GrammarBounds PROVE Spec => []OneDocument
<1>0. {} \subseteq Nat /\ Text!BoundsAssumption
    BY DEF GrammarBounds, Text!BoundsAssumption
<1>1. Spec => Text!Spec
    <2>1. Spec => Calls!Init /\ [][Calls!Next]_(Calls!vars)
        BY InitialCalls, StepCalls, Invariance, PTL DEF Spec
    <2> QED BY <2>1, SameInit, SameStep, PTL DEF Text!Spec
<1>2. Text!Spec => []Text!OneValue
    BY <1>0, Text!WritesOneValue DEF Text!BoundsAssumption
<1>3. Text!Spec => []Text!WritesValues
    BY <1>0, Text!WrittenIsValue DEF Text!BoundsAssumption
<1>4. IInv /\ Begun /\ Text!OneValue /\ Text!WritesValues => OneDocument
    <2> SUFFICES ASSUME IInv, Begun, Text!OneValue, Text!WritesValues, pc = "done"
                 PROVE  /\ Text!Reads(Text!Start, Mapped(buf), <<"done", << >> >>)
                        /\ Len(buf) <= MaxWritten /\ Len(buf) \div 2 <= MaxNesting =>
                              Mapped(buf) \in Text!Json!Values[MaxNesting]
        BY DEF OneDocument
    <2>1. buf \in Seq(Texts) /\ buf # << >> /\ open = << >>
        BY DEF IInv, Typed, Begun
    <2>2. Mapped(buf) # << >> /\ KindsOf(open) = << >> /\ Len(Mapped(buf)) = Len(buf)
        BY <2>1 DEF Mapped, KindsOf
    <2>3. Mapped(buf) # << >> /\ KindsOf(open) = << >> => Text!Reads(Text!Start, Mapped(buf), <<"done", << >> >>)
        BY DEF Text!OneValue, Mapped, KindsOf
    <2>4. Text!Completed = Len(buf)
        <3>1. Text!Completed = Len(Mapped(buf)) + Len(KindsOf(open)) + 0
            BY <2>1 DEF Text!Completed, Mapped, KindsOf
        <3> QED BY <2>1, <2>2, <3>1
    <2>5. /\ Mapped(buf) # << >> /\ KindsOf(open) = << >>
          /\ Text!Completed <= MaxWritten /\ Text!Completed \div 2 <= MaxNesting
          => Mapped(buf) \in Text!Json!Values[MaxNesting]
        BY DEF Text!WritesValues, Mapped, KindsOf
    <2> QED BY <2>2, <2>3, <2>4, <2>5
<1> QED BY <1>1, <1>2, <1>3, <1>4, Invariance, BeginsWriting, PTL

-----------------------------------------------------------------------------
(* The tree of a value.                                                    *)

\* The keys that are written are the ones that the tree names, in its order.
LEMMA NamedAre ==
    ASSUME NEW S \in SUBSET Keys, IsFiniteSet(S)
    PROVE  SortedKeys(S) = Named(S)
<1>k. \A k \in S : k \in Nat /\ k \in Keys /\ Reads[k] \in Nat
    <2>1. DOMAIN Names \subseteq Nat
        BY KeysAssumption, LenProperties
    <2> QED BY <2>1, KeysAssumption
<1>1. CASE S \cap NotUTF8 = {}
    <2>1. \A k, l \in S : k < l => Reads[k] < Reads[l]
        BY <1>1, KeysAssumption
    <2>2. \A k, l \in S : ByBytes(k, l) <=> ByName(k, l)
        BY <1>k, <2>1 DEF ByBytes, ByName
    <2>3. Kept(S) = S
        BY <1>k, <2>1 DEF Kept
    <2>4. \A s \in [1 .. Cardinality(S) -> S] :
            (\A i, j \in DOMAIN s : i < j => ByBytes(s[i], s[j])) <=>
            (\A i, j \in DOMAIN s : i < j => ByName(s[i], s[j]))
        BY <2>2
    <2>5. Sorted(S, ByBytes) = Sorted(S, ByName)
        BY <2>4, Zenon DEF Sorted
    <2> QED BY <1>1, <2>3, <2>5 DEF SortedKeys, Named
<1>2. CASE S \cap NotUTF8 # {}
    <2> DEFINE s == Sorted(S, CompareKeys)
               n == Cardinality(S)
               J == {j \in DOMAIN s : j > 1 => Reads[s[j - 1]] # Reads[s[j]]}
               T == {s[i] : i \in J}
    <2>1. /\ s \in [1 .. n -> S] /\ n \in Nat
          /\ \A i, j \in 1 .. n : i < j => CompareKeys(s[i], s[j])
        <3>1. PICK t \in [1 .. n -> S] : \A i, j \in DOMAIN t : i < j => <<t[i], t[j]>> \in Runewise
            BY KeyOrders, Arranged
        <3>2. \E u \in [1 .. n -> S] : \A i, j \in DOMAIN u : i < j => CompareKeys(u[i], u[j])
            BY <3>1 DEF Runewise
        <3>3. s \in [1 .. n -> S] /\ \A i, j \in DOMAIN s : i < j => CompareKeys(s[i], s[j])
            BY <3>2, Zenon DEF Sorted
        <3>4. n \in Nat
            BY FS_CardinalityType
        <3> HIDE DEF s
        <3> QED BY <3>3, <3>4
    <2>2. \A k \in S : \E i \in 1 .. n : s[i] = k
        <3>1. s \in Injection(1 .. n, S)
            <4>1. \A i, j \in 1 .. n : i # j => s[i] # s[j]
                <5>1. \A i, j \in 1 .. n : i < j => s[i] # s[j]
                    <6> HIDE DEF s
                    <6> QED BY <1>k, <2>1 DEF CompareKeys
                <5> HIDE DEF s
                <5> QED BY <5>1
            <4> HIDE DEF s
            <4> QED BY <2>1, <4>1 DEF Injection, IsInjective
        <3>2. IsFiniteSet(1 .. n) /\ Cardinality(1 .. n) = n
            <4>1. IsFiniteSet(1 .. n) /\ Cardinality(1 .. n) = IF 1 > n THEN 0 ELSE n - 1 + 1
                BY <2>1, FS_Interval
            <4> QED BY <2>1, <4>1
        <3>3. s \in Surjection(1 .. n, S)
            BY <3>1, <3>2, FS_Injection
        <3> HIDE DEF s
        <3> QED BY <3>3 DEF Surjection
    <2> HIDE DEF s, n
    <2>3. ASSUME NEW j \in 1 .. n, j > 1 => Reads[s[j - 1]] # Reads[s[j]]
          PROVE  s[j] \in Kept(S)
        <3>1. ASSUME NEW l \in S, Reads[l] = Reads[s[j]], l > s[j] PROVE FALSE
            <4>1. PICK i \in 1 .. n : s[i] = l
                BY <2>2
            <4>2. s[j] \in S /\ s[i] \in S
                BY <2>1
            <4>3. i < j
                <5>1. ~(j < i)
                    BY <1>k, <2>1, <3>1, <4>1, <4>2 DEF CompareKeys
                <5>2. i # j
                    BY <1>k, <3>1, <4>1, <4>2
                <5> QED BY <2>1, <5>1, <5>2
            <4>4. j - 1 \in 1 .. n /\ j - 1 < j /\ s[j - 1] \in S
                BY <2>1, <4>3
            <4>5. CompareKeys(s[j - 1], s[j])
                BY <2>1, <4>4
            <4>6. Reads[s[j - 1]] < Reads[s[j]]
                BY <2>3, <2>1, <4>3, <4>5 DEF CompareKeys
            <4>7. i = j - 1 \/ CompareKeys(s[i], s[j - 1])
                BY <2>1, <4>3, <4>4
            <4>8. Reads[s[i]] <= Reads[s[j - 1]]
                BY <1>k, <4>2, <4>4, <4>7 DEF CompareKeys
            <4> QED BY <1>k, <3>1, <4>1, <4>2, <4>4, <4>6, <4>8
        <3> QED BY <2>1, <3>1 DEF Kept
    <2>4. ASSUME NEW j \in 1 .. n, s[j] \in Kept(S), j > 1
          PROVE  Reads[s[j - 1]] # Reads[s[j]]
        <3>1. j - 1 \in 1 .. n /\ j - 1 < j /\ s[j - 1] \in S /\ s[j] \in S
            BY <2>1, <2>4
        <3>2. CompareKeys(s[j - 1], s[j])
            BY <2>1, <3>1
        <3> QED BY <1>k, <2>4, <3>1, <3>2 DEF CompareKeys, Kept
    <2>5. DOMAIN s = 1 .. n
        BY <2>1
    <2>6. \A k : k \in T <=> k \in Kept(S)
        <3>1. ASSUME NEW k \in T PROVE k \in Kept(S)
            <4>1. PICK j \in J : k = s[j]
                OBVIOUS
            <4> QED BY <2>3, <2>5, <4>1
        <3>2. ASSUME NEW k \in Kept(S) PROVE k \in T
            <4>1. PICK j \in 1 .. n : s[j] = k
                BY <2>2 DEF Kept
            <4>2. j \in J
                BY <2>4, <2>5, <4>1
            <4> QED BY <4>1, <4>2
        <3> QED BY <3>1, <3>2
    <2>7. T = Kept(S)
        <3> HIDE DEF T
        <3> QED BY <2>6
    <2>8. Compacted(s) = Sorted(Kept(S), CompareKeys)
        <3>1. Compacted(s) = Sorted(T, CompareKeys)
            BY DEF Compacted
        <3> HIDE DEF T
        <3> QED BY <2>7, <3>1
    <2> DEFINE K == Kept(S)
    <2>9. \A k, l \in K : CompareKeys(k, l) <=> ByName(k, l)
        <3>1. \A k, l \in K : k \in S /\ l \in S /\ (Reads[k] = Reads[l] => ~(k > l))
            BY DEF Kept
        <3> HIDE DEF K
        <3> QED BY <3>1 DEF CompareKeys, ByName
    <2> HIDE DEF K
    <2>10. \A t \in [1 .. Cardinality(K) -> K] :
            (\A i, j \in DOMAIN t : i < j => CompareKeys(t[i], t[j])) <=>
            (\A i, j \in DOMAIN t : i < j => ByName(t[i], t[j]))
        BY <2>9
    <2>11. Sorted(K, CompareKeys) = Sorted(K, ByName)
        BY <2>10, Zenon DEF Sorted
    <2> QED BY <1>2, <2>8, <2>11 DEF SortedKeys, Named, K, s
<1> QED BY <1>1, <1>2

Computes(f, V, a, n, G) ==
    f \in [0 .. n -> V] /\ f[0] = a /\ \A k \in 1 .. n : f[k] = G[k][f[k - 1]]

\* What a recursion over the numbers to n computes: each value from the one before it.
LEMMA Recursion ==
    ASSUME NEW V, NEW a \in V, NEW n \in Nat, NEW G \in [1 .. n -> [V -> V]]
    PROVE  \E f : Computes(f, V, a, n, G)
<1> DEFINE Solves(f, m) == f \in [0 .. m -> V] /\ f[0] = a /\ \A k \in 1 .. m : f[k] = G[k][f[k - 1]]
           D == {m \in 0 .. n : ~ \E f : Solves(f, m)}
<1>1. D = {}
    <2>1. SUFFICES ASSUME D # {} PROVE FALSE
        OBVIOUS
    <2>2. PICK m \in D : \A j \in D : m <= j
        <3>1. D \in SUBSET Nat
            OBVIOUS
        <3> QED BY <2>1, <3>1, LeastNat
    <2>3. m \in 0 .. n /\ ~ \E f : Solves(f, m)
        OBVIOUS
    <2>4. CASE m = 0
        <3>1. Solves([k \in 0 .. 0 |-> a], 0)
            OBVIOUS
        <3> QED BY <2>3, <2>4, <3>1
    <2>5. CASE m # 0
        <3>1. m - 1 \in 0 .. n /\ ~(m <= m - 1) /\ m \in 1 .. n
            BY <2>3, <2>5
        <3>2. PICK f : Solves(f, m - 1)
            BY <2>2, <3>1
        <3> DEFINE g == [k \in 0 .. m |-> IF k = m THEN G[m][f[m - 1]] ELSE f[k]]
        <3>3. \A k \in 0 .. m - 1 : f[k] \in V /\ g[k] = f[k]
            BY <2>3, <3>2
        <3>4. g[m] = G[m][f[m - 1]] /\ G[m][f[m - 1]] \in V
            <4>1. m - 1 \in 0 .. m - 1 /\ m \in 0 .. m
                BY <2>3, <3>1
            <4>2. f[m - 1] \in V /\ G[m] \in [V -> V]
                BY <3>1, <3>3, <4>1
            <4> QED BY <4>1, <4>2
        <3>5. g \in [0 .. m -> V]
            <4>1. \A k \in 0 .. m : k # m => k \in 0 .. m - 1
                BY <2>3
            <4>2. \A k \in 0 .. m : g[k] \in V
                BY <3>3, <3>4, <4>1
            <4>3. g = [k \in 0 .. m |-> g[k]]
                OBVIOUS
            <4> HIDE DEF g
            <4> QED BY <4>2, <4>3
        <3> HIDE DEF g
        <3>6. ASSUME NEW k \in 1 .. m PROVE g[k] = G[k][g[k - 1]]
            <4>1. CASE k = m
                <5>1. m - 1 \in 0 .. m - 1
                    BY <3>1
                <5> QED BY <3>3, <3>4, <4>1, <5>1
            <4>2. CASE k # m
                <5>1. k \in 1 .. m - 1 /\ k \in 0 .. m - 1 /\ k - 1 \in 0 .. m - 1
                    BY <2>3, <4>2
                <5> QED BY <3>2, <3>3, <5>1
            <4> QED BY <4>1, <4>2
        <3>7. 0 \in 0 .. m - 1
            BY <3>1
        <3>8. Solves(g, m)
            BY <3>2, <3>3, <3>5, <3>6, <3>7
        <3> QED BY <2>3, <3>8
    <2> QED BY <2>4, <2>5
<1>2. n \in 0 .. n
    OBVIOUS
<1>3. \E f : Solves(f, n)
    <2> HIDE DEF Solves
    <2> QED BY <1>1, <1>2
<1> QED BY <1>3 DEF Computes

Sep(k) == IF k = 1 THEN << >> ELSE <<"comma">>

LEMMA SepIn == \A k : Sep(k) \in Seq(Texts)
<1>1. "comma" \in Texts
    BY DEF Texts
<1> QED BY <1>1 DEF Sep

\* The texts of items, joined one by one.
LEMMA JoinsAre ==
    ASSUME NEW texts \in Seq(Seq(Texts))
    PROVE  /\ Joins(texts)[0] = << >>
           /\ \A k \in 0 .. Len(texts) : Joins(texts)[k] \in Seq(Texts)
           /\ \A k \in 1 .. Len(texts) : Joins(texts)[k] = Joins(texts)[k - 1] \o Sep(k) \o texts[k]
<1> DEFINE n == Len(texts)
           V == Seq(Texts)
           G == [k \in 1 .. n |-> [x \in V |-> x \o Sep(k) \o texts[k]]]
<1>1. n \in Nat /\ << >> \in V /\ \A k \in 1 .. n : texts[k] \in V
    BY LenProperties, ElementOfSeq
<1>2. \A k \in 1 .. n : \A x \in V : x \o Sep(k) \o texts[k] \in V
    BY <1>1, SepIn, ConcatProperties
<1>3. G \in [1 .. n -> [V -> V]]
    <2> HIDE DEF V, n
    <2>1. \A k \in 1 .. n : [x \in V |-> x \o Sep(k) \o texts[k]] \in [V -> V]
        BY <1>2
    <2> QED BY <2>1
<1>4. \A k \in 1 .. n : \A x \in V : G[k][x] = x \o Sep(k) \o texts[k]
    OBVIOUS
<1> HIDE DEF G, V, n
<1>5. PICK f \in [0 .. n -> V] : f[0] = << >> /\ \A k \in 1 .. n : f[k] = G[k][f[k - 1]]
    <2> DEFINE e == << >>
    <2>1. n \in Nat
        BY <1>1
    <2>2. e \in V
        BY <1>1
    <2> HIDE DEF e
    <2>3. \E f : Computes(f, V, e, n, G)
        BY ONLY <1>3, <2>1, <2>2, Recursion, Zenon
    <2> QED BY <2>3 DEF e, Computes
<1>6. \A k \in 1 .. n : f[k] = f[k - 1] \o Sep(k) \o texts[k]
    <2>1. \A k \in 1 .. n : k - 1 \in 0 .. n
        BY <1>1
    <2>2. \A k \in 1 .. n : f[k - 1] \in V
        BY <2>1
    <2> QED BY <1>4, <1>5, <2>2
<1>7. \A k \in 0 .. n : f[k] = IF k = 0 THEN << >> ELSE f[k - 1] \o Sep(k) \o texts[k]
    <2>1. \A k \in 0 .. n : k # 0 => k \in 1 .. n
        BY <1>1
    <2> QED BY <1>5, <1>6, <2>1
<1>8. f = [k \in 0 .. n |-> IF k = 0 THEN << >> ELSE f[k - 1] \o Sep(k) \o texts[k]]
    BY <1>5, <1>7
<1> DEFINE h == CHOOSE g : g = [k \in 0 .. n |-> IF k = 0 THEN << >> ELSE g[k - 1] \o Sep(k) \o texts[k]]
<1>9. h = [k \in 0 .. n |-> IF k = 0 THEN << >> ELSE h[k - 1] \o Sep(k) \o texts[k]]
    BY <1>8, Zenon
<1>10. Joins(texts) = h
    BY DEF Joins, Sep, n
<1> HIDE DEF h
<1>11. h[0] = << >> /\ \A k \in 1 .. n : h[k] = h[k - 1] \o Sep(k) \o texts[k]
    <2>1. 0 \in 0 .. n /\ \A k \in 1 .. n : k \in 0 .. n /\ k # 0
        BY <1>1
    <2> QED BY <1>9, <2>1
<1> DEFINE D == {k \in 0 .. n : h[k] # f[k]}
<1>12. D = {}
    <2>1. SUFFICES ASSUME D # {} PROVE FALSE
        OBVIOUS
    <2>2. PICK k \in D : \A j \in D : k <= j
        <3>1. D \in SUBSET Nat
            BY <1>1
        <3> QED BY <2>1, <3>1, LeastNat
    <2>3. k \in 0 .. n /\ h[k] # f[k]
        OBVIOUS
    <2>4. k # 0
        BY <1>5, <1>11, <2>3
    <2>5. k \in 1 .. n /\ k - 1 \in 0 .. n /\ ~(k <= k - 1)
        BY <1>1, <2>3, <2>4
    <2>6. h[k - 1] = f[k - 1]
        BY <2>2, <2>5
    <2> QED BY <1>6, <1>11, <2>3, <2>5, <2>6
<1>13. \A k \in 0 .. n : h[k] \in V
    BY <1>12
<1> QED BY <1>10, <1>11, <1>13 DEF n, V

\* The text of c in memory m where room more containers may open, with path those around
\* it, and f the texts for less room.
TextIn(m, f, room, path, c) ==
    IF c.kind \notin ContainerKinds THEN <<Token[c.kind]>>
    ELSE IF c.ptr = 0 \/ room = 0 \/ \E k \in DOMAIN path : path[k] = Id(c)
    THEN <<"null">>
    ELSE Bracketed(c.kind, Joined(ItemTexts(m, c, f[room - 1][Append(path, Id(c))])))

LevelIn(m, f, room) == [path \in Seq(Ids) |-> [c \in Values |-> TextIn(m, f, room, path, c)]]

\* The trees satisfy the equation that defines them.
LEMMA TreesAre ==
    ASSUME NEW m
    PROVE  \A room \in 0 .. MaxDepth : \A path \in Seq(Ids) : \A c \in Values :
               Trees(m)[room][path][c] = TextIn(m, Trees(m), room, path, c)
<1> DEFINE Solves(f, n) == f = [k \in 0 .. n |-> LevelIn(m, f, k)]
           D == {n \in Nat : ~ \E f : Solves(f, n)}
<1>0. ASSUME NEW f, NEW g, NEW k \in Nat, k # 0 => f[k - 1] = g[k - 1]
      PROVE  LevelIn(m, f, k) = LevelIn(m, g, k)
    <2>1. ASSUME NEW path, NEW c PROVE TextIn(m, f, k, path, c) = TextIn(m, g, k, path, c)
        BY <1>0 DEF TextIn
    <2> QED BY <2>1 DEF LevelIn
<1>1. D = {}
    <2>1. SUFFICES ASSUME D # {} PROVE FALSE
        OBVIOUS
    <2>2. PICK n \in D : \A j \in D : n <= j
        <3>1. D \in SUBSET Nat
            OBVIOUS
        <3> QED BY <2>1, <3>1, LeastNat
    <2>3. n \in Nat /\ ~ \E f : Solves(f, n)
        OBVIOUS
    <2>4. \E f : \A k \in 0 .. n - 1 : f[k] = LevelIn(m, f, k)
        <3>1. CASE n = 0
            <4>1. 0 .. n - 1 = {}
                BY <3>1
            <4> QED BY <4>1
        <3>2. CASE n # 0
            <4>1. n - 1 \in Nat /\ ~(n <= n - 1)
                BY <2>3, <3>2
            <4>2. PICK f : Solves(f, n - 1)
                BY <2>2, <4>1
            <4> QED BY <4>2
        <3> QED BY <3>1, <3>2
    <2>5. PICK f : \A k \in 0 .. n - 1 : f[k] = LevelIn(m, f, k)
        BY <2>4
    <2> DEFINE g == [k \in 0 .. n |-> IF k = n THEN LevelIn(m, f, n) ELSE f[k]]
    <2>6. \A k \in 0 .. n - 1 : g[k] = f[k]
        BY <2>3
    <2>7. ASSUME NEW k \in 0 .. n PROVE g[k] = LevelIn(m, g, k)
        <3>1. k \in Nat /\ (k # 0 => k - 1 \in 0 .. n - 1)
            BY <2>3
        <3>2. k # 0 => f[k - 1] = g[k - 1]
            BY <2>6, <3>1
        <3>3. g[k] = LevelIn(m, f, k)
            BY <2>3, <2>5
        <3> HIDE DEF g
        <3> QED BY <1>0, <3>1, <3>2, <3>3
    <2>8. g = [k \in 0 .. n |-> g[k]]
        OBVIOUS
    <2>9. Solves(g, n)
        <3> HIDE DEF g
        <3> QED BY <2>7, <2>8
    <2> QED BY <2>3, <2>9
<1>2. \E f : f = [k \in 0 .. MaxDepth |-> LevelIn(m, f, k)]
    BY <1>1, BoundsAssumption
<1> HIDE DEF D, Solves
<1> DEFINE h == CHOOSE f : f = [k \in 0 .. MaxDepth |-> LevelIn(m, f, k)]
<1>3. h = [k \in 0 .. MaxDepth |-> LevelIn(m, h, k)]
    BY <1>2, Zenon
<1>4. Trees(m) = h
    BY DEF Trees, LevelIn, TextIn, Identity, Id
<1> HIDE DEF h
<1>5. \A k \in 0 .. MaxDepth : h[k] = LevelIn(m, h, k)
    BY <1>3
<1>6. ASSUME NEW room \in 0 .. MaxDepth, NEW path \in Seq(Ids), NEW c \in Values
      PROVE  h[room][path][c] = TextIn(m, h, room, path, c)
    <2>1. h[room] = LevelIn(m, h, room)
        BY <1>5
    <2>2. LevelIn(m, h, room)[path] = [x \in Values |-> TextIn(m, h, room, path, x)]
        BY Zenon DEF LevelIn
    <2>3. h[room][path][c] = [x \in Values |-> TextIn(m, h, room, path, x)][c]
        BY <2>1, <2>2, Zenon
    <2> QED BY <2>3, Zenon
<1> QED BY <1>4, <1>6

-----------------------------------------------------------------------------
(* The items of a container.                                               *)

KeyAt(m, c, i)  == SortedKeys(DOMAIN m[c.ptr])[i]
ItemOf(m, c, i) == m[c.ptr][IF c.kind = "object" THEN KeyAt(m, c, i) ELSE i]
KeyText(m, c, i) == IF c.kind = "object" THEN <<Names[Reads[KeyAt(m, c, i)]], "colon">> ELSE << >>
Count(m, c)     == IF c.kind = "object" THEN Len(SortedKeys(DOMAIN m[c.ptr])) ELSE c.length

\* A container of the memory has items in the memory, and each is written behind its key.
LEMMA ItemsAre ==
    ASSUME NEW m \in Memories, NEW c, InMemory(m, c), c.kind \in ContainerKinds, c.ptr # 0,
           NEW inside, \A x : InMemory(m, x) => inside[x] \in Seq(Texts)
    PROVE  /\ Count(m, c) \in Nat
           /\ ItemTexts(m, c, inside) \in Seq(Seq(Texts))
           /\ Len(ItemTexts(m, c, inside)) = Count(m, c)
           /\ \A i \in 1 .. Count(m, c) :
                  /\ InMemory(m, ItemOf(m, c, i)) /\ KeyText(m, c, i) \in Seq(Texts)
                  /\ ItemTexts(m, c, inside)[i] = KeyText(m, c, i) \o inside[ItemOf(m, c, i)]
<1> DEFINE S == DOMAIN m[c.ptr]
           s == SortedKeys(S)
           items == ItemTexts(m, c, inside)
<1>1. c \in Values /\ c.ptr \in Pointers /\ c.length \in Nat
    BY DEF InMemory, Values
<1>2. \A x \in S : InMemory(m, m[c.ptr][x])
    BY <1>1, MemoriesAssumption
<1>3. CASE c.kind = "object"
    <2>1. IsFiniteSet(S) /\ S \in SUBSET Keys
        BY <1>3 DEF InMemory
    <2>2. s \in Seq(S) /\ s = Named(S)
        BY <2>1, SortedKeysIn, NamedAre
    <2> DEFINE n == Len(s)
    <2>3. n \in Nat /\ DOMAIN s = 1 .. n /\ \A i \in 1 .. n : s[i] \in S
        BY <2>2, LenProperties, ElementOfSeq
    <2>4. Count(m, c) = n /\ \A i : /\ ItemOf(m, c, i) = m[c.ptr][s[i]]
                                    /\ KeyText(m, c, i) = <<Names[Reads[s[i]]], "colon">>
        BY <1>3 DEF Count, ItemOf, KeyText, KeyAt
    <2>5. items = [i \in DOMAIN s |-> <<Names[Reads[s[i]]], "colon">> \o inside[m[c.ptr][s[i]]]]
        <3>1. items = [i \in DOMAIN Named(S) |->
                          <<Names[Reads[Named(S)[i]]], "colon">> \o inside[m[c.ptr][Named(S)[i]]]]
            BY <1>3 DEF ItemTexts
        <3> HIDE DEF s, items
        <3> QED BY <2>2, <3>1
    <2>6. \A k \in S : <<Names[Reads[k]], "colon">> \in Seq(Texts)
        <3>1. "colon" \in Texts /\ \A k \in Keys : Names[Reads[k]] \in Texts
            BY KeysAssumption DEF Texts
        <3> QED BY <2>1, <3>1
    <2> HIDE DEF s, items, S, n
    <2>7. \A i \in 1 .. n : items[i] = <<Names[Reads[s[i]]], "colon">> \o inside[m[c.ptr][s[i]]]
        BY <2>3, <2>5
    <2>8. \A i \in 1 .. n : InMemory(m, m[c.ptr][s[i]]) /\ inside[m[c.ptr][s[i]]] \in Seq(Texts)
        BY <1>2, <2>3
    <2>9. ASSUME NEW i \in 1 .. n PROVE items[i] \in Seq(Texts)
        <3> DEFINE x == <<Names[Reads[s[i]]], "colon">>  y == inside[m[c.ptr][s[i]]]
        <3>1. s[i] \in S
            BY <2>3
        <3>2. x \in Seq(Texts) /\ y \in Seq(Texts) /\ items[i] = x \o y
            BY <2>6, <2>7, <2>8, <3>1
        <3> HIDE DEF x, y
        <3> QED BY ONLY <3>2, ConcatProperties
    <2>10. items \in Seq(Seq(Texts)) /\ Len(items) = n
        <3>1. items = [i \in 1 .. n |-> items[i]]
            BY <2>3, <2>5
        <3>2. items \in [1 .. n -> Seq(Texts)]
            BY <2>9, <3>1
        <3> QED BY <2>3, <3>2, SeqDef, LenProperties
    <2>11. ASSUME NEW i \in 1 .. n
           PROVE  /\ InMemory(m, ItemOf(m, c, i)) /\ KeyText(m, c, i) \in Seq(Texts)
                  /\ items[i] = KeyText(m, c, i) \o inside[ItemOf(m, c, i)]
        <3>1. s[i] \in S /\ InMemory(m, m[c.ptr][s[i]])
            BY <2>3, <2>8
        <3>2. <<Names[Reads[s[i]]], "colon">> \in Seq(Texts)
            BY <2>6, <3>1
        <3>3. ItemOf(m, c, i) = m[c.ptr][s[i]] /\ KeyText(m, c, i) = <<Names[Reads[s[i]]], "colon">>
            BY ONLY <2>4
        <3>4. items[i] = <<Names[Reads[s[i]]], "colon">> \o inside[m[c.ptr][s[i]]]
            BY ONLY <2>7, i \in 1 .. n
        <3> QED BY ONLY <3>1, <3>2, <3>3, <3>4, Zenon
    <2> QED BY <2>3, <2>4, <2>10, <2>11 DEF items
<1>4. CASE c.kind # "object"
    <2> DEFINE n == c.length
    <2>1. n \in Nat /\ 1 .. n \subseteq S
        BY <1>1, <1>4 DEF InMemory, ContainerKinds
    <2>2. Count(m, c) = n /\ \A i : ItemOf(m, c, i) = m[c.ptr][i] /\ KeyText(m, c, i) = << >>
        BY <1>4 DEF Count, ItemOf, KeyText, KeyAt
    <2>3. items = [i \in 1 .. n |-> inside[m[c.ptr][i]]]
        BY <1>4 DEF ItemTexts
    <2> HIDE DEF items, S, n
    <2>4. \A i \in 1 .. n : InMemory(m, m[c.ptr][i]) /\ inside[m[c.ptr][i]] \in Seq(Texts)
        BY <1>2, <2>1
    <2>5. \A i \in 1 .. n : items[i] = inside[m[c.ptr][i]]
        BY <2>3
    <2>6. items \in Seq(Seq(Texts)) /\ Len(items) = n
        <3>1. items = [i \in 1 .. n |-> items[i]]
            BY <2>3
        <3>2. items \in [1 .. n -> Seq(Texts)]
            BY <2>4, <2>5, <3>1
        <3> QED BY <2>1, <3>2, SeqDef, LenProperties
    <2>7. \A i \in 1 .. n : items[i] = << >> \o inside[m[c.ptr][i]]
        BY <2>4, <2>5, ConcatEmptySeq
    <2>8. << >> \in Seq(Texts)
        OBVIOUS
    <2> QED BY <2>1, <2>2, <2>4, <2>6, <2>7, <2>8 DEF items
<1> QED BY <1>3, <1>4

\* The trees of the values of a memory are texts.
LEMMA TreesTyped ==
    ASSUME NEW m \in Memories, NEW room \in 0 .. MaxDepth, NEW path \in Seq(Ids),
           NEW c, InMemory(m, c)
    PROVE  Trees(m)[room][path][c] \in Seq(Texts)
<1> DEFINE T == Trees(m)
           D == {r \in 0 .. MaxDepth :
                    ~ \A p \in Seq(Ids) : \A x : InMemory(m, x) => T[r][p][x] \in Seq(Texts)}
<1>0. /\ "null" \in Texts /\ "scalar" \in Texts
      /\ \A k \in ContainerKinds : Opener[k] \in Texts /\ Closer[k] \in Texts
    BY DEF Texts, ContainerKinds, Opener, Closer
<1>1. D = {}
    <2>1. SUFFICES ASSUME D # {} PROVE FALSE
        OBVIOUS
    <2>2. PICK r \in D : \A j \in D : r <= j
        <3>1. D \in SUBSET Nat
            BY BoundsAssumption
        <3> QED BY <2>1, <3>1, LeastNat
    <2>3. PICK p \in Seq(Ids) : \E x : InMemory(m, x) /\ T[r][p][x] \notin Seq(Texts)
        OBVIOUS
    <2>x. PICK x : InMemory(m, x) /\ T[r][p][x] \notin Seq(Texts)
        BY <2>3
    <2>4. r \in 0 .. MaxDepth /\ MaxDepth \in Nat
        BY BoundsAssumption
    <2>5. x \in Values
        BY <2>x DEF InMemory
    <2> HIDE DEF T
    <2>6. T[r][p][x] = TextIn(m, T, r, p, x)
        BY <2>4, <2>5, TreesAre DEF T
    <2>7. CASE x.kind \notin ContainerKinds
        <3>1. Token[x.kind] \in Texts
            BY <1>0, <2>5, <2>7 DEF Values, Token, ContainerKinds
        <3> QED BY <2>x, <2>6, <2>7, <3>1 DEF TextIn
    <2>8. CASE x.kind \in ContainerKinds /\ (x.ptr = 0 \/ r = 0 \/ \E k \in DOMAIN p : p[k] = Id(x))
        BY <1>0, <2>x, <2>6, <2>8 DEF TextIn
    <2>9. CASE x.kind \in ContainerKinds /\ ~(x.ptr = 0 \/ r = 0 \/ \E k \in DOMAIN p : p[k] = Id(x))
        <3> DEFINE q == Append(p, Id(x))
                   f == T[r - 1][q]
                   items == ItemTexts(m, x, f)
        <3>1. Id(x) \in Ids
            BY <2>5, <2>9 DEF Id, Ids, Values
        <3>2. q \in Seq(Ids)
            BY <3>1
        <3>3. r - 1 \in 0 .. MaxDepth /\ ~(r <= r - 1)
            BY <2>4, <2>9
        <3>4. \A y : InMemory(m, y) => T[r - 1][q][y] \in Seq(Texts)
            <4> HIDE DEF q
            <4> QED BY <2>2, <3>2, <3>3
        <3>5. items \in Seq(Seq(Texts)) /\ Len(items) \in Nat
            <4>1. x.kind \in ContainerKinds /\ x.ptr # 0
                BY <2>9
            <4>2. \A y : InMemory(m, y) => f[y] \in Seq(Texts)
                BY <3>4
            <4> HIDE DEF f
            <4>3. items \in Seq(Seq(Texts))
                BY <2>x, <4>1, <4>2, ItemsAre
            <4> QED BY <4>3, LenProperties
        <3>6. Len(items) \in 0 .. Len(items)
            BY <3>5
        <3>7. Joined(items) \in Seq(Texts)
            <4> HIDE DEF items
            <4> QED BY <3>5, <3>6, JoinsAre DEF Joined
        <3>8. T[r][p][x] = Bracketed(x.kind, Joined(items))
            BY <2>6, <2>9 DEF TextIn
        <3> HIDE DEF items
        <3>9. T[r][p][x] \in Seq(Texts)
            <4>1. <<Opener[x.kind]>> \in Seq(Texts) /\ <<Closer[x.kind]>> \in Seq(Texts)
                BY <1>0, <2>9
            <4> QED BY <3>7, <3>8, <4>1, ConcatProperties DEF Bracketed
        <3> QED BY <2>x, <3>9
    <2> QED BY <2>7, <2>8, <2>9
<1>2. room \notin D
    BY <1>1
<1> QED BY <1>2

-----------------------------------------------------------------------------
(* What was written of the open containers, by the tree.                   *)

\* The containers around the value that is entered within the first b frames, its text
\* there, and the texts of the items of the k-th container.
Around(o, b)      == [j \in 1 .. b |-> Id(o[j].value)]
TextAt(m, o, b, c) == Trees(m)[MaxDepth - b][Around(o, b)][c]
ItemsAt(m, o, k)  == ItemTexts(m, o[k].value, Trees(m)[MaxDepth - k][Around(o, k)])

\* The k-th container to the end of its i-th item.
Partial(m, o, k, i) == <<Opener[o[k].value.kind]>> \o Joins(ItemsAt(m, o, k))[i]

LEMMA AroundIn ==
    ASSUME NEW o \in Seq(Frames), NEW b \in 0 .. Len(o)
    PROVE  Around(o, b) \in Seq(Ids)
<1>1. Len(o) \in Nat
    BY LenProperties
<1>2. \A j \in 1 .. b : Id(o[j].value) \in Ids
    <2>1. ASSUME NEW j \in 1 .. b PROVE Id(o[j].value) \in Ids
        <3>1. o[j] \in Frames
            BY <1>1, ElementOfSeq
        <3> QED BY <3>1 DEF Frames, Values, Id, Ids
    <2> QED BY <2>1
<1>3. Around(o, b) \in [1 .. b -> Ids] /\ b \in Nat
    BY <1>1, <1>2 DEF Around
<1> QED BY <1>3, SeqDef

Regrouped(r, s, t, u, w) == r \o (s \o t \o (u \o w)) = (r \o s) \o ((t \o u) \o w)

Moved(r, s, t) == (r \o s) \o t = r \o (s \o t)

\* Where brackets may be moved.
LEMMA Associative ==
    ASSUME NEW r \in Seq(Texts), NEW s \in Seq(Texts), NEW t \in Seq(Texts)
    PROVE  Moved(r, s, t)
BY ConcatAssociative DEF Moved

LEMMA Reassociated ==
    ASSUME NEW r \in Seq(Texts), NEW s \in Seq(Texts), NEW t \in Seq(Texts),
           NEW u \in Seq(Texts), NEW w \in Seq(Texts)
    PROVE  Regrouped(r, s, t, u, w)
<1> DEFINE x == u \o w  y == t \o x
<1>1. x \in Seq(Texts)
    BY ConcatProperties
<1>2. Moved(t, u, w)
    BY Associative
<1> HIDE DEF x
<1>3. y \in Seq(Texts)
    BY <1>1, ConcatProperties
<1>4. Moved(s, t, x)
    BY <1>1, Associative
<1> HIDE DEF y
<1>5. Moved(r, s, y)
    BY <1>3, Associative
<1>6. r \o (s \o t \o x) = (r \o s) \o ((t \o u) \o w)
    <2>1. (t \o u) \o w = y
        BY <1>2, Zenon DEF Moved, x, y
    <2>2. s \o t \o x = s \o y
        BY <1>4, Zenon DEF Moved, y
    <2> QED BY <1>5, <2>1, <2>2, Zenon DEF Moved
<1> QED BY <1>6, Zenon DEF x, Regrouped

\* An item more is a comma, if one was before, its key and its text.
LEMMA PartialIs ==
    ASSUME NEW m \in Memories, NEW o \in Seq(Frames), Len(o) <= MaxDepth, NEW k \in 1 .. Len(o),
           InMemory(m, o[k].value)
    PROVE  /\ Count(m, o[k].value) \in Nat
           /\ Partial(m, o, k, 0) = <<Opener[o[k].value.kind]>>
           /\ \A i \in 0 .. Count(m, o[k].value) : Partial(m, o, k, i) \in Seq(Texts)
           /\ \A i \in 1 .. Count(m, o[k].value) :
                  /\ InMemory(m, ItemOf(m, o[k].value, i))
                  /\ KeyText(m, o[k].value, i) \in Seq(Texts)
                  /\ TextAt(m, o, k, ItemOf(m, o[k].value, i)) \in Seq(Texts)
                  /\ Partial(m, o, k, i) = Partial(m, o, k, i - 1) \o
                         ((Sep(i) \o KeyText(m, o[k].value, i)) \o TextAt(m, o, k, ItemOf(m, o[k].value, i)))
<1> DEFINE c == o[k].value
           inside == Trees(m)[MaxDepth - k][Around(o, k)]
           items == ItemTexts(m, c, inside)
           n == Count(m, c)
           J == Joins(items)
           first == <<Opener[c.kind]>>
<1>1. Len(o) \in Nat /\ MaxDepth \in Nat /\ o[k] \in Frames
    BY LenProperties, ElementOfSeq, BoundsAssumption
<1>2. c \in Values /\ c.kind \in ContainerKinds /\ c.ptr # 0
    BY <1>1 DEF Frames
<1>3. MaxDepth - k \in 0 .. MaxDepth /\ Around(o, k) \in Seq(Ids)
    BY <1>1, AroundIn
<1>4. \A x : InMemory(m, x) => inside[x] \in Seq(Texts)
    BY <1>3, TreesTyped
<1>5. first \in Seq(Texts)
    <2>1. Opener[c.kind] \in Texts
        BY <1>2, TextsIn
    <2> QED BY <2>1
<1>6. \A i : Partial(m, o, k, i) = first \o J[i]
    BY DEF Partial, ItemsAt
<1>7. \A x : TextAt(m, o, k, x) = inside[x]
    BY DEF TextAt
<1> HIDE DEF c, inside, first
<1>8. /\ n \in Nat /\ items \in Seq(Seq(Texts)) /\ Len(items) = n
      /\ \A i \in 1 .. n : /\ InMemory(m, ItemOf(m, c, i)) /\ KeyText(m, c, i) \in Seq(Texts)
                           /\ items[i] = KeyText(m, c, i) \o inside[ItemOf(m, c, i)]
    <2>1. InMemory(m, c)
        BY DEF c
    <2> QED BY <1>2, <1>4, <2>1, ItemsAre
<1> HIDE DEF items, n
<1>9. /\ J[0] = << >> /\ \A i \in 0 .. n : J[i] \in Seq(Texts)
      /\ \A i \in 1 .. n : J[i] = J[i - 1] \o Sep(i) \o items[i]
    BY <1>8, JoinsAre
<1> HIDE DEF J
<1>10. Partial(m, o, k, 0) = first
    BY <1>5, <1>6, <1>9, ConcatEmptySeq
<1>11. ASSUME NEW i \in 0 .. n PROVE Partial(m, o, k, i) \in Seq(Texts)
    <2>1. J[i] \in Seq(Texts)
        BY <1>9
    <2>2. first \o J[i] \in Seq(Texts)
        BY <1>5, <2>1, ConcatProperties
    <2> QED BY <1>6, <2>2
<1>12. ASSUME NEW i \in 1 .. n
       PROVE  /\ inside[ItemOf(m, c, i)] \in Seq(Texts)
              /\ first \o J[i] = (first \o J[i - 1]) \o ((Sep(i) \o KeyText(m, c, i)) \o inside[ItemOf(m, c, i)])
    <2> DEFINE x == KeyText(m, c, i)
               t == inside[ItemOf(m, c, i)]
               g == J[i - 1]
               e == Sep(i)
    <2>1. t \in Seq(Texts) /\ x \in Seq(Texts) /\ e \in Seq(Texts)
        BY <1>4, <1>8, SepIn
    <2>2. i - 1 \in 0 .. n
        BY <1>8
    <2>3. g \in Seq(Texts)
        BY <1>9, <2>2
    <2>4. J[i] = g \o e \o (x \o t)
        BY <1>8, <1>9
    <2> HIDE DEF x, t, g, e
    <2>5. first \o (g \o e \o (x \o t)) = (first \o g) \o ((e \o x) \o t)
        <3>1. Regrouped(first, g, e, x, t)
            BY <1>5, <2>1, <2>3, Reassociated
        <3> QED BY <3>1 DEF Regrouped
    <2> QED BY <2>1, <2>4, <2>5 DEF x, t, g, e
<1> QED BY <1>6, <1>7, <1>8, <1>10, <1>11, <1>12 DEF c, first, n

\* All its items and its closer are the text of a container, if those around it differ.
LEMMA WholeIs ==
    ASSUME NEW m \in Memories, NEW o \in Seq(Frames), Len(o) <= MaxDepth, NEW k \in 1 .. Len(o),
           InMemory(m, o[k].value), \A j \in 1 .. k - 1 : Id(o[j].value) # Id(o[k].value)
    PROVE  TextAt(m, o, k - 1, o[k].value)
               = Partial(m, o, k, Count(m, o[k].value)) \o <<Closer[o[k].value.kind]>>
<1> DEFINE c == o[k].value
           p == Around(o, k - 1)
           room == MaxDepth - (k - 1)
           items == ItemsAt(m, o, k)
<1>1. Len(o) \in Nat /\ MaxDepth \in Nat /\ o[k] \in Frames
    BY LenProperties, ElementOfSeq, BoundsAssumption
<1>2. c \in Values /\ c.kind \in ContainerKinds /\ c.ptr # 0
    BY <1>1 DEF Frames
<1>3. /\ room \in 0 .. MaxDepth /\ room # 0 /\ room - 1 = MaxDepth - k /\ k - 1 \in 0 .. Len(o)
      /\ k - 1 \in Nat
    BY <1>1
<1>4. p \in Seq(Ids)
    BY <1>3, AroundIn
<1>5. Id(c) \in Ids
    BY <1>2 DEF Id, Ids, Values
<1>6. Append(p, Id(c)) = Around(o, k)
    <2>1. p = [j \in 1 .. k - 1 |-> Id(o[j].value)] /\ Len(p) = k - 1
        BY <1>3, <1>4, LenProperties DEF Around
    <2>2. Append(p, Id(c)) = [j \in 1 .. k |-> IF j = k THEN Id(c) ELSE p[j]]
        <3>1. /\ Append(p, Id(c)) \in Seq(Ids) /\ Len(Append(p, Id(c))) = k
              /\ \A j \in 1 .. k - 1 : Append(p, Id(c))[j] = p[j]
              /\ Append(p, Id(c))[k] = Id(c)
            BY <1>3, <1>4, <1>5, <2>1, AppendProperties
        <3> DEFINE q == Append(p, Id(c))
        <3>2. q = [j \in 1 .. k |-> q[j]]
            BY <3>1, LenProperties
        <3>3. \A j \in 1 .. k : j # k => j \in 1 .. k - 1
            BY <1>1
        <3> HIDE DEF p
        <3> QED BY <3>1, <3>2, <3>3
    <2>3. \A j \in 1 .. k : j # k => p[j] = Id(o[j].value)
        BY <1>1, <2>1
    <2> HIDE DEF p
    <2> QED BY <2>2, <2>3 DEF Around
<1>7. ~\E j \in DOMAIN p : p[j] = Id(c)
    BY DEF Around
<1>8. TextIn(m, Trees(m), room, p, c) = Bracketed(c.kind, Joined(items))
    <2>1. TextIn(m, Trees(m), room, p, c)
              = Bracketed(c.kind, Joined(ItemTexts(m, c, Trees(m)[room - 1][Append(p, Id(c))])))
        <3> HIDE DEF p, room, c
        <3> QED BY <1>2, <1>3, <1>7 DEF TextIn
    <2>2. items = ItemTexts(m, c, Trees(m)[MaxDepth - k][Around(o, k)])
        BY DEF ItemsAt
    <2> HIDE DEF p, room, c, items
    <2> QED BY <1>3, <1>6, <2>1, <2>2
<1>9. Trees(m)[room][p][c] = TextIn(m, Trees(m), room, p, c)
    <2> HIDE DEF p, room, c
    <2> QED BY <1>2, <1>3, <1>4, TreesAre
<1>10. items \in Seq(Seq(Texts)) /\ Len(items) = Count(m, c)
    <2> DEFINE inside == Trees(m)[MaxDepth - k][Around(o, k)]
    <2>1. MaxDepth - k \in 0 .. MaxDepth /\ Around(o, k) \in Seq(Ids)
        BY <1>1, AroundIn
    <2>2. \A x : InMemory(m, x) => inside[x] \in Seq(Texts)
        BY <2>1, TreesTyped
    <2>3. items = ItemTexts(m, c, inside)
        BY DEF ItemsAt
    <2>4. InMemory(m, c)
        OBVIOUS
    <2> HIDE DEF inside, c, items
    <2>5. ItemTexts(m, c, inside) \in Seq(Seq(Texts)) /\ Len(ItemTexts(m, c, inside)) = Count(m, c)
        BY <1>2, <2>2, <2>4, ItemsAre
    <2> QED BY <2>3, <2>5
<1>11. Partial(m, o, k, Count(m, c)) = <<Opener[c.kind]>> \o Joined(items)
    BY <1>10 DEF Partial, Joined
<1>12. TextAt(m, o, k - 1, c) = Trees(m)[room][p][c]
    BY DEF TextAt
<1> HIDE DEF c, p, room, items
<1> QED BY <1>8, <1>9, <1>11, <1>12 DEF Bracketed, c

\* The value that is entered within the first b frames.
Turn(m, r, o, b) == IF b = 0 THEN r ELSE ItemOf(m, o[b].value, o[b].next)

\* The k-th container up to its item that is begun.
UpToItem(m, o, k) ==
    Partial(m, o, k, o[k].next - 1) \o (Sep(o[k].next) \o KeyText(m, o[k].value, o[k].next))

\* pre[k] is what lies before the k-th container, to the item begun in the b-th.
Nested(m, o, pre, b) ==
    /\ pre[1] = << >>
    /\ \A k \in 1 .. b : /\ o[k].next \in 1 .. Count(m, o[k].value)
                         /\ pre[k + 1] = pre[k] \o UpToItem(m, o, k)

\* All that is written once the item begun in the b-th container ends.
AfterItem(m, r, o, pre, b) ==
    IF b = 0 THEN Tree(m, r) ELSE pre[b] \o Partial(m, o, b, o[b].next)

\* With its text the item that is begun is written.
LEMMA ItemDone ==
    ASSUME NEW m \in Memories, NEW r, InMemory(m, r), NEW o \in Seq(Frames), Len(o) <= MaxDepth,
           \A k \in 1 .. Len(o) : InMemory(m, o[k].value), NEW b \in 0 .. Len(o),
           NEW pre \in [Nat -> Seq(Texts)], Nested(m, o, pre, b)
    PROVE  pre[b + 1] \o TextAt(m, o, b, Turn(m, r, o, b)) = AfterItem(m, r, o, pre, b)
<1>1. Len(o) \in Nat /\ MaxDepth \in Nat /\ b \in Nat
    BY LenProperties, BoundsAssumption
<1>2. CASE b = 0
    <2>1. pre[b + 1] = << >>
        BY <1>2 DEF Nested
    <2>2. << >> \in Seq(Ids) /\ MaxDepth \in 0 .. MaxDepth
        BY <1>1
    <2>3. Tree(m, r) \in Seq(Texts)
        BY <2>2, TreesTyped DEF Tree
    <2>4. TextAt(m, o, b, Turn(m, r, o, b)) = Tree(m, r)
        <3>1. Around(o, b) = << >> /\ MaxDepth - b = MaxDepth
            BY <1>1, <1>2 DEF Around
        <3> QED BY <1>2, <3>1 DEF TextAt, Tree, Turn
    <2> QED BY <1>2, <2>1, <2>3, <2>4, ConcatEmptySeq DEF AfterItem
<1>3. CASE b # 0
    <2> DEFINE c == o[b].value
               i == o[b].next
               p == Partial(m, o, b, i - 1)
               e == Sep(i) \o KeyText(m, c, i)
               t == TextAt(m, o, b, ItemOf(m, c, i))
    <2>1. b \in 1 .. b /\ b \in 1 .. Len(o)
        <3>1. ASSUME NEW l \in Nat, NEW x \in 0 .. l, x # 0 PROVE x \in 1 .. x /\ x \in 1 .. l
            BY ONLY <3>1, SMT
        <3> QED BY <1>1, <1>3, <3>1
    <2>2. i \in 1 .. Count(m, c) /\ pre[b + 1] = pre[b] \o (p \o e)
        BY <2>1 DEF Nested, UpToItem
    <2>3. InMemory(m, c)
        BY <2>1
    <2>4. /\ Count(m, c) \in Nat
          /\ \A j \in 0 .. Count(m, c) : Partial(m, o, b, j) \in Seq(Texts)
          /\ KeyText(m, c, i) \in Seq(Texts) /\ t \in Seq(Texts)
          /\ Partial(m, o, b, i) = p \o (e \o t)
        BY <2>1, <2>2, <2>3, PartialIs
    <2>5. i - 1 \in 0 .. Count(m, c)
        <3>1. ASSUME NEW l \in Nat, NEW x \in 1 .. l PROVE x - 1 \in 0 .. l
            OBVIOUS
        <3>2. Count(m, c) \in Nat
            BY <2>4
        <3> HIDE DEF c, i
        <3> QED BY ONLY <2>2, <3>1, <3>2
    <2>6. p \in Seq(Texts) /\ e \in Seq(Texts) /\ pre[b] \in Seq(Texts)
        BY <1>1, <2>4, <2>5, SepIn, ConcatProperties
    <2>7. /\ TextAt(m, o, b, Turn(m, r, o, b)) = t
          /\ AfterItem(m, r, o, pre, b) = pre[b] \o Partial(m, o, b, i)
        BY <1>3 DEF Turn, AfterItem
    <2> DEFINE a == pre[b]
    <2> HIDE DEF p, e, t, a
    <2>8. (a \o (p \o e)) \o t = a \o (p \o (e \o t))
        <3> DEFINE q == p \o e
        <3>1. a \in Seq(Texts) /\ q \in Seq(Texts)
            BY <2>6, ConcatProperties DEF a
        <3>2. Moved(p, e, t)
            BY <2>4, <2>6, Associative
        <3> HIDE DEF q
        <3>3. Moved(a, q, t)
            BY <2>4, <3>1, Associative
        <3> QED BY <3>2, <3>3, Zenon DEF q, Moved
    <2> QED BY <2>2, <2>4, <2>7, <2>8, Zenon DEF a
<1> QED BY <1>2, <1>3

\* Only the values and the counts of the first b frames matter.
LEMMA Agreeing ==
    ASSUME NEW m, NEW r, NEW o, NEW p, NEW b \in Nat,
           \A k \in 1 .. b : o[k].value = p[k].value
    PROVE  /\ \A k \in 0 .. b : Around(o, k) = Around(p, k)
           /\ \A k \in 0 .. b : \A x : TextAt(m, o, k, x) = TextAt(m, p, k, x)
           /\ \A k \in 1 .. b : \A i : Partial(m, o, k, i) = Partial(m, p, k, i)
           /\ \A k \in 1 .. b : o[k].next = p[k].next => UpToItem(m, o, k) = UpToItem(m, p, k)
           /\ \A k \in 0 .. b : (k # 0 => o[k].next = p[k].next) =>
                  /\ Turn(m, r, o, k) = Turn(m, r, p, k)
                  /\ \A pre : AfterItem(m, r, o, pre, k) = AfterItem(m, r, p, pre, k)
<1>1. ASSUME NEW k \in 0 .. b PROVE Around(o, k) = Around(p, k)
    <2>1. \A j \in 1 .. k : o[j].value = p[j].value
        OBVIOUS
    <2> QED BY <2>1 DEF Around
<1>2. \A k \in 0 .. b : \A x : TextAt(m, o, k, x) = TextAt(m, p, k, x)
    BY <1>1 DEF TextAt
<1>3. \A k \in 1 .. b : k \in 0 .. b /\ o[k].value = p[k].value
    OBVIOUS
<1>4. \A k \in 1 .. b : \A i : Partial(m, o, k, i) = Partial(m, p, k, i)
    BY <1>1, <1>3 DEF Partial, ItemsAt
<1>5. \A k \in 1 .. b : o[k].next = p[k].next => UpToItem(m, o, k) = UpToItem(m, p, k)
    BY <1>3, <1>4 DEF UpToItem
<1>6. ASSUME NEW k \in 0 .. b, k # 0 => o[k].next = p[k].next
      PROVE  /\ Turn(m, r, o, k) = Turn(m, r, p, k)
             /\ \A pre : AfterItem(m, r, o, pre, k) = AfterItem(m, r, p, pre, k)
    <2>1. k # 0 => k \in 1 .. b
        OBVIOUS
    <2> QED BY <1>3, <1>4, <1>6, <2>1 DEF Turn, AfterItem
<1> QED BY <1>1, <1>2, <1>4, <1>5, <1>6

LEMMA NestedAgrees ==
    ASSUME NEW m, NEW o, NEW p, NEW b \in Nat, NEW n \in Int, n <= b,
           \A k \in 1 .. b : o[k].value = p[k].value,
           \A k \in 1 .. n : o[k].next = p[k].next,
           NEW pre, Nested(m, o, pre, n)
    PROVE  Nested(m, p, pre, n)
<1>1. \A k \in 1 .. n : k \in 1 .. b
    OBVIOUS
<1>2. \A k \in 1 .. n : UpToItem(m, o, k) = UpToItem(m, p, k)
    BY <1>1, Agreeing
<1> QED BY <1>1, <1>2 DEF Nested

\* Each frame is of the item begun in the one around it, and so is the value; a comma is
\* due where an item was written; and what is written are the containers to their items.
Enclosed(m, r, o) == \A k \in 1 .. Len(o) : o[k].value = Turn(m, r, o, k - 1)

Before(pre) ==
    LET n == Len(open)
    IN  /\ pc \in {"value", "search"} => Nested(memory, open, pre, n) /\ buf = pre[n + 1]
        /\ pc = "next" => /\ Nested(memory, open, pre, n - 1)
                          /\ buf = AfterItem(memory, root, open, pre, n)
        /\ pc = "done" => buf = Tree(memory, root)

Partway ==
    LET n == Len(open)
    IN  /\ Enclosed(memory, root, open)
        /\ pc \in {"value", "search"} => v = Turn(memory, root, open, n) /\ (n # 0 => needSep)
        /\ pc = "next" /\ n # 0 => (needSep <=> open[n].next # 0)
        /\ \E pre \in [Nat -> Seq(Texts)] : Before(pre)

\* The types that the steps need.
LEMMA Sized ==
    ASSUME IInv
    PROVE  /\ memory \in Memories /\ open \in Seq(Frames) /\ Len(open) <= MaxDepth
           /\ Len(open) \in Nat /\ DOMAIN open = 1 .. Len(open) /\ MaxDepth \in Nat
           /\ \A k \in 1 .. Len(open) : open[k] \in Frames /\ InMemory(memory, open[k].value)
           /\ InMemory(memory, v) /\ v \in Values /\ buf \in Seq(Texts)
BY LenProperties, ElementOfSeq, BoundsAssumption DEF IInv, Typed, PathDistinct, InMemory

\* The root lies in the memory, for it is the value or the outermost container.
LEMMA RootIn ==
    ASSUME IInv, Partway, pc \in {"value", "search"} \/ open # << >>
    PROVE  InMemory(memory, root)
<1>1. CASE open = << >>
    BY <1>1, Sized DEF Partway, Turn
<1>2. CASE open # << >>
    <2>1. Len(open) \in Nat \ {0}
        BY <1>2, InnermostIs
    <2>2. 1 \in 1 .. Len(open) /\ 1 - 1 = 0
        BY <2>1
    <2>3. open[1].value = root
        BY <2>2 DEF Partway, Enclosed, Turn
    <2> QED BY <2>2, <2>3, Sized
<1> QED BY <1>1, <1>2

\* A value that is one token is written.
LEMMA TokenTree ==
    ASSUME IInv, Partway, pc \in {"value", "search"}, NEW token \in Texts, Raw(token),
           TextAt(memory, open, Len(open), v) = <<token>>
    PROVE  Partway'
<1> DEFINE n == Len(open)
<1>1. /\ buf' = Append(buf, token) /\ pc' = "next"
      /\ UNCHANGED <<memory, root, v, open, needSep>>
    BY DEF Raw, encoder
<1>2. PICK pre \in [Nat -> Seq(Texts)] : Before(pre)
    BY DEF Partway
<1>3. Nested(memory, open, pre, n) /\ buf = pre[n + 1]
    BY <1>2 DEF Before
<1>4. /\ memory \in Memories /\ open \in Seq(Frames) /\ n <= MaxDepth /\ n \in Nat /\ n \in 0 .. n
      /\ \A k \in 1 .. n : InMemory(memory, open[k].value)
    BY Sized
<1>5. pre[n + 1] \o TextAt(memory, open, n, Turn(memory, root, open, n)) = AfterItem(memory, root, open, pre, n)
    BY <1>3, <1>4, RootIn, ItemDone
<1>6. buf' = AfterItem(memory, root, open, pre, n)
    <2>1. v = Turn(memory, root, open, n)
        BY DEF Partway
    <2>2. Append(buf, token) = buf \o <<token>>
        BY Sized, AppendIsConcat
    <2> QED BY <1>1, <1>3, <1>5, <2>1, <2>2
<1>7. Nested(memory, open, pre, n - 1)
    <2>1. 1 .. n - 1 \subseteq 1 .. n
        BY <1>4
    <2> QED BY <1>3, <2>1 DEF Nested
<1>8. n # 0 => needSep /\ open[n].next # 0
    <2>1. ASSUME n # 0 PROVE open[n].next # 0
        <3>1. n \in 1 .. n
            BY <1>4, <2>1
        <3>2. open[n].next \in 1 .. Count(memory, open[n].value)
            BY <1>3, <3>1 DEF Nested
        <3> QED BY <3>2
    <2> QED BY <2>1 DEF Partway
<1>9. Before(pre)'
    <2>1. Len(open') = n
        BY <1>1
    <2> HIDE DEF n
    <2> QED BY <1>1, <1>6, <1>7, <2>1 DEF Before, n
<1> QED BY <1>1, <1>8, <1>9 DEF Partway, Enclosed

\* A container is entered: its opener is written, and it has no item begun.
LEMMA PushTree ==
    ASSUME IInv, IInv', Partway, pc \in {"value", "search"}, v.kind \in ContainerKinds, v.ptr # 0, Push
    PROVE  Partway'
<1> DEFINE n == Len(open)
<1>1. /\ buf' = Append(buf, Opener[v.kind]) /\ needSep' = FALSE /\ pc' = "next"
      /\ UNCHANGED <<memory, root>>
    BY DEF Push
<1>2. /\ open' \in Seq(Frames) /\ Len(open') = n + 1
      /\ \A k \in 1 .. n : open'[k].value = open[k].value /\ open'[k].next = open[k].next
      /\ open'[n + 1].value = v /\ open'[n + 1].next = 0
    BY Pushed
<1>3. /\ n \in Nat /\ memory \in Memories /\ buf \in Seq(Texts) /\ v \in Values /\ InMemory(memory, v)
    BY Sized
<1>4. PICK pre \in [Nat -> Seq(Texts)] : Before(pre)
    BY DEF Partway
<1>5. Nested(memory, open, pre, n) /\ buf = pre[n + 1]
    BY <1>4 DEF Before
<1>6. Nested(memory, open', pre, n)
    <2>1. n \in Int /\ n <= n
        BY <1>3
    <2> QED BY <1>2, <1>3, <1>5, <2>1, NestedAgrees
<1>7. Len(open') <= MaxDepth
    <2>1. IInv' => (Len(open) <= MaxDepth)'
        BY DEF IInv, PathDistinct
    <2> QED BY <2>1
<1>8. Partial(memory, open', n + 1, 0) = <<Opener[v.kind]>>
    <2>1. n + 1 \in 1 .. Len(open')
        BY <1>2, <1>3
    <2> QED BY <1>2, <1>3, <1>7, <2>1, PartialIs
<1>9. buf' = AfterItem(memory, root, open', pre, n + 1)
    <2>1. AfterItem(memory, root, open', pre, n + 1) = pre[n + 1] \o Partial(memory, open', n + 1, 0)
        <3>1. n + 1 # 0
            BY <1>3
        <3> HIDE DEF n
        <3> QED BY <1>2, <3>1 DEF AfterItem
    <2>2. Opener[v.kind] \in Texts
        BY <1>3, TextsIn
    <2> QED BY <1>1, <1>3, <1>5, <1>8, <2>1, <2>2, AppendIsConcat
<1>10. \A k \in 0 .. n : Turn(memory, root, open', k) = Turn(memory, root, open, k)
    <2>1. \A k \in 0 .. n : k # 0 => k \in 1 .. n
        BY <1>3
    <2> QED BY <1>2, <1>3, <2>1, Agreeing
<1>11. Enclosed(memory, root, open')
    <2>1. ASSUME NEW k \in 1 .. n + 1 PROVE open'[k].value = Turn(memory, root, open', k - 1)
        <3>0. ASSUME NEW l \in Nat, NEW j \in 1 .. l + 1
              PROVE  (j \in 1 .. l \/ j = l + 1) /\ j - 1 \in 0 .. l
            OBVIOUS
        <3>1. k \in 1 .. n \/ k = n + 1
            BY <1>3, <3>0
        <3>2. k - 1 \in 0 .. n
            BY <1>3, <3>0
        <3>3. CASE k = n + 1
            <4>1. k - 1 = n /\ v = Turn(memory, root, open, n)
                BY <1>3, <3>3 DEF Partway
            <4> QED BY <1>2, <1>10, <3>2, <3>3, <4>1
        <3>4. CASE k \in 1 .. n
            BY <1>2, <1>10, <3>2, <3>4 DEF Partway, Enclosed
        <3> QED BY <3>1, <3>3, <3>4
    <2> QED BY <1>2, <2>1 DEF Enclosed
<1>12. Before(pre)'
    <2>1. Len(open') - 1 = n
        BY <1>2, <1>3
    <2> HIDE DEF n
    <2> QED BY <1>1, <1>2, <1>6, <1>9, <2>1 DEF Before
<1>13. Enclosed(memory, root, open)'
    BY <1>1, <1>11 DEF Enclosed
<1> QED BY <1>1, <1>2, <1>12, <1>13 DEF Partway

\* Where the innermost container is in its items, which end where the code says.
LEMMA Counted ==
    ASSUME IInv, open # << >>
    PROVE  LET f == Innermost
               n == Count(memory, f.value)
           IN  /\ n \in Nat /\ f.next \in 0 .. n
               /\ Exhausted(f) <=> f.next = n
               /\ f.value.kind = "object" /\ f.next # n =>
                      keys[f.firstKey + f.next + 1] = KeyAt(memory, f.value, f.next + 1)
<1> DEFINE f == Innermost
           n == Count(memory, f.value)
           s == SortedKeys(DOMAIN memory[f.value.ptr])
<1>1. /\ f \in Frames /\ InMemory(memory, f.value) /\ Len(keys) \in Nat
      /\ f.value.kind = "array" => f.next <= f.value.length
      /\ f.value.kind = "object" =>
             /\ f.firstKey + f.next <= Len(keys)
             /\ SubSeq(keys, f.firstKey + 1, Len(keys)) = s
    BY InnermostIs
<1>2. /\ f.value.kind \in ContainerKinds /\ f.value.length \in Nat
      /\ f.firstKey \in Nat /\ f.next \in Nat /\ keys \in Seq(Keys)
    BY <1>1 DEF Frames, Values, IInv, Typed
<1> HIDE DEF f, s
<1>3. CASE f.value.kind = "array"
    <2>1. n = f.value.length
        BY <1>3 DEF Count
    <2>2. Exhausted(f) <=> f.next = n
        BY <1>3, <2>1 DEF Exhausted
    <2>3. n \in Nat /\ f.next \in 0 .. n /\ f.value.kind # "object"
        BY <1>1, <1>2, <1>3, <2>1
    <2> QED BY <2>2, <2>3 DEF f
<1>4. CASE f.value.kind = "object"
    <2> DEFINE a == f.firstKey  x == f.next  e == Len(keys)
    <2>1. a \in Nat /\ x \in Nat /\ e \in Nat /\ a + x <= e
        BY <1>1, <1>2, <1>4
    <2>2. \A j \in a + 1 .. e : keys[j] \in Keys
        <3>1. \A j \in a + 1 .. e : j \in 1 .. Len(keys)
            BY <2>1
        <3> QED BY <1>2, <3>1, ElementOfSeq
    <2>3. n = Len(s)
        BY <1>4 DEF Count, s
    <2>4. Exhausted(f) <=> a + x = e
        BY <1>4 DEF Exhausted, ContainerKinds
    <2>5. SubSeq(keys, a + 1, e) = s
        BY <1>1, <1>4
    <2> HIDE DEF a, x, e, n
    <2>6. /\ Len(SubSeq(keys, a + 1, e)) = (IF a + 1 <= e THEN e - (a + 1) + 1 ELSE 0)
          /\ \A j \in 1 .. e - (a + 1) + 1 : SubSeq(keys, a + 1, e)[j] = keys[a + 1 + j - 1]
        <3>1. a + 1 \in Int /\ e \in Int
            BY <2>1
        <3> QED BY <2>2, <3>1, SubSeqProperties
    <2>7. n = e - a /\ n \in Nat
        <3>1. Len(s) = (IF a + 1 <= e THEN e - (a + 1) + 1 ELSE 0)
            BY <2>5, <2>6
        <3> QED BY <2>1, <2>3, <3>1
    <2>8. x \in 0 .. n /\ (Exhausted(f) <=> x = n)
        BY <2>1, <2>4, <2>7
    <2>9. x # n => keys[a + x + 1] = s[x + 1]
        <3>1. SUFFICES ASSUME x # n PROVE keys[a + x + 1] = s[x + 1]
            OBVIOUS
        <3>2. x + 1 \in 1 .. e - (a + 1) + 1 /\ a + 1 + (x + 1) - 1 = a + x + 1
            BY <2>1, <2>7, <2>8, <3>1
        <3>3. s[x + 1] = keys[a + 1 + (x + 1) - 1]
            BY <2>5, <2>6, <3>2
        <3> QED BY <3>2, <3>3
    <2> QED BY <2>7, <2>8, <2>9 DEF KeyAt, f, s, a, x, n
<1> QED BY <1>2, <1>3, <1>4 DEF ContainerKinds

LEMMA Onward ==
    ASSUME NEW l \in Nat, NEW x \in 0 .. l
    PROVE  /\ x # l => x + 1 \in 1 .. l
           /\ (x + 1) - 1 = x /\ x + 1 \in Nat /\ (x + 1 = 1 <=> x = 0)
OBVIOUS

\* An item of the innermost container is begun: its comma and its key are written.
LEMMA AdvanceTree ==
    ASSUME IInv, Partway, open # << >>, pc = "next",
           Innermost.next # Count(memory, Innermost.value),
           open' = [open EXCEPT ![Len(open)].next = Innermost.next + 1],
           UNCHANGED <<memory, root>>, pc' = "value", needSep' = TRUE,
           v' = ItemOf(memory, Innermost.value, Innermost.next + 1),
           buf' = buf \o (Comma \o KeyText(memory, Innermost.value, Innermost.next + 1))
    PROVE  Partway'
<1> DEFINE n == Len(open)
           f == Innermost
           i == f.next + 1
           c == f.value
<1>0. /\ f.next # Count(memory, c) /\ open' = [open EXCEPT ![n].next = f.next + 1]
      /\ v' = ItemOf(memory, c, i) /\ buf' = buf \o (Comma \o KeyText(memory, c, i))
      /\ i = f.next + 1 /\ n = Len(open) /\ c = f.value
    OBVIOUS
<1>1. /\ n \in Nat \ {0} /\ DOMAIN open = 1 .. n /\ n \in 1 .. n /\ f = open[n] /\ f \in Frames
      /\ InMemory(memory, c) /\ Count(memory, c) \in Nat /\ f.next \in 0 .. Count(memory, c)
    BY InnermostIs, Counted
<1>2. memory \in Memories /\ open \in Seq(Frames) /\ n <= MaxDepth
    BY Sized
<1>s. /\ needSep <=> f.next # 0
      /\ \A k \in 1 .. n : open[k].value = Turn(memory, root, open, k - 1)
      /\ \E p \in [Nat -> Seq(Texts)] : Before(p)
    <2>1. Len(open) # 0
        BY <1>1
    <2> QED BY <1>1, <2>1 DEF Partway, Enclosed
<1>b. ASSUME NEW p, Before(p)
      PROVE  Nested(memory, open, p, n - 1) /\ buf = p[n] \o Partial(memory, open, n, f.next)
    <2>1. Len(open) # 0
        BY <1>1
    <2> QED BY <1>1, <1>b, <2>1 DEF Before, AfterItem
<1> HIDE DEF n, f, i, c
<1>3. i \in 1 .. Count(memory, c) /\ i - 1 = f.next /\ i \in Nat
    BY ONLY <1>0, <1>1, Onward
<1> DEFINE g == [f EXCEPT !.next = i]
<1>4. open' = [open EXCEPT ![n] = g] /\ g.value = c /\ g.next = i
    <2>1. g.value = c /\ g.next = i
        BY <1>0, <1>1 DEF Frames
    <2> QED BY <1>0, <1>1, <2>1
<1> HIDE DEF g
<1>n. /\ n \in Nat /\ n # 0 /\ n \in Int /\ n - 1 \in Int /\ n - 1 <= n /\ n + 1 \in Nat
      /\ 1 \in 1 .. n /\ \A k \in 1 .. n : k \in Nat /\ k # n + 1 /\ k - 1 \in 0 .. n - 1
      /\ \A k \in 1 .. n - 1 : k \in 1 .. n /\ k # n
      /\ \A k \in 1 .. n : k # n => k \in 1 .. n - 1 /\ k + 1 \in 1 .. n
      /\ \A k \in 0 .. n - 1 : k \in 0 .. n /\ (k # 0 => k \in 1 .. n - 1)
    BY ONLY <1>1
<1>5. /\ Len(open') = n /\ open'[n].value = c /\ open'[n].next = i
      /\ \A k \in 1 .. n : open'[k].value = open[k].value
      /\ \A k \in 1 .. n - 1 : open'[k].next = open[k].next
    <2>1. DOMAIN open' = 1 .. n /\ Len(open') = n
        BY <1>1, <1>2, <1>4, LenProperties
    <2>2. open'[n] = g /\ \A k \in 1 .. n : k # n => open'[k] = open[k]
        BY <1>1, <1>4
    <2>3. open[n].value = c
        BY <1>0, <1>1
    <2>4. ASSUME NEW k \in 1 .. n PROVE open'[k].value = open[k].value
        BY <1>4, <2>2, <2>3
    <2>5. ASSUME NEW k \in 1 .. n - 1 PROVE open'[k].next = open[k].next
        BY <1>n, <2>2
    <2> QED BY <1>4, <2>1, <2>2, <2>4, <2>5
<1>6. PICK p \in [Nat -> Seq(Texts)] : Before(p)
    BY <1>s
<1>7. Nested(memory, open, p, n - 1) /\ buf = p[n] \o Partial(memory, open, n, f.next)
    BY <1>6, <1>b
<1> DEFINE x == Partial(memory, open, n, f.next)
           e == Sep(i) \o KeyText(memory, c, i)
<1>8. p[n] \in Seq(Texts) /\ x \in Seq(Texts) /\ e \in Seq(Texts)
    <2>1. p[n] \in Seq(Texts)
        BY <1>1
    <2>2. x \in Seq(Texts) /\ KeyText(memory, c, i) \in Seq(Texts)
        <3>1. n \in 1 .. Len(open) /\ Len(open) <= MaxDepth /\ open[n].value = c
            BY <1>0, <1>1, <1>2
        <3>2. /\ \A j \in 0 .. Count(memory, c) : Partial(memory, open, n, j) \in Seq(Texts)
              /\ \A j \in 1 .. Count(memory, c) : KeyText(memory, c, j) \in Seq(Texts)
            BY <1>1, <1>2, <3>1, PartialIs
        <3> QED BY <1>1, <1>3, <3>2
    <2>3. e \in Seq(Texts)
        BY <2>2, SepIn, ConcatProperties
    <2> QED BY <2>1, <2>2, <2>3
<1>9. Comma = Sep(i)
    <2>1. i = 1 <=> f.next = 0
        BY ONLY <1>0, <1>1, Onward
    <2> QED BY <1>s, <2>1 DEF Comma, Sep
<1>10. buf' = p[n] \o (x \o e)
    <2>1. buf' = (p[n] \o x) \o e
        BY <1>0, <1>7, <1>9
    <2> DEFINE a == p[n]
    <2> HIDE DEF x, e, a
    <2>2. Moved(a, x, e)
        BY <1>8, Associative DEF a
    <2> QED BY <2>1, <2>2, Zenon DEF a, Moved
<1>11. PICK q \in [Nat -> Seq(Texts)] :
           q[n + 1] = p[n] \o (x \o e) /\ \A k \in 1 .. n : q[k] = p[k]
    <2>1. p[n] \o (x \o e) \in Seq(Texts)
        <3> DEFINE y == x \o e
        <3>1. y \in Seq(Texts)
            BY <1>8, ConcatProperties
        <3> HIDE DEF x, e, y
        <3> QED BY <1>8, <3>1, ConcatProperties
    <2> DEFINE h == [p EXCEPT ![n + 1] = p[n] \o (x \o e)]
    <2> HIDE DEF x, e
    <2>2. h \in [Nat -> Seq(Texts)] /\ h[n + 1] = p[n] \o (x \o e) /\ \A k \in 1 .. n : h[k] = p[k]
        BY <1>n, <2>1
    <2> HIDE DEF h
    <2> QED BY <2>2
<1>12. Nested(memory, open', q, n)
    <2>1. /\ UpToItem(memory, open', n) = x \o e
        <3>1. Partial(memory, open', n, f.next) = x
            <4>1. \A k \in 1 .. n : open'[k].value = open[k].value
                BY <1>5
            <4>2. Around(open', n) = Around(open, n)
                BY ONLY <4>1 DEF Around
            <4>3. open'[n].value = open[n].value
                BY <1>1, <4>1
            <4> QED BY <4>2, <4>3 DEF Partial, ItemsAt
        <3> HIDE DEF x
        <3> QED BY <1>3, <1>5, <3>1 DEF UpToItem
    <2>2. Nested(memory, open', p, n - 1)
        BY ONLY <1>5, <1>7, <1>n, NestedAgrees
    <2>3. q[1] = << >>
        BY <1>n, <1>11, <2>2 DEF Nested
    <2>4. ASSUME NEW k \in 1 .. n
          PROVE  /\ open'[k].next \in 1 .. Count(memory, open'[k].value)
                 /\ q[k + 1] = q[k] \o UpToItem(memory, open', k)
        <3>1. CASE k = n
            BY <1>1, <1>3, <1>5, <1>11, <2>1, <3>1
        <3>2. CASE k # n
            <4>1. k \in 1 .. n - 1 /\ k + 1 \in 1 .. n
                BY <1>n, <3>2
            <4> QED BY <1>11, <2>2, <4>1 DEF Nested
        <3> QED BY <3>1, <3>2
    <2> QED BY <2>3, <2>4 DEF Nested
<1>13. \A k \in 0 .. n - 1 : Turn(memory, root, open', k) = Turn(memory, root, open, k)
    <2>1. ASSUME NEW k \in 0 .. n - 1 PROVE Turn(memory, root, open', k) = Turn(memory, root, open, k)
        <3>1. /\ n \in Nat /\ k \in 0 .. n /\ \A j \in 1 .. n : open'[j].value = open[j].value
              /\ k # 0 => open'[k].next = open[k].next
            BY <1>5, <1>n
        <3> QED BY ONLY <3>1, Agreeing
    <2> QED BY <2>1
<1>14. Enclosed(memory, root, open')
    BY <1>n, <1>5, <1>13, <1>s DEF Enclosed
<1>15. v' = Turn(memory, root, open', n)
    BY <1>0, <1>5, <1>n DEF Turn
<1>16. Before(q)'
    <2>1. Nested(memory, open', q, Len(open')) /\ buf' = q[Len(open') + 1]
        BY <1>5, <1>10, <1>11, <1>12
    <2> QED BY <2>1 DEF Before
<1>17. (v = Turn(memory, root, open, Len(open)))'
    BY <1>5, <1>15
<1>18. Enclosed(memory, root, open)'
    <2>1. memory' = memory /\ root' = root
        OBVIOUS
    <2> QED BY <1>14, <2>1
<1>19. (\E pre \in [Nat -> Seq(Texts)] : Before(pre))'
    BY <1>11, <1>16
<1> QED BY <1>17, <1>18, <1>19 DEF Partway

LEMMA ElementTree ==
    ASSUME IInv, Partway, Element
    PROVE  Partway'
<1> DEFINE f == Innermost
<1>1. /\ pc = "next" /\ open # << >> /\ f.value.kind = "array" /\ f.next # f.value.length
      /\ buf' = buf \o Comma /\ needSep' = TRUE
      /\ open' = [open EXCEPT ![Len(open)].next = f.next + 1]
      /\ v' = memory[f.value.ptr][f.next + 1] /\ pc' = "value" /\ UNCHANGED <<memory, root>>
    BY DEF Element
<1>2. Count(memory, f.value) = f.value.length
    BY <1>1 DEF Count
<1>3. v' = ItemOf(memory, f.value, f.next + 1) /\ KeyText(memory, f.value, f.next + 1) = << >>
    BY <1>1 DEF ItemOf, KeyText
<1>4. Comma \in Seq(Texts)
    BY TextsIn
<1>5. Comma \o << >> = Comma
    BY <1>4, ConcatEmptySeq
<1>6. buf' = buf \o (Comma \o KeyText(memory, f.value, f.next + 1))
    BY <1>1, <1>3, <1>5
<1> HIDE DEF f
<1> QED BY <1>1, <1>2, <1>3, <1>6, AdvanceTree DEF f

LEMMA MemberTree ==
    ASSUME IInv, Partway, Member
    PROVE  Partway'
<1> DEFINE f == Innermost
           k == keys[f.firstKey + f.next + 1]
<1>1. /\ pc = "next" /\ open # << >> /\ f.value.kind = "object" /\ f.firstKey + f.next # Len(keys)
      /\ buf' = buf \o Keyed(k) /\ needSep' = TRUE
      /\ open' = [open EXCEPT ![Len(open)].next = f.next + 1]
      /\ v' = memory[f.value.ptr][k] /\ pc' = "value" /\ UNCHANGED <<memory, root>>
    BY DEF Member
<1>2. ~Exhausted(f)
    BY <1>1 DEF Exhausted
<1>3. f.next # Count(memory, f.value) /\ k = KeyAt(memory, f.value, f.next + 1)
    BY <1>1, <1>2, Counted
<1>4. v' = ItemOf(memory, f.value, f.next + 1)
    BY <1>1, <1>3 DEF ItemOf
<1>5. KeyText(memory, f.value, f.next + 1) = <<Names[Reads[k]], "colon">>
    BY <1>1, <1>3 DEF KeyText
<1>6. buf' = buf \o (Comma \o KeyText(memory, f.value, f.next + 1))
    BY <1>1, <1>5 DEF Keyed
<1> HIDE DEF f, k
<1> QED BY <1>1, <1>3, <1>4, <1>6, AdvanceTree DEF f

\* A container is closed: it is written, and so the item that it is.
LEMMA CloseTree ==
    ASSUME IInv, Partway, Close
    PROVE  Partway'
<1> DEFINE n == Len(open)
           f == Innermost
           b == n - 1
           c == f.value
           count == Count(memory, c)
<1>1. /\ open # << >> /\ pc = "next" /\ pc' = "next" /\ buf' = Append(buf, Closer[c.kind])
      /\ needSep' = TRUE /\ open' = SubSeq(open, 1, n - 1) /\ Exhausted(f)
      /\ memory' = memory /\ root' = root
    BY DEF Close
<1>2. /\ n \in Nat \ {0} /\ f = open[n] /\ open \in Seq(Frames) /\ buf \in Seq(Texts)
      /\ n <= MaxDepth /\ memory \in Memories /\ InMemory(memory, root) /\ InMemory(memory, c)
      /\ \A k \in 1 .. n : InMemory(memory, open[k].value)
      /\ c.kind \in ContainerKinds /\ n \in 1 .. n
    <2>1. c.kind \in ContainerKinds
        BY <1>1, InnermostIs DEF Frames
    <2> QED BY <1>1, <2>1, InnermostIs, Sized, RootIn
<1>3. /\ Len(open') = b /\ open' \in Seq(Frames) /\ \A k \in 1 .. b : open'[k] = open[k]
    BY <1>1, <1>2, FrontIs
<1>4. f.next = count
    BY <1>1, Counted
<1>5. PICK pre \in [Nat -> Seq(Texts)] : Before(pre)
    BY DEF Partway
<1>6. Nested(memory, open, pre, b) /\ buf = pre[n] \o Partial(memory, open, n, count)
    <2>1. n # 0
        BY <1>2
    <2>2. Nested(memory, open, pre, n - 1) /\ buf = AfterItem(memory, root, open, pre, n)
        BY <1>1, <1>5 DEF Before
    <2>3. AfterItem(memory, root, open, pre, n) = pre[n] \o Partial(memory, open, n, f.next)
        BY <1>2, <2>1 DEF AfterItem
    <2> QED BY <1>4, <2>2, <2>3
<1>7. \A k \in 1 .. n : open[k].value = Turn(memory, root, open, k - 1)
    BY DEF Partway, Enclosed
<1>8. \A j \in 1 .. n - 1 : Id(open[j].value) # Id(open[n].value)
    <2>1. \A j \in 1 .. n - 1 : j \in DOMAIN open /\ n \in DOMAIN open /\ j # n
        <3>1. DOMAIN open = 1 .. n
            BY Sized
        <3> HIDE DEF n
        <3> QED BY ONLY <1>2, <3>1
    <2> QED BY <2>1 DEF IInv, PathDistinct
<1> HIDE DEF n, f, count
<1>9. /\ b \in Nat /\ b \in 0 .. n /\ b + 1 = n /\ n - 1 = b /\ b <= b /\ b \in Int
      /\ \A k \in 1 .. b : k \in 1 .. n /\ k - 1 \in 0 .. b /\ (k - 1 # 0 => k - 1 \in 1 .. b)
      /\ \A k \in 0 .. b : k # 0 => k \in 1 .. b
      /\ b # 0 => b \in 1 .. b
      /\ 1 .. b - 1 \subseteq 1 .. b
    <2>1. n \in Nat \ {0}
        BY <1>2
    <2>2. b \in Nat /\ b \in 0 .. n /\ b + 1 = n /\ n - 1 = b /\ b <= b /\ b \in Int
        BY ONLY <2>1
    <2> HIDE DEF b
    <2>3. ASSUME NEW k \in 1 .. b
          PROVE  k \in 1 .. n /\ k - 1 \in 0 .. b /\ (k - 1 # 0 => k - 1 \in 1 .. b)
        BY ONLY <2>2, k \in 1 .. b
    <2>4. /\ \A k \in 0 .. b : k # 0 => k \in 1 .. b
          /\ b # 0 => b \in 1 .. b
          /\ 1 .. b - 1 \subseteq 1 .. b
        BY ONLY <2>2
    <2> QED BY <2>2, <2>3, <2>4
<1>10. TextAt(memory, open, b, c) = Partial(memory, open, n, count) \o <<Closer[c.kind]>>
    <2>1. n \in 1 .. Len(open) /\ Len(open) <= MaxDepth
        BY <1>2 DEF n
    <2>2. TextAt(memory, open, n - 1, open[n].value)
              = Partial(memory, open, n, Count(memory, open[n].value)) \o <<Closer[open[n].value.kind]>>
        BY <1>2, <1>8, <2>1, WholeIs
    <2> QED BY <1>2, <1>9, <2>2 DEF count
<1> HIDE DEF b
<1>11. pre[n] \o TextAt(memory, open, b, c) = AfterItem(memory, root, open, pre, b)
    <2>1. /\ Len(open) <= MaxDepth /\ \A k \in 1 .. Len(open) : InMemory(memory, open[k].value)
          /\ b \in 0 .. Len(open)
        BY <1>2, <1>9 DEF n
    <2>2. pre[b + 1] \o TextAt(memory, open, b, Turn(memory, root, open, b))
              = AfterItem(memory, root, open, pre, b)
        BY <1>2, <1>6, <2>1, ItemDone
    <2>3. c = Turn(memory, root, open, b)
        BY <1>2, <1>7, <1>9
    <2> QED BY <1>9, <2>2, <2>3
<1>12. buf' = AfterItem(memory, root, open, pre, b)
    <2> DEFINE p == pre[n]
               x == Partial(memory, open, n, count)
               e == <<Closer[c.kind]>>
    <2>1. p \in Seq(Texts) /\ x \in Seq(Texts) /\ e \in Seq(Texts) /\ Closer[c.kind] \in Texts
        <3>1. n \in 1 .. Len(open) /\ Len(open) <= MaxDepth /\ open[n].value = c
            BY <1>2 DEF n
        <3>2. count \in Nat /\ \A j \in 0 .. count : Partial(memory, open, n, j) \in Seq(Texts)
            BY <1>2, <3>1, PartialIs DEF count
        <3>3. count \in 0 .. count
            BY <3>2
        <3>4. Closer[c.kind] \in Texts
            BY <1>2, TextsIn DEF InMemory
        <3>5. pre[n] \in Seq(Texts)
            BY <1>2
        <3> QED BY <3>2, <3>3, <3>4, <3>5
    <2>2. buf' = buf \o e
        BY <1>1, <1>2, <2>1, AppendIsConcat
    <2> HIDE DEF p, x, e
    <2>3. Moved(p, x, e)
        BY <2>1, Associative
    <2>4. buf = p \o x /\ TextAt(memory, open, b, c) = x \o e
        BY <1>6, <1>10 DEF p, x, e
    <2>5. p \o TextAt(memory, open, b, c) = AfterItem(memory, root, open, pre, b)
        BY <1>11 DEF p
    <2> QED BY <2>2, <2>3, <2>4, <2>5, Zenon DEF Moved
<1>13. \A k \in 1 .. b : open[k].value = open'[k].value /\ open[k].next = open'[k].next
    BY <1>3
<1>14. \A k \in 0 .. b :
          /\ Turn(memory, root, open, k) = Turn(memory, root, open', k)
          /\ AfterItem(memory, root, open, pre, k) = AfterItem(memory, root, open', pre, k)
    <2>1. ASSUME NEW k \in 0 .. b
          PROVE  /\ Turn(memory, root, open, k) = Turn(memory, root, open', k)
                 /\ AfterItem(memory, root, open, pre, k) = AfterItem(memory, root, open', pre, k)
        <3>1. k # 0 => open[k].next = open'[k].next
            <4>1. k # 0 => k \in 1 .. b
                BY <1>9
            <4> QED BY <1>13, <4>1
        <3>2. b \in Nat /\ \A j \in 1 .. b : open[j].value = open'[j].value
            BY <1>9, <1>13
        <3>3. k # 0 => open[k].value = open'[k].value
            <4>1. k # 0 => k \in 1 .. b
                BY <1>9
            <4> QED BY <3>2, <4>1
        <3>4. Turn(memory, root, open, k) = Turn(memory, root, open', k)
            BY ONLY <3>1, <3>3 DEF Turn
        <3>5. \A j \in 1 .. k : open[j].value = open'[j].value
            BY <3>2
        <3>6. Around(open, k) = Around(open', k)
            BY ONLY <3>5 DEF Around
        <3>7. k # 0 => Partial(memory, open, k, open[k].next) = Partial(memory, open', k, open'[k].next)
            BY ONLY <3>1, <3>3, <3>6 DEF Partial, ItemsAt
        <3> QED BY ONLY <3>4, <3>7 DEF AfterItem
    <2> QED BY <2>1
<1>15. Nested(memory, open', pre, b - 1)
    <2>1. Nested(memory, open', pre, b)
        <3>1. /\ b \in Nat /\ b \in Int /\ b <= b /\ \A k \in 1 .. b : open[k].value = open'[k].value
              /\ \A k \in 1 .. b : open[k].next = open'[k].next
            BY <1>9, <1>13
        <3> QED BY ONLY <1>6, <3>1, NestedAgrees
    <2> QED BY <1>9, <2>1 DEF Nested
<1>16. Before(pre)'
    <2>1. b \in 0 .. b
        BY <1>9
    <2>2. buf' = AfterItem(memory, root, open', pre, Len(open'))
        BY <1>3, <1>12, <1>14, <2>1
    <2>3. Nested(memory, open', pre, Len(open') - 1)
        BY <1>3, <1>15
    <2> QED BY <1>1, <2>2, <2>3 DEF Before
<1>17. Enclosed(memory, root, open)'
    <2>1. \A k \in 1 .. b : open'[k].value = Turn(memory, root, open', k - 1)
        BY <1>7, <1>9, <1>13, <1>14
    <2>2. Enclosed(memory, root, open')
        BY <1>3, <2>1 DEF Enclosed
    <2> QED BY <1>1, <2>2
<1>18. Len(open') # 0 => open'[Len(open')].next # 0
    <2>1. SUFFICES ASSUME b # 0 PROVE open'[b].next # 0
        BY <1>3
    <2>2. b \in 1 .. b
        BY <1>9, <2>1
    <2>3. open[b].next \in 1 .. Count(memory, open[b].value)
        BY <1>6, <2>2 DEF Nested
    <2>4. open[b].next # 0
        BY ONLY <2>3
    <2>5. open'[b].next = open[b].next
        BY ONLY <1>13, <2>2
    <2> QED BY <2>4, <2>5
<1>19. (\E p \in [Nat -> Seq(Texts)] : Before(p))'
    BY <1>16
<1> QED BY <1>1, <1>17, <1>18, <1>19 DEF Partway

\* Null is written of a container that is on its path or has no room, and of the nil.
LEMMA NullTree ==
    ASSUME IInv, Partway, pc \in {"value", "search"}, v.kind \in ContainerKinds,
           Refused \/ \E k \in DOMAIN open : Id(open[k].value) = Id(v), Raw("null")
    PROVE  Partway'
<1> DEFINE n == Len(open)
           room == MaxDepth - n
           path == Around(open, n)
<1>1. /\ n \in Nat /\ n <= MaxDepth /\ MaxDepth \in Nat /\ DOMAIN open = 1 .. n
      /\ v \in Values /\ open \in Seq(Frames)
    BY Sized
<1>2. room \in 0 .. MaxDepth /\ n \in 0 .. n
    BY <1>1
<1>3. path \in Seq(Ids)
    BY <1>1, <1>2, AroundIn
<1>4. v.ptr = 0 \/ room = 0 \/ \E k \in DOMAIN path : path[k] = Id(v)
    <2>1. DOMAIN path = 1 .. n /\ \A k \in 1 .. n : path[k] = Id(open[k].value)
        BY DEF Around
    <2>2. Refused => v.ptr = 0 \/ room = 0
        <3>1. n = MaxDepth => MaxDepth - n = 0
            BY <1>1
        <3> QED BY <3>1 DEF Refused
    <2> HIDE DEF path, room
    <2> QED BY <1>1, <2>1, <2>2
<1> HIDE DEF path, room
<1>5. TextIn(memory, Trees(memory), room, path, v) = <<"null">>
    BY <1>4 DEF TextIn
<1>6. TextAt(memory, open, n, v) = <<"null">>
    <2>1. Trees(memory)[room][path][v] = TextIn(memory, Trees(memory), room, path, v)
        BY <1>1, <1>2, <1>3, TreesAre
    <2> QED BY <1>5, <2>1 DEF TextAt, path, room
<1> QED BY <1>6, TextsIn, TokenTree

LEMMA ScalarTree ==
    ASSUME IInv, Partway, Scalar
    PROVE  Partway'
<1> DEFINE n == Len(open)
           room == MaxDepth - n
           path == Around(open, n)
<1>1. /\ n \in Nat /\ n <= MaxDepth /\ MaxDepth \in Nat /\ v \in Values /\ open \in Seq(Frames)
    BY Sized
<1>2. room \in 0 .. MaxDepth /\ n \in 0 .. n
    BY <1>1
<1>3. path \in Seq(Ids)
    BY <1>1, <1>2, AroundIn
<1>4. pc = "value" /\ v.kind \notin ContainerKinds /\ Raw(Token[v.kind]) /\ Token[v.kind] \in Texts
    BY <1>1, TextsIn DEF Scalar
<1> HIDE DEF path, room
<1>5. TextAt(memory, open, n, v) = <<Token[v.kind]>>
    <2>1. Trees(memory)[room][path][v] = TextIn(memory, Trees(memory), room, path, v)
        BY <1>1, <1>2, <1>3, TreesAre
    <2> QED BY <1>4, <2>1 DEF TextAt, TextIn, path, room
<1> QED BY <1>4, <1>5, TokenTree

\* A step that neither writes nor opens or closes.
LEMMA QuietTree ==
    ASSUME Partway, UNCHANGED <<memory, root, v, open, buf, needSep>>,
           \/ pc \in {"value", "search"} /\ pc' \in {"value", "search"}
           \/ pc' = pc
           \/ pc = "next" /\ open = << >> /\ pc' = "done"
    PROVE  Partway'
<1>1. PICK pre \in [Nat -> Seq(Texts)] : Before(pre)
    BY DEF Partway
<1>2. Enclosed(memory, root, open)'
    BY DEF Partway
<1>3. Before(pre)'
    <2>1. CASE pc \in {"value", "search"} /\ pc' \in {"value", "search"}
        BY <1>1, <2>1 DEF Before
    <2>2. CASE pc' = pc
        BY <1>1, <2>2 DEF Before
    <2>3. CASE pc = "next" /\ open = << >> /\ pc' = "done"
        <3>1. buf = Tree(memory, root)
            <4>1. Len(open) = 0
                BY <2>3, EmptySeq
            <4> QED BY <1>1, <2>3, <4>1 DEF Before, AfterItem
        <3> QED BY <2>3, <3>1 DEF Before
    <2> QED BY <2>1, <2>2, <2>3
<1>4. (\E p \in [Nat -> Seq(Texts)] : Before(p))'
    BY <1>3
<1> QED BY <1>2, <1>4 DEF Partway

LEMMA InitialTree == Init => Partway
<1> SUFFICES ASSUME Init PROVE Partway
    OBVIOUS
<1>1. pc = "value" /\ open = << >> /\ Len(open) = 0 /\ v = root /\ buf = << >>
    BY EmptySeq DEF Init
<1> DEFINE pre == [k \in Nat |-> << >>]
<1>2. pre \in [Nat -> Seq(Texts)] /\ pre[1] = << >>
    <2>1. << >> \in Seq(Texts)
        OBVIOUS
    <2> QED BY <2>1
<1> HIDE DEF pre
<1>3. Nested(memory, open, pre, 0)
    BY <1>2 DEF Nested
<1>4. Before(pre)
    BY <1>1, <1>2, <1>3 DEF Before
<1>5. \E p \in [Nat -> Seq(Texts)] : Before(p)
    BY <1>2, <1>4
<1>6. Enclosed(memory, root, open) /\ v = Turn(memory, root, open, 0)
    BY <1>1 DEF Enclosed, Turn
<1> QED BY <1>1, <1>5, <1>6 DEF Partway

LEMMA StepTree == IInv /\ IInv' /\ Partway /\ [Next]_vars => Partway'
<1> SUFFICES ASSUME IInv, IInv', Partway, [Next]_vars PROVE Partway'
    OBVIOUS
<1>1. CASE Scalar
    BY <1>1, ScalarTree
<1>2. CASE Null
    BY <1>2, NullTree DEF Null, Scanned
<1>3. CASE NullOnPath
    <2>1. pc = "search" /\ Raw("null") /\ \E k \in DOMAIN open : Id(open[k].value) = Id(v)
        BY <1>3 DEF NullOnPath
    <2>2. v.kind \in ContainerKinds
        BY <2>1 DEF IInv, SearchSound
    <2> QED BY <2>1, <2>2, NullTree
<1>4. CASE EnterScanned \/ EnterSearched
    <2>1. pc \in {"value", "search"} /\ v.kind \in ContainerKinds /\ ~Refused /\ Push
        BY <1>4 DEF EnterScanned, EnterSearched, IInv, SearchSound
    <2> QED BY <2>1, PushTree DEF Refused
<1>5. CASE Element
    BY <1>5, ElementTree
<1>6. CASE Member
    BY <1>6, MemberTree
<1>7. CASE Close
    BY <1>7, CloseTree
<1>8. CASE Search
    BY <1>8, QuietTree DEF Search, encoder, builder
<1>9. CASE PassFrame
    BY <1>9, QuietTree DEF PassFrame, encoder, builder
<1>10. CASE Finish
    BY <1>10, QuietTree DEF Finish, encoder, builder
<1>11. CASE UNCHANGED vars
    BY <1>11, QuietTree DEF vars, encoder, builder
<1> QED BY <1>1, <1>2, <1>3, <1>4, <1>5, <1>6, <1>7, <1>8, <1>9, <1>10, <1>11 DEF Next

\* Whatever the value, the memory and the hash, the encoder writes the text that recursion
\* gives the value: each container with all its items in order behind their commas and
\* keys, and null for one that lies in itself or too deep, though it is found by buckets
\* (appendValue, enter, item, close: "null for the rest, for cycles and past MaxDepth").
THEOREM WritesTheTree == Spec => []WritesTree
<1>1. Partway => WritesTree
    BY DEF Partway, Before, WritesTree
<1> QED BY <1>1, InitialTree, StepTree, Invariance, PTL DEF Spec
=============================================================================
