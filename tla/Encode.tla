------------------------------- MODULE Encode --------------------------------
(***************************************************************************)
(* The valueEncoder of encode.go: a Go value written as JSON without       *)
(* recursion.  The containers it is inside are frames on one stack, and    *)
(* the sorted keys of the open objects lie behind each other on a second   *)
(* stack.  A container that is open already, or that lies MaxDepth deep,   *)
(* is written null: cycles are found by a scan of the frames while they    *)
(* are few and by buckets afterwards, chained through the frames.          *)
(*                                                                         *)
(* The memory that the value lives in is a function from pointers to a map *)
(* or to the cells of an array; a slice is a pointer and a length, so that *)
(* slices of one array may share it.  A key is a number, in the order of   *)
(* strings.Compare, and Reads gives the name it is written as.             *)
(***************************************************************************)
EXTENDS Naturals, Sequences, FiniteSets

CONSTANTS
    Pointers,           \* what containers are told apart by, 0 the nil pointer
    Hash, HashRange,    \* the hash of a pointer, below HashRange (2^64 in the code)
    Keys, NotUTF8,      \* the keys of maps, and those that hold a byte utf8 rejects
    Names, Reads,       \* the names that are written, in rune order; that of a key
    Memories, Roots,    \* what the pointers may point at, and the values written
    MaxDepth, InlineOpenValues, BucketsPerFrame, BucketsGrowth

ASSUME PointersAssumption == 0 \notin Pointers
ASSUME HashAssumption == /\ HashRange \in Nat \ {0}
                         /\ Hash \in [Pointers -> 0 .. HashRange - 1]
ASSUME BoundsAssumption ==
    /\ MaxDepth \in Nat /\ InlineOpenValues \in Nat
    /\ BucketsPerFrame \in Nat \ {0} /\ BucketsGrowth \in Nat \ {0}
\* Go compares valid strings by byte, which is by rune.
ASSUME KeysAssumption ==
    /\ Keys \subseteq Nat /\ NotUTF8 \subseteq Keys
    /\ Names \in Seq(STRING) /\ Reads \in [Keys -> DOMAIN Names]
    /\ \A k, l \in Keys \ NotUTF8 : k < l => Reads[k] < Reads[l]
\* A name is told from the tokens that are no strings.
ASSUME NamesAssumption ==
    \A n \in DOMAIN Names : Names[n] \notin {"null", "scalar", "comma", "colon",
                                "openObject", "closeObject", "openArray", "closeArray"}

ContainerKinds == {"object", "array"}
Values == [kind : ContainerKinds \union {"scalar", "reported", "unreported"},
           ptr : Pointers \union {0}, length : Nat]

\* A map is finite, and a slice lies within the cells that it points at.
InMemory(m, c) ==
    /\ c \in Values
    /\ c.ptr # 0 /\ c.kind = "object" => IsFiniteSet(DOMAIN m[c.ptr]) /\ DOMAIN m[c.ptr] \subseteq Keys
    /\ c.ptr # 0 /\ c.kind = "array" => 1 .. c.length \subseteq DOMAIN m[c.ptr]

ASSUME MemoriesAssumption ==
    \A m \in Memories :
        /\ \A c \in Roots : InMemory(m, c)
        /\ \A p \in Pointers : \A x \in DOMAIN m[p] : InMemory(m, m[p][x])

VARIABLES
    memory, root,       \* where the value lives and the value; the encoder only reads them
    pc, v,              \* what comes next: write v, search its bucket, or go on
    at,                 \* the frame the search looks at, from 1, or 0
    open, keys, buckets,
    buf, needSep        \* the Builder's

encoder == <<open, keys, buckets>>
builder == <<buf, needSep>>
vars    == <<memory, root, pc, v, at, encoder, builder>>

-----------------------------------------------------------------------------
(* Keys in the order they are written.                                     *)

Sorted(S, Before(_, _)) ==
    CHOOSE s \in [1 .. Cardinality(S) -> S] :
        \A i, j \in DOMAIN s : i < j => Before(s[i], s[j])

ByBytes(k, l) == k < l

CompareKeys(k, l) == Reads[k] < Reads[l] \/ (Reads[k] = Reads[l] /\ k > l)

\* s without each key that is written as the one before it.
Compacted(s) ==
    Sorted({s[i] : i \in {j \in DOMAIN s : j > 1 => Reads[s[j - 1]] # Reads[s[j]]}}, CompareKeys)

SortedKeys(S) ==
    IF S \cap NotUTF8 = {} THEN Sorted(S, ByBytes) ELSE Compacted(Sorted(S, CompareKeys))

-----------------------------------------------------------------------------
(* Containers, their frames and the buckets.                               *)

\* Mutant of Id: slices of one array are one container.
IdByPointer(c) == <<c.ptr, 0>>

Id(c) == <<c.ptr, c.length>>

Frame(c) == [value |-> c, firstKey |-> IF c.kind = "object" THEN Len(keys) ELSE 0,
             next |-> 0, older |-> 0]

\* The high bits of the hash, scaled to n buckets, which are indexed from 1 here.
Bucket(c, n) == (Hash[c.ptr] * n) \div HashRange + 1

\* The frames s.open and the buckets s.buckets once frame k is at the head of its bucket.
File(s, k) ==
    LET b == Bucket(s.open[k].value, Len(s.buckets))
    IN  [open    |-> [s.open EXCEPT ![k].older = s.buckets[b]],
         buckets |-> [s.buckets EXCEPT ![b] = k]]

\* Mutant of Refiled: the frame just pushed is filed with the others, and again after.
RefiledWithNewest(frames) ==
    LET n == Len(frames)
        Filed[k \in 0 .. n] ==
            IF k = 0
            THEN [open |-> frames, buckets |-> [b \in 1 .. BucketsGrowth * BucketsPerFrame * n |-> 0]]
            ELSE File(Filed[k - 1], k)
    IN  Filed[n]

\* New buckets for all the frames, with all but the newest in them.
Refiled(frames) ==
    LET n == Len(frames)
        Filed[k \in 0 .. n - 1] ==
            IF k = 0
            THEN [open |-> frames, buckets |-> [b \in 1 .. BucketsGrowth * BucketsPerFrame * n |-> 0]]
            ELSE File(Filed[k - 1], k)
    IN  Filed[n - 1]

\* index, with frames the open ones and the frame just pushed.
Indexed(frames) ==
    LET n == Len(frames)
    IN  IF buckets = << >> /\ n <= InlineOpenValues
        THEN [open |-> frames, buckets |-> buckets]
        ELSE IF n > Len(buckets) \div BucketsPerFrame
             THEN File(Refiled(frames), n)
             ELSE File([open |-> frames, buckets |-> buckets], n)

Innermost == open[Len(open)]

-----------------------------------------------------------------------------
(* What is written: sep, fieldKey, the openers and the closers.            *)

Opener == [object |-> "openObject", array |-> "openArray"]
Closer == [object |-> "closeObject", array |-> "closeArray"]

\* The token of a value that is not a container: text reports some and no others.
Token == [scalar |-> "scalar", reported |-> "scalar", unreported |-> "null"]

Comma == IF needSep THEN <<"comma">> ELSE << >>

\* Mutant of Keyed: the key of a field whose comma is left out within an object.
KeyedBare(k) == <<Names[Reads[k]], "colon">>

Keyed(k) == Comma \o <<Names[Reads[k]], "colon">>

Raw(token) == /\ buf' = Append(buf, token)
              /\ pc' = "next"
              /\ UNCHANGED <<memory, root, v, at, encoder, needSep>>

-----------------------------------------------------------------------------
Init ==
    /\ memory \in Memories /\ root \in Roots /\ v = root
    /\ pc = "value" /\ at = 0
    /\ open = << >> /\ keys = << >> /\ buckets = << >>
    /\ buf = << >> /\ needSep = FALSE

\* value of anything but a container.
Scalar == pc = "value" /\ v.kind \notin ContainerKinds /\ Raw(Token[v.kind])

Refused == v.ptr = 0 \/ Len(open) = MaxDepth

\* onPath while there are no buckets.
Scanned == \E k \in DOMAIN open : Id(open[k].value) = Id(v)

\* enter of a container that is written null without a search.
Null == /\ pc = "value" /\ v.kind \in ContainerKinds
        /\ Refused \/ (buckets = << >> /\ Scanned)
        /\ Raw("null")

\* The rest of enter, and the turn of appendValue for a container that opens.
Push ==
    LET pushed == Indexed(Append(open, Frame(v)))
    IN  /\ buf' = Append(buf, Opener[v.kind])
        /\ needSep' = FALSE
        /\ keys' = IF v.kind = "object" THEN keys \o SortedKeys(DOMAIN memory[v.ptr]) ELSE keys
        /\ open' = pushed.open
        /\ buckets' = pushed.buckets
        /\ pc' = "next"
        /\ UNCHANGED <<memory, root, v, at>>

\* enter of a container that no frame holds, by the scan.
EnterScanned == /\ pc = "value" /\ v.kind \in ContainerKinds
                /\ ~Refused /\ buckets = << >> /\ ~Scanned
                /\ Push

\* onPath once there are buckets: the search begins, goes on, and ends either way.  A
\* frame that is not open any more is past the end of the stack, and there is no step.
Search == /\ pc = "value" /\ v.kind \in ContainerKinds
          /\ ~Refused /\ buckets # << >>
          /\ at' = buckets[Bucket(v, Len(buckets))]
          /\ pc' = "search"
          /\ UNCHANGED <<memory, root, v, encoder, builder>>

PassFrame == /\ pc = "search" /\ at \in DOMAIN open /\ Id(open[at].value) # Id(v)
             /\ at' = open[at].older
             /\ UNCHANGED <<memory, root, pc, v, encoder, builder>>

NullOnPath == pc = "search" /\ at \in DOMAIN open /\ Id(open[at].value) = Id(v) /\ Raw("null")

EnterSearched == pc = "search" /\ at = 0 /\ Push

\* item of an array.
Element ==
    LET f == Innermost
    IN  /\ pc = "next" /\ open # << >>
        /\ f.value.kind = "array" /\ f.next # f.value.length
        /\ buf' = buf \o Comma
        /\ needSep' = TRUE
        /\ open' = [open EXCEPT ![Len(open)].next = f.next + 1]
        /\ v' = memory[f.value.ptr][f.next + 1]
        /\ pc' = "value"
        /\ UNCHANGED <<memory, root, at, keys, buckets>>

\* item of an object, whose keys end where the stack of keys does.
Member ==
    LET f == Innermost
        k == keys[f.firstKey + f.next + 1]
    IN  /\ pc = "next" /\ open # << >>
        /\ f.value.kind = "object" /\ f.firstKey + f.next # Len(keys)
        /\ buf' = buf \o Keyed(k)
        /\ needSep' = TRUE
        /\ open' = [open EXCEPT ![Len(open)].next = f.next + 1]
        /\ v' = memory[f.value.ptr][k]
        /\ pc' = "value"
        /\ UNCHANGED <<memory, root, at, keys, buckets>>

Exhausted(f) == IF f.value.kind = "array" THEN f.next = f.value.length
                                          ELSE f.firstKey + f.next = Len(keys)

KeysLeft(f) == IF f.value.kind = "object" THEN SubSeq(keys, 1, f.firstKey) ELSE keys

\* Mutant of Unfiled: a closed container stays in its bucket.
UnfiledNever(f) == buckets

Unfiled(f) ==
    IF buckets = << >> THEN buckets
    ELSE [buckets EXCEPT ![Bucket(f.value, Len(buckets))] = f.older]

Close ==
    LET f == Innermost
    IN  /\ pc = "next" /\ open # << >> /\ Exhausted(f)
        /\ keys' = KeysLeft(f)
        /\ buckets' = Unfiled(f)
        /\ open' = SubSeq(open, 1, Len(open) - 1)
        /\ buf' = Append(buf, Closer[f.value.kind])
        /\ needSep' = TRUE
        /\ UNCHANGED <<memory, root, pc, v, at>>

Finish == pc = "next" /\ open = << >> /\ pc' = "done" /\ UNCHANGED <<memory, root, v, at, encoder, builder>>

Next == \/ Scalar \/ Null \/ EnterScanned
        \/ Search \/ PassFrame \/ NullOnPath \/ EnterSearched
        \/ Element \/ Member \/ Close \/ Finish

Spec == Init /\ [][Next]_vars

\* The loops of appendValue run on one goroutine that nothing in them blocks.
FairSpec == Spec /\ WF_vars(Next)

-----------------------------------------------------------------------------
TypeOK ==
    /\ pc \in {"value", "search", "next", "done"}
    /\ at \in Nat /\ (pc = "search" => at \in 0 .. Len(open))
    /\ \A k \in DOMAIN open :
        /\ open[k].value.kind \in ContainerKinds /\ open[k].value.ptr \in Pointers
        /\ open[k].older \in 0 .. k - 1
    /\ keys \in Seq(Keys)
    /\ \A b \in DOMAIN buckets : buckets[b] \in 0 .. Len(open)
    /\ needSep \in BOOLEAN

PathDistinct ==
    /\ Len(open) <= MaxDepth
    /\ \A j, k \in DOMAIN open : Id(open[j].value) = Id(open[k].value) => j = k

Newest(S) == IF S = {} THEN 0 ELSE CHOOSE j \in S : \A i \in S : i <= j

\* The newest frame of bucket b among the first n.
NewestIn(b, n) == Newest({j \in 1 .. n : Bucket(open[j].value, Len(buckets)) = b})

Chained ==
    buckets # << >> =>
        /\ \A k \in DOMAIN open : open[k].older = NewestIn(Bucket(open[k].value, Len(buckets)), k - 1)
        /\ \A b \in DOMAIN buckets : buckets[b] = NewestIn(b, Len(open))
        /\ Len(open) * BucketsPerFrame <= Len(buckets)

Objects == {k \in DOMAIN open : open[k].value.kind = "object"}

KeysOfOpen ==
    \A k \in Objects :
        LET inner == {j \in Objects : j > k}
            last  == IF inner = {} THEN Len(keys)
                     ELSE open[CHOOSE j \in inner : \A i \in inner : j <= i].firstKey
        IN  SubSeq(keys, open[k].firstKey + 1, last) = SortedKeys(DOMAIN memory[open[k].value.ptr])

\* No container is open twice; from the head of a bucket exactly its frames are met, from
\* the newest to the oldest, though frames close and are refiled into more buckets (index:
\* "refiles them all once fewer than bucketsPerFrame buckets per frame remain"); and the
\* keys of the open objects lie behind each other, those of the innermost at the end of
\* the stack that item compares with ("k == len(e.keys)").
OpenSound == TypeOK /\ PathDistinct /\ Chained /\ KeysOfOpen

\* Every value is written, cycles included: no search of a bucket goes round and no
\* container is entered without end.
Done == <>(pc = "done")

-----------------------------------------------------------------------------
(* The encoder as a caller of the Builder.                                 *)

Plain(token) == IF token = "null" THEN "scalar"
                ELSE IF \E n \in DOMAIN Names : Names[n] = token THEN "string" ELSE token

Calls == INSTANCE Builder WITH
    Lengths <- {},      \* the encoder writes neither arrays of strings nor raw members
    buf  <- [k \in 1 .. Len(buf) |-> Plain(buf[k])],
    open <- [k \in 1 .. Len(open) |-> open[k].value.kind],
    owed <- pc \in {"value", "search"} /\ open # << >>

\* Every step is a call of the Builder that its own contract allows, or none: keys in
\* objects only, a comma in arrays only, each followed by one value, closers that match.
CallsBuilder == Calls!Spec
=============================================================================
