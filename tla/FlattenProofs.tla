---------------------------- MODULE FlattenProofs ----------------------------
(***************************************************************************)
(* Flatten for every maxFlattenDepth, room of pending and set of names:    *)
(* its types, that every open object has its set or its pending names and  *)
(* that no kept name lies in room that was given back, and that it         *)
(* implements FlatLeaves.                                                  *)
(***************************************************************************)
EXTENDS Flatten, FiniteSetTheorems, SequenceTheorems, TLAPS

Kinds == {"object", "array"}

\* The objects from one level to another of a stack of kinds.
ObjectsOf(stack, from, to) == Cardinality({k \in from .. to : stack[k] = "object"})

\* The sets of the objects outside the leaves, of which there are s, have marks of nested.
SetsOutside == IF kinds = << >> THEN 0 ELSE Outside - (IF named THEN 0 ELSE 1)
ArenaOf(s, k) == IF k <= s THEN "nested" ELSE "arena"

\* A place whose room was not given back.
Written(p) == p[1] = "document" \/ p[2] \in 1 .. length[p[1]]

\* What the walker holds fits what the flattener does.
Control ==
    /\ next = "item" => kinds # << >>
    /\ next = "done" => kinds = << >>
    /\ kinds = << >> /\ next = "value" => token = None
    /\ IF kinds = << >> THEN leaf = 0 ELSE leaf < Len(kinds)
    /\ \A k \in 1 .. Outside : kinds[k] = "object"
    /\ leaf > 0 => /\ kinds[Outside + 1] = "array" /\ needSep
                   /\ next = "value" => ~comma
    /\ \A j \in 1 .. Len(pending) : pending[j] \in leaves

\* Kept names lie in room that is in use, and what will be given back holds none.
InUse == /\ \A p \in leaves : Written(p) /\ p[1] # "nested"
         /\ \A k \in 1 .. depth : \A p \in sets[k] : Written(p)

Marked(s) ==
    \A k \in 1 .. depth :
        /\ marks[k] <= length[ArenaOf(s, k)]
        /\ \A j \in 1 .. k - 1 :
              /\ ArenaOf(s, j) = ArenaOf(s, k) => marks[j] <= marks[k]
              /\ \A p \in sets[j] : p[1] = ArenaOf(s, k) => p[2] <= marks[k]
        /\ \A p \in leaves : p[1] = ArenaOf(s, k) => p[2] <= marks[k]

Stack(s) == s <= depth /\ Len(marks) = depth /\ InUse /\ Marked(s)

\* The name that keys the next value lies past the others of the arena.
NameWaits ==
    /\ \/ name[1] = "document" /\ length["arena"] = nameMark
       \/ name = <<"arena", nameMark + 1>> /\ length["arena"] = nameMark + 1
    /\ \A p \in leaves : p[1] = "arena" => p[2] <= nameMark
    /\ \A k \in 1 .. depth : \A p \in sets[k] : p[1] = "arena" => p[2] <= nameMark

IInv ==
    /\ TypeOK
    /\ Takes => /\ Control
                /\ depth = SetsOutside + ObjectsOf(kinds, Outside + 1, Len(kinds))
                /\ Stack(SetsOutside)
                /\ kinds # << >> /\ leaf = 0 /\ next = "value" => NameWaits

-----------------------------------------------------------------------------
(* The objects of a stack of kinds.                                        *)

LEMMA Counted ==
    ASSUME NEW stack, NEW from \in Nat, NEW k \in Nat
    PROVE  /\ ObjectsOf(stack, from, k) \in Nat
           /\ k < from => ObjectsOf(stack, from, k) = 0
           /\ IsFiniteSet({j \in from .. k : stack[j] = "object"})
<1> DEFINE all == from .. k
           some == {j \in all : stack[j] = "object"}
<1>1. IsFiniteSet(all)
    BY FS_Interval
<1>2. some \in SUBSET all
    OBVIOUS
<1>3. IsFiniteSet(some)
    <2> HIDE DEF all, some
    <2> QED BY <1>1, <1>2, FS_Subset
<1>4. Cardinality(some) \in Nat
    BY <1>3, FS_CardinalityType
<1>5. k < from => Cardinality(some) = 0
    <2> SUFFICES ASSUME k < from
                 PROVE  Cardinality(some) = 0
        OBVIOUS
    <2>1. some = {}
        OBVIOUS
    <2> QED BY <2>1, FS_EmptySet
<1> QED BY <1>3, <1>4, <1>5 DEF ObjectsOf

\* A container more counts if it is an object.
LEMMA CountedNext ==
    ASSUME NEW stack, NEW from \in Nat, NEW k \in Nat, from <= k + 1
    PROVE  ObjectsOf(stack, from, k + 1) =
              ObjectsOf(stack, from, k) + (IF stack[k + 1] = "object" THEN 1 ELSE 0)
<1> DEFINE some == {j \in from .. k : stack[j] = "object"}
           more == {j \in from .. (k + 1) : stack[j] = "object"}
<1>1. IsFiniteSet(some) /\ Cardinality(some) \in Nat
    BY Counted DEF ObjectsOf
<1>2. k + 1 \notin some
    OBVIOUS
<1>3. CASE stack[k + 1] = "object"
    <2>1. more = some \cup {k + 1}
        BY <1>3
    <2>2. Cardinality(some \cup {k + 1}) = Cardinality(some) + 1
        <3> HIDE DEF some
        <3> QED BY <1>1, <1>2, FS_AddElement
    <2> QED BY <2>1, <2>2, <1>3 DEF ObjectsOf
<1>4. CASE stack[k + 1] # "object"
    <2>1. more = some
        BY <1>4
    <2>2. ObjectsOf(stack, from, k + 1) = ObjectsOf(stack, from, k)
        BY <2>1 DEF ObjectsOf
    <2>3. ObjectsOf(stack, from, k) \in Nat
        BY Counted
    <2> QED BY <2>2, <2>3, <1>4
<1> QED BY <1>3, <1>4

LEMMA CountedSame ==
    ASSUME NEW one, NEW two, NEW from \in Nat, NEW k \in Nat,
           \A j \in from .. k : one[j] = two[j]
    PROVE  ObjectsOf(one, from, k) = ObjectsOf(two, from, k)
<1>1. {j \in from .. k : one[j] = "object"} = {j \in from .. k : two[j] = "object"}
    OBVIOUS
<1> QED BY <1>1 DEF ObjectsOf

LEMMA CountedMore ==
    ASSUME NEW stack, NEW from \in Nat, NEW k \in Nat, NEW l \in Nat, k <= l
    PROVE  ObjectsOf(stack, from, k) <= ObjectsOf(stack, from, l)
<1> DEFINE some == {j \in from .. k : stack[j] = "object"}
           more == {j \in from .. l : stack[j] = "object"}
<1>1. IsFiniteSet(more)
    BY Counted
<1>2. some \in SUBSET more
    OBVIOUS
<1> HIDE DEF some, more
<1>3. Cardinality(some) <= Cardinality(more)
    BY <1>1, <1>2, FS_Subset
<1> QED BY <1>3 DEF ObjectsOf, some, more

LEMMA Opens ==
    ASSUME kinds \in Seq(Kinds), NEW kind \in Kinds, kinds' = Append(kinds, kind)
    PROVE  /\ kinds' \in Seq(Kinds) /\ Len(kinds') = Len(kinds) + 1
           /\ kinds' # << >> /\ kinds'[Len(kinds')] = kind
           /\ \A k \in 1 .. Len(kinds) : kinds'[k] = kinds[k]
           /\ \A from \in 1 .. (Len(kinds) + 1), k \in 0 .. Len(kinds) :
                 ObjectsOf(kinds', from, k) = ObjectsOf(kinds, from, k)
           /\ \A from \in 1 .. (Len(kinds) + 1) :
                 ObjectsOf(kinds', from, Len(kinds')) = ObjectsOf(kinds, from, Len(kinds))
                                                     + (IF kind = "object" THEN 1 ELSE 0)
<1>1. Len(kinds) \in Nat
    BY LenProperties
<1>2. /\ kinds' \in Seq(Kinds) /\ Len(kinds') = Len(kinds) + 1
      /\ kinds' # << >> /\ kinds'[Len(kinds) + 1] = kind
      /\ \A k \in 1 .. Len(kinds) : kinds'[k] = kinds[k]
    BY AppendProperties
<1>3. \A from \in 1 .. (Len(kinds) + 1), k \in 0 .. Len(kinds) :
         ObjectsOf(kinds', from, k) = ObjectsOf(kinds, from, k)
    <2> TAKE from \in 1 .. (Len(kinds) + 1), k \in 0 .. Len(kinds)
    <2>1. from \in Nat /\ k \in Nat /\ \A j \in from .. k : kinds'[j] = kinds[j]
        BY <1>1, <1>2
    <2> QED BY <2>1, CountedSame
<1>4. \A from \in 1 .. (Len(kinds) + 1) :
         ObjectsOf(kinds', from, Len(kinds')) = ObjectsOf(kinds, from, Len(kinds))
                                             + (IF kind = "object" THEN 1 ELSE 0)
    <2> TAKE from \in 1 .. (Len(kinds) + 1)
    <2>1. from \in Nat /\ from <= Len(kinds) + 1
        BY <1>1
    <2>2. ObjectsOf(kinds', from, Len(kinds) + 1) =
             ObjectsOf(kinds', from, Len(kinds))
                + (IF kinds'[Len(kinds) + 1] = "object" THEN 1 ELSE 0)
        BY <2>1, <1>1, CountedNext
    <2>3. ObjectsOf(kinds', from, Len(kinds)) = ObjectsOf(kinds, from, Len(kinds))
        BY <1>1, <1>3
    <2> QED BY <2>2, <2>3, <1>2
<1> QED BY <1>2, <1>3, <1>4

LEMMA Closes ==
    ASSUME kinds \in Seq(Kinds), kinds # << >>, kinds' = SubSeq(kinds, 1, Len(kinds) - 1)
    PROVE  /\ kinds' \in Seq(Kinds) /\ Len(kinds') = Len(kinds) - 1 /\ Len(kinds') \in Nat
           /\ kinds[Len(kinds)] \in Kinds
           /\ kinds' = << >> <=> Len(kinds) = 1
           /\ \A k \in 1 .. Len(kinds') : kinds'[k] = kinds[k]
           /\ \A from \in 1 .. Len(kinds), k \in 0 .. Len(kinds') :
                 ObjectsOf(kinds', from, k) = ObjectsOf(kinds, from, k)
           /\ \A from \in 1 .. Len(kinds) :
                 ObjectsOf(kinds, from, Len(kinds)) =
                    ObjectsOf(kinds', from, Len(kinds'))
                       + (IF kinds[Len(kinds)] = "object" THEN 1 ELSE 0)
<1> DEFINE e == Len(kinds) - 1
<1>1. e \in Nat /\ Len(kinds) = e + 1
    BY EmptySeq, LenProperties
<1>2. \A j \in 1 .. e + 1 : kinds[j] \in Kinds
    BY <1>1, ElementOfSeq
<1>3. kinds' = SubSeq(kinds, 1, e)
    OBVIOUS
<1>9. Len(kinds) - 1 = e
    OBVIOUS
<1> HIDE DEF e
<1>4. kinds' \in Seq(Kinds) /\ Len(kinds') = e /\ \A k \in 1 .. e : kinds'[k] = kinds[k]
    BY <1>1, <1>2, <1>3, SubSeqProperties
<1>5. \A from \in 1 .. (e + 1), k \in 0 .. e : ObjectsOf(kinds', from, k) = ObjectsOf(kinds, from, k)
    <2> TAKE from \in 1 .. (e + 1), k \in 0 .. e
    <2>1. from \in Nat /\ k \in Nat /\ \A j \in from .. k : kinds'[j] = kinds[j]
        BY <1>1, <1>4
    <2> QED BY <2>1, CountedSame
<1>6. \A from \in 1 .. (e + 1) :
         ObjectsOf(kinds, from, e + 1) =
            ObjectsOf(kinds', from, e) + (IF kinds[e + 1] = "object" THEN 1 ELSE 0)
    <2> TAKE from \in 1 .. (e + 1)
    <2>1. from \in Nat /\ from <= e + 1
        BY <1>1
    <2>2. ObjectsOf(kinds, from, e + 1) =
             ObjectsOf(kinds, from, e) + (IF kinds[e + 1] = "object" THEN 1 ELSE 0)
        BY <2>1, <1>1, CountedNext
    <2> QED BY <2>2, <1>1, <1>5
<1>7. kinds[e + 1] \in Kinds
    BY <1>1, <1>2
<1>8. kinds' = << >> <=> e = 0
    BY <1>4, EmptySeq, LenProperties
<1> QED BY <1>1, <1>4, <1>5, <1>6, <1>7, <1>8, <1>9

-----------------------------------------------------------------------------
(* What the steps do to the arenas and the stacks.                         *)

ArenasOK ==
    /\ memory \in [Arenas -> Seq(Names)]
    /\ length \in [Arenas -> Nat] /\ \A a \in Arenas : length[a] <= Len(memory[a])

SetsOK ==
    /\ sets \in Seq(SUBSET Places) /\ depth \in 0 .. Len(sets)
    /\ marks \in Seq(Nat)
    /\ leaves \subseteq Places

LEMMA PlaceIs ==
    ASSUME NEW p \in Places
    PROVE  /\ p[1] \in {"document", "arena", "nested"}
           /\ p[1] = "document" => p[2] \in Names \union {None}
           /\ p[1] # "document" => p[1] \in Arenas /\ p[2] \in Nat
BY DEF Places, Arenas

LEMMA IsPlace ==
    /\ \A n \in Names \union {None} : InDocument(n) \in Places
    /\ \A k \in Nat : <<"arena", k>> \in Places /\ <<"nested", k>> \in Places
BY DEF Places, Arenas, InDocument

LEMMA ArenaNumbers ==
    ASSUME ArenasOK
    PROVE  \A a \in Arenas : /\ length[a] \in Nat /\ memory[a] \in Seq(Names)
                             /\ Len(memory[a]) \in Nat /\ length[a] <= Len(memory[a])
                             /\ \A p \in 1 .. Len(memory[a]) : memory[a][p] \in Names
<1> TAKE a \in Arenas
<1>1. memory[a] \in Seq(Names) /\ length[a] \in Nat /\ length[a] <= Len(memory[a])
    BY DEF ArenasOK
<1>2. Len(memory[a]) \in Nat
    BY <1>1, LenProperties
<1>3. \A p \in 1 .. Len(memory[a]) : memory[a][p] \in Names
    BY <1>1, ElementOfSeq
<1> QED BY <1>1, <1>2, <1>3

LEMMA SetsNumbers ==
    ASSUME SetsOK
    PROVE  /\ Len(sets) \in Nat /\ depth \in Nat /\ depth <= Len(sets)
           /\ Len(marks) \in Nat /\ \A k \in 1 .. Len(marks) : marks[k] \in Nat
           /\ \A k \in 1 .. Len(sets) : sets[k] \in SUBSET Places
           /\ \A k \in 1 .. depth : sets[k] \in SUBSET Places
<1>1. Len(sets) \in Nat /\ Len(marks) \in Nat
    BY LenProperties DEF SetsOK
<1>2. \A k \in 1 .. Len(marks) : marks[k] \in Nat
    BY ElementOfSeq DEF SetsOK
<1>3. \A k \in 1 .. Len(sets) : sets[k] \in SUBSET Places
    BY ElementOfSeq DEF SetsOK
<1> QED BY <1>1, <1>2, <1>3 DEF SetsOK

\* Writing a name leaves those before it, and overwrites what was given back.
LEMMA CarvedIs ==
    ASSUME ArenasOK, NEW a \in Arenas, NEW n \in Names, memory' = Carved(a, n)
    PROVE  /\ memory' \in [Arenas -> Seq(Names)]
           /\ \A b \in Arenas \ {a} : memory'[b] = memory[b]
           /\ length[a] + 1 <= Len(memory'[a])
           /\ \A p \in 1 .. length[a] : memory'[a][p] = memory[a][p]
           /\ memory'[a][length[a] + 1] = n
<1> DEFINE buf == memory[a]
           len == length[a]
           front == SubSeq(buf, 1, len)
           back == SubSeq(buf, len + 2, Len(buf))
           first == front \o <<n>>
           whole == first \o back
<1>1. /\ buf \in Seq(Names) /\ Len(buf) \in Nat /\ len \in Nat /\ len <= Len(buf)
      /\ \A i \in 1 .. Len(buf) : buf[i] \in Names
    BY ArenaNumbers
<1>2. memory' = [memory EXCEPT ![a] = whole]
    BY DEF Carved
<1>3. memory \in [Arenas -> Seq(Names)]
    BY DEF ArenasOK
<1> HIDE DEF buf, len
<1>4. front \in Seq(Names) /\ Len(front) = len /\ \A p \in 1 .. len : front[p] = buf[p]
    BY <1>1, SubSeqProperties
<1>5. back \in Seq(Names) /\ Len(back) \in Nat
    <2>1. \A i \in (len + 2) .. Len(buf) : buf[i] \in Names
        BY <1>1
    <2>2. back \in Seq(Names)
        BY <2>1, <1>1, SubSeqProperties
    <2> QED BY <2>2, LenProperties
<1>6. <<n>> \in Seq(Names) /\ Len(<<n>>) = 1 /\ <<n>>[1] = n
    OBVIOUS
<1> HIDE DEF front, back
<1>7. /\ first \in Seq(Names) /\ Len(first) = len + 1
      /\ \A p \in 1 .. len : first[p] = buf[p]
      /\ first[len + 1] = n
    <2>1. /\ first \in Seq(Names)
          /\ Len(first) = len + 1
          /\ \A i \in 1 .. len + 1 : first[i] = IF i <= len THEN front[i] ELSE <<n>>[i - len]
        BY <1>4, <1>6, ConcatProperties
    <2> QED BY <2>1, <1>1, <1>4, <1>6
<1> HIDE DEF first
<1>8. /\ whole \in Seq(Names)
      /\ Len(whole) = Len(first) + Len(back)
      /\ \A i \in 1 .. Len(first) + Len(back) :
            whole[i] = IF i <= Len(first) THEN first[i] ELSE back[i - Len(first)]
    BY <1>5, <1>7, ConcatProperties
<1> HIDE DEF whole
<1>9. /\ len + 1 <= Len(whole)
      /\ \A p \in 1 .. len + 1 : whole[p] = first[p]
    BY <1>1, <1>5, <1>7, <1>8
<1>10. /\ \A p \in 1 .. len : whole[p] = buf[p]
       /\ whole[len + 1] = n
    BY <1>1, <1>7, <1>9
<1>11. memory' \in [Arenas -> Seq(Names)] /\ memory'[a] = whole
       /\ \A b \in Arenas \ {a} : memory'[b] = memory[b]
    BY <1>2, <1>3, <1>8
<1> QED BY <1>9, <1>10, <1>11 DEF buf, len

LEMMA PushSets ==
    ASSUME SetsOK, ArenasOK, NEW a \in Arenas, NEW S \in SUBSET Places, Push(a, S)
    PROVE  /\ sets' \in Seq(SUBSET Places)
           /\ depth' = depth + 1 /\ depth' \in 0 .. Len(sets')
           /\ \A k \in 1 .. depth : sets'[k] = sets[k]
           /\ sets'[depth + 1] = S
           /\ marks' \in Seq(Nat) /\ Len(marks') = Len(marks) + 1
           /\ \A k \in 1 .. Len(marks) : marks'[k] = marks[k]
           /\ marks'[Len(marks) + 1] = length[a]
<1>0. /\ Len(sets) \in Nat /\ depth \in Nat /\ depth <= Len(sets)
      /\ Len(marks) \in Nat /\ length[a] \in Nat
    BY SetsNumbers, ArenaNumbers
<1>1. depth' = depth + 1 /\ marks' = Append(marks, length[a])
    BY DEF Push
<1>2. /\ sets' \in Seq(SUBSET Places) /\ Len(sets') \in Nat /\ depth + 1 <= Len(sets')
      /\ \A k \in 1 .. depth : sets'[k] = sets[k]
      /\ sets'[depth + 1] = S
    <2>1. CASE depth = Len(sets)
        <3>1. sets' = Append(sets, S)
            BY <2>1 DEF Push
        <3> QED BY <1>0, <3>1, <2>1, AppendProperties DEF SetsOK
    <2>2. CASE depth # Len(sets)
        <3>1. sets' = [sets EXCEPT ![depth + 1] = S]
            BY <2>2 DEF Push
        <3>2. depth + 1 \in 1 .. Len(sets)
            BY <1>0, <2>2
        <3>3. /\ sets' \in Seq(SUBSET Places) /\ Len(sets') = Len(sets)
              /\ \A k \in 1 .. Len(sets) : sets'[k] = IF k = depth + 1 THEN S ELSE sets[k]
            BY <3>1, <3>2, ExceptSeq DEF SetsOK
        <3> QED BY <1>0, <3>2, <3>3
    <2> QED BY <2>1, <2>2
<1>3. /\ marks' \in Seq(Nat) /\ Len(marks') = Len(marks) + 1
      /\ \A k \in 1 .. Len(marks) : marks'[k] = marks[k]
      /\ marks'[Len(marks) + 1] = length[a]
    BY <1>0, <1>1, AppendProperties DEF SetsOK
<1> QED BY <1>0, <1>1, <1>2, <1>3

LEMMA PopSets ==
    ASSUME SetsOK, ArenasOK, NEW a \in Arenas, Pop(a), depth >= 1, Len(marks) = depth
    PROVE  /\ sets' = sets /\ memory' = memory
           /\ depth' = depth - 1 /\ depth' \in 0 .. Len(sets')
           /\ marks' \in Seq(Nat) /\ Len(marks') = depth - 1
           /\ \A k \in 1 .. (depth - 1) : marks'[k] = marks[k]
           /\ marks[depth] \in Nat
           /\ length' = [length EXCEPT ![a] = marks[depth]]
           /\ length'[a] = marks[depth]
           /\ \A b \in Arenas \ {a} : length'[b] = length[b]
<1>0. /\ Len(sets) \in Nat /\ depth \in Nat /\ depth <= Len(sets)
      /\ \A k \in 1 .. Len(marks) : marks[k] \in Nat
    BY SetsNumbers
<1> DEFINE e == depth - 1
<1>1. e \in Nat /\ depth = e + 1
    BY <1>0
<1>2. /\ sets' = sets /\ memory' = memory /\ depth' = e
      /\ length' = [length EXCEPT ![a] = marks[depth]]
      /\ marks' = SubSeq(marks, 1, e)
    BY DEF Pop
<1>3. marks[depth] \in Nat
    BY <1>0, <1>1
<1>4. length'[a] = marks[depth] /\ \A b \in Arenas \ {a} : length'[b] = length[b]
    BY <1>2 DEF ArenasOK
<1> HIDE DEF e
<1>5. marks' \in Seq(Nat) /\ Len(marks') = e /\ \A k \in 1 .. e : marks'[k] = marks[k]
    <2>1. \A k \in 1 .. e : marks[k] \in Nat
        BY <1>0, <1>1
    <2> QED BY <2>1, <1>1, <1>2, SubSeqProperties
<1>6. depth - 1 = e
    BY <1>1
<1> QED BY <1>0, <1>1, <1>2, <1>3, <1>4, <1>5, <1>6

LEMMA JoinSets ==
    ASSUME SetsOK, depth >= 1, NEW S \in SUBSET Places, sets' = [sets EXCEPT ![depth] = S]
    PROVE  /\ sets' \in Seq(SUBSET Places) /\ Len(sets') = Len(sets)
           /\ \A k \in 1 .. (depth - 1) : sets'[k] = sets[k]
           /\ sets'[depth] = S
<1>0. /\ Len(sets) \in Nat /\ depth \in Nat /\ depth <= Len(sets)
      /\ sets \in Seq(SUBSET Places)
    BY SetsNumbers DEF SetsOK
<1>1. /\ sets' \in Seq(SUBSET Places) /\ Len(sets') = Len(sets)
      /\ \A k \in 1 .. Len(sets) : sets'[k] = IF k = depth THEN S ELSE sets[k]
    BY <1>0, ExceptSeq
<1> QED BY <1>0, <1>1

\* Nothing that is kept is lost, whatever is written.
KeepsNames ==
    /\ ArenasOK' /\ length["nested"] <= length'["nested"]
    /\ leaves' \subseteq Places
    /\ \A p \in leaves' : Written(p)' /\ p[1] # "nested"
    /\ \A k \in 1 .. depth : \A p \in sets[k] : Written(p)'

LEMMA PushedOutside ==
    ASSUME SetsOK, ArenasOK, NEW s \in Nat, s = depth, Stack(s), KeepsNames,
           NEW S \in SUBSET Places, \A p \in S : Written(p)', Push("nested", S)
    PROVE  SetsOK' /\ Stack(s + 1)'
<1>0. /\ depth \in Nat /\ Len(marks) = depth /\ length["nested"] \in Nat
      /\ length'["nested"] \in Nat /\ length["nested"] <= length'["nested"]
      /\ \A k \in 1 .. depth : marks[k] \in Nat
      /\ \A k \in 1 .. depth : sets[k] \in SUBSET Places
    BY SetsNumbers, ArenaNumbers DEF Stack, KeepsNames, Arenas, ArenasOK
<1>1. /\ sets' \in Seq(SUBSET Places)
      /\ depth' = depth + 1 /\ depth' \in 0 .. Len(sets')
      /\ \A k \in 1 .. depth : sets'[k] = sets[k]
      /\ sets'[depth + 1] = S
      /\ marks' \in Seq(Nat) /\ Len(marks') = depth + 1
      /\ \A k \in 1 .. depth : marks'[k] = marks[k]
      /\ marks'[depth + 1] = length["nested"]
    BY <1>0, PushSets DEF Arenas
<1>2. SetsOK'
    BY <1>1 DEF SetsOK, KeepsNames
<1>3. InUse'
    <2>1. ASSUME NEW k \in 1 .. (depth + 1), NEW p \in sets'[k]
          PROVE  Written(p)'
        <3>1. CASE k = depth + 1
            BY <3>1, <2>1, <1>1
        <3>2. CASE k \in 1 .. depth
            BY <3>2, <2>1, <1>1 DEF KeepsNames
        <3> QED BY <3>1, <3>2, <1>0
    <2> QED BY <2>1, <1>1 DEF InUse, KeepsNames
<1>4. Marked(s + 1)'
    <2> SUFFICES ASSUME NEW k \in 1 .. (depth + 1)
                 PROVE  /\ marks'[k] <= length'["nested"]
                        /\ \A j \in 1 .. k - 1 : /\ marks'[j] <= marks'[k]
                                                 /\ \A p \in sets'[j] : p[1] = "nested" => p[2] <= marks'[k]
        BY <1>0, <1>1, SMTT(30) DEF Marked, ArenaOf, KeepsNames
    <2>1. CASE k = depth + 1
        <3>1. \A j \in 1 .. depth : marks[j] <= length["nested"]
            BY <1>0 DEF Stack, Marked, ArenaOf
        <3>2. \A j \in 1 .. depth : \A p \in sets[j] : p[1] = "nested" => p[2] <= length["nested"]
            <4> SUFFICES ASSUME NEW j \in 1 .. depth, NEW p \in sets[j], p[1] = "nested"
                         PROVE  p[2] <= length["nested"]
                OBVIOUS
            <4>1. Written(p)
                BY DEF Stack, InUse
            <4> QED BY <4>1, <1>0 DEF Written
        <3>3. /\ k - 1 = depth /\ marks'[k] = length["nested"]
              /\ \A j \in 1 .. depth : marks'[j] = marks[j] /\ sets'[j] = sets[j]
            BY <2>1, <1>0, <1>1
        <3>4. marks'[k] <= length'["nested"]
            BY <3>3, <1>0
        <3> QED BY <3>1, <3>2, <3>3, <3>4
    <2>2. CASE k \in 1 .. depth
        <3>1. /\ marks[k] <= length["nested"]
              /\ \A j \in 1 .. k - 1 : /\ marks[j] <= marks[k]
                                       /\ \A p \in sets[j] : p[1] = "nested" => p[2] <= marks[k]
            BY <2>2, <1>0 DEF Stack, Marked, ArenaOf
        <3>2. marks'[k] = marks[k] /\ marks[k] \in Nat
              /\ \A j \in 1 .. k - 1 : marks'[j] = marks[j] /\ sets'[j] = sets[j]
            BY <2>2, <1>0, <1>1, SMTT(30)
        <3>3. marks'[k] <= length'["nested"]
            BY <3>1, <3>2, <1>0
        <3> QED BY <3>1, <3>2, <3>3
    <2> QED BY <2>1, <2>2, <1>0
<1> QED BY <1>0, <1>1, <1>2, <1>3, <1>4 DEF Stack

LEMMA PushedInside ==
    ASSUME SetsOK, ArenasOK, NEW s \in Nat, Stack(s),
           UNCHANGED <<memory, length, leaves>>, Push("arena", {})
    PROVE  SetsOK' /\ Stack(s)'
<1>0. /\ depth \in Nat /\ Len(marks) = depth /\ s <= depth
      /\ \A k \in 1 .. depth : marks[k] \in Nat
      /\ \A a \in Arenas : length[a] \in Nat
      /\ \A k \in 1 .. depth : sets[k] \in SUBSET Places
      /\ length["arena"] \in Nat
    BY SetsNumbers, ArenaNumbers DEF Stack, Arenas
<1>1. /\ sets' \in Seq(SUBSET Places)
      /\ depth' = depth + 1 /\ depth' \in 0 .. Len(sets')
      /\ \A k \in 1 .. depth : sets'[k] = sets[k]
      /\ sets'[depth + 1] = {}
      /\ marks' \in Seq(Nat) /\ Len(marks') = depth + 1
      /\ \A k \in 1 .. depth : marks'[k] = marks[k]
      /\ marks'[depth + 1] = length["arena"]
    BY <1>0, PushSets DEF Arenas
<1>2. SetsOK'
    BY <1>1 DEF SetsOK
<1>3. InUse'
    <2>1. ASSUME NEW k \in 1 .. (depth + 1), NEW p \in sets'[k]
          PROVE  Written(p)
        <3>1. CASE k = depth + 1
            BY <3>1, <2>1, <1>1
        <3>2. CASE k \in 1 .. depth
            BY <3>2, <2>1, <1>1 DEF Stack, InUse
        <3> QED BY <3>1, <3>2, <1>0
    <2>2. \A p : Written(p)' <=> Written(p)
        BY DEF Written
    <2> QED BY <2>1, <2>2, <1>1 DEF InUse, Stack
<1>4. Marked(s)'
    <2> SUFFICES ASSUME NEW k \in 1 .. (depth + 1)
                 PROVE  /\ marks'[k] <= length[ArenaOf(s, k)]
                        /\ \A j \in 1 .. k - 1 :
                              /\ ArenaOf(s, j) = ArenaOf(s, k) => marks'[j] <= marks'[k]
                              /\ \A p \in sets'[j] : p[1] = ArenaOf(s, k) => p[2] <= marks'[k]
                        /\ \A p \in leaves : p[1] = ArenaOf(s, k) => p[2] <= marks'[k]
        BY <1>0, <1>1 DEF Marked, ArenaOf
    <2>1. CASE k = depth + 1
        <3>1. ArenaOf(s, k) = "arena"
            BY <2>1, <1>0 DEF ArenaOf
        <3>2. \A j \in 1 .. depth : ArenaOf(s, j) = "arena" => marks[j] <= length["arena"]
            BY <1>0 DEF Stack, Marked
        <3>3. \A j \in 1 .. depth : \A p \in sets[j] : p[1] = "arena" => p[2] <= length["arena"]
            BY <1>0 DEF Stack, InUse, Written
        <3>4. \A p \in leaves : p[1] = "arena" => p[2] <= length["arena"]
            BY <1>0 DEF Stack, InUse, Written
        <3>5. /\ k - 1 = depth /\ marks'[k] = length["arena"]
              /\ \A j \in 1 .. depth : marks'[j] = marks[j] /\ sets'[j] = sets[j]
            BY <2>1, <1>0, <1>1
        <3>6. marks'[k] <= length["arena"]
            BY <3>5, <1>0
        <3> QED BY <3>1, <3>2, <3>3, <3>4, <3>5, <3>6
    <2>2. CASE k \in 1 .. depth
        <3>1. /\ marks[k] <= length[ArenaOf(s, k)]
              /\ \A j \in 1 .. k - 1 :
                    /\ ArenaOf(s, j) = ArenaOf(s, k) => marks[j] <= marks[k]
                    /\ \A p \in sets[j] : p[1] = ArenaOf(s, k) => p[2] <= marks[k]
              /\ \A p \in leaves : p[1] = ArenaOf(s, k) => p[2] <= marks[k]
            BY <2>2 DEF Stack, Marked
        <3>2. marks'[k] = marks[k]
              /\ \A j \in 1 .. k - 1 : marks'[j] = marks[j] /\ sets'[j] = sets[j]
            BY <2>2, <1>0, <1>1
        <3> QED BY <3>1, <3>2
    <2> QED BY <2>1, <2>2, <1>0
<1> QED BY <1>0, <1>1, <1>2, <1>3, <1>4 DEF Stack

\* The last set grows, or none does, and so may the arenas; leaves grow, and arena
\* shrinks, only outside.
LEMMA Joined ==
    ASSUME SetsOK, ArenasOK, NEW s \in Nat, Stack(s), KeepsNames,
           s = depth \/ (leaves' = leaves /\ length["arena"] <= length'["arena"]),
           UNCHANGED <<depth, marks>>,
           \/ sets' = sets
           \/ /\ depth >= 1
              /\ \E S \in SUBSET Places : sets' = [sets EXCEPT ![depth] = S]
              /\ \A p \in sets'[depth] : Written(p)'
    PROVE  SetsOK' /\ Stack(s)'
<1>0. /\ depth \in Nat /\ Len(marks) = depth /\ s <= depth
      /\ \A k \in 1 .. depth : marks[k] \in Nat
      /\ \A a \in Arenas : length[a] \in Nat /\ length'[a] \in Nat
      /\ length["nested"] <= length'["nested"]
      /\ \A k \in 1 .. depth : sets[k] \in SUBSET Places
    BY SetsNumbers, ArenaNumbers DEF Stack, KeepsNames, ArenasOK
<1>1. /\ sets' \in Seq(SUBSET Places) /\ Len(sets') = Len(sets)
      /\ \A k \in 1 .. (depth - 1) : sets'[k] = sets[k]
      /\ \A k \in 1 .. depth : \A p \in sets'[k] : Written(p)'
    <2>1. CASE sets' = sets
        BY <2>1, <1>0 DEF SetsOK, KeepsNames
    <2>2. CASE sets' # sets
        <3>1. PICK S \in SUBSET Places : sets' = [sets EXCEPT ![depth] = S]
            BY <2>2
        <3>2. /\ sets' \in Seq(SUBSET Places) /\ Len(sets') = Len(sets)
              /\ \A k \in 1 .. (depth - 1) : sets'[k] = sets[k]
              /\ sets'[depth] = S
            BY <2>2, <3>1, JoinSets
        <3>3. \A p \in sets'[depth] : Written(p)'
            BY <2>2
        <3>4. ASSUME NEW k \in 1 .. depth
              PROVE  \A p \in sets'[k] : Written(p)'
            <4>1. CASE k = depth
                BY <4>1, <3>3
            <4>2. CASE k # depth
                <5>1. sets'[k] = sets[k]
                    BY <4>2, <3>2, <1>0
                <5> QED BY <5>1 DEF KeepsNames
            <4> QED BY <4>1, <4>2
        <3> QED BY <3>2, <3>4
    <2> QED BY <2>1, <2>2
<1>2. SetsOK'
    BY <1>1 DEF SetsOK, KeepsNames
<1>3. InUse'
    BY <1>1 DEF InUse, KeepsNames
<1>4. Marked(s)'
    <2> SUFFICES ASSUME NEW k \in 1 .. depth
                 PROVE  /\ marks[k] <= length'[ArenaOf(s, k)]
                        /\ \A j \in 1 .. k - 1 :
                              /\ ArenaOf(s, j) = ArenaOf(s, k) => marks[j] <= marks[k]
                              /\ \A p \in sets'[j] : p[1] = ArenaOf(s, k) => p[2] <= marks[k]
                        /\ \A p \in leaves' : p[1] = ArenaOf(s, k) => p[2] <= marks[k]
        BY <1>0 DEF Marked, ArenaOf
    <2>1. /\ marks[k] <= length[ArenaOf(s, k)]
          /\ \A j \in 1 .. k - 1 :
                /\ ArenaOf(s, j) = ArenaOf(s, k) => marks[j] <= marks[k]
                /\ \A p \in sets[j] : p[1] = ArenaOf(s, k) => p[2] <= marks[k]
          /\ \A p \in leaves : p[1] = ArenaOf(s, k) => p[2] <= marks[k]
        BY DEF Stack, Marked
    <2>2. ArenaOf(s, k) \in Arenas /\ (s = depth => ArenaOf(s, k) = "nested")
        BY <1>0 DEF ArenaOf, Arenas
    <2>3. \A j \in 1 .. k - 1 : sets'[j] = sets[j]
        BY <1>0, <1>1
    <2>4. marks[k] <= length'[ArenaOf(s, k)]
        <3>1. length[ArenaOf(s, k)] <= length'[ArenaOf(s, k)]
            BY <2>2, <1>0 DEF Arenas
        <3> QED BY <3>1, <2>1, <2>2, <1>0
    <2>5. \A p \in leaves' : p[1] = ArenaOf(s, k) => p[2] <= marks[k]
        BY <2>1, <2>2 DEF KeepsNames
    <2> QED BY <2>1, <2>3, <2>4, <2>5
<1> QED BY <1>0, <1>2, <1>3, <1>4 DEF Stack

\* What the innermost set's mark gives back holds no name of another.
LEMMA Popped ==
    ASSUME SetsOK, ArenasOK, NEW s \in Nat, Stack(s), depth >= 1, leaves' = leaves,
           Pop(ArenaOf(s, depth)),
           NEW t \in Nat, t = IF s = depth THEN s - 1 ELSE s
    PROVE  ArenasOK' /\ SetsOK' /\ Stack(t)'
<1> DEFINE a == ArenaOf(s, depth)
<1>0. /\ depth \in Nat /\ Len(marks) = depth /\ s <= depth
      /\ \A k \in 1 .. depth : marks[k] \in Nat
      /\ \A b \in Arenas : length[b] \in Nat /\ length[b] <= Len(memory[b])
      /\ \A k \in 1 .. depth : sets[k] \in SUBSET Places
      /\ a \in Arenas /\ depth \in 1 .. depth
    BY SetsNumbers, ArenaNumbers DEF Stack, ArenaOf, Arenas
<1>1. /\ sets' = sets /\ memory' = memory
      /\ depth' = depth - 1 /\ depth' \in 0 .. Len(sets')
      /\ marks' \in Seq(Nat) /\ Len(marks') = depth - 1
      /\ \A k \in 1 .. (depth - 1) : marks'[k] = marks[k]
      /\ length' = [length EXCEPT ![a] = marks[depth]]
      /\ length'[a] = marks[depth]
      /\ \A b \in Arenas \ {a} : length'[b] = length[b]
    BY <1>0, PopSets
<1>2. /\ marks[depth] <= length[a]
      /\ \A j \in 1 .. depth - 1 :
            /\ ArenaOf(s, j) = a => marks[j] <= marks[depth]
            /\ \A p \in sets[j] : p[1] = a => p[2] <= marks[depth]
      /\ \A p \in leaves : p[1] = a => p[2] <= marks[depth]
    BY <1>0 DEF Stack, Marked
<1>3. \A k \in 1 .. (depth - 1) : ArenaOf(t, k) = ArenaOf(s, k) /\ ArenaOf(s, k) \in Arenas
    BY <1>0 DEF ArenaOf, Arenas
<1> HIDE DEF a
<1>4. ArenasOK'
    <2>1. marks[depth] \in Nat
        BY <1>0
    <2>2. length' \in [Arenas -> Nat]
        BY <1>0, <1>1, <2>1 DEF ArenasOK
    <2>3. marks[depth] <= Len(memory[a])
        <3>1. length[a] \in Nat /\ length[a] <= Len(memory[a]) /\ Len(memory[a]) \in Nat
            BY <1>0, ArenaNumbers
        <3> QED BY <3>1, <2>1, <1>2
    <2>4. \A b \in Arenas : length'[b] <= Len(memory'[b])
        BY <2>3, <1>0, <1>1
    <2> QED BY <2>2, <2>4, <1>1 DEF ArenasOK
<1>5. SetsOK'
    BY <1>1 DEF SetsOK
<1>6. ASSUME NEW p \in Places, Written(p), p[1] = a => p[2] <= marks[depth]
      PROVE  Written(p)'
    <2>1. CASE p[1] = "document"
        BY <2>1 DEF Written
    <2>2. CASE p[1] # "document"
        <3>1. p[1] \in Arenas /\ p[2] \in Nat
            BY <2>2, PlaceIs
        <3>2. p[2] \in 1 .. length[p[1]]
            BY <2>2, <1>6 DEF Written
        <3>3. p[2] \in 1 .. length'[p[1]]
            BY <3>1, <3>2, <1>0, <1>1, <1>6
        <3> QED BY <3>3 DEF Written
    <2> QED BY <2>1, <2>2
<1>7. InUse'
    <2>1. \A p \in leaves : Written(p)' /\ p[1] # "nested"
        BY <1>2, <1>6 DEF SetsOK, Stack, InUse
    <2>2. \A k \in 1 .. (depth - 1) : \A p \in sets[k] : Written(p)'
        <3> TAKE k \in 1 .. (depth - 1)
        <3> TAKE p \in sets[k]
        <3>1. k \in 1 .. depth
            BY <1>0
        <3>2. Written(p) /\ p \in Places
            BY <3>1, <1>0 DEF Stack, InUse
        <3> QED BY <3>2, <1>2, <1>6
    <2> QED BY <2>1, <2>2, <1>1 DEF InUse
<1>8. Marked(t)'
    <2> SUFFICES ASSUME NEW k \in 1 .. (depth - 1)
                 PROVE  /\ marks[k] <= length'[ArenaOf(s, k)]
                        /\ \A j \in 1 .. k - 1 :
                              /\ ArenaOf(s, j) = ArenaOf(s, k) => marks[j] <= marks[k]
                              /\ \A p \in sets[j] : p[1] = ArenaOf(s, k) => p[2] <= marks[k]
                        /\ \A p \in leaves : p[1] = ArenaOf(s, k) => p[2] <= marks[k]
        <3>1. \A k \in 1 .. (depth - 1) :
                 /\ marks'[k] = marks[k] /\ ArenaOf(t, k) = ArenaOf(s, k)
                 /\ \A j \in 1 .. k - 1 : marks'[j] = marks[j] /\ ArenaOf(t, j) = ArenaOf(s, j)
            BY <1>0, <1>1, <1>3, SMTT(30)
        <3> QED BY <3>1, <1>1 DEF Marked
    <2>1. /\ marks[k] <= length[ArenaOf(s, k)]
          /\ \A j \in 1 .. k - 1 :
                /\ ArenaOf(s, j) = ArenaOf(s, k) => marks[j] <= marks[k]
                /\ \A p \in sets[j] : p[1] = ArenaOf(s, k) => p[2] <= marks[k]
          /\ \A p \in leaves : p[1] = ArenaOf(s, k) => p[2] <= marks[k]
        <3>1. k \in 1 .. depth
            BY <1>0
        <3> QED BY <3>1 DEF Stack, Marked
    <2>2. marks[k] <= length'[ArenaOf(s, k)]
        <3>1. CASE ArenaOf(s, k) = a
            BY <3>1, <1>1, <1>2
        <3>2. CASE ArenaOf(s, k) # a
            BY <3>2, <2>1, <1>1, <1>3
        <3> QED BY <3>1, <3>2
    <2> QED BY <2>1, <2>2
<1>9. Len(marks') = depth' /\ t <= depth'
    BY <1>0, <1>1
<1> QED BY <1>4, <1>5, <1>7, <1>8, <1>9 DEF Stack

-----------------------------------------------------------------------------
(* What the handlers of names do.                                          *)

LEMMA Numbers ==
    ASSUME IInv, Takes
    PROVE  /\ ArenasOK /\ SetsOK /\ Control
           /\ kinds \in Seq(Kinds) /\ Len(kinds) \in Nat /\ leaf \in Nat
           /\ kinds # << >> <=> Len(kinds) >= 1
           /\ kinds # << >> => Outside >= 1 /\ kinds[Len(kinds)] \in Kinds
           /\ Outside \in Nat /\ Outside <= Len(kinds)
           /\ SetsOutside \in Nat /\ Stack(SetsOutside) /\ depth \in Nat
           /\ ObjectsOf(kinds, Outside + 1, Len(kinds)) \in Nat
           /\ depth = SetsOutside + ObjectsOf(kinds, Outside + 1, Len(kinds))
           /\ leaf = 0 => /\ Outside = Len(kinds) /\ depth = SetsOutside
                          /\ kinds # << >> => kinds[Len(kinds)] = "object"
           /\ pending \in Seq(Places) /\ Len(pending) \in Nat /\ Len(pending) <= InlineNames
           /\ named \in BOOLEAN
<1>1. /\ ArenasOK /\ SetsOK /\ kinds \in Seq(Kinds) /\ leaf \in Nat
      /\ pending \in Seq(Places) /\ Len(pending) <= InlineNames /\ named \in BOOLEAN
    BY DEF IInv, TypeOK, ArenasOK, SetsOK, Kinds
<1>2. /\ Control /\ Stack(SetsOutside)
      /\ depth = SetsOutside + ObjectsOf(kinds, Outside + 1, Len(kinds))
    BY DEF IInv
<1>3. Len(kinds) \in Nat /\ Len(pending) \in Nat /\ depth \in Nat
      /\ (kinds # << >> <=> Len(kinds) >= 1)
    BY <1>1, LenProperties, EmptySeq, SetsNumbers
<1>4. /\ Outside \in Nat /\ Outside <= Len(kinds)
      /\ kinds # << >> => Outside >= 1
      /\ leaf = 0 => Outside = Len(kinds)
    BY <1>1, <1>2, <1>3 DEF Control, Outside
<1>5. SetsOutside \in Nat
    BY <1>1, <1>4 DEF SetsOutside
<1>6. /\ ObjectsOf(kinds, Outside + 1, Len(kinds)) \in Nat
      /\ Len(kinds) < Outside + 1 => ObjectsOf(kinds, Outside + 1, Len(kinds)) = 0
    <2>1. Outside + 1 \in Nat
        BY <1>4
    <2> QED BY <2>1, <1>3, Counted
<1>7. kinds # << >> => kinds[Len(kinds)] \in Kinds
    BY <1>1, <1>3, ElementOfSeq
<1>8. leaf = 0 => /\ depth = SetsOutside
                  /\ kinds # << >> => kinds[Len(kinds)] = "object"
    BY <1>2, <1>3, <1>4, <1>5, <1>6 DEF Control
<1> QED BY <1>1, <1>2, <1>3, <1>4, <1>5, <1>6, <1>7, <1>8

\* The names kept of the innermost object outside the leaves.
LEMMA KeptIs ==
    ASSUME IInv, Takes, kinds # << >>, leaf = 0
    PROVE  /\ SetsOutside = depth /\ depth = Len(kinds) - (IF named THEN 0 ELSE 1)
           /\ Kept \subseteq Places
           /\ \A p \in Kept : Written(p)
           /\ named => Kept = sets[depth] /\ depth >= 1
           /\ ~named => Kept \subseteq leaves
<1>0. /\ ArenasOK /\ SetsOK /\ Control /\ Stack(SetsOutside)
      /\ Len(kinds) \in Nat /\ Len(kinds) >= 1 /\ Outside = Len(kinds)
      /\ depth = SetsOutside /\ pending \in Seq(Places) /\ Len(pending) \in Nat
      /\ named \in BOOLEAN
    BY Numbers
<1>1. depth = Len(kinds) - (IF named THEN 0 ELSE 1)
    BY <1>0 DEF SetsOutside
<1>2. CASE named
    <2>1. depth >= 1 /\ depth \in 1 .. depth
        BY <1>0, <1>1, <1>2
    <2>2. sets[depth] \in SUBSET Places /\ \A p \in sets[depth] : Written(p)
        BY <2>1, <1>0, SetsNumbers DEF Stack, InUse
    <2> QED BY <2>1, <2>2, <1>0, <1>1, <1>2 DEF Kept
<1>3. CASE ~named
    <2>1. Kept \subseteq leaves
        BY <1>0, <1>3 DEF Kept, Control
    <2>2. \A p \in leaves : p \in Places /\ Written(p)
        BY <1>0 DEF SetsOK, Stack, InUse
    <2> QED BY <2>1, <2>2, <1>0, <1>1, <1>3
<1> QED BY <1>0, <1>2, <1>3

LEMMA WithIs ==
    ASSUME NEW S, NEW p
    PROVE  With(S, p) \in {S, S \union {p}} /\ (~Holds(S, p) => With(S, p) = S \union {p})
BY DEF With

LEMMA Filed ==
    ASSUME IInv, Takes, kinds # << >>, leaf = 0, KeepsNames, leaves \subseteq leaves',
           NEW place \in Places, Written(place)', File(place),
           NEW m \in Nat, m = Len(kinds)
    PROVE  /\ SetsOK' /\ Stack(m)' /\ depth' = m
           /\ \A k \in 1 .. (Len(kinds) - 1) : sets'[k] = sets[k]
           /\ sets'[Len(kinds)] = With(Kept, place)
<1>0. /\ ArenasOK /\ SetsOK /\ Stack(SetsOutside) /\ depth = SetsOutside /\ depth \in Nat
      /\ Len(kinds) \in Nat /\ depth = Len(kinds) - (IF named THEN 0 ELSE 1)
      /\ named => Kept = sets[depth] /\ depth >= 1
      /\ ~named => Kept \subseteq leaves
      /\ Kept \subseteq Places
    BY Numbers, KeptIs
<1>1. PICK s \in Nat : s = depth /\ Stack(s)
    BY <1>0
<1>2. PICK S \in SUBSET Places : S = With(Kept, place)
    BY <1>0, WithIs
<1>3. \A p \in S : p \in Kept \/ p = place
    BY <1>2, WithIs
<1>4. \A p \in Kept : Written(p)'
    <2>1. CASE named
        <3>1. depth \in 1 .. depth
            BY <1>0, <2>1
        <3> QED BY <3>1, <1>0, <2>1 DEF KeepsNames
    <2>2. CASE ~named
        BY <1>0, <2>2 DEF KeepsNames
    <2> QED BY <2>1, <2>2
<1>5. \A p \in S : Written(p)'
    BY <1>3, <1>4
<1>6. CASE named
    <2>1. sets' = [sets EXCEPT ![depth] = S] /\ UNCHANGED <<depth, marks>>
        BY <1>2, <1>6 DEF File
    <2>2. /\ \A k \in 1 .. (depth - 1) : sets'[k] = sets[k]
          /\ sets'[depth] = S
        BY <2>1, <1>0, <1>6, JoinSets
    <2>3. SetsOK' /\ Stack(s)'
        BY <2>1, <2>2, <1>0, <1>1, <1>5, <1>6, Joined
    <2>4. s = m
        BY <1>0, <1>1, <1>6
    <2> QED BY <2>1, <2>2, <2>3, <2>4, <1>1, <1>2
<1>7. CASE ~named
    <2>1. Push("nested", S)
        BY <1>2, <1>7 DEF File
    <2>2. SetsOK' /\ Stack(s + 1)'
        BY <2>1, <1>0, <1>1, <1>5, PushedOutside
    <2>3. /\ depth' = depth + 1
          /\ \A k \in 1 .. depth : sets'[k] = sets[k]
          /\ sets'[depth + 1] = S
        BY <2>1, <1>0, PushSets DEF Arenas
    <2>4. s + 1 = m
        BY <1>0, <1>1, <1>7
    <2> QED BY <2>2, <2>3, <2>4, <1>0, <1>1, <1>2, <1>7
<1> QED BY <1>0, <1>6, <1>7

\* A name is read to where nothing lies.
LEMMA TokenIs ==
    ASSUME ArenasOK, NEW n \in Names,
           NEW place \in {InDocument(n), <<"arena", length["arena"] + 1>>}, StrictToken(n, place)
    PROVE  /\ ArenasOK' /\ length'["nested"] = length["nested"]
           /\ length'["arena"] = length["arena"] + (IF place[1] = "arena" THEN 1 ELSE 0)
           /\ place \in Places /\ Written(place)' /\ TextIn(memory', place) = n
           /\ place[1] = "document" \/ place = <<"arena", length["arena"] + 1>>
           /\ \A p \in Places : Written(p) => Written(p)' /\ TextIn(memory', p) = Text(p)
<1>0. /\ "arena" \in Arenas /\ "nested" \in Arenas
      /\ length["arena"] \in Nat /\ length["nested"] \in Nat
      /\ \A a \in Arenas : length[a] \in Nat
    BY ArenaNumbers DEF Arenas
<1>1. CASE place = InDocument(n)
    <2>1. UNCHANGED <<memory, length>>
        BY <1>1 DEF StrictToken, InDocument, arenas
    <2>2. place \in Places /\ place[1] = "document" /\ place[2] = n
        BY <1>1, IsPlace DEF InDocument
    <2>3. ArenasOK'
        BY <2>1 DEF ArenasOK
    <2>4. Written(place)' /\ TextIn(memory', place) = n
        BY <2>2 DEF Written, TextIn
    <2>5. \A p \in Places : Written(p) => Written(p)' /\ TextIn(memory', p) = Text(p)
        BY <2>1 DEF Written, Text
    <2> QED BY <2>1, <2>2, <2>3, <2>4, <2>5, <1>0
<1>2. CASE place = <<"arena", length["arena"] + 1>>
    <2>1. place[1] = "arena" /\ place[2] = length["arena"] + 1
        BY <1>2
    <2>2. memory' = Carved("arena", n) /\ length' = [length EXCEPT !["arena"] = length["arena"] + 1]
        BY <2>1 DEF StrictToken
    <2>3. /\ memory' \in [Arenas -> Seq(Names)]
          /\ memory'["nested"] = memory["nested"]
          /\ length["arena"] + 1 <= Len(memory'["arena"])
          /\ \A p \in 1 .. length["arena"] : memory'["arena"][p] = memory["arena"][p]
          /\ memory'["arena"][length["arena"] + 1] = n
        BY <2>2, <1>0, CarvedIs
    <2>4. /\ length' \in [Arenas -> Nat]
          /\ length'["arena"] = length["arena"] + 1 /\ length'["nested"] = length["nested"]
        BY <2>2, <1>0 DEF ArenasOK, Arenas
    <2>5. ArenasOK'
        <3>1. \A a \in Arenas : length'[a] <= Len(memory'[a])
            BY <2>3, <2>4 DEF Arenas, ArenasOK
        <3> QED BY <2>3, <2>4, <3>1 DEF ArenasOK
    <2>6. place \in Places
        <3>1. length["arena"] + 1 \in Nat
            BY <1>0
        <3> QED BY <3>1, <1>2 DEF Places, Arenas
    <2>7. Written(place)' /\ TextIn(memory', place) = n
        BY <2>1, <2>3, <2>4, <1>0 DEF Written, TextIn
    <2>8. ASSUME NEW p \in Places, Written(p)
          PROVE  Written(p)' /\ TextIn(memory', p) = Text(p)
        <3>1. CASE p[1] = "document"
            BY <3>1 DEF Written, Text, TextIn
        <3>2. CASE p[1] = "arena"
            <4>1. p[2] \in 1 .. length["arena"]
                BY <3>2, <2>8 DEF Written
            <4> QED BY <3>2, <4>1, <1>0, <2>3, <2>4 DEF Written, Text, TextIn
        <3>3. CASE p[1] = "nested"
            BY <3>3, <2>8, <2>3, <2>4 DEF Written, Text, TextIn
        <3> QED BY <3>1, <3>2, <3>3, PlaceIs
    <2> QED BY <2>1, <2>4, <2>5, <2>6, <2>7, <2>8, <1>2
<1> QED BY <1>1, <1>2

\* A decoded name moves from the end of arena to that of nested.
LEMMA MoveIs ==
    ASSUME ArenasOK, nameMark \in Nat, length["arena"] = nameMark + 1,
           name = <<"arena", nameMark + 1>>,
           NEW place, place = <<"nested", length["nested"] + 1>>,
           memory' = Carved("nested", Text(name)),
           length' = [arena |-> nameMark, nested |-> length["nested"] + 1]
    PROVE  /\ ArenasOK' /\ length'["nested"] = length["nested"] + 1
           /\ length'["arena"] = nameMark
           /\ place \in Places /\ Written(place)' /\ TextIn(memory', place) = Text(name)
           /\ \A p \in Places : Written(p) /\ (p[1] = "arena" => p[2] <= nameMark)
                                   => Written(p)' /\ TextIn(memory', p) = Text(p)
<1>0. /\ "arena" \in Arenas /\ "nested" \in Arenas
      /\ length["arena"] \in Nat /\ length["nested"] \in Nat
      /\ length["arena"] <= Len(memory["arena"]) /\ Len(memory["arena"]) \in Nat
      /\ \A p \in 1 .. Len(memory["arena"]) : memory["arena"][p] \in Names
    BY ArenaNumbers DEF Arenas
<1>1. Text(name) \in Names
    <2>1. Text(name) = memory["arena"][nameMark + 1]
        BY DEF Text, TextIn
    <2>2. nameMark + 1 \in 1 .. Len(memory["arena"])
        BY <1>0
    <2> QED BY <2>1, <2>2, <1>0
<1>2. /\ memory' \in [Arenas -> Seq(Names)]
      /\ memory'["arena"] = memory["arena"]
      /\ length["nested"] + 1 <= Len(memory'["nested"])
      /\ \A p \in 1 .. length["nested"] : memory'["nested"][p] = memory["nested"][p]
      /\ memory'["nested"][length["nested"] + 1] = Text(name)
    BY <1>0, <1>1, CarvedIs
<1>3. /\ length' \in [Arenas -> Nat]
      /\ length'["arena"] = nameMark /\ length'["nested"] = length["nested"] + 1
    BY <1>0 DEF Arenas
<1>4. ArenasOK'
    <2>1. length'["arena"] <= Len(memory'["arena"])
        BY <1>0, <1>2, <1>3
    <2>2. length'["nested"] <= Len(memory'["nested"])
        BY <1>0, <1>2, <1>3
    <2> QED BY <2>1, <2>2, <1>2, <1>3 DEF ArenasOK, Arenas
<1>5. place \in Places
    <2>1. length["nested"] + 1 \in Nat
        BY <1>0
    <2> QED BY <2>1 DEF Places, Arenas
<1>6. Written(place)' /\ TextIn(memory', place) = Text(name)
    BY <1>0, <1>2, <1>3 DEF Written, TextIn
<1>7. ASSUME NEW p \in Places, Written(p), p[1] = "arena" => p[2] <= nameMark
      PROVE  Written(p)' /\ TextIn(memory', p) = Text(p)
    <2>1. CASE p[1] = "document"
        BY <2>1 DEF Written, Text, TextIn
    <2>2. CASE p[1] = "arena"
        <3>1. p[2] \in 1 .. nameMark
            BY <2>2, <1>7 DEF Written
        <3> QED BY <2>2, <3>1, <1>2, <1>3 DEF Written, Text, TextIn
    <2>3. CASE p[1] = "nested"
        <3>1. p[2] \in 1 .. length["nested"]
            BY <2>3, <1>7 DEF Written
        <3> QED BY <2>3, <3>1, <1>0, <1>2, <1>3 DEF Written, Text, TextIn
    <2> QED BY <2>1, <2>2, <2>3, PlaceIs
<1> QED BY <1>3, <1>4, <1>5, <1>6, <1>7

LEMMA LeafNamed ==
    ASSUME IInv, Takes, kinds # << >>, leaf = 0, NameWaits, LeafName,
           NEW m \in Nat, m = Len(kinds)
    PROVE  /\ ArenasOK' /\ SetsOK' /\ memory' = memory
           /\ pending' \in Seq(Places) /\ Len(pending') <= InlineNames
           /\ named' \in BOOLEAN /\ repeated' \in BOOLEAN
           /\ name' = name /\ nameMark' = nameMark
           /\ \E t \in Nat : t = m - (IF named' THEN 0 ELSE 1) /\ depth' = t /\ Stack(t)'
           /\ ~repeated' => \A j \in 1 .. Len(pending') : pending'[j] \in leaves'
<1>0. /\ ArenasOK /\ SetsOK /\ Stack(SetsOutside) /\ Control
      /\ depth = SetsOutside /\ depth \in Nat /\ m >= 1
      /\ depth = m - (IF named THEN 0 ELSE 1)
      /\ pending \in Seq(Places) /\ Len(pending) \in Nat /\ Len(pending) <= InlineNames
      /\ named \in BOOLEAN
    BY Numbers, KeptIs
<1>1. name \in Places /\ Written(name) /\ name[1] # "nested"
    <2>1. name \in Places /\ nameMark \in Nat
        BY DEF IInv, TypeOK
    <2> QED BY <2>1 DEF NameWaits, Written
<1>2. /\ UNCHANGED <<memory, length>> /\ name' = name /\ nameMark' = nameMark
      /\ leaves' = With(leaves, name)
    BY DEF LeafName, arenas
<1>3. ArenasOK'
    BY <1>0, <1>2 DEF ArenasOK
<1>4. /\ leaves \subseteq leaves' /\ leaves' \subseteq leaves \union {name}
      /\ ~Holds(leaves, name) => name \in leaves'
    BY <1>2, WithIs
<1>5. \A p : Written(p)' <=> Written(p)
    BY <1>2 DEF Written
<1>6. KeepsNames
    <2>1. length["nested"] <= length'["nested"]
        BY <1>0, <1>2, ArenaNumbers DEF Arenas
    <2>2. leaves' \subseteq Places
        BY <1>0, <1>1, <1>4 DEF SetsOK
    <2>3. \A p \in leaves' : Written(p)' /\ p[1] # "nested"
        BY <1>0, <1>1, <1>4, <1>5 DEF Stack, InUse
    <2>4. \A k \in 1 .. depth : \A p \in sets[k] : Written(p)'
        BY <1>0, <1>5 DEF Stack, InUse
    <2> QED BY <1>3, <2>1, <2>2, <2>3, <2>4 DEF KeepsNames
<1>7. CASE ~named /\ Len(pending) < InlineNames
    <2>1. /\ pending' = Append(pending, name) /\ repeated' = Holds(leaves, name)
          /\ UNCHANGED <<sets, depth, marks, named>>
        BY <1>7 DEF LeafName, open
    <2>2. /\ pending' \in Seq(Places) /\ Len(pending') = Len(pending) + 1
          /\ \A j \in 1 .. Len(pending) : pending'[j] = pending[j]
          /\ pending'[Len(pending) + 1] = name
        BY <2>1, <1>0, <1>1, AppendProperties
    <2>3. InlineNames \in Nat
        BY FlattenAssumption
    <2>4. Len(pending') <= InlineNames
        BY <2>2, <2>3, <1>0, <1>7
    <2>5. PICK t \in Nat : t = depth /\ Stack(t)
        BY <1>0
    <2>6. SetsOK' /\ Stack(t)'
        BY <2>1, <2>5, <1>0, <1>6, Joined
    <2>7. ASSUME ~repeated', NEW j \in 1 .. Len(pending')
          PROVE  pending'[j] \in leaves'
        <3>1. name \in leaves'
            BY <2>1, <2>7, <1>4
        <3>2. \A i \in 1 .. Len(pending) : pending[i] \in leaves'
            BY <1>0, <1>4 DEF Control
        <3>3. CASE j = Len(pending) + 1
            BY <3>1, <3>3, <2>2
        <3>4. CASE j \in 1 .. Len(pending)
            BY <3>2, <3>4, <2>2
        <3> QED BY <3>3, <3>4, <2>2, <1>0
    <2>8. repeated' \in BOOLEAN
        BY <2>1 DEF Holds
    <2> QED BY <2>1, <2>2, <2>4, <2>5, <2>6, <2>7, <2>8, <1>0, <1>2, <1>3, <1>7
<1>8. CASE ~(~named /\ Len(pending) < InlineNames)
    <2>1. /\ File(name) /\ repeated' = (Holds(leaves, name) \/ Holds(Kept, name))
          /\ named' = TRUE /\ pending' = pending
        BY <1>8 DEF LeafName
    <2>2. SetsOK' /\ Stack(m)' /\ depth' = m
        BY <2>1, <1>1, <1>4, <1>5, <1>6, Filed
    <2>3. \A j \in 1 .. Len(pending') : pending'[j] \in leaves'
        BY <2>1, <1>0, <1>4 DEF Control
    <2>4. repeated' \in BOOLEAN
        BY <2>1 DEF Holds
    <2> QED BY <2>1, <2>2, <2>3, <2>4, <1>0, <1>2, <1>3
<1> QED BY <1>7, <1>8

LEMMA Entered ==
    ASSUME IInv, Takes, kinds # << >>, leaf = 0, NameWaits, Moved, leaves' = leaves,
           NEW m \in Nat, m = Len(kinds)
    PROVE  /\ ArenasOK' /\ SetsOK' /\ depth' = m /\ Stack(m)'
           /\ repeated' \in BOOLEAN
           /\ \E place \in Places :
                 /\ File(place) /\ Written(place)' /\ TextIn(memory', place) = Text(name)
                 /\ repeated' = Holds(Kept, place)
                 /\ \A k \in 1 .. (m - 1) : sets'[k] = sets[k]
                 /\ sets'[m] = With(Kept, place)
           /\ \A p \in Places : Written(p) /\ (p[1] = "arena" => p[2] <= nameMark)
                                   => Written(p)' /\ TextIn(memory', p) = Text(p)
<1>0. /\ ArenasOK /\ SetsOK /\ Stack(SetsOutside)
      /\ name \in Places /\ nameMark \in Nat /\ length["nested"] \in Nat
    BY Numbers, ArenaNumbers DEF IInv, TypeOK, Arenas
<1>1. PICK place \in Places :
         /\ ArenasOK' /\ length["nested"] <= length'["nested"]
         /\ File(place) /\ Written(place)' /\ TextIn(memory', place) = Text(name)
         /\ repeated' = Holds(Kept, place)
         /\ \A p \in Places : Written(p) /\ (p[1] = "arena" => p[2] <= nameMark)
                                 => Written(p)' /\ TextIn(memory', p) = Text(p)
    <2>1. CASE length["arena"] = nameMark
        <3>1. /\ UNCHANGED <<memory, length>>
              /\ File(name) /\ repeated' = Holds(Kept, name)
            BY <2>1 DEF Moved, arenas
        <3> PICK place \in Places : place = name
            BY <1>0
        <3>2. name[1] = "document"
            BY <2>1, <1>0 DEF NameWaits
        <3>3. ArenasOK' /\ length["nested"] <= length'["nested"]
            BY <3>1, <1>0 DEF ArenasOK
        <3>4. Written(place)' /\ TextIn(memory', place) = Text(name)
            BY <3>1, <3>2 DEF Written, Text
        <3>5. \A p \in Places : Written(p) => Written(p)' /\ TextIn(memory', p) = Text(p)
            BY <3>1 DEF Written, Text
        <3> QED BY <3>1, <3>3, <3>4, <3>5, <1>0
    <2>2. CASE length["arena"] # nameMark
        <3>1. name = <<"arena", nameMark + 1>> /\ length["arena"] = nameMark + 1
            BY <2>2 DEF NameWaits
        <3> PICK place : place = <<"nested", length["nested"] + 1>>
            OBVIOUS
        <3>2. /\ memory' = Carved("nested", Text(name))
              /\ length' = [arena |-> nameMark, nested |-> length["nested"] + 1]
              /\ File(place) /\ repeated' = Holds(Kept, place)
            BY <2>2 DEF Moved
        <3>3. /\ ArenasOK' /\ length'["nested"] = length["nested"] + 1
              /\ place \in Places /\ Written(place)' /\ TextIn(memory', place) = Text(name)
              /\ \A p \in Places : Written(p) /\ (p[1] = "arena" => p[2] <= nameMark)
                                      => Written(p)' /\ TextIn(memory', p) = Text(p)
            BY <3>1, <3>2, <1>0, MoveIs
        <3>4. length["nested"] <= length'["nested"]
            BY <3>3, <1>0
        <3> QED BY <3>2, <3>3, <3>4
    <2> QED BY <2>1, <2>2
<1>2. KeepsNames
    <2>1. \A p \in leaves' : Written(p)' /\ p[1] # "nested"
        BY <1>0, <1>1 DEF SetsOK, Stack, InUse, NameWaits
    <2>2. ASSUME NEW k \in 1 .. depth, NEW p \in sets[k]
          PROVE  Written(p)'
        <3>1. p \in Places
            BY <1>0, SetsNumbers
        <3>2. Written(p) /\ (p[1] = "arena" => p[2] <= nameMark)
            BY <1>0 DEF Stack, InUse, NameWaits
        <3> QED BY <3>1, <3>2, <1>1
    <2> QED BY <2>1, <2>2, <1>0, <1>1 DEF KeepsNames, SetsOK
<1>3. /\ SetsOK' /\ Stack(m)' /\ depth' = m
      /\ \A k \in 1 .. (Len(kinds) - 1) : sets'[k] = sets[k]
      /\ sets'[Len(kinds)] = With(Kept, place)
    BY <1>1, <1>2, Filed
<1>4. repeated' \in BOOLEAN
    BY <1>1 DEF Holds
<1> QED BY <1>1, <1>3, <1>4

LEMMA Left ==
    ASSUME IInv, Takes, kinds # << >>, leaf = 0, Leave,
           NEW m \in Nat, m = Len(kinds) - 1
    PROVE  /\ ArenasOK' /\ SetsOK' /\ depth' = m /\ Stack(m)'
           /\ sets' = sets /\ memory' = memory
<1>0. /\ ArenasOK /\ SetsOK /\ Stack(SetsOutside)
      /\ depth = SetsOutside /\ depth \in Nat /\ Len(kinds) >= 1 /\ Len(kinds) \in Nat
      /\ depth = Len(kinds) - (IF named THEN 0 ELSE 1)
      /\ leaves' = leaves
    BY Numbers, KeptIs DEF Leave
<1>1. PICK s \in Nat : s = depth /\ Stack(s)
    BY <1>0
<1>2. CASE named
    <2>1. Pop("nested") /\ ArenaOf(s, depth) = "nested"
        BY <1>0, <1>1, <1>2 DEF Leave, ArenaOf
    <2>2. depth >= 1 /\ m = s - 1
        BY <1>0, <1>1, <1>2
    <2>3. ArenasOK' /\ SetsOK' /\ Stack(m)'
        BY <2>1, <2>2, <1>0, <1>1, Popped
    <2>4. depth' = m /\ sets' = sets /\ memory' = memory
        BY <2>1, <2>2, <1>1 DEF Pop
    <2> QED BY <2>3, <2>4
<1>3. CASE ~named
    <2>1. UNCHANGED <<sets, depth, marks, memory, length>>
        BY <1>3 DEF Leave, open, arenas
    <2>2. m = s /\ depth' = m
        BY <2>1, <1>0, <1>1, <1>3
    <2>3. ArenasOK' /\ SetsOK'
        BY <2>1, <1>0 DEF ArenasOK, SetsOK
    <2>4. Stack(s)'
        BY <2>1, <1>0, <1>1 DEF Stack, InUse, Marked, Written
    <2> QED BY <2>1, <2>2, <2>3, <2>4
<1> QED BY <1>2, <1>3

-----------------------------------------------------------------------------
(* The steps keep the invariant.                                           *)

LEMMA Initial == Init => IInv
<1> SUFFICES ASSUME Init
             PROVE  IInv
    OBVIOUS
<1>1. /\ << >> \in Seq(Kinds) /\ << >> \in Seq(SUBSET Places) /\ << >> \in Seq(Nat)
      /\ << >> \in Seq(Names) /\ << >> \in Seq(Places) /\ Len(<< >>) = 0
    BY EmptySeq
<1>2. InlineNames \in Nat
    BY FlattenAssumption
<1>3. /\ kinds \in Seq({"object", "array"}) /\ next \in {"value", "item", "done"}
      /\ sets \in Seq(SUBSET Places) /\ depth \in 0 .. Len(sets) /\ marks \in Seq(Nat)
      /\ pending \in Seq(Places) /\ Len(pending) <= InlineNames
    BY <1>1, <1>2 DEF Init, Kinds
<1>4. /\ memory \in [Arenas -> Seq(Names)]
      /\ length \in [Arenas -> Nat] /\ \A a \in Arenas : length[a] <= Len(memory[a])
    BY <1>1 DEF Init
<1>5. name \in Places
    BY IsPlace DEF Init
<1>6. TypeOK
    BY <1>3, <1>4, <1>5 DEF Init, TypeOK
<1>7. kinds = << >> /\ Len(kinds) = 0 /\ leaf = 0 /\ Len(pending) = 0 /\ depth = 0 /\ Len(marks) = 0
    BY <1>1 DEF Init
<1>8. Outside = 0 /\ SetsOutside = 0
    BY <1>7 DEF Outside, SetsOutside
<1>9. ObjectsOf(kinds, Outside + 1, Len(kinds)) = 0
    BY <1>7, <1>8, Counted
<1>10. Control
    BY <1>7, <1>8 DEF Init, Control
<1>11. Stack(SetsOutside)
    BY <1>7, <1>8 DEF Init, Stack, InUse, Marked
<1> QED BY <1>6, <1>7, <1>8, <1>9, <1>10, <1>11 DEF IInv

\* A step that ends the call.
LEMMA EndStep == ASSUME TypeOK', result' # "reading" PROVE IInv'
BY DEF IInv, Takes

LEMMA EndsStep ==
    ASSUME IInv, NoObject \/ End \/ Rest \/ \E t \in {"bad", "openArray", "openObject"} : Fault(t)
    PROVE  IInv'
<1>1. TypeOK
    BY DEF IInv
<1>2. /\ UNCHANGED <<had, kinds, next, sets, depth, marks, memory, length, leaves, pending,
                     named, name, nameMark, leaf, comma, repeated>>
      /\ result' \in {"nil", "malformed", "duplicate"}
      /\ needSep' \in BOOLEAN /\ kept' \in BOOLEAN
    BY <1>1 DEF NoObject, End, Rest, Fault, Fails, walker, open, arenas, objects, builder, TypeOK
<1>3. TypeOK'
    BY <1>1, <1>2 DEF TypeOK
<1> QED BY <1>2, <1>3, EndStep

\* What is left of a step that reads on, once the stacks are followed.
LEMMA StackStep ==
    ASSUME IInv, Takes, had' = had, result' = result,
           ArenasOK', SetsOK', kinds' \in Seq(Kinds), next' \in {"value", "item", "done"},
           pending' \in Seq(Places), Len(pending') <= InlineNames,
           named' \in BOOLEAN, name' \in Places, nameMark' \in Nat,
           leaf' \in Nat, comma' \in BOOLEAN, repeated' \in BOOLEAN,
           needSep' \in BOOLEAN, kept' \in BOOLEAN,
           NEW t \in Nat, NEW c \in Nat,
           ~repeated' => /\ Control' /\ SetsOutside' = t
                         /\ Stack(t)' /\ depth' = t + c
                         /\ ObjectsOf(kinds', Outside' + 1, Len(kinds')) = c
                         /\ kinds' # << >> /\ leaf' = 0 /\ next' = "value" => NameWaits'
    PROVE  IInv'
<1>1. TypeOK'
    BY DEF IInv, TypeOK, ArenasOK, SetsOK, Kinds, Takes
<1>2. Takes' => ~repeated'
    BY DEF Takes
<1>3. ASSUME ~repeated'
      PROVE  Stack(SetsOutside)'
    BY <1>3 DEF Stack, Marked, ArenaOf
<1> QED BY <1>1, <1>2, <1>3 DEF IInv

LEMMA NothingWritten ==
    ASSUME TypeOK, WritesNothing
    PROVE  UNCHANGED <<leaf, comma, needSep>> /\ kept' \in BOOLEAN
BY DEF WritesNothing, Writes, TypeOK

LEMMA ItemWritten ==
    ASSUME TypeOK, NEW text, NEW due \in BOOLEAN, WritesItem(text, due)
    PROVE  /\ comma' = due /\ kept' \in BOOLEAN /\ needSep' \in BOOLEAN
           /\ leaf = 0 \/ needSep => needSep'
BY DEF WritesItem, Writes, TypeOK

\* The stacks after a token that starts a leaf or goes on with one.
LEMMA WentOn ==
    ASSUME IInv, ValueNext, LeafGoesOn
    PROVE  /\ ArenasOK' /\ SetsOK' /\ memory' = memory
           /\ pending' \in Seq(Places) /\ Len(pending') <= InlineNames
           /\ named' \in BOOLEAN /\ repeated' \in BOOLEAN
           /\ name' = name /\ nameMark' = nameMark
           /\ \E t \in Nat : /\ t = Outside - (IF named' THEN 0 ELSE 1) /\ Stack(t)'
                             /\ depth' = t + ObjectsOf(kinds, Outside + 1, Len(kinds))
           /\ ~repeated' => \A j \in 1 .. Len(pending') : pending'[j] \in leaves'
<1>0. Takes /\ kinds # << >>
    BY DEF ValueNext
<1>1. /\ ArenasOK /\ SetsOK /\ Control /\ Stack(SetsOutside) /\ SetsOutside \in Nat
      /\ Len(kinds) \in Nat
      /\ depth = SetsOutside + ObjectsOf(kinds, Outside + 1, Len(kinds))
      /\ leaf = 0 => /\ Outside = Len(kinds) /\ depth = SetsOutside
                     /\ kinds[Len(kinds)] = "object"
      /\ pending \in Seq(Places) /\ Len(pending) <= InlineNames /\ named \in BOOLEAN
    BY <1>0, Numbers
<1>2. CASE leaf = 0
    <2>1. next = "value" /\ LeafName
        BY <1>0, <1>1, <1>2 DEF ValueNext, LeafGoesOn
    <2>2. NameWaits
        BY <2>1, <1>0, <1>2 DEF IInv
    <2>3. PICK m \in Nat : m = Len(kinds)
        BY <1>1
    <2>4. /\ ArenasOK' /\ SetsOK' /\ memory' = memory
          /\ pending' \in Seq(Places) /\ Len(pending') <= InlineNames
          /\ named' \in BOOLEAN /\ repeated' \in BOOLEAN
          /\ name' = name /\ nameMark' = nameMark
          /\ \E t \in Nat : t = m - (IF named' THEN 0 ELSE 1) /\ depth' = t /\ Stack(t)'
          /\ ~repeated' => \A j \in 1 .. Len(pending') : pending'[j] \in leaves'
        BY <2>1, <2>2, <2>3, <1>0, <1>2, LeafNamed
    <2>5. ObjectsOf(kinds, Outside + 1, Len(kinds)) = 0
        <3>1. Outside + 1 \in Nat /\ Len(kinds) < Outside + 1
            BY <1>1, <1>2
        <3> QED BY <3>1, <1>1, Counted
    <2> QED BY <2>3, <2>4, <2>5, <1>1, <1>2
<1>3. CASE leaf # 0
    <2>1. UNCHANGED <<sets, depth, marks, memory, length, leaves, pending, named, name, nameMark,
                      repeated>>
        BY <1>3 DEF LeafGoesOn, open, arenas, objects
    <2>2. PICK t \in Nat : t = SetsOutside /\ Stack(t)
        BY <1>1
    <2>3. ArenasOK' /\ SetsOK' /\ Stack(t)'
        BY <2>1, <2>2, <1>1 DEF ArenasOK, SetsOK, Stack, InUse, Marked, Written
    <2>4. t = Outside - (IF named' THEN 0 ELSE 1)
        BY <2>1, <2>2, <1>0 DEF SetsOutside
    <2>5. \A j \in 1 .. Len(pending') : pending'[j] \in leaves'
        BY <2>1, <1>1 DEF Control
    <2>6. repeated' \in BOOLEAN
        BY <2>1 DEF IInv, TypeOK
    <2> QED BY <2>1, <2>2, <2>3, <2>4, <2>5, <2>6, <1>1
<1> QED BY <1>2, <1>3

LEMMA ScalarStep == ASSUME IInv, Scalar PROVE IInv'
<1>1. /\ ValueNext /\ Takes /\ kinds # << >> /\ next' = "item" /\ LeafGoesOn
      /\ WritesItem(<<"scalar">>, TRUE)
      /\ UNCHANGED <<had, kinds, leaf, result>>
    BY DEF Scalar, ValueNext
<1>2. /\ Control /\ kinds \in Seq(Kinds) /\ Len(kinds) \in Nat /\ Outside \in Nat /\ leaf \in Nat
      /\ ObjectsOf(kinds, Outside + 1, Len(kinds)) \in Nat
      /\ name \in Places /\ nameMark \in Nat /\ TypeOK
    BY <1>1, Numbers DEF IInv, TypeOK
<1>3. /\ ArenasOK' /\ SetsOK'
      /\ pending' \in Seq(Places) /\ Len(pending') <= InlineNames
      /\ named' \in BOOLEAN /\ repeated' \in BOOLEAN
      /\ name' = name /\ nameMark' = nameMark
      /\ ~repeated' => \A j \in 1 .. Len(pending') : pending'[j] \in leaves'
    BY <1>1, WentOn
<1>4. PICK t \in Nat : /\ t = Outside - (IF named' THEN 0 ELSE 1) /\ Stack(t)'
                       /\ depth' = t + ObjectsOf(kinds, Outside + 1, Len(kinds))
    BY <1>1, WentOn
<1>5. /\ comma' = TRUE /\ kept' \in BOOLEAN /\ needSep' \in BOOLEAN
      /\ leaf = 0 \/ needSep => needSep'
    BY <1>1, <1>2, ItemWritten
<1>6. Outside' = Outside
    BY <1>1 DEF Outside
<1>7. SetsOutside' = t
    BY <1>1, <1>4, <1>6 DEF SetsOutside
<1>8. PICK c \in Nat : c = ObjectsOf(kinds, Outside + 1, Len(kinds))
    BY <1>2
<1>9. ObjectsOf(kinds', Outside' + 1, Len(kinds')) = c
    BY <1>1, <1>6, <1>8
<1>10. ~repeated' => Control'
    BY <1>1, <1>2, <1>3, <1>5, <1>6 DEF Control
<1>11. Stack(t)' /\ depth' = t + c
    BY <1>4, <1>8
<1> QED BY <1>1, <1>2, <1>3, <1>5, <1>7, <1>9, <1>10, <1>11, StackStep

LEMMA OpenArrayStep == ASSUME IInv, OpenArray PROVE IInv'
<1>1. /\ ValueNext /\ Takes /\ kinds # << >> /\ next' = "item" /\ LeafGoesOn
      /\ WritesItem(<<"openArray">>, FALSE)
      /\ kinds' = Append(kinds, "array") /\ leaf' = leaf + 1
      /\ UNCHANGED <<had, result>>
    BY DEF OpenArray, ValueNext
<1>2. /\ Control /\ kinds \in Seq(Kinds) /\ Len(kinds) \in Nat /\ Outside \in Nat /\ leaf \in Nat
      /\ ObjectsOf(kinds, Outside + 1, Len(kinds)) \in Nat /\ Outside <= Len(kinds)
      /\ leaf = 0 => Outside = Len(kinds)
      /\ name \in Places /\ nameMark \in Nat /\ TypeOK
    BY <1>1, Numbers DEF IInv, TypeOK
<1>3. /\ ArenasOK' /\ SetsOK'
      /\ pending' \in Seq(Places) /\ Len(pending') <= InlineNames
      /\ named' \in BOOLEAN /\ repeated' \in BOOLEAN
      /\ name' = name /\ nameMark' = nameMark
      /\ ~repeated' => \A j \in 1 .. Len(pending') : pending'[j] \in leaves'
    BY <1>1, WentOn
<1>4. PICK t \in Nat : /\ t = Outside - (IF named' THEN 0 ELSE 1) /\ Stack(t)'
                       /\ depth' = t + ObjectsOf(kinds, Outside + 1, Len(kinds))
    BY <1>1, WentOn
<1>5. /\ comma' = FALSE /\ kept' \in BOOLEAN /\ needSep' \in BOOLEAN
      /\ leaf = 0 \/ needSep => needSep'
    BY <1>1, <1>2, ItemWritten
<1>6. /\ kinds' \in Seq(Kinds) /\ Len(kinds') = Len(kinds) + 1
      /\ kinds' # << >> /\ kinds'[Len(kinds')] = "array"
      /\ \A k \in 1 .. Len(kinds) : kinds'[k] = kinds[k]
      /\ \A from \in 1 .. (Len(kinds) + 1) :
            ObjectsOf(kinds', from, Len(kinds')) = ObjectsOf(kinds, from, Len(kinds)) + 0
    <2>1. PICK kind \in Kinds : kind = "array"
        BY DEF Kinds
    <2>2. kinds \in Seq(Kinds) /\ kinds' = Append(kinds, kind)
        BY <2>1, <1>1, <1>2
    <2> QED BY <2>1, <2>2, Opens
<1>7. Outside' = Outside
    BY <1>1, <1>2, <1>6 DEF Outside
<1>8. SetsOutside' = t
    BY <1>4, <1>6, <1>7 DEF SetsOutside
<1>9. PICK c \in Nat : c = ObjectsOf(kinds, Outside + 1, Len(kinds))
    BY <1>2
<1>10. ObjectsOf(kinds', Outside' + 1, Len(kinds')) = c
    <2>1. Outside + 1 \in 1 .. (Len(kinds) + 1)
        BY <1>2
    <2> QED BY <2>1, <1>2, <1>6, <1>7, <1>9
<1>11. ASSUME ~repeated'
       PROVE  Control'
    <2>1. leaf' > 0 /\ leaf' < Len(kinds')
        BY <1>1, <1>2, <1>6 DEF Control
    <2>4. needSep'
        BY <1>2, <1>5 DEF Control
    <2>2. kinds'[Outside + 1] = "array"
        <3>1. CASE leaf = 0
            BY <3>1, <1>2, <1>6
        <3>2. CASE leaf # 0
            <4>1. leaf > 0 /\ Outside + 1 \in 1 .. Len(kinds)
                BY <3>2, <1>2 DEF Outside
            <4> QED BY <4>1, <1>2, <1>6 DEF Control
        <3> QED BY <3>1, <3>2
    <2>3. \A k \in 1 .. Outside : kinds'[k] = "object"
        BY <1>2, <1>6, SMTT(30) DEF Control
    <2> QED BY <2>1, <2>2, <2>3, <2>4, <1>1, <1>3, <1>5, <1>6, <1>7, <1>11 DEF Control
<1>12. Stack(t)' /\ depth' = t + c
    BY <1>4, <1>9
<1>13. leaf' \in Nat /\ leaf' # 0
    BY <1>1, <1>2
<1> QED BY <1>1, <1>2, <1>3, <1>5, <1>6, <1>8, <1>10, <1>11, <1>12, <1>13, StackStep

LEMMA OpenObjectStep == ASSUME IInv, OpenObject PROVE IInv'
<1>1. /\ Takes /\ next' = "item" /\ kinds' = Append(kinds, "object")
      /\ UNCHANGED <<had, result>>
      /\ kinds = << >> \/ ValueNext
    BY DEF OpenObject, ValueNext
<1>2. /\ ArenasOK /\ SetsOK /\ Control /\ Stack(SetsOutside) /\ SetsOutside \in Nat
      /\ kinds \in Seq(Kinds) /\ Len(kinds) \in Nat /\ Outside \in Nat /\ leaf \in Nat
      /\ ObjectsOf(kinds, Outside + 1, Len(kinds)) \in Nat /\ Outside <= Len(kinds)
      /\ depth = SetsOutside + ObjectsOf(kinds, Outside + 1, Len(kinds))
      /\ leaf = 0 => Outside = Len(kinds) /\ depth = SetsOutside
      /\ kinds # << >> <=> Len(kinds) >= 1
      /\ kinds # << >> => Outside >= 1
      /\ pending \in Seq(Places) /\ Len(pending) <= InlineNames /\ named \in BOOLEAN
      /\ name \in Places /\ nameMark \in Nat /\ repeated \in BOOLEAN /\ TypeOK
    BY <1>1, Numbers DEF IInv, TypeOK
<1>3. /\ kinds' \in Seq(Kinds) /\ Len(kinds') = Len(kinds) + 1
      /\ kinds' # << >> /\ kinds'[Len(kinds')] = "object"
      /\ \A k \in 1 .. Len(kinds) : kinds'[k] = kinds[k]
      /\ \A from \in 1 .. (Len(kinds) + 1) :
            ObjectsOf(kinds', from, Len(kinds')) = ObjectsOf(kinds, from, Len(kinds)) + 1
    <2>1. PICK kind \in Kinds : kind = "object"
        BY DEF Kinds
    <2>2. kinds \in Seq(Kinds) /\ kinds' = Append(kinds, kind)
        BY <2>1, <1>1, <1>2
    <2> QED BY <2>1, <2>2, Opens
<1>4. CASE leaf = 0
    <2>1. Enter /\ WritesNothing
        BY <1>4 DEF OpenObject
    <2>2. UNCHANGED <<leaf, comma, needSep>> /\ kept' \in BOOLEAN
        BY <2>1, <1>2, NothingWritten
    <2>3. pending' = << >> /\ named' = FALSE /\ UNCHANGED <<leaves, name, nameMark>>
        BY <2>1 DEF Enter
    <2>4. PICK m \in Nat : m = Len(kinds)
        BY <1>2
    <2>5. ArenasOK' /\ SetsOK' /\ depth' = m /\ Stack(m)' /\ repeated' \in BOOLEAN
        <3>1. CASE kinds = << >>
            <4>1. UNCHANGED <<sets, depth, marks, memory, length, repeated>>
                BY <2>1, <3>1 DEF Enter, open, arenas
            <4>2. m = 0 /\ SetsOutside = 0 /\ depth = 0
                BY <3>1, <2>4, <1>2, <1>4 DEF SetsOutside
            <4>3. ArenasOK' /\ SetsOK'
                BY <4>1, <2>3, <1>2 DEF ArenasOK, SetsOK
            <4>4. Stack(m)
                BY <4>2, <1>2
            <4>5. Stack(m)'
                BY <4>1, <4>4, <2>3 DEF Stack, InUse, Marked, Written
            <4> QED BY <4>1, <4>2, <4>3, <4>5, <1>2
        <3>2. CASE kinds # << >>
            <4>1. Moved /\ leaves' = leaves
                BY <2>1, <2>3, <3>2 DEF Enter
            <4>2. next = "value"
                BY <1>1, <1>2, <1>4, <3>2, Numbers DEF ValueNext
            <4>3. NameWaits
                BY <4>2, <1>1, <1>4, <3>2 DEF IInv
            <4> QED BY <4>1, <4>3, <2>4, <1>1, <1>4, <3>2, Entered
        <3> QED BY <3>1, <3>2
    <2>6. Outside' = m + 1
        BY <2>2, <2>4, <1>2, <1>3, <1>4 DEF Outside
    <2>7. SetsOutside' = m
        BY <2>3, <2>6, <1>3 DEF SetsOutside
    <2>8. ObjectsOf(kinds', Outside' + 1, Len(kinds')) = 0
        <3>1. /\ m + 2 \in Nat /\ Len(kinds') \in Nat /\ Len(kinds') < m + 2
              /\ Outside' + 1 = m + 2
            BY <2>4, <2>6, <1>3
        <3>2. ObjectsOf(kinds', m + 2, Len(kinds')) = 0
            BY <3>1, Counted
        <3> QED BY <3>1, <3>2
    <2>9. Control'
        <3>1. Len(pending') = 0
            BY <2>3, EmptySeq
        <3>2. \A k \in 1 .. (m + 1) : kinds'[k] = "object"
            BY <2>4, <1>2, <1>3, <1>4 DEF Control
        <3> QED BY <3>1, <3>2, <2>2, <2>4, <2>6, <1>1, <1>2, <1>3, <1>4 DEF Control
    <2>10. pending' \in Seq(Places) /\ Len(pending') <= InlineNames
        BY <2>3, EmptySeq, FlattenAssumption
    <2>11. comma \in BOOLEAN /\ needSep \in BOOLEAN
        BY <1>2 DEF TypeOK
    <2>12. depth' = m + 0 /\ 0 \in Nat
        BY <2>4, <2>5
    <2> QED BY <2>2, <2>3, <2>4, <2>5, <2>7, <2>8, <2>9, <2>10, <2>11, <2>12,
               <1>1, <1>2, <1>3, StackStep
<1>5. CASE leaf # 0
    <2>1. /\ Push("arena", {}) /\ WritesItem(<<"openObject">>, FALSE) /\ leaf' = leaf + 1
          /\ UNCHANGED <<memory, length, leaves, pending, named, name, nameMark, repeated>>
        BY <1>5 DEF OpenObject, arenas, objects
    <2>2. /\ comma' = FALSE /\ kept' \in BOOLEAN /\ needSep' \in BOOLEAN
          /\ leaf = 0 \/ needSep => needSep'
        BY <2>1, <1>2, ItemWritten
    <2>3. PICK s \in Nat : s = SetsOutside /\ Stack(s)
        BY <1>2
    <2>4. SetsOK' /\ Stack(s)'
        BY <2>1, <2>3, <1>2, PushedInside
    <2>5. depth' = depth + 1
        BY <2>1 DEF Push
    <2>6. ArenasOK'
        BY <2>1, <1>2 DEF ArenasOK
    <2>7. Outside' = Outside
        BY <2>1, <1>2, <1>3 DEF Outside
    <2>8. leaf > 0 /\ kinds # << >> /\ Outside + 1 \in 1 .. Len(kinds)
        BY <1>2, <1>5 DEF Control, Outside
    <2>9. SetsOutside' = s
        BY <2>1, <2>3, <2>7, <2>8, <1>3 DEF SetsOutside
    <2>10. PICK c \in Nat : c = ObjectsOf(kinds, Outside + 1, Len(kinds)) + 1
        BY <1>2
    <2>11. ObjectsOf(kinds', Outside' + 1, Len(kinds')) = c
        <3>1. Outside + 1 \in 1 .. (Len(kinds) + 1)
            BY <1>2
        <3> QED BY <3>1, <1>3, <2>7, <2>10
    <2>12. Control'
        <3>1. kinds'[Outside + 1] = "array"
            BY <2>8, <1>2, <1>3 DEF Control
        <3>2. \A k \in 1 .. Outside : kinds'[k] = "object"
            <4>1. \A k \in 1 .. Outside : k \in 1 .. Len(kinds) /\ kinds[k] = "object"
                BY <1>2 DEF Control
            <4> QED BY <4>1, <1>3
        <3>3. leaf' > 0 /\ leaf' < Len(kinds') /\ needSep' /\ leaf < Len(kinds)
            BY <2>1, <2>2, <2>8, <1>2, <1>3 DEF Control
        <3>4. \A j \in 1 .. Len(pending') : pending'[j] \in leaves'
            BY <2>1, <1>2 DEF Control
        <3> QED BY <3>1, <3>2, <3>3, <3>4, <2>2, <2>7, <1>1, <1>3 DEF Control
    <2>13. depth' = s + c
        BY <2>3, <2>5, <2>10, <1>2
    <2>14. leaf' \in Nat /\ leaf' # 0
        BY <2>1, <1>2
    <2> QED BY <2>1, <2>2, <2>4, <2>6, <2>9, <2>11, <2>12, <2>13, <2>14, <1>1, <1>2, <1>3, StackStep
<1> QED BY <1>4, <1>5

LEMMA CloseStep == ASSUME IInv, CloseContainer PROVE IInv'
<1>1. /\ Takes /\ next = "item" /\ UNCHANGED <<had, result>>
      /\ kinds' = SubSeq(kinds, 1, Len(kinds) - 1) /\ next' = AroundOf(kinds')
    BY DEF CloseContainer
<1>2. /\ ArenasOK /\ SetsOK /\ Control /\ Stack(SetsOutside) /\ SetsOutside \in Nat
      /\ kinds \in Seq(Kinds) /\ Len(kinds) \in Nat /\ Outside \in Nat /\ leaf \in Nat
      /\ depth \in Nat /\ Outside <= Len(kinds)
      /\ depth = SetsOutside + ObjectsOf(kinds, Outside + 1, Len(kinds))
      /\ leaf = 0 => Outside = Len(kinds)
      /\ kinds # << >> /\ Len(kinds) >= 1 /\ Outside >= 1
      /\ pending \in Seq(Places) /\ Len(pending) <= InlineNames /\ named \in BOOLEAN
      /\ name \in Places /\ nameMark \in Nat /\ repeated \in BOOLEAN /\ TypeOK
      /\ comma \in BOOLEAN /\ needSep \in BOOLEAN
    BY <1>1, Numbers DEF IInv, TypeOK, Control
<1>3. /\ kinds' \in Seq(Kinds) /\ Len(kinds') = Len(kinds) - 1 /\ Len(kinds') \in Nat
      /\ kinds[Len(kinds)] \in Kinds
      /\ kinds' = << >> <=> Len(kinds) = 1
      /\ \A k \in 1 .. Len(kinds') : kinds'[k] = kinds[k]
      /\ \A from \in 1 .. Len(kinds) :
            ObjectsOf(kinds, from, Len(kinds)) =
               ObjectsOf(kinds', from, Len(kinds'))
                  + (IF kinds[Len(kinds)] = "object" THEN 1 ELSE 0)
    BY <1>1, <1>2, Closes
<1>4. /\ next' \in {"value", "item", "done"} /\ next' # "value"
      /\ kinds' = << >> <=> next' = "done"
    BY <1>1 DEF AroundOf
<1>5. CASE leaf = 0
    <2>1. Leave /\ WritesNothing
        BY <1>5 DEF CloseContainer
    <2>2. UNCHANGED <<leaf, comma, needSep>> /\ kept' \in BOOLEAN
        BY <2>1, <1>2, NothingWritten
    <2>3. named' = TRUE /\ UNCHANGED <<leaves, pending, name, nameMark, repeated>>
        BY <2>1 DEF Leave
    <2>4. PICK m \in Nat : m = Len(kinds) - 1
        BY <1>2
    <2>5. ArenasOK' /\ SetsOK' /\ depth' = m /\ Stack(m)'
        BY <2>1, <2>4, <1>1, <1>2, <1>5, Left
    <2>6. Outside' = m
        BY <2>2, <2>4, <1>3, <1>5 DEF Outside
    <2>7. SetsOutside' = m
        <3>1. CASE kinds' = << >>
            BY <3>1, <2>4, <1>3 DEF SetsOutside
        <3>2. CASE kinds' # << >>
            BY <3>2, <2>3, <2>6 DEF SetsOutside
        <3> QED BY <3>1, <3>2
    <2>8. ObjectsOf(kinds', Outside' + 1, Len(kinds')) = 0
        <3>1. /\ m + 1 \in Nat /\ Len(kinds') \in Nat /\ Len(kinds') < m + 1
            BY <2>4, <1>3
        <3>2. ObjectsOf(kinds', m + 1, Len(kinds')) = 0
            BY <3>1, Counted
        <3> QED BY <3>2, <2>6
    <2>9. Control'
        <3>1. \A k \in 1 .. m : kinds'[k] = "object"
            <4>1. \A k \in 1 .. m : k \in 1 .. Outside /\ k \in 1 .. Len(kinds')
                BY <2>4, <1>2, <1>3, <1>5
            <4> QED BY <4>1, <1>2, <1>3 DEF Control
        <3>2. \A j \in 1 .. Len(pending') : pending'[j] \in leaves'
            BY <2>3, <1>2 DEF Control
        <3>3. IF kinds' = << >> THEN leaf' = 0 ELSE leaf' < Len(kinds')
            BY <2>2, <1>2, <1>3, <1>5
        <3>4. ~(leaf' > 0)
            BY <2>2, <1>5
        <3> QED BY <3>1, <3>2, <3>3, <3>4, <2>6, <1>4 DEF Control
    <2>10. depth' = m + 0 /\ 0 \in Nat
        BY <2>4, <2>5
    <2> QED BY <2>2, <2>3, <2>4, <2>5, <2>7, <2>8, <2>9, <2>10, <1>1, <1>2, <1>3, <1>4, StackStep
<1>6. CASE leaf # 0
    <2>1. /\ IF kinds[Len(kinds)] = "object" THEN Pop("arena")
             ELSE UNCHANGED <<sets, depth, marks, memory, length>>
          /\ leaf' = leaf - 1 /\ comma' = TRUE
          /\ UNCHANGED <<leaves, pending, named, name, nameMark, repeated, needSep>>
          /\ Writes(<<Closer[kinds[Len(kinds)]]>>)
        BY <1>6 DEF CloseContainer, objects, open, arenas
    <2>2. leaf > 0 /\ leaf' \in Nat /\ Outside + 1 \in 1 .. Len(kinds) /\ leaf < Len(kinds)
        BY <2>1, <1>2, <1>6 DEF Outside, Control
    <2>3. kept' \in BOOLEAN
        BY <2>1, <1>2 DEF Writes, TypeOK
    <2>4. Outside' = Outside
        BY <2>1, <2>2, <1>2, <1>3 DEF Outside
    <2>5. PICK s \in Nat : s = SetsOutside /\ Stack(s)
        BY <1>2
    <2>6. kinds' # << >>
        BY <2>2, <1>2, <1>3
    <2>7. SetsOutside' = s
        BY <2>1, <2>4, <2>5, <2>6, <1>2 DEF SetsOutside
    <2>8. PICK c \in Nat : c = ObjectsOf(kinds', Outside + 1, Len(kinds'))
        <3>1. Outside + 1 \in Nat
            BY <1>2
        <3> QED BY <3>1, <1>3, Counted
    <2>9. ArenasOK' /\ SetsOK' /\ Stack(s)' /\ depth' = s + c
        <3>1. CASE kinds[Len(kinds)] = "object"
            <4>1. depth = s + (c + 1)
                BY <3>1, <2>2, <2>5, <2>8, <1>2, <1>3
            <4>2. depth >= 1 /\ s # depth
                BY <4>1
            <4>3. ArenaOf(s, depth) = "arena"
                BY <4>1 DEF ArenaOf
            <4>4. Pop("arena")
                BY <2>1, <3>1
            <4>5. ArenasOK' /\ SetsOK' /\ Stack(s)'
                BY <4>2, <4>3, <4>4, <2>1, <2>5, <1>2, Popped
            <4>6. depth' = depth - 1
                BY <4>4 DEF Pop
            <4> QED BY <4>1, <4>5, <4>6
        <3>2. CASE kinds[Len(kinds)] # "object"
            <4>1. UNCHANGED <<sets, depth, marks, memory, length, leaves>>
                BY <2>1, <3>2
            <4>2. ArenasOK' /\ SetsOK' /\ Stack(s)'
                BY <4>1, <2>5, <1>2 DEF ArenasOK, SetsOK, Stack, InUse, Marked, Written
            <4>3. depth' = s + c
                BY <4>1, <3>2, <2>2, <2>5, <2>8, <1>2, <1>3
            <4> QED BY <4>2, <4>3
        <3> QED BY <3>1, <3>2
    <2>10. Control'
        <3>1. \A k \in 1 .. Outside : kinds'[k] = "object"
            <4>1. \A k \in 1 .. Outside : k \in 1 .. Len(kinds') /\ kinds[k] = "object"
                BY <2>2, <1>2, <1>3 DEF Control
            <4> QED BY <4>1, <1>3
        <3>2. \A j \in 1 .. Len(pending') : pending'[j] \in leaves'
            BY <2>1, <1>2 DEF Control
        <3>3. leaf' < Len(kinds')
            BY <2>1, <2>2, <1>2, <1>3
        <3>4. leaf' > 0 => kinds'[Outside + 1] = "array" /\ needSep'
            <4>1. ASSUME leaf' > 0
                  PROVE  Outside + 1 \in 1 .. Len(kinds')
                BY <4>1, <2>1, <2>2, <1>2, <1>3 DEF Outside
            <4>2. kinds[Outside + 1] = "array" /\ needSep
                BY <2>2, <1>2 DEF Control
            <4> QED BY <4>1, <4>2, <2>1, <1>3
        <3> QED BY <3>1, <3>2, <3>3, <3>4, <2>4, <2>6, <1>4 DEF Control
    <2>11. ObjectsOf(kinds', Outside' + 1, Len(kinds')) = c
        BY <2>4, <2>8
    <2> QED BY <2>1, <2>2, <2>3, <2>7, <2>9, <2>10, <2>11, <1>1, <1>2, <1>3, <1>4, StackStep
<1> QED BY <1>5, <1>6

LEMMA NameStep == ASSUME IInv, NEW n \in Names, MemberName(n) PROVE IInv'
<1>1. /\ Takes /\ next = "item" /\ next' = "value" /\ kinds[Len(kinds)] = "object"
      /\ UNCHANGED <<had, kinds, result>> /\ Member(n)
    BY DEF MemberName
<1>2. /\ ArenasOK /\ SetsOK /\ Control /\ Stack(SetsOutside) /\ SetsOutside \in Nat
      /\ kinds \in Seq(Kinds) /\ Len(kinds) \in Nat /\ Outside \in Nat /\ leaf \in Nat
      /\ depth \in Nat /\ Outside <= Len(kinds)
      /\ depth = SetsOutside + ObjectsOf(kinds, Outside + 1, Len(kinds))
      /\ ObjectsOf(kinds, Outside + 1, Len(kinds)) \in Nat
      /\ leaf = 0 => Outside = Len(kinds) /\ depth = SetsOutside
      /\ kinds # << >> /\ Len(kinds) >= 1 /\ Outside >= 1
      /\ pending \in Seq(Places) /\ Len(pending) <= InlineNames /\ named \in BOOLEAN
      /\ name \in Places /\ nameMark \in Nat /\ repeated \in BOOLEAN /\ TypeOK
      /\ comma \in BOOLEAN /\ needSep \in BOOLEAN
      /\ length["arena"] \in Nat /\ length["nested"] \in Nat
    BY <1>1, Numbers, ArenaNumbers DEF IInv, TypeOK, Control, Arenas
<1>3. PICK place \in {InDocument(n), <<"arena", length["arena"] + 1>>} :
         /\ StrictToken(n, place)
         /\ IF leaf = 0
            THEN /\ name' = place /\ nameMark' = length["arena"]
                 /\ WritesNothing
                 /\ UNCHANGED <<sets, depth, marks, leaves, pending, named, repeated>>
            ELSE /\ sets' = [sets EXCEPT ![depth] = With(sets[depth], place)]
                 /\ repeated' = Holds(sets[depth], place)
                 /\ WritesItem(<<n, "colon">>, FALSE)
                 /\ UNCHANGED <<depth, marks, leaves, pending, named, name, nameMark, leaf>>
    BY <1>1 DEF Member, open, objects
<1>4. /\ ArenasOK' /\ length'["nested"] = length["nested"]
      /\ length'["arena"] = length["arena"] + (IF place[1] = "arena" THEN 1 ELSE 0)
      /\ place \in Places /\ Written(place)'
      /\ place[1] = "document" \/ place = <<"arena", length["arena"] + 1>>
      /\ \A p \in Places : Written(p) => Written(p)' /\ TextIn(memory', p) = Text(p)
    BY <1>2, <1>3, TokenIs
<1>5. leaves' = leaves /\ UNCHANGED <<depth, marks, pending, named>>
    BY <1>3
<1>6. KeepsNames
    <2>1. \A p \in leaves' : Written(p)' /\ p[1] # "nested"
        BY <1>2, <1>4, <1>5 DEF SetsOK, Stack, InUse
    <2>2. ASSUME NEW k \in 1 .. depth, NEW p \in sets[k]
          PROVE  Written(p)'
        <3>1. p \in Places /\ Written(p)
            BY <1>2, SetsNumbers DEF Stack, InUse
        <3> QED BY <3>1, <1>4
    <2>3. length["nested"] <= length'["nested"]
        BY <1>2, <1>4
    <2> QED BY <2>1, <2>2, <2>3, <1>2, <1>4, <1>5 DEF KeepsNames, SetsOK
<1>7. PICK s \in Nat : s = SetsOutside /\ Stack(s)
    BY <1>2
<1>8. length["arena"] <= length'["arena"]
    BY <1>2, <1>4
<1>9. PICK c \in Nat : c = ObjectsOf(kinds, Outside + 1, Len(kinds))
    BY <1>2
<1>10. ASSUME leaf' = leaf
       PROVE  /\ Outside' = Outside /\ SetsOutside' = s
              /\ ObjectsOf(kinds', Outside' + 1, Len(kinds')) = c
              /\ depth' = s + c
    <2>1. Outside' = Outside
        BY <1>1, <1>10 DEF Outside
    <2>2. SetsOutside' = s
        BY <2>1, <1>1, <1>5, <1>7 DEF SetsOutside
    <2> QED BY <2>1, <2>2, <1>1, <1>2, <1>5, <1>7, <1>9
<1>11. CASE leaf = 0
    <2>1. /\ name' = place /\ nameMark' = length["arena"]
          /\ WritesNothing
          /\ UNCHANGED <<sets, depth, marks, leaves, pending, named, repeated>>
        BY <1>3, <1>11
    <2>2. UNCHANGED <<leaf, comma, needSep>> /\ kept' \in BOOLEAN
        BY <2>1, <1>2, NothingWritten
    <2>3. SetsOK' /\ Stack(s)'
        BY <2>1, <1>2, <1>5, <1>6, <1>7, <1>8, Joined
    <2>4. Control'
        BY <2>1, <2>2, <1>1, <1>2, <1>10, <1>11 DEF Control
    <2>5. NameWaits'
        <3>1. \/ name'[1] = "document" /\ length'["arena"] = nameMark'
              \/ name' = <<"arena", nameMark' + 1>> /\ length'["arena"] = nameMark' + 1
            BY <2>1, <1>2, <1>4
        <3>2. \A p \in leaves : p[1] = "arena" => p[2] <= length["arena"]
            BY <1>2 DEF Stack, InUse, Written
        <3>3. \A k \in 1 .. depth : \A p \in sets[k] : p[1] = "arena" => p[2] <= length["arena"]
            BY <1>2, SMTT(30) DEF Stack, InUse, Written
        <3> QED BY <3>1, <3>2, <3>3, <2>1 DEF NameWaits
    <2> QED BY <2>1, <2>2, <2>3, <2>4, <2>5, <1>1, <1>2, <1>4, <1>10, StackStep
<1>12. CASE leaf # 0
    <2>1. /\ sets' = [sets EXCEPT ![depth] = With(sets[depth], place)]
          /\ repeated' = Holds(sets[depth], place)
          /\ WritesItem(<<n, "colon">>, FALSE)
          /\ UNCHANGED <<depth, marks, leaves, pending, named, name, nameMark, leaf>>
        BY <1>3, <1>12
    <2>2. /\ comma' = FALSE /\ kept' \in BOOLEAN /\ needSep' \in BOOLEAN
          /\ leaf = 0 \/ needSep => needSep'
        BY <2>1, <1>2, ItemWritten
    <2>3. repeated' \in BOOLEAN
        BY <2>1 DEF Holds
    <2>4. leaf > 0 /\ Outside + 1 <= Len(kinds) /\ needSep
        BY <1>2, <1>12 DEF Outside, Control
    <2>5. depth >= 1
        <3>1. PICK e \in Nat : Len(kinds) = e + 1
            BY <1>2
        <3>2. Outside + 1 \in Nat /\ Outside + 1 <= e + 1
            BY <3>1, <2>4, <1>2
        <3>3. ObjectsOf(kinds, Outside + 1, e + 1) =
                 ObjectsOf(kinds, Outside + 1, e) + (IF kinds[e + 1] = "object" THEN 1 ELSE 0)
            BY <3>1, <3>2, CountedNext
        <3>4. ObjectsOf(kinds, Outside + 1, e) \in Nat
            BY <3>1, <3>2, Counted
        <3>5. c >= 1
            BY <3>1, <3>3, <3>4, <1>1, <1>9
        <3> QED BY <3>5, <1>2, <1>7, <1>9
    <2>6. depth \in 1 .. depth /\ sets[depth] \in SUBSET Places
        BY <2>5, <1>2, SetsNumbers
    <2>7. PICK S \in SUBSET Places : S = With(sets[depth], place)
        BY <2>6, <1>4, WithIs
    <2>8. sets' = [sets EXCEPT ![depth] = S]
        BY <2>1, <2>7
    <2>9. sets'[depth] = S
        BY <2>5, <2>8, <1>2, JoinSets
    <2>10. \A p \in sets'[depth] : Written(p)'
        BY <2>6, <2>7, <2>9, <1>4, <1>6, WithIs DEF KeepsNames
    <2>11. SetsOK' /\ Stack(s)'
        BY <2>1, <2>5, <2>8, <2>10, <1>2, <1>6, <1>7, <1>8, Joined
    <2>12. Control'
        BY <2>1, <2>2, <2>4, <1>1, <1>2, <1>10 DEF Control
    <2>13. leaf' # 0
        BY <2>1, <1>12
    <2> QED BY <2>1, <2>2, <2>3, <2>11, <2>12, <2>13, <1>1, <1>2, <1>4, <1>10, StackStep
<1> QED BY <1>11, <1>12

LEMMA StepInvariant == IInv /\ [Next]_vars => IInv'
<1> SUFFICES ASSUME IInv, [Next]_vars
             PROVE  IInv'
    OBVIOUS
<1>1. CASE Scalar
    BY <1>1, ScalarStep
<1>2. CASE OpenArray
    BY <1>2, OpenArrayStep
<1>3. CASE OpenObject
    BY <1>3, OpenObjectStep
<1>4. CASE CloseContainer
    BY <1>4, CloseStep
<1>5. CASE NoObject \/ End \/ Rest \/ \E t \in {"bad", "openArray", "openObject"} : Fault(t)
    BY <1>5, EndsStep
<1>6. CASE \E n \in Names : MemberName(n)
    BY <1>6, NameStep
<1>7. CASE UNCHANGED vars
    <2>1. UNCHANGED <<had, kinds, next, sets, depth, marks, memory, length, leaves, pending, named,
                      name, nameMark, leaf, comma, repeated, needSep, kept, token, wrote, result>>
        BY <1>7 DEF vars, walker, open, arenas, objects, builder
    <2>2. TypeOK'
        BY <2>1 DEF IInv, TypeOK
    <2>3. ASSUME Takes'
          PROVE  /\ Control' /\ depth' = (SetsOutside + ObjectsOf(kinds, Outside + 1, Len(kinds)))'
                 /\ Stack(SetsOutside)'
                 /\ (kinds # << >> /\ leaf = 0 /\ next = "value" => NameWaits)'
        <3>1. Takes
            BY <2>1, <2>3 DEF Takes
        <3>2. Outside' = Outside
            BY <2>1 DEF Outside
        <3>3. SetsOutside' = SetsOutside
            BY <2>1, <3>2 DEF SetsOutside
        <3>4. Control'
            BY <2>1, <3>1, <3>2 DEF IInv, Control
        <3>5. Stack(SetsOutside)'
            BY <2>1, <3>1, <3>3 DEF IInv, Stack, InUse, Marked, Written
        <3>6. (kinds # << >> /\ leaf = 0 /\ next = "value" => NameWaits)'
            BY <2>1, <3>1 DEF IInv, NameWaits
        <3>7. depth' = (SetsOutside + ObjectsOf(kinds, Outside + 1, Len(kinds)))'
            BY <2>1, <3>1, <3>2, <3>3 DEF IInv
        <3> QED BY <3>4, <3>5, <3>6, <3>7
    <2> QED BY <2>2, <2>3 DEF IInv
<1> QED BY <1>1, <1>2, <1>3, <1>4, <1>5, <1>6, <1>7 DEF Next

\* The types hold, the stacks of sets and marks follow the objects that are open, and
\* what will be given back of an arena holds no name of an object still open, or of a
\* leaf (ensure, enter, leave, and push and pop of openObjects).
THEOREM Invariance == Spec => []IInv
<1>1. Init => IInv
    BY Initial
<1>2. IInv /\ [Next]_vars => IInv'
    BY StepInvariant
<1> QED BY <1>1, <1>2, PTL DEF Spec

\* Every open object has a set, but the innermost outside the leaves perhaps, and no name
\* that is kept lies in room that was given back (flattener.enter, leave and setName).
THEOREM KeptNames == Spec => []SetsOfObjects
<1>1. IInv => SetsOfObjects
    <2> SUFFICES ASSUME IInv, Takes, kinds # << >>
                 PROVE  /\ \A k \in 1 .. Outside : kinds[k] = "object"
                        /\ depth = Outside - (IF named THEN 0 ELSE 1)
                                      + ObjectsIn(Outside + 1, Len(kinds))
                        /\ Len(marks) = depth
                        /\ \A p \in leaves \union Kept \union UNION {sets[k] : k \in 1 .. depth} :
                              p[1] # "document" => p[2] <= length[p[1]]
        BY DEF SetsOfObjects, IInv
    <2>1. /\ ArenasOK /\ SetsOK /\ Control /\ Stack(SetsOutside) /\ SetsOutside \in Nat
          /\ depth \in Nat /\ Outside \in Nat /\ Outside >= 1 /\ named \in BOOLEAN
          /\ depth = SetsOutside + ObjectsOf(kinds, Outside + 1, Len(kinds))
          /\ ObjectsOf(kinds, Outside + 1, Len(kinds)) \in Nat
          /\ Len(pending) \in Nat
        BY Numbers
    <2>2. SetsOutside = Outside - (IF named THEN 0 ELSE 1)
        BY DEF SetsOutside
    <2>3. ObjectsIn(Outside + 1, Len(kinds)) = ObjectsOf(kinds, Outside + 1, Len(kinds))
        BY DEF ObjectsIn, ObjectsOf
    <2>4. ASSUME NEW p \in leaves \union Kept \union UNION {sets[k] : k \in 1 .. depth}
          PROVE  p \in Places /\ Written(p)
        <3>1. CASE p \in leaves
            BY <3>1, <2>1 DEF SetsOK, Stack, InUse
        <3>2. CASE \E k \in 1 .. depth : p \in sets[k]
            BY <3>2, <2>1, SetsNumbers DEF Stack, InUse
        <3>3. CASE p \in Kept
            <4>1. CASE named
                <5>1. depth \in 1 .. depth /\ p \in sets[depth]
                    BY <4>1, <3>3, <2>1, <2>2 DEF Kept
                <5> QED BY <5>1, <3>2
            <4>2. CASE ~named
                <5>1. p \in leaves
                    BY <4>2, <3>3, <2>1 DEF Kept, Control
                <5> QED BY <5>1, <3>1
            <4> QED BY <4>1, <4>2
        <3> QED BY <3>1, <3>2, <3>3, <2>4
    <2>5. ASSUME NEW p \in Places, Written(p), p[1] # "document"
          PROVE  p[2] <= length[p[1]]
        <3>1. p[1] \in Arenas /\ p[2] \in 1 .. length[p[1]]
            BY <2>5, PlaceIs DEF Written
        <3> QED BY <3>1, <2>1, ArenaNumbers
    <2> QED BY <2>1, <2>2, <2>3, <2>4, <2>5 DEF Control, Stack
<1> QED BY <1>1, Invariance, PTL

-----------------------------------------------------------------------------
(* Flatten implements FlatLeaves.                                          *)

Container == [kind : Kinds, names : SUBSET (Names \union {None}), begun : BOOLEAN]

\* Where the set of the k-th open container is, if it is an object, and the places in it.
SetOf(k) == IF k <= Outside THEN k ELSE SetsOutside + ObjectsOf(kinds, Outside + 1, k)

PlacesOf(k) == IF kinds[k] = "array" THEN {}
               ELSE IF k = Outside /\ ~named THEN {pending[j] : j \in 1 .. Len(pending)}
               ELSE sets[SetOf(k)]

BegunOf(k) == k > Outside /\ (k < Len(kinds) \/ next = "value" \/ comma)

ItemOf(k) == [kind |-> kinds[k], names |-> NamesOf(k), begun |-> BegunOf(k)]

\* An object in a leaf has a set of its own, and the innermost one has the last set.
LEMMA ObjectRange ==
    ASSUME NEW stack, NEW from \in Nat, NEW l \in Nat, NEW k \in from .. l, stack[k] = "object",
           from >= 1
    PROVE  /\ ObjectsOf(stack, from, k) \in 1 .. ObjectsOf(stack, from, l)
           /\ ObjectsOf(stack, from, l) \in Nat
           /\ stack[l] = "object" /\ k # l => ObjectsOf(stack, from, k) < ObjectsOf(stack, from, l)
<1> DEFINE e == k - 1
           f == l - 1
<1>1. e \in Nat /\ k = e + 1 /\ f \in Nat /\ l = f + 1 /\ from <= e + 1 /\ from <= f + 1
      /\ k \in Nat /\ k <= l
    OBVIOUS
<1> HIDE DEF e, f
<1>2. ObjectsOf(stack, from, k) = ObjectsOf(stack, from, e) + 1 /\ ObjectsOf(stack, from, e) \in Nat
    BY <1>1, CountedNext, Counted
<1>3. /\ ObjectsOf(stack, from, k) <= ObjectsOf(stack, from, l)
      /\ ObjectsOf(stack, from, l) \in Nat
    BY <1>1, CountedMore, Counted
<1>4. ASSUME stack[l] = "object", k # l
      PROVE  ObjectsOf(stack, from, k) < ObjectsOf(stack, from, l)
    <2>1. /\ ObjectsOf(stack, from, l) = ObjectsOf(stack, from, f) + 1
          /\ ObjectsOf(stack, from, f) \in Nat
        BY <1>1, <1>4, CountedNext, Counted
    <2>2. k <= f
        BY <1>1, <1>4
    <2>3. ObjectsOf(stack, from, k) <= ObjectsOf(stack, from, f)
        BY <1>1, <2>2, CountedMore
    <2> QED BY <2>1, <2>3, <1>2
<1> QED BY <1>2, <1>3, <1>4

LEMMA SetIs ==
    ASSUME IInv, Takes, NEW k \in 1 .. Len(kinds), kinds[k] = "object",
           ~(k = Outside /\ ~named)
    PROVE  /\ SetOf(k) \in 1 .. depth
           /\ kinds[Len(kinds)] = "object" /\ leaf > 0 =>
                 (k = Len(kinds) <=> SetOf(k) = depth)
           /\ k > Outside => SetOf(k) > SetsOutside
           /\ k <= Outside => SetOf(k) <= SetsOutside
<1>1. /\ Len(kinds) \in Nat /\ Outside \in Nat /\ SetsOutside \in Nat /\ leaf \in Nat
      /\ depth = SetsOutside + ObjectsOf(kinds, Outside + 1, Len(kinds))
      /\ ObjectsOf(kinds, Outside + 1, Len(kinds)) \in Nat
      /\ Outside <= Len(kinds) /\ named \in BOOLEAN /\ kinds # << >>
    <2>1. kinds # << >>
        <3>1. Len(kinds) \in Nat /\ (kinds # << >> <=> Len(kinds) >= 1)
            BY Numbers
        <3> QED BY <3>1
    <2> QED BY <2>1, Numbers
<1>2. SetsOutside = Outside - (IF named THEN 0 ELSE 1)
    BY <1>1 DEF SetsOutside
<1>3. CASE k <= Outside
    <2>1. SetOf(k) = k /\ k <= SetsOutside
        BY <1>1, <1>2, <1>3 DEF SetOf
    <2>2. leaf > 0 => k # Len(kinds)
        BY <1>1, <1>3 DEF Outside
    <2>3. leaf > 0 /\ kinds[Len(kinds)] = "object" => depth > SetsOutside
        <3> SUFFICES ASSUME leaf > 0, kinds[Len(kinds)] = "object"
                     PROVE  depth > SetsOutside
            OBVIOUS
        <3>1. /\ Outside + 1 \in Nat /\ Len(kinds) \in (Outside + 1) .. Len(kinds)
              /\ Outside + 1 >= 1
            BY <1>1 DEF Outside
        <3>2. ObjectsOf(kinds, Outside + 1, Len(kinds)) \in
                 1 .. ObjectsOf(kinds, Outside + 1, Len(kinds))
            BY <3>1, <1>1, ObjectRange
        <3> QED BY <3>2, <1>1
    <2> QED BY <2>1, <2>2, <2>3, <1>1, <1>3
<1>4. CASE k > Outside
    <2>1. /\ Outside + 1 \in Nat /\ k \in (Outside + 1) .. Len(kinds)
          /\ Outside + 1 >= 1
        BY <1>1, <1>4
    <2>2. /\ ObjectsOf(kinds, Outside + 1, k) \in 1 .. ObjectsOf(kinds, Outside + 1, Len(kinds))
          /\ kinds[Len(kinds)] = "object" /\ k # Len(kinds) =>
                ObjectsOf(kinds, Outside + 1, k) < ObjectsOf(kinds, Outside + 1, Len(kinds))
        BY <2>1, <1>1, ObjectRange
    <2>3. SetOf(k) = SetsOutside + ObjectsOf(kinds, Outside + 1, k)
        BY <1>1, <1>4 DEF SetOf
    <2> QED BY <2>2, <2>3, <1>1, <1>4
<1> QED BY <1>1, <1>3, <1>4

\* What is kept lies in room that is in use.
LEMMA PlacesIs ==
    ASSUME IInv, Takes, NEW k \in 1 .. Len(kinds)
    PROVE  \A p \in PlacesOf(k) : /\ p \in Places /\ Written(p)
                                  /\ NameWaits /\ p[1] = "arena" => p[2] <= nameMark
<1>1. /\ SetsOK /\ Stack(SetsOutside) /\ Control /\ kinds \in Seq(Kinds)
      /\ Len(pending) \in Nat
    BY Numbers
<1>2. SUFFICES ASSUME NEW p \in PlacesOf(k)
               PROVE  p \in leaves \/ \E i \in 1 .. depth : p \in sets[i]
    BY <1>1, SetsNumbers DEF Stack, InUse, SetsOK, NameWaits
<1>3. kinds[k] \in Kinds
    BY <1>1, ElementOfSeq
<1>4. kinds[k] = "object"
    BY <1>3 DEF PlacesOf, Kinds
<1>5. CASE k = Outside /\ ~named
    BY <1>4, <1>5, <1>1 DEF PlacesOf, Control
<1>6. CASE ~(k = Outside /\ ~named)
    <2>1. SetOf(k) \in 1 .. depth
        BY <1>4, <1>6, SetIs
    <2> QED BY <2>1, <1>4, <1>6 DEF PlacesOf
<1> QED BY <1>5, <1>6

LEMMA TextOf ==
    ASSUME ArenasOK, NEW p \in Places, Written(p)
    PROVE  Text(p) \in Names \union {None}
<1>1. CASE p[1] = "document"
    BY <1>1, PlaceIs DEF Text, TextIn
<1>2. CASE p[1] # "document"
    <2>1. p[1] \in Arenas /\ p[2] \in 1 .. length[p[1]]
        BY <1>2, PlaceIs DEF Written
    <2>2. p[2] \in 1 .. Len(memory[p[1]])
        BY <2>1, ArenaNumbers
    <2>3. memory[p[1]][p[2]] \in Names
        BY <2>1, <2>2, ArenaNumbers
    <2> QED BY <2>3, <1>2 DEF Text, TextIn
<1> QED BY <1>1, <1>2

LEMMA NamesOfIs ==
    ASSUME IInv, Takes, NEW k \in 1 .. Len(kinds)
    PROVE  NamesOf(k) = {Text(p) : p \in PlacesOf(k)}
<1>1. /\ Len(kinds) \in Nat /\ Outside \in Nat /\ named \in BOOLEAN /\ kinds # << >>
    <2>1. Len(kinds) \in Nat /\ (kinds # << >> <=> Len(kinds) >= 1)
        BY Numbers
    <2> QED BY <2>1, Numbers
<1>2. SetsOutside = Outside - (IF named THEN 0 ELSE 1)
    BY <1>1 DEF SetsOutside
<1>3. ObjectsIn(Outside + 1, k) = ObjectsOf(kinds, Outside + 1, k)
    BY DEF ObjectsIn, ObjectsOf
<1>4. CASE k < Outside
    BY <1>1, <1>4 DEF NamesOf, PlacesOf, SetOf
<1>5. CASE k = Outside
    BY <1>1, <1>5 DEF NamesOf, PlacesOf, SetOf
<1>6. CASE k > Outside
    BY <1>1, <1>2, <1>3, <1>6 DEF NamesOf, PlacesOf, SetOf
<1> QED BY <1>1, <1>4, <1>5, <1>6

Shape ==
    /\ AbstractOpen \in Seq(Container)
    /\ Len(AbstractOpen) = Len(kinds)
    /\ \A k \in 1 .. Len(kinds) : AbstractOpen[k] = ItemOf(k)
    /\ \A k \in 1 .. Len(kinds) : NamesOf(k) = {Text(p) : p \in PlacesOf(k)}

LEMMA Shapes == (IInv /\ Takes => Shape) /\ (IInv' /\ Takes' => Shape')
<1>1. IInv /\ Takes => Shape
    <2> SUFFICES ASSUME IInv, Takes
                 PROVE  Shape
        OBVIOUS
    <2>1. Len(kinds) \in Nat /\ ArenasOK /\ ~repeated /\ kinds \in Seq(Kinds)
        BY Numbers DEF Takes
    <2>2. AbstractOpen = [k \in 1 .. Len(kinds) |-> ItemOf(k)]
        BY <2>1 DEF AbstractOpen, ItemOf, BegunOf
    <2>3. ASSUME NEW k \in 1 .. Len(kinds)
          PROVE  ItemOf(k) \in Container
        <3>1. NamesOf(k) \in SUBSET (Names \union {None})
            BY <2>1, NamesOfIs, PlacesIs, TextOf
        <3>2. kinds[k] \in Kinds
            BY <2>1, ElementOfSeq
        <3>3. BegunOf(k) \in BOOLEAN
            BY DEF BegunOf
        <3> QED BY <3>1, <3>2, <3>3 DEF ItemOf, Container
    <2>4. AbstractOpen \in [1 .. Len(kinds) -> Container]
        BY <2>2, <2>3
    <2>5. AbstractOpen \in Seq(Container) /\ Len(AbstractOpen) = Len(kinds)
        BY <2>1, <2>4, SeqDef
    <2>6. \A k \in 1 .. Len(kinds) : AbstractOpen[k] = ItemOf(k)
        BY <2>2
    <2>7. \A k \in 1 .. Len(kinds) : NamesOf(k) = {Text(p) : p \in PlacesOf(k)}
        BY NamesOfIs
    <2> QED BY <2>5, <2>6, <2>7 DEF Shape
<1> QED BY <1>1, PTL

\* The abstract stack after a change at its end.
LEMMA SameTop ==
    ASSUME AbstractOpen \in Seq(Container), AbstractOpen' \in Seq(Container),
           NEW l \in Nat, l >= 1, Len(AbstractOpen) = l, Len(AbstractOpen') = l,
           \A k \in 1 .. (l - 1) : AbstractOpen'[k] = AbstractOpen[k],
           NEW e, AbstractOpen'[l] = e
    PROVE  AbstractOpen' = [AbstractOpen EXCEPT ![l] = e]
<1>1. /\ AbstractOpen \in [1 .. l -> Container] /\ AbstractOpen' \in [1 .. l -> Container]
    BY LenProperties
<1>2. \A k \in 1 .. l : AbstractOpen'[k] = IF k = l THEN e ELSE AbstractOpen[k]
    <2> TAKE k \in 1 .. l
    <2>1. k = l \/ k \in 1 .. (l - 1)
        OBVIOUS
    <2> QED BY <2>1
<1> QED BY <1>1, <1>2

LEMMA Longer ==
    ASSUME AbstractOpen \in Seq(Container), AbstractOpen' \in Seq(Container),
           NEW l \in Nat, l >= 1, Len(AbstractOpen) = l, Len(AbstractOpen') = l + 1,
           \A k \in 1 .. (l - 1) : AbstractOpen'[k] = AbstractOpen[k],
           NEW e, AbstractOpen'[l] = e,
           NEW f, AbstractOpen'[l + 1] = f
    PROVE  AbstractOpen' = Append([AbstractOpen EXCEPT ![l] = e], f)
<1> DEFINE mid == [AbstractOpen EXCEPT ![l] = e]
           new == AbstractOpen'
           more == Append(mid, f)
<1>1. e \in Container /\ f \in Container
    <2>1. l \in 1 .. Len(AbstractOpen') /\ l + 1 \in 1 .. Len(AbstractOpen')
        OBVIOUS
    <2> QED BY <2>1, ElementOfSeq
<1>2. /\ mid \in Seq(Container) /\ Len(mid) = l
      /\ \A k \in 1 .. l : mid[k] = IF k = l THEN e ELSE AbstractOpen[k]
    BY <1>1, ExceptSeq
<1> HIDE DEF mid
<1>3. /\ more \in Seq(Container) /\ Len(more) = l + 1
      /\ \A k \in 1 .. l : more[k] = mid[k]
      /\ more[l + 1] = f
    BY <1>1, <1>2, AppendProperties
<1> HIDE DEF more
<1>4. \A k \in 1 .. (l + 1) : new[k] = more[k]
    <2> TAKE k \in 1 .. (l + 1)
    <2>1. CASE k = l + 1
        BY <2>1, <1>3
    <2>2. CASE k = l
        BY <2>2, <1>2, <1>3
    <2>3. CASE k \in 1 .. (l - 1)
        BY <2>3, <1>2, <1>3
    <2> QED BY <2>1, <2>2, <2>3
<1>5. new = more
    BY <1>3, <1>4, SeqEqual
<1> QED BY <1>5 DEF more, mid

LEMMA Shorter ==
    ASSUME AbstractOpen \in Seq(Container), AbstractOpen' \in Seq(Container),
           NEW l \in Nat, Len(AbstractOpen) = l + 1, Len(AbstractOpen') = l,
           \A k \in 1 .. l : AbstractOpen'[k] = AbstractOpen[k]
    PROVE  AbstractOpen' = SubSeq(AbstractOpen, 1, Len(AbstractOpen) - 1)
<1> DEFINE old == AbstractOpen
           new == AbstractOpen'
           cut == SubSeq(old, 1, l)
<1>1. \A k \in 1 .. l : old[k] \in Container
    <2>1. \A k \in 1 .. l : k \in 1 .. Len(old)
        OBVIOUS
    <2> QED BY <2>1, ElementOfSeq
<1>2. cut \in Seq(Container) /\ Len(cut) = l /\ \A k \in 1 .. l : cut[k] = old[k]
    BY <1>1, SubSeqProperties
<1> HIDE DEF cut
<1>3. new = cut
    BY <1>2, SeqEqual
<1>4. Len(AbstractOpen) - 1 = l
    OBVIOUS
<1> QED BY <1>3, <1>4 DEF cut

LEMMA Fields ==
    ASSUME NEW a, NEW b, NEW c, NEW r, r = [kind |-> a, names |-> b, begun |-> c]
    PROVE  /\ r.kind = a /\ r.names = b /\ r.begun = c
           /\ \A d : [r EXCEPT !.names = d] = [kind |-> a, names |-> d, begun |-> c]
           /\ \A d : [r EXCEPT !.begun = d] = [kind |-> a, names |-> b, begun |-> d]
OBVIOUS

LEMMA SameOpen ==
    ASSUME Shape, Shape', NEW l \in Nat, Len(kinds) = l, Len(kinds') = l,
           \A k \in 1 .. l : ItemOf(k)' = ItemOf(k)
    PROVE  AbstractOpen' = AbstractOpen
<1>1. /\ AbstractOpen \in Seq(Container) /\ AbstractOpen' \in Seq(Container)
      /\ Len(AbstractOpen) = l /\ Len(AbstractOpen') = l
      /\ \A k \in 1 .. l : AbstractOpen'[k] = AbstractOpen[k]
    BY DEF Shape
<1> QED BY <1>1, SeqEqual

\* What the abstract walk sees of the last container, and how it changes it.
LEMMA TopIs ==
    ASSUME IInv, Takes, kinds # << >>, NEW l \in Nat, l = Len(kinds)
    PROVE  /\ Abstract!Top = ItemOf(l) /\ Len(AbstractOpen) = l /\ l >= 1
           /\ AbstractOpen # << >>
           /\ Abstract!InLeaf(AbstractOpen) <=> leaf > 0
           /\ Abstract!InLeaf(AbstractOpen) \in BOOLEAN
<1>1. Shape /\ l >= 1
    BY Shapes, Numbers
<1>2. AbstractOpen[l] = ItemOf(l) /\ Len(AbstractOpen) = l
    BY <1>1 DEF Shape
<1>3. AbstractOpen # << >>
    BY <1>1, <1>2, EmptySeq
<1>4. /\ Control /\ leaf \in Nat /\ Outside \in Nat /\ Len(kinds) \in Nat
      /\ leaf = 0 => Outside = Len(kinds)
    BY Numbers
<1>5. ASSUME NEW k \in 1 .. l
      PROVE  AbstractOpen[k].kind = kinds[k]
    <2>1. AbstractOpen[k] = [kind |-> kinds[k], names |-> NamesOf(k), begun |-> BegunOf(k)]
        BY <1>1 DEF Shape, ItemOf
    <2> QED BY <2>1, Fields
<1>6. CASE leaf > 0
    <2>1. Outside + 1 \in 1 .. l /\ kinds[Outside + 1] = "array"
        BY <1>4, <1>6 DEF Outside, Control
    <2> QED BY <2>1, <1>1, <1>2, <1>3, <1>5, <1>6 DEF Abstract!InLeaf, Abstract!Top
<1>7. CASE leaf = 0
    <2>1. \A k \in 1 .. l : kinds[k] = "object"
        BY <1>4, <1>7 DEF Control
    <2> QED BY <2>1, <1>1, <1>2, <1>3, <1>5, <1>7 DEF Abstract!InLeaf, Abstract!Top
<1> QED BY <1>4, <1>6, <1>7

LEMMA TopNamed ==
    ASSUME IInv, Takes, kinds # << >>, NEW l \in Nat, l = Len(kinds), NEW n
    PROVE  Abstract!Named(AbstractOpen, n) =
              [AbstractOpen EXCEPT ![l] =
                  [kind |-> kinds[l], names |-> NamesOf(l) \union {n}, begun |-> BegunOf(l)]]
<1> DEFINE top == [kind |-> kinds[l], names |-> NamesOf(l) \union {n}, begun |-> BegunOf(l)]
<1>1. AbstractOpen[l] = ItemOf(l) /\ Len(AbstractOpen) = l
    BY TopIs DEF Abstract!Top
<1>2. /\ AbstractOpen[l].names = NamesOf(l)
      /\ [AbstractOpen[l] EXCEPT !.names = NamesOf(l) \union {n}] = top
    <2>1. AbstractOpen[l] = [kind |-> kinds[l], names |-> NamesOf(l), begun |-> BegunOf(l)]
        BY <1>1 DEF ItemOf
    <2>2. PICK r : r = AbstractOpen[l]
        OBVIOUS
    <2>3. PICK x : x = NamesOf(l) \union {n}
        OBVIOUS
    <2>4. r.names = NamesOf(l) /\ [r EXCEPT !.names = x] = [kind |-> kinds[l], names |-> x, begun |-> BegunOf(l)]
        BY <2>1, <2>2, Fields
    <2> QED BY <2>2, <2>3, <2>4
<1> HIDE DEF top
<1>3. [AbstractOpen EXCEPT ![l].names = NamesOf(l) \union {n}]
         = [AbstractOpen EXCEPT ![l] = [AbstractOpen[l] EXCEPT !.names = NamesOf(l) \union {n}]]
    OBVIOUS
<1>4. Abstract!Named(AbstractOpen, n) = [AbstractOpen EXCEPT ![l] = top]
    BY <1>1, <1>2, <1>3 DEF Abstract!Named
<1> QED BY <1>4 DEF top

\* TRUE where it is a field of a record.
Yes == TRUE

LEMMA TopBegun ==
    ASSUME IInv, Takes, kinds # << >>, leaf > 0, NEW l \in Nat, l = Len(kinds)
    PROVE  /\ Abstract!Begun =
                 [AbstractOpen EXCEPT ![l] =
                     [kind |-> kinds[l], names |-> NamesOf(l), begun |-> Yes]]
           /\ \A n : Abstract!Named(Abstract!Begun, n) =
                 [AbstractOpen EXCEPT ![l] =
                     [kind |-> kinds[l], names |-> NamesOf(l) \union {n}, begun |-> Yes]]
<1> DEFINE top == [kind |-> kinds[l], names |-> NamesOf(l), begun |-> Yes]
<1>1. /\ AbstractOpen[l] = ItemOf(l) /\ Len(AbstractOpen) = l /\ l >= 1
      /\ Abstract!InLeaf(AbstractOpen) = Yes
      /\ AbstractOpen \in Seq(Container)
    <2>1. /\ Abstract!InLeaf(AbstractOpen) \in BOOLEAN /\ Abstract!InLeaf(AbstractOpen)
          /\ AbstractOpen[l] = ItemOf(l) /\ Len(AbstractOpen) = l /\ l >= 1
        BY TopIs DEF Abstract!Top
    <2>2. Shape
        BY Shapes
    <2> QED BY <2>1, <2>2 DEF Shape, Yes
<1>2. [AbstractOpen[l] EXCEPT !.begun = Yes] = top
    <2>1. AbstractOpen[l] = [kind |-> kinds[l], names |-> NamesOf(l), begun |-> BegunOf(l)]
        BY <1>1 DEF ItemOf
    <2>2. PICK r : r = AbstractOpen[l]
        OBVIOUS
    <2>3. [r EXCEPT !.begun = Yes] = top
        BY <2>1, <2>2, Fields
    <2> QED BY <2>2, <2>3
<1> HIDE DEF top
<1>3. [AbstractOpen EXCEPT ![l].begun = Yes]
         = [AbstractOpen EXCEPT ![l] = [AbstractOpen[l] EXCEPT !.begun = Yes]]
    OBVIOUS
<1>4. Abstract!Begun = [AbstractOpen EXCEPT ![l] = top]
    BY <1>1, <1>2, <1>3 DEF Abstract!Begun
<1>5. ASSUME NEW n
      PROVE  Abstract!Named(Abstract!Begun, n) =
                [AbstractOpen EXCEPT ![l] =
                    [kind |-> kinds[l], names |-> NamesOf(l) \union {n}, begun |-> Yes]]
    <2> DEFINE mid == Abstract!Begun
               end == [kind |-> kinds[l], names |-> NamesOf(l) \union {n}, begun |-> Yes]
    <2>0. AbstractOpen \in [1 .. l -> Container]
        BY <1>1, LenProperties
    <2>1. DOMAIN mid = 1 .. l /\ mid[l] = top /\ \A k \in 1 .. l : k # l => mid[k] = AbstractOpen[k]
        BY <2>0, <1>1, <1>4
    <2>2. Len(mid) = l
        <3>1. mid \in [1 .. l -> Container \union {top}]
            BY <2>0, <1>1, <1>4
        <3>2. mid \in Seq(Container \union {top})
            BY <3>1, SeqDef
        <3> HIDE DEF mid
        <3>3. Len(mid) \in Nat /\ DOMAIN mid = 1 .. Len(mid)
            BY <3>2, LenProperties, SMTT(30)
        <3> DEFINE m == Len(mid)
        <3>4. m \in Nat /\ 1 .. m = 1 .. l /\ l >= 1
            BY <3>3, <2>1, <1>1
        <3> HIDE DEF m
        <3>5. m = l
            <4>1. l \in 1 .. m /\ (m >= 1 => m \in 1 .. l)
                BY <3>4
            <4> QED BY <4>1, <3>4
        <3> QED BY <3>5 DEF m
    <2>3. mid[l].names = NamesOf(l) /\ [mid[l] EXCEPT !.names = NamesOf(l) \union {n}] = end
        <3>1. mid[l] = [kind |-> kinds[l], names |-> NamesOf(l), begun |-> Yes]
            BY <2>1 DEF top
        <3> HIDE DEF mid
        <3>2. PICK r : r = mid[l]
            OBVIOUS
        <3>3. PICK x : x = NamesOf(l) \union {n}
            OBVIOUS
        <3>4. r.names = NamesOf(l) /\ [r EXCEPT !.names = x] = [kind |-> kinds[l], names |-> x, begun |-> Yes]
            BY <3>1, <3>2, Fields
        <3> QED BY <3>2, <3>3, <3>4
    <2> HIDE DEF end
    <2>4. [mid EXCEPT ![l].names = NamesOf(l) \union {n}]
             = [mid EXCEPT ![l] = [mid[l] EXCEPT !.names = NamesOf(l) \union {n}]]
        OBVIOUS
    <2>5. Abstract!Named(mid, n) = [mid EXCEPT ![l] = end]
        BY <2>2, <2>3, <2>4 DEF Abstract!Named
    <2>6. [mid EXCEPT ![l] = end] = [AbstractOpen EXCEPT ![l] = end]
        BY <2>0, <1>1, <1>4
    <2> QED BY <2>5, <2>6 DEF end
<1> QED BY <1>4, <1>5 DEF top

-----------------------------------------------------------------------------
(* The rest of what the abstract walk sees.                                *)

ReadName  == IF Waiting THEN Text(name) ELSE None
LeafNames == IF repeated THEN {} ELSE {Text(p) : p \in leaves}

\* Once a name has repeated, the abstract walk keeps nothing.
LEMMA Forgotten ==
    ASSUME repeated'
    PROVE  AbstractOpen' = << >> /\ ReadName' = None /\ LeafNames' = {}
<1>1. AbstractOpen' = << >>
    BY DEF AbstractOpen
<1>2. ReadName' = None /\ LeafNames' = {}
    BY DEF ReadName, LeafNames, Waiting
<1> QED BY <1>1, <1>2

LEMMA WritesMapped ==
    ASSUME TypeOK, Takes, result' = result, had' = had, repeated' \in BOOLEAN,
           NEW text, wrote' = text, kept' = (kept \/ text # << >>),
           ~repeated' => needSep' = (needSep \/ text # << >>)
    PROVE  Abstract!Writes(text)
<1>1. ~repeated /\ result' = "reading" /\ ~Undone /\ kept \in BOOLEAN
    BY DEF Takes, Undone, TypeOK
<1>2. CASE repeated'
    <2>1. Undone'
        BY <1>1, <1>2 DEF Undone
    <2> QED BY <2>1, <1>1, <1>2 DEF Abstract!Writes
<1>3. CASE ~repeated'
    <2>1. ~Undone'
        BY <1>3 DEF Undone
    <2>2. /\ (IF repeated' THEN << >> ELSE wrote') = text
          /\ (kept' /\ ~Undone') = ((kept /\ ~Undone) \/ text # << >>)
          /\ (IF Undone' THEN had' ELSE needSep') = ((IF Undone THEN had ELSE needSep) \/ text # << >>)
        BY <2>1, <1>1, <1>3
    <2> QED BY <2>2, <1>3 DEF Abstract!Writes
<1> QED BY <1>2, <1>3

\* The empty stack is empty there too, and the last kinds are the same.
LEMMA Emptied ==
    ASSUME IInv, Takes
    PROVE  AbstractOpen = << >> <=> kinds = << >>
<1>1. Shape /\ Len(kinds) \in Nat /\ (kinds # << >> <=> Len(kinds) >= 1)
    BY Shapes, Numbers
<1>2. AbstractOpen \in Seq(Container) /\ Len(AbstractOpen) = Len(kinds)
    BY <1>1 DEF Shape
<1>3. AbstractOpen = << >> <=> Len(AbstractOpen) = 0
    BY <1>2, EmptySeq
<1> QED BY <1>1, <1>2, <1>3

LEMMA ReadingMapped ==
    ASSUME IInv, Takes
    PROVE  /\ Abstract!Reading
           /\ kinds # << >> => Abstract!Top.kind = kinds[Len(kinds)]
           /\ ValueNext => Abstract!ValueComes /\ AbstractOpen # << >>
           /\ kinds = << >> /\ next = "value" => Abstract!ValueComes
           /\ Len(AbstractOpen) = Len(kinds)
<1>1. Abstract!Reading
    BY DEF Takes, Abstract!Reading
<1>2. ASSUME kinds # << >>
      PROVE  Abstract!Top.kind = kinds[Len(kinds)]
    <2>1. PICK l \in Nat : l = Len(kinds)
        BY Numbers
    <2>2. Abstract!Top = ItemOf(l)
        BY <2>1, <1>2, TopIs
    <2>3. PICK r : r = Abstract!Top
        OBVIOUS
    <2>4. r = [kind |-> kinds[l], names |-> NamesOf(l), begun |-> BegunOf(l)]
        BY <2>2, <2>3 DEF ItemOf
    <2>5. r.kind = kinds[l]
        BY <2>4, Fields
    <2> QED BY <2>1, <2>3, <2>5
<1>3. ValueNext => kinds # << >> /\ (next = "value" \/ (next = "item" /\ kinds[Len(kinds)] = "array"))
    BY DEF ValueNext
<1>4. Len(AbstractOpen) = Len(kinds)
    BY Shapes DEF Shape
<1> QED BY <1>1, <1>2, <1>3, <1>4, Emptied DEF Abstract!ValueComes

-----------------------------------------------------------------------------
(* The steps that read nothing.                                            *)

LEMMA InitialMapped == Init => Abstract!Init
<1> SUFFICES ASSUME Init
             PROVE  Abstract!Init
    OBVIOUS
<1>1. /\ had \in BOOLEAN /\ kinds = << >> /\ next = "value" /\ leaves = {}
      /\ repeated = FALSE /\ needSep = had /\ kept = FALSE
      /\ token = None /\ wrote = << >> /\ result = "reading" /\ Len(kinds) = 0
    BY EmptySeq DEF Init
<1>2. AbstractOpen = << >>
    BY <1>1 DEF AbstractOpen
<1>3. ~Waiting /\ ~Undone
    BY <1>1 DEF Waiting, Undone
<1>4. (IF repeated THEN {} ELSE {Text(p) : p \in leaves}) = {}
    BY <1>1
<1>5. (kept /\ ~Undone) = FALSE
    BY <1>1
<1> QED BY <1>1, <1>2, <1>3, <1>4, <1>5 DEF Abstract!Init

\* What the abstract walk sees of the open containers and the names.
LEMMA SeenSame ==
    ASSUME UNCHANGED <<kinds, next, sets, memory, leaves, pending, named, name, leaf, comma, repeated>>
    PROVE  AbstractOpen' = AbstractOpen /\ ReadName' = ReadName /\ LeafNames' = LeafNames
<1>1. \A p : Text(p)' = Text(p)
    BY DEF Text, TextIn
<1>2. Outside' = Outside /\ \A from, k : ObjectsIn(from, k)' = ObjectsIn(from, k)
    BY DEF Outside, ObjectsIn
<1>3. \A k : NamesOf(k)' = NamesOf(k)
    BY <1>1, <1>2 DEF NamesOf, Text, TextIn
<1>4. AbstractOpen' = AbstractOpen
    BY <1>2, <1>3 DEF AbstractOpen
<1>5. ReadName' = ReadName /\ LeafNames' = LeafNames
    BY <1>1 DEF ReadName, LeafNames, Waiting, Text, TextIn
<1> QED BY <1>4, <1>5

LEMMA NoObjectMapped == ASSUME IInv, NoObject PROVE Abstract!NoObject
<1>1. /\ Takes /\ kinds = << >> /\ next = "value" /\ result' = "nil"
      /\ UNCHANGED <<had, kinds, next, sets, memory, leaves, pending, named, name, leaf, comma,
                     repeated, needSep, kept, token, wrote>>
    BY DEF NoObject, walker, open, arenas, objects, builder
<1>2. token = None
    BY <1>1 DEF IInv, Control
<1>3. ~Undone /\ ~Undone'
    BY <1>1 DEF Undone, Takes
<1>4. Abstract!Reading
    BY <1>1, ReadingMapped
<1> QED BY <1>1, <1>2, <1>3, <1>4, SeenSame DEF Abstract!NoObject, ReadName, LeafNames

LEMMA EndMapped == ASSUME IInv, End PROVE Abstract!End
<1>1. /\ Takes /\ next = "done" /\ result' = "nil" /\ wrote' = << >>
      /\ UNCHANGED <<had, kinds, next, sets, memory, leaves, pending, named, name, leaf, comma,
                     repeated, needSep, kept, token>>
    BY DEF End, walker, open, arenas, objects, builder
<1>2. ~Undone /\ ~Undone'
    BY <1>1 DEF Undone, Takes
<1>3. Abstract!Reading
    BY <1>1, ReadingMapped
<1> QED BY <1>1, <1>2, <1>3, SeenSame DEF Abstract!End, ReadName, LeafNames

LEMMA RestMapped == ASSUME IInv, Rest PROVE Abstract!Rest
<1>1. /\ result = "reading" /\ repeated /\ result' \in {"duplicate", "malformed"}
      /\ needSep' = had /\ kept' = FALSE
      /\ UNCHANGED <<had, kinds, next, sets, memory, leaves, pending, named, name, leaf, comma,
                     repeated, token>>
    BY DEF Rest, Fails, walker, open, arenas, objects
<1>2. Undone /\ ~Undone'
    BY <1>1 DEF Undone
<1> QED BY <1>1, <1>2, SeenSame DEF Abstract!Rest, ReadName, LeafNames

LEMMA FaultMapped ==
    ASSUME IInv, NEW t, Fault(t)
    PROVE  Abstract!Refuse(t)
<1>1. /\ Takes /\ token' = t /\ result' = "malformed" /\ wrote' = << >>
      /\ needSep' = had /\ kept' = FALSE
      /\ t = "bad" \/ Len(kinds) >= MaxDepth
      /\ UNCHANGED <<had, kinds, next, sets, memory, leaves, pending, named, name, leaf, comma,
                     repeated>>
    BY DEF Fault, Fails, walker, open, arenas, objects
<1>2. ~Undone' /\ ~repeated'
    BY <1>1 DEF Undone, Takes
<1>3. Abstract!Reading /\ Len(AbstractOpen) = Len(kinds)
    BY <1>1, ReadingMapped
<1> QED BY <1>1, <1>2, <1>3, SeenSame DEF Abstract!Refuse, ReadName, LeafNames

LEMMA StutterMapped == ASSUME UNCHANGED vars PROVE UNCHANGED Abstract!vars
<1>1. UNCHANGED <<had, kinds, next, sets, memory, leaves, pending, named, name, leaf, comma,
                  repeated, needSep, kept, token, wrote, result>>
    BY DEF vars, walker, open, arenas, objects, builder
<1>2. Undone' = Undone
    BY <1>1 DEF Undone
<1> QED BY <1>1, <1>2, SeenSame DEF Abstract!vars, ReadName, LeafNames

-----------------------------------------------------------------------------
(* A value outside the leaves.                                             *)

\* The places of the names of the objects outside the leaves, when no leaf is open.
LEMMA OutsidePlaces ==
    ASSUME IInv, Takes, kinds # << >>, leaf = 0, NEW l \in Nat, l = Len(kinds)
    PROVE  /\ l >= 1 /\ Outside = l
           /\ PlacesOf(l) = Kept
           /\ \A k \in 1 .. (l - 1) : PlacesOf(k) = sets[k]
           /\ \A k \in 1 .. l : kinds[k] = "object" /\ BegunOf(k) = FALSE
           /\ NamesOf(l) = {Text(p) : p \in Kept}
<1>1. /\ Control /\ Outside = l /\ l >= 1 /\ depth = Len(kinds) - (IF named THEN 0 ELSE 1)
      /\ named \in BOOLEAN /\ Shape
    BY Numbers, KeptIs, Shapes
<1>2. \A k \in 1 .. l : kinds[k] = "object" /\ BegunOf(k) = FALSE
    BY <1>1 DEF Control, BegunOf
<1>3. PlacesOf(l) = Kept
    BY <1>1, <1>2 DEF PlacesOf, SetOf, Kept
<1>4. \A k \in 1 .. (l - 1) : PlacesOf(k) = sets[k]
    BY <1>1, <1>2 DEF PlacesOf, SetOf
<1> QED BY <1>1, <1>2, <1>3, <1>4 DEF Shape

\* A name repeats where its text is already.
LEMMA HoldsIs ==
    ASSUME NEW S, NEW place, \A p \in S : TextIn(memory', p) = Text(p)
    PROVE  Holds(S, place) <=> TextIn(memory', place) \in {Text(p) : p \in S}
BY DEF Holds

\* It keys the value that comes.
LEMMA NameRead ==
    ASSUME IInv, Takes, kinds # << >>, leaf = 0, next = "value"
    PROVE  /\ ReadName = Text(name) /\ LeafNames = {Text(p) : p \in leaves}
           /\ NameWaits /\ name \in Places /\ Written(name)
<1>1. NameWaits /\ name \in Places /\ nameMark \in Nat
    BY DEF IInv, TypeOK
<1>2. Written(name)
    BY <1>1 DEF NameWaits, Written
<1> QED BY <1>1, <1>2 DEF ReadName, LeafNames, Waiting, Takes

LEMMA LeafCounts ==
    ASSUME IInv, ValueNext, leaf = 0, LeafName, next' = "item", result' = result,
           NEW l \in Nat, l = Len(kinds)
    PROVE  /\ Abstract!NameCounts(TRUE)
           /\ memory' = memory /\ repeated' \in BOOLEAN
           /\ ~repeated' => /\ \A k \in 1 .. (l - 1) : sets'[k] = sets[k]
                            /\ IF named' THEN sets'[l] = Kept \union {name}
                               ELSE {pending'[j] : j \in 1 .. Len(pending')} = Kept \union {name}
<1>0. /\ Takes /\ kinds # << >> /\ ~repeated
    BY DEF ValueNext, Takes
<1>1. next = "value"
    BY <1>0, Numbers DEF ValueNext
<1>2. /\ ReadName = Text(name) /\ LeafNames = {Text(p) : p \in leaves}
      /\ NameWaits /\ name \in Places /\ Written(name)
    BY <1>0, <1>1, NameRead
<1>3. /\ UNCHANGED <<memory, length>> /\ name' = name /\ leaves' = With(leaves, name)
    BY DEF LeafName, arenas
<1>4. \A p : TextIn(memory', p) = Text(p)
    BY <1>3 DEF Text
<1>5. \A S : Holds(S, name) <=> Text(name) \in {Text(p) : p \in S}
    BY <1>4, HoldsIs
<1>6. /\ Abstract!Top.names = {Text(p) : p \in Kept}
    <2>1. PICK r : r = Abstract!Top
        OBVIOUS
    <2>2. r = [kind |-> kinds[l], names |-> NamesOf(l), begun |-> BegunOf(l)]
        BY <1>0, <2>1, TopIs DEF ItemOf
    <2>3. r.names = NamesOf(l)
        BY <2>2, Fields
    <2> QED BY <2>1, <2>3, <1>0, OutsidePlaces
<1>7. /\ depth = l - (IF named THEN 0 ELSE 1) /\ l >= 1 /\ named \in BOOLEAN
      /\ ~named => Kept \subseteq leaves
      /\ pending \in Seq(Places) /\ Len(pending) \in Nat
    BY <1>0, KeptIs, Numbers
<1>8. /\ repeated' <=> Text(name) \in Abstract!Top.names \/ Text(name) \in LeafNames
      /\ repeated' \in BOOLEAN
      /\ ~repeated' => /\ \A k \in 1 .. (l - 1) : sets'[k] = sets[k]
                       /\ IF named' THEN sets'[l] = Kept \union {name}
                          ELSE {pending'[j] : j \in 1 .. Len(pending')} = Kept \union {name}
    <2>1. CASE ~named /\ Len(pending) < InlineNames
        <3>1. /\ pending' = Append(pending, name) /\ repeated' = Holds(leaves, name)
              /\ sets' = sets /\ named' = named
            BY <2>1 DEF LeafName, open
        <3>2. Kept = {pending[j] : j \in 1 .. Len(pending)}
            BY <2>1 DEF Kept
        <3>3. /\ Len(pending') = Len(pending) + 1
              /\ \A j \in 1 .. Len(pending) : pending'[j] = pending[j]
              /\ pending'[Len(pending) + 1] = name
            BY <3>1, <1>2, <1>7, AppendProperties
        <3>4. {pending'[j] : j \in 1 .. Len(pending')} = Kept \union {name}
            <4>1. \A j \in 1 .. Len(pending') : pending'[j] \in Kept \union {name}
                <5> TAKE j \in 1 .. Len(pending')
                <5>1. CASE j = Len(pending) + 1
                    BY <5>1, <3>3
                <5>2. CASE j \in 1 .. Len(pending)
                    BY <5>2, <3>2, <3>3
                <5> QED BY <5>1, <5>2, <3>3, <1>7
            <4>2. \A j \in 1 .. Len(pending) : pending[j] = pending'[j] /\ j \in 1 .. Len(pending')
                BY <3>3, <1>7
            <4>3. Len(pending) + 1 \in 1 .. Len(pending')
                BY <3>3, <1>7
            <4> QED BY <4>1, <4>2, <4>3, <3>2, <3>3
        <3>5. \A p \in Kept : p \in leaves
            BY <2>1, <1>7
        <3> QED BY <3>1, <3>4, <3>5, <2>1, <1>2, <1>5, <1>6, <1>7 DEF Holds
    <2>2. CASE ~(~named /\ Len(pending) < InlineNames)
        <3>1. /\ File(name) /\ repeated' = (Holds(leaves, name) \/ Holds(Kept, name)) /\ named' = TRUE
            BY <2>2 DEF LeafName
        <3>2. KeepsNames /\ leaves \subseteq leaves'
            <4>1. leaves \subseteq leaves' /\ leaves' \subseteq leaves \union {name}
                BY <1>3, WithIs
            <4>2. /\ ArenasOK /\ SetsOK /\ Stack(SetsOutside) /\ length["nested"] \in Nat
                BY <1>0, Numbers, ArenaNumbers DEF Arenas
            <4>3. name[1] # "nested"
                BY <1>2 DEF NameWaits
            <4>4. \A p : Written(p)' <=> Written(p)
                BY <1>3 DEF Written
            <4>5. ArenasOK' /\ length["nested"] <= length'["nested"]
                BY <4>2, <1>3 DEF ArenasOK
            <4> QED BY <4>1, <4>2, <4>3, <4>4, <4>5, <1>2 DEF KeepsNames, Stack, InUse, SetsOK
        <3>3. /\ \A k \in 1 .. (l - 1) : sets'[k] = sets[k]
              /\ sets'[l] = With(Kept, name)
            <4>1. /\ \A k \in 1 .. (Len(kinds) - 1) : sets'[k] = sets[k]
                  /\ sets'[Len(kinds)] = With(Kept, name)
                <5>1. PICK place \in Places : place = name
                    BY <1>2
                <5>2. Written(place)' /\ File(place)
                    BY <5>1, <3>1, <1>2, <1>3 DEF Written
                <5>3. /\ \A k \in 1 .. (Len(kinds) - 1) : sets'[k] = sets[k]
                      /\ sets'[Len(kinds)] = With(Kept, place)
                    BY <5>2, <3>2, <1>0, Filed
                <5> QED BY <5>1, <5>3
            <4> QED BY <4>1
        <3>4. ~repeated' => sets'[l] = Kept \union {name}
            BY <3>1, <3>3, WithIs
        <3>5. repeated' \in BOOLEAN
            BY <3>1 DEF Holds
        <3> QED BY <3>1, <3>3, <3>4, <3>5, <1>2, <1>5, <1>6
    <2> QED BY <2>1, <2>2
<1>9. CASE repeated'
    <2>1. ReadName' = None /\ LeafNames' = {}
        BY <1>9, Forgotten
    <2> QED BY <2>1, <1>2, <1>3, <1>8, <1>9 DEF Abstract!NameCounts, ReadName, LeafNames
<1>10. CASE ~repeated'
    <2>1. ReadName' = None
        BY DEF ReadName, Waiting
    <2>2. leaves' = leaves \union {name}
        BY <1>2, <1>3, <1>5, <1>8, <1>10, WithIs
    <2>3. LeafNames' = {TextIn(memory', p) : p \in leaves'}
        BY <1>10 DEF LeafNames, Text
    <2>4. LeafNames' = LeafNames \union {Text(name)}
        BY <2>2, <2>3, <1>2, <1>4
    <2> QED BY <2>1, <2>4, <1>2, <1>3, <1>8, <1>10 DEF Abstract!NameCounts, ReadName, LeafNames
<1> QED BY <1>3, <1>8, <1>9, <1>10

LEMMA LeafKept ==
    ASSUME IInv, IInv', ValueNext, leaf = 0, LeafName, next' = "item", result' = result, ~repeated',
           NEW l \in Nat, l = Len(kinds), l <= Len(kinds'), Outside' = l,
           \A k \in 1 .. l : kinds'[k] = kinds[k]
    PROVE  /\ \A k \in 1 .. (l - 1) : ItemOf(k)' = ItemOf(k)
           /\ ItemOf(l)' = [kind |-> kinds[l], names |-> NamesOf(l) \union {Text(name)},
                            begun |-> BegunOf(l)]
<1>0. /\ Takes /\ kinds # << >> /\ Takes'
    BY DEF ValueNext, Takes
<1>1. /\ memory' = memory
      /\ \A k \in 1 .. (l - 1) : sets'[k] = sets[k]
      /\ IF named' THEN sets'[l] = Kept \union {name}
         ELSE {pending'[j] : j \in 1 .. Len(pending')} = Kept \union {name}
    BY LeafCounts
<1>2. /\ l >= 1 /\ Outside = l
      /\ PlacesOf(l) = Kept
      /\ \A k \in 1 .. (l - 1) : PlacesOf(k) = sets[k]
      /\ \A k \in 1 .. l : kinds[k] = "object" /\ BegunOf(k) = FALSE
      /\ NamesOf(l) = {Text(p) : p \in Kept}
    BY <1>0, OutsidePlaces
<1>3. Shape /\ Shape'
    BY <1>0, Shapes
<1>4. Len(kinds') \in Nat /\ \A k \in 1 .. l : k \in 1 .. Len(kinds')
    <2>1. Len(kinds') \in Nat
        BY LenProperties DEF IInv, TypeOK
    <2> QED BY <2>1
<1>5. \A p : Text(p)' = Text(p)
    BY <1>1 DEF Text, TextIn
<1>6. \A k \in 1 .. l : BegunOf(k)' = FALSE
    BY DEF BegunOf
<1>7. ASSUME NEW k \in 1 .. (l - 1)
      PROVE  ItemOf(k)' = ItemOf(k)
    <2>1. k \in 1 .. l /\ k # l
        OBVIOUS
    <2>2. kinds'[k] = "object" /\ kinds[k] = "object" /\ BegunOf(k)' = BegunOf(k)
        BY <2>1, <1>2, <1>6
    <2>3. PlacesOf(k)' = sets'[k]
        BY <2>1, <2>2 DEF PlacesOf, SetOf
    <2>4. PlacesOf(k)' = PlacesOf(k)
        BY <2>3, <1>1, <1>2
    <2>5. NamesOf(k)' = {Text(p)' : p \in PlacesOf(k)'} /\ NamesOf(k) = {Text(p) : p \in PlacesOf(k)}
        BY <2>1, <1>3, <1>4 DEF Shape
    <2>6. NamesOf(k)' = NamesOf(k)
        BY <2>4, <2>5, <1>5
    <2> QED BY <2>2, <2>6 DEF ItemOf
<1>8. ItemOf(l)' = [kind |-> kinds[l], names |-> NamesOf(l) \union {Text(name)}, begun |-> BegunOf(l)]
    <2>1. l \in 1 .. l
        BY <1>2
    <2>2. kinds'[l] = kinds[l] /\ kinds'[l] = "object" /\ BegunOf(l)' = BegunOf(l)
        BY <2>1, <1>2, <1>6
    <2>3. PlacesOf(l)' = Kept \union {name}
        BY <2>2, <1>1 DEF PlacesOf, SetOf
    <2>4. NamesOf(l)' = {Text(p)' : p \in PlacesOf(l)'}
        BY <2>1, <1>3, <1>4 DEF Shape
    <2>5. NamesOf(l)' = NamesOf(l) \union {Text(name)}
        BY <2>3, <2>4, <1>2, <1>5
    <2> QED BY <2>2, <2>5 DEF ItemOf
<1> QED BY <1>7, <1>8

-----------------------------------------------------------------------------
(* A value in a leaf.                                                      *)

\* The sets of the open containers, when those in the leaf change at most after the l-th.
LEMMA SetsStay ==
    ASSUME IInv, IInv', Takes, Takes', leaf > 0, NEW l \in Nat, l <= Len(kinds), l <= Len(kinds'),
           Outside' = Outside, named' = named, pending' = pending,
           \A k \in 1 .. l : kinds'[k] = kinds[k]
    PROVE  \A k \in 1 .. l :
              /\ SetOf(k)' = SetOf(k)
              /\ PlacesOf(k)' = PlacesOf(k)
                 \/ (kinds[k] = "object" /\ ~(k = Outside /\ ~named) /\ sets'[SetOf(k)] # sets[SetOf(k)])
<1>0. /\ kinds # << >> /\ Len(kinds) \in Nat /\ Outside \in Nat /\ Outside >= 1
      /\ kinds \in Seq(Kinds)
    BY Numbers DEF Control
<1> SUFFICES ASSUME NEW k \in 1 .. l
             PROVE  /\ SetOf(k)' = SetOf(k)
                    /\ PlacesOf(k)' = PlacesOf(k)
                       \/ (kinds[k] = "object" /\ ~(k = Outside /\ ~named) /\ sets'[SetOf(k)] # sets[SetOf(k)])
    OBVIOUS
<1>1. k \in 1 .. Len(kinds)
    BY <1>0
<1>2. kinds' # << >>
    <2>1. kinds' \in Seq(Kinds)
        BY DEF IInv, TypeOK, Kinds
    <2> QED BY <2>1, EmptySeq
<1>3. SetsOutside' = SetsOutside
    BY <1>0, <1>2 DEF SetsOutside
<1>4. ObjectsOf(kinds', Outside + 1, k) = ObjectsOf(kinds, Outside + 1, k)
    <2>1. /\ k \in Nat /\ Outside + 1 \in Nat
          /\ \A j \in (Outside + 1) .. k : kinds'[j] = kinds[j]
        BY <1>0
    <2> QED BY <2>1, CountedSame
<1>5. SetOf(k)' = SetOf(k)
    BY <1>3, <1>4 DEF SetOf
<1>6. kinds[k] \in Kinds
    BY <1>0, <1>1, ElementOfSeq
<1>7. kinds[k] = "array" \/ kinds[k] = "object"
    BY <1>6 DEF Kinds
<1>8. CASE sets'[SetOf(k)] = sets[SetOf(k)]
    <2>1. sets'[SetOf(k)'] = sets[SetOf(k)]
        BY <1>5, <1>8
    <2> QED BY <2>1, <1>5 DEF PlacesOf
<1>9. CASE sets'[SetOf(k)] # sets[SetOf(k)]
    <2>1. CASE kinds[k] = "array" \/ (k = Outside /\ ~named)
        <3>1. PlacesOf(k)' = PlacesOf(k)
            BY <2>1 DEF PlacesOf
        <3> QED BY <3>1, <1>5
    <2>2. CASE ~(kinds[k] = "array" \/ (k = Outside /\ ~named))
        BY <2>2, <1>5, <1>7, <1>9
    <2> QED BY <2>1, <2>2
<1> QED BY <1>8, <1>9

\* The first containers of a leaf have begun, whatever comes after.
LEMMA BegunStays ==
    ASSUME IInv, Takes, kinds # << >>, leaf > 0, NEW l \in Nat, l = Len(kinds),
           Len(kinds') \in Nat, l <= Len(kinds'), Outside' = Outside,
           l < Len(kinds') \/ next' = "value" \/ comma' = TRUE
    PROVE  (\A k \in 1 .. (l - 1) : BegunOf(k)' = BegunOf(k)) /\ BegunOf(l)' = Yes
<1>0. Outside \in Nat /\ Outside < l
    BY Numbers DEF Control, Outside
<1>1. ASSUME NEW k \in 1 .. (l - 1)
      PROVE  BegunOf(k)' = BegunOf(k)
    <2>1. k < Len(kinds) /\ k < Len(kinds')
        OBVIOUS
    <2> QED BY <2>1 DEF BegunOf
<1>2. BegunOf(l)' = Yes
    BY <1>0 DEF BegunOf, Yes
<1> QED BY <1>1, <1>2

LEMMA NamesStay ==
    ASSUME IInv, IInv', Takes, Takes', leaf > 0, NEW l \in Nat, l <= Len(kinds), l <= Len(kinds'),
           Outside' = Outside, named' = named, pending' = pending,
           \A k \in 1 .. l : kinds'[k] = kinds[k],
           \A p \in Places : Written(p) => TextIn(memory', p) = Text(p),
           NEW k \in 1 .. l,
           kinds[k] = "object" /\ ~(k = Outside /\ ~named) => sets'[SetOf(k)] = sets[SetOf(k)]
    PROVE  NamesOf(k)' = NamesOf(k)
<1>0. /\ Shape /\ Shape' /\ Len(kinds) \in Nat /\ Len(kinds') \in Nat
    <2>1. Len(kinds) \in Nat /\ Len(kinds') \in Nat
        BY LenProperties DEF IInv, TypeOK
    <2> QED BY <2>1, Shapes
<1>1. k \in 1 .. Len(kinds) /\ k \in 1 .. Len(kinds')
    BY <1>0
<1>2. PlacesOf(k)' = PlacesOf(k)
    BY SetsStay
<1>3. /\ NamesOf(k)' = {Text(p)' : p \in PlacesOf(k)'}
      /\ NamesOf(k) = {Text(p) : p \in PlacesOf(k)}
    BY <1>0, <1>1 DEF Shape
<1>4. \A p \in PlacesOf(k) : Text(p)' = Text(p)
    BY <1>1, PlacesIs DEF Text, TextIn
<1> QED BY <1>2, <1>3, <1>4

\* The open containers when one in a leaf takes a value, and when it takes a name.
LEMMA InsideKept ==
    ASSUME IInv, IInv', Takes, Takes', kinds # << >>, leaf > 0, NEW l \in Nat, l = Len(kinds),
           l <= Len(kinds'), Outside' = Outside, named' = named, pending' = pending,
           \A k \in 1 .. l : kinds'[k] = kinds[k],
           l < Len(kinds') \/ next' = "value" \/ comma' = TRUE,
           memory' = memory, \A i \in 1 .. depth : sets'[i] = sets[i]
    PROVE  /\ \A k \in 1 .. (l - 1) : ItemOf(k)' = ItemOf(k)
           /\ ItemOf(l)' = [kind |-> kinds[l], names |-> NamesOf(l), begun |-> Yes]
<1>1. l >= 1 /\ Len(kinds') \in Nat
    <2>1. Len(kinds') \in Nat
        BY LenProperties DEF IInv, TypeOK
    <2> QED BY <2>1, Numbers
<1>2. (\A k \in 1 .. (l - 1) : BegunOf(k)' = BegunOf(k)) /\ BegunOf(l)' = Yes
    BY <1>1, BegunStays
<1>3. \A k \in 1 .. l : NamesOf(k)' = NamesOf(k)
    <2> TAKE k \in 1 .. l
    <2>1. \A p \in Places : Written(p) => TextIn(memory', p) = Text(p)
        BY DEF Text
    <2>2. kinds[k] = "object" /\ ~(k = Outside /\ ~named) => sets'[SetOf(k)] = sets[SetOf(k)]
        BY SetIs
    <2> QED BY <2>1, <2>2, NamesStay
<1>4. ASSUME NEW k \in 1 .. (l - 1)
      PROVE  ItemOf(k)' = ItemOf(k)
    <2>1. k \in 1 .. l
        OBVIOUS
    <2> QED BY <2>1, <1>2, <1>3 DEF ItemOf
<1>5. ItemOf(l)' = [kind |-> kinds[l], names |-> NamesOf(l), begun |-> Yes]
    <2>1. l \in 1 .. l
        BY <1>1
    <2> QED BY <2>1, <1>2, <1>3 DEF ItemOf
<1> QED BY <1>4, <1>5

\* A comma before what is written.
LEMMA Joins ==
    ASSUME NEW S, NEW c \in Seq(S), NEW one \in Seq(S), NEW two \in Seq(S),
           Len(one) \in Nat \ {0}
    PROVE  (c \o one) \o two = c \o (one \o two) /\ c \o one # << >>
<1>1. (c \o one) \o two = c \o (one \o two)
    BY ConcatAssociative
<1>2. c \o one \in Seq(S) /\ Len(c \o one) = Len(c) + Len(one)
    BY ConcatProperties
<1>3. Len(c) \in Nat
    BY LenProperties
<1>4. Len(c \o one) # 0
    BY <1>2, <1>3
<1>5. c \o one # << >>
    BY <1>4, EmptySeq
<1> QED BY <1>1, <1>5

\* A comma before what is written.
LEMMA CommaBefore ==
    ASSUME NEW due, NEW a, NEW b
    PROVE  /\ (Comma(due) \o <<a>>) \o <<b>> = Comma(due) \o <<a, b>>
           /\ Comma(due) \o <<a>> # << >> /\ Comma(due) \o <<a, b>> # << >>
<1> DEFINE S == {"comma", a, b}
<1>1. Comma(due) \in Seq(S)
    <2>1. <<"comma">> \in Seq(S) /\ << >> \in Seq(S)
        OBVIOUS
    <2>2. Comma(due) = <<"comma">> \/ Comma(due) = << >>
        BY DEF Comma
    <2> QED BY <2>1, <2>2
<1>2. /\ <<a>> \in Seq(S) /\ <<b>> \in Seq(S) /\ <<a, b>> \in Seq(S)
      /\ Len(<<a>>) = 1 /\ Len(<<b>>) = 1 /\ Len(<<a, b>>) = 2
    OBVIOUS
<1>3. <<a>> \o <<b>> = <<a, b>>
    <2> DEFINE x == <<a>> \o <<b>>
               y == <<a, b>>
    <2>1. /\ x \in Seq(S) /\ Len(x) = 2
          /\ \A i \in 1 .. 2 : x[i] = IF i <= 1 THEN <<a>>[i] ELSE <<b>>[i - 1]
        BY <1>2, ConcatProperties
    <2>2. x[1] = a /\ x[2] = b
        BY <2>1
    <2>3. y \in Seq(S) /\ Len(y) = 2 /\ y[1] = a /\ y[2] = b
        BY <1>2
    <2> HIDE DEF x, y, S
    <2>4. \A i \in 1 .. 2 : x[i] = y[i]
        <3> TAKE i \in 1 .. 2
        <3>1. i = 1 \/ i = 2
            OBVIOUS
        <3> QED BY <3>1, <2>2, <2>3
    <2>5. x = y
        BY <2>1, <2>3, <2>4, SeqEqual
    <2> QED BY <2>5 DEF x, y
<1>4. PICK c \in Seq(S) : c = Comma(due)
    BY <1>1
<1>5. PICK one \in Seq(S), two \in Seq(S), both \in Seq(S) :
         one = <<a>> /\ two = <<b>> /\ both = <<a, b>>
    BY <1>2
<1>6. one \o two = both /\ Len(one) \in Nat \ {0} /\ Len(both) \in Nat \ {0}
    BY <1>2, <1>3, <1>5
<1> HIDE DEF S
<1>7. (c \o one) \o two = c \o (one \o two) /\ c \o one # << >>
    BY <1>6, Joins
<1>8. Len(c \o both) = Len(c) + Len(both)
    BY ConcatProperties
<1>9. c \o both # << >>
    BY <1>6, <1>8, LenProperties, EmptySeq
<1> QED BY <1>4, <1>5, <1>6, <1>7, <1>9

-----------------------------------------------------------------------------
(* The steps that read a scalar or open an array.                          *)

LEMMA NotInLeaf ==
    ASSUME IInv, Takes, kinds # << >>
    PROVE  Abstract!InLeaf(AbstractOpen) <=> leaf > 0
<1>1. PICK l \in Nat : l = Len(kinds)
    BY Numbers
<1> QED BY <1>1, TopIs

LEMMA StartsOutside ==
    ASSUME IInv, ValueNext, leaf = 0, LeafName, next' = "item", UNCHANGED <<had, result>>,
           NEW t, NEW due \in BOOLEAN, WritesItem(<<t>>, due)
    PROVE  Abstract!StartsLeaf(t)
<1>0. /\ Takes /\ kinds # << >> /\ TypeOK
    BY DEF ValueNext, Takes, IInv
<1>1. next = "value"
    BY <1>0, Numbers DEF ValueNext
<1>2. Abstract!NameCounts(TRUE) /\ repeated' \in BOOLEAN
    <2>1. PICK l \in Nat : l = Len(kinds)
        BY <1>0, Numbers
    <2> QED BY <2>1, LeafCounts
<1>3. ReadName = Text(name)
    BY <1>0, <1>1, NameRead
<1>4. ~Abstract!InLeaf(AbstractOpen)
    BY <1>0, NotInLeaf
<1>5. PICK text : text = Comma(needSep) \o <<<<"key", Text(name)>>, t>>
    OBVIOUS
<1>6. /\ wrote' = text /\ kept' = (kept \/ text # << >>) /\ needSep' = TRUE /\ text # << >>
    <2>1. PICK key : key = <<"key", Text(name)>>
        OBVIOUS
    <2>2. text = Comma(needSep) \o <<key, t>>
        BY <1>5, <2>1
    <2>3. (Comma(needSep) \o <<key>>) \o <<t>> = text /\ text # << >>
        BY <2>2, CommaBefore, SMTT(30)
    <2> QED BY <2>1, <2>3 DEF WritesItem, Writes
<1>7. Abstract!Writes(text)
    <2>1. ~repeated' => needSep' = (needSep \/ text # << >>)
        BY <1>6
    <2> QED BY <2>1, <1>0, <1>2, <1>6, WritesMapped
<1>8. (IF Undone THEN had ELSE needSep) = needSep
    BY <1>0 DEF Undone, Takes
<1>9. Abstract!Comma(needSep) = Comma(needSep)
    BY DEF Abstract!Comma, Comma
<1> QED BY <1>2, <1>3, <1>4, <1>5, <1>7, <1>8, <1>9 DEF Abstract!StartsLeaf, ReadName

LEMMA InLeafSame ==
    ASSUME Takes, leaf > 0, leaf' > 0, UNCHANGED <<memory, leaves, repeated>>
    PROVE  ReadName' = ReadName /\ LeafNames' = LeafNames
<1>1. \A p : Text(p)' = Text(p)
    BY DEF Text, TextIn
<1>2. LeafNames' = LeafNames
    BY <1>1 DEF LeafNames, Text, TextIn
<1>3. ReadName = None /\ ReadName' = None
    BY DEF ReadName, Waiting
<1> QED BY <1>2, <1>3

LEMMA TopFields ==
    ASSUME IInv, Takes, kinds # << >>, NEW l \in Nat, l = Len(kinds)
    PROVE  /\ Abstract!Top.names = NamesOf(l) /\ Abstract!Top.begun = BegunOf(l)
<1>1. PICK r : r = Abstract!Top
    OBVIOUS
<1>2. r = [kind |-> kinds[l], names |-> NamesOf(l), begun |-> BegunOf(l)]
    BY <1>1, TopIs DEF ItemOf
<1>3. r.names = NamesOf(l) /\ r.begun = BegunOf(l)
    BY <1>2, Fields
<1> QED BY <1>1, <1>3

LEMMA StartsInside ==
    ASSUME IInv, ValueNext, leaf > 0, leaf' > 0, UNCHANGED <<had, result, memory, leaves, repeated>>,
           NEW t, NEW due \in BOOLEAN, WritesItem(<<t>>, due)
    PROVE  Abstract!StartsLeaf(t)
<1>0. /\ Takes /\ kinds # << >> /\ TypeOK /\ next \in {"value", "item"} /\ comma \in BOOLEAN
      /\ repeated' \in BOOLEAN
    BY DEF ValueNext, Takes, IInv, TypeOK
<1>1. PICK l \in Nat : l = Len(kinds)
    BY <1>0, Numbers
<1>2. Abstract!InLeaf(AbstractOpen)
    BY <1>0, NotInLeaf
<1>3. Control /\ Outside < l
    BY <1>0, <1>1, Numbers DEF Outside
<1>4. comma <=> (Abstract!Top.begun /\ next = "item")
    <2>1. Abstract!Top.begun = (l > Outside /\ (l < Len(kinds) \/ next = "value" \/ comma))
        BY <1>0, <1>1, TopFields DEF BegunOf
    <2> QED BY <2>1, <1>0, <1>1, <1>3 DEF Control
<1>5. PICK text : text = Comma(comma) \o <<t>>
    OBVIOUS
<1>6. text = Abstract!Comma(Abstract!Top.begun /\ next = "item") \o <<t>>
    BY <1>4, <1>5 DEF Comma, Abstract!Comma
<1>7. /\ wrote' = text /\ kept' = (kept \/ text # << >>) /\ needSep' = TRUE /\ needSep = TRUE
    <2>1. needSep = TRUE /\ leaf # 0
        BY <1>0, <1>3 DEF Control, TypeOK
    <2>2. wrote' = text /\ kept' = (kept \/ text # << >>)
        BY <2>1, <1>5 DEF WritesItem, Writes
    <2>3. needSep' = TRUE
        BY <2>1 DEF WritesItem
    <2> QED BY <2>1, <2>2, <2>3
<1>8. Abstract!Writes(text)
    <2>1. ~repeated' => needSep' = (needSep \/ text # << >>)
        BY <1>7
    <2> QED BY <2>1, <1>0, <1>7, WritesMapped
<1>9. ReadName' = ReadName /\ LeafNames' = LeafNames
    BY <1>0, InLeafSame
<1> QED BY <1>2, <1>6, <1>8, <1>9 DEF Abstract!StartsLeaf, ReadName, LeafNames

LEMMA AfterReading ==
    ASSUME Takes, result' = result, ~repeated'
    PROVE  Takes'
BY DEF Takes

\* What the abstract walk has after the start of a leaf, unless a name repeated.
LEMMA StartedOutside ==
    ASSUME IInv, IInv', ValueNext, leaf = 0, LeafName, next' = "item", result' = result, ~repeated',
           NEW l \in Nat, l = Len(kinds), l <= Len(kinds'), Outside' = l,
           \A k \in 1 .. l : kinds'[k] = kinds[k],
           Len(kinds') = l \/ (Len(kinds') = l + 1 /\ ItemOf(l + 1)' = Abstract!Opened("array"))
    PROVE  AbstractOpen' = IF Len(kinds') = l THEN Abstract!Named(AbstractOpen, Text(name))
                           ELSE Append(Abstract!Named(AbstractOpen, Text(name)), Abstract!Opened("array"))
<1>0. /\ Takes /\ kinds # << >> /\ Takes' /\ l >= 1
    <2>1. Takes /\ kinds # << >>
        BY DEF ValueNext
    <2> QED BY <2>1, Numbers, AfterReading
<1>1. Shape /\ Shape'
    BY <1>0, Shapes
<1> DEFINE top == [kind |-> kinds[l], names |-> NamesOf(l) \union {Text(name)}, begun |-> BegunOf(l)]
<1>2. (\A k \in 1 .. (l - 1) : ItemOf(k)' = ItemOf(k)) /\ ItemOf(l)' = top
    BY LeafKept
<1>3. Abstract!Named(AbstractOpen, Text(name)) = [AbstractOpen EXCEPT ![l] = top]
    <2>1. PICK n : n = Text(name)
        OBVIOUS
    <2> QED BY <2>1, <1>0, TopNamed
<1> HIDE DEF top
<1>4. /\ AbstractOpen \in Seq(Container) /\ AbstractOpen' \in Seq(Container)
      /\ Len(AbstractOpen) = l /\ Len(AbstractOpen') = Len(kinds')
      /\ \A k \in 1 .. l : AbstractOpen[k] = ItemOf(k) /\ AbstractOpen'[k] = ItemOf(k)'
      /\ Len(kinds') = l + 1 => AbstractOpen'[l + 1] = ItemOf(l + 1)'
    BY <1>0, <1>1 DEF Shape
<1>5. /\ \A k \in 1 .. (l - 1) : AbstractOpen'[k] = AbstractOpen[k]
      /\ AbstractOpen'[l] = top
    BY <1>0, <1>2, <1>4
<1>6. CASE Len(kinds') = l
    BY <1>0, <1>3, <1>4, <1>5, <1>6, SameTop
<1>7. CASE Len(kinds') # l
    <2>1. PICK f : f = Abstract!Opened("array")
        OBVIOUS
    <2>2. Len(AbstractOpen') = l + 1 /\ AbstractOpen'[l + 1] = f
        BY <2>1, <1>4, <1>7
    <2>3. AbstractOpen' = Append([AbstractOpen EXCEPT ![l] = top], f)
        BY <2>2, <1>0, <1>4, <1>5, Longer
    <2> QED BY <2>1, <2>3, <1>3, <1>7
<1> QED BY <1>6, <1>7

\* The abstract stack when its last container changes, and perhaps another opens.
LEMMA TopChanged ==
    ASSUME Shape, Shape', NEW l \in Nat, l = Len(kinds), l >= 1,
           \A k \in 1 .. (l - 1) : ItemOf(k)' = ItemOf(k),
           NEW top, ItemOf(l)' = top, NEW f,
           Len(kinds') = l \/ (Len(kinds') = l + 1 /\ ItemOf(l + 1)' = f)
    PROVE  /\ Len(kinds') = l => AbstractOpen' = [AbstractOpen EXCEPT ![l] = top]
           /\ Len(kinds') = l + 1 => AbstractOpen' = Append([AbstractOpen EXCEPT ![l] = top], f)
<1>1. /\ AbstractOpen \in Seq(Container) /\ AbstractOpen' \in Seq(Container)
      /\ Len(AbstractOpen) = l /\ Len(AbstractOpen') = Len(kinds')
      /\ \A k \in 1 .. l : AbstractOpen[k] = ItemOf(k) /\ AbstractOpen'[k] = ItemOf(k)'
      /\ Len(kinds') = l + 1 => AbstractOpen'[l + 1] = ItemOf(l + 1)'
    BY DEF Shape
<1>2. /\ \A k \in 1 .. (l - 1) : AbstractOpen'[k] = AbstractOpen[k]
      /\ AbstractOpen'[l] = top
    BY <1>1
<1>3. CASE Len(kinds') = l
    BY <1>1, <1>2, <1>3, SameTop
<1>4. CASE Len(kinds') = l + 1
    <2>1. AbstractOpen'[l + 1] = f /\ Len(AbstractOpen') = l + 1
        BY <1>1, <1>4
    <2> QED BY <2>1, <1>1, <1>2, <1>4, Longer
<1> QED BY <1>3, <1>4

LEMMA StartedInside ==
    ASSUME IInv, IInv', Takes, Takes', kinds # << >>, leaf > 0, NEW l \in Nat, l = Len(kinds),
           l <= Len(kinds'), Outside' = Outside, named' = named, pending' = pending,
           \A k \in 1 .. l : kinds'[k] = kinds[k],
           l < Len(kinds') \/ next' = "value" \/ comma' = TRUE,
           memory' = memory, \A i \in 1 .. depth : sets'[i] = sets[i],
           NEW kind, Len(kinds') = l \/ (Len(kinds') = l + 1 /\ ItemOf(l + 1)' = Abstract!Opened(kind))
    PROVE  /\ Len(kinds') = l => AbstractOpen' = Abstract!Begun
           /\ Len(kinds') = l + 1 => AbstractOpen' = Append(Abstract!Begun, Abstract!Opened(kind))
<1>1. Shape /\ Shape' /\ l >= 1
    BY Shapes, Numbers
<1> DEFINE top == [kind |-> kinds[l], names |-> NamesOf(l), begun |-> Yes]
<1>2. (\A k \in 1 .. (l - 1) : ItemOf(k)' = ItemOf(k)) /\ ItemOf(l)' = top
    BY InsideKept
<1>3. Abstract!Begun = [AbstractOpen EXCEPT ![l] = top]
    BY TopBegun
<1> HIDE DEF top
<1>4. PICK f : f = Abstract!Opened(kind)
    OBVIOUS
<1>5. Len(kinds') = l \/ (Len(kinds') = l + 1 /\ ItemOf(l + 1)' = f)
    BY <1>4
<1>6. /\ Len(kinds') = l => AbstractOpen' = [AbstractOpen EXCEPT ![l] = top]
      /\ Len(kinds') = l + 1 => AbstractOpen' = Append([AbstractOpen EXCEPT ![l] = top], f)
    <2>1. PICK e : e = top
        OBVIOUS
    <2>2. ItemOf(l)' = e
        BY <1>2, <2>1
    <2>3. /\ Len(kinds') = l => AbstractOpen' = [AbstractOpen EXCEPT ![l] = e]
          /\ Len(kinds') = l + 1 => AbstractOpen' = Append([AbstractOpen EXCEPT ![l] = e], f)
        BY <1>1, <1>2, <1>5, <2>2, TopChanged
    <2> QED BY <2>1, <2>3
<1> QED BY <1>3, <1>4, <1>6

\* A container that was just opened holds nothing.
LEMMA NewArray ==
    ASSUME IInv', Takes', NEW l \in Nat, Len(kinds') = l, l >= 1, kinds'[l] = "array",
           next' = "item", comma' = FALSE
    PROVE  ItemOf(l)' = Abstract!Opened("array")
<1>1. Shape'
    BY Shapes
<1>2. PlacesOf(l)' = {}
    BY DEF PlacesOf
<1>3. NamesOf(l)' = {Text(p)' : p \in PlacesOf(l)'}
    BY <1>1 DEF Shape
<1>4. NamesOf(l)' = {}
    BY <1>2, <1>3
<1>5. BegunOf(l)' = FALSE
    BY DEF BegunOf
<1> QED BY <1>4, <1>5 DEF ItemOf, Abstract!Opened

LEMMA ScalarMapped == ASSUME IInv, Scalar, IInv' PROVE Abstract!Scalar
<1>1. /\ ValueNext /\ Takes /\ kinds # << >> /\ next' = "item" /\ token' = "scalar"
      /\ LeafGoesOn /\ WritesItem(<<"scalar">>, TRUE)
      /\ UNCHANGED <<had, kinds, leaf, result>>
    BY DEF Scalar, ValueNext
<1>2. /\ Len(kinds) \in Nat /\ Len(kinds) >= 1 /\ leaf \in Nat
      /\ leaf = 0 => Outside = Len(kinds)
    BY <1>1, Numbers
<1>3. PICK l \in Nat : l = Len(kinds) /\ l >= 1
    BY <1>2
<1>4. Outside' = Outside /\ comma' = TRUE
    BY <1>1 DEF Outside, WritesItem
<1>5. Abstract!StartsLeaf("scalar") /\ Abstract!Counts(Abstract!AfterStart)
    <2>1. CASE leaf = 0
        <3>1. LeafName
            BY <1>1, <2>1 DEF LeafGoesOn
        <3>2. Abstract!StartsLeaf("scalar")
            <4>1. PICK t : t = "scalar"
                OBVIOUS
            <4>2. PICK due \in BOOLEAN : due = TRUE
                OBVIOUS
            <4>3. WritesItem(<<t>>, due)
                BY <1>1, <4>1, <4>2
            <4>4. Abstract!StartsLeaf(t)
                BY <1>1, <2>1, <3>1, <4>3, StartsOutside
            <4> QED BY <4>1, <4>4
        <3>3. ~Abstract!InLeaf(AbstractOpen)
            BY <1>1, <2>1, NotInLeaf
        <3>4. ReadName = Text(name)
            <4>1. next = "value"
                BY <1>1, <2>1, Numbers DEF ValueNext
            <4> QED BY <4>1, <1>1, <2>1, NameRead
        <3>5. CASE repeated'
            BY <3>5, <3>2, <3>3, Forgotten DEF Abstract!Counts
        <3>6. CASE ~repeated'
            <4>1. Len(kinds') = l /\ Outside' = l /\ \A k \in 1 .. l : kinds'[k] = kinds[k]
                BY <1>1, <1>2, <1>3, <1>4, <2>1
            <4>2. AbstractOpen' = Abstract!Named(AbstractOpen, Text(name))
                BY <4>1, <1>1, <1>3, <2>1, <3>1, <3>6, StartedOutside
            <4> QED BY <4>2, <3>2, <3>3, <3>4, <3>6 DEF Abstract!Counts, Abstract!AfterStart, ReadName
        <3> QED BY <3>5, <3>6
    <2>2. CASE leaf # 0
        <3>0. leaf > 0 /\ leaf' > 0
            BY <1>1, <1>2, <2>2
        <3>1. UNCHANGED <<sets, depth, marks, memory, length, leaves, pending, named, name, repeated>>
            BY <1>1, <2>2 DEF LeafGoesOn, open, arenas, objects
        <3>2. Abstract!StartsLeaf("scalar")
            <4>1. PICK t : t = "scalar"
                OBVIOUS
            <4>2. PICK due \in BOOLEAN : due = TRUE
                OBVIOUS
            <4>3. WritesItem(<<t>>, due)
                BY <1>1, <4>1, <4>2
            <4>4. Abstract!StartsLeaf(t)
                BY <1>1, <3>0, <3>1, <4>3, StartsInside
            <4> QED BY <4>1, <4>4
        <3>3. Abstract!InLeaf(AbstractOpen) /\ ~repeated' /\ Takes'
            BY <1>1, <3>0, <3>1, NotInLeaf, AfterReading DEF Takes
        <3>4. AbstractOpen' = Abstract!Begun
            <4>1. Len(kinds') = l /\ \A k \in 1 .. l : kinds'[k] = kinds[k]
                BY <1>1, <1>3
            <4>2. \A i \in 1 .. depth : sets'[i] = sets[i]
                BY <3>1
            <4> QED BY <4>1, <4>2, <1>1, <1>3, <1>4, <3>0, <3>1, <3>3, StartedInside
        <3> QED BY <3>2, <3>3, <3>4 DEF Abstract!Counts, Abstract!AfterStart
    <2> QED BY <2>1, <2>2
<1> QED BY <1>1, <1>5, ReadingMapped DEF Abstract!Scalar

LEMMA OpenArrayMapped == ASSUME IInv, OpenArray, IInv' PROVE Abstract!OpenArray
<1>1. /\ ValueNext /\ Takes /\ kinds # << >> /\ next' = "item" /\ token' = "openArray"
      /\ LeafGoesOn /\ WritesItem(<<"openArray">>, FALSE)
      /\ kinds' = Append(kinds, "array") /\ leaf' = leaf + 1 /\ Len(kinds) < MaxDepth
      /\ UNCHANGED <<had, result>>
    BY DEF OpenArray, ValueNext
<1>2. /\ Len(kinds) \in Nat /\ Len(kinds) >= 1 /\ leaf \in Nat /\ Outside \in Nat
      /\ leaf = 0 => Outside = Len(kinds)
      /\ kinds \in Seq(Kinds)
    BY <1>1, Numbers
<1>3. PICK l \in Nat : l = Len(kinds) /\ l >= 1
    BY <1>2
<1>4. /\ Len(kinds') = l + 1 /\ kinds'[l + 1] = "array" /\ \A k \in 1 .. l : kinds'[k] = kinds[k]
    <2>1. PICK kind \in Kinds : kind = "array"
        BY DEF Kinds
    <2> QED BY <2>1, <1>1, <1>2, <1>3, Opens
<1>5. Outside' = Outside /\ comma' = FALSE /\ l <= Len(kinds') /\ Len(kinds') # l
    BY <1>1, <1>2, <1>3, <1>4 DEF Outside, WritesItem
<1>6. ASSUME Takes'
      PROVE  ItemOf(l + 1)' = Abstract!Opened("array")
    <2>1. l + 1 \in Nat /\ l + 1 >= 1
        BY <1>3
    <2> QED BY <2>1, <1>1, <1>4, <1>5, <1>6, NewArray
<1>7. Abstract!StartsLeaf("openArray")
      /\ Abstract!Counts(Append(Abstract!AfterStart, Abstract!Opened("array")))
    <2>1. CASE leaf = 0
        <3>1. LeafName
            BY <1>1, <2>1 DEF LeafGoesOn
        <3>2. Abstract!StartsLeaf("openArray")
            <4>1. PICK t : t = "openArray"
                OBVIOUS
            <4>2. PICK due \in BOOLEAN : due = FALSE
                OBVIOUS
            <4>3. WritesItem(<<t>>, due)
                BY <1>1, <4>1, <4>2
            <4>4. Abstract!StartsLeaf(t)
                BY <1>1, <2>1, <3>1, <4>3, StartsOutside
            <4> QED BY <4>1, <4>4
        <3>3. ~Abstract!InLeaf(AbstractOpen)
            BY <1>1, <2>1, NotInLeaf
        <3>4. ReadName = Text(name)
            <4>1. next = "value"
                BY <1>1, <2>1, Numbers DEF ValueNext
            <4> QED BY <4>1, <1>1, <2>1, NameRead
        <3>5. CASE repeated'
            BY <3>5, <3>2, <3>3, Forgotten DEF Abstract!Counts
        <3>6. CASE ~repeated'
            <4>1. Outside' = l /\ ItemOf(l + 1)' = Abstract!Opened("array")
                BY <1>1, <1>2, <1>3, <1>5, <1>6, <2>1, <3>6, AfterReading
            <4>2. AbstractOpen' = Append(Abstract!Named(AbstractOpen, Text(name)),
                                         Abstract!Opened("array"))
                BY <4>1, <1>1, <1>3, <1>4, <1>5, <2>1, <3>1, <3>6, StartedOutside
            <4> QED BY <4>2, <3>2, <3>3, <3>4, <3>6 DEF Abstract!Counts, Abstract!AfterStart, ReadName
        <3> QED BY <3>5, <3>6
    <2>2. CASE leaf # 0
        <3>0. leaf > 0 /\ leaf' > 0
            BY <1>1, <1>2, <2>2
        <3>1. UNCHANGED <<sets, depth, marks, memory, length, leaves, pending, named, name, repeated>>
            BY <1>1, <2>2 DEF LeafGoesOn, open, arenas, objects
        <3>2. Abstract!StartsLeaf("openArray")
            <4>1. PICK t : t = "openArray"
                OBVIOUS
            <4>2. PICK due \in BOOLEAN : due = FALSE
                OBVIOUS
            <4>3. WritesItem(<<t>>, due)
                BY <1>1, <4>1, <4>2
            <4>4. Abstract!StartsLeaf(t)
                BY <1>1, <3>0, <3>1, <4>3, StartsInside
            <4> QED BY <4>1, <4>4
        <3>3. Abstract!InLeaf(AbstractOpen) /\ ~repeated' /\ Takes'
            BY <1>1, <3>0, <3>1, NotInLeaf, AfterReading DEF Takes
        <3>4. AbstractOpen' = Append(Abstract!Begun, Abstract!Opened("array"))
            <4>1. l < Len(kinds') /\ ItemOf(l + 1)' = Abstract!Opened("array")
                BY <1>3, <1>4, <1>6, <3>3
            <4>2. \A i \in 1 .. depth : sets'[i] = sets[i]
                BY <3>1
            <4>3. PICK kind : kind = "array"
                OBVIOUS
            <4>4. AbstractOpen' = Append(Abstract!Begun, Abstract!Opened(kind))
                <5>1. ItemOf(l + 1)' = Abstract!Opened(kind)
                    BY <4>1, <4>3
                <5> QED BY <5>1, <4>1, <4>2, <1>1, <1>3, <1>4, <1>5, <3>0, <3>1, <3>3, StartedInside
            <4> QED BY <4>3, <4>4
        <3> QED BY <3>2, <3>3, <3>4 DEF Abstract!Counts, Abstract!AfterStart
    <2> QED BY <2>1, <2>2
<1>8. Abstract!ValueComes /\ AbstractOpen # << >> /\ Len(AbstractOpen) < MaxDepth
    BY <1>1, ReadingMapped
<1> QED BY <1>1, <1>7, <1>8 DEF Abstract!OpenArray

-----------------------------------------------------------------------------
(* The step that opens an object.                                          *)

LEMMA NothingMapped ==
    ASSUME TypeOK, Takes, UNCHANGED <<had, result>>, repeated' \in BOOLEAN, WritesNothing
    PROVE  Abstract!Writes(<< >>)
<1>1. PICK text : text = << >>
    OBVIOUS
<1>2. wrote' = text /\ kept' = (kept \/ text # << >>) /\ needSep' = needSep /\ needSep \in BOOLEAN
    BY <1>1 DEF WritesNothing, Writes, TypeOK
<1>3. needSep' = (needSep \/ text # << >>)
    BY <1>1, <1>2
<1>4. Abstract!Writes(text)
    BY <1>2, <1>3, WritesMapped
<1> QED BY <1>1, <1>4

LEMMA NewItem ==
    ASSUME IInv', Takes', NEW l \in Nat, Len(kinds') = l, l >= 1, NEW kind, kinds'[l] = kind,
           PlacesOf(l)' = {}, BegunOf(l)' = FALSE
    PROVE  ItemOf(l)' = Abstract!Opened(kind)
<1>1. Shape'
    BY Shapes
<1>2. NamesOf(l)' = {Text(p)' : p \in PlacesOf(l)'}
    BY <1>1 DEF Shape
<1>3. NamesOf(l)' = {}
    BY <1>2
<1> QED BY <1>3 DEF ItemOf, Abstract!Opened

LEMMA ObjectCounts ==
    ASSUME IInv, Takes, kinds # << >>, leaf = 0, next = "value", Moved, leaves' = leaves,
           next' = "item", NEW l \in Nat, l = Len(kinds)
    PROVE  /\ Abstract!NameCounts(FALSE) /\ repeated' \in BOOLEAN
           /\ \A k \in 1 .. (l - 1) : sets'[k] = sets[k]
           /\ \A p \in Places : Written(p) /\ (p[1] = "arena" => p[2] <= nameMark)
                                   => TextIn(memory', p) = Text(p)
           /\ ~repeated' => {TextIn(memory', p) : p \in sets'[l]} = NamesOf(l) \union {Text(name)}
<1>1. /\ ReadName = Text(name) /\ LeafNames = {Text(p) : p \in leaves}
      /\ NameWaits /\ name \in Places
    BY NameRead
<1>2. /\ repeated' \in BOOLEAN
      /\ \A p \in Places : Written(p) /\ (p[1] = "arena" => p[2] <= nameMark)
                              => TextIn(memory', p) = Text(p)
    BY <1>1, Entered
<1>3. PICK place \in Places :
         /\ TextIn(memory', place) = Text(name)
         /\ repeated' = Holds(Kept, place)
         /\ \A k \in 1 .. (l - 1) : sets'[k] = sets[k]
         /\ sets'[l] = With(Kept, place)
    BY <1>1, Entered
<1>4. l >= 1 /\ PlacesOf(l) = Kept /\ NamesOf(l) = {Text(p) : p \in Kept}
    BY OutsidePlaces
<1>5. \A p \in Kept : TextIn(memory', p) = Text(p)
    <2>1. l \in 1 .. Len(kinds)
        BY <1>4
    <2>2. \A p \in PlacesOf(l) : /\ p \in Places /\ Written(p)
                                 /\ NameWaits /\ p[1] = "arena" => p[2] <= nameMark
        BY <2>1, PlacesIs
    <2> QED BY <2>2, <1>1, <1>2, <1>4
<1>6. \A p \in leaves : TextIn(memory', p) = Text(p)
    <2>1. SetsOK /\ Stack(SetsOutside)
        BY Numbers
    <2> QED BY <2>1, <1>1, <1>2 DEF SetsOK, Stack, InUse, NameWaits
<1>7. Holds(Kept, place) <=> Text(name) \in NamesOf(l)
    <2>1. Holds(Kept, place) <=> TextIn(memory', place) \in {Text(p) : p \in Kept}
        BY <1>5, HoldsIs
    <2> QED BY <2>1, <1>3, <1>4
<1>8. ASSUME ~repeated'
      PROVE  {TextIn(memory', p) : p \in sets'[l]} = NamesOf(l) \union {Text(name)}
    <2>1. sets'[l] = Kept \union {place}
        BY <1>3, <1>8, WithIs
    <2> QED BY <2>1, <1>3, <1>4, <1>5
<1>9. Abstract!Top.names = NamesOf(l)
    BY TopFields
<1>10. CASE repeated'
    <2>1. ReadName' = None /\ LeafNames' = {}
        BY <1>10, Forgotten
    <2> QED BY <2>1, <1>1, <1>2, <1>3, <1>7, <1>8, <1>9, <1>10
            DEF Abstract!NameCounts, ReadName, LeafNames
<1>11. CASE ~repeated'
    <2>1. ReadName' = None
        BY DEF ReadName, Waiting
    <2>2. LeafNames' = {TextIn(memory', p) : p \in leaves'}
        BY <1>11 DEF LeafNames, Text
    <2>3. LeafNames' = LeafNames
        BY <2>2, <1>1, <1>6
    <2> QED BY <2>1, <2>3, <1>1, <1>2, <1>3, <1>7, <1>8, <1>9, <1>11
            DEF Abstract!NameCounts, ReadName, LeafNames
<1> QED BY <1>2, <1>10, <1>11

\* The document's object opens.
LEMMA FirstObject ==
    ASSUME IInv, Takes, kinds = << >>, OpenObject, IInv'
    PROVE  /\ AbstractOpen' = <<Abstract!Opened("object")>>
           /\ Abstract!Writes(<< >>)
           /\ repeated' = repeated /\ ReadName' = ReadName /\ LeafNames' = LeafNames
<1>0. /\ Control /\ TypeOK /\ Len(kinds) = 0 /\ leaf = 0 /\ kinds \in Seq(Kinds)
    BY Numbers, EmptySeq DEF Control, IInv
<1>1. /\ kinds' = Append(kinds, "object") /\ next' = "item" /\ Enter /\ WritesNothing
      /\ UNCHANGED <<had, result>>
    BY <1>0 DEF OpenObject
<1>2. /\ UNCHANGED <<memory, repeated, leaves, leaf>> /\ named' = FALSE /\ pending' = << >>
    BY <1>1 DEF Enter, arenas, WritesNothing
<1>3. Len(kinds') = 1 /\ kinds'[1] = "object"
    <2>1. PICK kind \in Kinds : kind = "object"
        BY DEF Kinds
    <2>2. kinds' = Append(kinds, kind)
        BY <1>1, <2>1
    <2>3. Len(kinds') = Len(kinds) + 1 /\ kinds'[Len(kinds')] = kind
        BY <2>2, <1>0, Opens
    <2> QED BY <2>1, <2>3, <1>0
<1>4. Takes' /\ ~repeated'
    BY <1>1, <1>2 DEF Takes
<1>5. Outside' = 1
    BY <1>0, <1>2, <1>3 DEF Outside
<1>6. PlacesOf(1)' = {} /\ BegunOf(1)' = FALSE
    <2>1. {pending'[j] : j \in 1 .. Len(pending')} = {}
        BY <1>2, EmptySeq
    <2> QED BY <2>1, <1>2, <1>3, <1>5 DEF PlacesOf, BegunOf
<1>7. PICK f : f = Abstract!Opened("object")
    OBVIOUS
<1>8. ItemOf(1)' = f
    <2>1. PICK kind : kind = "object"
        OBVIOUS
    <2>2. PICK l \in Nat : l = 1
        OBVIOUS
    <2>3. Len(kinds') = l /\ l >= 1 /\ kinds'[l] = kind /\ PlacesOf(l)' = {} /\ BegunOf(l)' = FALSE
        BY <2>1, <2>2, <1>3, <1>6
    <2>4. ItemOf(l)' = Abstract!Opened(kind)
        BY <2>3, <1>4, NewItem
    <2> QED BY <2>1, <2>2, <2>4, <1>7
<1>9. AbstractOpen' = <<f>>
    <2>1. Shape'
        BY <1>4, Shapes
    <2>2. AbstractOpen' \in Seq(Container) /\ Len(AbstractOpen') = 1 /\ AbstractOpen'[1] = f
        BY <2>1, <1>3, <1>8 DEF Shape
    <2>3. f \in Container
        <3>1. 1 \in 1 .. Len(AbstractOpen')
            BY <2>2
        <3> QED BY <2>2, <3>1, ElementOfSeq
    <2>4. <<f>> \in Seq(Container) /\ Len(<<f>>) = 1 /\ <<f>>[1] = f
        BY <2>3
    <2>5. PICK one \in Seq(Container) : one = <<f>>
        BY <2>4
    <2>6. Len(one) = 1 /\ one[1] = f
        BY <2>4, <2>5
    <2>7. \A k \in 1 .. 1 : AbstractOpen'[k] = one[k]
        BY <2>2, <2>6
    <2>8. AbstractOpen' = one
        BY <2>2, <2>6, <2>7, SeqEqual
    <2> QED BY <2>5, <2>8
<1>10. Abstract!Writes(<< >>)
    <2>1. repeated' \in BOOLEAN
        BY <1>4, <1>2, <1>0 DEF TypeOK
    <2> QED BY <2>1, <1>0, <1>1, NothingMapped
<1>11. ReadName = None /\ ReadName' = None
    BY <1>1 DEF ReadName, Waiting
<1>12. LeafNames' = LeafNames
    BY <1>2 DEF LeafNames, Text, TextIn
<1> QED BY <1>2, <1>7, <1>9, <1>10, <1>11, <1>12

\* An object that is the value of a member outside the leaves opens.
LEMMA EnteredMapped ==
    ASSUME IInv, Takes, kinds # << >>, leaf = 0, OpenObject, IInv'
    PROVE  /\ Abstract!NameCounts(FALSE) /\ Abstract!Writes(<< >>)
           /\ Abstract!Counts(Append(Abstract!Named(AbstractOpen, ReadName), Abstract!Opened("object")))
<1>0. /\ TypeOK /\ kinds \in Seq(Kinds) /\ Len(kinds) \in Nat /\ Len(kinds) >= 1
      /\ Outside = Len(kinds)
    BY Numbers DEF IInv
<1>1. /\ kinds' = Append(kinds, "object") /\ next' = "item" /\ Enter /\ WritesNothing
      /\ ValueNext /\ UNCHANGED <<had, result>>
    BY DEF OpenObject
<1>2. /\ Moved /\ leaves' = leaves /\ leaf' = leaf /\ named' = FALSE /\ pending' = << >>
    BY <1>1 DEF Enter, WritesNothing
<1>3. next = "value"
    BY <1>1, Numbers DEF ValueNext
<1>4. PICK l \in Nat : l = Len(kinds) /\ l >= 1
    BY <1>0
<1>5. /\ Abstract!NameCounts(FALSE) /\ repeated' \in BOOLEAN
      /\ \A k \in 1 .. (l - 1) : sets'[k] = sets[k]
      /\ \A p \in Places : Written(p) /\ (p[1] = "arena" => p[2] <= nameMark)
                              => TextIn(memory', p) = Text(p)
      /\ ~repeated' => {TextIn(memory', p) : p \in sets'[l]} = NamesOf(l) \union {Text(name)}
    BY <1>1, <1>2, <1>3, <1>4, ObjectCounts
<1>6. Abstract!Writes(<< >>)
    BY <1>0, <1>1, <1>5, NothingMapped
<1>7. /\ Len(kinds') = l + 1 /\ kinds'[l + 1] = "object" /\ \A k \in 1 .. l : kinds'[k] = kinds[k]
    <2>1. PICK kind \in Kinds : kind = "object"
        BY DEF Kinds
    <2>2. kinds' = Append(kinds, kind)
        BY <1>1, <2>1
    <2> QED BY <2>1, <2>2, <1>0, <1>4, Opens
<1>8. Outside' = l + 1
    BY <1>2, <1>7 DEF Outside
<1>9. ReadName = Text(name) /\ NameWaits
    BY <1>3, NameRead
<1>10. CASE repeated'
    BY <1>5, <1>6, <1>10, Forgotten DEF Abstract!Counts
<1>11. CASE ~repeated'
    <2>1. Takes'
        BY <1>1, <1>11, AfterReading
    <2>2. Shape /\ Shape'
        BY <2>1, Shapes
    <2>3. /\ PlacesOf(l) = Kept
          /\ \A k \in 1 .. (l - 1) : PlacesOf(k) = sets[k]
          /\ \A k \in 1 .. l : kinds[k] = "object" /\ BegunOf(k) = FALSE
        BY <1>4, OutsidePlaces
    <2>4. \A k \in 1 .. (l + 1) : BegunOf(k)' = FALSE
        BY <1>8 DEF BegunOf
    <2>5. \A k \in 1 .. l : PlacesOf(k)' = sets'[k]
        BY <1>7, <1>8, <2>3 DEF PlacesOf, SetOf
    <2>6. \A k \in 1 .. (l + 1) : NamesOf(k)' = {TextIn(memory', p) : p \in PlacesOf(k)'}
        BY <2>2, <1>7 DEF Shape, Text
    <2>7. ASSUME NEW k \in 1 .. (l - 1)
          PROVE  ItemOf(k)' = ItemOf(k)
        <3>1. k \in 1 .. l /\ k \in 1 .. (l + 1) /\ k \in 1 .. Len(kinds)
            BY <1>4
        <3>2. PlacesOf(k)' = PlacesOf(k)
            BY <3>1, <2>3, <2>5, <1>5
        <3>3. \A p \in PlacesOf(k) : TextIn(memory', p) = Text(p)
            <4>1. \A p \in PlacesOf(k) : /\ p \in Places /\ Written(p)
                                         /\ NameWaits /\ p[1] = "arena" => p[2] <= nameMark
                BY <3>1, PlacesIs
            <4> QED BY <4>1, <1>5, <1>9
        <3>4. NamesOf(k) = {Text(p) : p \in PlacesOf(k)}
            BY <3>1, <2>2 DEF Shape
        <3>5. NamesOf(k)' = NamesOf(k)
            BY <3>1, <3>2, <3>3, <3>4, <2>6
        <3> QED BY <3>1, <3>5, <2>3, <2>4, <1>7 DEF ItemOf
    <2> DEFINE top == [kind |-> kinds[l], names |-> NamesOf(l) \union {Text(name)}, begun |-> BegunOf(l)]
    <2>8. ItemOf(l)' = top
        <3>1. l \in 1 .. l /\ l \in 1 .. (l + 1)
            BY <1>4
        <3>2. NamesOf(l)' = NamesOf(l) \union {Text(name)}
            BY <3>1, <2>5, <2>6, <1>5, <1>11
        <3> QED BY <3>1, <3>2, <2>3, <2>4, <1>7 DEF ItemOf
    <2>9. Abstract!Named(AbstractOpen, ReadName) = [AbstractOpen EXCEPT ![l] = top]
        <3>1. PICK n : n = Text(name)
            OBVIOUS
        <3> QED BY <3>1, <1>4, <1>9, TopNamed
    <2>10. PICK f : f = Abstract!Opened("object")
        OBVIOUS
    <2>11. ItemOf(l + 1)' = f
        <3>1. PICK kind : kind = "object"
            OBVIOUS
        <3>2. PICK m \in Nat : m = l + 1
            OBVIOUS
        <3>3. PlacesOf(l + 1)' = {}
            <4>1. {pending'[j] : j \in 1 .. Len(pending')} = {}
                BY <1>2, EmptySeq
            <4> QED BY <4>1, <1>2, <1>7, <1>8 DEF PlacesOf
        <3>4. BegunOf(l + 1)' = FALSE
            BY <1>8 DEF BegunOf
        <3>5. Len(kinds') = m /\ m >= 1 /\ kinds'[m] = kind /\ PlacesOf(m)' = {} /\ BegunOf(m)' = FALSE
            BY <3>1, <3>2, <3>3, <3>4, <1>7
        <3>6. ItemOf(m)' = Abstract!Opened(kind)
            BY <3>5, <2>1, NewItem
        <3> QED BY <3>1, <3>2, <3>6, <2>10
    <2> HIDE DEF top
    <2>12. PICK e : e = top
        OBVIOUS
    <2>13. AbstractOpen' = Append([AbstractOpen EXCEPT ![l] = e], f)
        <3>1. ItemOf(l)' = e
            BY <2>8, <2>12
        <3> QED BY <3>1, <2>2, <2>7, <2>11, <1>4, <1>7, TopChanged
    <2> QED BY <2>9, <2>10, <2>12, <2>13, <1>5, <1>6, <1>11 DEF Abstract!Counts
<1> QED BY <1>10, <1>11

\* An object in a leaf opens.
LEMMA ObjectInside ==
    ASSUME IInv, Takes, kinds # << >>, leaf > 0, OpenObject, IInv'
    PROVE  /\ Abstract!StartsLeaf("openObject")
           /\ Abstract!Counts(Append(Abstract!Begun, Abstract!Opened("object")))
<1>0. /\ kinds \in Seq(Kinds) /\ Len(kinds) \in Nat /\ Len(kinds) >= 1
      /\ Outside \in Nat /\ Outside <= Len(kinds) /\ leaf \in Nat /\ SetsOK /\ ArenasOK
      /\ SetsOutside \in Nat /\ depth \in Nat
      /\ ObjectsOf(kinds, Outside + 1, Len(kinds)) \in Nat
      /\ depth = SetsOutside + ObjectsOf(kinds, Outside + 1, Len(kinds))
    BY Numbers
<1>1. /\ kinds' = Append(kinds, "object") /\ next' = "item"
      /\ Push("arena", {}) /\ WritesItem(<<"openObject">>, FALSE) /\ leaf' = leaf + 1
      /\ UNCHANGED <<memory, length, leaves, pending, named, name, nameMark, repeated>>
      /\ ValueNext /\ UNCHANGED <<had, result>>
    <2>1. leaf # 0
        BY <1>0
    <2>2. ValueNext
        BY DEF OpenObject
    <2>3. /\ kinds' = Append(kinds, "object") /\ next' = "item"
          /\ Push("arena", {}) /\ UNCHANGED <<arenas, leaves, objects, repeated>>
          /\ WritesItem(<<"openObject">>, FALSE) /\ leaf' = leaf + 1
          /\ UNCHANGED <<had, result>>
        BY <2>1 DEF OpenObject
    <2> QED BY <2>2, <2>3 DEF arenas, objects
<1>2. PICK l \in Nat : l = Len(kinds) /\ l >= 1
    BY <1>0
<1>3. /\ Len(kinds') = l + 1 /\ kinds'[l + 1] = "object" /\ \A k \in 1 .. l : kinds'[k] = kinds[k]
      /\ kinds' # << >>
      /\ ObjectsOf(kinds', Outside + 1, l + 1) = ObjectsOf(kinds, Outside + 1, l) + 1
    <2>1. PICK kind \in Kinds : kind = "object"
        BY DEF Kinds
    <2>2. kinds' = Append(kinds, kind) /\ Outside + 1 \in 1 .. (Len(kinds) + 1)
        BY <1>0, <1>1, <2>1
    <2> QED BY <2>1, <2>2, <1>0, <1>2, Opens
<1>4. Outside' = Outside /\ comma' = FALSE /\ Takes' /\ leaf' > 0 /\ ~repeated'
    BY <1>0, <1>1, <1>2, <1>3 DEF Outside, WritesItem, Takes
<1>5. /\ \A i \in 1 .. depth : sets'[i] = sets[i]
      /\ sets'[depth + 1] = {}
    <2>1. {} \in SUBSET Places /\ "arena" \in Arenas
        BY DEF Arenas
    <2>2. PICK S \in SUBSET Places : S = {}
        BY <2>1
    <2>3. Push("arena", S)
        BY <1>1, <2>2
    <2>4. (\A i \in 1 .. depth : sets'[i] = sets[i]) /\ sets'[depth + 1] = S
        BY <2>1, <2>3, <1>0, PushSets
    <2> QED BY <2>2, <2>4
<1>6. SetsOutside' = SetsOutside
    BY <1>1, <1>3, <1>4 DEF SetsOutside
<1>7. PlacesOf(l + 1)' = {} /\ BegunOf(l + 1)' = FALSE
    <2>1. l + 1 > Outside
        BY <1>0, <1>2
    <2>2. SetOf(l + 1)' = depth + 1
        BY <2>1, <1>0, <1>2, <1>3, <1>4, <1>6 DEF SetOf
    <2>3. PlacesOf(l + 1)' = sets'[SetOf(l + 1)']
        BY <2>1, <1>0, <1>3, <1>4 DEF PlacesOf
    <2>4. BegunOf(l + 1)' = FALSE
        BY <1>1, <1>3, <1>4 DEF BegunOf
    <2> QED BY <2>2, <2>3, <2>4, <1>5
<1>8. Abstract!StartsLeaf("openObject")
    <2>1. PICK t : t = "openObject"
        OBVIOUS
    <2>2. PICK due \in BOOLEAN : due = FALSE
        OBVIOUS
    <2>3. WritesItem(<<t>>, due)
        BY <1>1, <2>1, <2>2
    <2>4. Abstract!StartsLeaf(t)
        BY <1>1, <1>4, <2>3, StartsInside
    <2> QED BY <2>1, <2>4
<1>9. AbstractOpen' = Append(Abstract!Begun, Abstract!Opened("object"))
    <2>1. PICK kind : kind = "object"
        OBVIOUS
    <2>2. PICK m \in Nat : m = l + 1
        OBVIOUS
    <2>3. Len(kinds') = m /\ m >= 1 /\ kinds'[m] = kind /\ PlacesOf(m)' = {} /\ BegunOf(m)' = FALSE
        BY <2>1, <2>2, <1>3, <1>7
    <2>4. ItemOf(m)' = Abstract!Opened(kind)
        BY <2>3, <1>4, NewItem
    <2>5. ItemOf(l + 1)' = Abstract!Opened(kind) /\ l < Len(kinds') /\ l <= Len(kinds')
        BY <2>2, <2>4, <1>3
    <2>6. AbstractOpen' = Append(Abstract!Begun, Abstract!Opened(kind))
        BY <2>5, <1>1, <1>2, <1>3, <1>4, <1>5, StartedInside
    <2> QED BY <2>1, <2>6
<1> QED BY <1>4, <1>8, <1>9 DEF Abstract!Counts

LEMMA OpenObjectMapped == ASSUME IInv, OpenObject, IInv' PROVE Abstract!OpenObject
<1>0. /\ Takes /\ Len(kinds) < MaxDepth /\ token' = "openObject" /\ next' = "item"
      /\ UNCHANGED <<had, result>>
      /\ ValueNext \/ (kinds = << >> /\ next = "value")
    BY DEF OpenObject, ValueNext
<1>1. Abstract!ValueComes /\ Len(AbstractOpen) < MaxDepth
    BY <1>0, ReadingMapped
<1>2. AbstractOpen = << >> <=> kinds = << >>
    BY <1>0, Emptied
<1>3. CASE kinds = << >>
    <2>1. /\ AbstractOpen' = <<Abstract!Opened("object")>>
          /\ Abstract!Writes(<< >>)
          /\ repeated' = repeated /\ ReadName' = ReadName /\ LeafNames' = LeafNames
        BY <1>0, <1>3, FirstObject
    <2> QED BY <2>1, <1>0, <1>1, <1>2, <1>3 DEF Abstract!OpenObject, ReadName, LeafNames
<1>4. CASE kinds # << >> /\ leaf = 0
    <2>1. /\ Abstract!NameCounts(FALSE) /\ Abstract!Writes(<< >>)
          /\ Abstract!Counts(Append(Abstract!Named(AbstractOpen, ReadName), Abstract!Opened("object")))
        BY <1>0, <1>4, EnteredMapped
    <2>2. ~Abstract!InLeaf(AbstractOpen)
        BY <1>0, <1>4, NotInLeaf
    <2> QED BY <2>1, <2>2, <1>0, <1>1, <1>2, <1>4 DEF Abstract!OpenObject, ReadName
<1>5. CASE kinds # << >> /\ leaf # 0
    <2>1. leaf > 0
        BY <1>0, <1>5, Numbers
    <2>2. /\ Abstract!StartsLeaf("openObject")
          /\ Abstract!Counts(Append(Abstract!Begun, Abstract!Opened("object")))
        BY <2>1, <1>0, <1>5, ObjectInside
    <2>3. Abstract!InLeaf(AbstractOpen)
        BY <2>1, <1>0, <1>5, NotInLeaf
    <2> QED BY <2>2, <2>3, <1>0, <1>1, <1>2, <1>5 DEF Abstract!OpenObject
<1> QED BY <1>3, <1>4, <1>5

-----------------------------------------------------------------------------
(* The step that closes a container.                                       *)

\* The containers around an object outside the leaves.
LEMMA LeftKept ==
    ASSUME IInv, IInv', Takes, Takes', kinds # << >>, leaf = 0, leaf' = 0, named' = TRUE,
           UNCHANGED <<memory, sets>>,
           NEW e \in Nat, Len(kinds') = e, Len(kinds) = e + 1,
           \A k \in 1 .. e : kinds'[k] = kinds[k]
    PROVE  \A k \in 1 .. e : ItemOf(k)' = ItemOf(k)
<1>1. Shape /\ Shape'
    BY Shapes
<1>2. /\ \A k \in 1 .. e : PlacesOf(k) = sets[k]
      /\ \A k \in 1 .. e : kinds[k] = "object" /\ BegunOf(k) = FALSE
    <2>1. PICK l \in Nat : l = e + 1
        OBVIOUS
    <2>2. /\ \A k \in 1 .. (l - 1) : PlacesOf(k) = sets[k]
          /\ \A k \in 1 .. l : kinds[k] = "object" /\ BegunOf(k) = FALSE
        BY <2>1, OutsidePlaces
    <2>3. \A k \in 1 .. e : k \in 1 .. (l - 1) /\ k \in 1 .. l
        BY <2>1
    <2> QED BY <2>2, <2>3
<1>3. Outside' = e
    BY DEF Outside
<1>4. ASSUME NEW k \in 1 .. e
      PROVE  ItemOf(k)' = ItemOf(k)
    <2>1. kinds'[k] = "object" /\ kinds[k] = "object" /\ PlacesOf(k) = sets[k]
        BY <1>2
    <2>2. PlacesOf(k)' = PlacesOf(k)
        BY <2>1, <1>3 DEF PlacesOf, SetOf
    <2>3. BegunOf(k)' = FALSE
        BY <1>3 DEF BegunOf
    <2>4. BegunOf(k)' = BegunOf(k)
        BY <2>3, <1>2
    <2>5. k \in 1 .. Len(kinds) /\ k \in 1 .. Len(kinds')
        OBVIOUS
    <2>6. NamesOf(k)' = NamesOf(k)
        <3>1. \A p : Text(p)' = Text(p)
            BY DEF Text, TextIn
        <3>2. NamesOf(k)' = {Text(p)' : p \in PlacesOf(k)'} /\ NamesOf(k) = {Text(p) : p \in PlacesOf(k)}
            BY <2>5, <1>1 DEF Shape
        <3> QED BY <3>1, <3>2, <2>2
    <2> QED BY <2>1, <2>4, <2>6 DEF ItemOf
<1> QED BY <1>4

\* Those around a container in a leaf.
LEMMA ClosedKept ==
    ASSUME IInv, IInv', Takes, Takes', kinds # << >>, leaf > 0, comma' = TRUE, Outside' = Outside,
           UNCHANGED <<memory, sets, named, pending>>,
           NEW e \in Nat, Len(kinds') = e, Len(kinds) = e + 1,
           \A k \in 1 .. e : kinds'[k] = kinds[k]
    PROVE  \A k \in 1 .. e : ItemOf(k)' = ItemOf(k)
<1>1. ASSUME NEW k \in 1 .. e
      PROVE  ItemOf(k)' = ItemOf(k)
    <2>1. BegunOf(k)' = BegunOf(k)
        BY DEF BegunOf
    <2>2. NamesOf(k)' = NamesOf(k)
        <3>1. e <= Len(kinds) /\ e <= Len(kinds')
            OBVIOUS
        <3>2. \A p \in Places : Written(p) => TextIn(memory', p) = Text(p)
            BY DEF Text
        <3>3. kinds[k] = "object" /\ ~(k = Outside /\ ~named) => sets'[SetOf(k)] = sets[SetOf(k)]
            OBVIOUS
        <3> QED BY <3>1, <3>2, <3>3, NamesStay
    <2>3. kinds'[k] = kinds[k]
        OBVIOUS
    <2> QED BY <2>1, <2>2, <2>3 DEF ItemOf
<1> QED BY <1>1

LEMMA CloseMapped == ASSUME IInv, CloseContainer, IInv' PROVE Abstract!Close
<1>0. /\ Takes /\ next = "item" /\ Control /\ kinds # << >> /\ TypeOK
    BY DEF CloseContainer, IInv, Control
<1>1. /\ token' = Closer[kinds[Len(kinds)]]
      /\ kinds' = SubSeq(kinds, 1, Len(kinds) - 1) /\ next' = AroundOf(kinds')
      /\ UNCHANGED <<had, result>>
    BY DEF CloseContainer
<1>2. /\ Len(kinds) \in Nat /\ Len(kinds) >= 1 /\ kinds \in Seq(Kinds) /\ leaf \in Nat
    BY <1>0, Numbers
<1>3. PICK e \in Nat : e = Len(kinds) - 1
    BY <1>2
<1>4. /\ Len(kinds') = e /\ Len(kinds) = e + 1 /\ \A k \in 1 .. e : kinds'[k] = kinds[k]
      /\ kinds' = << >> <=> Len(kinds) = 1
    BY <1>0, <1>1, <1>2, <1>3, Closes
<1>5. /\ UNCHANGED <<memory, sets, leaves, repeated>>
      /\ Abstract!Writes(IF Abstract!InLeaf(AbstractOpen) THEN <<Closer[kinds[Len(kinds)]]>> ELSE << >>)
      /\ Takes' /\ \A k \in 1 .. e : ItemOf(k)' = ItemOf(k)
    <2>1. CASE leaf = 0
        <3>1. Leave /\ WritesNothing
            BY <2>1 DEF CloseContainer
        <3>2. sets' = sets /\ memory' = memory
            BY <3>1, <1>0, <1>3, <2>1, Left
        <3>3. leaves' = leaves /\ repeated' = repeated /\ named' = TRUE /\ leaf' = 0
            BY <3>1, <2>1 DEF Leave, WritesNothing
        <3>4. Takes' /\ repeated' \in BOOLEAN
            BY <3>3, <1>0, <1>1 DEF Takes, TypeOK
        <3>5. Abstract!Writes(<< >>)
            BY <3>1, <3>4, <1>0, <1>1, NothingMapped
        <3>6. ~Abstract!InLeaf(AbstractOpen)
            BY <1>0, <2>1, NotInLeaf
        <3>7. \A k \in 1 .. e : ItemOf(k)' = ItemOf(k)
            BY <3>2, <3>3, <3>4, <1>0, <1>4, <2>1, LeftKept
        <3> QED BY <3>2, <3>3, <3>4, <3>5, <3>6, <3>7
    <2>2. CASE leaf # 0
        <3>1. /\ (kinds[Len(kinds)] = "object" /\ Pop("arena")) \/ UNCHANGED <<open, arenas>>
              /\ Writes(<<Closer[kinds[Len(kinds)]]>>)
              /\ leaf' = leaf - 1 /\ comma' = TRUE
              /\ UNCHANGED <<leaves, objects, repeated, needSep>>
            BY <2>2 DEF CloseContainer
        <3>2. UNCHANGED <<memory, sets, leaves, repeated, named, pending>>
            BY <3>1 DEF Pop, open, arenas, objects
        <3>3. leaf > 0 /\ Takes' /\ repeated' \in BOOLEAN
            BY <3>2, <2>2, <1>0, <1>1, <1>2 DEF Takes, TypeOK
        <3>4. PICK text : text = <<Closer[kinds[Len(kinds)]]>>
            OBVIOUS
        <3>5. wrote' = text /\ kept' = (kept \/ text # << >>) /\ needSep' = TRUE /\ needSep = TRUE
            <4>1. needSep = TRUE
                BY <3>3, <1>0 DEF Control, TypeOK
            <4> QED BY <4>1, <3>1, <3>4 DEF Writes
        <3>6. Abstract!Writes(text)
            <4>1. needSep' = (needSep \/ text # << >>)
                BY <3>5
            <4> QED BY <4>1, <3>3, <3>5, <1>0, <1>1, WritesMapped
        <3>7. Abstract!InLeaf(AbstractOpen)
            BY <3>3, <1>0, NotInLeaf
        <3>8. Outside' = Outside
            BY <3>1, <1>2, <1>4 DEF Outside
        <3>9. \A k \in 1 .. e : ItemOf(k)' = ItemOf(k)
            BY <3>1, <3>2, <3>3, <3>8, <1>0, <1>4, ClosedKept
        <3> QED BY <3>2, <3>3, <3>4, <3>6, <3>7, <3>9
    <2> QED BY <2>1, <2>2
<1>6. Shape /\ Shape'
    BY <1>0, <1>5, Shapes
<1>7. AbstractOpen' = SubSeq(AbstractOpen, 1, Len(AbstractOpen) - 1)
    <2>1. /\ AbstractOpen \in Seq(Container) /\ AbstractOpen' \in Seq(Container)
          /\ Len(AbstractOpen) = e + 1 /\ Len(AbstractOpen') = e
          /\ \A k \in 1 .. e : AbstractOpen'[k] = AbstractOpen[k]
        BY <1>4, <1>5, <1>6 DEF Shape
    <2> QED BY <2>1, Shorter
<1>8. next' = Abstract!Around(AbstractOpen')
    <2>1. AbstractOpen' = << >> <=> e = 0
        <3>1. AbstractOpen' \in Seq(Container) /\ Len(AbstractOpen') = e
            BY <1>4, <1>6 DEF Shape
        <3> QED BY <3>1, EmptySeq
    <2>2. kinds' = << >> <=> e = 0
        BY <1>4
    <2> QED BY <2>1, <2>2, <1>1 DEF AroundOf, Abstract!Around
<1>9. ReadName' = ReadName /\ LeafNames' = LeafNames
    <2>1. next' # "value"
        BY <1>1 DEF AroundOf
    <2>2. ReadName = None /\ ReadName' = None
        BY <2>1, <1>0 DEF ReadName, Waiting
    <2>3. LeafNames' = LeafNames
        BY <1>5 DEF LeafNames, Text, TextIn
    <2> QED BY <2>2, <2>3
<1>10. Abstract!Reading /\ Abstract!Top.kind = kinds[Len(kinds)]
    BY <1>0, ReadingMapped
<1>11. Abstract!Closer = Closer
    BY DEF Abstract!Closer, Closer
<1> QED BY <1>0, <1>1, <1>5, <1>7, <1>8, <1>9, <1>10, <1>11
        DEF Abstract!Close, ReadName, LeafNames

-----------------------------------------------------------------------------
(* The step that reads a name.                                             *)

\* Reading a name changes no other.
LEMMA OthersStay ==
    ASSUME IInv, Takes, \A p \in Places : Written(p) => TextIn(memory', p) = Text(p)
    PROVE  \A p \in leaves : TextIn(memory', p) = Text(p)
<1>1. SetsOK /\ Stack(SetsOutside)
    BY Numbers
<1> QED BY <1>1 DEF SetsOK, Stack, InUse

LEMMA NameOutside ==
    ASSUME IInv, IInv', Takes, kinds # << >>, leaf = 0, NEW n \in Names, MemberName(n)
    PROVE  /\ AbstractOpen' = AbstractOpen /\ LeafNames' = LeafNames
           /\ ReadName' = n /\ repeated' = repeated /\ Abstract!Writes(<< >>)
<1>0. /\ TypeOK /\ ArenasOK /\ Len(kinds) \in Nat /\ Outside = Len(kinds)
    BY Numbers DEF IInv
<1>1. /\ next' = "value" /\ UNCHANGED <<had, kinds, result>> /\ Member(n)
    BY DEF MemberName
<1>2. PICK place \in {InDocument(n), <<"arena", length["arena"] + 1>>} :
         /\ StrictToken(n, place) /\ name' = place /\ WritesNothing
         /\ UNCHANGED <<open, leaves, pending, named, repeated>>
    BY <1>1 DEF Member
<1>3. UNCHANGED <<sets, depth, leaves, pending, named, repeated, leaf>>
    BY <1>2 DEF open, WritesNothing
<1>4. /\ TextIn(memory', place) = n
      /\ \A p \in Places : Written(p) => TextIn(memory', p) = Text(p)
    BY <1>0, <1>2, TokenIs
<1>5. Takes' /\ ~repeated' /\ repeated' \in BOOLEAN
    BY <1>0, <1>1, <1>3 DEF Takes, TypeOK
<1>6. Shape /\ Shape' /\ Outside' = Outside
    BY <1>1, <1>3, <1>5, Shapes DEF Outside
<1>7. ASSUME NEW k \in 1 .. Len(kinds)
      PROVE  ItemOf(k)' = ItemOf(k)
    <2>1. PlacesOf(k)' = PlacesOf(k)
        BY <1>0, <1>1, <1>3, <1>6 DEF PlacesOf, SetOf
    <2>2. BegunOf(k) = FALSE /\ BegunOf(k)' = FALSE
        BY <1>0, <1>6 DEF BegunOf
    <2>3. \A p \in PlacesOf(k) : TextIn(memory', p) = Text(p)
        BY <1>4, PlacesIs
    <2>4. /\ NamesOf(k) = {Text(p) : p \in PlacesOf(k)}
          /\ NamesOf(k)' = {TextIn(memory', p) : p \in PlacesOf(k)'}
        BY <1>1, <1>6 DEF Shape, Text
    <2>5. NamesOf(k)' = NamesOf(k)
        BY <2>1, <2>3, <2>4
    <2> QED BY <2>2, <2>5, <1>1 DEF ItemOf
<1>8. AbstractOpen' = AbstractOpen
    <2>1. PICK l \in Nat : l = Len(kinds)
        BY <1>0
    <2>2. Len(kinds') = l /\ \A k \in 1 .. l : ItemOf(k)' = ItemOf(k)
        BY <2>1, <1>1, <1>7
    <2> QED BY <2>1, <2>2, <1>6, SameOpen
<1>9. LeafNames' = LeafNames
    <2>1. \A p \in leaves : TextIn(memory', p) = Text(p)
        BY <1>4, OthersStay
    <2>2. LeafNames' = {TextIn(memory', p) : p \in leaves'} /\ LeafNames = {Text(p) : p \in leaves}
        BY <1>5 DEF LeafNames, Text, Takes
    <2> QED BY <2>1, <2>2, <1>3
<1>10. ReadName' = n
    BY <1>1, <1>2, <1>3, <1>4, <1>5 DEF ReadName, Waiting, Text
<1>11. Abstract!Writes(<< >>)
    BY <1>0, <1>1, <1>2, <1>5, NothingMapped
<1> QED BY <1>3, <1>8, <1>9, <1>10, <1>11

LEMMA NameInside ==
    ASSUME IInv, IInv', Takes, kinds # << >>, leaf > 0, NEW n \in Names, MemberName(n)
    PROVE  /\ repeated' <=> n \in Abstract!Top.names
           /\ repeated' \in BOOLEAN
           /\ Abstract!Writes(Abstract!Comma(Abstract!Top.begun) \o <<n, "colon">>)
           /\ Abstract!Counts(Abstract!Named(Abstract!Begun, n))
           /\ LeafNames' = (IF repeated' THEN {} ELSE LeafNames)
           /\ ReadName' = ReadName
<1>0. /\ TypeOK /\ ArenasOK /\ SetsOK /\ Stack(SetsOutside) /\ Control
      /\ Len(kinds) \in Nat /\ Len(kinds) >= 1 /\ Outside \in Nat /\ depth \in Nat /\ leaf \in Nat
    BY Numbers DEF IInv
<1>1. /\ next = "item" /\ next' = "value" /\ UNCHANGED <<had, kinds, result>> /\ Member(n)
      /\ kinds[Len(kinds)] = "object"
    BY DEF MemberName
<1>2. PICK place \in {InDocument(n), <<"arena", length["arena"] + 1>>} :
         /\ StrictToken(n, place)
         /\ sets' = [sets EXCEPT ![depth] = With(sets[depth], place)]
         /\ repeated' = Holds(sets[depth], place)
         /\ WritesItem(<<n, "colon">>, FALSE)
         /\ UNCHANGED <<depth, marks, leaves, objects, leaf>>
    <2>1. leaf # 0
        BY <1>0
    <2> QED BY <2>1, <1>1 DEF Member
<1>3. UNCHANGED <<depth, leaves, pending, named, leaf>> /\ repeated' \in BOOLEAN
    BY <1>2 DEF objects, Holds
<1>4. /\ place \in Places /\ TextIn(memory', place) = n
      /\ \A p \in Places : Written(p) => TextIn(memory', p) = Text(p)
    BY <1>0, <1>2, TokenIs
<1>5. PICK l \in Nat : l = Len(kinds) /\ l >= 1 /\ Outside < l
    BY <1>0 DEF Outside
<1>6. Outside' = Outside /\ Len(kinds') = l
    BY <1>1, <1>3, <1>5 DEF Outside
<1>7. l \in 1 .. Len(kinds) /\ ~(l = Outside /\ ~named) /\ kinds[l] = "object"
    BY <1>1, <1>5
<1>8. SetOf(l) = depth /\ depth \in 1 .. depth /\ PlacesOf(l) = sets[depth]
    <2>1. SetOf(l) = depth /\ SetOf(l) \in 1 .. depth
        BY <1>1, <1>5, <1>7, SetIs
    <2>2. PlacesOf(l) = sets[SetOf(l)]
        BY <1>7 DEF PlacesOf
    <2> QED BY <2>1, <2>2
<1>9. /\ sets[depth] \in SUBSET Places
      /\ \A p \in sets[depth] : TextIn(memory', p) = Text(p)
    <2>1. sets[depth] \in SUBSET Places
        BY <1>0, <1>8, SetsNumbers
    <2>2. \A p \in sets[depth] : Written(p)
        BY <1>0, <1>8 DEF Stack, InUse
    <2> QED BY <2>1, <2>2, <1>4
<1>10. NamesOf(l) = {Text(p) : p \in sets[depth]}
    BY <1>7, <1>8, Shapes DEF Shape
<1>11. repeated' <=> n \in Abstract!Top.names
    <2>1. Holds(sets[depth], place) <=> TextIn(memory', place) \in {Text(p) : p \in sets[depth]}
        BY <1>9, HoldsIs
    <2>2. Abstract!Top.names = NamesOf(l)
        BY <1>5, TopFields
    <2> QED BY <2>1, <2>2, <1>2, <1>4, <1>10
<1>12. Abstract!Writes(Abstract!Comma(Abstract!Top.begun) \o <<n, "colon">>)
    <2>1. Abstract!Top.begun <=> comma
        <3>1. Abstract!Top.begun = (l > Outside /\ (l < Len(kinds) \/ next = "value" \/ comma))
            BY <1>5, TopFields DEF BegunOf
        <3>2. comma \in BOOLEAN
            BY <1>0 DEF TypeOK
        <3> QED BY <3>1, <3>2, <1>0, <1>1, <1>5
    <2>2. PICK text : text = Comma(comma) \o <<n, "colon">>
        OBVIOUS
    <2>3. text = Abstract!Comma(Abstract!Top.begun) \o <<n, "colon">>
        BY <2>1, <2>2 DEF Comma, Abstract!Comma
    <2>4. needSep = TRUE /\ leaf # 0
        BY <1>0 DEF Control, TypeOK
    <2>5. wrote' = text /\ kept' = (kept \/ text # << >>) /\ needSep' = TRUE
        BY <2>2, <2>4, <1>2 DEF WritesItem, Writes
    <2>6. ~repeated' => needSep' = (needSep \/ text # << >>)
        BY <2>4, <2>5
    <2>7. Abstract!Writes(text)
        BY <2>5, <2>6, <1>0, <1>1, <1>3, WritesMapped
    <2> QED BY <2>3, <2>7
<1>13. ReadName' = ReadName
    <2>1. leaf # 0 /\ leaf' # 0
        BY <1>0, <1>3
    <2> QED BY <2>1 DEF ReadName, Waiting
<1>14. CASE repeated'
    BY <1>3, <1>11, <1>12, <1>13, <1>14, Forgotten DEF Abstract!Counts
<1>15. CASE ~repeated'
    <2>1. Takes'
        BY <1>1, <1>15, AfterReading
    <2>2. Shape /\ Shape'
        BY <2>1, Shapes
    <2>3. LeafNames' = LeafNames
        <3>1. \A p \in leaves : TextIn(memory', p) = Text(p)
            BY <1>4, OthersStay
        <3>2. LeafNames' = {TextIn(memory', p) : p \in leaves'} /\ LeafNames = {Text(p) : p \in leaves}
            BY <1>15 DEF LeafNames, Text, Takes
        <3> QED BY <3>1, <3>2, <1>3
    <2>4. /\ \A k \in 1 .. (depth - 1) : sets'[k] = sets[k]
          /\ sets'[depth] = sets[depth] \union {place}
        <3>1. PICK S \in SUBSET Places : S = sets[depth] \union {place}
            BY <1>4, <1>9
        <3>2. sets' = [sets EXCEPT ![depth] = S]
            BY <3>1, <1>2, <1>15, WithIs
        <3>3. depth >= 1
            BY <1>0, <1>8
        <3>4. (\A k \in 1 .. (depth - 1) : sets'[k] = sets[k]) /\ sets'[depth] = S
            BY <3>2, <3>3, <1>0, JoinSets
        <3> QED BY <3>1, <3>4
    <2>5. \A k \in 1 .. l : kinds'[k] = kinds[k]
        BY <1>1
    <2>6. (\A k \in 1 .. (l - 1) : BegunOf(k)' = BegunOf(k)) /\ BegunOf(l)' = Yes
        BY <1>1, <1>5, <1>6, BegunStays
    <2>7. ASSUME NEW k \in 1 .. (l - 1)
          PROVE  ItemOf(k)' = ItemOf(k)
        <3>1. k \in 1 .. l /\ k \in 1 .. Len(kinds) /\ k # Len(kinds)
            BY <1>5
        <3>2. kinds[k] = "object" /\ ~(k = Outside /\ ~named) => sets'[SetOf(k)] = sets[SetOf(k)]
            <4> SUFFICES ASSUME kinds[k] = "object", ~(k = Outside /\ ~named)
                         PROVE  sets'[SetOf(k)] = sets[SetOf(k)]
                OBVIOUS
            <4>1. SetOf(k) \in 1 .. depth /\ SetOf(k) # depth
                BY <3>1, <1>1, SetIs
            <4>2. SetOf(k) \in 1 .. (depth - 1)
                BY <4>1, <1>0
            <4> QED BY <4>2, <2>4
        <3>3. NamesOf(k)' = NamesOf(k)
            <4>1. l <= Len(kinds) /\ l <= Len(kinds')
                BY <1>5, <1>6
            <4> QED BY <4>1, <3>1, <3>2, <2>1, <2>5, <1>3, <1>4, <1>6, NamesStay
        <3> QED BY <3>1, <3>3, <2>5, <2>6 DEF ItemOf
    <2> DEFINE top == [kind |-> kinds[l], names |-> NamesOf(l) \union {n}, begun |-> Yes]
    <2>8. ItemOf(l)' = top
        <3>1. SetOf(l)' = depth
            <4>1. l <= Len(kinds) /\ l <= Len(kinds') /\ l \in 1 .. l
                BY <1>5, <1>6
            <4>2. SetOf(l)' = SetOf(l)
                BY <4>1, <2>1, <2>5, <1>3, <1>6, SetsStay
            <4> QED BY <4>2, <1>8
        <3>2. kinds'[l] = "object" /\ l # Outside'
            BY <1>1, <1>5, <1>6
        <3>3. PlacesOf(l)' = sets[depth] \union {place}
            BY <3>1, <3>2, <2>4 DEF PlacesOf
        <3>4. NamesOf(l)' = {TextIn(memory', p) : p \in PlacesOf(l)'}
            BY <2>2, <1>5, <1>6 DEF Shape, Text
        <3>5. NamesOf(l)' = NamesOf(l) \union {n}
            BY <3>3, <3>4, <1>4, <1>9, <1>10
        <3> QED BY <3>5, <2>6, <1>1 DEF ItemOf
    <2>9. Abstract!Named(Abstract!Begun, n) = [AbstractOpen EXCEPT ![l] = top]
        BY <1>5, TopBegun
    <2> HIDE DEF top
    <2>10. PICK e : e = top
        OBVIOUS
    <2>11. AbstractOpen' = [AbstractOpen EXCEPT ![l] = e]
        <3>1. ItemOf(l)' = e
            BY <2>8, <2>10
        <3> QED BY <3>1, <2>2, <2>7, <1>5, <1>6, TopChanged
    <2>12. AbstractOpen' = Abstract!Named(Abstract!Begun, n)
        BY <2>9, <2>10, <2>11
    <2> QED BY <2>3, <2>12, <1>3, <1>11, <1>12, <1>13, <1>15 DEF Abstract!Counts
<1> QED BY <1>14, <1>15

LEMMA NameMapped == ASSUME IInv, NEW n \in Names, MemberName(n), IInv' PROVE Abstract!Name(n)
<1>1. /\ Takes /\ next = "item" /\ kinds # << >> /\ kinds[Len(kinds)] = "object"
      /\ next' = "value" /\ token' = n /\ UNCHANGED <<had, result>>
    BY DEF MemberName, IInv, Control
<1>2. Abstract!Reading /\ Abstract!Top.kind = "object"
    BY <1>1, ReadingMapped
<1>3. CASE leaf = 0
    <2>1. /\ AbstractOpen' = AbstractOpen /\ LeafNames' = LeafNames
          /\ ReadName' = n /\ repeated' = repeated /\ Abstract!Writes(<< >>)
        BY <1>1, <1>3, NameOutside
    <2>2. ~Abstract!InLeaf(AbstractOpen)
        BY <1>1, <1>3, NotInLeaf
    <2> QED BY <2>1, <2>2, <1>1, <1>2 DEF Abstract!Name, ReadName, LeafNames
<1>4. CASE leaf # 0
    <2>1. leaf > 0
        BY <1>1, <1>4, Numbers
    <2>2. /\ repeated' <=> n \in Abstract!Top.names
          /\ repeated' \in BOOLEAN
          /\ Abstract!Writes(Abstract!Comma(Abstract!Top.begun) \o <<n, "colon">>)
          /\ Abstract!Counts(Abstract!Named(Abstract!Begun, n))
          /\ LeafNames' = (IF repeated' THEN {} ELSE LeafNames)
          /\ ReadName' = ReadName
        BY <2>1, <1>1, NameInside
    <2>3. Abstract!InLeaf(AbstractOpen)
        BY <2>1, <1>1, NotInLeaf
    <2> QED BY <2>2, <2>3, <1>1, <1>2 DEF Abstract!Name, ReadName, LeafNames
<1> QED BY <1>3, <1>4

LEMMA StepMapped == IInv /\ [Next]_vars /\ IInv' => [Abstract!Next]_(Abstract!vars)
<1> SUFFICES ASSUME IInv, [Next]_vars, IInv'
             PROVE  [Abstract!Next]_(Abstract!vars)
    OBVIOUS
<1>1. CASE Scalar
    BY <1>1, ScalarMapped DEF Abstract!Next
<1>2. CASE OpenArray
    BY <1>2, OpenArrayMapped DEF Abstract!Next
<1>3. CASE OpenObject
    BY <1>3, OpenObjectMapped DEF Abstract!Next
<1>4. CASE CloseContainer
    BY <1>4, CloseMapped DEF Abstract!Next
<1>5. CASE NoObject
    BY <1>5, NoObjectMapped DEF Abstract!Next
<1>6. CASE End
    BY <1>6, EndMapped DEF Abstract!Next
<1>7. CASE Rest
    BY <1>7, RestMapped DEF Abstract!Next
<1>8. ASSUME NEW n \in Names, MemberName(n)
      PROVE  Abstract!Next
    BY <1>8, NameMapped DEF Abstract!Next
<1>9. ASSUME NEW t \in {"bad", "openArray", "openObject"}, Fault(t)
      PROVE  Abstract!Next
    BY <1>9, FaultMapped DEF Abstract!Next
<1>10. CASE UNCHANGED vars
    BY <1>10, StutterMapped
<1> QED BY <1>1, <1>2, <1>3, <1>4, <1>5, <1>6, <1>7, <1>8, <1>9, <1>10 DEF Next

\* A repeated member or leaf name is found where it is, though the names of the objects
\* outside the leaves are kept only from where they can matter on, and the room of those
\* of closed objects is used again; every leaf is written once, with its key and its
\* commas; and a call that fails leaves the Builder as it was: FlattenObject reads and
\* writes as FlatLeaves does, whatever the names, maxFlattenDepth and inlineNames are.
THEOREM Refinement == Spec => ImplementsFlatLeaves
<1>1. Init => Abstract!Init
    BY InitialMapped
<1>2. IInv /\ IInv' /\ [Next]_vars => [Abstract!Next]_(Abstract!vars)
    BY StepMapped
<1> QED BY <1>1, <1>2, Invariance, PTL DEF Spec, ImplementsFlatLeaves, Abstract!Spec
=============================================================================
