-------------------------- MODULE ObjectWalkProofs --------------------------
(***************************************************************************)
(* ObjectWalk for every bound and every set of names: its types, what its  *)
(* stacks hold, and that it implements UniqueNames, that is, that places   *)
(* of an arena whose room is given back and written again are as good as   *)
(* sets of names.                                                          *)
(***************************************************************************)
EXTENDS ObjectWalk, FiniteSetTheorems, SequenceTheorems, TLAPS

\* Names are kept, or will be in the next member's value.
Keeps == mode # "object" /\ ~dup /\ at \in {"start", "members", "value", "closed"}

\* Where the call is and what the walker holds fit each other.
Control ==
    /\ next = "item" => kinds # << >>
    /\ next = "done" => kinds = << >>
    /\ mode = "tokens" => at = "value" /\ names = {}
    /\ mode # "tokens" =>
          /\ at # "start" => maxDepth >= 1
          /\ at \notin {"value", "restValue"} =>
                kinds = << >> /\ next = "value" /\ name = None
          /\ at \in {"value", "restValue"} => name # None
    /\ at = "start" => names = {}
    /\ dup => mode # "object" /\ at \notin {"start", "members", "closed"}
    /\ mode = "tokens" /\ ~dup /\ next = "item" => name = None

Limit == IF WalkerDepth > 0 THEN WalkerDepth ELSE 0

\* The objects among the first k kinds of a stack.
ObjectsOf(stack, k) == Cardinality({j \in 1 .. k : stack[j] = "object"})

\* The sets in use hold places that are written.
Within == \A k \in 1 .. depth : sets[k] \subseteq 1 .. length

\* The stretches of the arena follow one another from its start.
Stretches ==
    /\ Len(marks) = depth
    /\ IF depth = 0 THEN length = 0 ELSE marks[1] = 0
    /\ \A k \in 1 .. depth : /\ marks[k] <= length
                             /\ \A j \in 1 .. k : marks[j] <= marks[k]
                             /\ sets[k] = marks[k] + 1 .. StretchEnd(k)

IInv ==
    /\ TypeOK
    /\ Control
    /\ Len(kinds) <= Limit /\ Len(sets) <= Limit
    /\ Keeps => /\ depth = ObjectsOf(kinds, Len(kinds))
                /\ Within
                /\ mode = "document" => Stretches

-----------------------------------------------------------------------------
(* The objects of a stack of kinds, and the operations on the stacks.      *)

LEMMA Counted ==
    ASSUME NEW stack, NEW k \in Nat
    PROVE  /\ ObjectsOf(stack, k) \in Nat
           /\ ObjectsOf(stack, k) <= k
           /\ k = 0 => ObjectsOf(stack, k) = 0
           /\ IsFiniteSet({j \in 1 .. k : stack[j] = "object"})
<1> DEFINE all == 1 .. k
           some == {j \in all : stack[j] = "object"}
<1>1. IsFiniteSet(all) /\ Cardinality(all) = k
    BY FS_Interval
<1>2. some \in SUBSET all
    OBVIOUS
<1>3. IsFiniteSet(some) /\ Cardinality(some) <= k
    <2> HIDE DEF all, some
    <2> QED BY <1>1, <1>2, FS_Subset
<1>4. Cardinality(some) \in Nat
    BY <1>3, FS_CardinalityType
<1> QED BY <1>3, <1>4 DEF ObjectsOf

\* A container more counts if it is an object.
LEMMA CountedNext ==
    ASSUME NEW stack, NEW k \in Nat
    PROVE  ObjectsOf(stack, k + 1) =
              ObjectsOf(stack, k) + (IF stack[k + 1] = "object" THEN 1 ELSE 0)
<1> DEFINE some == {j \in 1 .. k : stack[j] = "object"}
           more == {j \in 1 .. (k + 1) : stack[j] = "object"}
<1>1. IsFiniteSet(some) /\ Cardinality(some) \in Nat
    BY Counted DEF ObjectsOf
<1>2. k + 1 \notin some
    OBVIOUS
<1>3. CASE stack[k + 1] = "object"
    <2>1. more = some \cup {k + 1}
        BY <1>3
    <2>2. Cardinality(some \cup {k + 1}) = Cardinality(some) + 1
        <3> HIDE DEF some
        <3> QED BY <1>1, <1>2, FS_AddElement
    <2> QED BY <2>1, <2>2, <1>3 DEF ObjectsOf
<1>4. CASE stack[k + 1] # "object"
    <2>1. more = some
        BY <1>4
    <2> QED BY <2>1, <1>1, <1>4 DEF ObjectsOf
<1> QED BY <1>3, <1>4

LEMMA CountedSame ==
    ASSUME NEW one, NEW two, NEW k \in Nat, \A j \in 1 .. k : one[j] = two[j]
    PROVE  ObjectsOf(one, k) = ObjectsOf(two, k)
<1>1. {j \in 1 .. k : one[j] = "object"} = {j \in 1 .. k : two[j] = "object"}
    OBVIOUS
<1> QED BY <1>1 DEF ObjectsOf

LEMMA CountedMore ==
    ASSUME NEW stack, NEW k \in Nat, NEW l \in Nat, k <= l
    PROVE  ObjectsOf(stack, k) <= ObjectsOf(stack, l)
<1> DEFINE some == {j \in 1 .. k : stack[j] = "object"}
           more == {j \in 1 .. l : stack[j] = "object"}
<1>1. IsFiniteSet(more)
    BY Counted
<1>2. some \in SUBSET more
    OBVIOUS
<1> HIDE DEF some, more
<1>3. Cardinality(some) <= Cardinality(more)
    BY <1>1, <1>2, FS_Subset
<1> QED BY <1>3 DEF ObjectsOf, some, more

LEMMA Opens ==
    ASSUME NEW stack \in Seq(Kinds), NEW kind \in Kinds, NEW more, more = Append(stack, kind)
    PROVE  /\ more \in Seq(Kinds) /\ Len(more) = Len(stack) + 1
           /\ more # << >> /\ more[Len(more)] = kind
           /\ \A k \in 1 .. Len(stack) : more[k] = stack[k]
           /\ \A k \in 0 .. Len(stack) : ObjectsOf(more, k) = ObjectsOf(stack, k)
           /\ ObjectsOf(more, Len(more)) =
                 ObjectsOf(stack, Len(stack)) + (IF kind = "object" THEN 1 ELSE 0)
<1>1. Len(stack) \in Nat
    BY LenProperties
<1>2. /\ more \in Seq(Kinds) /\ Len(more) = Len(stack) + 1
      /\ more # << >> /\ more[Len(stack) + 1] = kind
      /\ \A k \in 1 .. Len(stack) : more[k] = stack[k]
    BY AppendProperties
<1>3. \A k \in 0 .. Len(stack) : ObjectsOf(more, k) = ObjectsOf(stack, k)
    <2> TAKE k \in 0 .. Len(stack)
    <2>1. k \in Nat /\ \A j \in 1 .. k : more[j] = stack[j]
        BY <1>1, <1>2
    <2> QED BY <2>1, CountedSame
<1>4. ObjectsOf(more, Len(stack) + 1) =
         ObjectsOf(more, Len(stack)) + (IF more[Len(stack) + 1] = "object" THEN 1 ELSE 0)
    BY <1>1, CountedNext
<1>5. ObjectsOf(more, Len(stack)) = ObjectsOf(stack, Len(stack))
    BY <1>1, <1>3
<1> QED BY <1>2, <1>3, <1>4, <1>5

LEMMA Closes ==
    ASSUME NEW stack \in Seq(Kinds), stack # << >>,
           NEW less, less = SubSeq(stack, 1, Len(stack) - 1)
    PROVE  /\ less \in Seq(Kinds) /\ Len(less) = Len(stack) - 1
           /\ stack[Len(stack)] \in Kinds
           /\ \A k \in 1 .. Len(less) : less[k] = stack[k]
           /\ \A k \in 0 .. Len(less) : ObjectsOf(less, k) = ObjectsOf(stack, k)
           /\ ObjectsOf(stack, Len(stack)) =
                 ObjectsOf(less, Len(less)) + (IF stack[Len(stack)] = "object" THEN 1 ELSE 0)
<1> DEFINE e == Len(stack) - 1
<1>1. e \in Nat /\ Len(stack) = e + 1
    BY EmptySeq, LenProperties
<1>2. \A j \in 1 .. e + 1 : stack[j] \in Kinds
    BY <1>1, ElementOfSeq
<1>3. less = SubSeq(stack, 1, e)
    OBVIOUS
<1> HIDE DEF e
<1>4. less \in Seq(Kinds) /\ Len(less) = e /\ \A k \in 1 .. e : less[k] = stack[k]
    BY <1>1, <1>2, <1>3, SubSeqProperties
<1>5. \A k \in 0 .. e : ObjectsOf(less, k) = ObjectsOf(stack, k)
    <2> TAKE k \in 0 .. e
    <2>1. k \in Nat /\ \A j \in 1 .. k : less[j] = stack[j]
        BY <1>1, <1>4
    <2> QED BY <2>1, CountedSame
<1>6. ObjectsOf(stack, e + 1) =
         ObjectsOf(stack, e) + (IF stack[e + 1] = "object" THEN 1 ELSE 0)
    BY <1>1, CountedNext
<1>7. ObjectsOf(less, e) = ObjectsOf(stack, e)
    BY <1>1, <1>5
<1>8. stack[e + 1] \in Kinds
    BY <1>1, <1>2
<1>9. Len(stack) - 1 = e
    BY DEF e
<1> QED BY <1>1, <1>4, <1>5, <1>6, <1>7, <1>8, <1>9

-----------------------------------------------------------------------------
(* What openObjects and the arena do while names are kept.                 *)

OpenOK ==
    /\ sets \in Seq(SUBSET Nat) /\ depth \in 0 .. Len(sets)
    /\ marks \in Seq(Nat)
    /\ arena \in Seq(Names) /\ length \in 0 .. Len(arena)

LEMMA OpenNumbers ==
    ASSUME OpenOK
    PROVE  /\ Len(sets) \in Nat /\ depth \in Nat /\ depth <= Len(sets)
           /\ Len(marks) \in Nat /\ \A k \in 1 .. Len(marks) : marks[k] \in Nat
           /\ Len(arena) \in Nat /\ length \in Nat /\ length <= Len(arena)
           /\ \A k \in 1 .. Len(sets) : sets[k] \in SUBSET Nat
<1>1. Len(sets) \in Nat /\ Len(marks) \in Nat /\ Len(arena) \in Nat
    BY LenProperties DEF OpenOK
<1>2. \A k \in 1 .. Len(marks) : marks[k] \in Nat
    BY ElementOfSeq DEF OpenOK
<1>3. \A k \in 1 .. Len(sets) : sets[k] \in SUBSET Nat
    BY ElementOfSeq DEF OpenOK
<1> QED BY <1>1, <1>2, <1>3 DEF OpenOK

LEMMA Pushed ==
    ASSUME OpenOK, Within, mode = "document" => Stretches, mode' = mode, Push
    PROVE  /\ OpenOK' /\ Within' /\ (mode = "document" => Stretches)'
           /\ depth' = depth + 1 /\ arena' = arena /\ length' = length
           /\ Len(sets') = IF depth = Len(sets) THEN Len(sets) + 1 ELSE Len(sets)
           /\ \A k \in 1 .. depth : sets'[k] = sets[k]
           /\ sets'[depth + 1] = {}
<1>0. /\ Len(sets) \in Nat /\ depth \in Nat /\ depth <= Len(sets)
      /\ Len(marks) \in Nat /\ \A k \in 1 .. Len(marks) : marks[k] \in Nat
      /\ Len(arena) \in Nat /\ length \in Nat /\ length <= Len(arena)
      /\ \A k \in 1 .. Len(sets) : sets[k] \in SUBSET Nat
    BY OpenNumbers
<1>1. /\ depth' = depth + 1 /\ arena' = arena /\ length' = length
      /\ {} \in SUBSET Nat
    BY <1>0 DEF Push, nested
<1>2. /\ sets' \in Seq(SUBSET Nat)
      /\ Len(sets') = IF depth = Len(sets) THEN Len(sets) + 1 ELSE Len(sets)
      /\ \A k \in 1 .. depth : sets'[k] = sets[k]
      /\ sets'[depth + 1] = {}
    <2>1. CASE depth = Len(sets)
        <3>1. sets' = Append(sets, {})
            BY <1>0, <2>1 DEF Push
        <3> QED BY <1>0, <3>1, <2>1, <1>1, AppendProperties DEF OpenOK
    <2>2. CASE depth # Len(sets)
        <3>1. sets' = [sets EXCEPT ![depth + 1] = {}]
            BY <1>0, <2>2 DEF Push
        <3>2. depth + 1 \in 1 .. Len(sets)
            BY <1>0, <2>2
        <3> QED BY <1>0, <3>1, <3>2, <2>2, <1>1, ExceptSeq DEF OpenOK
    <2> QED BY <1>0, <2>1, <2>2
<1>3. marks' \in Seq(Nat)
    BY <1>0, AppendProperties DEF Push, OpenOK
<1>4. OpenOK'
    BY <1>0, <1>1, <1>2, <1>3 DEF OpenOK
<1>5. Within'
    <2> SUFFICES ASSUME NEW k \in 1 .. depth + 1
                 PROVE  sets'[k] \subseteq 1 .. length
        BY <1>1 DEF Within
    <2>1. CASE k = depth + 1
        BY <2>1, <1>2
    <2>2. CASE k # depth + 1
        <3>1. k \in 1 .. depth
            BY <2>2, <1>0
        <3>2. sets[k] \subseteq 1 .. length
            BY <3>1 DEF Within
        <3> QED BY <3>1, <3>2, <1>2
    <2> QED BY <2>1, <2>2
<1>6. ASSUME mode = "document"
      PROVE  Stretches'
    <2>1. /\ Len(marks) = depth
          /\ marks' = Append(marks, length)
        BY <1>0, <1>6 DEF Push, Stretches
    <2>2. /\ Len(marks') = depth + 1
          /\ marks'[depth + 1] = length
          /\ \A k \in 1 .. depth : marks'[k] = marks[k]
        BY <1>0, <2>1, AppendProperties DEF OpenOK
    <2>3. marks'[1] = 0
        BY <1>0, <1>6, <2>2 DEF Stretches
    <2>4. ASSUME NEW k \in 1 .. (depth + 1)
          PROVE  /\ marks'[k] <= length'
                 /\ \A j \in 1 .. k : marks'[j] <= marks'[k]
                 /\ sets'[k] = marks'[k] + 1 .. StretchEnd(k)'
        <3>1. CASE k = depth + 1
            <4>1. StretchEnd(k)' = length
                BY <1>0, <3>1, <1>1 DEF StretchEnd
            <4>2. \A j \in 1 .. depth : marks[j] <= length
                BY <1>0, <1>6 DEF Stretches
            <4> QED BY <1>0, <4>1, <4>2, <3>1, <2>2, <1>1, <1>2, SMTT(30)
        <3>2. CASE k \in 1 .. depth
            <4>1. StretchEnd(k)' = StretchEnd(k)
                BY <1>0, <3>2, <2>2, <1>1 DEF StretchEnd
            <4>2. /\ marks[k] <= length
                  /\ \A j \in 1 .. k : marks[j] <= marks[k]
                  /\ sets[k] = marks[k] + 1 .. StretchEnd(k)
                BY <1>0, <3>2, <1>6 DEF Stretches
            <4> QED BY <1>0, <4>1, <4>2, <3>2, <2>2, <1>1, <1>2
        <3> QED BY <1>0, <3>1, <3>2
    <2> QED BY <1>0, <2>2, <2>3, <2>4, <1>1 DEF Stretches
<1> QED BY <1>0, <1>1, <1>2, <1>4, <1>5, <1>6

LEMMA Popped ==
    ASSUME OpenOK, Within, mode = "document" => Stretches, mode' = mode, depth >= 1, Pop
    PROVE  /\ OpenOK' /\ Within' /\ (mode = "document" => Stretches)'
           /\ depth' = depth - 1 /\ sets' = sets /\ arena' = arena
           /\ length' <= length
<1>0. /\ Len(sets) \in Nat /\ depth \in Nat /\ depth <= Len(sets)
      /\ Len(marks) \in Nat /\ \A k \in 1 .. Len(marks) : marks[k] \in Nat
      /\ Len(arena) \in Nat /\ length \in Nat /\ length <= Len(arena)
      /\ \A k \in 1 .. Len(sets) : sets[k] \in SUBSET Nat
    BY OpenNumbers
<1> DEFINE e == depth - 1
<1>1. /\ depth' = depth - 1 /\ sets' = sets /\ arena' = arena
      /\ e \in Nat /\ depth = e + 1
    BY <1>0 DEF Pop
<1>2. CASE mode # "document"
    <2>1. length' = length /\ marks' = marks
        BY <1>0, <1>2 DEF Pop
    <2>2. OpenOK'
        BY <1>0, <2>1, <1>1 DEF OpenOK
    <2>3. Within'
        BY <1>0, <2>1, <1>1 DEF Within
    <2> QED BY <1>0, <1>1, <1>2, <2>1, <2>2, <2>3
<1>3. CASE mode = "document"
    <2>1. /\ Len(marks) = depth /\ marks[1] = 0
          /\ \A k \in 1 .. depth : /\ marks[k] <= length
                                   /\ \A j \in 1 .. k : marks[j] <= marks[k]
                                   /\ sets[k] = marks[k] + 1 .. StretchEnd(k)
        BY <1>0, <1>3 DEF Stretches
    <2>2. length' = marks[depth] /\ marks' = SubSeq(marks, 1, e)
        BY <1>0, <1>3, <2>1 DEF Pop
    <2>3. marks[depth] <= length /\ marks[depth] \in Nat
        BY <1>0, <2>1 DEF StretchEnd
    <2> HIDE DEF e
    <2>4. /\ marks' \in Seq(Nat) /\ Len(marks') = e
          /\ \A k \in 1 .. e : marks'[k] = marks[k]
        <3>1. \A k \in 1 .. e : marks[k] \in Nat
            BY <1>0, <1>1, <2>1
        <3> QED BY <1>0, <3>1, <2>2, <1>1, SubSeqProperties
    <2>5. OpenOK'
        BY <1>0, <1>1, <2>2, <2>3, <2>4 DEF OpenOK
    <2>6. \A k \in 1 .. e : StretchEnd(k)' = StretchEnd(k)
        BY <1>0, <1>1, <2>2, <2>4 DEF StretchEnd
    <2>7. depth' = e
        BY <1>0, <1>1 DEF e
    <2>8. Stretches'
        <3>1. IF depth' = 0 THEN length' = 0 ELSE marks'[1] = 0
            BY <1>0, <1>1, <2>1, <2>2, <2>4, <2>7
        <3>2. \A k \in 1 .. e : /\ marks'[k] <= length'
                                /\ \A j \in 1 .. k : marks'[j] <= marks'[k]
                                /\ sets'[k] = marks'[k] + 1 .. StretchEnd(k)'
            <4> TAKE k \in 1 .. e
            <4>1. k \in 1 .. depth /\ \A j \in 1 .. k : j \in 1 .. e /\ j \in 1 .. depth
                BY <1>0, <1>1
            <4>2. marks[k] <= length'
                <5>1. \A j \in 1 .. depth : marks[j] <= marks[depth]
                    BY <1>0, <2>1
                <5> QED BY <5>1, <4>1, <2>2
            <4>3. marks'[k] = marks[k] /\ StretchEnd(k)' = StretchEnd(k) /\ sets' = sets
                BY <1>1, <2>4, <2>6
            <4>4. \A j \in 1 .. k : marks'[j] <= marks'[k]
                BY <4>1, <2>1, <2>4
            <4>5. sets[k] = marks[k] + 1 .. StretchEnd(k)
                BY <4>1, <2>1
            <4> QED BY <4>2, <4>3, <4>4, <4>5
        <3> QED BY <1>0, <3>1, <3>2, <2>4, <2>7 DEF Stretches
    <2>9. Within'
        <3> SUFFICES ASSUME NEW k \in 1 .. e
                     PROVE  sets[k] \subseteq 1 .. length'
            BY <1>0, <1>1, <2>7 DEF Within
        <3>1. sets[k] = marks[k] + 1 .. StretchEnd(k)
            BY <1>0, <1>1, <2>1
        <3>2. StretchEnd(k) = marks[k + 1] /\ marks[k] \in Nat
            BY <1>0, <1>1, <2>1 DEF StretchEnd
        <3>3. marks[k + 1] <= marks[depth]
            BY <1>0, <1>1, <2>1
        <3>4. marks[k + 1] \in Nat /\ marks[k + 1] <= length'
            BY <1>0, <1>1, <2>1, <2>2, <3>3
        <3> QED BY <3>1, <3>2, <3>4, <2>2, <2>3
    <2> QED BY <1>0, <1>1, <2>2, <2>3, <2>5, <2>8, <2>9
<1> QED BY <1>0, <1>2, <1>3

\* Carving a name leaves those before it, and overwrites what was given back.
LEMMA Carved ==
    ASSUME OpenOK, NEW n \in Names,
           arena' = SubSeq(arena, 1, length) \o <<n>> \o SubSeq(arena, length + 2, Len(arena))
    PROVE  /\ arena' \in Seq(Names)
           /\ length + 1 <= Len(arena')
           /\ \A p \in 1 .. length : arena'[p] = arena[p]
           /\ arena'[length + 1] = n
<1> DEFINE front == SubSeq(arena, 1, length)
           back == SubSeq(arena, length + 2, Len(arena))
           first == front \o <<n>>
<1>1. Len(arena) \in Nat /\ length \in Nat /\ length <= Len(arena)
    BY OpenNumbers
<1>2. \A i \in 1 .. Len(arena) : arena[i] \in Names
    BY ElementOfSeq DEF OpenOK
<1>3. front \in Seq(Names) /\ Len(front) = length /\ \A p \in 1 .. length : front[p] = arena[p]
    BY <1>1, <1>2, SubSeqProperties
<1>4. back \in Seq(Names) /\ Len(back) \in Nat
    <2>1. \A i \in (length + 2) .. Len(arena) : arena[i] \in Names
        BY <1>1, <1>2
    <2>2. back \in Seq(Names)
        BY <2>1, <1>1, SubSeqProperties
    <2> QED BY <2>2, LenProperties
<1>5. <<n>> \in Seq(Names) /\ Len(<<n>>) = 1 /\ <<n>>[1] = n
    OBVIOUS
<1> HIDE DEF front, back
<1>6. /\ first \in Seq(Names) /\ Len(first) = length + 1
      /\ \A p \in 1 .. length : first[p] = arena[p]
      /\ first[length + 1] = n
    <2>1. /\ first \in Seq(Names)
          /\ Len(first) = length + 1
          /\ \A i \in 1 .. length + 1 : first[i] = IF i <= length THEN front[i] ELSE <<n>>[i - length]
        BY <1>3, <1>5, ConcatProperties
    <2> QED BY <2>1, <1>1, <1>3, <1>5
<1> HIDE DEF first
<1> DEFINE whole == first \o back
<1>7. /\ whole \in Seq(Names)
      /\ Len(whole) = Len(first) + Len(back)
      /\ \A i \in 1 .. Len(first) + Len(back) :
            whole[i] = IF i <= Len(first) THEN first[i] ELSE back[i - Len(first)]
    BY <1>4, <1>6, ConcatProperties
<1>8. arena' = whole
    BY DEF first, front, back
<1> HIDE DEF whole
<1>9. /\ length + 1 <= Len(whole)
      /\ \A p \in 1 .. length + 1 : whole[p] = first[p]
    BY <1>1, <1>4, <1>6, <1>7
<1>10. /\ whole \in Seq(Names)
       /\ length + 1 <= Len(whole)
       /\ \A p \in 1 .. length : whole[p] = arena[p]
       /\ whole[length + 1] = n
    BY <1>1, <1>6, <1>7, <1>9
<1> QED BY <1>8, <1>10

\* A name found makes the walk decided; one that is not found joins the last set.
LEMMA Added ==
    ASSUME OpenOK, Within, mode = "document" => Stretches, mode' = mode, depth >= 1, ~dup,
           NEW n \in Names, Add(n)
    PROVE  /\ OpenOK'
           /\ depth' = depth /\ Len(sets') = Len(sets)
           /\ dup' = \E p \in sets[depth] : arena[p] = n
           /\ \A p \in 1 .. length : arena'[p] = arena[p]
           /\ arena'[length + 1] = n
           /\ ~dup' => /\ Within' /\ (mode = "document" => Stretches)'
                       /\ \A k \in 1 .. depth :
                             sets'[k] = IF k = depth THEN sets[k] \union {length + 1} ELSE sets[k]
<1>0. /\ Len(sets) \in Nat /\ depth \in Nat /\ depth <= Len(sets)
      /\ Len(marks) \in Nat /\ \A k \in 1 .. Len(marks) : marks[k] \in Nat
      /\ Len(arena) \in Nat /\ length \in Nat /\ length <= Len(arena)
      /\ \A k \in 1 .. Len(sets) : sets[k] \in SUBSET Nat
    BY OpenNumbers
<1>1. /\ depth' = depth /\ marks' = marks /\ length' = length + 1
      /\ arena' = SubSeq(arena, 1, length) \o <<n>> \o SubSeq(arena, length + 2, Len(arena))
    BY DEF Add
<1>2. /\ arena' \in Seq(Names) /\ length + 1 <= Len(arena')
      /\ \A p \in 1 .. length : arena'[p] = arena[p]
      /\ arena'[length + 1] = n
    BY <1>1, Carved
<1>3. \A p \in sets[depth] : p \in 1 .. length
    BY <1>0 DEF Within
<1>4. (\E p \in sets[depth] : arena'[p] = n) = (\E p \in sets[depth] : arena[p] = n)
    <2>1. \A p \in sets[depth] : arena'[p] = arena[p]
        BY <1>2, <1>3
    <2> QED BY <2>1
<1>7. length' \in 0 .. Len(arena')
    <2>1. Len(arena') \in Nat
        BY <1>2, LenProperties
    <2>2. length' = length + 1 /\ length + 1 <= Len(arena')
        BY <1>1, <1>2
    <2> QED BY <2>1, <2>2, <1>0
<1>5. CASE \E p \in sets[depth] : arena[p] = n
    <2>1. dup' = TRUE /\ sets' = sets
        BY <1>4, <1>5 DEF Add
    <2>2. OpenOK'
        BY <2>1, <1>1, <1>2, <1>7 DEF OpenOK
    <2> QED BY <2>1, <2>2, <1>1, <1>2, <1>5
<1>6. CASE ~ \E p \in sets[depth] : arena[p] = n
    <2>1. dup' = FALSE /\ sets' = [sets EXCEPT ![depth] = sets[depth] \union {length + 1}]
        <3>1. ~ \E p \in sets[depth] : arena'[p] = n
            BY <1>4, <1>6
        <3>2. dup' = dup /\ sets' = [sets EXCEPT ![depth] = sets[depth] \union {length'}]
            BY <3>1 DEF Add
        <3> QED BY <3>2, <1>1
    <2>2. /\ sets' \in Seq(SUBSET Nat) /\ Len(sets') = Len(sets)
          /\ \A k \in 1 .. Len(sets) :
                sets'[k] = IF k = depth THEN sets[depth] \union {length + 1} ELSE sets[k]
        <3>1. depth \in 1 .. Len(sets) /\ sets[depth] \union {length + 1} \in SUBSET Nat
            BY <1>0
        <3>2. sets \in Seq(SUBSET Nat)
            BY DEF OpenOK
        <3> QED BY <2>1, <3>1, <3>2, ExceptSeq
    <2>3. OpenOK'
        BY <2>2, <1>1, <1>2, <1>7 DEF OpenOK
    <2>4. Within'
        <3> SUFFICES ASSUME NEW k \in 1 .. depth
                     PROVE  sets'[k] \subseteq 1 .. (length + 1)
            BY <1>1 DEF Within
        <3>1. sets[k] \subseteq 1 .. length
            BY DEF Within
        <3> QED BY <3>1, <2>2, <1>0
    <2>5. ASSUME mode = "document"
          PROVE  Stretches'
        <3>1. /\ Len(marks) = depth /\ marks[1] = 0
              /\ \A k \in 1 .. depth : /\ marks[k] <= length
                                       /\ \A j \in 1 .. k : marks[j] <= marks[k]
                                       /\ sets[k] = marks[k] + 1 .. StretchEnd(k)
            BY <2>5, <1>0 DEF Stretches
        <3>2. ASSUME NEW k \in 1 .. depth
              PROVE  /\ marks[k] <= length + 1
                     /\ sets'[k] = marks[k] + 1 .. StretchEnd(k)'
            <4>1. marks[k] \in Nat /\ marks[k] <= length
                BY <3>1, <1>0
            <4>2. CASE k = depth
                <5>1. StretchEnd(k)' = length + 1 /\ StretchEnd(k) = length
                    BY <4>2, <1>1 DEF StretchEnd
                <5>2. sets'[k] = (marks[k] + 1 .. length) \union {length + 1}
                    BY <4>2, <5>1, <3>1, <2>2, <1>0
                <5> QED BY <4>1, <5>1, <5>2, <1>0
            <4>3. CASE k # depth
                <5>1. StretchEnd(k)' = StretchEnd(k)
                    BY <4>3, <1>1 DEF StretchEnd
                <5>2. sets'[k] = sets[k]
                    BY <4>3, <2>2, <1>0
                <5>3. sets[k] = marks[k] + 1 .. StretchEnd(k)
                    BY <3>1
                <5>4. marks[k] <= length + 1
                    BY <4>1, <1>0
                <5> QED BY <5>1, <5>2, <5>3, <5>4
            <4>4. marks[k] <= length + 1
                BY <4>1, <1>0
            <4> QED BY <4>2, <4>3, <4>4
        <3>3. \A k \in 1 .. depth : \A j \in 1 .. k : marks[j] <= marks[k]
            BY <3>1
        <3>4. Len(marks) = depth /\ marks[1] = 0 /\ depth # 0
            BY <3>1, <1>0
        <3> QED BY <3>2, <3>3, <3>4, <1>1 DEF Stretches
    <2>6. (mode = "document" => Stretches)'
        BY <2>5
    <2>7. \A k \in 1 .. depth :
             sets'[k] = IF k = depth THEN sets[k] \union {length + 1} ELSE sets[k]
        <3> TAKE k \in 1 .. depth
        <3>1. k \in 1 .. Len(sets)
            BY <1>0
        <3> QED BY <3>1, <2>2
    <2>8. depth' = depth /\ dup' = FALSE /\ Len(sets') = Len(sets)
        BY <2>1, <2>2, <1>1
    <2> QED BY <2>3, <2>4, <2>6, <2>7, <2>8, <1>2, <1>6
<1> QED BY <1>5, <1>6

-----------------------------------------------------------------------------
(* The steps keep the invariant.                                           *)

LEMMA Numbers ==
    ASSUME IInv
    PROVE  /\ OpenOK /\ maxDepth \in Int /\ WalkerDepth \in Int /\ Limit \in Nat
           /\ WalkerDepth <= Limit
           /\ kinds \in Seq(Kinds) /\ Len(kinds) \in Nat
           /\ (kinds # << >> => Len(kinds) >= 1 /\ kinds[Len(kinds)] \in Kinds)
           /\ ObjectsOf(kinds, Len(kinds)) \in Nat
           /\ ObjectsOf(kinds, Len(kinds)) <= Len(kinds)
<1>1. OpenOK /\ maxDepth \in Int /\ kinds \in Seq(Kinds)
    BY ObjectWalkAssumption DEF IInv, TypeOK, OpenOK
<1>2. WalkerDepth \in Int /\ Limit \in Nat /\ WalkerDepth <= Limit
    BY <1>1 DEF WalkerDepth, Limit
<1>3. Len(kinds) \in Nat /\ (kinds # << >> => Len(kinds) >= 1)
    BY <1>1, LenProperties, EmptySeq
<1>4. kinds # << >> => kinds[Len(kinds)] \in Kinds
    BY <1>1, <1>3, ElementOfSeq
<1>5. /\ ObjectsOf(kinds, Len(kinds)) \in Nat
      /\ ObjectsOf(kinds, Len(kinds)) <= Len(kinds)
    BY <1>3, Counted
<1> QED BY <1>1, <1>2, <1>3, <1>4, <1>5

\* In a value, the names that are kept are being filed.
LEMMA FilesIs == ASSUME IInv, at \in {"value", "restValue"} PROVE Files = Keeps
BY DEF Files, Keeps

LEMMA Initial == Init => IInv
<1> SUFFICES ASSUME Init
             PROVE  IInv
    OBVIOUS
<1>1. /\ << >> \in Seq(Kinds) /\ << >> \in Seq(SUBSET Nat) /\ << >> \in Seq(Nat)
      /\ << >> \in Seq(Names) /\ Len(<< >>) = 0
    BY EmptySeq
<1>2. TypeOK
    <2>1. /\ at \in {"start", "members", "value", "closed", "rest", "restValue", "restClosed"}
          /\ next \in {"value", "item", "done"}
        BY DEF Init
    <2>2. depth \in 0 .. Len(sets) /\ length \in 0 .. Len(arena)
        BY <1>1 DEF Init
    <2>3. /\ sets \in Seq(SUBSET Nat) /\ marks \in Seq(Nat)
          /\ arena \in Seq(Names) /\ kinds \in Seq(Kinds)
        BY <1>1 DEF Init
    <2> QED BY <2>1, <2>2, <2>3 DEF Init, TypeOK
<1>3. Control
    BY DEF Init, Control
<1>4. ObjectsOf(kinds, Len(kinds)) = 0
    BY <1>1, Counted DEF Init
<1>5. Len(kinds) <= Limit /\ Len(sets) <= Limit
    BY <1>1, <1>2, ObjectWalkAssumption DEF Init, TypeOK, Limit, WalkerDepth
<1>6. depth = 0 /\ length = 0 /\ Len(marks) = 0
    BY <1>1 DEF Init
<1>7. Within /\ Stretches
    BY <1>6 DEF Within, Stretches
<1> QED BY <1>2, <1>3, <1>4, <1>5, <1>6, <1>7 DEF IInv

\* A step that leaves the stacks and the walker's as they are, and the names kept or not.
LEMMA QuietStep ==
    ASSUME IInv, UNCHANGED <<call, kinds, open, nested, dup>>, Control',
           Keeps' => Keeps, TypeOK'
    PROVE  IInv'
<1> USE DEF call, open, nested
<1>1. Limit' = Limit
    BY DEF Limit, WalkerDepth
<1>2. Within => Within'
    BY DEF Within
<1>3. Stretches => Stretches'
    BY DEF Stretches, StretchEnd
<1>4. Len(kinds') <= Limit' /\ Len(sets') <= Limit'
    BY <1>1 DEF IInv
<1>5. Keeps' => /\ depth' = ObjectsOf(kinds', Len(kinds'))
                /\ Within'
                /\ mode' = "document" => Stretches'
    BY <1>2, <1>3 DEF IInv
<1> QED BY <1>4, <1>5 DEF IInv

\* The controls are a matter of cases.
LEMMA ItemStep == ASSUME IInv, NEW t \in Names \union {"scalar"}, Item(t) PROVE IInv'
<1>1. TypeOK'
    BY DEF IInv, TypeOK, Item, AroundOf, Emit, call, open, nested
<1>2. Control'
    BY DEF IInv, Control, Item, AroundOf, Emit, Walks, ValueNext, call, open, nested, Files
<1>3. Keeps' => Keeps
    BY DEF Item, Keeps, call
<1> QED BY <1>1, <1>2, <1>3, QuietStep DEF Item

\* A token may be told, and the call may end with it.
LEMMA Emits ==
    ASSUME TypeOK, NEW t, Emit(t)
    PROVE  /\ name' \in Names \union {None}
           /\ result' \in {"reading", "nil", "malformed", "duplicate", "callback"}
           /\ mode # "tokens" => name' = name
           /\ mode = "tokens" /\ Files => name' = None
BY DEF Emit, TypeOK

\* What is left of a step in a value, once the stacks are followed.
LEMMA StackStep ==
    ASSUME IInv, Walks, UNCHANGED <<mode, maxDepth, at, names>>,
           kinds' \in Seq(Kinds), Len(kinds') <= Limit, Len(sets') <= Limit,
           OpenOK', Control', next' \in {"value", "item", "done"}, dup' \in BOOLEAN,
           name' \in Names \union {None},
           result' \in {"reading", "nil", "malformed", "duplicate", "callback"},
           Keeps' => /\ depth' = ObjectsOf(kinds', Len(kinds'))
                     /\ Within'
                     /\ (mode = "document" => Stretches)'
    PROVE  IInv'
<1>1. TypeOK'
    BY DEF IInv, TypeOK, OpenOK
<1>2. Limit' = Limit
    BY DEF Limit, WalkerDepth
<1> QED BY <1>1, <1>2 DEF IInv

LEMMA OpenStep ==
    ASSUME IInv, NEW kind \in Kinds, OpenContainer(kind)
    PROVE  IInv'
<1>0. /\ OpenOK /\ Limit \in Nat /\ WalkerDepth <= Limit /\ WalkerDepth \in Int
      /\ kinds \in Seq(Kinds) /\ Len(kinds) \in Nat
      /\ ObjectsOf(kinds, Len(kinds)) <= Len(kinds)
      /\ ObjectsOf(kinds, Len(kinds)) \in Nat
    BY Numbers
<1>1. /\ Walks /\ ValueNext /\ Len(kinds) < WalkerDepth
      /\ kinds' = Append(kinds, kind) /\ next' = "item"
      /\ mode' = mode /\ maxDepth' = maxDepth
      /\ UNCHANGED <<at, dup, names>>
      /\ Emit(Opener[kind])
      /\ at \in {"value", "restValue"}
    BY DEF OpenContainer, call, Walks
<1>2. /\ kinds' \in Seq(Kinds) /\ Len(kinds') = Len(kinds) + 1 /\ kinds' # << >>
      /\ ObjectsOf(kinds', Len(kinds')) =
            ObjectsOf(kinds, Len(kinds)) + (IF kind = "object" THEN 1 ELSE 0)
    <2>1. kinds \in Seq(Kinds) /\ kind \in Kinds /\ kinds' = Append(kinds, kind)
        BY <1>0, <1>1
    <2> QED BY <2>1, Opens, ZenonT(40)
<1>3. Len(kinds') <= Limit
    BY <1>0, <1>1, <1>2
<1>4. /\ name' \in Names \union {None}
      /\ result' \in {"reading", "nil", "malformed", "duplicate", "callback"}
      /\ mode # "tokens" => name' = name
      /\ mode = "tokens" /\ Files => name' = None
    BY <1>1, Emits DEF IInv
<1>5. Control'
    BY <1>1, <1>2, <1>4 DEF IInv, Control, Files
<1>8. next' \in {"value", "item", "done"} /\ dup' \in BOOLEAN
    BY <1>1 DEF IInv, TypeOK, AroundOf
<1>6. CASE kind = "object" /\ Files
    <2>1. Push
        BY <1>6 DEF OpenContainer
    <2>2. /\ Keeps /\ Within /\ (mode = "document" => Stretches)
          /\ depth = ObjectsOf(kinds, Len(kinds))
        BY <1>6 DEF Files, Keeps, IInv
    <2>3. /\ OpenOK' /\ Within' /\ (mode = "document" => Stretches)'
          /\ depth' = depth + 1
          /\ Len(sets') = IF depth = Len(sets) THEN Len(sets) + 1 ELSE Len(sets)
        BY <1>0, <1>1, <2>1, <2>2, Pushed
    <2>4. Len(sets') <= Limit
        BY <1>0, <1>1, <2>2, <2>3 DEF IInv
    <2> QED BY <1>1, <1>2, <1>3, <1>4, <1>5, <1>6, <2>2, <2>3, <2>4, StackStep DEF IInv, TypeOK
<1>7. CASE ~(kind = "object" /\ Files)
    <2>1. UNCHANGED <<sets, depth, marks, arena, length>>
        BY <1>7 DEF OpenContainer, open, nested
    <2>2. OpenOK' /\ (Within => Within') /\ (Stretches => Stretches')
        BY <2>1, <1>0 DEF OpenOK, Within, Stretches, StretchEnd
    <2>3. Keeps' => Keeps /\ kind # "object"
        BY <1>1, <1>7, FilesIs DEF Keeps, Files
    <2>4. Len(sets') <= Limit
        BY <2>1 DEF IInv
    <2>5. Keeps' => /\ depth' = ObjectsOf(kinds', Len(kinds'))
                    /\ Within'
                    /\ (mode = "document" => Stretches)'
        BY <1>0, <1>1, <1>2, <2>1, <2>2, <2>3 DEF IInv
    <2> QED BY <1>1, <1>2, <1>3, <1>4, <1>5, <1>8, <2>2, <2>4, <2>5, StackStep
<1> QED BY <1>6, <1>7

LEMMA CloseStep == ASSUME IInv, CloseContainer PROVE IInv'
<1>1. /\ Walks /\ next = "item"
      /\ kinds' = SubSeq(kinds, 1, Len(kinds) - 1) /\ next' = AroundOf(kinds')
      /\ mode' = mode /\ maxDepth' = maxDepth
      /\ UNCHANGED <<at, dup, names>>
      /\ Emit(Closer[kinds[Len(kinds)]])
      /\ at \in {"value", "restValue"}
    BY DEF CloseContainer, call, Walks
<1>0. /\ OpenOK /\ Limit \in Nat
      /\ kinds \in Seq(Kinds) /\ Len(kinds) \in Nat /\ kinds # << >>
    BY <1>1, Numbers DEF IInv, Control
<1>2. /\ kinds' \in Seq(Kinds) /\ Len(kinds') = Len(kinds) - 1
      /\ ObjectsOf(kinds, Len(kinds)) =
            ObjectsOf(kinds', Len(kinds')) + (IF kinds[Len(kinds)] = "object" THEN 1 ELSE 0)
    BY <1>0, <1>1, Closes
<1>3. /\ Len(kinds') <= Limit
      /\ Len(kinds') \in Nat /\ ObjectsOf(kinds', Len(kinds')) \in Nat
    <2>1. Len(kinds') \in Nat
        BY <1>2, LenProperties
    <2>2. ObjectsOf(kinds', Len(kinds')) \in Nat
        BY <2>1, Counted
    <2>3. Len(kinds) <= Limit
        BY DEF IInv
    <2> QED BY <2>1, <2>2, <2>3, <1>0, <1>2
<1>4. /\ name' \in Names \union {None}
      /\ result' \in {"reading", "nil", "malformed", "duplicate", "callback"}
      /\ mode # "tokens" => name' = name
      /\ mode = "tokens" /\ Files => name' = None
    BY <1>1, Emits DEF IInv
<1>5. Control'
    BY <1>1, <1>4 DEF IInv, Control, Files, AroundOf
<1>8. next' \in {"value", "item", "done"} /\ dup' \in BOOLEAN
    BY <1>1 DEF IInv, TypeOK, AroundOf
<1>6. CASE kinds[Len(kinds)] = "object" /\ Files
    <2>1. Pop
        BY <1>6 DEF CloseContainer
    <2>2. /\ Keeps /\ Within /\ (mode = "document" => Stretches)
          /\ depth = ObjectsOf(kinds, Len(kinds))
        BY <1>6 DEF Files, Keeps, IInv
    <2>3. depth >= 1 /\ depth - 1 = ObjectsOf(kinds', Len(kinds'))
        BY <1>2, <1>3, <1>6, <2>2
    <2>4. /\ OpenOK' /\ Within' /\ (mode = "document" => Stretches)'
          /\ depth' = depth - 1 /\ sets' = sets
        BY <1>0, <1>1, <2>1, <2>2, <2>3, Popped
    <2>5. Len(sets') <= Limit
        BY <2>4 DEF IInv
    <2> QED BY <1>1, <1>2, <1>3, <1>4, <1>5, <1>8, <2>3, <2>4, <2>5, StackStep
<1>7. CASE ~(kinds[Len(kinds)] = "object" /\ Files)
    <2>1. UNCHANGED <<sets, depth, marks, arena, length>>
        BY <1>7 DEF CloseContainer, open, nested
    <2>2. OpenOK' /\ (Within => Within') /\ (Stretches => Stretches')
        BY <2>1, <1>0 DEF OpenOK, Within, Stretches, StretchEnd
    <2>3. Keeps' => Keeps /\ kinds[Len(kinds)] # "object"
        BY <1>1, <1>7, FilesIs DEF Keeps, Files
    <2>4. Len(sets') <= Limit
        BY <2>1 DEF IInv
    <2>5. Keeps' => /\ depth' = ObjectsOf(kinds', Len(kinds'))
                    /\ Within'
                    /\ (mode = "document" => Stretches)'
        <3> SUFFICES ASSUME Keeps'
                     PROVE  /\ depth' = ObjectsOf(kinds', Len(kinds'))
                            /\ Within'
                            /\ (mode = "document" => Stretches)'
            OBVIOUS
        <3>1. Keeps /\ kinds[Len(kinds)] # "object"
            BY <2>3
        <3>2. ObjectsOf(kinds, Len(kinds)) = ObjectsOf(kinds', Len(kinds'))
            BY <3>1, <1>2, <1>3
        <3>3. depth = ObjectsOf(kinds, Len(kinds)) /\ Within /\ (mode = "document" => Stretches)
            BY <3>1 DEF IInv
        <3> QED BY <3>2, <3>3, <1>1, <2>1, <2>2
    <2> QED BY <1>1, <1>2, <1>3, <1>4, <1>5, <1>8, <2>2, <2>4, <2>5, StackStep
<1> QED BY <1>6, <1>7

LEMMA NameStep == ASSUME IInv, NEW n \in Names, MemberName(n) PROVE IInv'
<1>1. /\ Walks /\ next = "item" /\ kinds[Len(kinds)] = "object" /\ next' = "value"
      /\ mode' = mode /\ maxDepth' = maxDepth
      /\ UNCHANGED <<at, kinds, names, result>>
      /\ name' = IF mode = "tokens" /\ Files THEN n ELSE name
      /\ at \in {"value", "restValue"}
    BY DEF MemberName, call, Walks
<1>0. /\ OpenOK /\ kinds \in Seq(Kinds) /\ Len(kinds) \in Nat /\ Len(kinds) >= 1
    BY <1>1, Numbers DEF IInv, Control
<1>2. /\ kinds' = kinds
      /\ name' \in Names \union {None}
      /\ result' \in {"reading", "nil", "malformed", "duplicate", "callback"}
    BY <1>1 DEF IInv, TypeOK
<1>3. CASE Files
    <2>1. Add(n) /\ ~dup /\ mode # "object" /\ at = "value"
        BY <1>3 DEF MemberName, Files
    <2>2. /\ Keeps /\ Within /\ (mode = "document" => Stretches)
          /\ depth = ObjectsOf(kinds, Len(kinds))
        BY <1>3 DEF Files, Keeps, IInv
    <2>3. depth >= 1
        <3> DEFINE e == Len(kinds) - 1
        <3>1. e \in Nat /\ Len(kinds) = e + 1
            BY <1>0
        <3> HIDE DEF e
        <3>2. ObjectsOf(kinds, e + 1) = ObjectsOf(kinds, e) + 1 /\ ObjectsOf(kinds, e) \in Nat
            BY <3>1, <1>1, CountedNext, Counted
        <3> QED BY <3>1, <3>2, <2>2
    <2>4. /\ OpenOK' /\ depth' = depth /\ Len(sets') = Len(sets)
          /\ dup' = (\E p \in sets[depth] : arena[p] = n)
          /\ ~dup' => Within' /\ (mode = "document" => Stretches)'
        BY <1>0, <1>1, <2>1, <2>2, <2>3, Added
    <2>5. dup' \in BOOLEAN /\ (Keeps' => ~dup')
        BY <2>4 DEF Keeps
    <2>6. Control'
        BY <1>1, <2>1 DEF IInv, Control
    <2> QED BY <1>0, <1>1, <1>2, <2>2, <2>4, <2>5, <2>6, StackStep DEF IInv, TypeOK, MemberName
<1>4. CASE ~Files
    <2>1. UNCHANGED <<call, kinds, open, nested, dup>>
        BY <1>4 DEF MemberName
    <2>2. TypeOK'
        BY <2>1, <1>1, <1>2 DEF IInv, TypeOK, call, open, nested
    <2>3. Control'
        BY <2>1, <1>1, <1>4 DEF IInv, Control, Files
    <2>4. Keeps' => Keeps
        BY <2>1, <1>1 DEF Keeps
    <2> QED BY <2>1, <2>2, <2>3, <2>4, QuietStep
<1> QED BY <1>3, <1>4

LEMMA StepInvariant == IInv /\ [Next]_vars => IInv'
<1> SUFFICES ASSUME IInv, [Next]_vars
             PROVE  IInv'
    OBVIOUS
<1> USE DEF call, open, nested, walker
<1>1. CASE TooShallow
    BY <1>1, QuietStep DEF TooShallow, Keeps, IInv, TypeOK, Control
<1>2. CASE OpenDocument
    BY <1>2, QuietStep DEF OpenDocument, Keeps, IInv, TypeOK, Control
<1>3. CASE CloseDocument
    BY <1>3, QuietStep DEF CloseDocument, Keeps, IInv, TypeOK, Control
<1>4. CASE CloseContainer
    BY <1>4, CloseStep
<1>5. CASE EndOfValue
    BY <1>5, QuietStep DEF EndOfValue, Keeps, IInv, TypeOK, Control
<1>6. CASE End
    BY <1>6, QuietStep DEF End, Keeps, IInv, TypeOK, Control
<1>7. CASE Fault
    BY <1>7, QuietStep DEF Fault, Keeps, IInv, TypeOK, Control
<1>8. ASSUME NEW n \in Names, MemberName(n)
      PROVE  IInv'
    BY <1>8, NameStep
<1>9. ASSUME NEW n \in Names, DocumentMember(n) \/ RestMember(n)
      PROVE  IInv'
    <2>1. kinds' = kinds /\ UNCHANGED <<call, open, nested, dup>> /\ (Keeps' => Keeps)
        BY <1>9 DEF DocumentMember, RestMember, StartsMember, Keeps, IInv, Control, TypeOK
    <2>2. TypeOK'
        BY <1>9 DEF DocumentMember, RestMember, StartsMember, IInv, Control, TypeOK
    <2>3. Control'
        BY <1>9, ObjectWalkAssumption
        DEF DocumentMember, RestMember, StartsMember, IInv, Control, TypeOK
    <2> QED BY <2>1, <2>2, <2>3, QuietStep
<1>10. ASSUME NEW t \in Names \union {"scalar"}, Item(t)
       PROVE  IInv'
    BY <1>10, ItemStep
<1>11. ASSUME NEW kind \in Kinds, OpenContainer(kind)
       PROVE  IInv'
    BY <1>11, OpenStep
<1>12. ASSUME NEW kind \in Kinds, TooDeep(kind)
       PROVE  IInv'
    BY <1>12, QuietStep DEF TooDeep, Keeps, IInv, TypeOK, Control
<1>13. CASE UNCHANGED vars
    BY <1>13, QuietStep DEF vars, Keeps, IInv, TypeOK, Control
<1> QED BY <1>1, <1>2, <1>3, <1>4, <1>5, <1>6, <1>7, <1>8, <1>9, <1>10, <1>11, <1>12, <1>13
        DEF Next

\* The invariant, for every bound and every set of names.
THEOREM Invariance == Spec => []IInv
BY Initial, StepInvariant, PTL DEF Spec

\* While names are kept, the sets in use are those of the open objects, and in
\* IterateDocument the names of each take the stretch of the arena from its mark to the
\* next: pushSet, pop and rewind keep them in step for every document.
THEOREM StacksFollow == Spec => []Stacked
<1>1. IInv => Stacked
    <2> SUFFICES ASSUME IInv
                 PROVE  Stacked
        OBVIOUS
    <2>1. TypeOK /\ Len(sets) <= IF WalkerDepth > 0 THEN WalkerDepth ELSE 0
        BY DEF IInv, Limit
    <2>2. ASSUME Files
          PROVE  /\ depth = Objects(Len(kinds))
                 /\ mode = "document" =>
                       /\ Len(marks) = depth
                       /\ depth = 0 => length = 0
                       /\ \A k \in 1 .. depth : sets[k] = marks[k] + 1 .. StretchEnd(k)
        BY <2>2 DEF IInv, Files, Keeps, Objects, ObjectsOf, Stretches
    <2> QED BY <2>1, <2>2 DEF Stacked
<1> QED BY <1>1, Invariance, PTL

-----------------------------------------------------------------------------
(* ObjectWalk implements UniqueNames.                                      *)

Container == [kind : Kinds, names : SUBSET Names]

\* How many containers are open outside the walker.
Base == IF mode # "tokens" /\ at \in {"members", "value", "rest", "restValue"} THEN 1 ELSE 0

\* An object has a set of its own, and the last one has the last set.
LEMMA ObjectRange ==
    ASSUME NEW stack, NEW l \in Nat, NEW k \in 1 .. l, stack[k] = "object"
    PROVE  /\ ObjectsOf(stack, k) \in 1 .. ObjectsOf(stack, l)
           /\ stack[l] = "object" /\ k # l => ObjectsOf(stack, k) < ObjectsOf(stack, l)
<1> DEFINE e == k - 1
           f == l - 1
<1>1. e \in Nat /\ k = e + 1 /\ f \in Nat /\ l = f + 1
    OBVIOUS
<1> HIDE DEF e, f
<1>2. ObjectsOf(stack, k) = ObjectsOf(stack, e) + 1 /\ ObjectsOf(stack, e) \in Nat
    BY <1>1, CountedNext, Counted
<1>3. /\ ObjectsOf(stack, k) <= ObjectsOf(stack, l)
      /\ ObjectsOf(stack, l) \in Nat
    <2>1. k \in Nat /\ k <= l
        OBVIOUS
    <2> QED BY <2>1, CountedMore, Counted
<1>4. ASSUME stack[l] = "object", k # l
      PROVE  ObjectsOf(stack, k) < ObjectsOf(stack, l)
    <2>1. ObjectsOf(stack, l) = ObjectsOf(stack, f) + 1 /\ ObjectsOf(stack, f) \in Nat
        BY <1>1, <1>4, CountedNext, Counted
    <2>2. ObjectsOf(stack, k) <= ObjectsOf(stack, f)
        BY <1>1, <1>4, CountedMore
    <2> QED BY <2>1, <2>2, <1>2
<1> QED BY <1>2, <1>3, <1>4

\* Names that are kept are names.
LEMMA KeptNames ==
    ASSUME IInv, NEW k \in 1 .. Len(kinds)
    PROVE  KeptOf(k) \in SUBSET Names
<1>1. SUFFICES ASSUME Files, kinds[k] = "object", NEW p \in sets[Objects(k)]
               PROVE  arena[p] \in Names
    BY DEF KeptOf
<1>2. OpenOK /\ Len(kinds) \in Nat
    BY Numbers
<1>3. depth = ObjectsOf(kinds, Len(kinds)) /\ Within
    BY <1>1 DEF IInv, Files, Keeps
<1>4. Objects(k) \in 1 .. depth
    BY <1>1, <1>2, <1>3, ObjectRange DEF Objects, ObjectsOf
<1>5. p \in 1 .. length
    BY <1>1, <1>3, <1>4 DEF Within
<1>6. p \in 1 .. Len(arena)
    BY <1>2, <1>5, OpenNumbers
<1> QED BY <1>2, <1>6, ElementOfSeq DEF OpenOK

\* The containers open in the walker, in what the abstract walk sees.
LEMMA WalkerIs ==
    ASSUME IInv
    PROVE  /\ InWalker \in Seq(Container) /\ Len(InWalker) = Len(kinds)
           /\ \A k \in 1 .. Len(kinds) :
                 InWalker[k] = [kind  |-> kinds[k],
                                names |-> IF Decided THEN {} ELSE KeptOf(k)]
<1>1. Len(kinds) \in Nat
    BY Numbers
<1>2. \A k \in 1 .. Len(kinds) :
         [kind |-> kinds[k], names |-> IF Decided THEN {} ELSE KeptOf(k)] \in Container
    <2> TAKE k \in 1 .. Len(kinds)
    <2>1. kinds[k] \in Kinds
        BY Numbers, ElementOfSeq
    <2>2. KeptOf(k) \in SUBSET Names
        BY KeptNames
    <2>3. (IF Decided THEN {} ELSE KeptOf(k)) \in SUBSET Names
        BY <2>2
    <2> HIDE DEF Decided
    <2> QED BY <2>1, <2>3 DEF Container
<1>3. InWalker \in [1 .. Len(kinds) -> Container]
    BY <1>2 DEF InWalker
<1> QED BY <1>1, <1>3, SeqDef DEF InWalker

LEMMA OwnIs == ASSUME IInv PROVE Own \in Container
<1>1. (IF Decided THEN {} ELSE names \union ({name} \ {None})) \in SUBSET Names
    BY DEF IInv, TypeOK
<1> QED BY <1>1 DEF Own, Container, Kinds

LEMMA OpenIs ==
    ASSUME IInv
    PROVE  /\ AbstractOpen \in Seq(Container)
           /\ Len(AbstractOpen) = Base + Len(kinds)
           /\ \A k \in 1 .. Len(kinds) : AbstractOpen[Base + k] = InWalker[k]
           /\ Base = 1 => AbstractOpen[1] = Own
<1>1. /\ InWalker \in Seq(Container) /\ Len(InWalker) = Len(kinds) /\ Len(kinds) \in Nat
      /\ Own \in Container
    BY WalkerIs, OwnIs, Numbers
<1>2. CASE mode = "tokens"
    <2>1. AbstractOpen = InWalker /\ Base = 0
        BY <1>2 DEF AbstractOpen, Base
    <2> QED BY <2>1, <1>1
<1>3. CASE mode # "tokens" /\ at \in {"start", "closed", "restClosed"}
    <2>1. AbstractOpen = << >> /\ Base = 0 /\ kinds = << >>
        BY <1>3 DEF AbstractOpen, Base, IInv, Control
    <2> QED BY <2>1, EmptySeq
<1>4. CASE mode # "tokens" /\ at \notin {"start", "closed", "restClosed"}
    <2>1. AbstractOpen = <<Own>> \o InWalker /\ Base = 1
        BY <1>4 DEF AbstractOpen, Base, IInv, TypeOK
    <2>2. <<Own>> \in Seq(Container) /\ Len(<<Own>>) = 1 /\ <<Own>>[1] = Own
        BY <1>1
    <2> DEFINE own == <<Own>>
    <2>3. own \in Seq(Container) /\ Len(own) = 1 /\ own[1] = Own
        BY <2>2
    <2>4. AbstractOpen = own \o InWalker
        BY <2>1
    <2> HIDE DEF own
    <2>5. /\ own \o InWalker \in Seq(Container)
          /\ Len(own \o InWalker) = Len(own) + Len(InWalker)
          /\ \A i \in 1 .. Len(own) + Len(InWalker) :
                (own \o InWalker)[i] = IF i <= Len(own) THEN own[i] ELSE InWalker[i - Len(own)]
        BY <1>1, <2>3, ConcatProperties, SMTT(30)
    <2> DEFINE all == own \o InWalker
    <2>6. /\ all \in Seq(Container) /\ Len(all) = 1 + Len(kinds)
          /\ \A i \in 1 .. 1 + Len(kinds) : all[i] = IF i <= 1 THEN own[i] ELSE InWalker[i - 1]
        BY <1>1, <2>3, <2>5
    <2>7. AbstractOpen = all
        BY <2>4
    <2> HIDE DEF all
    <2>8. ASSUME NEW k \in 1 .. Len(kinds)
          PROVE  all[1 + k] = InWalker[k]
        <3>1. 1 + k \in 1 .. 1 + Len(kinds) /\ ~(1 + k <= 1) /\ (1 + k) - 1 = k
            BY <1>1
        <3> QED BY <3>1, <2>6
    <2>9. all[1] = Own
        BY <1>1, <2>3, <2>6
    <2> QED BY <2>1, <2>6, <2>7, <2>8, <2>9
<1> QED BY <1>2, <1>3, <1>4

\* What an object keeps is the same where its set and the places in it are.
LEMMA KeptStays ==
    ASSUME NEW k, kinds'[k] = kinds[k], ObjectsOf(kinds', k) = ObjectsOf(kinds, k),
           Files' = Files,
           Files /\ kinds[k] = "object" =>
              /\ sets'[ObjectsOf(kinds, k)] = sets[ObjectsOf(kinds, k)]
              /\ \A p \in sets[ObjectsOf(kinds, k)] : arena'[p] = arena[p]
    PROVE  KeptOf(k)' = KeptOf(k)
BY DEF KeptOf, Objects, ObjectsOf

Shape ==
    /\ AbstractOpen \in Seq(Container)
    /\ Len(AbstractOpen) = Base + Len(kinds)
    /\ \A k \in 1 .. Len(kinds) :
          AbstractOpen[Base + k] = [kind  |-> kinds[k],
                                    names |-> IF Decided THEN {} ELSE KeptOf(k)]
    /\ Base = 1 => AbstractOpen[1] = Own

LEMMA Shapes == (IInv => Shape) /\ (IInv' => Shape')
<1>1. IInv => Shape
    BY OpenIs, WalkerIs DEF Shape
<1> QED BY <1>1, PTL

\* The abstract walk's names for what it tells.
AbstractName == IF mode = "tokens" /\ ~dup THEN name ELSE None
AbstractMember == IF mode = "tokens" THEN None ELSE name

LEMMA SameOpen ==
    ASSUME IInv, IInv', kinds' = kinds, Base' = Base, Decided' = Decided,
           kinds = << >> \/ Files' = Files,
           UNCHANGED <<sets, arena>>,
           Base = 1 => Own' = Own
    PROVE  AbstractOpen' = AbstractOpen
<1>1. Shape /\ Shape' /\ Len(kinds) \in Nat /\ Base \in {0, 1}
    BY Shapes, Numbers DEF Base
<1>2. ASSUME NEW k \in 1 .. Len(kinds)
      PROVE  KeptOf(k)' = KeptOf(k)
    <2>1. kinds # << >>
        BY <1>1, EmptySeq
    <2> QED BY <2>1, KeptStays
<1>3. ASSUME NEW k \in 1 .. Len(kinds)
      PROVE  AbstractOpen'[Base + k] = AbstractOpen[Base + k]
    BY <1>1, <1>2 DEF Shape
<1>4. Base = 1 => AbstractOpen'[1] = AbstractOpen[1]
    BY <1>1 DEF Shape
<1>5. ASSUME NEW i \in 1 .. Len(AbstractOpen)
      PROVE  AbstractOpen'[i] = AbstractOpen[i]
    <2>1. Len(AbstractOpen) = Base + Len(kinds)
        BY <1>1 DEF Shape
    <2>2. CASE Base = 1 /\ i = 1
        BY <2>2, <1>4
    <2>3. CASE ~(Base = 1 /\ i = 1)
        <3> DEFINE k == i - Base
        <3>1. k \in 1 .. Len(kinds) /\ i = Base + k
            BY <2>1, <2>3, <1>1
        <3> HIDE DEF k
        <3> QED BY <3>1, <1>3
    <2> QED BY <2>2, <2>3
<1>6. /\ AbstractOpen \in Seq(Container) /\ AbstractOpen' \in Seq(Container)
      /\ Len(AbstractOpen) = Len(AbstractOpen')
    BY <1>1 DEF Shape
<1> HIDE DEF AbstractOpen
<1> QED BY <1>5, <1>6, SeqEqual

\* In a value, what the abstract walk sees.
LEMMA InValue ==
    ASSUME IInv, Walks
    PROVE  /\ Base = IF mode = "tokens" THEN 0 ELSE 1
           /\ AbstractNext = IF mode # "tokens" /\ next = "done" THEN "item" ELSE next
           /\ maxDepth >= Abstract!Least
           /\ mode # "tokens" => name # None
           /\ kinds # << >> =>
                 /\ Len(AbstractOpen) > Base
                 /\ Abstract!Top = [kind  |-> kinds[Len(kinds)],
                                    names |-> IF Decided THEN {} ELSE KeptOf(Len(kinds))]
           /\ mode # "tokens" => AbstractOpen # << >>
<1>1. Base = IF mode = "tokens" THEN 0 ELSE 1
    BY DEF Walks, Base, IInv, Control
<1>2. /\ AbstractNext = IF mode # "tokens" /\ next = "done" THEN "item" ELSE next
      /\ mode # "tokens" => name # None
    BY DEF Walks, AbstractNext, IInv, Control
<1>3. maxDepth >= Abstract!Least
    BY Numbers DEF Walks, Abstract!Least, WalkerDepth
<1>4. Shape /\ Len(kinds) \in Nat
    BY Shapes, Numbers
<1>5. kinds # << >> =>
         /\ Len(AbstractOpen) > Base
         /\ Abstract!Top = [kind  |-> kinds[Len(kinds)],
                            names |-> IF Decided THEN {} ELSE KeptOf(Len(kinds))]
    <2> SUFFICES ASSUME kinds # << >>
                 PROVE  /\ Len(AbstractOpen) > Base
                        /\ Abstract!Top = [kind  |-> kinds[Len(kinds)],
                                           names |-> IF Decided THEN {} ELSE KeptOf(Len(kinds))]
        OBVIOUS
    <2>1. Len(kinds) >= 1 /\ Len(AbstractOpen) = Base + Len(kinds)
        BY <1>4, Numbers DEF Shape
    <2>2. AbstractOpen[Base + Len(kinds)] =
             [kind  |-> kinds[Len(kinds)],
              names |-> IF Decided THEN {} ELSE KeptOf(Len(kinds))]
        BY <1>4, <2>1 DEF Shape
    <2> QED BY <1>1, <1>4, <2>1, <2>2 DEF Abstract!Top
<1>6. mode # "tokens" => AbstractOpen # << >>
    BY <1>1, <1>4, EmptySeq DEF Shape
<1> QED BY <1>1, <1>2, <1>3, <1>5, <1>6

LEMMA ValueMapped ==
    ASSUME IInv, Walks, ValueNext
    PROVE  Abstract!ValueComes /\ Abstract!AnyComes
<1>1. result = "reading" /\ maxDepth >= Abstract!Least
    BY InValue DEF Walks
<1>2. AbstractNext = "value" \/ (AbstractNext = "item" /\ Abstract!Top.kind = "array")
    <2>1. CASE next = "value"
        BY <2>1, InValue
    <2>2. CASE next = "item" /\ kinds[Len(kinds)] = "array"
        <3>1. kinds # << >>
            BY <2>2 DEF IInv, Control
        <3> QED BY <2>2, <3>1, InValue
    <2> QED BY <2>1, <2>2 DEF ValueNext
<1>3. mode = "tokens" \/ AbstractOpen # << >>
    BY InValue
<1> QED BY <1>1, <1>2, <1>3 DEF Abstract!ValueComes, Abstract!AnyComes

LEMMA EmitMapped ==
    ASSUME IInv, Walks, NEW t, Emit(t)
    PROVE  Abstract!Reads(t)
<1>1. CASE mode = "tokens"
    <2>1. at = "value" /\ (Decided <=> dup) /\ (Files <=> ~dup)
        BY <1>1 DEF IInv, Control, Decided, Repeats, Files
    <2> QED BY <1>1, <2>1 DEF Emit, Abstract!Reads, Abstract!Tell
<1>2. CASE mode # "tokens"
    BY <1>2 DEF Emit, Abstract!Reads
<1> QED BY <1>1, <1>2

\* Whether a name repeated is the same where what it depends on is.
LEMMA SameDecided ==
    ASSUME UNCHANGED <<mode, at, dup, names>>, mode # "tokens" => name' = name
    PROVE  Decided' = Decided /\ Files' = Files /\ Base' = Base
BY DEF Decided, Repeats, Files, Base

LEMMA ItemMapped ==
    ASSUME IInv, IInv', NEW t \in Names \union {"scalar"}, Item(t)
    PROVE  Abstract!Item(t)
<1>1. /\ Walks /\ ValueNext /\ next' = AroundOf(kinds) /\ Emit(t)
      /\ UNCHANGED <<mode, maxDepth, at, kinds, sets, arena, dup, names>>
      /\ (mode # "tokens" => name' = name) /\ (mode = "tokens" /\ Files => name' = None)
    BY Emits DEF Item, call, open, nested, IInv
<1>2. Decided' = Decided /\ Files' = Files /\ Base' = Base
    BY <1>1, SameDecided
<1>3. AbstractOpen' = AbstractOpen
    BY <1>1, <1>2, SameOpen DEF Own, Base
<1>4. Abstract!AnyComes /\ Abstract!Reads(t)
    BY <1>1, ValueMapped, EmitMapped
<1>5. AbstractNext' = Abstract!Around(AbstractOpen)
    <2>1. at' \in {"value", "restValue"} /\ at' = at /\ mode' = mode
        BY <1>1 DEF Walks
    <2>2. AbstractNext' = IF mode # "tokens" /\ next' = "done" THEN "item" ELSE next'
        BY <2>1 DEF AbstractNext
    <2>3. CASE mode = "tokens"
        <3>1. AbstractOpen = << >> <=> kinds = << >>
            BY <2>3, Shapes, Numbers, EmptySeq, InValue, <1>1 DEF Shape
        <3> QED BY <2>2, <2>3, <3>1, <1>1 DEF AroundOf, Abstract!Around
    <2>4. CASE mode # "tokens"
        BY <2>2, <2>4, <1>1, InValue DEF AroundOf, Abstract!Around
    <2> QED BY <2>3, <2>4
<1>6. AbstractName' = None /\ AbstractMember' = AbstractMember
    BY <1>1 DEF AbstractName, AbstractMember, Files, Walks, IInv, Control
<1> QED BY <1>1, <1>2, <1>3, <1>4, <1>5, <1>6
        DEF Abstract!Item, AbstractName, AbstractMember

\* One container more, or one less, when what is around it stays.
LEMMA Longer ==
    ASSUME AbstractOpen \in Seq(Container), AbstractOpen' \in Seq(Container),
           Base \in {0, 1}, Len(kinds) \in Nat, NEW e,
           Len(AbstractOpen) = Base + Len(kinds),
           Len(AbstractOpen') = Base + (Len(kinds) + 1),
           \A k \in 1 .. Len(kinds) : AbstractOpen'[Base + k] = AbstractOpen[Base + k],
           Base = 1 => AbstractOpen'[1] = AbstractOpen[1],
           AbstractOpen'[Base + (Len(kinds) + 1)] = e
    PROVE  AbstractOpen' = Append(AbstractOpen, e)
<1> DEFINE old == AbstractOpen
           new == AbstractOpen'
           more == Append(old, e)
<1>1. \A i \in 1 .. Len(old) : new[i] = old[i]
    <2> TAKE i \in 1 .. Len(old)
    <2>1. CASE Base = 1 /\ i = 1
        BY <2>1
    <2>2. CASE ~(Base = 1 /\ i = 1)
        <3> DEFINE k == i - Base
        <3>1. i = Base + k /\ k \in 1 .. Len(kinds)
            BY <2>2
        <3> HIDE DEF k
        <3> QED BY <3>1
    <2> QED BY <2>1, <2>2
<1>2. Len(old) \in Nat /\ Len(new) = Len(old) + 1 /\ new[Len(old) + 1] = e
    OBVIOUS
<1>3. e \in Container
    <2>1. Len(old) + 1 \in 1 .. Len(new)
        BY <1>2
    <2> QED BY <2>1, <1>2, ElementOfSeq
<1>4. /\ more \in Seq(Container) /\ Len(more) = Len(old) + 1
      /\ \A i \in 1 .. Len(old) : more[i] = old[i]
      /\ more[Len(old) + 1] = e
    BY <1>3, AppendProperties
<1> HIDE DEF more
<1>5. \A i \in 1 .. Len(new) : new[i] = more[i]
    <2> TAKE i \in 1 .. Len(new)
    <2>1. CASE i \in 1 .. Len(old)
        BY <2>1, <1>1, <1>4
    <2>2. CASE i = Len(old) + 1
        BY <2>2, <1>2, <1>4
    <2> QED BY <2>1, <2>2, <1>2
<1>6. new = more
    BY <1>2, <1>4, <1>5, SeqEqual
<1> QED BY <1>6 DEF more

LEMMA Shorter ==
    ASSUME NEW old \in Seq(Container), NEW new \in Seq(Container), Len(old) > 0,
           Len(new) = Len(old) - 1,
           \A i \in 1 .. Len(new) : new[i] = old[i]
    PROVE  new = SubSeq(old, 1, Len(old) - 1)
<1> DEFINE n == Len(old) - 1
<1>1. n \in Nat /\ Len(old) = n + 1 /\ Len(new) = n
    BY LenProperties
<1>2. \A i \in 1 .. n : old[i] \in Container
    BY <1>1, ElementOfSeq
<1> DEFINE cut == SubSeq(old, 1, n)
<1> HIDE DEF n
<1>3. cut \in Seq(Container) /\ Len(cut) = n /\ \A i \in 1 .. n : cut[i] = old[i]
    BY <1>1, <1>2, SubSeqProperties
<1> HIDE DEF cut
<1>4. new = cut
    BY <1>1, <1>3, SeqEqual
<1> QED BY <1>4 DEF cut, n

LEMMA OpenMapped ==
    ASSUME IInv, IInv', NEW kind \in Kinds, OpenContainer(kind)
    PROVE  Abstract!Open(kind)
<1>1. /\ Walks /\ ValueNext /\ Len(kinds) < WalkerDepth
      /\ kinds' = Append(kinds, kind) /\ next' = "item" /\ Emit(Opener[kind])
      /\ UNCHANGED <<mode, maxDepth, at, dup, names>>
      /\ (mode # "tokens" => name' = name) /\ (mode = "tokens" /\ Files => name' = None)
    BY Emits DEF OpenContainer, call, IInv
<1>2. Decided' = Decided /\ Files' = Files /\ Base' = Base
    BY <1>1, SameDecided
<1>3. /\ Shape /\ Shape' /\ kinds \in Seq(Kinds) /\ Len(kinds) \in Nat
      /\ Base \in {0, 1} /\ OpenOK /\ Base = IF mode = "tokens" THEN 0 ELSE 1
    BY <1>1, Shapes, Numbers, InValue DEF Base
<1>4. /\ Len(kinds') = Len(kinds) + 1 /\ kinds'[Len(kinds) + 1] = kind
      /\ \A k \in 1 .. Len(kinds) :
            kinds'[k] = kinds[k] /\ ObjectsOf(kinds', k) = ObjectsOf(kinds, k)
      /\ ObjectsOf(kinds', Len(kinds) + 1) =
            ObjectsOf(kinds, Len(kinds)) + (IF kind = "object" THEN 1 ELSE 0)
    <2>1. kinds \in Seq(Kinds) /\ kind \in Kinds /\ kinds' = Append(kinds, kind)
        BY <1>1, <1>3
    <2>2. Len(kinds') = Len(kinds) + 1 /\ kinds'[Len(kinds')] = kind
        BY <2>1, Opens
    <2>3. \A k \in 1 .. Len(kinds) : kinds'[k] = kinds[k]
        BY <2>1, Opens
    <2>4. ASSUME NEW k \in 1 .. Len(kinds)
          PROVE  ObjectsOf(kinds', k) = ObjectsOf(kinds, k)
        <3>1. k \in Nat /\ \A j \in 1 .. k : kinds'[j] = kinds[j]
            BY <2>3
        <3> QED BY <3>1, CountedSame
    <2>5. ObjectsOf(kinds', Len(kinds')) =
             ObjectsOf(kinds, Len(kinds)) + (IF kind = "object" THEN 1 ELSE 0)
        BY <2>1, Opens
    <2> QED BY <2>2, <2>3, <2>4, <2>5, <1>3
<1>5. Files => /\ depth = ObjectsOf(kinds, Len(kinds)) /\ Within
               /\ mode = "document" => Stretches
    BY DEF Files, Keeps, IInv
<1>6. Files => /\ \A j \in 1 .. depth : sets'[j] = sets[j]
               /\ arena' = arena
               /\ kind = "object" => sets'[depth + 1] = {}
    <2>1. CASE kind = "object" /\ Files
        <3>1. Push
            BY <2>1 DEF OpenContainer
        <3> QED BY <3>1, <2>1, <1>1, <1>3, <1>5, Pushed
    <2>2. CASE ~(kind = "object" /\ Files)
        BY <2>2 DEF OpenContainer, open, nested
    <2> QED BY <2>1, <2>2
<1>7. ASSUME NEW k \in 1 .. Len(kinds)
      PROVE  KeptOf(k)' = KeptOf(k)
    <2>1. Files /\ kinds[k] = "object" => ObjectsOf(kinds, k) \in 1 .. depth
        BY <1>3, <1>5, ObjectRange
    <2> QED BY <2>1, <1>2, <1>4, <1>6, KeptStays
<1>8. ASSUME NEW l, l = Len(kinds) + 1
      PROVE  KeptOf(l)' = {}
    <2>1. kind = "object" /\ Files => ObjectsOf(kinds', l) = depth + 1
        BY <1>4, <1>5, <1>8
    <2>2. kinds'[l] = kind /\ (kind = "object" /\ Files => sets'[ObjectsOf(kinds', l)] = {})
        BY <1>4, <1>6, <1>8, <2>1
    <2>3. KeptOf(l)' = IF Files' /\ kinds'[l] = "object"
                       THEN {arena'[p] : p \in sets'[ObjectsOf(kinds', l)]}
                       ELSE {}
        BY DEF KeptOf, Objects, ObjectsOf
    <2> QED BY <2>2, <2>3, <1>2
<1>9. Base = 1 => Own' = Own
    <2>1. Base = 1 => name' = name /\ names' = names /\ Decided' = Decided
        BY <1>1, <1>2, <1>3
    <2> QED BY <2>1 DEF Own
<1>10. AbstractOpen' = Append(AbstractOpen, Abstract!Opened(kind))
    <2>1. /\ AbstractOpen \in Seq(Container) /\ AbstractOpen' \in Seq(Container)
          /\ Len(AbstractOpen) = Base + Len(kinds)
          /\ Len(AbstractOpen') = Base + (Len(kinds) + 1)
        BY <1>2, <1>3, <1>4 DEF Shape
    <2>2. ASSUME NEW k \in 1 .. Len(kinds)
          PROVE  AbstractOpen'[Base + k] = AbstractOpen[Base + k]
        <3>1. k \in 1 .. Len(kinds') /\ kinds'[k] = kinds[k]
            BY <1>3, <1>4
        <3> QED BY <3>1, <1>2, <1>3, <1>7 DEF Shape
    <2>3. Base = 1 => AbstractOpen'[1] = AbstractOpen[1]
        BY <1>2, <1>3, <1>9 DEF Shape
    <2>4. AbstractOpen'[Base + (Len(kinds) + 1)] = Abstract!Opened(kind)
        <3>0. PICK l \in Nat : l = Len(kinds) + 1
            BY <1>3
        <3>1. l \in 1 .. Len(kinds') /\ kinds'[l] = kind
            BY <3>0, <1>3, <1>4
        <3>2. AbstractOpen'[Base' + l] = [kind  |-> kinds'[l],
                                          names |-> IF Decided' THEN {} ELSE KeptOf(l)']
            BY <1>3, <3>1 DEF Shape
        <3>3. KeptOf(l)' = {}
            BY <3>0, <1>8
        <3> QED BY <3>0, <3>1, <3>2, <3>3, <1>2 DEF Abstract!Opened
    <2> QED BY <2>1, <2>2, <2>3, <2>4, <1>3, Longer
<1>11. Abstract!ValueComes /\ Abstract!AnyComes /\ Abstract!Reads(Abstract!Opener[kind])
    BY <1>1, ValueMapped, EmitMapped DEF Opener, Abstract!Opener
<1>12. Len(AbstractOpen) < maxDepth
    BY <1>1, <1>3, Numbers DEF Shape, WalkerDepth
<1>13. AbstractNext' = "item"
    BY <1>1 DEF AbstractNext, Walks
<1>14. AbstractName' = None /\ AbstractMember' = AbstractMember
    BY <1>1 DEF AbstractName, AbstractMember, Files, Walks, IInv, Control
<1> QED BY <1>1, <1>2, <1>10, <1>11, <1>12, <1>13, <1>14
        DEF Abstract!Open, AbstractName, AbstractMember

LEMMA CloseMapped ==
    ASSUME IInv, IInv', CloseContainer
    PROVE  Abstract!Close
<1>1. /\ Walks /\ next = "item" /\ kinds # << >>
      /\ kinds' = SubSeq(kinds, 1, Len(kinds) - 1) /\ next' = AroundOf(kinds')
      /\ Emit(Closer[kinds[Len(kinds)]])
      /\ UNCHANGED <<mode, maxDepth, at, dup, names>>
      /\ (mode # "tokens" => name' = name) /\ (mode = "tokens" /\ Files => name' = None)
    BY Emits DEF CloseContainer, call, IInv, Control
<1>2. Decided' = Decided /\ Files' = Files /\ Base' = Base
    BY <1>1, SameDecided
<1>3. /\ Shape /\ Shape' /\ kinds \in Seq(Kinds) /\ Len(kinds) \in Nat /\ Len(kinds) >= 1
      /\ Base \in {0, 1} /\ OpenOK /\ Base = IF mode = "tokens" THEN 0 ELSE 1
      /\ kinds[Len(kinds)] \in Kinds
    BY <1>1, Shapes, Numbers, InValue DEF Base
<1>4. /\ kinds' \in Seq(Kinds) /\ Len(kinds') = Len(kinds) - 1
      /\ \A k \in 1 .. Len(kinds') : kinds'[k] = kinds[k]
    BY <1>1, <1>3, Closes
<1>5. ASSUME NEW k \in 1 .. Len(kinds')
      PROVE  ObjectsOf(kinds', k) = ObjectsOf(kinds, k)
    <2>1. k \in Nat /\ \A j \in 1 .. k : kinds'[j] = kinds[j]
        BY <1>3, <1>4
    <2> QED BY <2>1, CountedSame
<1>6. Files => sets' = sets /\ arena' = arena
    BY DEF CloseContainer, Pop, open, nested
<1>7. ASSUME NEW k \in 1 .. Len(kinds')
      PROVE  KeptOf(k)' = KeptOf(k)
    BY <1>2, <1>4, <1>5, <1>6, KeptStays
<1>8. Base = 1 => Own' = Own
    <2>1. Base = 1 => name' = name /\ names' = names /\ Decided' = Decided
        BY <1>1, <1>2, <1>3
    <2> QED BY <2>1 DEF Own
<1>9. AbstractOpen' = SubSeq(AbstractOpen, 1, Len(AbstractOpen) - 1)
    <2>1. /\ AbstractOpen \in Seq(Container) /\ AbstractOpen' \in Seq(Container)
          /\ Len(AbstractOpen) = Base + Len(kinds)
          /\ Len(AbstractOpen') = Len(AbstractOpen) - 1 /\ Len(AbstractOpen) > 0
          /\ Len(AbstractOpen') = Base + Len(kinds')
        BY <1>2, <1>3, <1>4 DEF Shape
    <2>2. ASSUME NEW k \in 1 .. Len(kinds')
          PROVE  AbstractOpen'[Base + k] = AbstractOpen[Base + k]
        <3>1. k \in 1 .. Len(kinds) /\ kinds'[k] = kinds[k]
            BY <1>3, <1>4
        <3> QED BY <3>1, <1>2, <1>3, <1>7 DEF Shape
    <2>3. Base = 1 => AbstractOpen'[1] = AbstractOpen[1]
        BY <1>2, <1>3, <1>8 DEF Shape
    <2>4. ASSUME NEW i \in 1 .. Len(AbstractOpen')
          PROVE  AbstractOpen'[i] = AbstractOpen[i]
        <3>1. CASE Base = 1 /\ i = 1
            BY <3>1, <2>3
        <3>2. CASE ~(Base = 1 /\ i = 1)
            <4>1. PICK k \in 1 .. Len(kinds') : i = Base + k
                <5> DEFINE j == i - Base
                <5>1. j \in 1 .. Len(kinds') /\ i = Base + j
                    BY <2>1, <3>2, <1>3, <1>4
                <5> HIDE DEF j
                <5> QED BY <5>1
            <4> QED BY <4>1, <2>2
        <3> QED BY <3>1, <3>2
    <2> QED BY <2>1, <2>4, Shorter
<1>10. AbstractNext' = Abstract!Around(AbstractOpen')
    <2>1. at' \in {"value", "restValue"} /\ at' = at /\ mode' = mode
        BY <1>1 DEF Walks
    <2>2. AbstractNext' = IF mode # "tokens" /\ next' = "done" THEN "item" ELSE next'
        BY <2>1 DEF AbstractNext
    <2>3. AbstractOpen' = << >> <=> Base = 0 /\ kinds' = << >>
        <3>1. /\ AbstractOpen' \in Seq(Container) /\ kinds' \in Seq(Kinds)
              /\ Len(AbstractOpen') = Base + Len(kinds')
              /\ Len(kinds') \in Nat
            BY <1>2, <1>3, <1>4 DEF Shape
        <3> QED BY <3>1, <1>3, EmptySeq
    <2> QED BY <2>2, <2>3, <1>1, <1>3 DEF AroundOf, Abstract!Around
<1>11. Abstract!Top.kind = kinds[Len(kinds)] /\ AbstractNext = "item"
    BY <1>1, InValue
<1>12. Abstract!Reads(Abstract!Closer[Abstract!Top.kind])
    BY <1>1, <1>11, EmitMapped DEF Closer, Abstract!Closer
<1>13. AbstractName' = AbstractName /\ AbstractMember' = AbstractMember
    BY <1>1 DEF AbstractName, AbstractMember, Files, Walks, IInv, Control
<1>14. Abstract!NoneDue
    BY <1>1, <1>3, InValue DEF Abstract!NoneDue, Shape
<1> QED BY <1>1, <1>2, <1>9, <1>10, <1>11, <1>12, <1>13, <1>14
        DEF Abstract!Close, AbstractName, AbstractMember, Walks

\* Once a name repeated, no names are kept.
LEMMA Forgotten ==
    ASSUME IInv, IInv', Decided', kinds' = kinds, Base' = Base
    PROVE  AbstractOpen' = [k \in 1 .. Len(AbstractOpen) |->
                               Abstract!Opened(AbstractOpen[k].kind)]
<1>1. Shape /\ Shape' /\ Len(kinds) \in Nat /\ Base \in {0, 1}
    BY Shapes, Numbers DEF Base
<1>2. ASSUME NEW k \in 1 .. Len(kinds)
      PROVE  AbstractOpen'[Base + k] = Abstract!Opened(AbstractOpen[Base + k].kind)
    <2>1. AbstractOpen'[Base' + k] = [kind  |-> kinds'[k],
                                      names |-> IF Decided' THEN {} ELSE KeptOf(k)']
        BY <1>1 DEF Shape
    <2>2. AbstractOpen[Base + k] = [kind  |-> kinds[k],
                                    names |-> IF Decided THEN {} ELSE KeptOf(k)]
        BY <1>1 DEF Shape
    <2> QED BY <2>1, <2>2 DEF Abstract!Opened
<1>3. Base = 1 => AbstractOpen'[1] = Abstract!Opened(AbstractOpen[1].kind)
    <2>1. Own' = [kind |-> "object", names |-> {}] /\ Own.kind = "object"
        BY DEF Own
    <2>2. Base = 1 => AbstractOpen'[1] = Own' /\ AbstractOpen[1] = Own
        BY <1>1 DEF Shape
    <2> QED BY <2>1, <2>2 DEF Abstract!Opened
<1>4. /\ AbstractOpen' \in Seq(Container)
      /\ Len(AbstractOpen) = Base + Len(kinds) /\ Len(AbstractOpen') = Len(AbstractOpen)
    BY <1>1 DEF Shape
<1>5. ASSUME NEW i \in 1 .. Len(AbstractOpen)
      PROVE  AbstractOpen'[i] = Abstract!Opened(AbstractOpen[i].kind)
    <2>1. CASE Base = 1 /\ i = 1
        BY <2>1, <1>3
    <2>2. CASE ~(Base = 1 /\ i = 1)
        <3>1. PICK k \in 1 .. Len(kinds) : i = Base + k
            <4> DEFINE j == i - Base
            <4>1. j \in 1 .. Len(kinds) /\ i = Base + j
                BY <1>1, <1>4, <2>2
            <4> HIDE DEF j
            <4> QED BY <4>1
        <3> QED BY <3>1, <1>2
    <2> QED BY <2>1, <2>2
<1>6. AbstractOpen' \in [1 .. Len(AbstractOpen) -> Container]
    BY <1>4, LenProperties
<1> QED BY <1>5, <1>6

LEMMA NameMapped ==
    ASSUME IInv, IInv', NEW n \in Names, MemberName(n)
    PROVE  Abstract!Name(n)
<1>1. /\ Walks /\ next = "item" /\ kinds # << >> /\ kinds[Len(kinds)] = "object"
      /\ next' = "value" /\ token' = n /\ told' = None
      /\ UNCHANGED <<mode, maxDepth, at, kinds, names, result>>
      /\ name' = IF mode = "tokens" /\ Files THEN n ELSE name
      /\ at \in {"value", "restValue"}
    BY DEF MemberName, call, IInv, Control, Walks
<1>2. /\ Shape /\ Shape' /\ kinds \in Seq(Kinds) /\ Len(kinds) \in Nat /\ Len(kinds) >= 1
      /\ Base \in {0, 1} /\ OpenOK /\ Base = IF mode = "tokens" THEN 0 ELSE 1
    BY <1>1, Shapes, Numbers, InValue DEF Base
<1>3. Base' = Base
    BY <1>1 DEF Base
<1>4. /\ Abstract!Top = [kind  |-> "object",
                         names |-> IF Decided THEN {} ELSE KeptOf(Len(kinds))]
      /\ AbstractNext = "item" /\ AbstractNext' = "value"
      /\ Len(AbstractOpen) = Base + Len(kinds)
    <2>1. AbstractNext' = "value"
        BY <1>1 DEF AbstractNext
    <2> QED BY <2>1, <1>1, <1>2, InValue DEF Shape
<1>5. Abstract!NoneDue /\ (Abstract!Counts <=> mode # "object")
    BY <1>2, <1>4 DEF Abstract!NoneDue, Abstract!Counts
<1>6. CASE Decided
    <2>1. Decided'
        <3>1. CASE Files
            BY <1>1, <1>6, <3>1 DEF Decided, Repeats, Files
        <3>2. CASE ~Files
            <4>1. dup' = dup
                BY <3>2 DEF MemberName
            <4> QED BY <4>1, <3>2, <1>1, <1>6 DEF Decided, Repeats, Files
        <3> QED BY <3>1, <3>2
    <2>2. AbstractOpen' = [k \in 1 .. Len(AbstractOpen) |->
                              Abstract!Opened(AbstractOpen[k].kind)]
        BY <2>1, <1>1, <1>3, Forgotten
    <2>3. (mode = "tokens" => AbstractName' = None /\ AbstractMember' = AbstractMember)
        <3>1. mode = "tokens" => dup /\ dup'
            BY <1>6, <2>1, <1>1 DEF Decided, Repeats, IInv, Control
        <3> QED BY <3>1, <1>1 DEF AbstractName, AbstractMember
    <2>4. (mode # "tokens" => AbstractMember' = AbstractMember /\ AbstractName' = AbstractName)
        BY <1>1 DEF AbstractName, AbstractMember
    <2>5. Decided' = (Decided \/ (Abstract!Counts /\ n \in Abstract!Top.names))
        BY <1>6, <2>1 DEF Decided
    <2>6. mode # "tokens" => Len(AbstractOpen) # 1
        BY <1>2, <1>4
    <2> HIDE DEF Decided
    <2> QED BY <1>1, <1>4, <1>5, <2>1, <2>2, <2>3, <2>4, <2>5, <2>6
            DEF Abstract!Name, AbstractName, AbstractMember, Walks
<1>7. CASE ~Decided /\ mode = "object"
    <2>1. UNCHANGED <<sets, arena, dup>> /\ name' = name
        BY <1>1, <1>7 DEF MemberName, Files, open, nested
    <2>2. Decided' = Decided /\ Files' = Files
        BY <2>1, <1>1 DEF Decided, Repeats, Files
    <2>3. Own' = Own
        BY <2>1, <2>2, <1>1 DEF Own
    <2>4. AbstractOpen' = AbstractOpen
        BY <2>1, <2>2, <2>3, <1>1, <1>3, SameOpen
    <2>5. AbstractMember' = AbstractMember /\ AbstractName' = AbstractName
        BY <1>1, <1>7, <2>1 DEF AbstractName, AbstractMember
    <2>6. Len(AbstractOpen) # 1
        BY <1>2, <1>4, <1>7
    <2>7. Decided' = (Decided \/ (Abstract!Counts /\ n \in Abstract!Top.names))
        BY <1>5, <1>7, <2>2 DEF Decided
    <2>8. ~Decided' /\ ~Abstract!Counts
        BY <1>5, <1>7, <2>2
    <2> QED BY <1>1, <1>4, <1>5, <1>7, <2>4, <2>5, <2>6, <2>7, <2>8
            DEF Abstract!Name, AbstractName, AbstractMember, Walks
<1>8. CASE ~Decided /\ mode # "object"
    <2>1. Files /\ ~dup /\ Add(n)
        BY <1>1, <1>8 DEF Decided, Files, MemberName
    <2>2. /\ depth = ObjectsOf(kinds, Len(kinds)) /\ Within
          /\ mode = "document" => Stretches
        BY <2>1 DEF Files, Keeps, IInv
    <2>3. depth >= 1 /\ depth \in Nat
        BY <1>1, <1>2, <2>2, ObjectRange, OpenNumbers
    <2>4. /\ dup' = (\E p \in sets[depth] : arena[p] = n)
          /\ \A p \in 1 .. length : arena'[p] = arena[p]
          /\ arena'[length + 1] = n
          /\ ~dup' => \A k \in 1 .. depth :
                         sets'[k] = IF k = depth THEN sets[k] \union {length + 1} ELSE sets[k]
        BY <1>1, <1>2, <2>1, <2>2, <2>3, Added
    <2>5. KeptOf(Len(kinds)) = {arena[p] : p \in sets[depth]}
        BY <1>1, <2>1, <2>2 DEF KeptOf, Objects, ObjectsOf
    <2>6. (n \in KeptOf(Len(kinds))) <=> dup'
        BY <2>4, <2>5
    <2>7. Decided' = (Decided \/ (Abstract!Counts /\ n \in Abstract!Top.names))
        <3>1. Abstract!Counts /\ Abstract!Top.names = KeptOf(Len(kinds))
            BY <1>4, <1>5, <1>8
        <3>2. ~Decided /\ (Decided' <=> dup')
            BY <1>1, <1>8 DEF Decided, Repeats
        <3>3. Decided \in BOOLEAN /\ Decided' \in BOOLEAN
            BY DEF Decided
        <3> QED BY <3>1, <3>2, <3>3, <2>6
    <2>8. /\ mode = "tokens" => /\ AbstractName' = IF Decided' THEN None ELSE n
                                /\ AbstractMember' = AbstractMember
          /\ mode # "tokens" => /\ AbstractMember' = AbstractMember
                                /\ AbstractName' = AbstractName
        <3>1. Decided' <=> dup'
            BY <1>1, <1>8 DEF Decided, Repeats
        <3> QED BY <1>1, <2>1, <3>1 DEF AbstractName, AbstractMember
    <2>9. mode # "tokens" => Len(AbstractOpen) # 1
        BY <1>2, <1>4
    <2>10. CASE dup'
        <3>1. Decided'
            BY <2>10 DEF Decided
        <3>2. AbstractOpen' = [k \in 1 .. Len(AbstractOpen) |->
                                  Abstract!Opened(AbstractOpen[k].kind)]
            BY <3>1, <1>1, <1>3, Forgotten
        <3> QED BY <1>1, <1>4, <1>5, <2>7, <2>8, <2>9, <3>1, <3>2
                DEF Abstract!Name, AbstractName, AbstractMember, Walks
    <2>11. CASE ~dup'
        <3>1. ~Decided' /\ Files'
            BY <1>1, <1>8, <2>1, <2>11 DEF Decided, Repeats, Files
        <3>2. AbstractOpen' = [AbstractOpen EXCEPT ![Len(AbstractOpen)].names = @ \union {n}]
            <4>1. PICK l \in Nat : l = Len(kinds)
                BY <1>2
            <4>2. sets'[depth] = sets[depth] \union {length + 1}
                <5>1. depth \in 1 .. depth
                    BY <2>3
                <5> QED BY <5>1, <2>4, <2>11
            <4>3. KeptOf(l)' = KeptOf(l) \union {n}
                <5>1. /\ KeptOf(l) = {arena[p] : p \in sets[depth]}
                      /\ KeptOf(l)' = {arena'[p] : p \in sets'[depth]}
                    BY <4>1, <1>1, <2>1, <2>2, <3>1 DEF KeptOf, Objects, ObjectsOf
                <5>2. \A p \in sets[depth] : arena'[p] = arena[p]
                    <6>1. sets[depth] \subseteq 1 .. length
                        BY <2>2, <2>3 DEF Within
                    <6> QED BY <6>1, <2>4
                <5> QED BY <4>2, <5>1, <5>2, <2>4
            <4>4. ASSUME NEW k \in 1 .. Len(kinds), k # l
                  PROVE  KeptOf(k)' = KeptOf(k)
                <5>1. kinds[k] = "object" => /\ ObjectsOf(kinds, k) \in 1 .. depth
                                             /\ ObjectsOf(kinds, k) # depth
                    BY <4>1, <4>4, <1>1, <1>2, <2>2, <2>3, ObjectRange
                <5>2. kinds[k] = "object" =>
                         /\ sets'[ObjectsOf(kinds, k)] = sets[ObjectsOf(kinds, k)]
                         /\ sets[ObjectsOf(kinds, k)] \subseteq 1 .. length
                    BY <5>1, <2>2, <2>4, <2>11 DEF Within
                <5>3. kinds'[k] = kinds[k] /\ ObjectsOf(kinds', k) = ObjectsOf(kinds, k)
                    BY <1>1
                <5> QED BY <5>2, <5>3, <2>1, <2>4, <3>1, KeptStays
            <4> DEFINE top == [kind |-> "object", names |-> KeptOf(l) \union {n}]
            <4>5. /\ AbstractOpen \in Seq(Container) /\ AbstractOpen' \in Seq(Container)
                  /\ Len(AbstractOpen) = Base + l /\ Len(AbstractOpen') = Base + l
                BY <4>1, <1>1, <1>2, <1>3 DEF Shape
            <4>6. /\ AbstractOpen[Base + l] = [kind |-> "object", names |-> KeptOf(l)]
                  /\ AbstractOpen'[Base + l] = top
                <5>1. l \in 1 .. Len(kinds) /\ l \in 1 .. Len(kinds')
                    BY <4>1, <1>1, <1>2
                <5>2. AbstractOpen[Base + l] = [kind  |-> kinds[l],
                                                names |-> IF Decided THEN {} ELSE KeptOf(l)]
                    BY <5>1, <1>2 DEF Shape
                <5>3. AbstractOpen'[Base' + l] = [kind  |-> kinds'[l],
                                                  names |-> IF Decided' THEN {} ELSE KeptOf(l)']
                    BY <5>1, <1>2 DEF Shape
                <5> QED BY <5>2, <5>3, <4>1, <4>3, <3>1, <1>1, <1>3, <1>8
            <4>7. ASSUME NEW k \in 1 .. Len(kinds), k # l
                  PROVE  AbstractOpen'[Base + k] = AbstractOpen[Base + k]
                <5>1. AbstractOpen[Base + k] = [kind  |-> kinds[k],
                                                names |-> IF Decided THEN {} ELSE KeptOf(k)]
                    BY <1>2 DEF Shape
                <5>2. AbstractOpen'[Base' + k] = [kind  |-> kinds'[k],
                                                  names |-> IF Decided' THEN {} ELSE KeptOf(k)']
                    BY <1>1, <1>2 DEF Shape
                <5> QED BY <5>1, <5>2, <4>4, <4>7, <3>1, <1>1, <1>3, <1>8
            <4>8. Base = 1 => AbstractOpen'[1] = AbstractOpen[1]
                <5>1. Base = 1 => name' = name /\ mode # "tokens"
                    BY <1>1, <1>2
                <5>2. Base = 1 => Own' = Own
                    BY <5>1, <1>1, <1>8, <3>1 DEF Own
                <5> QED BY <5>2, <1>2, <1>3 DEF Shape
            <4>9. ASSUME NEW i \in 1 .. Base + l
                  PROVE  AbstractOpen'[i] = IF i = Base + l THEN top ELSE AbstractOpen[i]
                <5>1. CASE Base = 1 /\ i = 1
                    BY <5>1, <4>1, <4>8, <1>2
                <5>2. CASE ~(Base = 1 /\ i = 1)
                    <6>1. PICK k \in 1 .. Len(kinds) : i = Base + k
                        <7> DEFINE j == i - Base
                        <7>1. j \in 1 .. Len(kinds) /\ i = Base + j
                            BY <4>1, <5>2, <1>2
                        <7> HIDE DEF j
                        <7> QED BY <7>1
                    <6> QED BY <6>1, <4>1, <4>6, <4>7, <1>2
                <5> QED BY <5>1, <5>2
            <4>10. [AbstractOpen EXCEPT ![Len(AbstractOpen)].names = @ \union {n}]
                      = [AbstractOpen EXCEPT ![Base + l] = top]
                <5>1. AbstractOpen[Base + l].names = KeptOf(l)
                    BY <4>6
                <5>2. [AbstractOpen[Base + l] EXCEPT !.names = KeptOf(l) \union {n}] = top
                    BY <4>6
                <5> HIDE DEF top
                <5>3. [AbstractOpen EXCEPT ![Base + l].names = KeptOf(l) \union {n}]
                         = [AbstractOpen EXCEPT ![Base + l] =
                               [AbstractOpen[Base + l] EXCEPT !.names = KeptOf(l) \union {n}]]
                    OBVIOUS
                <5> QED BY <5>1, <5>2, <5>3, <4>5
            <4> HIDE DEF top
            <4>11. AbstractOpen' = [AbstractOpen EXCEPT ![Base + l] = top]
                <5>1. /\ AbstractOpen \in [1 .. Base + l -> Container]
                      /\ AbstractOpen' \in [1 .. Base + l -> Container]
                    BY <4>5, LenProperties
                <5> QED BY <5>1, <4>9
            <4> QED BY <4>10, <4>11
        <3> QED BY <1>1, <1>4, <1>5, <1>8, <2>7, <2>8, <2>9, <3>1, <3>2
                DEF Abstract!Name, AbstractName, AbstractMember, Walks
    <2> QED BY <2>10, <2>11
<1> QED BY <1>6, <1>7, <1>8

\* Between the members of the document's object, only that object is open.
LEMMA BetweenMembers ==
    ASSUME IInv, at \in {"members", "rest"}
    PROVE  /\ mode # "tokens" /\ kinds = << >> /\ Len(kinds) = 0 /\ Base = 1
           /\ next = "value" /\ name = None /\ maxDepth >= 1
           /\ AbstractOpen \in Seq(Container) /\ Len(AbstractOpen) = 1
           /\ AbstractOpen[1] = Own /\ Abstract!Top = Own /\ Own.kind = "object"
           /\ AbstractNext = "item"
           /\ Decided <=> at = "rest"
<1>1. /\ mode # "tokens" /\ kinds = << >> /\ Base = 1
      /\ next = "value" /\ name = None /\ maxDepth >= 1
    BY DEF IInv, Control, Base
<1>2. Len(kinds) = 0
    BY <1>1
<1>3. Shape
    BY Shapes
<1>4. AbstractOpen \in Seq(Container) /\ Len(AbstractOpen) = 1 /\ AbstractOpen[1] = Own
    BY <1>1, <1>2, <1>3 DEF Shape
<1>5. Abstract!Top = Own
    BY <1>4 DEF Abstract!Top
<1>6. Own.kind = "object"
    BY DEF Own
<1>7. AbstractNext = "item" /\ (Decided <=> at = "rest")
    BY <1>1 DEF AbstractNext, Decided, Repeats, IInv, Control
<1> QED BY <1>1, <1>2, <1>4, <1>5, <1>6, <1>7

LEMMA OpenDocumentMapped == ASSUME IInv, IInv', OpenDocument PROVE Abstract!Open("object")
<1>1. /\ result = "reading" /\ at = "start" /\ maxDepth >= 1 /\ at' = "members"
      /\ token' = "openObject" /\ told' = None
      /\ UNCHANGED <<mode, maxDepth, kinds, next, sets, arena, dup, names, name, result>>
    BY DEF OpenDocument, call, walker, open, nested
<1>2. /\ mode # "tokens" /\ kinds = << >> /\ next = "value" /\ name = None
      /\ names = {} /\ ~dup
    BY <1>1 DEF IInv, Control
<1>3. /\ Base = 0 /\ Base' = 1 /\ Len(kinds) = 0 /\ ~Decided /\ ~Decided'
      /\ AbstractNext = "value" /\ AbstractNext' = "item"
    BY <1>1, <1>2 DEF Base, Decided, Repeats, AbstractNext
<1>4. Own' = Abstract!Opened("object")
    BY <1>1, <1>2, <1>3 DEF Own, Abstract!Opened
<1>5. Shape /\ Shape'
    BY Shapes
<1>6. /\ AbstractOpen \in Seq(Container) /\ Len(AbstractOpen) = 0
      /\ AbstractOpen' \in Seq(Container) /\ Len(AbstractOpen') = 1
      /\ AbstractOpen'[1] = Own'
    BY <1>1, <1>3, <1>5 DEF Shape
<1>7. AbstractOpen' = Append(AbstractOpen, Abstract!Opened("object"))
    BY <1>3, <1>4, <1>6, Longer
<1>8. Abstract!ValueComes
    BY <1>1, <1>2, <1>3, Numbers DEF Abstract!ValueComes, Abstract!Least
<1>9. Abstract!Reads(Abstract!Opener["object"])
    BY <1>1, <1>2 DEF Abstract!Reads, Abstract!Opener, Abstract!Kinds
<1>10. Len(AbstractOpen) < maxDepth
    BY <1>1, <1>6, Numbers
<1>11. Decided' = Decided
    BY <1>3 DEF Decided
<1> QED BY <1>1, <1>2, <1>3, <1>7, <1>8, <1>9, <1>10, <1>11 DEF Abstract!Open

LEMMA CloseDocumentMapped == ASSUME IInv, IInv', CloseDocument PROVE Abstract!Close
<1>1. /\ result = "reading" /\ at \in {"members", "rest"}
      /\ at' = (IF at = "members" THEN "closed" ELSE "restClosed")
      /\ token' = "closeObject" /\ told' = None
      /\ UNCHANGED <<mode, maxDepth, kinds, next, sets, arena, dup, names, name, result>>
    BY DEF CloseDocument, call, walker, open, nested
<1>2. /\ mode # "tokens" /\ kinds = << >> /\ Len(kinds) = 0 /\ name = None
      /\ AbstractOpen \in Seq(Container) /\ Len(AbstractOpen) = 1
      /\ Abstract!Top.kind = "object" /\ AbstractNext = "item"
      /\ (Decided <=> at = "rest")
    BY <1>1, BetweenMembers
<1>3. /\ AbstractNext' = "done"
      /\ AbstractOpen' = << >>
    BY <1>1, <1>2 DEF AbstractNext, AbstractOpen
<1>4. Decided' = Decided
    <2>1. Decided' <=> at' = "restClosed"
        BY <1>1, <1>2, BetweenMembers DEF Decided, Repeats, IInv, Control
    <2> QED BY <2>1, <1>1, <1>2 DEF Decided
<1>5. AbstractOpen' = SubSeq(AbstractOpen, 1, Len(AbstractOpen) - 1)
    BY <1>2, <1>3, EmptySeq, Shorter
<1>6. Abstract!Reads(Abstract!Closer[Abstract!Top.kind])
    BY <1>1, <1>2 DEF Abstract!Reads, Abstract!Closer
<1>7. AbstractNext' = Abstract!Around(AbstractOpen')
    BY <1>3 DEF Abstract!Around
<1>8. Abstract!NoneDue
    BY <1>2 DEF Abstract!NoneDue
<1> QED BY <1>1, <1>2, <1>4, <1>5, <1>6, <1>7, <1>8 DEF Abstract!Close

LEMMA MemberMapped ==
    ASSUME IInv, IInv', NEW n \in Names, DocumentMember(n) \/ RestMember(n)
    PROVE  Abstract!Name(n)
<1>1. /\ result = "reading" /\ at \in {"members", "rest"}
      /\ at' = (IF at = "members" THEN "value" ELSE "restValue")
      /\ name' = n /\ kinds' = << >> /\ next' = "value"
      /\ token' = n /\ told' = None
      /\ UNCHANGED <<mode, maxDepth, sets, arena, dup, names, result>>
    BY DEF DocumentMember, RestMember, StartsMember, call, open, nested
<1>2. /\ mode # "tokens" /\ kinds = << >> /\ Len(kinds) = 0 /\ Base = 1 /\ name = None
      /\ AbstractOpen \in Seq(Container) /\ Len(AbstractOpen) = 1
      /\ AbstractOpen[1] = Own /\ Abstract!Top = Own /\ Own.kind = "object"
      /\ AbstractNext = "item"
      /\ (Decided <=> at = "rest")
    BY <1>1, BetweenMembers
<1>3. Abstract!NoneDue /\ Abstract!Counts
    BY <1>2 DEF Abstract!NoneDue, Abstract!Counts
<1>4. AbstractNext' = "value" /\ Base' = 1 /\ kinds' = kinds /\ n # None
    BY <1>1, <1>2, ObjectWalkAssumption DEF AbstractNext, Base
<1>5. Decided' <=> at = "rest" \/ n \in names
    BY <1>1, <1>2, <1>4 DEF Decided, Repeats, IInv, Control
<1>6. Decided' = (Decided \/ (Abstract!Counts /\ n \in Abstract!Top.names))
    <2>1. ~Decided => Abstract!Top.names = names
        BY <1>2 DEF Own
    <2>2. Decided \in BOOLEAN /\ Decided' \in BOOLEAN
        BY DEF Decided
    <2> QED BY <2>1, <2>2, <1>2, <1>3, <1>5
<1>7. CASE Decided'
    <2>1. AbstractOpen' = [k \in 1 .. Len(AbstractOpen) |->
                              Abstract!Opened(AbstractOpen[k].kind)]
        BY <1>2, <1>4, <1>7, Forgotten
    <2> QED BY <1>1, <1>2, <1>3, <1>4, <1>6, <1>7, <2>1 DEF Abstract!Name
<1>8. CASE ~Decided'
    <2>1. Own = [kind |-> "object", names |-> names]
        BY <1>2, <1>5, <1>8 DEF Own
    <2>2. Own' = [kind |-> "object", names |-> names \union {n}]
        BY <1>1, <1>4, <1>8 DEF Own
    <2>3. /\ AbstractOpen' \in Seq(Container) /\ Len(AbstractOpen') = 1
          /\ AbstractOpen'[1] = Own'
        BY Shapes, <1>2, <1>4 DEF Shape
    <2>4. /\ AbstractOpen \in [1 .. 1 -> Container] /\ AbstractOpen' \in [1 .. 1 -> Container]
        BY <1>2, <2>3, LenProperties
    <2>5. [AbstractOpen EXCEPT ![1].names = names \union {n}] = [AbstractOpen EXCEPT ![1] = Own']
        <3>0. AbstractOpen[1] = [kind |-> "object", names |-> names]
            BY <1>2, <2>1
        <3>1. [AbstractOpen[1] EXCEPT !.names = names \union {n}] = Own'
            BY <3>0, <2>2
        <3>2. [AbstractOpen EXCEPT ![1].names = names \union {n}]
                 = [AbstractOpen EXCEPT ![1] = [AbstractOpen[1] EXCEPT !.names = names \union {n}]]
            OBVIOUS
        <3> QED BY <3>1, <3>2
    <2>6. AbstractOpen' = [AbstractOpen EXCEPT ![1] = Own']
        BY <2>3, <2>4
    <2>7. AbstractOpen' = [AbstractOpen EXCEPT ![Len(AbstractOpen)].names = @ \union {n}]
        <3>1. AbstractOpen[1].names = names
            BY <1>2, <2>1
        <3> QED BY <3>1, <2>5, <2>6, <1>2
    <2> QED BY <1>1, <1>2, <1>3, <1>4, <1>6, <1>8, <2>7 DEF Abstract!Name
<1> QED BY <1>7, <1>8

LEMMA EndOfValueMapped == ASSUME IInv, IInv', EndOfValue PROVE Abstract!Member
<1>1. /\ result = "reading" /\ mode # "tokens" /\ next = "done"
      /\ at \in {"value", "restValue"}
      /\ name' = None /\ next' = "value"
      /\ UNCHANGED <<mode, maxDepth, kinds, sets, arena, dup, token>>
    BY DEF EndOfValue, call, open, nested
<1>2. kinds = << >> /\ name # None /\ Base = 1 /\ Len(kinds) = 0 /\ maxDepth >= 1
    BY <1>1 DEF IInv, Control, Base
<1>3. /\ Shape /\ Shape' /\ Len(AbstractOpen) = 1 /\ AbstractNext = "item"
    BY <1>1, <1>2, Shapes DEF Shape, AbstractNext
<1>4. Decided \in BOOLEAN /\ Decided' \in BOOLEAN
    BY DEF Decided
<1>5. Decided <=> ~(at = "value" /\ ~dup /\ name \notin names)
    BY <1>1, <1>2 DEF Decided, Repeats
<1>6. CASE ~Decided
    <2>1. /\ names' = names \union {name} /\ told' = name /\ at' = "members"
          /\ result' \in {result, "callback"}
        BY <1>5, <1>6 DEF EndOfValue
    <2>2. ~Decided' /\ Base' = 1 /\ AbstractNext' = "item"
        BY <1>1, <1>5, <1>6, <2>1 DEF Decided, Repeats, Base, AbstractNext
    <2>3. Own' = Own
        BY <1>1, <1>2, <1>6, <2>1, <2>2 DEF Own
    <2>4. AbstractOpen' = AbstractOpen
        BY <1>1, <1>2, <1>6, <2>2, <2>3, <1>4, SameOpen
    <2> QED BY <1>1, <1>2, <1>3, <1>4, <1>6, <2>1, <2>2, <2>4
            DEF Abstract!Member, Abstract!Tell
<1>7. CASE Decided
    <2>1. told' = None /\ at' = "rest" /\ names' = names /\ result' = result
        BY <1>5, <1>7 DEF EndOfValue
    <2>2. Decided' /\ Base' = 1 /\ AbstractNext' = "item"
        BY <1>1, <2>1 DEF Decided, Base, AbstractNext
    <2>3. Own' = Own
        BY <1>7, <2>2 DEF Own
    <2>4. AbstractOpen' = AbstractOpen
        BY <1>1, <1>2, <1>7, <2>2, <2>3, <1>4, SameOpen
    <2> QED BY <1>1, <1>2, <1>3, <1>4, <1>7, <2>1, <2>2, <2>4
            DEF Abstract!Member, Abstract!Tell
<1> QED BY <1>6, <1>7

\* A step that leaves all that the abstract walk sees but its answers.
LEMMA SameWalk ==
    ASSUME UNCHANGED <<call, at, walker, open, nested, dup, names, name>>
    PROVE  /\ AbstractOpen' = AbstractOpen /\ AbstractNext' = AbstractNext
           /\ Decided' = Decided
           /\ AbstractName' = AbstractName /\ AbstractMember' = AbstractMember
           /\ mode' = mode /\ maxDepth' = maxDepth
<1> USE DEF call, walker, open, nested
<1>1. Decided' = Decided /\ AbstractNext' = AbstractNext
    BY DEF Decided, Repeats, AbstractNext
<1>2. InWalker' = InWalker
    BY <1>1 DEF InWalker, KeptOf, Objects, Files
<1>3. Own' = Own
    BY <1>1 DEF Own
<1>4. AbstractOpen' = AbstractOpen
    BY <1>2, <1>3 DEF AbstractOpen
<1> QED BY <1>1, <1>4 DEF AbstractName, AbstractMember

LEMMA EndMapped == ASSUME IInv, End PROVE Abstract!End
<1>1. /\ AbstractOpen' = AbstractOpen /\ AbstractNext' = AbstractNext
      /\ Decided' = Decided
      /\ AbstractName' = AbstractName /\ AbstractMember' = AbstractMember
      /\ mode' = mode /\ maxDepth' = maxDepth
    BY SameWalk DEF End
<1>2. AbstractNext = "done" /\ result = "reading" /\ told' = None /\ token' = token
    BY DEF End, AbstractNext, IInv, Control
<1>3. Decided <=> at = "restClosed" \/ dup
    BY DEF End, Decided, Repeats, IInv, Control
<1>4. result' = IF Decided THEN "duplicate" ELSE "nil"
    BY <1>3 DEF End
<1> QED BY <1>1, <1>2, <1>4 DEF Abstract!End, AbstractName, AbstractMember

LEMMA RefuseMapped ==
    ASSUME IInv, NEW t, TooShallow \/ Fault \/ \E kind \in Kinds : TooDeep(kind), token' = t
    PROVE  Abstract!Refuse(t)
<1>1. /\ result = "reading" /\ result' = "malformed" /\ told' = None
      /\ UNCHANGED <<call, at, walker, open, nested, dup, names, name>>
    BY DEF TooShallow, Fault, TooDeep, Walks
<1>2. /\ AbstractOpen' = AbstractOpen /\ AbstractNext' = AbstractNext
      /\ Decided' = Decided
      /\ AbstractName' = AbstractName /\ AbstractMember' = AbstractMember
      /\ mode' = mode /\ maxDepth' = maxDepth
    BY <1>1, SameWalk
<1>3. \/ t = "bad"
      \/ t \in {"openObject", "openArray"} /\ Len(AbstractOpen) >= maxDepth
      \/ t = None /\ maxDepth < Abstract!Least
    <2>1. CASE Fault
        BY <2>1 DEF Fault
    <2>2. CASE TooShallow
        BY <2>2 DEF TooShallow, Abstract!Least
    <2>3. ASSUME NEW kind \in Kinds, TooDeep(kind)
          PROVE  t \in {"openObject", "openArray"} /\ Len(AbstractOpen) >= maxDepth
        <3>1. t \in {"openObject", "openArray"} /\ Walks /\ Len(kinds) >= WalkerDepth
            BY <2>3 DEF TooDeep, Opener, Kinds
        <3>2. /\ Len(AbstractOpen) = Base + Len(kinds) /\ Base = IF mode = "tokens" THEN 0 ELSE 1
              /\ Len(kinds) \in Nat /\ maxDepth \in Int
            BY <3>1, Shapes, InValue, Numbers DEF Shape
        <3> QED BY <3>1, <3>2 DEF WalkerDepth
    <2> QED BY <2>1, <2>2, <2>3
<1> QED BY <1>1, <1>2, <1>3 DEF Abstract!Refuse, AbstractName, AbstractMember

LEMMA StepRefines == IInv /\ IInv' /\ [Next]_vars => [Abstract!Next]_(Abstract!vars)
<1> SUFFICES ASSUME IInv, IInv', [Next]_vars
             PROVE  Abstract!Next \/ UNCHANGED Abstract!vars
    OBVIOUS
<1>1. CASE TooShallow
    <2>1. Abstract!Refuse(None)
        BY <1>1, RefuseMapped DEF TooShallow
    <2> QED BY <2>1 DEF Abstract!Next
<1>2. CASE OpenDocument
    <2>1. Abstract!Open("object")
        BY <1>2, OpenDocumentMapped
    <2> QED BY <2>1 DEF Abstract!Next, Abstract!Kinds
<1>3. CASE CloseDocument
    BY <1>3, CloseDocumentMapped DEF Abstract!Next
<1>4. CASE CloseContainer
    BY <1>4, CloseMapped DEF Abstract!Next
<1>5. CASE EndOfValue
    BY <1>5, EndOfValueMapped DEF Abstract!Next
<1>6. CASE End
    BY <1>6, EndMapped DEF Abstract!Next
<1>7. CASE Fault
    <2>1. Abstract!Refuse("bad")
        BY <1>7, RefuseMapped DEF Fault
    <2> QED BY <2>1 DEF Abstract!Next
<1>8. ASSUME NEW n \in Names, MemberName(n)
      PROVE  Abstract!Next
    BY <1>8, NameMapped DEF Abstract!Next
<1>9. ASSUME NEW n \in Names, DocumentMember(n) \/ RestMember(n)
      PROVE  Abstract!Next
    BY <1>9, MemberMapped DEF Abstract!Next
<1>10. ASSUME NEW t \in Names \union {"scalar"}, Item(t)
       PROVE  Abstract!Next
    BY <1>10, ItemMapped DEF Abstract!Next
<1>11. ASSUME NEW kind \in Kinds, OpenContainer(kind)
       PROVE  Abstract!Next
    <2>1. Abstract!Open(kind)
        BY <1>11, OpenMapped
    <2> QED BY <2>1 DEF Abstract!Next, Abstract!Kinds, Kinds
<1>12. ASSUME NEW kind \in Kinds, TooDeep(kind)
       PROVE  Abstract!Next
    <2>1. Abstract!Refuse(Abstract!Opener[kind])
        BY <1>12, RefuseMapped DEF TooDeep, Opener, Abstract!Opener
    <2> QED BY <2>1 DEF Abstract!Next, Abstract!Kinds, Kinds
<1>13. CASE UNCHANGED vars
    <2>1. /\ AbstractOpen' = AbstractOpen /\ AbstractNext' = AbstractNext
          /\ Decided' = Decided
          /\ AbstractName' = AbstractName /\ AbstractMember' = AbstractMember
        BY <1>13, SameWalk DEF vars
    <2> QED BY <1>13, <2>1 DEF vars, call, Abstract!vars, AbstractName, AbstractMember
<1> QED BY <1>1, <1>2, <1>3, <1>4, <1>5, <1>6, <1>7, <1>8, <1>9, <1>10, <1>11, <1>12, <1>13
        DEF Next

\* Every walk finds exactly the first repeated name, calls fn with what comes before it
\* and nothing after it, and answers as UniqueNames says: the sets of places that
\* openObjects recycles, and the arena whose room is given back and written again, never
\* make a name count that should not, nor hide one that should.
THEOREM Refinement == Spec => ImplementsUniqueNames
<1>1. Init => Abstract!Init
    <2> SUFFICES ASSUME Init
                 PROVE  Abstract!Init
        OBVIOUS
    <2>1. kinds = << >> /\ Len(kinds) = 0
        BY DEF Init
    <2>2. AbstractOpen = << >> /\ AbstractNext = "value" /\ Decided = FALSE
        BY <2>1 DEF Init, AbstractOpen, InWalker, AbstractNext, Decided, Repeats
    <2> QED BY <2>2, ObjectWalkAssumption DEF Init, Abstract!Init, Abstract!Modes, Modes
<1> QED BY <1>1, Invariance, StepRefines, PTL DEF Spec, ImplementsUniqueNames, Abstract!Spec
=============================================================================
