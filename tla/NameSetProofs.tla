---------------------------- MODULE NameSetProofs ----------------------------
(***************************************************************************)
(* NameSet for every table size, every hash and any names: the table stays *)
(* sound, the probe ends because a table at most half full has an empty    *)
(* slot, and the set answers as a set would.                               *)
(***************************************************************************)
EXTENDS NameSet, FiniteSetTheorems, SequenceTheorems, TLAPS

LEMMA Sizes == InlineNames \in Nat /\ InlineNames > 0 /\ NameSlots \in Nat /\ NameSlots > InlineNames
BY NameSetAssumption DEF NameSlots

LEMMA ModRange ==
    ASSUME NEW x \in Nat, NEW m \in Nat, m > 0
    PROVE  x % m \in 0 .. m - 1
OBVIOUS

\* The probe visits slots of the table only.
LEMMA ProbedSlot ==
    ASSUME NEW name \in Names, NEW d \in Nat
    PROVE  Probed(name, d) \in Slots
<1>1. Hash[name] + d \in Nat
    BY NameSetAssumption, Sizes DEF Slots
<1> DEFINE x == Hash[name] + d
<1>2. x % NameSlots \in 0 .. NameSlots - 1
    BY <1>1, Sizes, ModRange
<1> QED BY <1>2 DEF Probed, Slots

\* The probe for a name visits every slot.
LEMMA ProbeCovers ==
    ASSUME NEW name \in Names, NEW k \in Slots
    PROVE  \E d \in Slots : Probed(name, d) = k
<1> DEFINE h == Hash[name]
           M == NameSlots
<1>1. h \in 0 .. M - 1 /\ k \in 0 .. M - 1 /\ M \in Nat /\ M > 0
    BY NameSetAssumption, Sizes DEF Slots
<1> HIDE DEF h, M
<1>2. CASE k >= h
    <2>1. k - h \in 0 .. M - 1 /\ (h + (k - h)) % M = k
        BY <1>1, <1>2
    <2> QED BY <2>1 DEF Probed, Slots, h, M
<1>3. CASE k < h
    <2>1. k - h + M \in 0 .. M - 1 /\ h + (k - h + M) = k + M
        BY <1>1, <1>3
    <2>2. (k + M) % M = k
        BY <1>1, SMTT(30)
    <2> QED BY <2>1, <2>2 DEF Probed, Slots, h, M
<1> QED BY <1>1, <1>2, <1>3

-----------------------------------------------------------------------------
\* The map: finite, with names only where there is a map, and once it held more than
\* reset keeps, holding them still.
MapSound == /\ IsFiniteSet(spill)
            /\ spill # {} => mapped /\ Cardinality(spill) <= held
            /\ held <= KeptSpillNames \/ held = Cardinality(spill)

IInv == TypeOK /\ TableSound /\ MapSound

LEMMA InitInvariant == Init => IInv
<1> SUFFICES ASSUME Init
             PROVE  IInv
    OBVIOUS
<1>1. TypeOK
    <2>1. [k \in Slots |-> 0] \in [Slots -> 0 .. InlineNames]
        <3>1. 0 \in 0 .. InlineNames
            BY Sizes
        <3> QED BY <3>1
    <2>2. << >> \in Seq(Names) /\ Len(<< >>) <= InlineNames
        BY Sizes
    <2> QED BY <2>1, <2>2 DEF Init, TypeOK
<1>2. TableSound
    BY DEF Init, TableSound, SlotsApart, Reachable
<1>3. MapSound
    BY NameSetAssumption, FS_EmptySet DEF Init, MapSound
<1> QED BY <1>1, <1>2, <1>3 DEF IInv

\* The names of the table are finitely many.
LEMMA InlineFinite ==
    ASSUME TypeOK
    PROVE  InlineSet \subseteq Names /\ IsFiniteSet(InlineSet)
<1>1. inline \in Seq(Names)
    BY DEF TypeOK
<1>2. IsFiniteSet(1 .. Len(inline))
    BY <1>1, FS_Interval
<1>3. IsFiniteSet({inline[i] : i \in 1 .. Len(inline)})
    <2> DEFINE T == {inline[i] : i \in 1 .. Len(inline)}
    <2>1. inline \in Surjection(1 .. Len(inline), T)
        BY <1>1 DEF Surjection
    <2>2. ExistsSurjection(1 .. Len(inline), T)
        BY <2>1 DEF ExistsSurjection
    <2>3. Len(inline) \in Nat
        BY <1>1
    <2>4. IsFiniteSet(T)
        <3> HIDE DEF T
        <3>1. \E m \in Nat : ExistsSurjection(1 .. m, T)
            BY <2>2, <2>3
        <3> QED BY <3>1, FS_NatSurjection
    <2> QED BY <2>4
<1> QED BY <1>1, <1>3 DEF InlineSet

\* The map stays sound when names are put into it.
LEMMA SpillSound ==
    ASSUME MapSound, held \in Nat, NEW S, IsFiniteSet(S), S # {}, Spill(S)
    PROVE  MapSound' /\ held' \in Nat /\ mapped' = TRUE /\ spill' # {}
<1>1. IsFiniteSet(spill) /\ IsFiniteSet(spill') /\ spill' = spill \union S
    BY FS_Union DEF MapSound, Spill
<1>2. Cardinality(spill) <= Cardinality(spill')
    BY <1>1, FS_Subset
<1>3. Cardinality(spill) \in Nat /\ Cardinality(spill') \in Nat
    BY <1>1, FS_CardinalityType
<1>4. held' = IF Cardinality(spill') > held THEN Cardinality(spill') ELSE held
    BY DEF Spill
<1>5. held <= KeptSpillNames \/ held = Cardinality(spill)
    BY DEF MapSound
<1>6. held' <= KeptSpillNames \/ held' = Cardinality(spill')
    BY <1>2, <1>3, <1>4, <1>5, NameSetAssumption
<1>7. Cardinality(spill') <= held' /\ held' \in Nat
    BY <1>3, <1>4
<1> QED BY <1>1, <1>6, <1>7 DEF MapSound, Spill

\* A new name put at the first stop of its probe keeps the table sound.
LEMMA InsertSound ==
    ASSUME TypeOK, TableSound, NEW name \in Names, NEW d \in Slots,
           FirstStop(name, d), slots[Probed(name, d)] = 0,
           Len(inline) # InlineNames,
           inline' = Append(inline, name),
           slots' = [slots EXCEPT ![Probed(name, d)] = Len(inline')]
    PROVE  /\ TableSound'
           /\ inline' \in Seq(Names) /\ Len(inline') = Len(inline) + 1
           /\ Len(inline') <= InlineNames
           /\ slots' \in [Slots -> 0 .. InlineNames]
<1> DEFINE k == Probed(name, d)
           n == Len(inline)
<1>1. k \in Slots /\ d \in Nat /\ \A e \in 0 .. d : e \in Nat
    BY ProbedSlot, Sizes DEF Slots
<1>2. /\ n \in Nat /\ n < InlineNames
      /\ inline' \in Seq(Names) /\ Len(inline') = n + 1
      /\ inline'[n + 1] = name
      /\ \A i \in 1 .. n : inline'[i] = inline[i]
    BY Sizes DEF TypeOK
<1>3. slots \in [Slots -> 0 .. InlineNames] /\ slots' = [slots EXCEPT ![k] = n + 1]
    BY <1>2 DEF TypeOK
<1>4. slots' \in [Slots -> 0 .. InlineNames]
    <2>1. n + 1 \in 0 .. InlineNames
        BY <1>2, Sizes
    <2> QED BY <1>3, <2>1
<1>5. /\ slots'[k] = n + 1
      /\ \A l \in Slots : l # k => slots'[l] = slots[l]
      /\ \A l \in Slots : slots[l] <= n /\ slots[l] \in Nat
    BY <1>1, <1>3 DEF TableSound, SlotsApart
<1>6. SlotsApart'
    <2>1. \A l \in Slots : slots'[l] <= n + 1
        BY <1>2, <1>5
    <2>2. \A l, m \in Slots : slots'[l] = slots'[m] /\ slots'[l] # 0 => l = m
        BY <1>2, <1>5 DEF TableSound, SlotsApart
    <2> QED BY <1>2, <2>1, <2>2 DEF SlotsApart
<1>7. Reachable'
    <2>1. SUFFICES ASSUME NEW i \in 1 .. n + 1
                   PROVE  \E c \in Slots :
                             /\ slots'[Probed(inline'[i], c)] = i
                             /\ \A e \in 0 .. c - 1 : slots'[Probed(inline'[i], e)] # 0
        BY <1>2 DEF Reachable, Probed
    <2>2. CASE i = n + 1
        <3>1. slots'[Probed(name, d)] = i
            BY <1>5, <2>2
        <3>2. \A e \in 0 .. d - 1 : slots'[Probed(name, e)] # 0
            <4>1. SUFFICES ASSUME NEW e \in 0 .. d - 1
                           PROVE  slots'[Probed(name, e)] # 0
                OBVIOUS
            <4>2. slots[Probed(name, e)] # 0
                BY <4>1 DEF FirstStop, Stops
            <4>3. Probed(name, e) \in Slots
                BY <1>1, ProbedSlot
            <4> QED BY <1>2, <1>5, <4>2, <4>3
        <3> QED BY <1>2, <2>2, <3>1, <3>2
    <2>3. CASE i \in 1 .. n
        <3>1. PICK c \in Slots : /\ slots[Probed(inline[i], c)] = i
                                 /\ \A e \in 0 .. c - 1 : slots[Probed(inline[i], e)] # 0
            BY <2>3 DEF TableSound, Reachable
        <3>2. inline[i] \in Names /\ inline'[i] = inline[i]
            BY <1>2, <2>3 DEF TypeOK
        <3>3. c \in Nat /\ \A e \in 0 .. c - 1 : e \in Nat
            BY Sizes DEF Slots
        <3>4. Probed(inline[i], c) \in Slots /\ \A e \in 0 .. c - 1 : Probed(inline[i], e) \in Slots
            BY <3>2, <3>3, ProbedSlot
        <3>5. slots'[Probed(inline[i], c)] = i
            BY <1>5, <2>3, <3>1, <3>4
        <3>6. \A e \in 0 .. c - 1 : slots'[Probed(inline[i], e)] # 0
            BY <1>2, <1>5, <3>1, <3>4
        <3> QED BY <3>2, <3>5, <3>6
    <2> QED BY <1>2, <2>2, <2>3
<1> QED BY <1>2, <1>4, <1>6, <1>7 DEF TableSound

\* A call leaves the name it was given, if any.
LEMMA CallTyped ==
    ASSUME NEW S, S \subseteq Names, Call(S)
    PROVE  asked' \subseteq Names /\ turn' \in BOOLEAN
BY DEF Call

\* Every step keeps the invariant.
LEMMA StepInvariant == IInv /\ [Next]_vars => IInv'
<1> SUFFICES ASSUME IInv, [Next]_vars
             PROVE  IInv'
    OBVIOUS
<1>0. TypeOK /\ TableSound /\ MapSound /\ held \in Nat
    BY DEF IInv, TypeOK
<1>1. CASE Reset
    <2>1. TypeOK'
        <3>1. slots' \in [Slots -> 0 .. InlineNames]
            <4>1. 0 \in 0 .. InlineNames
                BY Sizes
            <4> QED BY <1>1, <4>1 DEF Reset
        <3>2. inline' \in Seq(Names) /\ Len(inline') <= InlineNames
            BY <1>1, Sizes DEF Reset
        <3>3. mapped' \in BOOLEAN /\ held' \in Nat
            <4>1. CASE Cardinality(spill) > KeptSpillNames
                <5>1. mapped' = FALSE
                    BY <1>1, <4>1 DEF Reset
                <5>2. held' = 0
                    BY <1>1, <4>1 DEF Reset
                <5> QED BY <5>1, <5>2
            <4>2. CASE ~(Cardinality(spill) > KeptSpillNames)
                <5>1. mapped' = mapped /\ mapped \in BOOLEAN
                    BY <1>0, <1>1, <4>2 DEF Reset, TypeOK
                <5>2. held' \in Nat
                    BY <1>0, <1>1, <4>2 DEF Reset
                <5> QED BY <5>1, <5>2
            <4> QED BY <4>1, <4>2
        <3>4. asked' \subseteq Names /\ turn' \in BOOLEAN
            BY <1>1, CallTyped DEF Reset
        <3> QED BY <1>0, <1>1, <3>1, <3>2, <3>3, <3>4 DEF Reset, TypeOK
    <2>2. TableSound'
        BY <1>1 DEF Reset, TableSound, SlotsApart, Reachable
    <2>3. MapSound'
        <3>1. IsFiniteSet(spill') /\ Cardinality(spill') = 0 /\ spill' = {}
            BY <1>1, FS_EmptySet DEF Reset
        <3>2. held' <= KeptSpillNames
            <4>1. CASE Cardinality(spill) > KeptSpillNames
                BY <1>1, <4>1, NameSetAssumption DEF Reset
            <4>2. CASE ~(Cardinality(spill) > KeptSpillNames)
                <5>1. Cardinality(spill) \in Nat
                    BY <1>0, FS_CardinalityType DEF MapSound
                <5>2. held' = held
                    BY <1>1, <4>2 DEF Reset
                <5> QED BY <1>0, <4>2, <5>1, <5>2, NameSetAssumption DEF MapSound
            <4> QED BY <4>1, <4>2
        <3> QED BY <3>1, <3>2 DEF MapSound
    <2> QED BY <2>1, <2>2, <2>3 DEF IInv
<1>2. ASSUME NEW name \in Names, AddSpilled(name)
      PROVE  IInv'
    <2>0. asked' \subseteq Names /\ turn' \in BOOLEAN
        BY <1>2, CallTyped DEF AddSpilled
    <2>1. Spill({name}) /\ UNCHANGED <<slots, inline>> /\ added' \in BOOLEAN
        BY <1>2 DEF AddSpilled
    <2>2. MapSound' /\ held' \in Nat /\ mapped' = TRUE
        BY <1>0, <2>1, FS_Singleton, SpillSound
    <2>3. TypeOK'
        BY <1>0, <2>0, <2>1, <2>2 DEF TypeOK, Spill
    <2>4. TableSound'
        BY <1>0, <2>1 DEF TableSound, SlotsApart, Reachable
    <2> QED BY <2>2, <2>3, <2>4 DEF IInv
<1>3. ASSUME NEW name \in Names, AddInline(name)
      PROVE  IInv'
    <2>0. asked' \subseteq Names /\ turn' \in BOOLEAN
        BY <1>3, CallTyped DEF AddInline
    <2>1. PICK d \in Slots :
              /\ FirstStop(name, d)
              /\ IF slots[Probed(name, d)] = 0
                 THEN Insert(name, Probed(name, d)) /\ added' = TRUE
                 ELSE added' = FALSE /\ UNCHANGED <<slots, inline, spill, mapped, held>>
        BY <1>3 DEF AddInline
    <2>2. CASE slots[Probed(name, d)] # 0
        <3>1. UNCHANGED <<slots, inline, spill, mapped, held>> /\ added' = FALSE
            BY <2>1, <2>2
        <3>2. TypeOK'
            BY <1>0, <2>0, <3>1 DEF TypeOK
        <3>3. TableSound' /\ MapSound'
            BY <1>0, <3>1 DEF TableSound, SlotsApart, Reachable, MapSound
        <3> QED BY <3>2, <3>3 DEF IInv
    <2>3. CASE slots[Probed(name, d)] = 0 /\ Len(inline) = InlineNames
        <3>1. Spill(InlineSet \union {name}) /\ UNCHANGED <<slots, inline>> /\ added' = TRUE
            BY <2>1, <2>3 DEF Insert
        <3>2. IsFiniteSet(InlineSet \union {name}) /\ InlineSet \union {name} \subseteq Names
            BY <1>0, InlineFinite, FS_Singleton, FS_Union
        <3>3. MapSound' /\ held' \in Nat /\ mapped' = TRUE
            BY <1>0, <3>1, <3>2, SpillSound
        <3>4. TypeOK'
            BY <1>0, <2>0, <3>1, <3>2, <3>3 DEF TypeOK, Spill
        <3>5. TableSound'
            BY <1>0, <3>1 DEF TableSound, SlotsApart, Reachable
        <3> QED BY <3>3, <3>4, <3>5 DEF IInv
    <2>4. CASE slots[Probed(name, d)] = 0 /\ Len(inline) # InlineNames
        <3>1. /\ inline' = Append(inline, name)
              /\ slots' = [slots EXCEPT ![Probed(name, d)] = Len(inline')]
              /\ UNCHANGED <<spill, mapped, held>> /\ added' = TRUE
            BY <2>1, <2>4 DEF Insert
        <3>2. /\ TableSound'
              /\ inline' \in Seq(Names) /\ Len(inline') <= InlineNames
              /\ slots' \in [Slots -> 0 .. InlineNames]
            BY <1>0, <2>1, <2>4, <3>1, InsertSound
        <3>3. TypeOK'
            BY <1>0, <2>0, <3>1, <3>2 DEF TypeOK
        <3> QED BY <1>0, <3>1, <3>2, <3>3 DEF IInv, MapSound
    <2> QED BY <2>2, <2>3, <2>4
<1>4. CASE UNCHANGED vars
    BY <1>0, <1>4 DEF vars, IInv, TypeOK, TableSound, SlotsApart, Reachable, MapSound
<1> QED BY <1>1, <1>2, <1>3, <1>4 DEF Next

THEOREM Invariance == Spec => []IInv
BY InitInvariant, StepInvariant, PTL DEF Spec

\* The fields of the set stay in their types (nameSet).
THEOREM TypeCorrect == Spec => []TypeOK
<1>1. IInv => TypeOK
    BY DEF IInv
<1> QED BY Invariance, <1>1, PTL

\* The table finds each of its names, for every hash and table size (nameSet.add).
THEOREM TableIsSound == Spec => []TableSound
<1>1. IInv => TableSound
    BY DEF IInv
<1> QED BY Invariance, <1>1, PTL

\* A map kept for reuse never held more than keptSpillNames (nameSet.reset).
THEOREM KeptMapIsSmall == Spec => []KeptMapSmall
<1>1. IInv => KeptMapSmall
    <2> SUFFICES ASSUME IInv
                 PROVE  KeptMapSmall
        OBVIOUS
    <2>1. spill = {} => Cardinality(spill) = 0
        BY FS_EmptySet
    <2>2. Cardinality(spill) \in Nat
        BY FS_CardinalityType DEF IInv, MapSound
    <2> QED BY <2>1, <2>2, NameSetAssumption DEF IInv, MapSound, TypeOK, KeptMapSmall
<1> QED BY Invariance, <1>1, PTL

-----------------------------------------------------------------------------
\* No probe runs forever: fewer names than slots leave one empty (nameSet.add; "the
\* table is at most half full").
THEOREM ProbesEnd == Spec => []ProbeEnds
<1>1. IInv => ProbeEnds
    <2> SUFFICES ASSUME IInv, NEW name \in Names
                 PROVE  \E d \in Slots : Stops(name, d)
        BY DEF ProbeEnds
    <2> DEFINE n == Len(inline)
    <2>1. n \in Nat /\ n <= InlineNames /\ slots \in [Slots -> 0 .. InlineNames]
        BY DEF IInv, TypeOK
    <2>2. \E k \in Slots : slots[k] = 0
        <3>1. SUFFICES ASSUME \A k \in Slots : slots[k] # 0
                       PROVE  FALSE
            OBVIOUS
        <3>2. \A k \in Slots : slots[k] \in 1 .. n
            BY <2>1, <3>1 DEF IInv, TableSound, SlotsApart
        <3>3. slots \in [Slots -> 1 .. n]
            BY <2>1, <3>2
        <3>4. IsFiniteSet(Slots) /\ Cardinality(Slots) = NameSlots
            BY Sizes, FS_Interval DEF Slots
        <3>5. IsFiniteSet(1 .. n) /\ Cardinality(1 .. n) = n
            <4>1. 1 \in Int /\ n \in Int
                BY <2>1
            <4> HIDE DEF n
            <4>2. IsFiniteSet(1 .. n) /\ Cardinality(1 .. n) = IF 1 > n THEN 0 ELSE n - 1 + 1
                BY <4>1, FS_Interval
            <4> QED BY <2>1, <4>2
        <3>6. Cardinality(1 .. n) < Cardinality(Slots)
            BY <2>1, <3>4, <3>5, Sizes
        <3>7. \E k, l \in Slots : k # l /\ slots[k] = slots[l]
            BY <3>3, <3>4, <3>5, <3>6, FS_PigeonHole
        <3> QED BY <3>1, <3>7 DEF IInv, TableSound, SlotsApart
    <2>3. PICK k \in Slots : slots[k] = 0
        BY <2>2
    <2>4. PICK d \in Slots : Probed(name, d) = k
        BY ProbeCovers
    <2> QED BY <2>3, <2>4 DEF Stops
<1> QED BY Invariance, <1>1, PTL

\* A probe that stops at an empty slot was for a name the table does not hold.
LEMMA EmptyStopIsNew ==
    ASSUME TypeOK, TableSound, NEW name \in Names, NEW d \in Slots,
           FirstStop(name, d), slots[Probed(name, d)] = 0
    PROVE  name \notin InlineSet
<1>1. SUFFICES ASSUME NEW i \in 1 .. Len(inline), inline[i] = name
               PROVE  FALSE
    BY DEF InlineSet
<1>2. PICK c \in Slots : /\ slots[Probed(name, c)] = i
                         /\ \A e \in 0 .. c - 1 : slots[Probed(name, e)] # 0
    BY <1>1 DEF TableSound, Reachable
<1>3. c \in Nat /\ d \in Nat
    BY Sizes DEF Slots
<1>4. Stops(name, c)
    BY <1>1, <1>2 DEF Stops
<1>5. ~(c < d)
    <2> SUFFICES ASSUME c < d
                 PROVE  FALSE
        OBVIOUS
    <2>1. c \in 0 .. d - 1
        BY <1>3
    <2> QED BY <1>4, <2>1 DEF FirstStop
<1>6. ~(d < c)
    <2> SUFFICES ASSUME d < c
                 PROVE  FALSE
        OBVIOUS
    <2>1. d \in 0 .. c - 1
        BY <1>3
    <2> QED BY <1>2, <2>1
<1>7. c = d
    BY <1>3, <1>5, <1>6
<1> QED BY <1>2, <1>7

LEMMA StepRefines == IInv /\ [Next]_vars => [Abstract!Next]_(Abstract!vars)
<1> SUFFICES ASSUME IInv, [Next]_vars
             PROVE  [Abstract!Next]_(Abstract!vars)
    OBVIOUS
<1>0. TypeOK /\ TableSound
    BY DEF IInv
<1>1. CASE Reset
    <2>1. Abstract!Reset
        BY <1>1 DEF Reset, Call, Members, InlineSet, Abstract!Reset, Abstract!Call
    <2> QED BY <2>1 DEF Abstract!Next
<1>2. ASSUME NEW name \in Names, AddSpilled(name)
      PROVE  Abstract!Add(name)
    BY <1>2 DEF AddSpilled, Spill, Call, Members, Abstract!Add, Abstract!Call
<1>3. ASSUME NEW name \in Names, AddInline(name)
      PROVE  Abstract!Add(name)
    <2>0. Abstract!Call({name})
        BY <1>3 DEF AddInline, Call, Abstract!Call
    <2>1. PICK d \in Slots :
              /\ FirstStop(name, d)
              /\ IF slots[Probed(name, d)] = 0
                 THEN Insert(name, Probed(name, d)) /\ added' = TRUE
                 ELSE added' = FALSE /\ UNCHANGED <<slots, inline, spill, mapped, held>>
        BY <1>3 DEF AddInline
    <2>2. Members = InlineSet
        BY <1>3 DEF AddInline, Members
    <2>3. CASE slots[Probed(name, d)] # 0
        <3>1. Probed(name, d) \in Slots /\ inline[slots[Probed(name, d)]] = name
            BY <2>1, <2>3, ProbedSlot, Sizes DEF FirstStop, Stops, Slots
        <3>2. slots[Probed(name, d)] \in 1 .. Len(inline)
            BY <1>0, <2>3, <3>1 DEF TypeOK, TableSound, SlotsApart
        <3>3. name \in InlineSet
            BY <3>1, <3>2 DEF InlineSet
        <3>4. Members' = Members /\ added' = FALSE
            BY <2>1, <2>3 DEF Members, InlineSet
        <3> QED BY <2>0, <2>2, <3>3, <3>4 DEF Abstract!Add
    <2>4. CASE slots[Probed(name, d)] = 0
        <3>1. name \notin InlineSet /\ added' = TRUE
            BY <1>0, <2>1, <2>4, EmptyStopIsNew
        <3>2. Members' = InlineSet \union {name}
            <4>1. CASE Len(inline) = InlineNames
                BY <1>3, <2>1, <2>4, <4>1 DEF AddInline, Insert, Spill, Members
            <4>2. CASE Len(inline) # InlineNames
                <5>1. inline' = Append(inline, name) /\ spill' = {}
                    BY <1>3, <2>1, <2>4, <4>2 DEF AddInline, Insert
                <5>2. inline \in Seq(Names)
                    BY <1>0 DEF TypeOK
                <5>3. InlineSet' = InlineSet \union {name}
                    BY <5>1, <5>2 DEF InlineSet
                <5> QED BY <5>1, <5>3 DEF Members
            <4> QED BY <4>1, <4>2
        <3> QED BY <2>0, <2>2, <3>1, <3>2 DEF Abstract!Add
    <2> QED BY <2>3, <2>4
<1>4. CASE UNCHANGED vars
    BY <1>4 DEF vars, Abstract!vars, Members, InlineSet
<1> QED BY <1>1, <1>2, <1>3, <1>4 DEF Next, Abstract!Next

\* The set answers as a set of names would, of the name that each call is given and for
\* every call, whatever the hash, through its spill to the map and its reuse for the next
\* object (nameSet).
THEOREM Refinement == Spec => ImplementsMembership
<1>1. Init => Abstract!Init
    BY DEF Init, Abstract!Init, Members, InlineSet
<1> QED BY <1>1, Invariance, StepRefines, PTL DEF Spec, ImplementsMembership, Abstract!Spec
=============================================================================
