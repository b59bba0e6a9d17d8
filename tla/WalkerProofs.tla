---------------------------- MODULE WalkerProofs ----------------------------
(***************************************************************************)
(* Walker for every word size, number of inline words and bound: its type, *)
(* the shape of its kind stack, and that it implements the pushdown        *)
(* automaton.  The proofs of the steps share one fact, KindStack: setting  *)
(* the level just past the open ones writes that level and no other open   *)
(* one, and grows the spill when, and only when, the level needs it.       *)
(*                                                                         *)
(* Its verdicts are then exact: as far as the walk goes, it and the        *)
(* automaton of BuilderProofs have read the same text and are in the same  *)
(* place, and that automaton reads the values of the grammar and nothing   *)
(* else.                                                                   *)
(***************************************************************************)
EXTENDS MCWalker, SequenceTheorems, TLAPS

\* A level's word and bit address it (kindStack.set and get divide by kindWordBits).
LEMMA DivMod ==
    ASSUME NEW a \in Nat
    PROVE  /\ Index(a) \in Nat
           /\ Bit(a) \in Bits
           /\ a = WordBits * Index(a) + Bit(a)
BY WalkerAssumption, SMTT(30) DEF Index, Bit, Bits

\* Two levels never share a bit.
LEMMA Address ==
    ASSUME NEW a \in Nat, NEW b \in Nat, Index(a) = Index(b), Bit(a) = Bit(b)
    PROVE  a = b
BY DivMod

\* Deeper levels lie in later words, and each level at most one word further.
LEMMA Monotone ==
    ASSUME NEW a \in Nat, NEW b \in Nat, a <= b
    PROVE  Index(a) <= Index(b)
<1> DEFINE i == Index(a)
           j == Index(b)
           W == WordBits
<1>1. SUFFICES ASSUME j < i
               PROVE  FALSE
    BY DivMod
<1>2. i \in Nat /\ j \in Nat /\ W \in Nat /\ W > 0 /\ i >= j + 1
    BY <1>1, DivMod, WalkerAssumption
<1>3. W * i >= W * (j + 1) /\ W * (j + 1) = W * j + W /\ W * i \in Nat /\ W * j \in Nat
    <2> HIDE DEF i, j, W
    <2> QED BY <1>2
<1> QED BY <1>2, <1>3, DivMod DEF Bits

LEMMA NextLevel ==
    ASSUME NEW a \in Nat
    PROVE  Index(a + 1) <= Index(a) + 1
<1> DEFINE i == Index(a)
           j == Index(a + 1)
           W == WordBits
<1>1. SUFFICES ASSUME j >= i + 2
               PROVE  FALSE
    BY DivMod
<1>2. i \in Nat /\ j \in Nat /\ W \in Nat /\ W > 0
    BY DivMod, WalkerAssumption
<1>3. W * j >= W * (i + 2) /\ W * (i + 2) = W * i + W + W /\ W * i \in Nat /\ W * j \in Nat
    <2> HIDE DEF i, j, W
    <2> QED BY <1>1, <1>2
<1> QED BY <1>2, <1>3, DivMod DEF Bits

-----------------------------------------------------------------------------
\* kindStack.set at the level past the open ones: that level alone changes, and the
\* spill holds the words of the levels up to it and of the deepest level before.
LEMMA KindStack ==
    ASSUME TypeOK, SpillFollowsDepth, depth <= deepest,
           NEW kind \in {0, 1}, Set(depth, kind),
           deepest' = IF depth + 1 > deepest THEN depth + 1 ELSE deepest
    PROVE  /\ shallow' \in [0 .. InlineWords - 1 -> Word]
           /\ deep' \in Seq(Word)
           /\ \A d \in 0 .. depth : Get(d)' = IF d = depth THEN kind ELSE Get(d)
           /\ SpillFollowsDepth'
<1> DEFINE k == Index(depth)
           s == k - InlineWords
           grown == Spill(s)
<1>1. /\ k \in Nat /\ Bit(depth) \in Bits
      /\ InlineWords \in Nat /\ InlineWords > 0
      /\ depth \in Nat /\ deepest \in Nat
    BY DivMod, WalkerAssumption DEF TypeOK
<1>2. \A d \in 0 .. depth : Index(d) \in Nat /\ Bit(d) \in Bits /\ Index(d) <= k
    BY <1>1, DivMod, Monotone
<1>3. \A d \in 0 .. depth : d # depth => Index(d) # k \/ Bit(d) # Bit(depth)
    BY <1>1, Address
<1>4. depth < deepest => k <= Index(deepest - 1)
    BY <1>1, Monotone
<1>5. depth = deepest /\ deepest > 0 => k <= Index(deepest - 1) + 1 /\ Index(deepest - 1) <= k
    <2> SUFFICES ASSUME depth = deepest, deepest > 0
                 PROVE  k <= Index(deepest - 1) + 1 /\ Index(deepest - 1) <= k
        OBVIOUS
    <2>1. deepest - 1 \in Nat /\ (deepest - 1) + 1 = depth
        BY <1>1
    <2> QED BY <2>1, NextLevel, Monotone, <1>1
<1>6. deepest = 0 => k = 0
    <2> SUFFICES ASSUME deepest = 0
                 PROVE  k = 0
        OBVIOUS
    <2>1. depth = 0
        BY <1>1
    <2>2. Index(0) = 0
        BY WalkerAssumption DEF Index
    <2> QED BY <2>1, <2>2
<1>7. deepest > 0 => Index(deepest - 1) \in Nat
    BY <1>1, DivMod
<1>8. CASE k < InlineWords
    <2>1. /\ shallow' = [shallow EXCEPT ![k] = WithBit(@, Bit(depth), kind)]
          /\ deep' = deep
        BY <1>8 DEF Set
    <2>2. shallow' \in [0 .. InlineWords - 1 -> Word]
        BY <2>1, <1>1, <1>8 DEF TypeOK, WithBit, Word
    <2>3. \A d \in 0 .. depth : Get(d)' = IF d = depth THEN kind ELSE Get(d)
        BY <2>1, <1>1, <1>2, <1>3, <1>8 DEF Get, WithBit, TypeOK, Word
    <2>4. SpillFollowsDepth'
        BY <2>1, <1>1, <1>4, <1>5, <1>6, <1>7, <1>8 DEF SpillFollowsDepth, Words
    <2> QED BY <2>1, <2>2, <2>3, <2>4 DEF TypeOK
<1>9. CASE ~(k < InlineWords)
    <2>1. /\ deep' = [grown EXCEPT ![s + 1] = WithBit(@, Bit(depth), kind)]
          /\ shallow' = shallow
        BY <1>9 DEF Set
    <2>2. s \in Nat /\ s <= Len(deep)
        BY <1>1, <1>4, <1>5, <1>6, <1>7, <1>9 DEF SpillFollowsDepth, Words
    <2>3. /\ grown \in Seq(Word)
          /\ Len(grown) = IF s = Len(deep) THEN Len(deep) + 1 ELSE Len(deep)
          /\ \A j \in 1 .. Len(deep) : grown[j] = deep[j]
        <3>1. [b \in Bits |-> 0] \in Word
            BY DEF Word
        <3> QED BY <3>1 DEF TypeOK, Spill
    <2>4. s + 1 \in 1 .. Len(grown)
        BY <2>2, <2>3 DEF TypeOK
    <2>5. WithBit(grown[s + 1], Bit(depth), kind) \in Word
        <3>1. grown[s + 1] \in Word
            BY <2>3, <2>4
        <3> QED BY <3>1, <1>1 DEF WithBit, Word
    <2>6. deep' \in Seq(Word) /\ Len(deep') = Len(grown)
        BY <2>1, <2>3, <2>4, <2>5
    <2>7. \A d \in 0 .. depth : Get(d)' = IF d = depth THEN kind ELSE Get(d)
        <3>1. SUFFICES ASSUME NEW d \in 0 .. depth
                       PROVE  Get(d)' = IF d = depth THEN kind ELSE Get(d)
            OBVIOUS
        <3>2. CASE Index(d) < InlineWords
            BY <3>2, <2>1, <1>9 DEF Get
        <3>3. CASE Index(d) >= InlineWords /\ Index(d) # k
            <4>0. Len(deep) \in Nat
                BY DEF TypeOK
            <4>1. Index(d) - InlineWords + 1 \in 1 .. Len(deep) /\ Index(d) - InlineWords + 1 # s + 1
                BY <3>3, <1>1, <1>2, <2>2, <4>0
            <4>2. deep'[Index(d) - InlineWords + 1] = deep[Index(d) - InlineWords + 1]
                BY <4>1, <2>1, <2>3, <2>4
            <4> QED BY <4>2, <3>3, <1>2, <1>1 DEF Get
        <3>4. CASE Index(d) = k
            <4>1. deep'[s + 1] = WithBit(grown[s + 1], Bit(depth), kind)
                BY <2>1, <2>3, <2>4
            <4>2. grown[s + 1] \in Word
                BY <2>3, <2>4
            <4>3. d # depth => deep'[s + 1][Bit(d)] = grown[s + 1][Bit(d)]
                BY <4>1, <4>2, <1>2, <1>3, <3>4 DEF WithBit, Word
            <4>4. d = depth => deep'[s + 1][Bit(d)] = kind
                BY <4>1, <4>2, <1>1 DEF WithBit, Word
            <4>5. d # depth => s + 1 \in 1 .. Len(deep)
                <5> SUFFICES ASSUME d # depth
                             PROVE  s < Len(deep)
                    BY <2>2
                <5>1. depth - 1 \in Nat /\ d <= depth - 1 /\ deepest > 0
                    BY <1>1
                <5>2. Index(depth - 1) = k /\ Index(depth - 1) <= Index(deepest - 1)
                    BY <5>1, <1>1, <1>2, <3>4, Monotone
                <5> QED BY <5>1, <5>2, <1>1, <1>7, <1>9 DEF SpillFollowsDepth, Words
            <4> QED BY <4>3, <4>4, <4>5, <2>3, <3>4, <1>9, <1>1 DEF Get
        <3> QED BY <3>2, <3>3, <3>4, <1>1, <1>2
    <2>8. SpillFollowsDepth'
        BY <2>2, <2>3, <2>6, <1>1, <1>4, <1>5, <1>6, <1>7, <1>9 DEF SpillFollowsDepth, Words
    <2> QED BY <2>1, <2>6, <2>7, <2>8 DEF TypeOK
<1> QED BY <1>8, <1>9

-----------------------------------------------------------------------------
IInv == TypeOK /\ StackSound /\ SpillFollowsDepth

\* A new walker satisfies the invariant.
LEMMA InitInvariant == Init => IInv
<1> SUFFICES ASSUME Init
             PROVE  IInv
    OBVIOUS
<1>1. TypeOK
    BY WalkerAssumption DEF Init, TypeOK, Word, States
<1>2. StackSound
    BY <1>1 DEF Init, StackSound, WithinBound, StateFitsTop
<1>3. SpillFollowsDepth
    BY <1>1, WalkerAssumption DEF Init, TypeOK, SpillFollowsDepth, Words
<1> QED BY <1>1, <1>2, <1>3 DEF IInv

\* What the numbers of a sound walker are, for steps that need no more.
LEMMA Numbers ==
    ASSUME IInv
    PROVE  /\ depth \in Nat /\ deepest \in Nat /\ maxDepth \in Int
           /\ depth <= deepest
           /\ state \in States
<1>1. depth \in Nat /\ deepest \in Nat /\ maxDepth \in Int /\ state \in States
    BY DEF IInv, TypeOK
<1> QED BY <1>1 DEF IInv, StackSound, WithinBound

\* The levels of the open containers lie within the words, so reading one yields a bit.
LEMMA OpenLevel ==
    ASSUME IInv, NEW d \in Nat, d < depth
    PROVE  Get(d) \in {0, 1}
<1>1. depth \in Nat /\ deepest \in Nat /\ deepest - 1 \in Nat /\ d <= deepest - 1
    BY Numbers
<1>2. /\ Index(d) \in Nat /\ Bit(d) \in Bits
      /\ Index(deepest - 1) \in Nat /\ Index(d) <= Index(deepest - 1)
    BY <1>1, DivMod, Monotone
<1>3. InlineWords \in Nat
    BY WalkerAssumption
<1>4. deep \in Seq(Word) /\ shallow \in [0 .. InlineWords - 1 -> Word]
    BY DEF IInv, TypeOK
<1>5. CASE Index(d) < InlineWords
    <2>1. shallow[Index(d)] \in Word
        BY <1>2, <1>3, <1>4, <1>5
    <2> QED BY <2>1, <1>2, <1>5 DEF Get, Word
<1>6. CASE ~(Index(d) < InlineWords)
    <2>1. Index(d) - InlineWords + 1 \in 1 .. Len(deep)
        BY <1>1, <1>2, <1>3, <1>4, <1>6 DEF IInv, SpillFollowsDepth, Words
    <2>2. deep[Index(d) - InlineWords + 1] \in Word
        BY <2>1, <1>4
    <2> QED BY <2>2, <1>2, <1>6 DEF Get, Word
<1> QED BY <1>5, <1>6

\* A step that moves neither the stack nor the words, from a state of a container to
\* another one of the same kind, keeps the kind of the innermost container.
LEMMA SameStack ==
    ASSUME IInv, UNCHANGED <<maxDepth, shallow, deep, depth, deepest>>,
           state' \in States,
           depth = 0 <=> state' \in {"value", "done"},
           depth > 0 => (state' \in ArrayStates <=> state \in ArrayStates),
           maxDepth < 0 => state' = "value",
           scanning' # "none" => verdict' = "walking",
           scanning' \in {"none", "string", "badString"},
           verdict' \in {"walking", "value", "valid", "refused"}
    PROVE  IInv'
<1>1. TypeOK'
    BY DEF IInv, TypeOK
<1>2. WithinBound'
    BY DEF IInv, StackSound, WithinBound
<1>3. StateFitsTop'
    BY DEF IInv, StackSound, StateFitsTop, Get
<1>4. SpillFollowsDepth'
    BY DEF IInv, SpillFollowsDepth
<1> QED BY <1>1, <1>2, <1>3, <1>4 DEF IInv, StackSound

\* Where the table leads from each state: never from one grammar to the other.
LEMMA Table ==
    ASSUME NEW s \in States, NEW t \in Takes[s]
    PROVE  /\ t \in {"string", "badString", "scalar", "badScalar", "comma", "colon"} =>
                 /\ s # "done" /\ Past[s] \in States
                 /\ Past[s] \in {"value", "done"} <=> s \in {"value", "done"}
                 /\ Past[s] \in ArrayStates <=> s \in ArrayStates
           /\ t \in {"closeObject", "closeArray"} => s \notin {"value", "done"}
<1> DEFINE Fits(q) ==
           \A u \in Takes[q] :
               /\ u \in {"string", "badString", "scalar", "badScalar", "comma", "colon"} =>
                     /\ q # "done" /\ Past[q] \in States
                     /\ Past[q] \in {"value", "done"} <=> q \in {"value", "done"}
                     /\ Past[q] \in ArrayStates <=> q \in ArrayStates
               /\ u \in {"closeObject", "closeArray"} => q \notin {"value", "done"}
<1>1. Fits("value") /\ Fits("arrayFirst") /\ Fits("arrayValue") /\ Fits("arrayAfter")
    BY DEF Takes, Past, States, ArrayStates, ValueTokens, StringTokens, ScalarTokens
<1>2. Fits("objectFirst") /\ Fits("name") /\ Fits("colon")
    BY DEF Takes, Past, States, ArrayStates, ValueTokens, StringTokens, ScalarTokens
<1>3. Fits("memberValue") /\ Fits("objectAfter") /\ Fits("done")
    BY DEF Takes, Past, States, ArrayStates, ValueTokens, StringTokens, ScalarTokens
<1>4. \A q \in States : Fits(q)
    <2> HIDE DEF Fits
    <2> QED BY <1>1, <1>2, <1>3 DEF States
<1> QED BY <1>4

\* Every step of the walker keeps the invariant.
LEMMA StepInvariant == IInv /\ [Next]_vars => IInv'
<1> SUFFICES ASSUME IInv, [Next]_vars
             PROVE  IInv'
    OBVIOUS
<1>0. depth \in Nat /\ deepest \in Nat /\ maxDepth \in Int /\ depth <= deepest
    BY Numbers
<1>s. state \in States
    BY Numbers
<1>a. /\ scanning \in {"none", "string", "badString"}
      /\ verdict \in {"walking", "value", "valid", "refused"}
      /\ scanning # "none" => verdict = "walking"
    BY DEF IInv, TypeOK, StackSound
<1>b. /\ depth = 0 <=> state \in {"value", "done"}
      /\ maxDepth < 0 => depth = 0 /\ state = "value"
    BY DEF IInv, StackSound, StateFitsTop, WithinBound
<1>1. CASE Refuse
    BY <1>s, <1>1, <1>a, <1>b, SameStack DEF Refuse, Read, walker
<1>2. CASE Scalar
    <2>1. PICK t \in ScalarTokens : Read(t) /\ t \in Takes[state] /\ state' \in {state, Past[state]}
        BY <1>2 DEF Scalar
    <2>2. maxDepth < 0 => FALSE
        BY <2>1 DEF Read, ScalarTokens
    <2>3. /\ UNCHANGED <<maxDepth, shallow, deep, depth, deepest, scanning>>
          /\ verdict' \in {verdict, "refused"} /\ scanning = "none"
        BY <1>2 DEF Scalar, Read
    <2>4. /\ Past[state] \in States
          /\ Past[state] \in {"value", "done"} <=> state \in {"value", "done"}
          /\ Past[state] \in ArrayStates <=> state \in ArrayStates
        BY <1>s, <2>1, Table DEF ScalarTokens
    <2> QED BY <1>s, <1>a, <1>b, <2>1, <2>2, <2>3, <2>4, SameStack
<1>3. CASE Quote
    <2>1. PICK t \in StringTokens : /\ Read(t) /\ t \in Takes[state]
                                     /\ state' = Past[state] /\ scanning' = t
        BY <1>3 DEF Quote
    <2>2. maxDepth < 0 => FALSE
        BY <2>1 DEF Read, StringTokens
    <2> QED BY <1>s, <1>3, <1>a, <1>b, <2>1, <2>2, SameStack, Table DEF Quote, Read, StringTokens
<1>4. CASE ScanString
    BY <1>s, <1>4, <1>a, <1>b, SameStack DEF ScanString, walker
<1>5. CASE Separator
    <2>1. PICK t \in {"comma", "colon"} : Read(t) /\ t \in Takes[state] /\ state' = Past[state]
        BY <1>5 DEF Separator
    <2>2. maxDepth < 0 => FALSE
        BY <2>1 DEF Read
    <2> QED BY <1>s, <1>5, <1>a, <1>b, <2>1, <2>2, SameStack, Table DEF Separator
<1>6. CASE Open
    <2>1. PICK t \in {"openObject", "openArray"} :
              /\ Read(t) /\ t \in Takes[state]
              /\ IF depth >= maxDepth
                 THEN verdict' = "refused" /\ UNCHANGED <<shallow, deep, depth, state, deepest>>
                 ELSE /\ Set(depth, KindOf[t])
                      /\ depth' = depth + 1
                      /\ state' = IF t = "openObject" THEN "objectFirst" ELSE "arrayFirst"
                      /\ deepest' = IF depth' > deepest THEN depth' ELSE deepest
                      /\ UNCHANGED verdict
              /\ UNCHANGED <<maxDepth, scanning>>
        BY <1>6 DEF Open
    <2>2. CASE depth >= maxDepth
        BY <1>s, <1>a, <1>b, <2>1, <2>2, SameStack DEF Read
    <2>3. CASE ~(depth >= maxDepth)
        <3>1. KindOf[t] = IF t = "openObject" THEN 0 ELSE 1
            BY DEF KindOf
        <3>2. /\ shallow' \in [0 .. InlineWords - 1 -> Word]
              /\ deep' \in Seq(Word)
              /\ \A d \in 0 .. depth : Get(d)' = IF d = depth THEN KindOf[t] ELSE Get(d)
              /\ SpillFollowsDepth'
            <4>1. deepest' = IF depth + 1 > deepest THEN depth + 1 ELSE deepest
                BY <2>1, <2>3
            <4>2. KindOf[t] \in {0, 1}
                BY <3>1
            <4> QED BY <1>0, <2>1, <2>3, <4>1, <4>2, KindStack DEF IInv
        <3>3. depth' = depth + 1 /\ deepest' \in Nat /\ depth' <= deepest' /\ depth' <= maxDepth
            <4>1. depth' = depth + 1 /\ deepest' = IF depth + 1 > deepest THEN depth + 1 ELSE deepest
                BY <2>1, <2>3
            <4>2. depth' \in Nat /\ deepest' \in Nat
                BY <1>0, <4>1
            <4>3. depth' <= deepest'
                BY <1>0, <4>1, <4>2
            <4>4. depth' <= maxDepth
                BY <1>0, <2>3, <4>1, <4>2
            <4> QED BY <4>1, <4>2, <4>3, <4>4
        <3>9. UNCHANGED <<maxDepth, scanning, verdict>>
            BY <2>1, <2>3
        <3>4. state' \in States /\ (state' \in ArrayStates <=> t = "openArray") /\ state' \notin {"value", "done"}
            BY <2>1, <2>3 DEF States, ArrayStates
        <3>5. TypeOK'
            BY <1>0, <1>a, <3>2, <3>3, <3>4, <3>9 DEF TypeOK
        <3>6. WithinBound'
            BY <1>0, <3>3, <3>9 DEF WithinBound
        <3>7. Get(depth - 1)' = KindOf[t]
            <4>1. depth' - 1 \in 0 .. depth /\ depth' - 1 = depth
                BY <1>0, <3>3
            <4> QED BY <3>2, <4>1 DEF Get
        <3>8. StateFitsTop'
            BY <1>0, <3>1, <3>3, <3>4, <3>7 DEF StateFitsTop
        <3> QED BY <1>a, <3>2, <3>5, <3>6, <3>8, <3>9 DEF IInv, StackSound
    <2> QED BY <2>2, <2>3
<1>7. CASE Close
    <2>1. /\ depth' = depth - 1
          /\ state \notin {"value", "done"}
          /\ state' = Closed(depth')
          /\ UNCHANGED <<maxDepth, shallow, deep, scanning, verdict, deepest>>
        BY <1>s, <1>7, Table DEF Close
    <2>2. depth > 0 /\ depth' \in Nat /\ depth' < depth
        BY <1>0, <1>b, <2>1
    <2>3. depth' > 0 => Get(depth' - 1) \in {0, 1}
        BY <1>0, <2>2, OpenLevel
    <2>4. /\ state' \in States
          /\ depth' = 0 <=> state' \in {"value", "done"}
          /\ depth' > 0 => Get(depth' - 1) = IF state' \in ArrayStates THEN 1 ELSE 0
        BY <2>1, <2>2, <2>3 DEF Closed, KindOf, States, ArrayStates
    <2>5. Get(depth - 1)' = Get(depth' - 1)
        BY <2>1 DEF Get
    <2>6. TypeOK'
        BY <2>1, <2>2, <2>4 DEF TypeOK, IInv
    <2>7. StateFitsTop'
        BY <2>4, <2>5 DEF StateFitsTop
    <2>8. WithinBound'
        BY <1>0, <1>b, <2>1, <2>2 DEF WithinBound, IInv, StackSound
    <2> QED BY <1>a, <2>1, <2>6, <2>7, <2>8 DEF SpillFollowsDepth, IInv, StackSound
<1>8. CASE EndOfValue
    BY <1>s, <1>8, <1>a, <1>b, SameStack DEF EndOfValue, walker
<1>9. CASE Document
    BY <1>s, <1>9, <1>a, <1>b, SameStack DEF Document, walker
<1>10. CASE Top
    <2>1. TypeOK'
        BY <1>10 DEF Top, TypeOK, IInv, States
    <2>2. WithinBound'
        BY <1>0, <1>10 DEF Top, WithinBound
    <2>3. StateFitsTop'
        BY <1>10 DEF Top, StateFitsTop
    <2> QED BY <1>10, <1>a, <2>1, <2>2, <2>3 DEF Top, SpillFollowsDepth, IInv, StackSound
<1>11. CASE UNCHANGED vars
    BY <1>s, <1>11, <1>a, <1>b, SameStack DEF vars
<1> QED BY <1>1, <1>2, <1>3, <1>4, <1>5, <1>6, <1>7, <1>8, <1>9, <1>10, <1>11 DEF Next

THEOREM Invariance == Spec => []IInv
BY InitInvariant, StepInvariant, PTL DEF Spec

\* The fields of the walker stay in their types (walker, kindStack).
THEOREM TypeCorrect == Spec => []TypeOK
<1>1. IInv => TypeOK
    BY DEF IInv
<1> QED BY Invariance, <1>1, PTL

\* The state of the walk and its stack agree: no more containers are open than the
\* bound allows, and the bit of the innermost one names the grammar the state is of.
THEOREM StackIsSound == Spec => []StackSound
<1>1. IInv => StackSound
    BY DEF IInv
<1> QED BY Invariance, <1>1, PTL

\* The spill is as long as the deepest level reached needs, and no longer.
THEOREM SpillIsExact == Spec => []SpillFollowsDepth
<1>1. IInv => SpillFollowsDepth
    BY DEF IInv
<1> QED BY Invariance, <1>1, PTL

-----------------------------------------------------------------------------
(* The refinement.                                                         *)

\* The open containers, as a sequence: as many as depth, the innermost last, of the
\* kind whose grammar the state is of, which says what follows a value.
LEMMA Kinds ==
    ASSUME IInv
    PROVE  /\ Len(OpenKinds) = depth
           /\ depth = 0 => OpenKinds = << >>
           /\ depth > 0 => /\ OpenKinds # << >>
                           /\ OpenKinds[Len(OpenKinds)] =
                                IF state \in ArrayStates THEN "array" ELSE "object"
           /\ Abstract!Around(OpenKinds) = IF depth = 0 THEN "done"
                                           ELSE IF state \in ArrayStates THEN "arrayAfter"
                                           ELSE "objectAfter"
<1>1. depth \in Nat
    BY Numbers
<1>2. OpenKinds \in Seq({"object", "array"}) /\ Len(OpenKinds) = depth
    BY <1>1 DEF OpenKinds
<1>3. depth = 0 => OpenKinds = << >>
    BY <1>2
<1>4. depth > 0 => OpenKinds # << >>
    BY <1>1, <1>2
<1>5. depth > 0 => OpenKinds[depth] = IF state \in ArrayStates THEN "array" ELSE "object"
    <2> SUFFICES ASSUME depth > 0
                 PROVE  OpenKinds[depth] = IF state \in ArrayStates THEN "array" ELSE "object"
        OBVIOUS
    <2>1. OpenKinds[depth] = IF Get(depth - 1) = 0 THEN "object" ELSE "array"
        BY <1>1 DEF OpenKinds, KindOf
    <2>2. Get(depth - 1) = IF state \in ArrayStates THEN 1 ELSE 0
        BY DEF IInv, StackSound, StateFitsTop
    <2> QED BY <2>1, <2>2
<1> QED BY <1>1, <1>2, <1>3, <1>4, <1>5 DEF Abstract!Around, Abstract!AfterItem

LEMMA SameKinds ==
    ASSUME UNCHANGED <<shallow, deep, depth>>
    PROVE  OpenKinds' = OpenKinds
BY DEF OpenKinds, Get

\* Where the walker may read a token, and what the table says of it, in the terms of
\* the pushdown automaton.
LEMMA TableMeans ==
    ASSUME NEW s \in States, NEW t \in Takes[s]
    PROVE  /\ t \in ScalarTokens \union {"openObject", "openArray"} =>
                 s \in Abstract!ValueStates
           /\ t \in StringTokens => s \in Abstract!ValueStates \union {"objectFirst", "name"}
           /\ t \in ScalarTokens \union StringTokens /\ s \in Abstract!ValueStates =>
                 Past[s] = IF s = "value" THEN "done"
                           ELSE IF s \in ArrayStates THEN "arrayAfter" ELSE "objectAfter"
           /\ s \in {"objectFirst", "name"} => Past[s] = "colon"
           /\ t \in {"comma", "colon"} =>
                 \/ s = "arrayAfter"  /\ Past[s] = "arrayValue"
                 \/ s = "objectAfter" /\ Past[s] = "name"
                 \/ s = "colon"       /\ Past[s] = "memberValue"
           /\ t = "closeObject" => s \in {"objectFirst", "objectAfter"}
           /\ t = "closeArray" => s \in {"arrayFirst", "arrayAfter"}
BY DEF Takes, Past, States, ArrayStates, ValueTokens, StringTokens, ScalarTokens, Abstract!ValueStates

\* An opener within the bound pushes its kind.
LEMMA OpenPushes ==
    ASSUME IInv, NEW t \in {"openObject", "openArray"}, Set(depth, KindOf[t]),
           depth' = depth + 1, deepest' = IF depth + 1 > deepest THEN depth + 1 ELSE deepest
    PROVE  OpenKinds' = Append(OpenKinds, IF t = "openObject" THEN "object" ELSE "array")
<1> DEFINE kind == IF t = "openObject" THEN "object" ELSE "array"
<1>0. depth \in Nat
    BY Numbers
<1>1. KindOf[t] \in {0, 1} /\ (KindOf[t] = 0 <=> t = "openObject")
    BY DEF KindOf
<1>2. \A d \in 0 .. depth : Get(d)' = IF d = depth THEN KindOf[t] ELSE Get(d)
    BY <1>1, KindStack, Numbers DEF IInv
<1>3. OpenKinds' = [d \in 1 .. depth + 1 |-> IF Get(d - 1)' = 0 THEN "object" ELSE "array"]
    BY DEF OpenKinds, KindOf, Get
<1>4. \A d \in 1 .. depth + 1 :
          Get(d - 1)' = IF d = depth + 1 THEN KindOf[t] ELSE Get(d - 1)
    <2>1. SUFFICES ASSUME NEW d \in 1 .. depth + 1
                   PROVE  Get(d - 1)' = IF d = depth + 1 THEN KindOf[t] ELSE Get(d - 1)
        OBVIOUS
    <2>2. d - 1 \in 0 .. depth /\ (d - 1 = depth <=> d = depth + 1)
        BY <1>0
    <2> QED BY <1>2, <2>2
<1>5. OpenKinds = [d \in 1 .. depth |-> IF Get(d - 1) = 0 THEN "object" ELSE "array"]
    BY DEF OpenKinds, KindOf
<1>6. /\ OpenKinds \in Seq({"object", "array"}) /\ Len(OpenKinds) = depth
      /\ OpenKinds' \in Seq({"object", "array"}) /\ Len(OpenKinds') = depth + 1
    BY <1>0, <1>3, <1>5
<1>7. \A d \in 1 .. depth + 1 : OpenKinds'[d] = Append(OpenKinds, kind)[d]
    <2>1. SUFFICES ASSUME NEW d \in 1 .. depth + 1
                   PROVE  OpenKinds'[d] = Append(OpenKinds, kind)[d]
        OBVIOUS
    <2>2. CASE d = depth + 1
        <3>1. Append(OpenKinds, kind)[d] = kind
            BY <1>6, <2>2
        <3>2. OpenKinds'[d] = kind
            BY <1>1, <1>3, <1>4, <2>2
        <3> QED BY <3>1, <3>2
    <2>3. CASE d # depth + 1
        <3>1. d \in 1 .. depth
            BY <1>0, <2>3
        <3>2. Append(OpenKinds, kind)[d] = OpenKinds[d]
            BY <1>6, <3>1
        <3>3. OpenKinds'[d] = OpenKinds[d]
            BY <1>3, <1>4, <1>5, <2>3, <3>1
        <3> QED BY <3>2, <3>3
    <2> QED BY <2>2, <2>3
<1>8. Append(OpenKinds, kind) \in Seq({"object", "array"}) /\ Len(Append(OpenKinds, kind)) = depth + 1
    BY <1>6
<1> QED BY <1>6, <1>7, <1>8, SeqEqual

\* A closer that the state takes is of the kind on top, which it pops.
LEMMA ClosePops ==
    ASSUME IInv, IInv', NEW t \in {"closeObject", "closeArray"}, t \in Takes[state],
           depth' = depth - 1, state' = Closed(depth'),
           UNCHANGED <<maxDepth, shallow, deep, scanning, verdict, deepest>>,
           NEW kind, kind = IF t = "closeObject" THEN "object" ELSE "array"
    PROVE  /\ state \in IF kind = "object" THEN {"objectFirst", "objectAfter"}
                                          ELSE {"arrayFirst", "arrayAfter"}
           /\ OpenKinds # << >> /\ OpenKinds[Len(OpenKinds)] = kind
           /\ OpenKinds' = SubSeq(OpenKinds, 1, Len(OpenKinds) - 1)
           /\ state' = Abstract!Around(OpenKinds')
<1>0. depth \in Nat /\ state \in States
    BY Numbers
<1>b. depth = 0 <=> state \in {"value", "done"}
    BY DEF IInv, StackSound, StateFitsTop
<1>k. /\ Len(OpenKinds) = depth
      /\ depth > 0 => OpenKinds # << >>
      /\ depth > 0 => OpenKinds[Len(OpenKinds)] =
                         IF state \in ArrayStates THEN "array" ELSE "object"
    BY Kinds
<1>1. state \in IF kind = "object" THEN {"objectFirst", "objectAfter"}
                                   ELSE {"arrayFirst", "arrayAfter"}
    BY <1>0, TableMeans
<1>2. depth > 0 /\ OpenKinds # << >> /\ OpenKinds[Len(OpenKinds)] = kind
    <2>1. depth # 0 /\ (state \in ArrayStates <=> kind = "array")
        BY <1>b, <1>1 DEF ArrayStates
    <2> QED BY <1>0, <1>k, <2>1
<1>3. OpenKinds' = [d \in 1 .. depth - 1 |-> IF Get(d - 1) = 0 THEN "object" ELSE "array"]
    BY DEF OpenKinds, Get, KindOf
<1>4. OpenKinds' = SubSeq(OpenKinds, 1, Len(OpenKinds) - 1)
    <2>1. OpenKinds = [d \in 1 .. depth |-> IF Get(d - 1) = 0 THEN "object" ELSE "array"]
        BY DEF OpenKinds, KindOf
    <2> QED BY <1>0, <1>k, <1>2, <1>3, <2>1
<1>5. state' = Abstract!Around(OpenKinds')
    <2>1. /\ depth' \in Nat /\ Len(OpenKinds') = depth'
          /\ Abstract!Around(OpenKinds') =
                IF depth' = 0 THEN "done"
                ELSE IF state' \in ArrayStates THEN "arrayAfter" ELSE "objectAfter"
        <3>1. (/\ Len(OpenKinds) = depth
               /\ Abstract!Around(OpenKinds) =
                    IF depth = 0 THEN "done"
                    ELSE IF state \in ArrayStates THEN "arrayAfter" ELSE "objectAfter")'
            BY Kinds, PTL
        <3> QED BY <1>0, <1>2, <3>1
    <2>2. /\ depth' = 0 => state' = "done"
          /\ depth' > 0 => state' \in {"arrayAfter", "objectAfter"}
        BY <2>1 DEF Closed
    <2>3. CASE depth' = 0
        BY <2>1, <2>2, <2>3
    <2>4. CASE depth' > 0
        <3>1. state' \in ArrayStates <=> state' = "arrayAfter"
            BY <2>2, <2>4 DEF ArrayStates
        <3> QED BY <2>1, <2>2, <2>4, <3>1
    <2>5. depth' = 0 \/ depth' > 0
        BY <1>0, <1>2
    <2> QED BY <2>3, <2>4, <2>5, Zenon
<1> QED BY <1>1, <1>2, <1>4, <1>5

\* Every step of the walker is a step of the pushdown automaton, or none.
LEMMA StepRefines == IInv /\ IInv' /\ [Next]_vars => [Abstract!Next]_(Abstract!vars)
<1> SUFFICES ASSUME IInv, IInv', [Next]_vars
             PROVE  [Abstract!Next]_(Abstract!vars)
    OBVIOUS
<1>0. depth \in Nat /\ maxDepth \in Int
    BY Numbers
<1>s. state \in States
    BY Numbers
<1>b. /\ depth = 0 <=> state \in {"value", "done"}
      /\ scanning # "none" => verdict = "walking"
    BY DEF IInv, StackSound, StateFitsTop
<1>k. /\ Len(OpenKinds) = depth
      /\ depth = 0 => OpenKinds = << >>
      /\ depth > 0 => OpenKinds # << >>
      /\ depth > 0 => OpenKinds[Len(OpenKinds)] =
                         IF state \in ArrayStates THEN "array" ELSE "object"
    BY Kinds
<1>a. Abstract!Around(OpenKinds) = IF state = "value" \/ state = "done" THEN "done"
                                   ELSE IF state \in ArrayStates THEN "arrayAfter"
                                   ELSE "objectAfter"
    BY <1>b, Kinds
<1>1. CASE Refuse
    <2>1. Abstract!Refuse
        BY <1>1, SameKinds DEF Refuse, Read, walker, Abstract!Refuse
    <2> QED BY <2>1 DEF Abstract!Next
<1>2. CASE Scalar
    <2>1. PICK t \in ScalarTokens :
              /\ Read(t) /\ t \in Takes[state]
              /\ IF t = "scalar" THEN state' = Past[state] /\ UNCHANGED verdict
                                 ELSE verdict' = "refused" /\ UNCHANGED state
        BY <1>2 DEF Scalar
    <2>2. UNCHANGED <<maxDepth, OpenKinds>>
        BY <1>2, SameKinds DEF Scalar
    <2>3. CASE t = "scalar"
        <3>1. state \in Abstract!ValueStates
            BY <1>s, <2>1, <2>3, TableMeans DEF ScalarTokens
        <3>2. Past[state] = IF state = "value" THEN "done"
                            ELSE IF state \in ArrayStates THEN "arrayAfter" ELSE "objectAfter"
            BY <1>s, <2>1, <3>1, TableMeans
        <3>3. state # "done" /\ Abstract!Walking
            BY <1>0, <2>1, <2>3 DEF Read, Abstract!Walking
        <3>4. Abstract!Item
            BY <1>a, <2>1, <2>2, <2>3, <3>1, <3>2, <3>3 DEF Abstract!Item
        <3> QED BY <3>4 DEF Abstract!Next
    <2>4. CASE t # "scalar"
        <3>1. Abstract!Refuse
            BY <2>1, <2>2, <2>4 DEF Abstract!Refuse, Read
        <3> QED BY <3>1 DEF Abstract!Next
    <2> QED BY <2>3, <2>4
<1>3. CASE Quote
    <2>1. PICK t \in StringTokens : Read(t) /\ t \in Takes[state] /\ state' = Past[state]
        BY <1>3 DEF Quote
    <2>2. UNCHANGED <<maxDepth, OpenKinds, verdict>>
        BY <1>3, SameKinds DEF Quote
    <2>3. Abstract!Walking /\ state # "done"
        BY <1>0, <2>1 DEF Read, Abstract!Walking, StringTokens
    <2>4. CASE state \in Abstract!ValueStates
        <3>1. Past[state] = IF state = "value" THEN "done"
                            ELSE IF state \in ArrayStates THEN "arrayAfter" ELSE "objectAfter"
            BY <1>s, <2>1, <2>4, TableMeans
        <3>2. Abstract!Item
            BY <1>a, <2>1, <2>2, <2>3, <2>4, <3>1 DEF Abstract!Item
        <3> QED BY <3>2 DEF Abstract!Next
    <2>5. CASE state \notin Abstract!ValueStates
        <3>1. state \in {"objectFirst", "name"} /\ Past[state] = "colon"
            BY <1>s, <2>1, <2>5, TableMeans
        <3>2. Abstract!Name
            BY <2>1, <2>2, <2>3, <3>1 DEF Abstract!Name
        <3> QED BY <3>2 DEF Abstract!Next
    <2> QED BY <2>4, <2>5
<1>4. CASE ScanString
    <2>1. UNCHANGED <<maxDepth, OpenKinds, state>>
        BY <1>4, SameKinds DEF ScanString, walker
    <2>2. verdict = "walking" /\ verdict' \in {"refused", verdict}
        BY <1>4, <1>b DEF ScanString
    <2>3. CASE verdict' = "refused"
        <3>1. Abstract!Refuse
            BY <2>1, <2>2, <2>3 DEF Abstract!Refuse
        <3> QED BY <3>1 DEF Abstract!Next
    <2>4. CASE verdict' = verdict
        BY <2>1, <2>4 DEF Abstract!vars
    <2> QED BY <2>2, <2>3, <2>4
<1>5. CASE Separator
    <2>1. PICK t \in {"comma", "colon"} : Read(t) /\ t \in Takes[state] /\ state' = Past[state]
        BY <1>5 DEF Separator
    <2>2. UNCHANGED <<maxDepth, OpenKinds, verdict>>
        BY <1>5, SameKinds DEF Separator
    <2>3. Abstract!Walking
        BY <1>0, <2>1 DEF Read, Abstract!Walking
    <2>4. \/ state = "arrayAfter"  /\ Past[state] = "arrayValue"
          \/ state = "objectAfter" /\ Past[state] = "name"
          \/ state = "colon"       /\ Past[state] = "memberValue"
        BY <1>s, <2>1, TableMeans
    <2>5. Abstract!Separator
        BY <2>1, <2>2, <2>3, <2>4 DEF Abstract!Separator
    <2> QED BY <2>5 DEF Abstract!Next
<1>6. CASE Open
    <2>1. PICK t \in {"openObject", "openArray"} :
              /\ Read(t) /\ t \in Takes[state]
              /\ IF depth >= maxDepth
                 THEN verdict' = "refused" /\ UNCHANGED <<shallow, deep, depth, state, deepest>>
                 ELSE /\ Set(depth, KindOf[t])
                      /\ depth' = depth + 1
                      /\ state' = IF t = "openObject" THEN "objectFirst" ELSE "arrayFirst"
                      /\ deepest' = IF depth' > deepest THEN depth' ELSE deepest
                      /\ UNCHANGED verdict
              /\ UNCHANGED <<maxDepth, scanning>>
        BY <1>6 DEF Open
    <2>2. CASE depth >= maxDepth
        <3>1. UNCHANGED <<maxDepth, OpenKinds, state>>
            BY <2>1, <2>2, SameKinds
        <3>2. Abstract!Refuse
            BY <2>1, <2>2, <3>1 DEF Abstract!Refuse, Read
        <3> QED BY <3>2 DEF Abstract!Next
    <2>3. CASE ~(depth >= maxDepth)
        <3> DEFINE kind == IF t = "openObject" THEN "object" ELSE "array"
        <3>1. KindOf[t] \in {0, 1} /\ (KindOf[t] = 0 <=> t = "openObject")
            BY DEF KindOf
        <3>2. depth' = depth + 1 /\ deepest' = IF depth + 1 > deepest THEN depth + 1 ELSE deepest
            BY <2>1, <2>3
        <3>7. OpenKinds' = Append(OpenKinds, kind)
            BY <2>1, <2>3, <3>2, OpenPushes
        <3>8. state \in Abstract!ValueStates
            BY <1>s, <2>1, TableMeans
        <3>9. Abstract!Walking
            BY <1>0, <2>1, <2>3 DEF Read, Abstract!Walking
        <3>10. kind \in Abstract!Kinds /\ (kind = "object" <=> t = "openObject")
            BY DEF Abstract!Kinds
        <3>11. Len(OpenKinds) < maxDepth
            BY <1>0, <1>k, <2>3
        <3>12. Abstract!Open(kind)
            <4> HIDE DEF kind
            <4> QED BY <2>1, <2>3, <3>7, <3>8, <3>9, <3>10, <3>11 DEF Abstract!Open
        <3> QED BY <3>10, <3>12 DEF Abstract!Next
    <2> QED BY <2>2, <2>3
<1>7. CASE Close
    <2>1. PICK t \in {"closeObject", "closeArray"} : Read(t) /\ t \in Takes[state]
        BY <1>7 DEF Close
    <2>2. /\ depth' = depth - 1
          /\ state' = Closed(depth')
          /\ UNCHANGED <<maxDepth, shallow, deep, scanning, verdict, deepest>>
        BY <1>7 DEF Close
    <2> DEFINE kind == IF t = "closeObject" THEN "object" ELSE "array"
    <2>3. /\ state \in IF kind = "object" THEN {"objectFirst", "objectAfter"}
                                         ELSE {"arrayFirst", "arrayAfter"}
          /\ OpenKinds # << >> /\ OpenKinds[Len(OpenKinds)] = kind
          /\ OpenKinds' = SubSeq(OpenKinds, 1, Len(OpenKinds) - 1)
          /\ state' = Abstract!Around(OpenKinds')
        BY <2>1, <2>2, ClosePops
    <2>8. Abstract!Walking
        BY <1>0, <2>1 DEF Read, Abstract!Walking
    <2>9. kind \in Abstract!Kinds
        BY DEF Abstract!Kinds
    <2>10. Abstract!Close(kind)
        <3> HIDE DEF kind
        <3> QED BY <2>2, <2>3, <2>8 DEF Abstract!Close
    <2> QED BY <2>9, <2>10 DEF Abstract!Next
<1>8. CASE EndOfValue
    <2>1. OpenKinds = << >> /\ maxDepth >= 0
        <3>1. depth = 0
            BY <1>8, <1>b DEF EndOfValue
        <3>2. maxDepth < 0 => state = "value"
            BY DEF IInv, StackSound, WithinBound
        <3> QED BY <1>0, <1>8, <1>k, <3>1, <3>2 DEF EndOfValue
    <2>2. Abstract!End
        BY <1>8, <2>1, SameKinds DEF EndOfValue, walker, Abstract!End, Abstract!Walking
    <2> QED BY <2>2 DEF Abstract!Next
<1>9. CASE Document
    <2>1. UNCHANGED <<maxDepth, OpenKinds, state>>
        BY <1>9, SameKinds DEF Document, walker
    <2>2. Abstract!Document \/ Abstract!Refuse
        BY <1>9, <2>1 DEF Document, Abstract!Document, Abstract!Refuse
    <2> QED BY <2>2 DEF Abstract!Next
<1>10. CASE Top
    <2>1. OpenKinds' = << >>
        BY <1>10 DEF Top, OpenKinds
    <2>2. Abstract!Again
        BY <1>10, <2>1 DEF Top, Abstract!Again
    <2> QED BY <2>2 DEF Abstract!Next
<1>11. CASE UNCHANGED vars
    BY <1>11, SameKinds DEF vars, Abstract!vars
<1> QED BY <1>1, <1>2, <1>3, <1>4, <1>5, <1>6, <1>7, <1>8, <1>9, <1>10, <1>11 DEF Next

\* The walker of validate.go implements the pushdown automaton, for every word size,
\* every number of inline words and every bound: neither the bits that closed containers
\* leave behind nor the move of the deep levels to the spill shows in what it accepts.
THEOREM Refinement == Spec => ImplementsPushdown
<1>1. Init => Abstract!Init
    <2> SUFFICES ASSUME Init
                 PROVE  Abstract!Init
        OBVIOUS
    <2>1. OpenKinds = << >>
        BY DEF Init, OpenKinds
    <2> QED BY <2>1, WalkerAssumption DEF Init, Abstract!Init
<1> QED BY <1>1, Invariance, StepRefines, PTL DEF Spec, ImplementsPushdown, Abstract!Spec

-----------------------------------------------------------------------------
(* What the walker reads, against the grammar.  The lemmas of              *)
(* BuilderProofs on texts are about the automaton and the grammar alone:   *)
(* they name no variable of the Builder, which is why any value may stand  *)
(* for those here.                                                         *)

Text == INSTANCE BuilderProofs WITH
    Lengths <- {}, MaxWritten <- MaxRead, MaxNesting <- MaxNesting,
    buf <- read, needSep <- FALSE, open <- << >>, owed <- FALSE

\* The assumptions of those lemmas.
LEMMA TextBounds == {} \subseteq Nat /\ Text!BoundsAssumption
BY BoundsAssumption DEF Text!BoundsAssumption

\* The grammar is the one that VerdictsExact compares with.
LEMMA SameGrammar ==
    /\ Json!Values = Text!Json!Values
    /\ Json!Documents = Text!Json!Documents
    /\ Json!Viable = Text!Json!Viable
<1>1. Json!Values = Text!Json!Values
    BY DEF Json!Values, Text!Json!Values, Json!Nest, Text!Json!Nest, Json!Scalars,
           Text!Json!Scalars, Json!Room, Text!Json!Room, Json!Members, Text!Json!Members,
           Json!Joined, Text!Json!Joined
<1>2. Json!Documents = Text!Json!Documents
    BY <1>1 DEF Json!Documents, Text!Json!Documents
<1>3. Json!Viable = Text!Json!Viable
    BY <1>2 DEF Json!Viable, Text!Json!Viable, Json!PrefixesOf, Text!Json!PrefixesOf
<1> QED BY <1>1, <1>2, <1>3

\* The automaton reads text and is then in q, with at most m containers open.
ReadTo(m, text, q) == Text!ReadsIn(Text!Nested(m), Text!Start, text, q)

\* Where the walker is, as the automaton sees it.
Here == <<state, OpenKinds>>

\* The walker and the automaton have read the same and are in the same place.
InStep == read \in Seq(Text!Tokens) /\ ReadTo(maxDepth, read, Here)

\* No step of the automaton takes token in q; nor is q the end of a value before the end.
Stuck(m, q, token) ==
    /\ ~ \E c \in Text!Nested(m) : Text!Takes(q, token, c)
    /\ token = "end" => q # Text!Done

\* The automaton read all of text but its last token, and does not take that.
StuckAt(m, text) ==
    \E r \in Seq(Text!Tokens), q \in Text!Nested(m), token \in Tokens \union {"other"} :
        text = Append(r, token) /\ ReadTo(m, r, q) /\ Stuck(m, q, token)

\* The automaton read text to the end of a value.
ReadToEnd(m, text) == text \in Seq(Text!Tokens) /\ ReadTo(m, text, Text!Done)

\* The walk goes on while the automaton does, and refuses where that is stuck; a string
\* that is wrong is found out one step later, by the caller that scans it.
Follows ==
    /\ verdict = "walking" /\ scanning # "badString" => InStep
    /\ verdict = "walking" /\ scanning = "badString" => StuckAt(maxDepth, read)
    /\ verdict = "refused" => StuckAt(maxDepth, read)
    /\ verdict = "value" => ReadToEnd(maxDepth, read)
    /\ verdict = "valid" =>
          \E v \in Seq(Text!Tokens) : read = Append(v, "end") /\ ReadToEnd(maxDepth, v)

\* Under a negative bound nothing is a value.
TextInv == /\ maxDepth \in MaxDepths
           /\ maxDepth < 0 => verdict \in {"walking", "refused"}
           /\ maxDepth >= 0 => Follows

\* The automaton has the walker's states.
LEMMA HereIsNested ==
    ASSUME IInv, maxDepth >= 0
    PROVE  Here \in Text!Nested(maxDepth)
<1>1. depth \in Nat /\ maxDepth \in Int /\ state \in States /\ Len(OpenKinds) = depth
    BY Numbers, Kinds
<1>2. OpenKinds \in Seq(Text!Kinds)
    BY <1>1 DEF OpenKinds, Text!Kinds
<1>3. state \in Text!States
    BY <1>1 DEF States, Text!States, Text!ValueStates
<1>4. depth <= maxDepth
    BY <1>1 DEF IInv, StackSound, WithinBound
<1> QED BY <1>1, <1>2, <1>3, <1>4 DEF Here, Text!Nested, Text!Configs

\* What the automaton takes the table takes too, and it takes no token that is wrong.
LEMMA TakenIsInTable ==
    ASSUME NEW s \in States, NEW stack, NEW token, NEW c, Text!Takes(<<s, stack>>, token, c)
    PROVE  /\ token \in Takes[s]
           /\ token \notin {"badString", "badScalar", "end", "other"}
           /\ token = "openObject" => c[2] = Append(stack, "object")
           /\ token = "openArray" => c[2] = Append(stack, "array")
BY DEF Text!Takes, Takes, States, ValueTokens, StringTokens, ScalarTokens, Text!ValueStates,
       Text!Kinds, Text!Opener, Text!Closer, Text!First, Text!AfterItem

\* Where it is stuck the walker refuses what it read, at once or past a string.
LEMMA GetsStuck ==
    ASSUME IInv, maxDepth >= 0, InStep, NEW token \in Tokens \union {"other"},
           Stuck(maxDepth, Here, token), maxDepth' = maxDepth, read' = Append(read, token)
    PROVE  StuckAt(maxDepth', read')
<1>1. StuckAt(maxDepth, Append(read, token))
    BY HereIsNested DEF StuckAt, InStep
<1> QED BY <1>1

\* What it takes it has read on.
LEMMA ReadsFurther ==
    ASSUME NEW m, NEW text \in Seq(Text!Tokens), NEW token \in Text!Tokens,
           NEW q \in Text!Nested(m), NEW c \in Text!Nested(m),
           ReadTo(m, text, q), Text!Takes(q, token, c)
    PROVE  Append(text, token) \in Seq(Text!Tokens) /\ ReadTo(m, Append(text, token), c)
<1>1. Text!ReadsIn(Text!Nested(m), q, <<token>>, c)
    BY TextBounds, Text!ReadsOne DEF Text!BoundsAssumption
<1>2. Append(text, token) = text \o <<token>> /\ <<token>> \in Seq(Text!Tokens)
    OBVIOUS
<1>3. ReadTo(m, text \o <<token>>, c)
    <2> HIDE DEF Text!Tokens
    <2> QED BY <1>1, <1>2, TextBounds, Text!ReadsOn DEF ReadTo, Text!BoundsAssumption
<1> QED BY <1>2, <1>3

LEMMA GoesOn ==
    ASSUME IInv, IInv', maxDepth >= 0, InStep, NEW token \in Text!Tokens,
           Text!Takes(Here, token, Here'), maxDepth' = maxDepth, read' = Append(read, token)
    PROVE  InStep'
<1>1. Here \in Text!Nested(maxDepth)
    BY HereIsNested
<1>2. (maxDepth >= 0 => Here \in Text!Nested(maxDepth))'
    BY HereIsNested, PTL
<1>3. Here' \in Text!Nested(maxDepth)
    BY <1>2
<1>4. read \in Seq(Text!Tokens) /\ ReadTo(maxDepth, read, Here)
    BY DEF InStep
<1>5. Append(read, token) \in Seq(Text!Tokens) /\ ReadTo(maxDepth, Append(read, token), Here')
    BY <1>1, <1>3, <1>4, ReadsFurther
<1>6. InStep' <=> read' \in Seq(Text!Tokens) /\ ReadTo(maxDepth', read', Here')
    BY DEF InStep
<1> QED BY <1>5, <1>6
-----------------------------------------------------------------------------
\* What the automaton does with each token that the table takes.
LEMMA TakesItem ==
    ASSUME IInv, NEW token \in {"scalar", "string"}, token \in Takes[state],
           state \in Abstract!ValueStates, state' = Past[state], UNCHANGED <<shallow, deep, depth>>
    PROVE  Text!Takes(Here, token, Here')
<1>1. state \in States /\ OpenKinds' = OpenKinds
    BY Numbers, SameKinds
<1>2. depth = 0 <=> state \in {"value", "done"}
    BY DEF IInv, StackSound, StateFitsTop
<1>3. Abstract!Around(OpenKinds) = IF depth = 0 THEN "done"
                                   ELSE IF state \in ArrayStates THEN "arrayAfter"
                                   ELSE "objectAfter"
    BY Kinds
<1>4. Past[state] = IF state = "value" THEN "done"
                    ELSE IF state \in ArrayStates THEN "arrayAfter" ELSE "objectAfter"
    BY <1>1, TableMeans DEF ScalarTokens, StringTokens
<1>5. state # "done"
    BY DEF Abstract!ValueStates
<1>6. Past[state] = Text!Around(OpenKinds)
    BY <1>2, <1>3, <1>4, <1>5 DEF Abstract!Around, Abstract!AfterItem, Text!Around, Text!AfterItem
<1>7. Here' = <<Text!Around(OpenKinds), OpenKinds>>
    BY <1>1, <1>6 DEF Here
<1>8. Here[1] = state /\ Here[2] = OpenKinds /\ state \in Text!ValueStates
    BY DEF Here, Abstract!ValueStates, Text!ValueStates
<1> QED BY <1>7, <1>8 DEF Text!Takes

LEMMA TakesName ==
    ASSUME IInv, state \in {"objectFirst", "name"}, state' = Past[state],
           UNCHANGED <<shallow, deep, depth>>
    PROVE  Text!Takes(Here, "string", Here')
<1>1. Here' = <<"colon", OpenKinds>>
    BY SameKinds DEF Here, Past
<1>2. Here[1] = state /\ Here[2] = OpenKinds
    BY DEF Here
<1> QED BY <1>1, <1>2 DEF Text!Takes

LEMMA TakesSeparator ==
    ASSUME IInv, NEW token \in {"comma", "colon"}, token \in Takes[state], state' = Past[state],
           UNCHANGED <<shallow, deep, depth>>
    PROVE  Text!Takes(Here, token, Here')
<1>1. \/ token = "comma" /\ state = "arrayAfter"  /\ state' = "arrayValue"
      \/ token = "comma" /\ state = "objectAfter" /\ state' = "name"
      \/ token = "colon" /\ state = "colon"       /\ state' = "memberValue"
    BY Numbers DEF Takes, Past, States, ValueTokens, StringTokens, ScalarTokens
<1>2. Here' = <<state', OpenKinds>>
    BY SameKinds DEF Here
<1>3. Here[1] = state /\ Here[2] = OpenKinds
    BY DEF Here
<1> QED BY <1>1, <1>2, <1>3 DEF Text!Takes

LEMMA TakesOpener ==
    ASSUME IInv, NEW token \in {"openObject", "openArray"}, token \in Takes[state],
           OpenKinds' = Append(OpenKinds, IF token = "openObject" THEN "object" ELSE "array"),
           state' = IF token = "openObject" THEN "objectFirst" ELSE "arrayFirst"
    PROVE  Text!Takes(Here, token, Here')
<1> DEFINE kind == IF token = "openObject" THEN "object" ELSE "array"
<1>1. /\ kind \in Text!Kinds /\ token = Text!Opener[kind] /\ state' = Text!First[kind]
      /\ OpenKinds' = Append(OpenKinds, kind)
    BY DEF Text!Kinds, Text!Opener, Text!First
<1>2. state \in Text!ValueStates
    BY Numbers, TableMeans DEF Abstract!ValueStates, Text!ValueStates
<1>3. Here[1] = state /\ Here[2] = OpenKinds /\ Here' = <<state', OpenKinds'>>
    BY DEF Here
<1> HIDE DEF kind
<1>4. Here' = <<Text!First[kind], Append(Here[2], kind)>>
    BY <1>1, <1>3
<1> QED BY <1>1, <1>2, <1>3, <1>4 DEF Text!Takes

LEMMA TakesCloser ==
    ASSUME IInv, IInv', NEW token \in {"closeObject", "closeArray"}, token \in Takes[state],
           depth' = depth - 1, state' = Closed(depth'),
           UNCHANGED <<maxDepth, shallow, deep, scanning, verdict, deepest>>
    PROVE  Text!Takes(Here, token, Here')
<1> DEFINE kind == IF token = "closeObject" THEN "object" ELSE "array"
<1>1. /\ state \in IF kind = "object" THEN {"objectFirst", "objectAfter"}
                                      ELSE {"arrayFirst", "arrayAfter"}
      /\ OpenKinds # << >> /\ OpenKinds[Len(OpenKinds)] = kind
      /\ OpenKinds' = SubSeq(OpenKinds, 1, Len(OpenKinds) - 1)
      /\ state' = Abstract!Around(OpenKinds')
    BY ClosePops
<1>2. kind \in Text!Kinds /\ token = Text!Closer[kind]
    BY DEF Text!Kinds, Text!Closer
<1>3. state \in {Text!First[kind], Text!AfterItem[kind]}
    BY <1>1 DEF Text!First, Text!AfterItem
<1>4. Here[1] = state /\ Here[2] = OpenKinds /\ Here' = <<state', OpenKinds'>>
    BY DEF Here
<1>5. OpenKinds' = Text!Outer(Here[2])
    BY <1>1, <1>4 DEF Text!Outer
<1>6. \A stack : Abstract!Around(stack) = Text!Around(stack)
    BY DEF Abstract!Around, Abstract!AfterItem, Text!Around, Text!AfterItem
<1> HIDE DEF kind
<1>7. Here' = <<Text!Around(Text!Outer(Here[2])), Text!Outer(Here[2])>>
    BY <1>1, <1>4, <1>5, <1>6
<1> QED BY <1>1, <1>2, <1>3, <1>4, <1>7 DEF Text!Takes

-----------------------------------------------------------------------------
\* With nothing open every bound is kept.
LEMMA AtTop ==
    ASSUME NEW m \in Int, m >= 0, NEW s \in States
    PROVE  <<s, << >> >> \in Text!Nested(m)
<1> DEFINE c == <<s, << >> >>
<1>1. s \in Text!States
    BY DEF States, Text!States, Text!ValueStates
<1>e. << >> \in Seq(Text!Kinds) /\ Len(<< >>) <= m
    OBVIOUS
<1>2. c \in Text!States \X Seq(Text!Kinds)
    <2> HIDE DEF Text!States, Text!Kinds
    <2> QED BY <1>1, <1>e
<1>3. Len(c[2]) <= m
    <2>1. c[2] = << >>
        OBVIOUS
    <2> QED BY <1>e, <2>1
<1> HIDE DEF c
<1>4. c \in Text!Nested(m)
    BY <1>2, <1>3 DEF Text!Nested, Text!Configs
<1> QED BY <1>4 DEF c

\* A new walker has read nothing and is at the start.
LEMMA StartsInStep ==
    ASSUME NEW m \in Int, m >= 0
    PROVE  << >> \in Seq(Text!Tokens) /\ ReadTo(m, << >>, Text!Start)
<1>1. Text!Start \in Text!Nested(m)
    BY AtTop DEF Text!Start, States
<1>2. Text!ReadsIn(Text!Nested(m), Text!Start, << >>, Text!Start)
    BY <1>1, TextBounds, Text!ReadsNothing DEF Text!BoundsAssumption
<1> QED BY <1>2 DEF ReadTo

LEMMA InitText == Init => TextInv
<1> SUFFICES ASSUME Init
             PROVE  TextInv
    OBVIOUS
<1>1. maxDepth \in MaxDepths /\ maxDepth \in Int
    BY WalkerAssumption DEF Init
<1>2. read = << >> /\ Here = Text!Start
    BY DEF Init, Here, OpenKinds, Text!Start
<1>3. maxDepth >= 0 => InStep
    BY <1>1, <1>2, StartsInStep DEF InStep
<1> QED BY <1>1, <1>3 DEF Init, TextInv, Follows

\* Under a bound that allows none, the walk ends before anything is read.
LEMMA NegativeBound ==
    ASSUME IInv, [Next]_vars, maxDepth < 0, verdict \in {"walking", "refused"}
    PROVE  verdict' \in {"walking", "refused"}
<1>1. state = "value" /\ maxDepth \in Int
    BY Numbers DEF IInv, StackSound, WithinBound
<1>2. verdict' # "value" /\ verdict' # "valid"
    BY <1>1 DEF Next, vars, Refuse, Scalar, Quote, ScanString, Separator, Open, Close, EndOfValue,
                Document, Top, Read
<1>3. verdict' \in {"walking", "refused", "value", "valid"} 
    BY <1>1, Zenon DEF Next, vars, Refuse, Scalar, Quote, ScanString, Separator, Open, Close, EndOfValue,
                Document, Top, Read
<1> QED BY <1>2, <1>3

\* Each step keeps the walker and the automaton together, or refuses where that is stuck.
LEMMA TextStep == IInv /\ IInv' /\ TextInv /\ [Next]_vars => TextInv'
<1> SUFFICES ASSUME IInv, IInv', TextInv, [Next]_vars
             PROVE  TextInv'
    OBVIOUS
<1>0. /\ maxDepth \in Int /\ depth \in Nat /\ state \in States
      /\ scanning \in {"none", "string", "badString"}
      /\ scanning # "none" => verdict = "walking"
    <2>1. scanning \in {"none", "string", "badString"} /\ (scanning # "none" => verdict = "walking")
        BY DEF IInv, TypeOK, StackSound
    <2> QED BY <2>1, Numbers
<1>m. UNCHANGED maxDepth
    BY DEF Next, vars, Refuse, Scalar, Quote, ScanString, Separator, Open, Close, EndOfValue,
           Document, Top, walker
<1>n. maxDepth < 0 => TextInv'
    BY <1>0, <1>m, NegativeBound DEF TextInv
<1>p. SUFFICES ASSUME maxDepth >= 0
               PROVE  Follows'
    BY <1>0, <1>m, <1>n DEF TextInv
<1>f. Follows
    BY <1>p DEF TextInv
<1>r. ASSUME NEW token, Read(token)
      PROVE  /\ InStep /\ read' = Append(read, token) /\ verdict = "walking" /\ scanning = "none"
             /\ state # "done" /\ Here # Text!Done
    BY <1>r, <1>f DEF Read, Follows, Here, Text!Done
<1>1. CASE Refuse
    <2>1. PICK token \in Tokens : Read(token) /\ token \notin Takes[state]
        BY <1>1 DEF Refuse
    <2>2. verdict' = "refused"
        BY <1>1 DEF Refuse
    <2>3. Stuck(maxDepth, Here, token)
        BY <1>0, <1>r, <2>1, TakenIsInTable DEF Stuck, Here
    <2>4. StuckAt(maxDepth', read')
        BY <1>m, <1>p, <1>r, <2>1, <2>3, GetsStuck
    <2> QED BY <2>2, <2>4 DEF Follows
<1>2. CASE Scalar
    <2>1. PICK token \in ScalarTokens :
            /\ Read(token) /\ token \in Takes[state]
            /\ IF token = "scalar" THEN state' = Past[state] /\ UNCHANGED verdict
                                   ELSE verdict' = "refused" /\ UNCHANGED state
            /\ UNCHANGED <<maxDepth, shallow, deep, depth, scanning, deepest>>
        BY <1>2 DEF Scalar
    <2>2. CASE token = "scalar"
        <3>1. Text!Takes(Here, token, Here')
            BY <1>0, <2>1, <2>2, TakesItem, TableMeans
        <3>2. InStep'
            BY <1>m, <1>p, <1>r, <2>1, <2>2, <3>1, GoesOn DEF Text!Tokens
        <3> QED BY <1>r, <2>1, <2>2, <3>2 DEF Follows
    <2>3. CASE token = "badScalar"
        <3>1. Stuck(maxDepth, Here, token)
            BY <1>0, <2>3, TakenIsInTable DEF Stuck, Here
        <3>2. StuckAt(maxDepth', read')
            BY <1>m, <1>p, <1>r, <2>1, <2>3, <3>1, GetsStuck DEF Tokens, ValueTokens, ScalarTokens
        <3> QED BY <2>1, <2>3, <3>2 DEF Follows
    <2> QED BY <2>2, <2>3 DEF ScalarTokens
<1>3. CASE Quote
    <2>1. PICK token \in StringTokens :
            /\ Read(token) /\ token \in Takes[state]
            /\ state' = Past[state] /\ scanning' = token
            /\ UNCHANGED <<maxDepth, shallow, deep, depth, verdict, deepest>>
        BY <1>3 DEF Quote
    <2>2. CASE token = "string"
        <3>1. Text!Takes(Here, token, Here')
            BY <1>0, <2>1, <2>2, TakesItem, TakesName, TableMeans
        <3>2. InStep'
            BY <1>m, <1>p, <1>r, <2>1, <2>2, <3>1, GoesOn DEF Text!Tokens
        <3> QED BY <1>r, <2>1, <2>2, <3>2 DEF Follows
    <2>3. CASE token = "badString"
        <3>1. Stuck(maxDepth, Here, token)
            BY <1>0, <2>3, TakenIsInTable DEF Stuck, Here
        <3>2. StuckAt(maxDepth', read')
            BY <1>m, <1>p, <1>r, <2>1, <2>3, <3>1, GetsStuck DEF Tokens, ValueTokens, StringTokens
        <3> QED BY <1>r, <2>1, <2>3, <3>2 DEF Follows
    <2> QED BY <2>2, <2>3 DEF StringTokens
<1>4. CASE ScanString
    <2>1. UNCHANGED <<state, shallow, deep, depth, read>> /\ scanning' = "none"
        BY <1>4 DEF ScanString, walker
    <2>2. UNCHANGED Here
        BY <2>1, SameKinds DEF Here
    <2>3. CASE scanning = "badString"
        BY <1>0, <1>4, <1>f, <1>m, <2>1, <2>3 DEF ScanString, Follows
    <2>4. CASE scanning = "string"
        <3>1. InStep'
            BY <1>0, <1>f, <1>m, <2>1, <2>2, <2>4 DEF Follows, InStep
        <3> QED BY <1>0, <1>4, <2>4, <3>1 DEF ScanString, Follows
    <2> QED BY <1>0, <1>4, <2>3, <2>4 DEF ScanString
<1>5. CASE Separator
    <2>1. PICK token \in {"comma", "colon"} :
            /\ Read(token) /\ token \in Takes[state] /\ state' = Past[state]
            /\ UNCHANGED <<maxDepth, shallow, deep, depth, scanning, verdict, deepest>>
        BY <1>5 DEF Separator
    <2>2. InStep'
        BY <1>m, <1>p, <1>r, <2>1, TakesSeparator, GoesOn DEF Text!Tokens
    <2> QED BY <1>r, <2>1, <2>2 DEF Follows
<1>6. CASE Open
    <2>1. PICK token \in {"openObject", "openArray"} :
            /\ Read(token) /\ token \in Takes[state]
            /\ IF depth >= maxDepth
               THEN verdict' = "refused"
               ELSE /\ Set(depth, KindOf[token]) /\ depth' = depth + 1
                    /\ state' = IF token = "openObject" THEN "objectFirst" ELSE "arrayFirst"
                    /\ deepest' = IF depth' > deepest THEN depth' ELSE deepest
                    /\ UNCHANGED verdict
            /\ UNCHANGED <<maxDepth, scanning>>
        BY <1>6 DEF Open
    <2>2. CASE depth >= maxDepth
        <3>1. Stuck(maxDepth, Here, token)
            <4>1. ASSUME NEW c \in Text!Nested(maxDepth), Text!Takes(Here, token, c)
                  PROVE  FALSE
                <5>1. c[2] = Append(OpenKinds, IF token = "openObject" THEN "object" ELSE "array")
                    BY <1>0, <4>1, TakenIsInTable DEF Here
                <5>2. OpenKinds \in Seq({"object", "array"}) /\ Len(OpenKinds) = depth
                    BY <1>0, Kinds DEF OpenKinds
                <5>3. Len(c[2]) = depth + 1
                    BY <5>1, <5>2
                <5>4. Len(c[2]) <= maxDepth
                    BY <4>1 DEF Text!Nested
                <5> QED BY <1>0, <2>2, <5>3, <5>4
            <4> QED BY <4>1 DEF Stuck
        <3>2. StuckAt(maxDepth', read')
            BY <1>m, <1>p, <1>r, <2>1, <3>1, GetsStuck DEF Tokens, ValueTokens
        <3> QED BY <2>1, <2>2, <3>2 DEF Follows
    <2>3. CASE ~(depth >= maxDepth)
        <3>1. OpenKinds' = Append(OpenKinds, IF token = "openObject" THEN "object" ELSE "array")
            BY <2>1, <2>3, OpenPushes
        <3>2. Text!Takes(Here, token, Here')
            BY <2>1, <2>3, <3>1, TakesOpener
        <3>3. InStep'
            BY <1>m, <1>p, <1>r, <2>1, <3>2, GoesOn DEF Text!Tokens
        <3> QED BY <1>r, <2>1, <2>3, <3>3 DEF Follows
    <2> QED BY <2>2, <2>3
<1>7. CASE Close
    <2>1. PICK token \in {"closeObject", "closeArray"} :
            /\ Read(token) /\ token \in Takes[state]
            /\ depth' = depth - 1 /\ state' = Closed(depth')
            /\ UNCHANGED <<maxDepth, shallow, deep, scanning, verdict, deepest>>
        BY <1>7 DEF Close
    <2>2. Text!Takes(Here, token, Here')
        BY <2>1, TakesCloser
    <2>3. InStep'
        BY <1>m, <1>p, <1>r, <2>1, <2>2, GoesOn DEF Text!Tokens
    <2> QED BY <1>r, <2>1, <2>3 DEF Follows
<1>8. CASE EndOfValue
    <2>1. InStep /\ verdict' = "value" /\ UNCHANGED read
        BY <1>8, <1>f DEF EndOfValue, Follows
    <2>2. Here = Text!Done
        <3>1. depth = 0
            BY <1>8 DEF EndOfValue, IInv, StackSound, StateFitsTop
        <3> QED BY <1>8, <3>1, Kinds DEF EndOfValue, Here, Text!Done
    <2>3. ReadToEnd(maxDepth', read')
        BY <1>m, <2>1, <2>2 DEF InStep, ReadToEnd
    <2> QED BY <2>1, <2>3 DEF Follows
<1>9. CASE Document
    <2>1. PICK token \in {"end", "other"} :
            /\ read' = Append(read, token)
            /\ verdict' = IF token = "end" THEN "valid" ELSE "refused"
        BY <1>9 DEF Document
    <2>2. ReadToEnd(maxDepth, read)
        BY <1>9, <1>f DEF Document, Follows
    <2>3. CASE token = "end"
        BY <1>m, <2>1, <2>2, <2>3 DEF Follows, ReadToEnd
    <2>4. CASE token = "other"
        <3>1. Text!Done \in Text!Nested(maxDepth)
            BY <1>0, <1>p, AtTop DEF Text!Done, States
        <3>2. Stuck(maxDepth, Text!Done, token)
            BY <2>4, TakenIsInTable DEF Stuck, Text!Done, States
        <3>3. StuckAt(maxDepth, read')
            BY <2>1, <2>2, <2>4, <3>1, <3>2 DEF StuckAt, ReadToEnd
        <3> QED BY <1>m, <2>1, <2>4, <3>3 DEF Follows
    <2> QED BY <2>3, <2>4
<1>10. CASE Top
    <2>1. /\ read' = << >> /\ verdict' = "walking" /\ scanning' = "none"
          /\ Here' = Text!Start
        BY <1>0, <1>10 DEF Top, Here, OpenKinds, Text!Start
    <2>2. InStep'
        BY <1>0, <1>m, <1>p, <2>1, StartsInStep DEF InStep
    <2> QED BY <2>1, <2>2 DEF Follows
<1>11. CASE UNCHANGED vars
    <2>1. UNCHANGED Here
        BY <1>11, SameKinds DEF vars, Here
    <2> QED BY <1>11, <1>f, <2>1 DEF vars, Follows, InStep
<1> QED BY <1>1, <1>2, <1>3, <1>4, <1>5, <1>6, <1>7, <1>8, <1>9, <1>10, <1>11 DEF Next
-----------------------------------------------------------------------------
\* Where the automaton is stuck no document goes on: not with a token that no step takes,
\* nor with the end of the data within a value.
LEMMA TextIsGrammar ==
    ASSUME TextInv, Bounded
    PROVE  VerdictsExact
<1>0. maxDepth \in Int /\ maxDepth <= MaxNesting /\ MaxNesting \in Nat
    BY WalkerAssumption, BoundsAssumption DEF TextInv
<1>1. ASSUME verdict \in {"value", "valid"}
      PROVE  maxDepth \in 0 .. MaxNesting /\ Follows
    BY <1>0, <1>1 DEF TextInv
<1>2. ASSUME NEW v \in Seq(Text!Tokens), maxDepth \in 0 .. MaxNesting,
             ReadToEnd(maxDepth, v), Len(v) <= MaxRead
      PROVE  v \in Json!Values[maxDepth]
    <2>1. v \in Text!Json!Values[maxDepth]
        BY <1>2, TextBounds, Text!ReadIsValue DEF ReadToEnd, ReadTo, Text!BoundsAssumption
    <2> QED BY <2>1, SameGrammar
<1>3. ASSUME verdict = "value"
      PROVE  maxDepth >= 0 /\ read \in Json!Values[maxDepth]
    BY <1>0, <1>1, <1>2, <1>3 DEF Follows, ReadToEnd, Bounded
<1>4. ASSUME verdict = "valid"
      PROVE  maxDepth >= 0 /\ read \in Json!Documents[maxDepth]
    <2>1. maxDepth \in 0 .. MaxNesting /\ Follows
        BY <1>1, <1>4
    <2>2. PICK v \in Seq(Text!Tokens) : read = Append(v, "end") /\ ReadToEnd(maxDepth, v)
        BY <1>4, <2>1 DEF Follows
    <2>3. Len(v) <= MaxRead
        <3>1. Len(read) = Len(v) + 1 /\ Len(v) \in Nat
            BY <2>2
        <3> QED BY <3>1, BoundsAssumption DEF Bounded
    <2>4. v \in Json!Values[maxDepth]
        BY <1>2, <2>1, <2>2, <2>3
    <2>5. Append(v, "end") = v \o <<"end">>
        BY <2>2
    <2>6. Json!Documents[maxDepth] = {w \o <<"end">> : w \in Json!Values[maxDepth]}
        BY <2>1 DEF Json!Documents
    <2> QED BY <1>0, <2>1, <2>2, <2>4, <2>5, <2>6
<1>5. ASSUME verdict = "refused", maxDepth >= 0
      PROVE  read \notin Json!Viable[maxDepth]
    <2>1. maxDepth \in 0 .. MaxNesting /\ StuckAt(maxDepth, read)
        BY <1>0, <1>5 DEF TextInv, Follows
    <2>2. PICK r \in Seq(Text!Tokens), q \in Text!Nested(maxDepth), token \in Tokens \union {"other"} :
            read = Append(r, token) /\ ReadTo(maxDepth, r, q) /\ Stuck(maxDepth, q, token)
        BY <2>1 DEF StuckAt
    <2>3. Append(r, token) \notin Text!Json!Viable[maxDepth]
        BY <2>1, <2>2, TextBounds, Text!StuckIsNotViable DEF ReadTo, Stuck, Text!BoundsAssumption
    <2> QED BY <2>2, <2>3, SameGrammar
<1> QED BY <1>3, <1>4, <1>5 DEF VerdictsExact

\* What the walker has read and where it is agree with the automaton throughout.
LEMMA TextInvariance == Spec => []TextInv
BY InitText, TextStep, Invariance, PTL DEF Spec

\* A walk accepts the values of the grammar within its bound and nothing else, and where it
\* refuses no document goes on, whatever the word size, the number of inline words, the
\* walks before and the length of the text: MaxRead and MaxNesting bound only the set of
\* values it is compared with, and may be as large as one likes (ValidUTF8: "exactly one
\* JSON value ... nested at most maxDepth").
THEOREM VerdictsAreExact == Spec => [](Bounded => VerdictsExact)
<1>1. TextInv => (Bounded => VerdictsExact)
    BY TextIsGrammar
<1> QED BY TextInvariance, <1>1, PTL
=============================================================================
