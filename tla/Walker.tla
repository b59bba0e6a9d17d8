------------------------------- MODULE Walker -------------------------------
(***************************************************************************)
(* The walker of validate.go: it checks the grammar of one JSON value per  *)
(* walk without recursion, and keeps the kind of every open container in a *)
(* kindStack, one bit per level.  The shallow levels live in words inside  *)
(* the walker, the deeper ones in a spill that grows and is never cleared, *)
(* so a level opened again finds the bit of the container it held before.  *)
(*                                                                         *)
(* Every document is tried: a token of it is chosen when the walker reads  *)
(* it, and read keeps those chosen in this walk.  A step reads one token,  *)
(* which is one turn of the loop of advance.  At a string the walker stops *)
(* and its caller scans the bytes (strictEnd or strictToken) before the    *)
(* walk goes on.  A caller may walk again after a value (walkObject walks  *)
(* each member's value with the same walker).                              *)
(***************************************************************************)
EXTENDS Integers, Sequences

CONSTANTS
    WordBits,       \* kindWordBits: levels per word
    InlineWords,    \* inlineKindWords: words inside the walker
    MaxDepths       \* the bounds callers ask for

ASSUME WalkerAssumption ==
    /\ WordBits \in Nat \ {0}
    /\ InlineWords \in Nat \ {0}
    /\ MaxDepths \subseteq Int

VARIABLES
    maxDepth, shallow, deep, depth, state,      \* the walker's fields
    scanning,   \* the string its caller scans, or "none"
    verdict,    \* of this walk: "walking", "value", "valid", "refused"
    read,       \* the tokens read in this walk
    deepest     \* the most containers open at once in any walk so far

walker == <<maxDepth, shallow, deep, depth, state>>
vars   == <<maxDepth, shallow, deep, depth, state, scanning, verdict, read, deepest>>

States == {"value", "arrayFirst", "arrayValue", "arrayAfter", "objectFirst",
           "name", "colon", "memberValue", "objectAfter", "done"}

Bits == 0 .. WordBits - 1
Word == [Bits -> {0, 1}]

\* Mutant of KindOf: the slots themselves, of which set keeps one bit.
SlotOf == [t \in {"openObject", "openArray"} |-> IF t = "openObject" THEN 8 ELSE 9]

\* The low bit of the slot of '{' and of '['.
KindOf == [t \in {"openObject", "openArray"} |-> IF t = "openObject" THEN 0 ELSE 1]

\* The tokens a string, a scalar and a value start with.
StringTokens == {"string", "badString"}
ScalarTokens == {"scalar", "badScalar"}
ValueTokens  == StringTokens \union ScalarTokens \union {"openObject", "openArray"}
Tokens == ValueTokens \union {"closeObject", "closeArray", "comma", "colon", "end"}

\* Mutant of Takes: a table that takes any closer after an element.
TakesAnyCloser ==
    [value       |-> ValueTokens,
     arrayFirst  |-> ValueTokens \union {"closeArray"},
     arrayValue  |-> ValueTokens,
     arrayAfter  |-> {"comma", "closeArray", "closeObject"},
     objectFirst |-> StringTokens \union {"closeObject"},
     name        |-> StringTokens,
     colon       |-> {"colon"},
     memberValue |-> ValueTokens,
     objectAfter |-> {"comma", "closeObject"},
     done        |-> {}]

\* The tokens each state takes; walkTable refuses every other one.
Takes ==
    [value       |-> ValueTokens,
     arrayFirst  |-> ValueTokens \union {"closeArray"},
     arrayValue  |-> ValueTokens,
     arrayAfter  |-> {"comma", "closeArray"},
     objectFirst |-> StringTokens \union {"closeObject"},
     name        |-> StringTokens,
     colon       |-> {"colon"},
     memberValue |-> ValueTokens,
     objectAfter |-> {"comma", "closeObject"},
     done        |-> {}]

\* The state walkTable gives for a string or a scalar, and for a comma or a colon.
Past == [value |-> "done", arrayFirst |-> "arrayAfter", arrayValue |-> "arrayAfter",
         memberValue |-> "objectAfter", objectFirst |-> "colon", name |-> "colon",
         arrayAfter |-> "arrayValue", objectAfter |-> "name", colon |-> "memberValue"]

-----------------------------------------------------------------------------
(* The kind stack.                                                         *)

Index(d) == d \div WordBits
Bit(d)   == d % WordBits

\* words[k]&^(1<<bit) | kind<<bit
WithBit(word, bit, kind) == [word EXCEPT ![bit] = kind]

\* Mutant of Spill: a word added at every level past the inline ones.
SpillPerLevel(k) == Append(deep, [b \in Bits |-> 0])

\* The spill, grown to hold word k of it, which is at most one past its end.
Spill(k) == IF k = Len(deep) THEN Append(deep, [b \in Bits |-> 0]) ELSE deep

Set(d, kind) ==
    LET k == Index(d) IN
    IF k < InlineWords
    THEN /\ shallow' = [shallow EXCEPT ![k] = WithBit(@, Bit(d), kind)]
         /\ UNCHANGED deep
    ELSE /\ deep' = [Spill(k - InlineWords) EXCEPT
                        ![k - InlineWords + 1] = WithBit(@, Bit(d), kind)]
         /\ UNCHANGED shallow

\* Mutant of Get: the inline words are read for every level.
GetInline(d) == shallow[Index(d) % InlineWords][Bit(d)]

Get(d) == IF Index(d) < InlineWords
          THEN shallow[Index(d)][Bit(d)]
          ELSE deep[Index(d) - InlineWords + 1][Bit(d)]

\* Mutant of Closed: the kind of the closed container, not of the one around it.
ClosedByItself(d) == IF d = 0 THEN "done"
                     ELSE IF Get(d) = KindOf["openObject"] THEN "objectAfter"
                     ELSE "arrayAfter"

\* The state past the container that closes at depth d.
Closed(d) == IF d = 0 THEN "done"
             ELSE IF Get(d - 1) = KindOf["openObject"] THEN "objectAfter"
             ELSE "arrayAfter"

-----------------------------------------------------------------------------
\* newWalker: inline words zeroed, no spill, before a top value.
Init == /\ maxDepth \in MaxDepths
        /\ shallow = [k \in 0 .. InlineWords - 1 |-> [b \in Bits |-> 0]]
        /\ deep = << >>
        /\ depth = 0 /\ state = "value"
        /\ scanning = "none" /\ verdict = "walking"
        /\ read = << >> /\ deepest = 0

\* The next token; under a negative bound top leaves the walker at the end of the data.
Read(t) == /\ verdict = "walking" /\ scanning = "none" /\ state # "done"
           /\ maxDepth < 0 => t = "end"
           /\ read' = Append(read, t)

\* A token that the state does not take, or the end of the data.
Refuse == \E t \in Tokens :
    /\ Read(t)
    /\ t \notin Takes[state]
    /\ verdict' = "refused"
    /\ UNCHANGED <<walker, scanning, deepest>>

\* takeScalar: skipScalar reads its bytes in full.
Scalar == \E t \in ScalarTokens :
    /\ Read(t) /\ t \in Takes[state]
    /\ IF t = "scalar"
       THEN state' = Past[state] /\ UNCHANGED verdict
       ELSE verdict' = "refused" /\ UNCHANGED state
    /\ UNCHANGED <<maxDepth, shallow, deep, depth, scanning, deepest>>

\* The walk stops at a quote, its state already that past the string.
Quote == \E t \in StringTokens :
    /\ Read(t) /\ t \in Takes[state]
    /\ state' = Past[state]
    /\ scanning' = t
    /\ UNCHANGED <<maxDepth, shallow, deep, depth, verdict, deepest>>

\* The caller scans that string: past it the walk resumes, at a fault it fails.
ScanString ==
    /\ scanning # "none"
    /\ verdict' = IF scanning = "badString" THEN "refused" ELSE verdict
    /\ scanning' = "none"
    /\ UNCHANGED <<walker, read, deepest>>

Separator == \E t \in {"comma", "colon"} :
    /\ Read(t) /\ t \in Takes[state]
    /\ state' = Past[state]
    /\ UNCHANGED <<maxDepth, shallow, deep, depth, scanning, verdict, deepest>>

\* takeOpen: too deep is refused before anything is recorded.
Open == \E t \in {"openObject", "openArray"} :
    /\ Read(t) /\ t \in Takes[state]
    /\ IF depth >= maxDepth
       THEN verdict' = "refused" /\ UNCHANGED <<shallow, deep, depth, state, deepest>>
       ELSE /\ Set(depth, KindOf[t])
            /\ depth' = depth + 1
            /\ state' = IF t = "openObject" THEN "objectFirst" ELSE "arrayFirst"
            /\ deepest' = IF depth' > deepest THEN depth' ELSE deepest
            /\ UNCHANGED verdict
    /\ UNCHANGED <<maxDepth, scanning>>

\* takeClose
Close == \E t \in {"closeObject", "closeArray"} :
    /\ Read(t) /\ t \in Takes[state]
    /\ depth' = depth - 1
    /\ state' = Closed(depth')
    /\ UNCHANGED <<maxDepth, shallow, deep, scanning, verdict, deepest>>

\* advance returns endOfValue.
EndOfValue ==
    /\ verdict = "walking" /\ scanning = "none" /\ state = "done"
    /\ verdict' = "value"
    /\ UNCHANGED <<walker, scanning, read, deepest>>

\* ValidUTF8 and walkFault: only whitespace may follow the value.
Document == \E t \in {"end", "other"} :
    /\ verdict = "value"
    /\ read' = Append(read, t)
    /\ verdict' = IF t = "end" THEN "valid" ELSE "refused"
    /\ UNCHANGED <<walker, scanning, deepest>>

\* valueEnd: the next value, with the kind stack as this one leaves it.
Top == /\ verdict = "value"
       /\ depth' = 0 /\ state' = "value" /\ verdict' = "walking"
       /\ read' = << >>
       /\ UNCHANGED <<maxDepth, shallow, deep, scanning, deepest>>

Next == \/ Refuse \/ Scalar \/ Quote \/ ScanString \/ Separator \/ Open \/ Close
        \/ EndOfValue \/ Document \/ Top

Spec == Init /\ [][Next]_vars

-----------------------------------------------------------------------------
TypeOK ==
    /\ maxDepth \in Int
    /\ shallow \in [0 .. InlineWords - 1 -> Word]
    /\ deep \in Seq(Word)
    /\ depth \in Nat
    /\ state \in States
    /\ scanning \in {"none", "string", "badString"}
    /\ verdict \in {"walking", "value", "valid", "refused"}
    /\ deepest \in Nat

\* The words that the levels of a stack of n take.
Words(n) == IF n = 0 THEN 0 ELSE Index(n - 1) + 1

\* The spill holds exactly the words that the deepest level reached so far needs: it
\* grows by one word when a level first crosses a word's end, and neither a close nor
\* a new walk makes it shrink or grow (kindStack: "grows with the depth reached").
SpillFollowsDepth ==
    Len(deep) = IF Words(deepest) > InlineWords THEN Words(deepest) - InlineWords ELSE 0

\* No container is open past the bound.
WithinBound == /\ depth <= deepest
               /\ depth > 0 => depth <= maxDepth
               /\ maxDepth < 0 => depth = 0 /\ state = "value"

ArrayStates  == {"arrayFirst", "arrayValue", "arrayAfter"}
ObjectStates == {"objectFirst", "name", "colon", "memberValue", "objectAfter"}

\* Only a top value or its end has no container around it; else the bit of the
\* innermost container says which of the two grammars the state belongs to.
StateFitsTop == /\ depth = 0 <=> state \in {"value", "done"}
                /\ depth > 0 => Get(depth - 1) = IF state \in ArrayStates THEN 1 ELSE 0

\* The state and the stack agree, and a caller scans a string only in a walk that goes
\* on (advance, kindStack.closed).
StackSound == /\ WithinBound
              /\ StateFitsTop
              /\ scanning # "none" => verdict = "walking"

\* The kinds of the open containers, read bit by bit.
OpenKinds ==
    [d \in 1 .. depth |-> IF Get(d - 1) = KindOf["openObject"] THEN "object" ELSE "array"]

Abstract == INSTANCE Pushdown WITH stack <- OpenKinds

\* The walker implements the pushdown automaton: whatever bits earlier containers and
\* earlier walks left in the words, a closer meets the kind of its own opener, the
\* container around it decides what follows, and the bound holds (advance, kindStack).
ImplementsPushdown == Abstract!Spec
=============================================================================
