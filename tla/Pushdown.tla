------------------------------ MODULE Pushdown ------------------------------
(***************************************************************************)
(* What a walk of one JSON value promises: a pushdown automaton whose      *)
(* stack is a sequence of container kinds.  A closer must match the opener *)
(* on top of the stack, what may follow a value depends on the container   *)
(* around it, and no more than maxDepth containers are open at once.       *)
(***************************************************************************)
EXTENDS Integers, Sequences

Kinds == {"object", "array"}

\* What the text may hold next.
States == {"value", "arrayFirst", "arrayValue", "arrayAfter", "objectFirst",
           "name", "colon", "memberValue", "objectAfter", "done"}

\* The states in which a value may start.
ValueStates == {"value", "arrayFirst", "arrayValue", "memberValue"}

\* What follows a value of a container of each kind.
AfterItem == [object |-> "objectAfter", array |-> "arrayAfter"]

Around(stack) == IF stack = << >> THEN "done" ELSE AfterItem[stack[Len(stack)]]

VARIABLES
    maxDepth,   \* the most containers that may be open at once
    stack,      \* the kinds of the open containers, outermost first
    state,      \* what the text may hold next
    verdict     \* "walking", or "value" past a value, "valid" past a document, "refused"

vars == <<maxDepth, stack, state, verdict>>

Init == /\ maxDepth \in Int
        /\ stack = << >> /\ state = "value" /\ verdict = "walking"

Walking == verdict = "walking" /\ maxDepth >= 0

\* A scalar or a string that is a value.
Item == /\ Walking /\ state \in ValueStates
        /\ state' = Around(stack)
        /\ UNCHANGED <<maxDepth, stack, verdict>>

Name == /\ Walking /\ state \in {"objectFirst", "name"}
        /\ state' = "colon"
        /\ UNCHANGED <<maxDepth, stack, verdict>>

Separator == /\ Walking
             /\ \/ state = "arrayAfter"  /\ state' = "arrayValue"
                \/ state = "objectAfter" /\ state' = "name"
                \/ state = "colon"       /\ state' = "memberValue"
             /\ UNCHANGED <<maxDepth, stack, verdict>>

Open(kind) == /\ Walking /\ state \in ValueStates
              /\ Len(stack) < maxDepth
              /\ stack' = Append(stack, kind)
              /\ state' = IF kind = "object" THEN "objectFirst" ELSE "arrayFirst"
              /\ UNCHANGED <<maxDepth, verdict>>

Close(kind) == /\ Walking /\ stack # << >> /\ stack[Len(stack)] = kind
               /\ state \in IF kind = "object" THEN {"objectFirst", "objectAfter"}
                                               ELSE {"arrayFirst", "arrayAfter"}
               /\ stack' = SubSeq(stack, 1, Len(stack) - 1)
               /\ state' = Around(stack')
               /\ UNCHANGED <<maxDepth, verdict>>

\* The value ends only when its last container is closed.
End == /\ Walking /\ state = "done" /\ stack = << >>
       /\ verdict' = "value"
       /\ UNCHANGED <<maxDepth, stack, state>>

Document == /\ verdict = "value"
            /\ verdict' = "valid"
            /\ UNCHANGED <<maxDepth, stack, state>>

Refuse == /\ verdict \in {"walking", "value"}
          /\ verdict' = "refused"
          /\ UNCHANGED <<maxDepth, stack, state>>

\* A walk of the next value, from nothing.
Again == /\ verdict = "value"
         /\ stack' = << >> /\ state' = "value" /\ verdict' = "walking"
         /\ UNCHANGED maxDepth

Next == \/ Item \/ Name \/ Separator \/ End \/ Document \/ Refuse \/ Again
        \/ \E kind \in Kinds : Open(kind) \/ Close(kind)

Spec == Init /\ [][Next]_vars
=============================================================================
