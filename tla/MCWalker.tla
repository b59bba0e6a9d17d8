------------------------------ MODULE MCWalker ------------------------------
(***************************************************************************)
(* Walker on every token sequence of bounded length, against the values of *)
(* the grammar.                                                            *)
(***************************************************************************)
EXTENDS Walker

CONSTANTS
    MaxRead,        \* the most tokens read in one walk
    MaxNesting      \* the deepest bound in MaxDepths

\* A walk of two tokens reads an empty container.
ASSUME BoundsAssumption ==
    /\ MaxRead \in Nat /\ MaxRead >= 2
    /\ MaxNesting \in Nat
    /\ \A d \in MaxDepths : d <= MaxNesting

Json == INSTANCE JsonText WITH Strings <- {"string"}, MaxLength <- MaxRead, MaxNesting <- MaxNesting

MCMaxDepths == {-1, 0, 1, MaxNesting}

Bounded == Len(read) <= MaxRead

\* A walk ends at a value exactly as deep as the bound allows, and at nothing else:
\* what it read is a value of the grammar, and a document when only the end follows; and
\* it is refused only where no document goes on from what was read, never because of a
\* bit or a state that another value left behind (ValidUTF8: "exactly one JSON value ...
\* nested at most maxDepth").
VerdictsExact ==
    /\ verdict = "value" => maxDepth >= 0 /\ read \in Json!Values[maxDepth]
    /\ verdict = "valid" => maxDepth >= 0 /\ read \in Json!Documents[maxDepth]
    /\ verdict = "refused" /\ maxDepth >= 0 => read \notin Json!Viable[maxDepth]
=============================================================================
