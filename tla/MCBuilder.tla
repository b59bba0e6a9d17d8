------------------------------ MODULE MCBuilder ------------------------------
(***************************************************************************)
(* Builder on every sequence of calls that writes a bounded text, against  *)
(* the grammar of JsonText.                                                *)
(***************************************************************************)
EXTENDS Builder

CONSTANTS
    MaxWritten,     \* the longest text, in tokens
    MaxNesting      \* the deepest value that the text is compared with

\* Two tokens at least: the brackets of a container.
ASSUME BoundsAssumption ==
    /\ MaxWritten \in Nat /\ MaxWritten >= 2
    /\ MaxNesting \in Nat

Json == INSTANCE JsonText WITH Strings <- {"string"}, MaxLength <- MaxWritten, MaxNesting <- MaxNesting

\* An array of strings lies one deeper than the containers that are open.
Bounded == Len(buf) <= MaxWritten /\ Len(open) < MaxNesting

\* The tokens of the text once the value that is owed and the closers have come.
Completed == Len(buf) + Len(open) + IF owed THEN 1 ELSE 0

\* Whatever the caller has written is the start of a value, and once it has closed what
\* it opened, it is one value: each item has its comma and no other token does,
\* since the one bit for all containers is right in each (Builder: "put the comma a value
\* needs before it").  A value of n tokens is nested at most half of n deep.
WritesValues ==
    /\ CommaWhenDue
    /\ buf # << >> /\ Completed <= MaxWritten /\ Completed \div 2 <= MaxNesting =>
          buf \in IF open = << >> THEN Json!Values[MaxNesting] ELSE Json!Viable[MaxNesting]
=============================================================================
