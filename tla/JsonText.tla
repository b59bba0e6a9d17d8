------------------------------ MODULE JsonText ------------------------------
(***************************************************************************)
(* JSON values as sequences of tokens, generated from the grammar and not  *)
(* from the code that reads them: the reference the walkers are checked    *)
(* against.                                                                *)
(*                                                                         *)
(* A token is a structural byte, a string, a scalar, a string or a scalar  *)
(* whose own bytes are wrong, or the end of the data.  Whitespace          *)
(* separates tokens and is never part of one, so it has no token.          *)
(***************************************************************************)
EXTENDS Naturals, Sequences

CONSTANTS
    Strings,        \* the tokens that are strings
    MaxLength,      \* the longest value, in tokens, that is generated
    MaxNesting      \* the deepest value, in open containers

\* The sequences of at most n tokens that are items of Items, joined by commas.
Joined(Items, n) ==
    LET UpTo[k \in 0 .. n] ==
            LET one == {x \in Items : Len(x) <= k}
                \* every list of two or more items is an item, a comma and a list
                more == {x \in Items : Len(x) + 2 <= k}
            IN  one \union
                UNION {{x \o <<"comma">> \o y : y \in UpTo[k - Len(x) - 1]} : x \in more}
    IN  UpTo[n]

Scalars == {<<s>> : s \in Strings \union {"scalar"}}

\* What is left of a value's tokens within the brackets around it.
Room == MaxLength - 2

Members(inner) == {<<s, "colon">> \o v : s \in Strings, v \in {u \in inner : Len(u) + 2 <= Room}}

\* The values whose items are values of inner.
Nest(inner) ==
    Scalars
    \union {<<"openArray">> \o e \o <<"closeArray">> :
               e \in {<< >>} \union Joined(inner, Room)}
    \union {<<"openObject">> \o m \o <<"closeObject">> :
               m \in {<< >>} \union Joined(Members(inner), Room)}

\* Values[d] holds every value of at most MaxLength tokens nested at most d deep.
Values[d \in 0 .. MaxNesting] == IF d = 0 THEN Scalars ELSE Nest(Values[d - 1])

\* Documents[d] holds those values with nothing after them.
Documents[d \in 0 .. MaxNesting] == {v \o <<"end">> : v \in Values[d]}

PrefixesOf(Texts) == UNION {{SubSeq(t, 1, k) : k \in 0 .. Len(t)} : t \in Texts}

\* What a reader may have read when the rest can still complete a document.
Viable[d \in 0 .. MaxNesting] == PrefixesOf(Documents[d])
=============================================================================
