------------------------------- MODULE Decode --------------------------------
(***************************************************************************)
(* DecodeValue of value.go: the Go value of a document, built in the one   *)
(* walk that checks it.  The containers that the walk is inside are on a   *)
(* stack; a closed one is put into the one around it, under the name that  *)
(* waits there, and the value of the document is kept apart.  A repeated   *)
(* name ends the building and leaves the rest of the document to the       *)
(* walker, since malformed input wins.                                     *)
(*                                                                         *)
(* A step reads one token, as in ObjectWalk: every document is tried, the  *)
(* comma or colon before a token belongs to it, and "bad" is any fault.    *)
(* What number makes of a number, and the literals, are "scalar"; a string *)
(* is what it decodes to, copied or not (Arena has the copies).            *)
(***************************************************************************)
EXTENDS Integers, Sequences

CONSTANTS
    Names,      \* decoded strings, which are names and values
    MaxDepths   \* the bounds callers ask for

ASSUME DecodeAssumption ==
    /\ MaxDepths \subseteq Int
    /\ {"bad", "scalar", "object", "array"} \cap Names = {}

VARIABLES
    maxDepth,
    kinds, next,    \* the walker: the kinds of the open containers, and what it takes
    open,           \* the containers being decoded, each with the name that waits
    top, repeated,  \* the valueDecoder's
    read,           \* the tokens that were read
    result          \* "reading", or what DecodeValue returns

walker  == <<kinds, next>>
decoder == <<open, top, repeated>>
vars    == <<maxDepth, walker, decoder, read, result>>

Kinds  == {"object", "array"}
Opener == [object |-> "openObject", array |-> "openArray"]
Closer == [object |-> "closeObject", array |-> "closeArray"]

\* Values: a leaf, an object with a value at each name, an array with one at each index.
Leaf(t)     == [kind |-> t, at |-> << >>]
Empty(kind) == [kind |-> kind, at |-> << >>]

None == Leaf("bad")

Init ==
    /\ maxDepth \in MaxDepths
    /\ kinds = << >> /\ next = "value"
    /\ open = << >> /\ top = None /\ repeated = FALSE
    /\ read = << >> /\ result = "reading"

Walks == result = "reading" /\ maxDepth >= 0

Around(stack) == IF stack = << >> THEN "done" ELSE "item"

ValueNext == next = "value" \/ (next = "item" /\ kinds[Len(kinds)] = "array")

Reads(t) == read' = Append(read, t)

\* add: under the waiting name, or at the end.
Added(f, v) ==
    IF f.value.kind = "array" THEN [f EXCEPT !.value.at = Append(@, v)]
    ELSE [f EXCEPT !.value.at = [n \in DOMAIN @ \union {f.name} |-> IF n = f.name THEN v ELSE @[n]]]

\* The value v is placed with the containers of stack open.
Place(stack, v) ==
    LET last == Len(stack)
    IN  IF last = 0
        THEN top' = v /\ open' = stack
        ELSE open' = [stack EXCEPT ![last] = Added(@, v)] /\ UNCHANGED top

\* A literal, a number or a string that is no name.
Item(t) ==
    /\ Walks /\ ValueNext
    /\ next' = Around(kinds)
    /\ IF repeated THEN UNCHANGED decoder ELSE Place(open, Leaf(t)) /\ UNCHANGED repeated
    /\ Reads(t)
    /\ UNCHANGED <<maxDepth, kinds, result>>

Open(kind) ==
    /\ Walks /\ ValueNext /\ Len(kinds) < maxDepth
    /\ kinds' = Append(kinds, kind) /\ next' = "item"
    /\ open' = IF repeated THEN open ELSE Append(open, [value |-> Empty(kind), name |-> "bad"])
    /\ Reads(Opener[kind])
    /\ UNCHANGED <<maxDepth, top, repeated, result>>

Close ==
    /\ Walks /\ next = "item"
    /\ kinds' = SubSeq(kinds, 1, Len(kinds) - 1) /\ next' = Around(kinds')
    /\ IF repeated THEN UNCHANGED decoder
       ELSE /\ Place(SubSeq(open, 1, Len(open) - 1), open[Len(open)].value)
            /\ UNCHANGED repeated
    /\ Reads(Closer[kinds[Len(kinds)]])
    /\ UNCHANGED <<maxDepth, result>>

\* Mutant of Has: a name is compared with the one before it.
HasNext(f, n) == n = f.name

Has(f, n) == n \in DOMAIN f.value.at

\* name: a name the object has already is noted and decides what is returned.
Name(n) ==
    /\ Walks /\ next = "item" /\ kinds[Len(kinds)] = "object"
    /\ next' = "value"
    /\ IF repeated THEN UNCHANGED decoder
       ELSE /\ repeated' = Has(open[Len(open)], n)
            /\ open' = [open EXCEPT ![Len(open)].name = n]
            /\ UNCHANGED top
    /\ Reads(n)
    /\ UNCHANGED <<maxDepth, kinds, result>>

\* end, or rest after a repeated name: nothing follows the value.
End ==
    /\ Walks /\ next = "done"
    /\ result' = IF repeated THEN "duplicate" ELSE "nil"
    /\ UNCHANGED <<maxDepth, walker, decoder, read>>

\* Any fault, a container too deep, or a bound below zero.
Refuse(t) ==
    /\ result = "reading"
    /\ \/ t = "bad"
       \/ Walks /\ ValueNext /\ Len(kinds) >= maxDepth
    /\ result' = "malformed"
    /\ Reads(t)
    /\ UNCHANGED <<maxDepth, walker, decoder>>

Next == \/ Close \/ End \/ Refuse("bad")
        \/ \E t \in Names \union {"scalar"} : Item(t)
        \/ \E n \in Names : Name(n)
        \/ \E kind \in Kinds : Open(kind) \/ Refuse(Opener[kind])

Spec == Init /\ [][Next]_vars
=============================================================================
