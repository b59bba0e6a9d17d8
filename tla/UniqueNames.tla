----------------------------- MODULE UniqueNames -----------------------------
(***************************************************************************)
(* What a walk that refuses repeated member names promises.  The document  *)
(* is read token by token; commas and colons go with the token after them, *)
(* and "bad" is whatever no document holds there.  The caller is told of   *)
(* what was read until a name repeats, and once the document ends the walk *)
(* answers: malformed wins over a repeated name.                           *)
(***************************************************************************)
EXTENDS Integers, Sequences

CONSTANTS
    Names,      \* decoded member names, and string values
    None        \* no name

Modes == {"object", "document", "tokens"}
Kinds == {"object", "array"}

\* The tokens that open and close a container of each kind.
Opener == [object |-> "openObject", array |-> "openArray"]
Closer == [object |-> "closeObject", array |-> "closeArray"]

\* A container just opened: its kind, and the names of an object so far.
Opened(kind) == [kind |-> kind, names |-> {}]

VARIABLES
    mode,       \* IterateObject, IterateDocument or WalkTokens
    bound,      \* the most containers open at once
    open,       \* the open containers, outermost first
    next,       \* what comes next: a "value", an "item" of a container, or nothing: "done"
    name,       \* in a walk of tokens, the name to tell with the token that comes next
    member,     \* else the name of the document's own member that is being read
    repeated,   \* whether a name repeated one of its object
    token,      \* the last token read, or None
    told,       \* what the last step told the caller, or None
    result      \* "reading", "nil", "malformed", "duplicate" or "callback"

vars == <<mode, bound, open, next, name, member, repeated, token, told, result>>

Top == open[Len(open)]

Around(stack) == IF stack = << >> THEN "done" ELSE "item"

\* The least bound under which the walk reads anything.
Least == IF mode = "tokens" THEN 0 ELSE 1

\* The document itself, an element of an array or a member's value may come.
ValueComes == /\ result = "reading" /\ bound >= Least
              /\ next = "value" \/ (next = "item" /\ Top.kind = "array")

\* All but the walk of tokens read an object.
AnyComes == ValueComes /\ (mode = "tokens" \/ open # << >>)

\* The document's own member has been told of.
NoneDue == member = None \/ Len(open) > 1

\* The caller is told what, unless a name repeated, and may end the walk.
Tell(what) ==
    IF repeated
    THEN told' = None /\ UNCHANGED result
    ELSE told' = what /\ result' \in {result, "callback"}

\* Token t is read, which a walk of tokens tells with the name of the member it starts.
Reads(t) ==
    /\ token' = t
    /\ IF mode = "tokens" THEN Tell(<<name, t>>) ELSE told' = None /\ UNCHANGED result

Init == /\ mode \in Modes
        /\ bound \in Int
        /\ open = << >> /\ next = "value"
        /\ name = None /\ member = None
        /\ repeated = FALSE
        /\ token = None /\ told = None
        /\ result = "reading"

\* A scalar, or a string that is no name.
Item(t) ==
    /\ AnyComes
    /\ next' = Around(open) /\ name' = None
    /\ Reads(t)
    /\ UNCHANGED <<mode, bound, open, member, repeated>>

Open(kind) ==
    /\ IF kind = "object" THEN ValueComes ELSE AnyComes
    /\ Len(open) < bound
    /\ open' = Append(open, Opened(kind))
    /\ next' = "item" /\ name' = None
    /\ Reads(Opener[kind])
    /\ UNCHANGED <<mode, bound, member, repeated>>

\* In a walk of one object only its own names count.
Counts == mode # "object" \/ Len(open) = 1

\* The names of an object count until one repeats.
Name(n) ==
    /\ result = "reading" /\ next = "item" /\ Top.kind = "object" /\ NoneDue
    /\ repeated' = (repeated \/ (Counts /\ n \in Top.names))
    /\ open' = IF repeated' THEN [k \in 1 .. Len(open) |-> Opened(open[k].kind)]
               ELSE IF Counts THEN [open EXCEPT ![Len(open)].names = @ \union {n}]
               ELSE open
    /\ next' = "value"
    /\ IF mode = "tokens"
       THEN name' = (IF repeated' THEN None ELSE n) /\ UNCHANGED member
       ELSE member' = (IF Len(open) = 1 THEN n ELSE member) /\ UNCHANGED name
    /\ token' = n /\ told' = None
    /\ UNCHANGED <<mode, bound, result>>

Close ==
    /\ result = "reading" /\ next = "item" /\ NoneDue
    /\ open' = SubSeq(open, 1, Len(open) - 1)
    /\ next' = Around(open')
    /\ Reads(Closer[Top.kind])
    /\ UNCHANGED <<mode, bound, name, member, repeated>>

\* The value of the document's own member has ended.
Member ==
    /\ result = "reading" /\ next = "item" /\ Len(open) = 1 /\ member # None
    /\ Tell(member)
    /\ member' = None
    /\ UNCHANGED <<mode, bound, open, next, name, repeated, token>>

End ==
    /\ result = "reading" /\ next = "done"
    /\ result' = IF repeated THEN "duplicate" ELSE "nil"
    /\ told' = None
    /\ UNCHANGED <<mode, bound, open, next, name, member, repeated, token>>

\* A token that no document holds there, a container too deep, or a bound too small.
Refuse(t) ==
    /\ result = "reading"
    /\ \/ t = "bad"
       \/ t \in {"openObject", "openArray"} /\ Len(open) >= bound
       \/ t = None /\ bound < Least
    /\ result' = "malformed"
    /\ token' = t /\ told' = None
    /\ UNCHANGED <<mode, bound, open, next, name, member, repeated>>

Next == \/ Close \/ Member \/ End
        \/ \E t \in Names \union {"scalar"} : Item(t)
        \/ \E kind \in Kinds : Open(kind) \/ Refuse(Opener[kind])
        \/ \E n \in Names : Name(n)
        \/ \E t \in {"bad", None} : Refuse(t)

Spec == Init /\ [][Next]_vars
=============================================================================
