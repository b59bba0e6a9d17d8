----------------------------- MODULE FlatLeaves -----------------------------
(***************************************************************************)
(* What FlattenObject promises.  The document is read token by token;      *)
(* commas and colons go with the token after them, and "bad" is whatever   *)
(* no document holds there.  A leaf is a member's value that is no object, *)
(* wherever in the nested objects of the document it lies; an array is one *)
(* leaf with all it holds.  Each leaf is written as a field of its own     *)
(* name, its value as it was read.  No two members of an object, and no    *)
(* two leaves, have one name; malformed wins over a repeat; and a failed   *)
(* call leaves the Builder as it was.                                      *)
(***************************************************************************)
EXTENDS Naturals, Sequences

CONSTANTS
    Names,      \* decoded member names
    None,       \* no name
    MaxDepth    \* maxFlattenDepth

Opener == [object |-> "openObject", array |-> "openArray"]
Closer == [object |-> "closeObject", array |-> "closeArray"]

VARIABLES
    had,        \* whether the Builder wanted a separator before the call
    open,       \* the open containers: kind, names so far, whether an item came
    next,       \* what comes next: a "value", an "item" of a container, or nothing: "done"
    name,       \* the name of the member outside the leaves that is read next
    leaves,     \* the names of the leaves
    repeated,
    token,      \* the last token read
    wrote,      \* what the last step wrote, while no name has repeated
    kept,       \* whether the Builder holds something of this call
    needSep,
    result      \* "reading", "nil", "malformed" or "duplicate"

vars == <<had, open, next, name, leaves, repeated, token, wrote, kept, needSep, result>>

Init == /\ had \in BOOLEAN
        /\ open = << >> /\ next = "value"
        /\ name = None /\ leaves = {}
        /\ repeated = FALSE
        /\ token = None /\ wrote = << >>
        /\ kept = FALSE /\ needSep = had
        /\ result = "reading"

InLeaf(stack) == \E k \in 1 .. Len(stack) : stack[k].kind = "array"
Top == open[Len(open)]
Around(stack) == IF stack = << >> THEN "done" ELSE "item"

Comma(due) == IF due THEN <<"comma">> ELSE << >>

\* The open containers with an item more in the innermost of a leaf.
Begun == [open EXCEPT ![Len(open)].begun = InLeaf(open)]

\* Text goes to the Builder unless a name repeated, which takes all of it back.
Writes(text) ==
    IF repeated'
    THEN wrote' = << >> /\ kept' = FALSE /\ needSep' = had
    ELSE /\ wrote' = text
         /\ kept' = (kept \/ text # << >>)
         /\ needSep' = (needSep \/ text # << >>)

Reading == result = "reading" /\ ~repeated

\* A value comes here: the document, a member's or an element.
ValueComes == /\ Reading
              /\ next = "value" \/ (next = "item" /\ Top.kind = "array")

\* A member outside the leaves whose value starts: its name counts in its object, and,
\* when it is a leaf, among the leaves.
NameCounts(isLeaf) ==
    /\ repeated' = (name \in Top.names \/ (isLeaf /\ name \in leaves))
    /\ leaves' = IF repeated' THEN {} ELSE IF isLeaf THEN leaves \union {name} ELSE leaves
    /\ name' = None

Named(stack, n) == [stack EXCEPT ![Len(stack)].names = @ \union {n}]

Opened(kind) == [kind |-> kind, names |-> {}, begun |-> FALSE]

\* The open containers count until a name repeats.
Counts(stack) == open' = IF repeated' THEN << >> ELSE stack

\* A value outside the leaves that is a leaf, or one inside, starts with t.
StartsLeaf(t) ==
    IF InLeaf(open)
    THEN /\ UNCHANGED <<repeated, leaves, name>>
         /\ Writes(Comma(Top.begun /\ next = "item") \o <<t>>)
    ELSE /\ NameCounts(TRUE)
         /\ Writes(Comma(needSep) \o <<<<"key", name>>, t>>)

\* The open containers once it has.
AfterStart == IF InLeaf(open) THEN Begun ELSE Named(open, name)

Scalar == /\ ValueComes /\ open # << >>
          /\ token' = "scalar"
          /\ StartsLeaf("scalar")
          /\ Counts(AfterStart)
          /\ next' = "item"
          /\ UNCHANGED <<had, result>>

OpenArray == /\ ValueComes /\ open # << >> /\ Len(open) < MaxDepth
             /\ token' = "openArray"
             /\ StartsLeaf("openArray")
             /\ Counts(Append(AfterStart, Opened("array")))
             /\ next' = "item"
             /\ UNCHANGED <<had, result>>

\* An object outside the leaves writes nothing.
OpenObject == /\ ValueComes /\ Len(open) < MaxDepth
              /\ token' = "openObject"
              /\ IF open = << >>
                 THEN /\ UNCHANGED <<repeated, leaves, name>>
                      /\ Writes(<< >>)
                      /\ open' = <<Opened("object")>>
                 ELSE IF InLeaf(open)
                 THEN /\ StartsLeaf("openObject")
                      /\ Counts(Append(Begun, Opened("object")))
                 ELSE /\ NameCounts(FALSE)
                      /\ Writes(<< >>)
                      /\ Counts(Append(Named(open, name), Opened("object")))
              /\ next' = "item"
              /\ UNCHANGED <<had, result>>

\* A name inside a leaf counts in its object and is written.
Name(n) == /\ Reading /\ next = "item" /\ Top.kind = "object"
           /\ token' = n
           /\ IF InLeaf(open)
              THEN /\ repeated' = (n \in Top.names)
                   /\ Writes(Comma(Top.begun) \o <<n, "colon">>)
                   /\ Counts(Named(Begun, n))
                   /\ leaves' = (IF repeated' THEN {} ELSE leaves)
                   /\ UNCHANGED name
              ELSE /\ name' = n
                   /\ UNCHANGED <<open, repeated, leaves>>
                   /\ Writes(<< >>)
           /\ next' = "value"
           /\ UNCHANGED <<had, result>>

Close == /\ Reading /\ next = "item"
         /\ token' = Closer[Top.kind]
         /\ UNCHANGED repeated
         /\ Writes(IF InLeaf(open) THEN <<Closer[Top.kind]>> ELSE << >>)
         /\ open' = SubSeq(open, 1, Len(open) - 1)
         /\ next' = Around(open')
         /\ UNCHANGED <<had, leaves, name, result>>

\* A value that is no object has no leaves.
NoObject == /\ Reading /\ token = None
            /\ result' = "nil"
            /\ UNCHANGED <<had, open, next, name, leaves, repeated, token, wrote, kept, needSep>>

End == /\ Reading /\ next = "done"
       /\ result' = "nil"
       /\ wrote' = << >>
       /\ UNCHANGED <<had, open, next, name, leaves, repeated, token, kept, needSep>>

\* The rest is read for its form alone once a name has repeated.
Rest == /\ result = "reading" /\ repeated
        /\ result' \in {"duplicate", "malformed"}
        /\ UNCHANGED <<had, open, next, name, leaves, repeated, token, wrote, kept, needSep>>

\* A token that no document holds there, or a container too deep.
Refuse(t) == /\ Reading
             /\ t = "bad" \/ Len(open) >= MaxDepth
             /\ token' = t
             /\ wrote' = << >> /\ kept' = FALSE /\ needSep' = had
             /\ result' = "malformed"
             /\ UNCHANGED <<had, open, next, name, leaves, repeated>>

Next == \/ Scalar \/ OpenArray \/ OpenObject \/ Close \/ NoObject \/ End \/ Rest
        \/ \E n \in Names : Name(n)
        \/ \E t \in {"bad", "openArray", "openObject"} : Refuse(t)

Spec == Init /\ [][Next]_vars
=============================================================================
