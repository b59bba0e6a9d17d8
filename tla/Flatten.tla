------------------------------- MODULE Flatten -------------------------------
(***************************************************************************)
(* FlattenObject of flatten.go: one walk checks the object, writes each    *)
(* leaf to the Builder as it is read, and notices repeated names.          *)
(*                                                                         *)
(* The names of the leaves stay in a set for the whole call.  Those of the *)
(* objects outside the leaves are kept only where they can matter: an      *)
(* object's leaf names wait in pending, and move to a set of its own once  *)
(* it holds an object or more leaves than pending has room for.  Names are *)
(* decoded at the end of the arena; that of an object moves from there to  *)
(* nested, whose room is given back when the object around it closes, and  *)
(* the names inside a leaf give theirs back as their objects close.  A set *)
(* holds where a name lies: what is written there later, the set reads.    *)
(*                                                                         *)
(* A step reads one token that walker.token stops at; the comma or colon   *)
(* before it belongs to the step.  The token is chosen when it is read,    *)
(* and "bad" is any fault that the walker or a string's scan finds there   *)
(* (Walker).  Each arena is one chunk (Arena has their growth), and a set  *)
(* is a mathematical set (NameSet has its table).                          *)
(***************************************************************************)
EXTENDS Naturals, Sequences, FiniteSets

CONSTANTS
    Names,          \* decoded member names
    None,           \* no name
    MaxDepth,       \* maxFlattenDepth
    InlineNames     \* inlineNames, the room of pending

ASSUME FlattenAssumption ==
    /\ None \notin Names
    /\ MaxDepth \in Nat \ {0}
    /\ InlineNames \in Nat

Opener == [object |-> "openObject", array |-> "openArray"]
Closer == [object |-> "closeObject", array |-> "closeArray"]
Arenas == {"arena", "nested"}

VARIABLES
    had,            \* needSep of the Builder before the call
    kinds, next,    \* the walker's open containers, and what it takes next
    sets, depth,    \* openObjects.sets up to its capacity, and their number in use
    marks,          \* openObjects.marks: lengths of an arena
    memory,         \* of each arena: the names written to its buffer
    length,         \* of each arena: its length
    leaves,         \* flattener.leaves
    pending,        \* flattener.pending up to waiting
    named,          \* flattener.named
    name,           \* where flattener.name lies
    nameMark,       \* flattener.nameMark
    leaf,           \* flattener.leaf: how many containers of the leaf are open
    comma,          \* flattener.comma
    repeated,       \* flattener.repeated
    needSep, kept,  \* of the Builder: needSep, and whether it holds more than before
    token, wrote,   \* what the last step read and what it wrote
    result          \* "reading", or what the call returns

walker  == <<kinds, next>>
open    == <<sets, depth, marks>>
arenas  == <<memory, length>>
objects == <<pending, named, name, nameMark>>
builder == <<needSep, kept>>
vars == <<had, walker, open, arenas, leaves, objects, leaf, comma, repeated, builder,
          token, wrote, result>>

InDocument(n) == <<"document", n>>

Init == /\ had \in BOOLEAN
        /\ kinds = << >> /\ next = "value"
        /\ sets = << >> /\ depth = 0 /\ marks = << >>
        /\ memory = [a \in Arenas |-> << >>] /\ length = [a \in Arenas |-> 0]
        /\ leaves = {}
        /\ pending = << >> /\ named = FALSE
        /\ name = InDocument(None) /\ nameMark = 0
        /\ leaf = 0 /\ comma = FALSE /\ repeated = FALSE
        /\ needSep = had /\ kept = FALSE
        /\ token = None /\ wrote = << >>
        /\ result = "reading"

-----------------------------------------------------------------------------
(* The sets and the arenas.                                                *)

\* A name lies in the document, or in an arena at a place; Text reads it there.
TextIn(mem, place) == IF place[1] = "document" THEN place[2] ELSE mem[place[1]][place[2]]
Text(place) == TextIn(memory, place)

Holds(S, place) == \E p \in S : TextIn(memory', p) = TextIn(memory', place)
With(S, place)  == IF Holds(S, place) THEN S ELSE S \union {place}

\* n written to the end of the arena a.
Carved(a, n) ==
    [memory EXCEPT ![a] = SubSeq(@, 1, length[a]) \o <<n>> \o SubSeq(@, length[a] + 2, Len(@))]

\* pushSet: S in the set closed at that level or in a new one; and a mark of the arena a.
Push(a, S) ==
    /\ sets' = IF depth = Len(sets) THEN Append(sets, S) ELSE [sets EXCEPT ![depth + 1] = S]
    /\ depth' = depth + 1
    /\ marks' = Append(marks, length[a])

\* pop: the innermost set, and the room that the arena a had when it was pushed.
Pop(a) ==
    /\ depth' = depth - 1
    /\ length' = [length EXCEPT ![a] = marks[Len(marks)]]
    /\ marks' = SubSeq(marks, 1, Len(marks) - 1)
    /\ UNCHANGED <<sets, memory>>

\* Mutant of Kept: the pending names are left behind.
KeptUnlessPending == IF named THEN sets[depth] ELSE {}

\* The names kept of the innermost object outside the leaves.
Kept == IF named THEN sets[depth] ELSE {pending[k] : k \in 1 .. Len(pending)}

\* ensure, and add to the set of that object: one without a set gets one that holds its
\* pending names.
File(place) ==
    IF named
    THEN sets' = [sets EXCEPT ![depth] = With(Kept, place)] /\ UNCHANGED <<depth, marks>>
    ELSE Push("nested", With(Kept, place))

\* leafName and setName.
LeafName ==
    /\ UNCHANGED arenas
    /\ leaves' = With(leaves, name)
    /\ IF ~named /\ Len(pending) < InlineNames
       THEN /\ pending' = Append(pending, name)
            /\ repeated' = Holds(leaves, name)
            /\ UNCHANGED <<open, named>>
       ELSE /\ File(name)
            /\ repeated' = (Holds(leaves, name) \/ Holds(Kept, name))
            /\ named' = TRUE
            /\ UNCHANGED pending
    /\ UNCHANGED <<name, nameMark>>

\* Mutant of Moved: the name is filed where it was decoded.
FiledInPlace ==
    /\ length' = [length EXCEPT !["arena"] = nameMark]
    /\ UNCHANGED memory
    /\ File(name)
    /\ repeated' = Holds(Kept, name)

\* objectName: a decoded name moves to nested; and it is filed.
Moved ==
    IF length["arena"] = nameMark
    THEN UNCHANGED arenas /\ File(name) /\ repeated' = Holds(Kept, name)
    ELSE LET place == <<"nested", length["nested"] + 1>>
         IN  /\ memory' = Carved("nested", Text(name))
             /\ length' = [arena |-> nameMark, nested |-> length["nested"] + 1]
             /\ File(place)
             /\ repeated' = Holds(Kept, place)

\* enter
Enter ==
    /\ IF kinds = << >> THEN UNCHANGED <<open, arenas, repeated>> ELSE Moved
    /\ pending' = << >> /\ named' = FALSE
    /\ UNCHANGED <<leaves, name, nameMark>>

\* leave: the object around the one that closes has a set, since it held it.
Leave ==
    /\ IF named THEN Pop("nested") ELSE UNCHANGED <<open, arenas>>
    /\ named' = TRUE
    /\ UNCHANGED <<leaves, pending, name, nameMark, repeated>>

-----------------------------------------------------------------------------
(* What is written.                                                        *)

Comma(due) == IF due THEN <<"comma">> ELSE << >>

Writes(text) == wrote' = text /\ kept' = (kept \/ text # << >>)

WritesNothing == Writes(<< >>) /\ UNCHANGED <<leaf, comma, needSep>>

\* item and text: in a leaf after a comma when one is due, or as a leaf after its key,
\* which is a field of the Builder (AddRawBytesField).  comma is what follows it.
WritesItem(text, due) ==
    /\ Writes(IF leaf = 0 THEN Comma(needSep) \o <<<<"key", Text(name)>>>> \o text
                          ELSE Comma(comma) \o text)
    /\ needSep' = (needSep \/ leaf = 0)
    /\ comma' = due

-----------------------------------------------------------------------------
(* One token: take.                                                        *)

AroundOf(stack) == IF stack = << >> THEN "done" ELSE "item"

\* The loop of run goes on.
Takes == result = "reading" /\ ~repeated

ValueNext == /\ Takes /\ kinds # << >>
             /\ next = "value" \/ (next = "item" /\ kinds[Len(kinds)] = "array")

\* A leaf starts, or goes on.
LeafGoesOn == IF leaf = 0 THEN LeafName
              ELSE UNCHANGED <<open, arenas, leaves, objects, repeated>>

Scalar ==
    /\ ValueNext
    /\ next' = "item"
    /\ token' = "scalar"
    /\ LeafGoesOn
    /\ WritesItem(<<"scalar">>, TRUE)
    /\ UNCHANGED <<had, kinds, leaf, result>>

OpenArray ==
    /\ ValueNext /\ Len(kinds) < MaxDepth
    /\ kinds' = Append(kinds, "array") /\ next' = "item"
    /\ token' = "openArray"
    /\ LeafGoesOn
    /\ WritesItem(<<"openArray">>, FALSE)
    /\ leaf' = leaf + 1
    /\ UNCHANGED <<had, result>>

OpenObject ==
    /\ ValueNext \/ (Takes /\ kinds = << >> /\ next = "value")
    /\ Len(kinds) < MaxDepth
    /\ kinds' = Append(kinds, "object") /\ next' = "item"
    /\ token' = "openObject"
    /\ IF leaf = 0
       THEN Enter /\ WritesNothing
       ELSE /\ Push("arena", {}) /\ UNCHANGED <<arenas, leaves, objects, repeated>>
            /\ WritesItem(<<"openObject">>, FALSE)
            /\ leaf' = leaf + 1
    /\ UNCHANGED <<had, result>>

CloseContainer ==
    /\ Takes /\ next = "item"
    /\ LET kind == kinds[Len(kinds)]
       IN  /\ token' = Closer[kind]
           /\ IF leaf = 0
              THEN Leave /\ WritesNothing
              ELSE /\ IF kind = "object" THEN Pop("arena") ELSE UNCHANGED <<open, arenas>>
                   /\ Writes(<<Closer[kind]>>)
                   /\ leaf' = leaf - 1 /\ comma' = TRUE
                   /\ UNCHANGED <<leaves, objects, repeated, needSep>>
    /\ kinds' = SubSeq(kinds, 1, Len(kinds) - 1)
    /\ next' = AroundOf(kinds')
    /\ UNCHANGED <<had, result>>

\* strictToken: a name n that needs decoding is carved from the arena.
StrictToken(n, place) ==
    IF place[1] = "arena"
    THEN /\ memory' = Carved("arena", n)
         /\ length' = [length EXCEPT !["arena"] = @ + 1]
    ELSE UNCHANGED arenas

\* member: outside the leaves the name keys the next value; in one it is written and
\* filed in the set of its object.
Member(n) == \E place \in {InDocument(n), <<"arena", length["arena"] + 1>>} :
    /\ StrictToken(n, place)
    /\ IF leaf = 0
       THEN /\ name' = place /\ nameMark' = length["arena"]
            /\ WritesNothing
            /\ UNCHANGED <<open, leaves, pending, named, repeated>>
       ELSE /\ sets' = [sets EXCEPT ![depth] = With(@, place)]
            /\ repeated' = Holds(sets[depth], place)
            /\ WritesItem(<<n, "colon">>, FALSE)
            /\ UNCHANGED <<depth, marks, leaves, objects, leaf>>

MemberName(n) ==
    /\ Takes /\ next = "item" /\ kinds[Len(kinds)] = "object"
    /\ next' = "value"
    /\ token' = n
    /\ Member(n)
    /\ UNCHANGED <<had, kinds, result>>

\* FlattenObject of a valid value that is no object.
NoObject ==
    /\ Takes /\ kinds = << >> /\ next = "value"
    /\ result' = "nil"
    /\ UNCHANGED <<had, walker, open, arenas, leaves, objects, leaf, comma, repeated,
                   builder, token, wrote>>

\* FlattenObject takes back what it wrote.
Fails(fault) ==
    /\ result' = fault
    /\ needSep' = had /\ kept' = FALSE

\* walkFault at the end of the document.
End ==
    /\ Takes /\ next = "done"
    /\ result' = "nil"
    /\ wrote' = << >>
    /\ UNCHANGED <<had, walker, open, arenas, leaves, objects, leaf, comma, repeated,
                   builder, token>>

\* rest, once a name has repeated: whether the rest is well formed decides the fault.
Rest == \E fault \in {"duplicate", "malformed"} :
    /\ result = "reading" /\ repeated
    /\ Fails(fault)
    /\ wrote' = << >>
    /\ UNCHANGED <<had, walker, open, arenas, leaves, objects, leaf, comma, repeated, token>>

\* A container too deep, or a fault anywhere.
Fault(t) ==
    /\ Takes
    /\ t = "bad" \/ (ValueNext /\ Len(kinds) >= MaxDepth)
    /\ token' = t
    /\ Fails("malformed")
    /\ wrote' = << >>
    /\ UNCHANGED <<had, walker, open, arenas, leaves, objects, leaf, comma, repeated>>

Next == \/ Scalar \/ OpenArray \/ OpenObject \/ CloseContainer \/ NoObject \/ End \/ Rest
        \/ \E n \in Names : MemberName(n)
        \/ \E t \in {"bad", "openArray", "openObject"} : Fault(t)

Spec == Init /\ [][Next]_vars

-----------------------------------------------------------------------------
Places == ({"document"} \X (Names \union {None})) \union (Arenas \X Nat)

TypeOK ==
    /\ had \in BOOLEAN
    /\ kinds \in Seq({"object", "array"}) /\ next \in {"value", "item", "done"}
    /\ sets \in Seq(SUBSET Places) /\ depth \in 0 .. Len(sets)
    /\ marks \in Seq(Nat)
    /\ memory \in [Arenas -> Seq(Names)]
    /\ length \in [Arenas -> Nat] /\ \A a \in Arenas : length[a] <= Len(memory[a])
    /\ leaves \subseteq Places
    /\ pending \in Seq(Places) /\ Len(pending) <= InlineNames
    /\ named \in BOOLEAN /\ name \in Places /\ nameMark \in Nat
    /\ leaf \in Nat /\ comma \in BOOLEAN /\ repeated \in BOOLEAN
    /\ needSep \in BOOLEAN /\ kept \in BOOLEAN
    /\ result \in {"reading", "nil", "malformed", "duplicate"}

\* The containers outside the leaves are the first ones, all objects.
Outside == Len(kinds) - leaf

ObjectsIn(from, to) == Cardinality({k \in from .. to : kinds[k] = "object"})

\* Every open object has a set, but the innermost outside the leaves perhaps, which has
\* its pending names instead; each set has its mark; and no kept name lies in room that
\* was given back (ensure, enter, leave, openObjects.push and pop).
SetsOfObjects ==
    /\ TypeOK
    /\ Takes /\ kinds # << >> =>
          /\ \A k \in 1 .. Outside : kinds[k] = "object"
          /\ depth = Outside - (IF named THEN 0 ELSE 1) + ObjectsIn(Outside + 1, Len(kinds))
          /\ Len(marks) = depth
          /\ \A p \in leaves \union Kept \union UNION {sets[k] : k \in 1 .. depth} :
                p[1] # "document" => p[2] <= length[p[1]]

-----------------------------------------------------------------------------
(* The abstract walk.                                                      *)

\* The names kept of the k-th open container.
NamesOf(k) ==
    {Text(p) : p \in
        IF kinds[k] = "array" THEN {}
        ELSE IF k < Outside THEN sets[k]
        ELSE IF k = Outside /\ named THEN sets[k]
        ELSE IF k = Outside THEN {pending[j] : j \in 1 .. Len(pending)}
        ELSE sets[Outside - (IF named THEN 0 ELSE 1) + ObjectsIn(Outside + 1, k)]}

AbstractOpen ==
    [k \in 1 .. IF repeated THEN 0 ELSE Len(kinds) |->
        [kind  |-> kinds[k],
         names |-> NamesOf(k),
         begun |-> k > Outside /\ (k < Len(kinds) \/ next = "value" \/ comma)]]

Waiting == ~repeated /\ kinds # << >> /\ leaf = 0 /\ next = "value"

Undone == repeated /\ result = "reading"

Abstract == INSTANCE FlatLeaves WITH
    open    <- AbstractOpen,
    name    <- IF Waiting THEN Text(name) ELSE None,
    leaves  <- IF repeated THEN {} ELSE {Text(p) : p \in leaves},
    wrote   <- IF repeated THEN << >> ELSE wrote,
    kept    <- kept /\ ~Undone,
    needSep <- IF Undone THEN had ELSE needSep

\* A repeated member or leaf name is found where it is, though names of objects are
\* kept only once they can matter and their room is used again; every leaf is written
\* once, with its key, its commas and nothing else; and a call that fails leaves the
\* Builder as it was (FlattenObject).
ImplementsFlatLeaves == Abstract!Spec
=============================================================================
