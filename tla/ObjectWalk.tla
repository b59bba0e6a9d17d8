----------------------------- MODULE ObjectWalk -----------------------------
(***************************************************************************)
(* IterateObject, IterateDocument and WalkTokens of iterate.go: one pass   *)
(* that checks a document, hands its members or tokens to a callback and   *)
(* notices repeated member names.                                          *)
(*                                                                         *)
(* walkObject reads the members of the document's object in a loop of its  *)
(* own and walks each member's value with one walker.  Inside a value the  *)
(* names of the open objects are kept in openObjects: a stack of name sets *)
(* in which a closed object leaves its set for the next one opened at that *)
(* level, and a stack of marks of the arena that the names are decoded     *)
(* into, whose room is given back as objects close.  A set holds places of *)
(* the arena and not names: what a later name writes there, it reads.  The *)
(* first repeat decides all but whether the rest is well formed, and the   *)
(* walk goes on without sets.                                              *)
(*                                                                         *)
(* A step reads one token that walker.token, or the loop of walkObject,    *)
(* stops at; the comma or colon before it belongs to the step.  Every      *)
(* document is tried: the token is chosen when it is read, and "bad" is    *)
(* any fault that the walker or a string's scan finds there (Walker).  All *)
(* names need decoding: one that does not is a view of the document, which *)
(* nothing writes.  The arena is one chunk (Arena has its growth).         *)
(***************************************************************************)
EXTENDS Integers, Sequences, FiniteSets

CONSTANTS
    Names,      \* decoded member names, and string values
    None,       \* no name
    MaxDepths   \* the bounds callers ask for

ASSUME ObjectWalkAssumption ==
    /\ None \notin Names
    /\ {"bad", "scalar", "openObject", "openArray", "closeObject", "closeArray"}
          \intersect (Names \union {None}) = {}
    /\ MaxDepths \subseteq Int

VARIABLES
    mode,       \* "object", "document" or "tokens": the function called
    maxDepth,
    at,         \* where in walkObject or WalkTokens the call is
    kinds,      \* the kinds of the containers that the walker has open
    next,       \* what the walker takes next: a "value", an "item", or it is "done"
    sets,       \* openObjects.sets up to its capacity: places of arena, by level
    depth,      \* len(openObjects.sets)
    marks,      \* openObjects.marks: lengths of the arena
    arena,      \* the names written to nested.buf
    length,     \* len(nested.buf)
    dup,        \* objectWalk.dup
    names,      \* the set of the document's own names
    name,       \* the member read last: of walkObject's loop, or of WalkTokens
    token, told,\* the token that the last step read, and what it called fn with
    result      \* "reading", or what the call returns

call   == <<mode, maxDepth>>
walker == <<kinds, next>>
open   == <<sets, depth, marks>>
nested == <<arena, length>>
vars   == <<call, at, walker, open, nested, dup, names, name, token, told, result>>

Modes == {"object", "document", "tokens"}
Kinds == {"object", "array"}
Opener == [object |-> "openObject", array |-> "openArray"]
Closer == [object |-> "closeObject", array |-> "closeArray"]

\* The most containers the walker opens: walkObject has opened the document's object.
WalkerDepth == IF mode = "tokens" THEN maxDepth ELSE maxDepth - 1

Init == /\ mode \in Modes /\ maxDepth \in MaxDepths
        /\ at = IF mode = "tokens" THEN "value" ELSE "start"
        /\ kinds = << >> /\ next = "value"
        /\ sets = << >> /\ depth = 0 /\ marks = << >>
        /\ arena = << >> /\ length = 0
        /\ dup = FALSE
        /\ names = {} /\ name = None
        /\ token = None /\ told = None
        /\ result = "reading"

-----------------------------------------------------------------------------
(* openObjects                                                             *)

\* Mutant of Push: a set closed at that level is used as it is.
PushStale ==
    /\ sets' = IF depth = Len(sets) THEN Append(sets, {}) ELSE sets
    /\ depth' = depth + 1
    /\ marks' = IF mode = "document" THEN Append(marks, length) ELSE marks
    /\ UNCHANGED nested

\* pushSet: the set closed at that level, reset, or a new one; and a mark unless the
\* walk keeps none.
Push ==
    /\ sets' = IF depth = Len(sets) THEN Append(sets, {}) ELSE [sets EXCEPT ![depth + 1] = {}]
    /\ depth' = depth + 1
    /\ marks' = IF mode = "document" THEN Append(marks, length) ELSE marks
    /\ UNCHANGED nested

\* Mutant of Pop: the room of the outermost open object is given back.
PopToOutermost ==
    /\ depth' = depth - 1
    /\ IF mode = "document"
       THEN /\ length' = marks[1]
            /\ marks' = SubSeq(marks, 1, Len(marks) - 1)
       ELSE UNCHANGED <<length, marks>>
    /\ UNCHANGED <<sets, arena>>

\* pop, which leaves the closed set as it is.
Pop ==
    /\ depth' = depth - 1
    /\ IF mode = "document"
       THEN /\ length' = marks[Len(marks)]
            /\ marks' = SubSeq(marks, 1, Len(marks) - 1)
       ELSE UNCHANGED <<length, marks>>
    /\ UNCHANGED <<sets, arena>>

\* strictToken carves the name, and add looks for it among those of its object.
Add(n) ==
    /\ length' = length + 1
    /\ arena' = SubSeq(arena, 1, length) \o <<n>> \o SubSeq(arena, length + 2, Len(arena))
    /\ IF \E p \in sets[depth] : arena'[p] = n
       THEN dup' = TRUE /\ UNCHANGED sets
       ELSE sets' = [sets EXCEPT ![depth] = @ \union {length'}] /\ UNCHANGED dup
    /\ UNCHANGED <<depth, marks>>

-----------------------------------------------------------------------------
(* The walker in a value, and take.                                        *)

\* The walker reads on, in a value of walkObject or in the document of WalkTokens.
Walks == result = "reading" /\ at \in {"value", "restValue"} /\ WalkerDepth >= 0

\* Whether take files the token: valueEnd without stacks and rest do not.
Files == at = "value" /\ mode # "object" /\ ~dup

AroundOf(stack) == IF stack = << >> THEN "done" ELSE "item"

ValueNext == next = "value" \/ (next = "item" /\ kinds[Len(kinds)] = "array")

\* WalkTokens calls fn with the token, unless it walks the rest.
Emit(t) ==
    /\ token' = t
    /\ IF mode = "tokens" /\ Files
       THEN told' = <<name, t>> /\ name' = None /\ result' \in {result, "callback"}
       ELSE told' = None /\ UNCHANGED <<name, result>>

Item(t) ==
    /\ Walks /\ ValueNext
    /\ next' = AroundOf(kinds)
    /\ Emit(t)
    /\ UNCHANGED <<call, at, kinds, open, nested, dup, names>>

OpenContainer(kind) ==
    /\ Walks /\ ValueNext
    /\ Len(kinds) < WalkerDepth
    /\ kinds' = Append(kinds, kind) /\ next' = "item"
    /\ IF kind = "object" /\ Files THEN Push ELSE UNCHANGED <<open, nested>>
    /\ Emit(Opener[kind])
    /\ UNCHANGED <<call, at, dup, names>>

CloseContainer ==
    /\ Walks /\ next = "item"
    /\ kinds' = SubSeq(kinds, 1, Len(kinds) - 1)
    /\ next' = AroundOf(kinds')
    /\ IF kinds[Len(kinds)] = "object" /\ Files THEN Pop ELSE UNCHANGED <<open, nested>>
    /\ Emit(Closer[kinds[Len(kinds)]])
    /\ UNCHANGED <<call, at, dup, names>>

\* text: a name is added to the last set, and WalkTokens keeps it for the next token.
MemberName(n) ==
    /\ Walks /\ next = "item" /\ kinds[Len(kinds)] = "object"
    /\ next' = "value"
    /\ IF Files THEN Add(n) ELSE UNCHANGED <<open, nested, dup>>
    /\ name' = IF mode = "tokens" /\ Files THEN n ELSE name
    /\ token' = n /\ told' = None
    /\ UNCHANGED <<call, at, kinds, names, result>>

\* The walker opens one container too many.
TooDeep(kind) ==
    /\ Walks /\ ValueNext
    /\ Len(kinds) >= WalkerDepth
    /\ token' = Opener[kind] /\ told' = None
    /\ result' = "malformed"
    /\ UNCHANGED <<call, at, walker, open, nested, dup, names, name>>

-----------------------------------------------------------------------------
(* walkObject                                                              *)

\* A bound that admits no object, before anything is read, or, under WalkTokens, no
\* value: top leaves the walker at the end of the data.
TooShallow ==
    /\ result = "reading"
    /\ IF mode = "tokens" THEN maxDepth < 0 ELSE at = "start" /\ maxDepth < 1
    /\ token' = None /\ told' = None
    /\ result' = "malformed"
    /\ UNCHANGED <<call, at, walker, open, nested, dup, names, name>>

\* openContainer at the document's object.
OpenDocument ==
    /\ result = "reading" /\ at = "start" /\ maxDepth >= 1
    /\ at' = "members"
    /\ token' = "openObject" /\ told' = None
    /\ UNCHANGED <<call, walker, open, nested, dup, names, name, result>>

\* The walker is put before the value of a member that is named n.
StartsMember(n) ==
    /\ name' = n
    /\ kinds' = << >> /\ next' = "value"
    /\ token' = n /\ told' = None
    /\ UNCHANGED <<call, open, nested, dup, names, result>>

\* memberName, in the loop of walkObject.
DocumentMember(n) ==
    /\ result = "reading" /\ at = "members"
    /\ at' = "value"
    /\ StartsMember(n)

\* skipName, in the loop of restMembers, which keeps no name.
RestMember(n) ==
    /\ result = "reading" /\ at = "rest"
    /\ at' = "restValue"
    /\ StartsMember(n)

\* The value ends: a repeat in it or of its name leaves the rest to restMembers, else
\* fn is called with the member, and the loop goes on unless fn fails.
EndOfValue ==
    /\ result = "reading" /\ mode # "tokens" /\ next = "done"
    /\ at \in {"value", "restValue"}
    /\ IF at = "value" /\ ~dup /\ name \notin names
       THEN /\ names' = names \union {name}
            /\ told' = name
            /\ at' = "members"
            /\ result' \in {result, "callback"}
       ELSE /\ told' = None
            /\ at' = "rest"
            /\ UNCHANGED <<names, result>>
    /\ name' = None /\ next' = "value"
    /\ UNCHANGED <<call, kinds, open, nested, dup, token>>

\* nextItem, or openContainer of an empty object, at the closer.
CloseDocument ==
    /\ result = "reading" /\ at \in {"members", "rest"}
    /\ at' = IF at = "members" THEN "closed" ELSE "restClosed"
    /\ token' = "closeObject" /\ told' = None
    /\ UNCHANGED <<call, walker, open, nested, dup, names, name, result>>

\* closeErr, or walkFault in WalkTokens: nothing follows the document.
End ==
    /\ result = "reading"
    /\ at \in {"closed", "restClosed"} \/ (mode = "tokens" /\ next = "done")
    /\ result' = IF at = "restClosed" \/ dup THEN "duplicate" ELSE "nil"
    /\ told' = None
    /\ UNCHANGED <<call, at, walker, open, nested, dup, names, name, token>>

\* Anything else: a token the grammar does not take, a malformed string or scalar, the
\* end of the data, or something after the document.
Fault ==
    /\ result = "reading"
    /\ token' = "bad" /\ told' = None
    /\ result' = "malformed"
    /\ UNCHANGED <<call, at, walker, open, nested, dup, names, name>>

Next == \/ TooShallow \/ OpenDocument \/ CloseDocument \/ CloseContainer
        \/ EndOfValue \/ End \/ Fault
        \/ \E n \in Names : MemberName(n) \/ DocumentMember(n) \/ RestMember(n)
        \/ \E t \in Names \union {"scalar"} : Item(t)
        \/ \E kind \in Kinds : OpenContainer(kind) \/ TooDeep(kind)

Spec == Init /\ [][Next]_vars

-----------------------------------------------------------------------------
TypeOK ==
    /\ mode \in Modes /\ maxDepth \in MaxDepths
    /\ at \in {"start", "members", "value", "closed", "rest", "restValue", "restClosed"}
    /\ kinds \in Seq(Kinds) /\ next \in {"value", "item", "done"}
    /\ sets \in Seq(SUBSET Nat) /\ depth \in 0 .. Len(sets)
    /\ marks \in Seq(Nat)
    /\ arena \in Seq(Names) /\ length \in 0 .. Len(arena)
    /\ dup \in BOOLEAN
    /\ names \subseteq Names /\ name \in Names \union {None}
    /\ result \in {"reading", "nil", "malformed", "duplicate", "callback"}

\* The objects among the first k open containers.
Objects(k) == Cardinality({j \in 1 .. k : kinds[j] = "object"})

StretchEnd(k) == IF k = depth THEN length ELSE marks[k + 1]

\* While names are kept, the open objects and the sets in use are the same, one to one,
\* and in IterateDocument the names of each take a stretch of the arena that starts at
\* its mark and ends at that of the next object, or at the end of the arena: no set
\* holds a place that was given back, and closed objects leave no room behind; siblings
\* share the set of their level, so there are no more sets than levels (openObjects.push,
\* pop and pushSet, arena.rewind).
Stacked ==
    /\ TypeOK
    /\ Len(sets) <= IF WalkerDepth > 0 THEN WalkerDepth ELSE 0
    /\ Files =>
          /\ depth = Objects(Len(kinds))
          /\ mode = "document" =>
                /\ Len(marks) = depth
                /\ depth = 0 => length = 0
                /\ \A k \in 1 .. depth : sets[k] = marks[k] + 1 .. StretchEnd(k)

\* The names kept of the object that the walker opened k-th, read from the arena.
KeptOf(k) == IF Files /\ kinds[k] = "object"
             THEN {arena[p] : p \in sets[Objects(k)]}
             ELSE {}

\* Whether the document's own member that is being read repeats a name.
Repeats == mode # "tokens" /\ name # None /\ name \in names

Decided == dup \/ Repeats \/ at \in {"rest", "restValue", "restClosed"}

InWalker == [k \in 1 .. Len(kinds) |->
                [kind  |-> kinds[k],
                 names |-> IF Decided THEN {} ELSE KeptOf(k)]]

Own == [kind  |-> "object",
        names |-> IF Decided THEN {} ELSE names \union ({name} \ {None})]

AbstractOpen ==
    IF mode = "tokens" THEN InWalker
    ELSE IF at \in {"start", "closed", "restClosed"} THEN << >>
    ELSE <<Own>> \o InWalker

AbstractNext ==
    IF mode = "tokens" THEN next
    ELSE IF at = "start" THEN "value"
    ELSE IF at \in {"closed", "restClosed"} THEN "done"
    ELSE IF at \in {"members", "rest"} \/ next = "done" THEN "item"
    ELSE next

Abstract == INSTANCE UniqueNames WITH
    bound    <- maxDepth,
    open     <- AbstractOpen,
    next     <- AbstractNext,
    name     <- IF mode = "tokens" /\ ~dup THEN name ELSE None,
    member   <- IF mode = "tokens" THEN None ELSE name,
    repeated <- Decided

\* Each walk finds exactly the first repeated name: no name of a closed object or of
\* another level counts, and none that was overwritten is missed; fn is called with
\* each member or token up to it and none past it; and malformed input anywhere wins
\* (IterateObject, IterateDocument, WalkTokens).
ImplementsUniqueNames == Abstract!Spec
=============================================================================
