----------------------------- MODULE ValueTree ------------------------------
(***************************************************************************)
(* What a value reads as, by recursion over the value and not by a stack:  *)
(* the reference that Encode is compared with.                             *)
(***************************************************************************)
EXTENDS Encode

\* The keys that are written: of those written alike the greatest, in the order of names.
Kept(S) == {k \in S : ~\E l \in S : Reads[l] = Reads[k] /\ l > k}

ByName(k, l) == Reads[k] < Reads[l]

Named(S) == Sorted(Kept(S), ByName)

\* Joins(texts)[k] is the first k texts with commas between them.
Joins(texts) ==
    LET UpTo[k \in 0 .. Len(texts)] ==
            IF k = 0 THEN << >>
            ELSE UpTo[k - 1] \o (IF k = 1 THEN << >> ELSE <<"comma">>) \o texts[k]
    IN  UpTo

Joined(texts) == Joins(texts)[Len(texts)]

\* The texts of the items of container c in memory m, where inside gives those of values.
ItemTexts(m, c, inside) ==
    IF c.kind = "object"
    THEN [i \in DOMAIN Named(DOMAIN m[c.ptr]) |->
             <<Names[Reads[Named(DOMAIN m[c.ptr])[i]]], "colon">>
             \o inside[m[c.ptr][Named(DOMAIN m[c.ptr])[i]]]]
    ELSE [i \in 1 .. c.length |-> inside[m[c.ptr][i]]]

Bracketed(kind, text) == <<Opener[kind]>> \o text \o <<Closer[kind]>>

Ids == Pointers \X Nat

\* Slices of one array are told apart by their lengths.
Identity(c) == <<c.ptr, c.length>>

\* The texts of the values of memory m where room more containers may open, for each path
\* of containers around: null for one that is on its path, that has no room or is nil.
Trees(m) ==
    LET In[room \in 0 .. MaxDepth] ==
            [path \in Seq(Ids) |-> [c \in Values |->
                IF c.kind \notin ContainerKinds THEN <<Token[c.kind]>>
                ELSE IF c.ptr = 0 \/ room = 0 \/ \E k \in DOMAIN path : path[k] = Identity(c)
                THEN <<"null">>
                ELSE Bracketed(c.kind,
                         Joined(ItemTexts(m, c, In[room - 1][Append(path, Identity(c))])))]]
    IN  In

Tree(m, c) == Trees(m)[MaxDepth][<< >>][c]

\* Once the encoder is done the Builder holds the tree, with null for each container that
\* lies in itself, by pointer and length, or too deep, and the members in order of their
\* names, one for each name (AddValueElement: "null for the rest, for cycles and past
\* MaxDepth"; appendSortedKeys: "of keys written alike, only the greatest stays").
WritesTree == pc = "done" => buf = Tree(memory, root)
=============================================================================
