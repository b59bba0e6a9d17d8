------------------------------- MODULE MCScan --------------------------------
(***************************************************************************)
(* Scan on every value of a bounded length over two names, on objects and  *)
(* arrays of three items, on each short value with one token changed or    *)
(* left out, and on brackets that do not match: what lookups and           *)
(* iterations find in a value is compared with its tree, and what the      *)
(* iterations of a document accept with the lenient grammar.               *)
(***************************************************************************)
EXTENDS Scan, SequencesExt, FiniteSetsExt

CONSTANTS MaxValue, MaxEdited, MaxNesting

Json == INSTANCE JsonText WITH MaxLength <- MaxValue

Tokens == Quoted \union Openers \union {"closeObject", "closeArray", "comma", "colon", "scalar", "faulty"}

Some == {<<"scalar">>, <<"b">>, <<"openArray", "closeArray">>, <<"openObject", "closeObject">>,
         <<"openArray", "openObject", "closeObject", "closeArray">>,
         <<"openObject", "a", "colon", "scalar", "closeObject">>}

\* Three items, whose names may repeat with another between them.
Triples ==
    LET member(name, v) == <<name, "colon">> \o v
        items(x, y, z)  == x \o <<"comma">> \o y \o <<"comma">> \o z
    IN  {<<"openObject">> \o items(member(l, x), member(m, y), member(n, z)) \o <<"closeObject">> :
           l, m, n \in Strings, x, y, z \in Some}
        \union {<<"openArray">> \o items(x, y, z) \o <<"closeArray">> : x, y, z \in Some}

WellFormed == Json!Values[MaxNesting] \union Triples

Edited == {v \in WellFormed : Len(v) <= MaxEdited}

\* One token changed, left out or added at the end.
Broken ==
    UNION {{[v EXCEPT ![k] = t] : k \in DOMAIN v, t \in Tokens} : v \in Edited}
    \union UNION {{RemoveAt(v, k) : k \in DOMAIN v} : v \in Edited}
    \union {Append(v, t) : v \in Edited, t \in {"scalar", "closeArray", "comma"}}

\* Containers of brackets of either kind, one string and no comma.
Unmatched ==
    {<<"openArray">> \o s \o <<"closeArray">> : s \in BoundedSeq({"openArray", "closeArray", "openObject", "broken"}, 3)}
    \union {<<"openObject", "a", "colon">> \o s \o <<"closeObject">> :
              s \in BoundedSeq(Openers \union {"closeObject", "closeArray"}, 4)}

MCInputs == WellFormed \union Broken \union Unmatched

-----------------------------------------------------------------------------
(* The tree of a value: an item of a container starts after the opener or  *)
(* a comma with no other container open, whatever their kinds.             *)

IsValue == doc \in WellFormed

PastValue(p) == CHOOSE e \in p + 1 .. Len(doc) + 1 : SubSeq(doc, p, e - 1) \in WellFormed

Closers == {"closeObject", "closeArray"}

Level(p, q) == Cardinality({k \in p + 1 .. q - 1 : doc[k] \in Openers})
               - Cardinality({k \in p + 1 .. q - 1 : doc[k] \in Closers})

ItemsOf(p) ==
    LET named  == doc[p] = "openObject"
        starts == {q \in p + 1 .. PastValue(p) - 2 :
                     Level(p, q) = 0 /\ (q = p + 1 \/ doc[q - 1] = "comma")}
        item(q) == LET start == IF named THEN q + 2 ELSE q
                   IN  [name |-> IF named THEN doc[q] ELSE "", start |-> start, end |-> PastValue(start)]
        order  == SetToSortSeq(starts, <)
    IN  IF doc[p] \notin Openers THEN << >> ELSE [k \in DOMAIN order |-> item(order[k])]

\* Where a lookup leads from the value at p, or 0.
Found(p, lookup) ==
    LET items == ItemsOf(p)
        same  == {k \in DOMAIN items : items[k].name = lookup.name}
    IN  IF lookup.name # ""
        THEN IF same = {} THEN 0 ELSE items[Min(same)].start
        ELSE IF doc[p] = "openArray" /\ lookup.index < Len(items)
             THEN items[lookup.index + 1].start ELSE 0

Reached == FoldLeft(LAMBDA p, lookup : IF p = 0 THEN 0 ELSE Found(p, lookup), 1, path)

\* In a value a chain of lookups reaches the first member of each name and the element at
\* each index, passing the brackets, strings and repeated names before it, or else the
\* zero Cursor, from which it never comes back; and Raw is the whole value that it
\* reached (FindMember: "the first member of the object ... whose decoded name equals
\* name"; "a chain of lookups checks only its last step").
LookupsFollowTree ==
    IsValue => IF Reached = 0 THEN data = << >>
               ELSE data = doc /\ at = Reached /\ SkipValueAt(data, at) = PastValue(at)

\* In a value an iteration calls fn with the items of the container in order, each whole,
\* up to the first repeat or the first element that is no string, and returns nil after
\* the last alone ("calls fn with ... each member of the object in data, in order").
IteratesTree ==
    IsValue /\ result # "idle" =>
        LET right   == data # << >> /\ data[at] = call.opener
            items   == IF right THEN ItemsOf(at) ELSE << >>
            repeats == {k \in DOMAIN items : call.unique /\ \E e \in 1 .. k - 1 : items[e].name = items[k].name}
            wrong   == {k \in DOMAIN items : call.strings /\ doc[items[k].start] \notin Strings}
            stops   == Min(repeats \union wrong \union {Len(items) + 1})
            past(e) == IF call.cursors THEN 0 ELSE e.end
        IN  /\ Len(seen) < stops
            /\ \A k \in DOMAIN seen : seen[k] = [items[k] EXCEPT !.end = past(items[k])]
            /\ result = "nil" => right /\ stops = Len(items) + 1 /\ Len(seen) = Len(items)
            /\ result = "duplicate" => stops \in repeats /\ Len(seen) = stops - 1
            /\ result = "malformed" => ~right \/ (stops \in wrong /\ Len(seen) = stops - 1)

-----------------------------------------------------------------------------
(* The lenient grammar.                                                    *)

Count(s, t) == Cardinality({k \in DOMAIN s : s[k] = t})

LenientValue(s) ==
    \/ Len(s) = 1 /\ s[1] \in Strings \union {"scalar"}
    \/ /\ Len(s) > 1 /\ s[1] \in Openers /\ "broken" \notin ToSet(s)
       /\ \A k \in DOMAIN s :
            LET head == SubSeq(s, 1, k)
            IN  Count(head, s[1]) = Count(head, CloserOf[s[1]]) <=> k = Len(s)

LenientItem(s) ==
    IF call.strings THEN Len(s) = 1 /\ s[1] \in Strings
    ELSE IF Named THEN Len(s) > 2 /\ s[1] \in Strings /\ s[2] = "colon" /\ LenientValue(SubSeq(s, 3, Len(s)))
    ELSE LenientValue(s)

RECURSIVE LenientItems(_)
LenientItems(s) ==
    \/ LenientItem(s)
    \/ \E k \in DOMAIN s : /\ s[k] = "comma" /\ LenientItem(SubSeq(s, 1, k - 1))
                           /\ LenientItems(SubSeq(s, k + 1, Len(s)))

LenientDocument ==
    /\ Len(doc) > 1 /\ doc[1] = call.opener /\ doc[Len(doc)] = CloserOf[call.opener]
    /\ Len(doc) = 2 \/ LenientItems(SubSeq(doc, 2, Len(doc) - 1))

\* Whatever the document, an iteration of it returns nil only for a container whose items
\* are lenient values, refuses as malformed only what is none, and gives fn lenient values
\* alone; a string that is not well formed is refused however deep it lies (skipValueAt:
\* "Strings, numbers and literals are checked in full; an array or object counts only its
\* own opener and closer"; skipBraced: "each string inside must be well formed").
AcceptsLenient ==
    ~call.cursors =>
        /\ result = "nil" => LenientDocument
        /\ result = "malformed" => ~LenientDocument
        /\ \A k \in DOMAIN seen : LenientValue(SubSeq(doc, seen[k].start, seen[k].end - 1))
=============================================================================
