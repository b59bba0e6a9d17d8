------------------------------ MODULE MCDecode -------------------------------
(***************************************************************************)
(* Decode on every document of a bounded length over two names, against    *)
(* the value that a recursive reading of the tokens gives.                 *)
(***************************************************************************)
EXTENDS Decode, FiniteSets, FiniteSetsExt, SequencesExt

CONSTANT MaxRead

MCMaxDepths == {-1, 0, 1, 3}

Bounded == Len(read) <= MaxRead

Openers == {"openObject", "openArray"}
Closers == {"closeObject", "closeArray"}

\* How many containers lie open around read[q] within the one that opens at read[p].
Level(p, q) == Cardinality({k \in p + 1 .. q - 1 : read[k] \in Openers})
               - Cardinality({k \in p + 1 .. q - 1 : read[k] \in Closers})

Closing(p) == {q \in p + 1 .. Len(read) : read[q] \in Closers /\ Level(p, q) = 0}

\* The names and values, or the elements, of the container at read[p], in order.
Inside(p) == SetToSortSeq({q \in p + 1 .. Min(Closing(p)) - 1 :
                              Level(p, q) = 0 /\ read[q] \notin Closers}, <)

NamesOf(p) == [k \in 1 .. Len(Inside(p)) \div 2 |-> read[Inside(p)[2 * k - 1]]]

RepeatedAt(p) == read[p] = "openObject" /\ ~IsInjective(NamesOf(p))

RECURSIVE Value(_)
Value(p) ==
    LET inside == Inside(p)
        names  == NamesOf(p)
    IN  IF read[p] \notin Openers THEN Leaf(read[p])
        ELSE IF read[p] = "openArray"
             THEN [kind |-> "array", at |-> [k \in DOMAIN inside |-> Value(inside[k])]]
             ELSE [kind |-> "object",
                   at   |-> [n \in ToSet(names) |->
                                Value(inside[2 * CHOOSE k \in DOMAIN names : names[k] = n])]]

\* DecodeValue returns the value of the document, each leaf in the container and at the
\* name or index where it lies; a repeated name in any object, open or closed, makes it
\* ErrDuplicateName; and malformed input wins over one that was read before it
\* (DecodeValue: "ErrMalformed unless ValidUTF8(data, maxDepth), else ErrDuplicateName when
\* a name repeats").
DecodesDocument ==
    LET ended   == read # << >> /\ (read[1] \in Openers => Closing(1) = {Len(read)})
                                /\ (read[1] \notin Openers => Len(read) = 1)
        repeats == \E p \in DOMAIN read : RepeatedAt(p)
    IN  /\ result = "nil" => ended /\ ~repeats /\ top = Value(1)
        /\ result = "duplicate" => ended /\ repeats
        /\ result = "malformed" =>
              \/ read[Len(read)] = "bad"
              \/ read[Len(read)] \in Openers /\ Level(0, Len(read)) = maxDepth
=============================================================================
