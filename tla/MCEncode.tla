------------------------------ MODULE MCEncode -------------------------------
(***************************************************************************)
(* Encode on graphs of containers: every graph of a map, an array that two *)
(* slices share and a second array, and chains of five nested containers   *)
(* that turn back to one of them.  What is written is compared with the    *)
(* tree that a recursive reading of the value gives.                       *)
(***************************************************************************)
EXTENDS ValueTree, TLC

Leaf(kind) == [kind |-> kind, ptr |-> 0, length |-> 0]
Map(p)      == [kind |-> "object", ptr |-> p, length |-> 0]
Slice(p, n) == [kind |-> "array", ptr |-> p, length |-> n]

\* 1 is \x80, 2 the three bytes of U+FFFD, 3 the four of U+10000 and 4 is \xf1.
MCNames == <<"ufffd", "u10000">>
MCReads == <<1, 1, 2, 1>>

\* Pointers 1 to 3 and 4 to 7 share buckets while these are few.
MCHash == <<0, 1, 0, 7, 6, 7, 0>>

Leaves == {Leaf("scalar"), Leaf("unreported")}

\* A map (1), an array of two cells (2) and an array of one (3).
Inner == Leaves \union {Map(0), Map(1), Slice(2, 1), Slice(2, 2), Slice(3, 1)}

\* The containers that a memory below leaves out are empty maps.
Others(used) == [p \in 1 .. 7 \ used |-> << >>]

Small == {(1 :> m @@ 2 :> <<x, y>> @@ 3 :> <<z>> @@ 4 :> (3 :> Slice(2, 2)) @@ Others(1 .. 4)) :
             m \in UNION {[S -> Inner] : S \in {{}, {3}, {2, 3}}},
             x, y \in Inner \ {Leaf("unreported")},
             z \in {Map(0), Map(1), Slice(2, 1), Slice(2, 2)}}

\* Keys that are written alike, in every combination, of a map that occurs twice.
Alike == {(1 :> [k \in S |-> IF k % 2 = 0 THEN Leaf("reported") ELSE Leaf("unreported")]
           @@ 2 :> <<Map(1), Map(1)>> @@ 4 :> (1 :> Map(1) @@ 2 :> Slice(2, 2)) @@ Others({1, 2, 4})) :
             S \in SUBSET Keys}

\* Five maps and arrays in each other, with ways back from each and out of the last.
Back == {Leaf("scalar"), Map(4), Slice(5, 1), Map(6), Slice(7, 1), Slice(2, 2)}
Deep == {(1 :> (3 :> Leaf("scalar")) @@ 2 :> <<x, y>> @@ 3 :> <<Slice(2, 2)>> @@
          4 :> (1 :> Slice(5, 1) @@ 2 :> w) @@ 5 :> <<Map(6)>> @@
          6 :> (1 :> w @@ 3 :> Slice(7, 1)) @@ 7 :> <<Slice(3, 1)>>) : x, y, w \in Back}

MCMemories == Small \union Alike \union Deep
MCRoots == {Map(1), Slice(2, 2), Map(4)}

=============================================================================
