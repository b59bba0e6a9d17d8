-------------------------------- MODULE Scan ---------------------------------
(***************************************************************************)
(* The lenient readers of scan.go, iterate.go and cursor.go: they pass     *)
(* over a value without checking what is nested in it, by counting the     *)
(* brackets of its own kind alone.  A Cursor is a place in a document that *)
(* lookups move; an iteration calls fn with each item, the Cursor's before *)
(* it has passed the item's value and the others' after.                   *)
(*                                                                         *)
(* A document is a sequence of tokens, as in JsonText, and a place in it   *)
(* an index from 1; whitespace has no token.  A name is the string of that *)
(* name.  Two tokens stand for wrong bytes: a broken string, and a faulty  *)
(* byte or literal that starts no value.  Where the code returns an index  *)
(* and false, the operators return 0.                                      *)
(***************************************************************************)
EXTENDS Naturals, Sequences

CONSTANTS
    Strings,        \* the strings that are well formed
    Inputs,         \* the documents and other texts that the readers are given
    MaxLookups      \* the longest chain of lookups on a Cursor

VARIABLES
    doc,            \* the document and
    path,           \* the lookups that led to the Cursor, from the first
    data, at,       \* the Cursor
    call,           \* the iteration that runs or ended
    i, step,        \* its place and step
    seen,           \* the items that fn was called with
    result          \* what the iteration returned

cursor  == <<data, at>>
walk    == <<call, i, step, seen, result>>
vars    == <<doc, path, cursor, walk>>

Quoted   == Strings \union {"broken"}
Openers  == {"openObject", "openArray"}
CloserOf == [openObject |-> "closeObject", openArray |-> "closeArray"]

-----------------------------------------------------------------------------
(* Passing over one value.                                                 *)

\* Mutant of SkipStringAt: a string is taken whatever it holds.
SkipStringUnread(d, j) == IF j <= Len(d) /\ d[j] \in Quoted THEN j + 1 ELSE 0

SkipStringAt(d, j) == IF j <= Len(d) /\ d[j] \in Strings THEN j + 1 ELSE 0

SkipScalar(d, j) == IF d[j] = "scalar" THEN j + 1 ELSE 0

\* The first quote, opener or closer from d[j] on, or the end.
BracedRun(d, j, opener) ==
    LET Stop(k) == k > Len(d) \/ d[k] \in Quoted \union {opener, CloserOf[opener]}
    IN  CHOOSE k \in j .. Len(d) + 1 : Stop(k) /\ \A before \in j .. k - 1 : ~Stop(before)

\* Mutant of SkipBraced: the pair ends at its first closer.
SkipToCloser(d, j) ==
    LET ends == {k \in j .. Len(d) : d[k] = CloserOf[d[j]]}
    IN  IF ends = {} THEN 0 ELSE 1 + CHOOSE k \in ends : \A e \in ends : k <= e

SkipBraced(d, j) ==
    LET Past[k \in j .. Len(d) + 1, depth \in 0 .. Len(d)] ==
            LET run == BracedRun(d, k, d[j])
                end == SkipStringAt(d, run)
            IN  IF run > Len(d) THEN 0
                ELSE IF d[run] \in Quoted THEN (IF end = 0 THEN 0 ELSE Past[end, depth])
                ELSE IF d[run] = d[j] THEN Past[run + 1, depth + 1]
                ELSE IF depth = 1 THEN run + 1 ELSE Past[run + 1, depth - 1]
    IN  Past[j + 1, 1]

SkipValueAt(d, j) ==
    IF j > Len(d) THEN 0
    ELSE IF d[j] \in Quoted THEN SkipStringAt(d, j)
    ELSE IF d[j] \in Openers THEN SkipBraced(d, j)
    ELSE SkipScalar(d, j)

-----------------------------------------------------------------------------
(* Steps from item to item.                                                *)

Malformed == [i |-> 0, step |-> "malformed"]

OpenContainer(d, j, opener) ==
    IF j > Len(d) \/ d[j] # opener THEN Malformed
    ELSE [i |-> j + 1, step |-> IF j < Len(d) /\ d[j + 1] = CloserOf[opener] THEN "end" ELSE "item"]

NextItem(d, j, closer) ==
    IF j > Len(d) THEN Malformed
    ELSE IF d[j] = closer THEN [i |-> j, step |-> "end"]
    ELSE IF d[j] = "comma" THEN [i |-> j + 1, step |-> "item"]
    ELSE Malformed

\* The start of the value of the member whose name starts at d[j]: memberName and
\* skipStringAt, then colonAfter.
ValueStart(d, j) ==
    LET colon == SkipStringAt(d, j)
    IN  IF colon # 0 /\ colon <= Len(d) /\ d[colon] = "colon" THEN colon + 1 ELSE 0

Steps(d) == [i : 0 .. Len(d) + 1, step : {"item", "end", "malformed"}]

\* Mutant of Held: the end of the document is the start of a value.
HeldAtEnd(d, j) == j

\* A value that would start past the end is not found.
Held(d, j) == IF j <= Len(d) THEN j ELSE 0

MemberStart(d, j, name) ==
    LET From[s \in Steps(d)] ==
            LET start == ValueStart(d, s.i)
                end   == SkipValueAt(d, start)
            IN  IF s.step # "item" \/ start = 0 THEN 0
                ELSE IF d[s.i] = name THEN Held(d, start)
                ELSE IF end = 0 THEN 0 ELSE From[NextItem(d, end, "closeObject")]
    IN  From[OpenContainer(d, j, "openObject")]

ElementStart(d, j, index) ==
    LET From[s \in Steps(d), n \in 0 .. index] ==
            LET end == SkipValueAt(d, s.i)
            IN  IF s.step # "item" THEN 0
                ELSE IF n = index THEN Held(d, s.i)
                ELSE IF end = 0 THEN 0 ELSE From[NextItem(d, end, "closeArray"), n + 1]
    IN  From[OpenContainer(d, j, "openArray"), 0]

-----------------------------------------------------------------------------
(* The iterations, by what tells them apart.                               *)

Call(opener, unique, strings, cursors) ==
    [opener |-> opener, unique |-> unique, strings |-> strings, cursors |-> cursors]

IterateFields         == Call("openObject", FALSE, FALSE, FALSE)
IterateMembers        == Call("openObject", TRUE, FALSE, FALSE)
IterateArray          == Call("openArray", FALSE, FALSE, FALSE)
IterateStringArray    == Call("openArray", FALSE, TRUE, FALSE)
CursorIterateArray    == Call("openArray", FALSE, FALSE, TRUE)
CursorIterateMembers  == Call("openObject", TRUE, FALSE, TRUE)

Calls == {IterateFields, IterateMembers, IterateArray, IterateStringArray,
          CursorIterateArray, CursorIterateMembers}

\* The item at i: where its value starts, the place past it, and whether fn may have it.
Named == call.opener = "openObject"
Start == IF Named THEN ValueStart(data, i) ELSE i
End   == IF Start = 0 THEN 0
         ELSE IF call.strings THEN SkipStringAt(data, i) ELSE SkipValueAt(data, Start)
Whole == Start # 0 /\ (call.cursors \/ End # 0)
Item  == [name |-> IF Named THEN data[i] ELSE "", start |-> Start,
          end |-> IF call.cursors THEN 0 ELSE End]

\* Mutant of Repeated: a name is compared with the one before it.
RepeatedNext == /\ call.unique /\ seen # << >> /\ seen[Len(seen)].name = data[i]

Repeated == call.unique /\ \E k \in DOMAIN seen : seen[k].name = data[i]

Moved(s) == i' = s.i /\ step' = s.step

Init ==
    /\ doc \in Inputs /\ path = << >>
    /\ data = doc /\ at = 1
    /\ call = IterateFields /\ seen = << >> /\ result = "idle"
    /\ i = 0 /\ step = "end"

\* A lookup that finds nothing returns the zero Cursor, which holds no document.
Look(found, lookup) ==
    /\ result = "idle" /\ Len(path) < MaxLookups
    /\ path' = Append(path, lookup)
    /\ IF found = 0 THEN data' = << >> /\ at' = 1 ELSE data' = data /\ at' = found
    /\ UNCHANGED <<doc, walk>>

FindMember == \E name \in Strings :
    Look(MemberStart(data, at, name), [name |-> name, index |-> 0])

FindElement == \E index \in 0 .. 2 :
    Look(ElementStart(data, at, index), [name |-> "", index |-> index])

\* An iteration starts: of the whole document, or of the value at the Cursor.
Begin == \E c \in Calls :
    /\ result = "idle" /\ (path = << >> \/ c.cursors)
    /\ call' = c
    /\ result' = "running"
    /\ Moved(OpenContainer(data, at, c.opener))
    /\ UNCHANGED <<doc, path, cursor, seen>>

Walking(s) == result = "running" /\ step = s

Returns(r) == result' = r /\ UNCHANGED <<doc, path, cursor, call, i, step, seen>>

Fault == /\ Walking("item")
         /\ ~Whole
         /\ Returns("malformed")

Duplicate == /\ Walking("item")
             /\ Whole /\ Repeated
             /\ Returns("duplicate")

\* fn is called, and fails or not; the value that a Cursor was at is passed over next.
Visit ==
    /\ Walking("item")
    /\ Whole /\ ~Repeated
    /\ seen' = Append(seen, Item)
    /\ \/ result' = "stopped" /\ UNCHANGED <<i, step>>
       \/ End = 0 /\ result' = "malformed" /\ UNCHANGED <<i, step>>
       \/ /\ End # 0
          /\ Moved(NextItem(data, End, CloserOf[call.opener]))
          /\ UNCHANGED result
    /\ UNCHANGED <<doc, path, cursor, call>>

\* err, and closeErr of the iterations of a document.
Close == /\ Walking("end")
         /\ Returns(IF call.cursors \/ i = Len(data) THEN "nil" ELSE "malformed")

Stray == Walking("malformed") /\ Returns("malformed")

Next == FindMember \/ FindElement \/ Begin \/ Fault \/ Duplicate \/ Visit \/ Close \/ Stray

Spec == Init /\ [][Next]_vars

-----------------------------------------------------------------------------
\* A Cursor that a lookup returns holds a value, and what fn is given, malformed or not,
\* lies in the document (memberStart: "a value that starts past the end of data is not
\* found").
TypeOK ==
    /\ data \in {doc, << >>} /\ at \in 1 .. Len(data) + 1
    /\ path # << >> /\ data # << >> => at <= Len(data)
    /\ call \in Calls
    /\ i \in 0 .. Len(data) + 1 /\ step \in {"item", "end", "malformed"}
    /\ \A k \in DOMAIN seen : seen[k].start \in 1 .. Len(data) + 1 /\ seen[k].end \in 0 .. Len(data) + 1
    /\ result \in {"idle", "running", "nil", "malformed", "duplicate", "stopped"}
=============================================================================
