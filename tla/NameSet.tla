------------------------------- MODULE NameSet -------------------------------
(***************************************************************************)
(* The nameSet of names.go: the decoded member names of one object.  The   *)
(* first names live in an open-addressed table inside the set; when it is  *)
(* full, every name moves to a map.  A set is reset and used again for     *)
(* sibling objects, and keeps its map unless the map grew too large.       *)
(*                                                                         *)
(* The probe for a name, a loop in the code, is its first stop: the first  *)
(* slot from the name's own on that is empty or holds the name.            *)
(***************************************************************************)
EXTENDS Naturals, Sequences, FiniteSets

CONSTANTS
    Names,          \* decoded member names
    Hash,           \* slotOf: the slot where the probe for each name starts
    InlineNames,    \* inlineNames
    KeptSpillNames  \* keptSpillNames

NameSlots == 2 * InlineNames    \* the table is at most half full
Slots == 0 .. NameSlots - 1

ASSUME NameSetAssumption ==
    /\ InlineNames \in Nat \ {0}
    /\ KeptSpillNames \in Nat
    /\ Hash \in [Names -> Slots]

VARIABLES
    slots,      \* 1 + the index in inline of the name in each slot, or 0
    inline,     \* the names in the table, in the order added
    spill,      \* the names in the map
    mapped,     \* whether there is a map
    held,       \* the most names that map ever held
    asked,      \* the name that the last call was given, or none: {} after a reset
    added,      \* the answer of the last add
    turn        \* flips with every call

vars == <<slots, inline, spill, mapped, held, asked, added, turn>>

Init == /\ slots = [k \in Slots |-> 0]
        /\ inline = << >>
        /\ spill = {} /\ mapped = FALSE /\ held = 0
        /\ asked = {} /\ added = FALSE /\ turn = FALSE

\* A call given these names starts and ends.
Call(names) == asked' = names /\ turn' = ~turn

\* The slot that the probe for name visits after d others.
Probed(name, d) == (Hash[name] + d) % NameSlots

\* Mutant of Stops: any name in the slot is taken for the one that is looked for.
StopsAtAny(name, d) == TRUE

Stops(name, d) == LET at == slots[Probed(name, d)] IN at # 0 => inline[at] = name

FirstStop(name, d) == Stops(name, d) /\ \A e \in 0 .. d - 1 : ~Stops(name, e)

\* Puts the names of S into the map, made if there is none.
Spill(S) == /\ spill' = spill \union S
            /\ mapped' = TRUE
            /\ held' = IF Cardinality(spill') > held THEN Cardinality(spill') ELSE held

InlineSet == {inline[i] : i \in 1 .. Len(inline)}

\* Mutants of Insert: the table takes one name too many, takes names until its last slot,
\* or spills without the names it holds.
InsertLate(name, k) ==
    IF Len(inline) > InlineNames
    THEN /\ Spill(InlineSet \union {name})
         /\ UNCHANGED <<slots, inline>>
    ELSE /\ inline' = Append(inline, name)
         /\ slots' = [slots EXCEPT ![k] = Len(inline')]
         /\ UNCHANGED <<spill, mapped, held>>

InsertToLastSlot(name, k) ==
    IF Len(inline) = NameSlots
    THEN /\ Spill(InlineSet \union {name})
         /\ UNCHANGED <<slots, inline>>
    ELSE /\ inline' = Append(inline, name)
         /\ slots' = [slots EXCEPT ![k] = Len(inline')]
         /\ UNCHANGED <<spill, mapped, held>>

InsertAlone(name, k) ==
    IF Len(inline) = InlineNames
    THEN /\ Spill({name})
         /\ UNCHANGED <<slots, inline>>
    ELSE /\ inline' = Append(inline, name)
         /\ slots' = [slots EXCEPT ![k] = Len(inline')]
         /\ UNCHANGED <<spill, mapped, held>>

\* insert: a new name at the empty slot k, or, when the table is full, all in the map.
Insert(name, k) ==
    IF Len(inline) = InlineNames
    THEN /\ Spill(InlineSet \union {name})
         /\ UNCHANGED <<slots, inline>>
    ELSE /\ inline' = Append(inline, name)
         /\ slots' = [slots EXCEPT ![k] = Len(inline')]
         /\ UNCHANGED <<spill, mapped, held>>

\* add of a set that has spilled.
AddSpilled(name) ==
    /\ spill # {}
    /\ Call({name})
    /\ added' = (name \notin spill)
    /\ Spill({name})
    /\ UNCHANGED <<slots, inline>>

\* add of a set that has not.
AddInline(name) ==
    /\ spill = {}
    /\ Call({name})
    /\ \E d \in Slots :
          /\ FirstStop(name, d)
          /\ IF slots[Probed(name, d)] = 0
             THEN Insert(name, Probed(name, d)) /\ added' = TRUE
             ELSE added' = FALSE /\ UNCHANGED <<slots, inline, spill, mapped, held>>

\* Mutants of Reset: the slots stay, or the map does however large.
ResetNames ==
    /\ Call({})
    /\ inline' = << >>
    /\ spill' = {}
    /\ UNCHANGED <<slots, mapped, held, added>>

ResetKeepingMap ==
    /\ Call({})
    /\ slots' = [k \in Slots |-> 0]
    /\ inline' = << >>
    /\ spill' = {}
    /\ UNCHANGED <<mapped, held, added>>

\* reset: a map that held too many names is dropped, another is cleared and kept.
Reset ==
    /\ Call({})
    /\ slots' = [k \in Slots |-> 0]
    /\ inline' = << >>
    /\ spill' = {}
    /\ IF Cardinality(spill) > KeptSpillNames
       THEN mapped' = FALSE /\ held' = 0
       ELSE UNCHANGED <<mapped, held>>
    /\ UNCHANGED added

Next == Reset \/ \E name \in Names : AddSpilled(name) \/ AddInline(name)

Spec == Init /\ [][Next]_vars

-----------------------------------------------------------------------------
TypeOK ==
    /\ slots \in [Slots -> 0 .. InlineNames]
    /\ inline \in Seq(Names) /\ Len(inline) <= InlineNames
    /\ spill \subseteq Names
    /\ mapped \in BOOLEAN
    /\ held \in Nat
    /\ asked \subseteq Names /\ added \in BOOLEAN /\ turn \in BOOLEAN

\* Every slot is empty or holds a name of the table, and no two hold the same one.
SlotsApart ==
    /\ \A k \in Slots : slots[k] <= Len(inline)
    /\ \A k, l \in Slots : slots[k] = slots[l] /\ slots[k] # 0 => k = l

\* The probe for each name of the table meets its slot before any empty one.
Reachable ==
    \A i \in 1 .. Len(inline) : \E d \in Slots :
        /\ slots[Probed(inline[i], d)] = i
        /\ \A e \in 0 .. d - 1 : slots[Probed(inline[i], e)] # 0

\* The table finds each of its names and takes each once, across spills and resets
\* that use it again (add, insert, reset: a slot left over from the object before
\* would hide a name or name another one).
TableSound == SlotsApart /\ Reachable

\* The probe for any name ends: the loop in add has no other way out (a table full to
\* its last slot would never end it).
ProbeEnds == \A name \in Names : \E d \in Slots : Stops(name, d)

\* The map that an empty set kept never held more names than keptSpillNames, since
\* clearing it costs its capacity; and names only spill to a map there is.
KeptMapSmall == /\ spill = {} => held <= KeptSpillNames
                /\ spill # {} => mapped /\ held >= Cardinality(spill)

Members == IF spill # {} THEN spill ELSE InlineSet

Abstract == INSTANCE Membership WITH members <- Members

\* The table and the map answer as a set would, of the name that each call is given: a
\* repeated name is never taken for a new one, not even asked twice in a row, nor a new
\* name for a repeat, though its probe meets other names; before, at and after the spill
\* and in a set used again (nameSet.add: "reports whether no earlier name equals it").
ImplementsMembership == Abstract!Spec
=============================================================================
