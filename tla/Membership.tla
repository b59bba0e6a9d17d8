----------------------------- MODULE Membership -----------------------------
(***************************************************************************)
(* What a set of member names promises: add answers whether the name is    *)
(* new, and then holds it; reset empties the set.  A call is about the     *)
(* name it was given, and each is a step, though it answers what the last  *)
(* one did or changes nothing: the same answer twice is two answers.       *)
(***************************************************************************)
CONSTANT Names

VARIABLES members,  \* the names added since the last reset
          asked,    \* the name that the last call was given, or none: {} after a reset
          added,    \* the answer of the last add
          turn      \* flips with every call

vars == <<members, asked, added, turn>>

Init == members = {} /\ asked = {} /\ added = FALSE /\ turn = FALSE

Call(names) == asked' = names /\ turn' = ~turn

Add(name) == /\ Call({name})
             /\ added' = (name \notin members)
             /\ members' = members \union {name}

Reset == Call({}) /\ members' = {} /\ UNCHANGED added

Next == Reset \/ \E name \in Names : Add(name)

Spec == Init /\ [][Next]_vars
=============================================================================
