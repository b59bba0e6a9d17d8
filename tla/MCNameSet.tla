------------------------------ MODULE MCNameSet ------------------------------
(***************************************************************************)
(* NameSet with a table of six slots, seven names and a hash that makes    *)
(* them collide, run into each other's slots and wrap past the last slot.  *)
(***************************************************************************)
EXTENDS NameSet, TLC

CONSTANTS a, b, c, d, e, f, g

MCNames == {a, b, c, d, e, f, g}
MCHash == (a :> 5 @@ b :> 5 @@ c :> 0 @@ d :> 5 @@ e :> 1 @@ f :> 0 @@ g :> 4)
=============================================================================
