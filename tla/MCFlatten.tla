------------------------------ MODULE MCFlatten ------------------------------
(***************************************************************************)
(* Flatten on every document of bounded depth over few names: objects in   *)
(* objects, in leaves and beside leaves, with more leaves than pending     *)
(* has room for.                                                           *)
(***************************************************************************)
EXTENDS Flatten, TLC

Symmetric == Permutations(Names)
=============================================================================
