---------------------------- MODULE MCObjectWalk ----------------------------
(***************************************************************************)
(* ObjectWalk on every document of bounded depth over few names.           *)
(***************************************************************************)
EXTENDS ObjectWalk

CONSTANT MaxCarved      \* the most names that WalkTokens decodes

MCMaxDepths == {-1, 0, 1, 2, 3}

Bounded == length <= MaxCarved
=============================================================================
