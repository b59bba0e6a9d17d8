------------------------------- MODULE MCPool -------------------------------
(***************************************************************************)
(* Pool with two goroutines and writers that outgrow what is retained.     *)
(***************************************************************************)
EXTENDS Pool, TLC

MCBufferSize == [builder |-> 1, batch |-> 2]
MCMaxRetain  == [builder |-> 1, batch |-> 2]

Symmetric == Permutations(Goroutines) \union Permutations(Builders) \union Permutations(Batches)
=============================================================================
