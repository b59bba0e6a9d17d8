------------------------------ MODULE MCArena ------------------------------
(***************************************************************************)
(* Arena on documents as long as the room of a chunk and longer: strings   *)
(* that fill a chunk exactly, that outgrow it while they are decoded, and  *)
(* objects that close in a later chunk.                                    *)
(***************************************************************************)
EXTENDS Arena

CONSTANT LongestDocument

MCDocLengths == {Room, LongestDocument}
=============================================================================
