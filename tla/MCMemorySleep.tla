--------------------------- MODULE MCMemorySleep ---------------------------
(* MemorySleep for TLC.  Items differ in name only. *)
EXTENDS MemorySleep, TLC

Symmetry == Permutations(Item)
=============================================================================
