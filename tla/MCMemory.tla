------------------------------ MODULE MCMemory ------------------------------
(***************************************************************************)
(* A heap with addresses for four blocks, so that a list has a first node, *)
(* a last one and two between, and two symbols.                            *)
(***************************************************************************)
EXTENDS MemoryList, TLC

CONSTANTS a, b, c, d, s, t

MCBlocks == {a, b, c, d}
MCNames == {s, t}
Symmetry == Permutations(MCBlocks) \cup Permutations(MCNames)
=============================================================================
