------------------------------- MODULE MCPtrList ------------------------------
(* A small heap for TLC. *)
EXTENDS PtrList, TLC

Symmetry == Permutations(Cells) \union Permutations(Vals)
===============================================================================
