------------------------------ MODULE MCVector ------------------------------
(***************************************************************************)
(* Vectors of a few zeros and ones, in a memory of as many blocks.         *)
(***************************************************************************)
EXTENDS Vector, TLC

\* Blocks are alike.
Symmetry == Permutations(Blocks)

=============================================================================
