---------------------------- MODULE MCContainer ----------------------------
(* An instance of Container.                                                *)
EXTENDS Container, TLC

\* Nothing, and a full chunk with a byte more.
MCText == {<<>>, <<3, 4, 5>>}
Symmetry == Permutations(Copy) \cup Permutations(OwnerKey)
=============================================================================
