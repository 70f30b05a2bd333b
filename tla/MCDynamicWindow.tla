-------------------------- MODULE MCDynamicWindow --------------------------
(* DynamicWindow on small instances.                                       *)
EXTENDS DynamicWindow, TLC

CONSTANTS n1, n2, n3, a, b, c, owner, p, q

Symmetry == Permutations(Node) \cup Permutations(Region) \cup Permutations(Proc \ {Owner})
===========================================================================
