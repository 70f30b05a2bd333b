--------------------------- MODULE MCXpmemQueue ---------------------------
(* XpmemQueue on small instances.                                          *)
EXTENDS XpmemQueue, TLC

CONSTANTS p1, p2, p3

Symmetry == Permutations(Pusher)
===========================================================================
