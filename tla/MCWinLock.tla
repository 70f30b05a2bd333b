---------------------------- MODULE MCWinLock ----------------------------
(* WinLock on small instances.                                             *)
EXTENDS WinLock, TLC

CONSTANTS p1, p2, p3, r1, r2, h1, h2

Symmetry == Permutations(Proc) \cup Permutations(Target) \cup Permutations(Handle)
===========================================================================
