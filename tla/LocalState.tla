---------------------------- MODULE LocalState ----------------------------
(***************************************************************************)
(* What a process keeps to itself: the queue of unexpected notifications,  *)
(* the tables of the Fortran interface (LocalTables) and the cache of      *)
(* datatype blocks (BlockCache).  They share no state and one thread works *)
(* on them, so a behaviour that works on one of them shows all there is to *)
(* see.                                                                    *)
(***************************************************************************)
EXTENDS LocalTables, BlockCache

VARIABLE focus  \* the structure worked on

all == <<focus, uq, fortran, vars>>

InitAll ==
  /\ focus \in {"uq", "blocks", "fortran"}
  /\ Uq!Init /\ Init /\ Fortran!Init

NextAll ==
  /\ \/ focus = "uq" /\ Uq!Next /\ UNCHANGED <<vars, fortran>>
     \/ focus = "blocks" /\ Next /\ UNCHANGED <<uq, fortran>>
     \/ focus = "fortran" /\ Fortran!Next /\ UNCHANGED <<uq, vars>>
  /\ UNCHANGED focus

SpecAll == InitAll /\ [][NextAll]_all
===========================================================================
