---------------------------- MODULE LocalTables ----------------------------
(***************************************************************************)
(* Two structures a process keeps to itself: the queue of unexpected       *)
(* notifications of a window (NotifUq) and the tables of the Fortran       *)
(* interface (FortranTables).  They share no state; LocalState.tla runs    *)
(* them, each by itself.                                                   *)
(***************************************************************************)
EXTENDS Integers, FiniteSets

CONSTANTS
  Node, NULL, Source, Tag, Wild, NoMatch,      \* see NotifUq
  Window, Request, First, Growth, NullObject   \* see FortranTables

ASSUME NamesAssumption ==
  NULL \notin Node /\ Wild \notin Source \cup Tag /\ Window \cap Request = {}
ASSUME SizesAssumption ==
  IsFiniteSet(Node) /\ First \in Nat \ {0} /\ Growth \in Nat \ {0}

VARIABLES
  head, tail, uq_size, next, prev, data, allocated, uq_found,
  made, table_size, free, entry, handle, object, up

Uq == INSTANCE NotifUq WITH size <- uq_size, found <- uq_found
Fortran == INSTANCE FortranTables WITH size <- table_size, Null <- NullObject

uq == <<head, tail, uq_size, next, prev, data, allocated, uq_found>>
fortran == <<made, table_size, free, entry, handle, object, up>>

---------------------------------------------------------------------------
(* The list of unexpected notifications is one list, whichever way it is   *)
(* walked (NotifUq, fompi_notif_uq.c).                                     *)
WellLinked == Uq!WellLinked

(* It is a queue that matches oldest first (AbstractUq).                   *)
ImplementsUq == Uq!ImplementsUq

(* An entry of a Fortran table is held by one variable or free             *)
(* (FortranTables, fompi_fortran.c).                                       *)
HandlesDistinct == Fortran!HandlesDistinct
===========================================================================
