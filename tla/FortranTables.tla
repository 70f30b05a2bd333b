--------------------------- MODULE FortranTables ---------------------------
(***************************************************************************)
(* The handles of the Fortran interface (fompi_fortran.c): an INTEGER      *)
(* indexes a table of windows or of requests, which grows when it is full; *)
(* the indices not in use are on a free list.  What foMPI makes for a      *)
(* Fortran variable is named by the variable.                              *)
(***************************************************************************)
EXTENDS Integers, Sequences, SequencesExt

CONSTANTS
  Window, Request,   \* the program's variables of either kind
  First, Growth,     \* entries at first and added at a time, 100 in the code
  Null               \* foMPI_WIN_NULL, foMPI_REQUEST_NULL

Kind == {"win", "req"}
Variable == Window \cup Request
KindOf(v) == IF v \in Window THEN "win" ELSE "req"
None == -1  \* the null handles of fompif.h

VARIABLES
  made,    \* whether Fortran_Windows and Fortran_Requests are allocated
  size,    \* Fortran_win_sz, Fortran_req_sz
  free,    \* Fortran_free_win, Fortran_free_req: the list from its head
  entry,   \* the entries of both tables that were ever assigned to
  handle,  \* the Fortran variables
  object,  \* ghost: for each variable the kind of object it stands for
  up       \* between foMPI_Init and foMPI_Finalize

tables == <<made, size, free>>
vars == <<tables, entry, handle, object, up>>

\* foMPI_Init
Init ==
  /\ made = [k \in Kind |-> FALSE]
  /\ size = [k \in Kind |-> First]
  /\ free = [k \in Kind |-> <<>>]
  /\ entry = [k \in Kind |-> <<>>]
  /\ handle = [v \in Variable |-> None]
  /\ object = [v \in Variable |-> Null]
  /\ up = TRUE

---------------------------------------------------------------------------
\* the indices from a to b, pushed from the last
Indices(a, b) == [i \in 1 .. b - a + 1 |-> a + i - 1]

\* get_winidx, get_reqidx
GetIndex(k) ==
  IF ~made[k] THEN [index |-> 0, size |-> size[k], free |-> Indices(1, size[k] - 1)]
  ELSE IF free[k] # <<>> THEN [index |-> Head(free[k]), size |-> size[k], free |-> Tail(free[k])]
  ELSE [index |-> size[k], size |-> size[k] + Growth,
        free |-> Indices(size[k] + 1, size[k] + Growth - 1)]

At(k, i) == entry[k][i + 1]
\* entry[k] as a sequence that is one longer at most
Assign(k, i, x) ==
  entry' = [entry EXCEPT ![k] = IF i < Len(@) THEN ReplaceAt(@, i + 1, x) ELSE Append(@, x)]

\* a call that gives v a handle, and what foMPI puts there
Make(v, what) ==
  LET k == KindOf(v)
      g == GetIndex(k)
  IN /\ up /\ handle[v] = None
     /\ made' = [made EXCEPT ![k] = TRUE]
     /\ size' = [size EXCEPT ![k] = g.size]
     /\ free' = [free EXCEPT ![k] = g.free]
     /\ handle' = [handle EXCEPT ![v] = g.index]
     /\ object' = [object EXCEPT ![v] = what]
     /\ Assign(k, g.index, v)
     /\ UNCHANGED up

\* insert_free_elem, and the null handle for the program
GiveBack(v) ==
  /\ free' = [free EXCEPT ![KindOf(v)] = <<handle[v]>> \o @]
  /\ handle' = [handle EXCEPT ![v] = None]
  /\ object' = [object EXCEPT ![v] = Null]
  /\ UNCHANGED <<made, size, up>>

Held(v) == up /\ handle[v] # None

---------------------------------------------------------------------------
(* The calls.                                                              *)

\* Win_create, Win_allocate, Win_allocate_cptr, Win_create_dynamic
WinCreate(w) == Make(w, "window")

WinFree(w) == Held(w) /\ Assign("win", handle[w], Null) /\ GiveBack(w)

\* Notify_init, and Rput, Rget, Raccumulate, Rget_accumulate
NotifyInit(r) == Make(r, "persistent")
Operation(r) == Make(r, "operation")

RequestFree(r) == Held(r) /\ Assign("req", handle[r], Null) /\ GiveBack(r)

(* Wait: foMPI_Wait frees an operation's request.  A persistent one it     *)
(* keeps, and so does Test: nothing of the tables changes.                 *)
Wait(r) ==
  /\ Held(r)
  /\ object[r] = "operation"
  /\ Assign("req", handle[r], Null)
  /\ GiveBack(r)

\* mutant: the index is given back whenever the request is gone
TestGivesBack(r, flag) ==
  /\ Held(r)
  /\ object[r] = "operation"
  /\ At("req", handle[r]) = Null => flag
  /\ Assign("req", handle[r], Null)
  /\ free' = [free EXCEPT !["req"] = <<handle[r]>> \o @]
  /\ handle' = IF flag THEN [handle EXCEPT ![r] = None] ELSE handle
  /\ object' = IF flag THEN [object EXCEPT ![r] = Null] ELSE object
  /\ UNCHANGED <<made, size, up>>

(* Test: foMPI_Test frees an operation's request whether or not it is      *)
(* complete, and finds a request that is gone complete.  The index is      *)
(* given back when the flag is set.                                        *)
Test(r, flag) ==
  /\ Held(r)
  /\ object[r] = "operation"
  /\ At("req", handle[r]) = Null => flag
  /\ Assign("req", handle[r], Null)
  /\ IF flag THEN GiveBack(r) ELSE UNCHANGED <<tables, handle, object, up>>

\* foMPI_Finalize: the tables are freed and the lists emptied
Finalize ==
  /\ up
  /\ up' = FALSE
  /\ made' = [k \in Kind |-> FALSE]
  /\ size' = [k \in Kind |-> 0]
  /\ free' = [k \in Kind |-> <<>>]
  /\ entry' = [k \in Kind |-> <<>>]
  /\ UNCHANGED <<handle, object>>

Finished == ~up /\ UNCHANGED vars

Next ==
  \/ \E w \in Window : WinCreate(w) \/ WinFree(w)
  \/ \E r \in Request : NotifyInit(r) \/ Operation(r) \/ RequestFree(r) \/ Wait(r)
  \/ \E r \in Request, flag \in BOOLEAN : Test(r, flag)
  \/ Finalize
  \/ Finished

Spec == Init /\ [][Next]_vars

---------------------------------------------------------------------------
TypeOK ==
  /\ \A k \in Kind : made[k] \in BOOLEAN /\ size[k] \in Nat
  /\ \A v \in Variable : handle[v] \in {None} \cup Nat
  /\ object \in [Variable -> {Null, "window", "persistent", "operation"}]

(* While the library is up, an entry is either held by one Fortran         *)
(* variable or once on the free list, and none is lost; what a variable    *)
(* holds is the entry of its own object, of which an operation's may be    *)
(* gone after a test.                                                      *)
HandlesDistinct ==
  /\ TypeOK
  /\ up => \A k \in Kind :
       LET held == {v \in Variable : KindOf(v) = k /\ handle[v] # None}
           holding == {handle[v] : v \in held}
       IN /\ \A v, w \in held : handle[v] = handle[w] => v = w
          /\ IsInjective(free[k])
          /\ holding \cap Range(free[k]) = {}
          /\ made[k] => holding \cup Range(free[k]) = 0 .. size[k] - 1
          /\ \A v \in held : \/ At(k, handle[v]) = v
                             \/ At(k, handle[v]) = Null /\ object[v] = "operation"
===========================================================================
