------------------------- MODULE AbstractWinLock -------------------------
(***************************************************************************)
(* What the passive-target locks of a window promise, without saying how:  *)
(* every rank is a readers/writer lock, lock_all reads every rank at once, *)
(* and remote accesses lie inside the epoch of a lock that covers them.    *)
(* WinLock.tla is shown to implement this specification.                   *)
(***************************************************************************)
CONSTANTS
  Proc,   \* the processes that open epochs
  Target  \* the ranks that are locked

VARIABLES
  excl,    \* excl[t]: processes that hold the exclusive lock of rank t
  shared,  \* shared[t]: processes that hold a shared lock of rank t
  all,     \* processes that hold lock_all
  access   \* access[p]: ranks p has a remote access to under way

vars == <<excl, shared, all, access>>

TypeOK ==
  /\ excl \in [Target -> SUBSET Proc]
  /\ shared \in [Target -> SUBSET Proc]
  /\ all \subseteq Proc
  /\ access \in [Proc -> SUBSET Target]

Init ==
  /\ excl = [t \in Target |-> {}]
  /\ shared = [t \in Target |-> {}]
  /\ all = {}
  /\ access = [p \in Proc |-> {}]

Covered(p, t) == p \in excl[t] \cup shared[t] \cup all

AcquireExcl(p, t) ==
  /\ excl[t] = {} /\ shared[t] = {} /\ all = {}
  /\ excl' = [excl EXCEPT ![t] = {p}]
  /\ UNCHANGED <<shared, all, access>>

AcquireShared(p, t) ==
  /\ excl[t] = {}
  /\ shared' = [shared EXCEPT ![t] = @ \cup {p}]
  /\ UNCHANGED <<excl, all, access>>

AcquireAll(p) ==
  /\ \A t \in Target : excl[t] = {}
  /\ all' = all \cup {p}
  /\ UNCHANGED <<excl, shared, access>>

ReleaseExcl(p, t) ==
  /\ p \in excl[t]
  /\ t \notin access[p]
  /\ excl' = [excl EXCEPT ![t] = @ \ {p}]
  /\ UNCHANGED <<shared, all, access>>

ReleaseShared(p, t) ==
  /\ p \in shared[t]
  /\ t \notin access[p]
  /\ shared' = [shared EXCEPT ![t] = @ \ {p}]
  /\ UNCHANGED <<excl, all, access>>

ReleaseAll(p) ==
  /\ p \in all
  /\ access[p] = {}
  /\ all' = all \ {p}
  /\ UNCHANGED <<excl, shared, access>>

Begin(p, t) ==
  /\ Covered(p, t)
  /\ access' = [access EXCEPT ![p] = @ \cup {t}]
  /\ UNCHANGED <<excl, shared, all>>

End(p, t) ==
  /\ t \in access[p]
  /\ access' = [access EXCEPT ![p] = @ \ {t}]
  /\ UNCHANGED <<excl, shared, all>>

Next ==
  \E p \in Proc :
    \/ AcquireAll(p) \/ ReleaseAll(p)
    \/ \E t \in Target :
         \/ AcquireExcl(p, t) \/ ReleaseExcl(p, t)
         \/ AcquireShared(p, t) \/ ReleaseShared(p, t)
         \/ Begin(p, t) \/ End(p, t)

Spec == Init /\ [][Next]_vars
===========================================================================
