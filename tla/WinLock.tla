----------------------------- MODULE WinLock -----------------------------
(***************************************************************************)
(* The two-level lock protocol of a window (fompi_win_lock.c).             *)
(*                                                                         *)
(* Every rank t has a 64-bit word lock_mutex[t]: bit 0 is the exclusive    *)
(* lock, the rest counts shared locks.  The master rank has one more word, *)
(* lock_all_mutex: its low half counts the processes that hold, or are     *)
(* trying to get, an exclusive lock; its high half counts lock_all.        *)
(* Origins change the words by remote atomics, one step each.  A blocking  *)
(* atomic takes effect within the call.  A non-blocking one, and a put,    *)
(* stays in the network until Deliver, and dmapp_gsync_wait waits for all  *)
(* of the caller's.                                                        *)
(*                                                                         *)
(* Callers obey MPI: an origin locks a rank at most once at a time and     *)
(* does not mix lock_all with per-rank locks.                              *)
(***************************************************************************)
EXTENDS Integers, FiniteSets

CONSTANTS
  Proc,     \* origin processes
  Target,   \* ranks of the window that get locked
  Handle,   \* requests a process can have in the network at a time (bound)
  Half,     \* size of one half of lock_all_mutex, 2^32 in the code
  MaxHeld,  \* per-rank locks a program holds at a time (bound)
  MaxNbi,   \* value of nbi_counter at which a program flushes (bound)
  NoTarget  \* no rank

ASSUME FiniteAssumption ==
  IsFiniteSet(Proc) /\ IsFiniteSet(Target) /\ IsFiniteSet(Handle)
ASSUME NoTargetAssumption == NoTarget \notin Target
ASSUME HalfAssumption ==
  Half \in Nat /\ Half > Cardinality(Proc) + Cardinality(Proc \X Handle)
ASSUME BoundAssumption == MaxHeld \in Nat /\ MaxNbi \in Nat

VARIABLES
  lock_mutex,            \* per rank
  lock_all_mutex,        \* on the master, as a record of its two halves
  net,                   \* net[<<p, h>>]: what p's request h is doing
  pc,                    \* where each process is
  rank,                  \* the rank argument of the call p is in
  excl_locks,            \* win->excl_locks, the set of ranks in the list
  local_exclusive_count,
  nbi_counter,
  shared_locks,          \* ranks p holds a shared lock of (only the program knows)
  all_locked             \* processes inside a lock_all epoch

lockVars == <<lock_mutex, lock_all_mutex>>
heldVars == <<excl_locks, local_exclusive_count, shared_locks, all_locked>>
vars == <<lockVars, net, pc, rank, heldVars, nbi_counter>>

NoOp == [op |-> "none", tgt |-> NoTarget]
Ops == {"put", "rel_shared", "rel_excl", "rel_all"}
Request == [op : Ops \cup {"none"}, tgt : Target \cup {NoTarget}]
Slot == Proc \X Handle

PcStates == {"idle",
             "x_master", "x_target", "x_backoff", "x_spin",  \* Win_lock, exclusive
             "s_wait", "a_wait",               \* waiting shared lock, lock_all
             "u_flush", "u_excl", "u_master", "u_shared",    \* Win_unlock
             "ua_flush", "u_all"}                            \* Win_unlock_all

TypeOK ==
  /\ lock_mutex \in [Target -> Nat]
  /\ lock_all_mutex \in [lo : 0 .. Half - 1, hi : 0 .. Half - 1]
  /\ net \in [Slot -> Request]
  /\ pc \in [Proc -> PcStates]
  /\ rank \in [Proc -> Target \cup {NoTarget}]
  /\ excl_locks \in [Proc -> SUBSET Target]
  /\ local_exclusive_count \in [Proc -> Nat]
  /\ nbi_counter \in [Proc -> Nat]
  /\ shared_locks \in [Proc -> SUBSET Target]
  /\ all_locked \subseteq Proc

Init ==
  /\ lock_mutex = [t \in Target |-> 0]
  /\ lock_all_mutex = [lo |-> 0, hi |-> 0]
  /\ net = [s \in Slot |-> NoOp]
  /\ pc = [p \in Proc |-> "idle"]
  /\ rank = [p \in Proc |-> NoTarget]
  /\ excl_locks = [p \in Proc |-> {}]
  /\ local_exclusive_count = [p \in Proc |-> 0]
  /\ nbi_counter = [p \in Proc |-> 0]
  /\ shared_locks = [p \in Proc |-> {}]
  /\ all_locked = {}

---------------------------------------------------------------------------
(* Words and network.                                                      *)

\* w + d and w + d * 2^32 on the 64-bit word whose halves are w.lo and w.hi,
\* for d = 1 or -1, with the carry or borrow between the halves
WrapHalf(n) == IF n < 0 THEN n + Half ELSE IF n >= Half THEN n - Half ELSE n
AddLo(w, d) ==
  [lo |-> WrapHalf(w.lo + d),
   hi |-> IF w.lo + d < 0 THEN WrapHalf(w.hi - 1)
          ELSE IF w.lo + d >= Half THEN WrapHalf(w.hi + 1) ELSE w.hi]
AddHi(w, d) == [w EXCEPT !.hi = WrapHalf(@ + d)]

\* p hands a request to the network and goes on
Issue(p, op, t) ==
  \E h \in Handle : /\ net[<<p, h>>] = NoOp
                    /\ net' = [net EXCEPT ![<<p, h>>] = [op |-> op, tgt |-> t]]

\* dmapp_gsync_wait returns
Quiet(p) == \A h \in Handle : net[<<p, h>>] = NoOp

At(p, from, to) == pc[p] = from /\ pc' = [pc EXCEPT ![p] = to]

---------------------------------------------------------------------------
(* foMPI_Win_lock                                                          *)

\* the locks a correct program may ask for
MayLock(p, t) ==
  /\ pc[p] = "idle"
  /\ p \notin all_locked
  /\ t \notin excl_locks[p] \cup shared_locks[p]
  /\ Cardinality(excl_locks[p] \cup shared_locks[p]) < MaxHeld

LockExclusive(p, t) ==
  /\ MayLock(p, t)
  /\ pc' = [pc EXCEPT ![p] = IF local_exclusive_count[p] = 0 THEN "x_master"
                             ELSE "x_spin"]
  /\ rank' = [rank EXCEPT ![p] = t]
  /\ UNCHANGED <<lockVars, net, heldVars, nbi_counter>>

\* mutant: lock_all is not looked at
ExclMasterBlind(p) ==
  /\ At(p, "x_master", "x_target")
  /\ lock_all_mutex' = AddLo(lock_all_mutex, 1)
  /\ UNCHANGED <<lock_mutex, net, rank, heldVars, nbi_counter>>

\* fetch-and-add on the master: go on only if no lock_all was there
ExclMaster(p) ==
  /\ At(p, "x_master", IF lock_all_mutex.hi = 0 THEN "x_target" ELSE "x_backoff")
  /\ lock_all_mutex' = AddLo(lock_all_mutex, 1)
  /\ UNCHANGED <<lock_mutex, net, rank, heldVars, nbi_counter>>

\* mutant: only the first exclusive lock is counted
ExclAcquireUncounted(p) ==
  /\ pc[p] \in {"x_target", "x_spin"}
  /\ lock_mutex[rank[p]] = 0
  /\ lock_mutex' = [lock_mutex EXCEPT ![rank[p]] = 1]
  /\ local_exclusive_count' = [local_exclusive_count EXCEPT ![p] = 1]
  /\ excl_locks' = [excl_locks EXCEPT ![p] = @ \cup {rank[p]}]
  /\ pc' = [pc EXCEPT ![p] = "idle"]
  /\ rank' = [rank EXCEPT ![p] = NoTarget]
  /\ UNCHANGED <<lock_all_mutex, net, nbi_counter, shared_locks, all_locked>>

\* the compare-and-swap on the target finds the word free
ExclAcquire(p) ==
  /\ pc[p] \in {"x_target", "x_spin"}
  /\ lock_mutex[rank[p]] = 0
  /\ lock_mutex' = [lock_mutex EXCEPT ![rank[p]] = 1]
  /\ local_exclusive_count' = [local_exclusive_count EXCEPT ![p] = @ + 1]
  /\ excl_locks' = [excl_locks EXCEPT ![p] = @ \cup {rank[p]}]
  /\ pc' = [pc EXCEPT ![p] = "idle"]
  /\ rank' = [rank EXCEPT ![p] = NoTarget]
  /\ UNCHANGED <<lock_all_mutex, net, nbi_counter, shared_locks, all_locked>>

\* it does not: back off the master (a process that already holds an
\* exclusive lock only tries again)
ExclBusy(p) ==
  /\ At(p, "x_target", "x_backoff")
  /\ lock_mutex[rank[p]] # 0
  /\ UNCHANGED <<lockVars, net, rank, heldVars, nbi_counter>>

\* mutant: the back-off forgets its decrement
ExclBackoffForgets(p) ==
  /\ At(p, "x_backoff", "x_master")
  /\ UNCHANGED <<lockVars, net, rank, heldVars, nbi_counter>>

ExclBackoff(p) ==
  /\ At(p, "x_backoff", "x_master")
  /\ lock_all_mutex' = AddLo(lock_all_mutex, -1)
  /\ UNCHANGED <<lock_mutex, net, rank, heldVars, nbi_counter>>

\* mutant: a shared request that has to wait does not register
LockSharedLate(p, t) ==
  /\ MayLock(p, t)
  /\ IF lock_mutex[t] % 2 = 0
     THEN /\ lock_mutex' = [lock_mutex EXCEPT ![t] = @ + 2]
          /\ shared_locks' = [shared_locks EXCEPT ![p] = @ \cup {t}]
          /\ UNCHANGED <<pc, rank>>
     ELSE /\ pc' = [pc EXCEPT ![p] = "s_wait"]
          /\ rank' = [rank EXCEPT ![p] = t]
          /\ UNCHANGED <<lock_mutex, shared_locks>>
  /\ UNCHANGED <<lock_all_mutex, net, nbi_counter, excl_locks, local_exclusive_count,
                 all_locked>>

LockShared(p, t) ==
  /\ MayLock(p, t)
  /\ lock_mutex' = [lock_mutex EXCEPT ![t] = @ + 2]
  /\ IF lock_mutex[t] % 2 = 0
     THEN /\ shared_locks' = [shared_locks EXCEPT ![p] = @ \cup {t}]
          /\ UNCHANGED <<pc, rank>>
     ELSE /\ pc' = [pc EXCEPT ![p] = "s_wait"]
          /\ rank' = [rank EXCEPT ![p] = t]
          /\ UNCHANGED shared_locks
  /\ UNCHANGED <<lock_all_mutex, net, nbi_counter, excl_locks, local_exclusive_count,
                 all_locked>>

\* mutant: the poll waits for the word to hold its own request only
SharedGrantedAlone(p) ==
  /\ At(p, "s_wait", "idle")
  /\ lock_mutex[rank[p]] = 2
  /\ shared_locks' = [shared_locks EXCEPT ![p] = @ \cup {rank[p]}]
  /\ rank' = [rank EXCEPT ![p] = NoTarget]
  /\ UNCHANGED <<lockVars, net, nbi_counter, excl_locks, local_exclusive_count, all_locked>>

\* the polling get finds bit 0 clear
SharedGranted(p) ==
  /\ At(p, "s_wait", "idle")
  /\ lock_mutex[rank[p]] % 2 = 0
  /\ shared_locks' = [shared_locks EXCEPT ![p] = @ \cup {rank[p]}]
  /\ rank' = [rank EXCEPT ![p] = NoTarget]
  /\ UNCHANGED <<lockVars, net, nbi_counter, excl_locks, local_exclusive_count, all_locked>>

---------------------------------------------------------------------------
(* foMPI_Win_lock_all                                                      *)

\* mutant: looks at the wrong half
LockAllWrongMask(p) ==
  /\ pc[p] = "idle"
  /\ p \notin all_locked
  /\ excl_locks[p] \cup shared_locks[p] = {}
  /\ lock_all_mutex' = AddHi(lock_all_mutex, 1)
  /\ IF lock_all_mutex.hi = 0
     THEN all_locked' = all_locked \cup {p} /\ UNCHANGED pc
     ELSE pc' = [pc EXCEPT ![p] = "a_wait"] /\ UNCHANGED all_locked
  /\ UNCHANGED <<lock_mutex, net, rank, nbi_counter, excl_locks, local_exclusive_count,
                 shared_locks>>

LockAll(p) ==
  /\ pc[p] = "idle"
  /\ p \notin all_locked
  /\ excl_locks[p] \cup shared_locks[p] = {}
  /\ lock_all_mutex' = AddHi(lock_all_mutex, 1)
  /\ IF lock_all_mutex.lo = 0
     THEN all_locked' = all_locked \cup {p} /\ UNCHANGED pc
     ELSE pc' = [pc EXCEPT ![p] = "a_wait"] /\ UNCHANGED all_locked
  /\ UNCHANGED <<lock_mutex, net, rank, nbi_counter, excl_locks, local_exclusive_count,
                 shared_locks>>

\* the polling get finds the low half zero
AllGranted(p) ==
  /\ At(p, "a_wait", "idle")
  /\ lock_all_mutex.lo = 0
  /\ all_locked' = all_locked \cup {p}
  /\ UNCHANGED <<lockVars, net, rank, nbi_counter, excl_locks, local_exclusive_count,
                 shared_locks>>

\* a get or a compare-and-swap of a spin loop finds the word taken still
SpinAgain(p) ==
  /\ \/ pc[p] = "x_spin" /\ lock_mutex[rank[p]] # 0
     \/ pc[p] = "s_wait" /\ lock_mutex[rank[p]] % 2 # 0
     \/ pc[p] = "a_wait" /\ lock_all_mutex.lo # 0
  /\ UNCHANGED vars

---------------------------------------------------------------------------
(* Accesses inside an epoch, and foMPI_Win_flush.                          *)

Covers(p, t) == p \in all_locked \/ t \in excl_locks[p] \cup shared_locks[p]

Put(p, t) ==
  /\ pc[p] = "idle"
  /\ Covers(p, t)
  /\ nbi_counter[p] < MaxNbi
  /\ Issue(p, "put", t)
  /\ nbi_counter' = [nbi_counter EXCEPT ![p] = @ + 1]
  /\ UNCHANGED <<lockVars, pc, rank, heldVars>>

\* mutant: no sync
FlushAllNoWait(p) == nbi_counter' = [nbi_counter EXCEPT ![p] = 0]

\* foMPI_Win_flush_all: the global sync only if the counter says so
FlushAll(p) ==
  /\ nbi_counter[p] > 0 => Quiet(p)
  /\ nbi_counter' = [nbi_counter EXCEPT ![p] = 0]

Flush(p) ==
  /\ pc[p] = "idle"
  /\ FlushAll(p)
  /\ UNCHANGED <<lockVars, net, pc, rank, heldVars>>

---------------------------------------------------------------------------
(* foMPI_Win_unlock                                                        *)

Unlock(p, t) ==
  /\ At(p, "idle", "u_flush")
  /\ t \in excl_locks[p] \cup shared_locks[p]
  /\ rank' = [rank EXCEPT ![p] = t]
  /\ UNCHANGED <<lockVars, net, heldVars, nbi_counter>>

\* the flush, and the branch on what foMPI_search_excl_lock found
UnlockFlushed(p) ==
  /\ At(p, "u_flush", IF rank[p] \in excl_locks[p] THEN "u_excl" ELSE "u_shared")
  /\ FlushAll(p)
  /\ UNCHANGED <<lockVars, net, rank, heldVars>>

\* blocking release of the target; the local count and list follow
ReleaseTarget(p) ==
  LET last == local_exclusive_count[p] = 1 IN
  /\ At(p, "u_excl", IF last THEN "u_master" ELSE "idle")
  /\ lock_mutex' = [lock_mutex EXCEPT ![rank[p]] = @ - 1]
  /\ local_exclusive_count' = [local_exclusive_count EXCEPT ![p] = @ - 1]
  /\ excl_locks' = [excl_locks EXCEPT ![p] = @ \ {rank[p]}]
  /\ rank' = [rank EXCEPT ![p] = NoTarget]
  /\ UNCHANGED <<lock_all_mutex, net, nbi_counter, shared_locks, all_locked>>

\* the last exclusive lock is gone: non-blocking release of the master
ReleaseMaster(p) ==
  /\ At(p, "u_master", "idle")
  /\ Issue(p, "rel_excl", NoTarget)
  /\ UNCHANGED <<lockVars, rank, heldVars, nbi_counter>>

\* non-blocking release of a shared lock
ReleaseShared(p) ==
  /\ At(p, "u_shared", "idle")
  /\ Issue(p, "rel_shared", rank[p])
  /\ shared_locks' = [shared_locks EXCEPT ![p] = @ \ {rank[p]}]
  /\ rank' = [rank EXCEPT ![p] = NoTarget]
  /\ UNCHANGED <<lockVars, nbi_counter, excl_locks, local_exclusive_count, all_locked>>

---------------------------------------------------------------------------
(* foMPI_Win_unlock_all                                                    *)

UnlockAll(p) ==
  /\ At(p, "idle", "ua_flush")
  /\ p \in all_locked
  /\ UNCHANGED <<lockVars, net, rank, heldVars, nbi_counter>>

UnlockAllFlushed(p) ==
  /\ At(p, "ua_flush", "u_all")
  /\ FlushAll(p)
  /\ UNCHANGED <<lockVars, net, rank, heldVars>>

ReleaseAll(p) ==
  /\ At(p, "u_all", "idle")
  /\ Issue(p, "rel_all", NoTarget)
  /\ all_locked' = all_locked \ {p}
  /\ UNCHANGED <<lockVars, rank, nbi_counter, excl_locks, local_exclusive_count, shared_locks>>

---------------------------------------------------------------------------
(* The network performs request h of p, in any order.                      *)

Deliver(p, h) ==
  LET r == net[<<p, h>>] IN
  /\ r # NoOp
  /\ net' = [net EXCEPT ![<<p, h>>] = NoOp]
  /\ lock_mutex' = IF r.op = "rel_shared" THEN [lock_mutex EXCEPT ![r.tgt] = @ - 2]
                   ELSE lock_mutex
  /\ lock_all_mutex' = CASE r.op = "rel_excl" -> AddLo(lock_all_mutex, -1)
                         [] r.op = "rel_all"  -> AddHi(lock_all_mutex, -1)
                         [] OTHER             -> lock_all_mutex
  /\ UNCHANGED <<pc, rank, heldVars, nbi_counter>>

---------------------------------------------------------------------------

\* what a call does on its own once it has begun
CallStep(p) ==
  \/ ExclMaster(p) \/ ExclAcquire(p) \/ ExclBusy(p) \/ ExclBackoff(p)
  \/ SharedGranted(p) \/ AllGranted(p) \/ SpinAgain(p)
  \/ UnlockFlushed(p) \/ ReleaseTarget(p) \/ ReleaseMaster(p) \/ ReleaseShared(p)
  \/ UnlockAllFlushed(p) \/ ReleaseAll(p)

\* what the program decides to call
ProgramStep(p) ==
  \/ LockAll(p) \/ UnlockAll(p) \/ Flush(p)
  \/ \E t \in Target : \/ LockExclusive(p, t) \/ LockShared(p, t)
                       \/ Put(p, t) \/ Unlock(p, t)

Next ==
  \E p \in Proc : \/ CallStep(p) \/ ProgramStep(p)
                  \/ \E h \in Handle : Deliver(p, h)

Spec == Init /\ [][Next]_vars

(* Every call in progress is executed, the network delivers, and programs  *)
(* leave the epochs they open.                                             *)
Fairness ==
  \A p \in Proc :
    /\ WF_vars(CallStep(p))
    /\ \A h \in Handle : WF_vars(Deliver(p, h))
    /\ WF_vars(UnlockAll(p) \/ \E t \in Target : Unlock(p, t))

FairSpec == Spec /\ Fairness

---------------------------------------------------------------------------
(* Who holds and who waits.                                                *)

ExclHolders(t) == {p \in Proc : t \in excl_locks[p]}
SharedHolders(t) == {p \in Proc : t \in shared_locks[p]}
InFlight(op) == {s \in Slot : net[s].op = op}
InFlightTo(op, t) == {s \in InFlight(op) : net[s].tgt = t}

\* processes whose +1, +2, +2^32 no release has been sent for
ExclCounted == {p \in Proc : \/ excl_locks[p] # {}
                             \/ pc[p] \in {"x_target", "x_backoff", "u_master"}}
SharedCounted(t) ==
  {p \in Proc : t \in shared_locks[p] \/ (pc[p] = "s_wait" /\ rank[p] = t)}
AllCounted == {p \in Proc : p \in all_locked \/ pc[p] = "a_wait"}

(* MPI-3 exclusive locks exclude: while a process holds the exclusive lock *)
(* of a rank, no other process holds any lock of it and nobody is inside   *)
(* a lock_all epoch (Win_lock, lines 112-178, Win_lock_all, 279-287).      *)
MutualExclusion ==
  \A t \in Target : \A p \in ExclHolders(t) :
    /\ ExclHolders(t) = {p}
    /\ SharedHolders(t) = {}
    /\ all_locked = {}

RankAccounted(t) ==
  lock_mutex[t] = 2 * (Cardinality(SharedCounted(t))
                        + Cardinality(InFlightTo("rel_shared", t)))
                  + (IF ExclHolders(t) = {} THEN 0 ELSE 1)
LowAccounted ==
  lock_all_mutex.lo = Cardinality(ExclCounted) + Cardinality(InFlight("rel_excl"))
HighAccounted ==
  lock_all_mutex.hi = Cardinality(AllCounted) + Cardinality(InFlight("rel_all"))

(* The lock words are exactly the sum of what holders, waiters and         *)
(* releases still in the network contribute; nothing carries from one half *)
(* of lock_all_mutex into the other, so the masks of lines 84 and 264 read *)
(* what they mean.                                                         *)
WordsAccounted ==
  (\A t \in Target : RankAccounted(t)) /\ LowAccounted /\ HighAccounted

(* A put is never in the network without a lock of its origin that covers  *)
(* its rank: unlock completes accesses before anyone else can get in       *)
(* (flush before release, lines 221-246 and 308-319).                      *)
PutsCovered ==
  \A p \in Proc, h \in Handle : net[<<p, h>>].op = "put" => Covers(p, net[<<p, h>>].tgt)

(* local_exclusive_count is the length of the list of exclusive locks: the *)
(* process leaves the master exactly with its last exclusive lock.         *)
CountMatchesList ==
  \A p \in Proc : local_exclusive_count[p] = Cardinality(excl_locks[p])

(* Once a shared request is registered in a rank's word, no exclusive lock *)
(* of that rank is granted to anyone else until it has been served         *)
(* (the +2 of line 167 keeps the compare-and-swap of lines 129, 155 from   *)
(* succeeding).                                                            *)
NoBarging ==
  [][\A p \in Proc : pc[p] = "s_wait" /\ pc'[p] = "s_wait" =>
       {q \in Proc : rank[p] \in excl_locks'[q]} \subseteq ExclHolders(rank[p])]_vars

(* A shared request is granted once the programs leave their exclusive     *)
(* epochs: the poll of lines 172-176 ends.                                 *)
SharedServed == \A p \in Proc : pc[p] = "s_wait" ~> pc[p] = "idle"

\* p is between the call and the grant of an exclusive lock
Requesting(p) == pc[p] \in {"x_master", "x_target", "x_backoff", "x_spin"}

(* A lock_all request that no exclusive request competes with for ever is  *)
(* granted: what requesters that backed off and holders that unlocked took *)
(* back from the low half, by blocking and by non-blocking atomics, leaves *)
(* nothing there (poll of lines 283-287, back-off of lines 141 and 150,    *)
(* release of lines 236-239).  While exclusive requests keep coming the    *)
(* code promises nothing: two that back off in turns keep the half above 0.*)
AllServed ==
  <>[](\A q \in Proc : ~Requesting(q)) =>
    \A p \in Proc : pc[p] = "a_wait" ~> pc[p] = "idle"

(* The protocol implements the abstract readers/writer locks.              *)
Abstract == INSTANCE AbstractWinLock WITH
  excl   <- [t \in Target |-> ExclHolders(t)],
  shared <- [t \in Target |-> SharedHolders(t)],
  all    <- all_locked,
  access <- [p \in Proc |-> {t \in Target : \E h \in Handle :
                                 net[<<p, h>>] = [op |-> "put", tgt |-> t]}]
ImplementsLocks == Abstract!Spec

---------------------------------------------------------------------------
(* The inductive invariant: where a process can be, given what it holds.   *)

\* no put of p is in the network
NoPut(p) == \A h \in Handle : net[<<p, h>>].op # "put"

Control ==
  \A p \in Proc :
    /\ excl_locks[p] \cap shared_locks[p] = {}
    /\ p \in all_locked => /\ excl_locks[p] = {} /\ shared_locks[p] = {}
                           /\ pc[p] \in {"idle", "ua_flush", "u_all"}
    /\ pc[p] \in {"ua_flush", "u_all"} => p \in all_locked
    /\ pc[p] \in {"x_master", "x_target", "x_backoff", "u_master"} => excl_locks[p] = {}
    /\ pc[p] = "x_spin" => excl_locks[p] # {}
    /\ pc[p] = "a_wait" => excl_locks[p] = {} /\ shared_locks[p] = {}
    /\ pc[p] \in {"x_master", "x_target", "x_backoff", "x_spin", "s_wait"} =>
         rank[p] \in Target \ (excl_locks[p] \cup shared_locks[p])
    /\ pc[p] = "u_flush" => rank[p] \in excl_locks[p] \cup shared_locks[p]
    /\ pc[p] = "u_excl" => rank[p] \in excl_locks[p]
    /\ pc[p] = "u_shared" => rank[p] \in shared_locks[p]
    /\ nbi_counter[p] = 0 \/ pc[p] \in {"u_excl", "u_shared", "u_all"} => NoPut(p)

\* only releases of shared locks, and puts, have a target
Requests ==
  \A s \in Slot : /\ net[s].op \in {"put", "rel_shared"} => net[s].tgt \in Target
                  /\ net[s].op = "none" => net[s] = NoOp

\* lock_all shuts out exclusive locks and the requests about to get one
AllExcludes ==
  all_locked # {} => \A p \in Proc : excl_locks[p] = {} /\ pc[p] # "x_target"

IInv ==
  /\ TypeOK /\ Control /\ Requests /\ AllExcludes
  /\ MutualExclusion /\ WordsAccounted /\ PutsCovered /\ CountMatchesList
===========================================================================
