-------------------------- MODULE WinLockProofs --------------------------
(***************************************************************************)
(* WinLock for any number of processes, ranks and outstanding requests:    *)
(* IInv is inductive, and it gives type correctness, mutual exclusion, the *)
(* accounting of the lock words and the coverage of puts.                  *)
(***************************************************************************)
EXTENDS WinLock, FiniteSetTheorems, TLAPS

---------------------------------------------------------------------------
(* Sets of processes and of network slots are finite.                      *)

(* Sets of processes are finite.                                           *)
LEMMA ProcSets ==
  ASSUME NEW S \in SUBSET Proc
  PROVE  /\ IsFiniteSet(S) /\ Cardinality(S) \in Nat
         /\ Cardinality(S) <= Cardinality(Proc) /\ Cardinality(Proc) \in Nat
         /\ Cardinality(S) = 0 <=> S = {}
BY FiniteAssumption, FS_Subset, FS_CardinalityType, FS_EmptySet

(* Sets of request slots are finite.                                       *)
LEMMA SlotSets ==
  ASSUME NEW S \in SUBSET Slot
  PROVE  /\ IsFiniteSet(S) /\ Cardinality(S) \in Nat
         /\ Cardinality(S) <= Cardinality(Slot) /\ Cardinality(Slot) \in Nat
         /\ Cardinality(S) = 0 <=> S = {}
<1>1. IsFiniteSet(Slot)
  BY FiniteAssumption, FS_Product DEF Slot
<1>. QED  BY <1>1, FS_Subset, FS_CardinalityType, FS_EmptySet

(* Sets of ranks are finite.                                               *)
LEMMA TargetSets ==
  ASSUME NEW S \in SUBSET Target
  PROVE  /\ IsFiniteSet(S) /\ Cardinality(S) \in Nat
         /\ Cardinality(S) = 0 <=> S = {}
BY FiniteAssumption, FS_Subset, FS_CardinalityType, FS_EmptySet

(* One element more.                                                       *)
LEMMA OneMore ==
  ASSUME NEW S, IsFiniteSet(S), NEW x, x \notin S
  PROVE  Cardinality(S \cup {x}) = Cardinality(S) + 1
BY FS_AddElement

(* One element less.                                                       *)
LEMMA OneLess ==
  ASSUME NEW S, IsFiniteSet(S), NEW x \in S
  PROVE  Cardinality(S \ {x}) = Cardinality(S) - 1
BY FS_RemoveElement

(* What the words count are sets of processes and of requests.             *)
LEMMA Subsets ==
  /\ ExclCounted \subseteq Proc /\ AllCounted \subseteq Proc
  /\ \A t : SharedCounted(t) \subseteq Proc /\ ExclHolders(t) \subseteq Proc
  /\ \A op : InFlight(op) \subseteq Slot
  /\ \A op, t : InFlightTo(op, t) \subseteq Slot
BY DEF ExclCounted, AllCounted, SharedCounted, ExclHolders, InFlight, InFlightTo

---------------------------------------------------------------------------
(* Arithmetic on the halves does not carry while the sum fits.             *)

(* A half of the word is larger than all that is ever counted in it.       *)
LEMMA HalfType ==
  Half \in Nat /\ Half > 0 /\ Half > Cardinality(Proc) + Cardinality(Slot)
<1>1. Cardinality(Proc) \in Nat /\ Cardinality(Slot) \in Nat
  BY ProcSets, SlotSets
<1>. QED  BY <1>1, HalfAssumption DEF Slot

Word == [lo : 0 .. Half - 1, hi : 0 .. Half - 1]

(* Adding to a half of the word gives a word.                              *)
LEMMA WordType ==
  ASSUME NEW w \in Word, NEW d \in {1, -1}
  PROVE  AddLo(w, d) \in Word /\ AddHi(w, d) \in Word
<1>1. \A n \in -1 .. Half : WrapHalf(n) \in 0 .. Half - 1
  BY HalfType DEF WrapHalf
<1>2. w.lo + d \in -1 .. Half /\ w.hi + d \in -1 .. Half
      /\ w.hi - 1 \in -1 .. Half /\ w.hi + 1 \in -1 .. Half
  BY HalfType DEF Word
<1>3. AddLo(w, d) \in Word
  BY <1>1, <1>2 DEF AddLo, Word
<1>4. AddHi(w, d) \in Word
  BY <1>1, <1>2 DEF AddHi, Word
<1>. QED  BY <1>3, <1>4

(* Adding to a half that does not wrap is plain addition.                  *)
LEMMA NoCarry ==
  ASSUME NEW w \in Word, NEW d \in {1, -1}
  PROVE  /\ w.lo + d \in 0 .. Half - 1 => AddLo(w, d) = [lo |-> w.lo + d, hi |-> w.hi]
         /\ w.hi + d \in 0 .. Half - 1 => AddHi(w, d) = [lo |-> w.lo, hi |-> w.hi + d]
<1>1. \A n \in 0 .. Half - 1 : WrapHalf(n) = n
  BY HalfType DEF WrapHalf
<1>2. w.lo \in Int /\ w.hi \in Int /\ w = [lo |-> w.lo, hi |-> w.hi]
  BY HalfType DEF Word
<1>. QED  BY <1>1, <1>2, HalfType DEF AddLo, AddHi

---------------------------------------------------------------------------
(* What issuing and delivering a request does to the sets in the network.  *)

(* Issuing a request adds one slot to its kind and rank, and to no other.  *)
LEMMA IssueAdds ==
  ASSUME TypeOK, Requests, NEW p \in Proc, NEW op \in Ops,
         NEW t \in Target \cup {NoTarget}, Issue(p, op, t)
  PROVE  /\ net' \in [Slot -> Request]
         /\ \E s \in Slot :
              /\ s \notin InFlight(op) /\ InFlight(op)' = InFlight(op) \cup {s}
              /\ s \notin InFlightTo(op, t)
              /\ InFlightTo(op, t)' = InFlightTo(op, t) \cup {s}
         /\ \A o \in Ops : o # op => InFlight(o)' = InFlight(o)
         /\ \A o \in Ops : \A u \in Target : o # op \/ u # t =>
              InFlightTo(o, u)' = InFlightTo(o, u)
<1>1. PICK h \in Handle :
        net[<<p, h>>] = NoOp /\ net' = [net EXCEPT ![<<p, h>>] = [op |-> op, tgt |-> t]]
  BY DEF Issue
<1>. DEFINE s == <<p, h>>
<1>2. s \in Slot /\ net \in [Slot -> Request] /\ net[s].op = "none"
  BY <1>1 DEF TypeOK, Slot, NoOp
<1>3. net' \in [Slot -> Request] /\ net'[s].op = op /\ net'[s].tgt = t
  BY <1>1, <1>2 DEF Request
<1>4. \A x \in Slot : x # s => net'[x] = net[x]
  BY <1>1, <1>2
<1>5. \A o \in Ops : o # "none"
  BY DEF Ops
<1>6. InFlight(op)' = InFlight(op) \cup {s} /\ s \notin InFlight(op)
  BY <1>2, <1>3, <1>4, <1>5 DEF InFlight
<1>7. InFlightTo(op, t)' = InFlightTo(op, t) \cup {s} /\ s \notin InFlightTo(op, t)
  BY <1>2, <1>3, <1>4, <1>5, <1>6 DEF InFlightTo, InFlight
<1>8. \A o \in Ops : o # op => InFlight(o)' = InFlight(o)
  BY <1>2, <1>3, <1>4, <1>5 DEF InFlight
<1>9. \A o \in Ops, u \in Target : o # op \/ u # t => InFlightTo(o, u)' = InFlightTo(o, u)
  BY <1>2, <1>3, <1>4, <1>5 DEF InFlightTo, InFlight
<1>. QED  BY <1>2, <1>3, <1>6, <1>7, <1>8, <1>9

(* Delivering a request removes its slot from its kind and rank, and from  *)
(* no other.                                                               *)
LEMMA DeliverRemoves ==
  ASSUME TypeOK, Requests, NEW p \in Proc, NEW h \in Handle, Deliver(p, h),
         NEW s \in Slot, s = <<p, h>>, NEW op, op = net[s].op, NEW t, t = net[s].tgt
  PROVE  /\ net' \in [Slot -> Request] /\ op \in Ops
         /\ net'[s] = NoOp /\ \A x \in Slot : x # s => net'[x] = net[x]
         /\ s \in InFlight(op) /\ InFlight(op)' = InFlight(op) \ {s}
         /\ s \in InFlightTo(op, t) /\ InFlightTo(op, t)' = InFlightTo(op, t) \ {s}
         /\ \A o \in Ops : o # op => InFlight(o)' = InFlight(o)
         /\ \A o \in Ops, u \in Target : o # op \/ u # t =>
              InFlightTo(o, u)' = InFlightTo(o, u)
<1>1. /\ net \in [Slot -> Request] /\ net[s] # NoOp
      /\ net' = [net EXCEPT ![s] = NoOp]
  BY DEF Deliver, TypeOK
<1>2. op \in Ops
  BY <1>1 DEF Requests, Request
<1>3. net' \in [Slot -> Request] /\ net'[s] = NoOp /\ net'[s].op = "none"
  BY <1>1 DEF Request, NoOp
<1>4. \A x \in Slot : x # s => net'[x] = net[x]
  BY <1>1
<1>5. \A o \in Ops : o # "none"
  BY DEF Ops
<1>6. s \in InFlight(op) /\ InFlight(op)' = InFlight(op) \ {s}
  BY <1>2, <1>3, <1>4, <1>5 DEF InFlight
<1>7. s \in InFlightTo(op, t) /\ InFlightTo(op, t)' = InFlightTo(op, t) \ {s}
  BY <1>2, <1>3, <1>4, <1>5 DEF InFlightTo, InFlight
<1>8. \A o \in Ops : o # op => InFlight(o)' = InFlight(o)
  BY <1>3, <1>4, <1>5 DEF InFlight
<1>9. \A o \in Ops, u \in Target : o # op \/ u # t =>
        InFlightTo(o, u)' = InFlightTo(o, u)
  BY <1>3, <1>4, <1>5 DEF InFlightTo, InFlight
<1>. QED  BY <1>2, <1>3, <1>4, <1>6, <1>7, <1>8, <1>9
---------------------------------------------------------------------------
(* One lemma per conjunct of IInv, one step per action.                    *)

(* A rank's word is odd exactly when it is held, and as large as who       *)
(* shares it.                                                              *)
LEMMA WordPositive ==
  ASSUME IInv, NEW t \in Target
  PROVE  /\ lock_mutex[t] \in Nat
         /\ ExclHolders(t) # {} <=> lock_mutex[t] % 2 = 1
         /\ ExclHolders(t) # {} => lock_mutex[t] >= 1
         /\ SharedCounted(t) # {} => lock_mutex[t] >= 2
         /\ \A s \in InFlightTo("rel_shared", t) : lock_mutex[t] >= 2
<1>1. /\ Cardinality(SharedCounted(t)) \in Nat
      /\ Cardinality(SharedCounted(t)) = 0 <=> SharedCounted(t) = {}
  BY Subsets, ProcSets
<1>2. /\ Cardinality(InFlightTo("rel_shared", t)) \in Nat
      /\ Cardinality(InFlightTo("rel_shared", t)) = 0 <=> InFlightTo("rel_shared", t) = {}
  BY Subsets, SlotSets
<1>3. lock_mutex[t] = 2 * (Cardinality(SharedCounted(t))
                             + Cardinality(InFlightTo("rel_shared", t)))
                      + (IF ExclHolders(t) = {} THEN 0 ELSE 1)
  BY DEF IInv, WordsAccounted, RankAccounted
<1>. DEFINE n == Cardinality(SharedCounted(t)) + Cardinality(InFlightTo("rel_shared", t))
<1>4. n \in Nat /\ (2 * n) % 2 = 0 /\ (2 * n + 1) % 2 = 1
  BY <1>1, <1>2
<1>5. (SharedCounted(t) # {} => n >= 1) /\ (InFlightTo("rel_shared", t) # {} => n >= 1)
  BY <1>1, <1>2
<1>6. lock_mutex[t] = 2 * n + (IF ExclHolders(t) = {} THEN 0 ELSE 1)
  BY <1>3
<1>7. \A s \in InFlightTo("rel_shared", t) : n >= 1
  BY <1>5
<1>. HIDE DEF n
<1>8. CASE ExclHolders(t) = {}
  BY <1>4, <1>5, <1>6, <1>7, <1>8
<1>9. CASE ExclHolders(t) # {}
  BY <1>4, <1>5, <1>6, <1>7, <1>9
<1>. QED  BY <1>8, <1>9

(* Every step keeps the types: no word goes below zero, no half wraps.     *)
LEMMA TypeStep ==
  ASSUME IInv, [Next]_vars
  PROVE  TypeOK'
<1>0. TypeOK /\ Control /\ Requests /\ CountMatchesList
  BY DEF IInv
<1>. USE DEF TypeOK, At, lockVars, heldVars, PcStates
<1>a. lock_all_mutex \in Word /\ Word = [lo : 0 .. Half - 1, hi : 0 .. Half - 1]
  BY <1>0 DEF Word
<1>b. AddLo(lock_all_mutex, 1) \in Word /\ AddLo(lock_all_mutex, -1) \in Word
      /\ AddHi(lock_all_mutex, 1) \in Word /\ AddHi(lock_all_mutex, -1) \in Word
  BY <1>a, WordType
<1>1. ASSUME NEW p \in Proc, ExclMaster(p)  PROVE TypeOK'
  BY <1>1, <1>0, <1>a, <1>b DEF ExclMaster
<1>2. ASSUME NEW p \in Proc, ExclAcquire(p)  PROVE TypeOK'
  BY <1>2, <1>0 DEF ExclAcquire, Control
<1>3. ASSUME NEW p \in Proc, ExclBusy(p)  PROVE TypeOK'
  BY <1>3, <1>0 DEF ExclBusy
<1>4. ASSUME NEW p \in Proc, ExclBackoff(p)  PROVE TypeOK'
  BY <1>4, <1>0, <1>a, <1>b DEF ExclBackoff
<1>5. ASSUME NEW p \in Proc, SharedGranted(p)  PROVE TypeOK'
  BY <1>5, <1>0 DEF SharedGranted, Control
<1>6. ASSUME NEW p \in Proc, AllGranted(p)  PROVE TypeOK'
  BY <1>6, <1>0 DEF AllGranted
<1>7. ASSUME NEW p \in Proc, UnlockFlushed(p)  PROVE TypeOK'
  BY <1>7, <1>0 DEF UnlockFlushed, FlushAll
<1>8. ASSUME NEW p \in Proc, ReleaseTarget(p)  PROVE TypeOK'
  <2>1. rank[p] \in Target /\ lock_mutex[rank[p]] - 1 \in Nat
    BY <1>8, <1>0, WordPositive DEF ReleaseTarget, Control, ExclHolders
  <2>2. local_exclusive_count[p] - 1 \in Nat
    BY <1>8, <1>0, TargetSets DEF ReleaseTarget, Control, CountMatchesList
  <2>. QED  BY <1>8, <1>0, <2>1, <2>2 DEF ReleaseTarget
<1>9. ASSUME NEW p \in Proc, ReleaseMaster(p)  PROVE TypeOK'
  BY <1>9, <1>0, IssueAdds DEF ReleaseMaster, Ops
<1>10. ASSUME NEW p \in Proc, ReleaseShared(p)  PROVE TypeOK'
  <2>1. PICK t \in Target : t = rank[p]
    BY <1>10, <1>0 DEF ReleaseShared, Control
  <2>2. net' \in [Slot -> Request]
    BY <1>10, <1>0, <2>1, IssueAdds DEF ReleaseShared, Ops
  <2>. QED  BY <1>10, <1>0, <2>2 DEF ReleaseShared
<1>11. ASSUME NEW p \in Proc, UnlockAllFlushed(p)  PROVE TypeOK'
  BY <1>11, <1>0 DEF UnlockAllFlushed, FlushAll
<1>12. ASSUME NEW p \in Proc, ReleaseAll(p)  PROVE TypeOK'
  BY <1>12, <1>0, IssueAdds DEF ReleaseAll, Ops
<1>13. ASSUME NEW p \in Proc, LockAll(p)  PROVE TypeOK'
  BY <1>13, <1>0, <1>a, <1>b DEF LockAll
<1>14. ASSUME NEW p \in Proc, UnlockAll(p)  PROVE TypeOK'
  BY <1>14, <1>0 DEF UnlockAll
<1>15. ASSUME NEW p \in Proc, Flush(p)  PROVE TypeOK'
  BY <1>15, <1>0 DEF Flush, FlushAll
<1>16. ASSUME NEW p \in Proc, NEW t \in Target, LockExclusive(p, t)  PROVE TypeOK'
  BY <1>16, <1>0 DEF LockExclusive, MayLock
<1>17. ASSUME NEW p \in Proc, NEW t \in Target, LockShared(p, t)  PROVE TypeOK'
  BY <1>17, <1>0 DEF LockShared, MayLock
<1>18. ASSUME NEW p \in Proc, NEW t \in Target, Put(p, t)  PROVE TypeOK'
  BY <1>18, <1>0, IssueAdds DEF Put, Ops
<1>19. ASSUME NEW p \in Proc, NEW t \in Target, Unlock(p, t)  PROVE TypeOK'
  BY <1>19, <1>0 DEF Unlock
<1>20. ASSUME NEW p \in Proc, NEW h \in Handle, Deliver(p, h)  PROVE TypeOK'
  <2>1. PICK s \in Slot : s = <<p, h>>
    BY DEF Slot
  <2>2. PICK op, t : op = net[s].op /\ t = net[s].tgt
    OBVIOUS
  <2>3. net' \in [Slot -> Request] /\ s \in InFlightTo(op, t)
    BY <1>20, <1>0, <2>1, <2>2, DeliverRemoves
  <2>4. lock_mutex' \in [Target -> Nat]
    <3>1. CASE op = "rel_shared"
      <4>0. t \in Target /\ s \in InFlightTo("rel_shared", t)
        BY <1>0, <2>2, <2>3, <3>1 DEF Requests
      <4>1. t \in Target /\ lock_mutex[t] - 2 \in Nat
        BY <4>0, WordPositive
      <4>. QED  BY <1>20, <1>0, <2>1, <2>2, <3>1, <4>1 DEF Deliver
    <3>2. CASE op # "rel_shared"
      BY <1>20, <1>0, <2>1, <2>2, <3>2 DEF Deliver
    <3>. QED  BY <3>1, <3>2
  <2>5. lock_all_mutex' \in Word
    BY <1>20, <1>0, <1>a, <1>b DEF Deliver
  <2>. QED  BY <1>20, <1>0, <1>a, <2>3, <2>4, <2>5 DEF Deliver
<1>21. CASE UNCHANGED vars
  BY <1>21, <1>0 DEF vars
<1>. QED
  BY <1>1, <1>2, <1>3, <1>4, <1>5, <1>6, <1>7, <1>8, <1>9, <1>10, <1>11,
     <1>12, <1>13, <1>14, <1>15, <1>16, <1>17, <1>18, <1>19, <1>20, <1>21
     DEF Next, CallStep, ProgramStep, SpinAgain

(* Every step keeps what the place of a process says of its lists and      *)
(* requests.                                                               *)
LEMMA ControlStep ==
  ASSUME IInv, [Next]_vars
  PROVE  Control'
<1>0. TypeOK /\ Control /\ Requests /\ CountMatchesList
  BY DEF IInv
<1>. USE DEF TypeOK, At, lockVars, heldVars, PcStates, Control, NoPut
<1>a. \A q \in Proc, h \in Handle : <<q, h>> \in Slot
  BY DEF Slot
<1>b. NoOp.op # "put"
  BY DEF NoOp
<1>1. ASSUME NEW p \in Proc, ExclMaster(p)  PROVE Control'
  BY <1>1, <1>0 DEF ExclMaster
<1>2. ASSUME NEW p \in Proc, ExclAcquire(p)  PROVE Control'
  BY <1>2, <1>0 DEF ExclAcquire
<1>3. ASSUME NEW p \in Proc, ExclBusy(p)  PROVE Control'
  BY <1>3, <1>0 DEF ExclBusy
<1>4. ASSUME NEW p \in Proc, ExclBackoff(p)  PROVE Control'
  BY <1>4, <1>0 DEF ExclBackoff
<1>5. ASSUME NEW p \in Proc, SharedGranted(p)  PROVE Control'
  BY <1>5, <1>0 DEF SharedGranted
<1>6. ASSUME NEW p \in Proc, AllGranted(p)  PROVE Control'
  BY <1>6, <1>0 DEF AllGranted
<1>7. ASSUME NEW p \in Proc, UnlockFlushed(p)  PROVE Control'
  BY <1>7, <1>0, <1>b DEF UnlockFlushed, FlushAll, Quiet
<1>8. ASSUME NEW p \in Proc, ReleaseTarget(p)  PROVE Control'
  <2>1. local_exclusive_count[p] = 1 <=> excl_locks[p] \ {rank[p]} = {}
    <3>1. rank[p] \in excl_locks[p] /\ excl_locks[p] \subseteq Target
      BY <1>8, <1>0 DEF ReleaseTarget
    <3>2. Cardinality(excl_locks[p] \ {rank[p]}) = Cardinality(excl_locks[p]) - 1
      BY <3>1, TargetSets, OneLess
    <3>. QED  BY SMTT(60), <1>0, <3>1, <3>2, TargetSets DEF CountMatchesList
  <2>. QED  BY <1>8, <1>0, <2>1 DEF ReleaseTarget
<1>9. ASSUME NEW p \in Proc, ReleaseMaster(p)  PROVE Control'
  BY <1>9, <1>0, <1>a DEF ReleaseMaster, Issue
<1>10. ASSUME NEW p \in Proc, ReleaseShared(p)  PROVE Control'
  BY <1>10, <1>0, <1>a DEF ReleaseShared, Issue
<1>11. ASSUME NEW p \in Proc, UnlockAllFlushed(p)  PROVE Control'
  BY <1>11, <1>0, <1>b DEF UnlockAllFlushed, FlushAll, Quiet
<1>12. ASSUME NEW p \in Proc, ReleaseAll(p)  PROVE Control'
  BY <1>12, <1>0, <1>a DEF ReleaseAll, Issue
<1>13. ASSUME NEW p \in Proc, LockAll(p)  PROVE Control'
  BY <1>13, <1>0 DEF LockAll
<1>14. ASSUME NEW p \in Proc, UnlockAll(p)  PROVE Control'
  BY <1>14, <1>0 DEF UnlockAll
<1>15. ASSUME NEW p \in Proc, Flush(p)  PROVE Control'
  BY <1>15, <1>0, <1>b DEF Flush, FlushAll, Quiet
<1>16. ASSUME NEW p \in Proc, NEW t \in Target, LockExclusive(p, t)  PROVE Control'
  BY <1>16, <1>0, TargetSets DEF LockExclusive, MayLock, CountMatchesList
<1>17. ASSUME NEW p \in Proc, NEW t \in Target, LockShared(p, t)  PROVE Control'
  BY <1>17, <1>0 DEF LockShared, MayLock
<1>18. ASSUME NEW p \in Proc, NEW t \in Target, Put(p, t)  PROVE Control'
  BY <1>18, <1>0, <1>a DEF Put, Issue
<1>19. ASSUME NEW p \in Proc, NEW t \in Target, Unlock(p, t)  PROVE Control'
  BY <1>19, <1>0 DEF Unlock
<1>20. ASSUME NEW p \in Proc, NEW h \in Handle, Deliver(p, h)  PROVE Control'
  BY <1>20, <1>0, <1>a, <1>b DEF Deliver
<1>21. CASE UNCHANGED vars
  BY <1>21, <1>0 DEF vars
<1>. QED
  BY <1>1, <1>2, <1>3, <1>4, <1>5, <1>6, <1>7, <1>8, <1>9, <1>10, <1>11,
     <1>12, <1>13, <1>14, <1>15, <1>16, <1>17, <1>18, <1>19, <1>20, <1>21
     DEF Next, CallStep, ProgramStep, SpinAgain

(* A request in flight stays one its issuer could have issued.             *)
LEMMA RequestsStep ==
  ASSUME IInv, [Next]_vars
  PROVE  Requests'
<1>0. TypeOK /\ Control /\ Requests
  BY DEF IInv
<1>. USE DEF TypeOK, At, lockVars, heldVars, Requests
<1>a. \A q \in Proc, h \in Handle : <<q, h>> \in Slot
  BY DEF Slot
<1>b. NoOp.op = "none"
  BY DEF NoOp
<1>1. ASSUME NEW p \in Proc, ExclMaster(p)  PROVE Requests'
  BY <1>1, <1>0 DEF ExclMaster
<1>2. ASSUME NEW p \in Proc, ExclAcquire(p)  PROVE Requests'
  BY <1>2, <1>0 DEF ExclAcquire
<1>3. ASSUME NEW p \in Proc, ExclBusy(p)  PROVE Requests'
  BY <1>3, <1>0 DEF ExclBusy
<1>4. ASSUME NEW p \in Proc, ExclBackoff(p)  PROVE Requests'
  BY <1>4, <1>0 DEF ExclBackoff
<1>5. ASSUME NEW p \in Proc, SharedGranted(p)  PROVE Requests'
  BY <1>5, <1>0 DEF SharedGranted
<1>6. ASSUME NEW p \in Proc, AllGranted(p)  PROVE Requests'
  BY <1>6, <1>0 DEF AllGranted
<1>7. ASSUME NEW p \in Proc, UnlockFlushed(p)  PROVE Requests'
  BY <1>7, <1>0 DEF UnlockFlushed
<1>8. ASSUME NEW p \in Proc, ReleaseTarget(p)  PROVE Requests'
  BY <1>8, <1>0 DEF ReleaseTarget
<1>9. ASSUME NEW p \in Proc, ReleaseMaster(p)  PROVE Requests'
  BY <1>9, <1>0, <1>a DEF ReleaseMaster, Issue
<1>10. ASSUME NEW p \in Proc, ReleaseShared(p)  PROVE Requests'
  BY <1>10, <1>0, <1>a DEF ReleaseShared, Issue, Control
<1>11. ASSUME NEW p \in Proc, UnlockAllFlushed(p)  PROVE Requests'
  BY <1>11, <1>0 DEF UnlockAllFlushed
<1>12. ASSUME NEW p \in Proc, ReleaseAll(p)  PROVE Requests'
  BY <1>12, <1>0, <1>a DEF ReleaseAll, Issue
<1>13. ASSUME NEW p \in Proc, LockAll(p)  PROVE Requests'
  BY <1>13, <1>0 DEF LockAll
<1>14. ASSUME NEW p \in Proc, UnlockAll(p)  PROVE Requests'
  BY <1>14, <1>0 DEF UnlockAll
<1>15. ASSUME NEW p \in Proc, Flush(p)  PROVE Requests'
  BY <1>15, <1>0 DEF Flush
<1>16. ASSUME NEW p \in Proc, NEW t \in Target, LockExclusive(p, t)  PROVE Requests'
  BY <1>16, <1>0 DEF LockExclusive
<1>17. ASSUME NEW p \in Proc, NEW t \in Target, LockShared(p, t)  PROVE Requests'
  BY <1>17, <1>0 DEF LockShared
<1>18. ASSUME NEW p \in Proc, NEW t \in Target, Put(p, t)  PROVE Requests'
  BY <1>18, <1>0, <1>a DEF Put, Issue
<1>19. ASSUME NEW p \in Proc, NEW t \in Target, Unlock(p, t)  PROVE Requests'
  BY <1>19, <1>0 DEF Unlock
<1>20. ASSUME NEW p \in Proc, NEW h \in Handle, Deliver(p, h)  PROVE Requests'
  BY <1>20, <1>0, <1>a, <1>b DEF Deliver
<1>21. CASE UNCHANGED vars
  BY <1>21, <1>0 DEF vars
<1>. QED
  BY <1>1, <1>2, <1>3, <1>4, <1>5, <1>6, <1>7, <1>8, <1>9, <1>10, <1>11,
     <1>12, <1>13, <1>14, <1>15, <1>16, <1>17, <1>18, <1>19, <1>20, <1>21
     DEF Next, CallStep, ProgramStep, SpinAgain

(* A put in flight stays under a lock of its issuer.                       *)
LEMMA CoveredStep ==
  ASSUME IInv, [Next]_vars
  PROVE  PutsCovered'
<1>0. TypeOK /\ Control /\ Requests /\ PutsCovered
  BY DEF IInv
<1>. USE DEF TypeOK, At, lockVars, heldVars, PutsCovered, Covers
<1>a. \A q \in Proc, h \in Handle : <<q, h>> \in Slot
  BY DEF Slot
<1>b. NoOp.op = "none"
  BY DEF NoOp
<1>1. ASSUME NEW p \in Proc, ExclMaster(p)  PROVE PutsCovered'
  BY <1>1, <1>0 DEF ExclMaster
<1>2. ASSUME NEW p \in Proc, ExclAcquire(p)  PROVE PutsCovered'
  BY <1>2, <1>0 DEF ExclAcquire
<1>3. ASSUME NEW p \in Proc, ExclBusy(p)  PROVE PutsCovered'
  BY <1>3, <1>0 DEF ExclBusy
<1>4. ASSUME NEW p \in Proc, ExclBackoff(p)  PROVE PutsCovered'
  BY <1>4, <1>0 DEF ExclBackoff
<1>5. ASSUME NEW p \in Proc, SharedGranted(p)  PROVE PutsCovered'
  BY <1>5, <1>0 DEF SharedGranted
<1>6. ASSUME NEW p \in Proc, AllGranted(p)  PROVE PutsCovered'
  BY <1>6, <1>0 DEF AllGranted
<1>7. ASSUME NEW p \in Proc, UnlockFlushed(p)  PROVE PutsCovered'
  BY <1>7, <1>0 DEF UnlockFlushed
<1>8. ASSUME NEW p \in Proc, ReleaseTarget(p)  PROVE PutsCovered'
  BY <1>8, <1>0 DEF ReleaseTarget, Control, NoPut
<1>9. ASSUME NEW p \in Proc, ReleaseMaster(p)  PROVE PutsCovered'
  BY <1>9, <1>0, <1>a DEF ReleaseMaster, Issue
<1>10. ASSUME NEW p \in Proc, ReleaseShared(p)  PROVE PutsCovered'
  BY <1>10, <1>0, <1>a DEF ReleaseShared, Issue, Control, NoPut
<1>11. ASSUME NEW p \in Proc, UnlockAllFlushed(p)  PROVE PutsCovered'
  BY <1>11, <1>0 DEF UnlockAllFlushed
<1>12. ASSUME NEW p \in Proc, ReleaseAll(p)  PROVE PutsCovered'
  BY <1>12, <1>0, <1>a DEF ReleaseAll, Issue, Control, NoPut
<1>13. ASSUME NEW p \in Proc, LockAll(p)  PROVE PutsCovered'
  BY <1>13, <1>0 DEF LockAll
<1>14. ASSUME NEW p \in Proc, UnlockAll(p)  PROVE PutsCovered'
  BY <1>14, <1>0 DEF UnlockAll
<1>15. ASSUME NEW p \in Proc, Flush(p)  PROVE PutsCovered'
  BY <1>15, <1>0 DEF Flush
<1>16. ASSUME NEW p \in Proc, NEW t \in Target, LockExclusive(p, t)  PROVE PutsCovered'
  BY <1>16, <1>0 DEF LockExclusive
<1>17. ASSUME NEW p \in Proc, NEW t \in Target, LockShared(p, t)  PROVE PutsCovered'
  BY <1>17, <1>0 DEF LockShared
<1>18. ASSUME NEW p \in Proc, NEW t \in Target, Put(p, t)  PROVE PutsCovered'
  BY <1>18, <1>0, <1>a DEF Put, Issue
<1>19. ASSUME NEW p \in Proc, NEW t \in Target, Unlock(p, t)  PROVE PutsCovered'
  BY <1>19, <1>0 DEF Unlock
<1>20. ASSUME NEW p \in Proc, NEW h \in Handle, Deliver(p, h)  PROVE PutsCovered'
  BY <1>20, <1>0, <1>a, <1>b DEF Deliver
<1>21. CASE UNCHANGED vars
  BY <1>21, <1>0 DEF vars
<1>. QED
  BY <1>1, <1>2, <1>3, <1>4, <1>5, <1>6, <1>7, <1>8, <1>9, <1>10, <1>11,
     <1>12, <1>13, <1>14, <1>15, <1>16, <1>17, <1>18, <1>19, <1>20, <1>21
     DEF Next, CallStep, ProgramStep, SpinAgain

(* local_exclusive_count stays the number of exclusive locks in the list.  *)
LEMMA CountStep ==
  ASSUME IInv, [Next]_vars
  PROVE  CountMatchesList'
<1>0. TypeOK /\ Control /\ CountMatchesList
  BY DEF IInv
<1>. USE DEF TypeOK, At, lockVars, heldVars, CountMatchesList
<1>1. ASSUME NEW p \in Proc, ExclMaster(p)  PROVE CountMatchesList'
  BY <1>1, <1>0 DEF ExclMaster
<1>2. ASSUME NEW p \in Proc, ExclAcquire(p)  PROVE CountMatchesList'
  <2>1. rank[p] \in Target \ excl_locks[p]
    BY <1>2, <1>0 DEF ExclAcquire, Control
  <2>2. Cardinality(excl_locks[p] \cup {rank[p]}) = Cardinality(excl_locks[p]) + 1
    BY <1>0, <2>1, TargetSets, OneMore
  <2>. QED  BY <1>2, <1>0, <2>2 DEF ExclAcquire
<1>3. ASSUME NEW p \in Proc, ExclBusy(p)  PROVE CountMatchesList'
  BY <1>3, <1>0 DEF ExclBusy
<1>4. ASSUME NEW p \in Proc, ExclBackoff(p)  PROVE CountMatchesList'
  BY <1>4, <1>0 DEF ExclBackoff
<1>5. ASSUME NEW p \in Proc, SharedGranted(p)  PROVE CountMatchesList'
  BY <1>5, <1>0 DEF SharedGranted
<1>6. ASSUME NEW p \in Proc, AllGranted(p)  PROVE CountMatchesList'
  BY <1>6, <1>0 DEF AllGranted
<1>7. ASSUME NEW p \in Proc, UnlockFlushed(p)  PROVE CountMatchesList'
  BY <1>7, <1>0 DEF UnlockFlushed
<1>8. ASSUME NEW p \in Proc, ReleaseTarget(p)  PROVE CountMatchesList'
  <2>1. rank[p] \in excl_locks[p]
    BY <1>8, <1>0 DEF ReleaseTarget, Control
  <2>2. Cardinality(excl_locks[p] \ {rank[p]}) = Cardinality(excl_locks[p]) - 1
    BY <1>0, <2>1, TargetSets, OneLess
  <2>. QED  BY <1>8, <1>0, <2>2 DEF ReleaseTarget
<1>9. ASSUME NEW p \in Proc, ReleaseMaster(p)  PROVE CountMatchesList'
  BY <1>9, <1>0 DEF ReleaseMaster
<1>10. ASSUME NEW p \in Proc, ReleaseShared(p)  PROVE CountMatchesList'
  BY <1>10, <1>0 DEF ReleaseShared
<1>11. ASSUME NEW p \in Proc, UnlockAllFlushed(p)  PROVE CountMatchesList'
  BY <1>11, <1>0 DEF UnlockAllFlushed
<1>12. ASSUME NEW p \in Proc, ReleaseAll(p)  PROVE CountMatchesList'
  BY <1>12, <1>0 DEF ReleaseAll
<1>13. ASSUME NEW p \in Proc, LockAll(p)  PROVE CountMatchesList'
  BY <1>13, <1>0 DEF LockAll
<1>14. ASSUME NEW p \in Proc, UnlockAll(p)  PROVE CountMatchesList'
  BY <1>14, <1>0 DEF UnlockAll
<1>15. ASSUME NEW p \in Proc, Flush(p)  PROVE CountMatchesList'
  BY <1>15, <1>0 DEF Flush
<1>16. ASSUME NEW p \in Proc, NEW t \in Target, LockExclusive(p, t)  PROVE CountMatchesList'
  BY <1>16, <1>0 DEF LockExclusive
<1>17. ASSUME NEW p \in Proc, NEW t \in Target, LockShared(p, t)  PROVE CountMatchesList'
  BY <1>17, <1>0 DEF LockShared
<1>18. ASSUME NEW p \in Proc, NEW t \in Target, Put(p, t)  PROVE CountMatchesList'
  BY <1>18, <1>0 DEF Put
<1>19. ASSUME NEW p \in Proc, NEW t \in Target, Unlock(p, t)  PROVE CountMatchesList'
  BY <1>19, <1>0 DEF Unlock
<1>20. ASSUME NEW p \in Proc, NEW h \in Handle, Deliver(p, h)  PROVE CountMatchesList'
  BY <1>20, <1>0 DEF Deliver
<1>21. CASE UNCHANGED vars
  BY <1>21, <1>0 DEF vars
<1>. QED
  BY <1>1, <1>2, <1>3, <1>4, <1>5, <1>6, <1>7, <1>8, <1>9, <1>10, <1>11,
     <1>12, <1>13, <1>14, <1>15, <1>16, <1>17, <1>18, <1>19, <1>20, <1>21
     DEF Next, CallStep, ProgramStep, SpinAgain

(* A zero half of the master's word says that nobody is counted there.     *)
LEMMA MasterCounts ==
  ASSUME IInv
  PROVE  /\ lock_all_mutex.lo = 0 => ExclCounted = {}
         /\ all_locked # {} => lock_all_mutex.hi # 0
<1>1. /\ Cardinality(ExclCounted) \in Nat /\ Cardinality(AllCounted) \in Nat
      /\ Cardinality(ExclCounted) = 0 <=> ExclCounted = {}
      /\ Cardinality(AllCounted) = 0 <=> AllCounted = {}
  BY Subsets, ProcSets
<1>2. \A op : Cardinality(InFlight(op)) \in Nat
  BY Subsets, SlotSets
<1>3. all_locked # {} => AllCounted # {}
  BY DEF IInv, TypeOK, AllCounted
<1>. QED  BY <1>1, <1>2, <1>3 DEF IInv, WordsAccounted, LowAccounted, HighAccounted

(* Every step keeps ranks, and the window as a whole, exclusive.           *)
LEMMA ExclusionStep ==
  ASSUME IInv, [Next]_vars
  PROVE  (MutualExclusion /\ AllExcludes)'
<1>0. TypeOK /\ Control /\ MutualExclusion /\ AllExcludes
  BY DEF IInv
<1>. USE DEF TypeOK, At, lockVars, heldVars, PcStates, AllExcludes, MutualExclusion,
             ExclHolders, SharedHolders
<1>1. ASSUME NEW p \in Proc, ExclMaster(p)  PROVE (MutualExclusion /\ AllExcludes)'
  <2>1. all_locked # {} => lock_all_mutex.hi # 0
    BY MasterCounts
  <2>. QED  BY <1>1, <1>0, <2>1 DEF ExclMaster
<1>2. ASSUME NEW p \in Proc, ExclAcquire(p)  PROVE (MutualExclusion /\ AllExcludes)'
  <2>1. rank[p] \in Target
    BY <1>2, <1>0 DEF ExclAcquire, Control
  <2>2. ExclHolders(rank[p]) = {} /\ SharedCounted(rank[p]) = {}
    BY <1>2, <2>1, WordPositive DEF ExclAcquire
  <2>3. SharedHolders(rank[p]) = {}
    BY <2>2 DEF SharedCounted
  <2>4. all_locked = {}
    BY <1>2, <1>0 DEF ExclAcquire, Control
  <2>. QED  BY <1>2, <1>0, <2>1, <2>2, <2>3, <2>4 DEF ExclAcquire
<1>3. ASSUME NEW p \in Proc, ExclBusy(p)  PROVE (MutualExclusion /\ AllExcludes)'
  BY <1>3, <1>0 DEF ExclBusy
<1>4. ASSUME NEW p \in Proc, ExclBackoff(p)  PROVE (MutualExclusion /\ AllExcludes)'
  BY <1>4, <1>0 DEF ExclBackoff
<1>5. ASSUME NEW p \in Proc, SharedGranted(p)  PROVE (MutualExclusion /\ AllExcludes)'
  <2>1. rank[p] \in Target
    BY <1>5, <1>0 DEF SharedGranted, Control
  <2>2. ExclHolders(rank[p]) = {}
    BY <1>5, <2>1, WordPositive DEF SharedGranted
  <2>. QED  BY <1>5, <1>0, <2>1, <2>2 DEF SharedGranted
<1>6. ASSUME NEW p \in Proc, AllGranted(p)  PROVE (MutualExclusion /\ AllExcludes)'
  <2>1. ExclCounted = {}
    BY <1>6, MasterCounts DEF AllGranted
  <2>. QED  BY <1>6, <1>0, <2>1 DEF AllGranted, ExclCounted
<1>7. ASSUME NEW p \in Proc, UnlockFlushed(p)  PROVE (MutualExclusion /\ AllExcludes)'
  BY <1>7, <1>0 DEF UnlockFlushed
<1>8. ASSUME NEW p \in Proc, ReleaseTarget(p)  PROVE (MutualExclusion /\ AllExcludes)'
  BY <1>8, <1>0 DEF ReleaseTarget
<1>9. ASSUME NEW p \in Proc, ReleaseMaster(p)  PROVE (MutualExclusion /\ AllExcludes)'
  BY <1>9, <1>0 DEF ReleaseMaster
<1>10. ASSUME NEW p \in Proc, ReleaseShared(p)  PROVE (MutualExclusion /\ AllExcludes)'
  BY <1>10, <1>0 DEF ReleaseShared
<1>11. ASSUME NEW p \in Proc, UnlockAllFlushed(p)  PROVE (MutualExclusion /\ AllExcludes)'
  BY <1>11, <1>0 DEF UnlockAllFlushed
<1>12. ASSUME NEW p \in Proc, ReleaseAll(p)  PROVE (MutualExclusion /\ AllExcludes)'
  BY <1>12, <1>0 DEF ReleaseAll
<1>13. ASSUME NEW p \in Proc, LockAll(p)  PROVE (MutualExclusion /\ AllExcludes)'
  <2>1. lock_all_mutex.lo = 0 => ExclCounted = {}
    BY MasterCounts
  <2>. QED  BY <1>13, <1>0, <2>1 DEF LockAll, ExclCounted
<1>14. ASSUME NEW p \in Proc, UnlockAll(p)  PROVE (MutualExclusion /\ AllExcludes)'
  BY <1>14, <1>0 DEF UnlockAll
<1>15. ASSUME NEW p \in Proc, Flush(p)  PROVE (MutualExclusion /\ AllExcludes)'
  BY <1>15, <1>0 DEF Flush
<1>16. ASSUME NEW p \in Proc, NEW t \in Target, LockExclusive(p, t)  PROVE (MutualExclusion /\ AllExcludes)'
  BY <1>16, <1>0 DEF LockExclusive
<1>17. ASSUME NEW p \in Proc, NEW t \in Target, LockShared(p, t)  PROVE (MutualExclusion /\ AllExcludes)'
  <2>1. lock_mutex[t] % 2 = 0 => ExclHolders(t) = {}
    BY WordPositive
  <2>. QED  BY <1>17, <1>0, <2>1 DEF LockShared
<1>18. ASSUME NEW p \in Proc, NEW t \in Target, Put(p, t)  PROVE (MutualExclusion /\ AllExcludes)'
  BY <1>18, <1>0 DEF Put
<1>19. ASSUME NEW p \in Proc, NEW t \in Target, Unlock(p, t)  PROVE (MutualExclusion /\ AllExcludes)'
  BY <1>19, <1>0 DEF Unlock
<1>20. ASSUME NEW p \in Proc, NEW h \in Handle, Deliver(p, h)  PROVE (MutualExclusion /\ AllExcludes)'
  BY <1>20, <1>0 DEF Deliver
<1>21. CASE UNCHANGED vars
  BY <1>21, <1>0 DEF vars
<1>. QED
  BY <1>1, <1>2, <1>3, <1>4, <1>5, <1>6, <1>7, <1>8, <1>9, <1>10, <1>11,
     <1>12, <1>13, <1>14, <1>15, <1>16, <1>17, <1>18, <1>19, <1>20, <1>21
     DEF Next, CallStep, ProgramStep, SpinAgain

(* Processes and requests together do not fill a half of the word.         *)
LEMMA MasterBounds ==
  ASSUME IInv, NEW S \in SUBSET Proc, NEW R \in SUBSET Slot
  PROVE  Cardinality(S) + Cardinality(R) \in 0 .. Half - 1
<1>1. /\ Cardinality(S) \in Nat /\ Cardinality(S) <= Cardinality(Proc)
      /\ Cardinality(Proc) \in Nat
  BY ProcSets
<1>2. /\ Cardinality(R) \in Nat /\ Cardinality(R) <= Cardinality(Slot)
      /\ Cardinality(Slot) \in Nat
  BY SlotSets
<1>. QED  BY <1>1, <1>2, HalfType

(* The steps that change the low half change it by one and leave the high  *)
(* half alone.                                                             *)
LEMMA RequestCounted ==
  ASSUME IInv, NEW p \in Proc, ExclMaster(p)
  PROVE  /\ lock_all_mutex' = [lo |-> lock_all_mutex.lo + 1, hi |-> lock_all_mutex.hi]
         /\ Cardinality(ExclCounted') = Cardinality(ExclCounted) + 1
<1>1. p \notin ExclCounted /\ ExclCounted' = ExclCounted \cup {p}
  BY DEF ExclMaster, At, IInv, TypeOK, Control, ExclCounted, heldVars
<1>2. Cardinality(ExclCounted') = Cardinality(ExclCounted) + 1
  BY <1>1, Subsets, ProcSets, OneMore
<1>3. lock_all_mutex.lo + 1 = Cardinality(ExclCounted') + Cardinality(InFlight("rel_excl"))
  <2>1. Cardinality(ExclCounted) \in Nat /\ Cardinality(InFlight("rel_excl")) \in Nat
    BY Subsets, ProcSets, SlotSets
  <2>. QED  BY <1>2, <2>1 DEF IInv, WordsAccounted, LowAccounted
<1>4. lock_all_mutex.lo + 1 \in 0 .. Half - 1
  <2>1. ExclCounted' \subseteq Proc
    BY <1>1, Subsets
  <2>. QED  BY <1>3, <2>1, MasterBounds, Subsets
<1>5. lock_all_mutex \in Word
  BY DEF IInv, TypeOK, Word
<1>. QED  BY <1>2, <1>4, <1>5, NoCarry DEF ExclMaster

(* A back-off takes one from the low half and one process from those       *)
(* counted.                                                                *)
LEMMA BackoffCounted ==
  ASSUME IInv, NEW p \in Proc, ExclBackoff(p)
  PROVE  /\ lock_all_mutex' = [lo |-> lock_all_mutex.lo - 1, hi |-> lock_all_mutex.hi]
         /\ Cardinality(ExclCounted') = Cardinality(ExclCounted) - 1
<1>1. p \in ExclCounted /\ ExclCounted' = ExclCounted \ {p}
  BY DEF ExclBackoff, At, IInv, TypeOK, Control, ExclCounted, heldVars
<1>2. Cardinality(ExclCounted') = Cardinality(ExclCounted) - 1
  BY <1>1, Subsets, ProcSets, OneLess
<1>3. lock_all_mutex.lo - 1 = Cardinality(ExclCounted') + Cardinality(InFlight("rel_excl"))
  <2>1. Cardinality(ExclCounted) \in Nat /\ Cardinality(InFlight("rel_excl")) \in Nat
    BY Subsets, ProcSets, SlotSets
  <2>. QED  BY <1>2, <2>1 DEF IInv, WordsAccounted, LowAccounted
<1>4. lock_all_mutex.lo - 1 \in 0 .. Half - 1
  <2>1. ExclCounted' \subseteq Proc
    BY <1>1, Subsets
  <2>. QED  BY <1>3, <2>1, MasterBounds, Subsets
<1>5. lock_all_mutex \in Word /\ lock_all_mutex.lo + (-1) = lock_all_mutex.lo - 1
  BY HalfType DEF IInv, TypeOK, Word
<1>. QED  BY <1>2, <1>4, <1>5, NoCarry DEF ExclBackoff

(* lock_all adds one to the high half and one process to those counted.    *)
LEMMA LockAllCounted ==
  ASSUME IInv, NEW p \in Proc, LockAll(p)
  PROVE  /\ lock_all_mutex' = [lo |-> lock_all_mutex.lo, hi |-> lock_all_mutex.hi + 1]
         /\ Cardinality(AllCounted') = Cardinality(AllCounted) + 1
<1>1. p \notin AllCounted /\ AllCounted' = AllCounted \cup {p}
  BY DEF LockAll, IInv, TypeOK, AllCounted
<1>2. Cardinality(AllCounted') = Cardinality(AllCounted) + 1
  BY <1>1, Subsets, ProcSets, OneMore
<1>3. lock_all_mutex.hi + 1 = Cardinality(AllCounted') + Cardinality(InFlight("rel_all"))
  <2>1. Cardinality(AllCounted) \in Nat /\ Cardinality(InFlight("rel_all")) \in Nat
    BY Subsets, ProcSets, SlotSets
  <2>. QED  BY <1>2, <2>1 DEF IInv, WordsAccounted, HighAccounted
<1>4. lock_all_mutex.hi + 1 \in 0 .. Half - 1
  <2>1. AllCounted' \subseteq Proc
    BY <1>1, Subsets
  <2>. QED  BY <1>3, <2>1, MasterBounds, Subsets
<1>5. lock_all_mutex \in Word
  BY DEF IInv, TypeOK, Word
<1>. QED  BY <1>2, <1>4, <1>5, NoCarry DEF LockAll

(* A release that takes effect takes from the master what it stood for.    *)
LEMMA MasterReleased ==
  ASSUME IInv, NEW p \in Proc, NEW h \in Handle, Deliver(p, h)
  PROVE  /\ Cardinality(InFlight("rel_excl")') \in Nat
         /\ Cardinality(InFlight("rel_all")') \in Nat
         /\ lock_all_mutex.lo - lock_all_mutex'.lo
              = Cardinality(InFlight("rel_excl")) - Cardinality(InFlight("rel_excl")')
         /\ lock_all_mutex.hi - lock_all_mutex'.hi
              = Cardinality(InFlight("rel_all")) - Cardinality(InFlight("rel_all")')
<1>. PICK s \in Slot : s = <<p, h>>
  BY DEF Slot
<1>. PICK op, t : op = net[s].op /\ t = net[s].tgt
  OBVIOUS
<1>0. TypeOK /\ Requests /\ LowAccounted /\ HighAccounted /\ lock_all_mutex \in Word
  BY DEF IInv, TypeOK, Word, WordsAccounted
<1>1. /\ op \in Ops /\ s \in InFlight(op) /\ InFlight(op)' = InFlight(op) \ {s}
      /\ \A o \in Ops : o # op => InFlight(o)' = InFlight(o)
  BY <1>0, DeliverRemoves
<1>2. \A o : InFlight(o) \in SUBSET Slot
  BY Subsets
<1>3. \A o \in Ops : InFlight(o)' \in SUBSET Slot
  BY <1>1, <1>2
<1>4. /\ \A o \in Ops : Cardinality(InFlight(o)) \in Nat /\ Cardinality(InFlight(o)') \in Nat
      /\ Cardinality(InFlight(op)') = Cardinality(InFlight(op)) - 1
  BY <1>1, <1>2, <1>3, SlotSets, OneLess
<1>5. {"rel_excl", "rel_all", "rel_shared", "put"} = Ops
  BY DEF Ops
<1>6. lock_all_mutex.lo \in Int /\ lock_all_mutex.hi \in Int
      /\ Cardinality(ExclCounted) \in Nat /\ Cardinality(AllCounted) \in Nat
  BY <1>0, HalfType, Subsets, ProcSets DEF Word
<1>7. CASE op = "rel_excl"
  <2>1. lock_all_mutex' = AddLo(lock_all_mutex, -1)
    BY <1>7 DEF Deliver
  <2>2. lock_all_mutex.lo + (-1) = Cardinality(ExclCounted) + Cardinality(InFlight("rel_excl")')
    BY <1>0, <1>4, <1>5, <1>6, <1>7 DEF LowAccounted
  <2>3. lock_all_mutex.lo + (-1) \in 0 .. Half - 1
    BY <1>3, <1>5, <2>2, MasterBounds, Subsets
  <2>4. lock_all_mutex' = [lo |-> lock_all_mutex.lo + (-1), hi |-> lock_all_mutex.hi]
    BY <1>0, <2>1, <2>3, NoCarry
  <2>5. InFlight("rel_all")' = InFlight("rel_all") /\ {"rel_excl", "rel_all"} \subseteq Ops
    BY <1>1, <1>5, <1>7
  <2>. QED  BY <1>4, <1>6, <1>7, <2>4, <2>5
<1>8. CASE op = "rel_all"
  <2>1. lock_all_mutex' = AddHi(lock_all_mutex, -1)
    BY <1>8 DEF Deliver
  <2>2. lock_all_mutex.hi + (-1) = Cardinality(AllCounted) + Cardinality(InFlight("rel_all")')
    BY <1>0, <1>4, <1>5, <1>6, <1>8 DEF HighAccounted
  <2>3. lock_all_mutex.hi + (-1) \in 0 .. Half - 1
    BY <1>3, <1>5, <2>2, MasterBounds, Subsets
  <2>4. lock_all_mutex' = [lo |-> lock_all_mutex.lo, hi |-> lock_all_mutex.hi + (-1)]
    BY <1>0, <2>1, <2>3, NoCarry
  <2>5. InFlight("rel_excl")' = InFlight("rel_excl") /\ {"rel_excl", "rel_all"} \subseteq Ops
    BY <1>1, <1>5, <1>8
  <2>. QED  BY <1>4, <1>6, <1>8, <2>4, <2>5
<1>9. CASE op \notin {"rel_excl", "rel_all"}
  <2>1. lock_all_mutex' = lock_all_mutex
    BY <1>9 DEF Deliver
  <2>2. /\ InFlight("rel_excl")' = InFlight("rel_excl") /\ InFlight("rel_all")' = InFlight("rel_all")
        /\ {"rel_excl", "rel_all"} \subseteq Ops
    BY <1>1, <1>5, <1>9
  <2>. QED  BY <1>4, <1>6, <2>1, <2>2
<1>. QED  BY <1>7, <1>8, <1>9

(* The low half stays the number of exclusive requests, holders and        *)
(* releases.                                                               *)
LEMMA LowStep ==
  ASSUME IInv, [Next]_vars
  PROVE  LowAccounted'
<1>0. TypeOK /\ Control /\ Requests /\ LowAccounted
  BY DEF IInv, WordsAccounted
<1>. USE DEF lockVars, heldVars
<1>a. Cardinality(ExclCounted) \in Nat /\ Cardinality(InFlight("rel_excl")) \in Nat
  BY Subsets, ProcSets, SlotSets
<1>1. ASSUME NEW p \in Proc, ExclMaster(p)  PROVE LowAccounted'
  <2>1. InFlight("rel_excl")' = InFlight("rel_excl")
    BY <1>1 DEF ExclMaster, InFlight
  <2>. QED  BY <1>1, <1>0, <1>a, <2>1, RequestCounted DEF LowAccounted
<1>2. ASSUME NEW p \in Proc, ExclAcquire(p)  PROVE LowAccounted'
  <2>1. InFlight("rel_excl")' = InFlight("rel_excl")
    BY <1>2 DEF ExclAcquire, InFlight
  <2>3. ExclCounted' = ExclCounted
    BY <1>2, <1>0 DEF ExclAcquire, ExclCounted, TypeOK, At, Control
  <2>. QED  BY <1>2, <1>0, <2>1, <2>3 DEF ExclAcquire, LowAccounted
<1>3. ASSUME NEW p \in Proc, ExclBusy(p)  PROVE LowAccounted'
  <2>1. InFlight("rel_excl")' = InFlight("rel_excl")
    BY <1>3 DEF ExclBusy, InFlight
  <2>3. ExclCounted' = ExclCounted
    BY <1>3, <1>0 DEF ExclBusy, ExclCounted, TypeOK, At, Control
  <2>. QED  BY <1>3, <1>0, <2>1, <2>3 DEF ExclBusy, LowAccounted
<1>4. ASSUME NEW p \in Proc, ExclBackoff(p)  PROVE LowAccounted'
  <2>1. InFlight("rel_excl")' = InFlight("rel_excl")
    BY <1>4 DEF ExclBackoff, InFlight
  <2>. QED  BY <1>4, <1>0, <1>a, <2>1, BackoffCounted DEF LowAccounted
<1>5. ASSUME NEW p \in Proc, SharedGranted(p)  PROVE LowAccounted'
  <2>1. InFlight("rel_excl")' = InFlight("rel_excl")
    BY <1>5 DEF SharedGranted, InFlight
  <2>3. ExclCounted' = ExclCounted
    BY <1>5, <1>0 DEF SharedGranted, ExclCounted, TypeOK, At, Control
  <2>. QED  BY <1>5, <1>0, <2>1, <2>3 DEF SharedGranted, LowAccounted
<1>6. ASSUME NEW p \in Proc, AllGranted(p)  PROVE LowAccounted'
  <2>1. InFlight("rel_excl")' = InFlight("rel_excl")
    BY <1>6 DEF AllGranted, InFlight
  <2>3. ExclCounted' = ExclCounted
    BY <1>6, <1>0 DEF AllGranted, ExclCounted, TypeOK, At, Control
  <2>. QED  BY <1>6, <1>0, <2>1, <2>3 DEF AllGranted, LowAccounted
<1>7. ASSUME NEW p \in Proc, UnlockFlushed(p)  PROVE LowAccounted'
  <2>1. InFlight("rel_excl")' = InFlight("rel_excl")
    BY <1>7 DEF UnlockFlushed, InFlight
  <2>3. ExclCounted' = ExclCounted
    BY <1>7, <1>0 DEF UnlockFlushed, ExclCounted, TypeOK, At, Control
  <2>. QED  BY <1>7, <1>0, <2>1, <2>3 DEF UnlockFlushed, LowAccounted
<1>8. ASSUME NEW p \in Proc, ReleaseTarget(p)  PROVE LowAccounted'
  <2>1. InFlight("rel_excl")' = InFlight("rel_excl")
    BY <1>8 DEF ReleaseTarget, InFlight
  <2>2. local_exclusive_count[p] = 1 <=> excl_locks[p] \ {rank[p]} = {}
    <3>1. rank[p] \in excl_locks[p] /\ excl_locks[p] \subseteq Target
      BY <1>8, <1>0 DEF ReleaseTarget, Control, At, TypeOK
    <3>2. Cardinality(excl_locks[p] \ {rank[p]}) = Cardinality(excl_locks[p]) - 1
      BY <3>1, TargetSets, OneLess
    <3>. QED  BY <1>0, <3>1, <3>2, TargetSets DEF IInv, CountMatchesList, TypeOK
  <2>3. ExclCounted' = ExclCounted
    BY <1>8, <1>0, <2>2 DEF ReleaseTarget, ExclCounted, TypeOK, At, Control
  <2>. QED  BY <1>8, <1>0, <2>1, <2>3 DEF ReleaseTarget, LowAccounted
<1>9. ASSUME NEW p \in Proc, ReleaseMaster(p)  PROVE LowAccounted'
  <2>1. PICK x \in Slot : /\ x \notin InFlight("rel_excl")
                          /\ InFlight("rel_excl")' = InFlight("rel_excl") \cup {x}
    BY <1>9, <1>0, IssueAdds DEF ReleaseMaster, Ops
  <2>2. p \in ExclCounted /\ ExclCounted' = ExclCounted \ {p}
    BY <1>9, <1>0 DEF ReleaseMaster, ExclCounted, TypeOK, At, Control
  <2>3. Cardinality(InFlight("rel_excl")') = Cardinality(InFlight("rel_excl")) + 1
    BY <2>1, Subsets, SlotSets, OneMore
  <2>4. Cardinality(ExclCounted') = Cardinality(ExclCounted) - 1
    BY <2>2, Subsets, ProcSets, OneLess
  <2>. QED  BY <1>9, <1>0, <1>a, <2>3, <2>4 DEF ReleaseMaster, LowAccounted
<1>10. ASSUME NEW p \in Proc, ReleaseShared(p)  PROVE LowAccounted'
  <2>0. PICK t \in Target : t = rank[p]
    BY <1>10, <1>0 DEF ReleaseShared, At, Control, TypeOK
  <2>1. InFlight("rel_excl")' = InFlight("rel_excl")
    BY <1>10, <1>0, <2>0, IssueAdds DEF ReleaseShared, Ops
  <2>3. ExclCounted' = ExclCounted
    BY <1>10, <1>0 DEF ReleaseShared, ExclCounted, TypeOK, At, Control
  <2>. QED  BY <1>10, <1>0, <2>1, <2>3 DEF ReleaseShared, LowAccounted
<1>11. ASSUME NEW p \in Proc, UnlockAllFlushed(p)  PROVE LowAccounted'
  <2>1. InFlight("rel_excl")' = InFlight("rel_excl")
    BY <1>11 DEF UnlockAllFlushed, InFlight
  <2>3. ExclCounted' = ExclCounted
    BY <1>11, <1>0 DEF UnlockAllFlushed, ExclCounted, TypeOK, At, Control
  <2>. QED  BY <1>11, <1>0, <2>1, <2>3 DEF UnlockAllFlushed, LowAccounted
<1>12. ASSUME NEW p \in Proc, ReleaseAll(p)  PROVE LowAccounted'
  <2>1. InFlight("rel_excl")' = InFlight("rel_excl")
    BY <1>12, <1>0, IssueAdds DEF ReleaseAll, Ops
  <2>3. ExclCounted' = ExclCounted
    BY <1>12, <1>0 DEF ReleaseAll, ExclCounted, TypeOK, At, Control
  <2>. QED  BY <1>12, <1>0, <2>1, <2>3 DEF ReleaseAll, LowAccounted
<1>13. ASSUME NEW p \in Proc, LockAll(p)  PROVE LowAccounted'
  <2>1. InFlight("rel_excl")' = InFlight("rel_excl")
    BY <1>13 DEF LockAll, InFlight
  <2>3. ExclCounted' = ExclCounted
    BY <1>13, <1>0 DEF LockAll, ExclCounted, TypeOK, At, Control
  <2>. QED  BY <1>13, <1>0, <2>1, <2>3, LockAllCounted DEF LowAccounted
<1>14. ASSUME NEW p \in Proc, UnlockAll(p)  PROVE LowAccounted'
  <2>1. InFlight("rel_excl")' = InFlight("rel_excl")
    BY <1>14 DEF UnlockAll, InFlight
  <2>3. ExclCounted' = ExclCounted
    BY <1>14, <1>0 DEF UnlockAll, ExclCounted, TypeOK, At, Control
  <2>. QED  BY <1>14, <1>0, <2>1, <2>3 DEF UnlockAll, LowAccounted
<1>15. ASSUME NEW p \in Proc, Flush(p)  PROVE LowAccounted'
  <2>1. InFlight("rel_excl")' = InFlight("rel_excl")
    BY <1>15 DEF Flush, InFlight
  <2>3. ExclCounted' = ExclCounted
    BY <1>15, <1>0 DEF Flush, ExclCounted, TypeOK, At, Control
  <2>. QED  BY <1>15, <1>0, <2>1, <2>3 DEF Flush, LowAccounted
<1>16. ASSUME NEW p \in Proc, NEW t \in Target, LockExclusive(p, t)  PROVE LowAccounted'
  <2>1. InFlight("rel_excl")' = InFlight("rel_excl")
    BY <1>16 DEF LockExclusive, InFlight
  <2>3. ExclCounted' = ExclCounted
    BY <1>16, <1>0 DEF LockExclusive, ExclCounted, TypeOK, At, Control, MayLock
  <2>. QED  BY <1>16, <1>0, <2>1, <2>3 DEF LockExclusive, LowAccounted
<1>17. ASSUME NEW p \in Proc, NEW t \in Target, LockShared(p, t)  PROVE LowAccounted'
  <2>1. InFlight("rel_excl")' = InFlight("rel_excl")
    BY <1>17 DEF LockShared, InFlight
  <2>3. ExclCounted' = ExclCounted
    BY <1>17, <1>0 DEF LockShared, ExclCounted, TypeOK, At, Control, MayLock
  <2>. QED  BY <1>17, <1>0, <2>1, <2>3 DEF LockShared, LowAccounted
<1>18. ASSUME NEW p \in Proc, NEW t \in Target, Put(p, t)  PROVE LowAccounted'
  <2>1. InFlight("rel_excl")' = InFlight("rel_excl")
    BY <1>18, <1>0, IssueAdds DEF Put, Ops
  <2>3. ExclCounted' = ExclCounted
    BY <1>18, <1>0 DEF Put, ExclCounted, TypeOK, At, Control
  <2>. QED  BY <1>18, <1>0, <2>1, <2>3 DEF Put, LowAccounted
<1>19. ASSUME NEW p \in Proc, NEW t \in Target, Unlock(p, t)  PROVE LowAccounted'
  <2>1. InFlight("rel_excl")' = InFlight("rel_excl")
    BY <1>19 DEF Unlock, InFlight
  <2>3. ExclCounted' = ExclCounted
    BY <1>19, <1>0 DEF Unlock, ExclCounted, TypeOK, At, Control
  <2>. QED  BY <1>19, <1>0, <2>1, <2>3 DEF Unlock, LowAccounted
<1>20. ASSUME NEW p \in Proc, NEW h \in Handle, Deliver(p, h)  PROVE LowAccounted'
  <2>1. ExclCounted' = ExclCounted
    BY <1>20, <1>0 DEF Deliver, ExclCounted
  <2>2. lock_all_mutex'.lo \in Int /\ lock_all_mutex.lo \in Int
    BY TypeStep, <1>0, HalfType DEF TypeOK
  <2>. QED  BY <1>20, <1>0, <1>a, <2>1, <2>2, MasterReleased DEF LowAccounted
<1>21. CASE UNCHANGED vars
  <2>1. InFlight("rel_excl")' = InFlight("rel_excl")
    BY <1>21 DEF vars, InFlight
  <2>3. ExclCounted' = ExclCounted
    BY <1>21, <1>0 DEF vars, ExclCounted, TypeOK, At, Control
  <2>. QED  BY <1>21, <1>0, <2>1, <2>3 DEF vars, LowAccounted
<1>. QED
  BY <1>1, <1>2, <1>3, <1>4, <1>5, <1>6, <1>7, <1>8, <1>9, <1>10, <1>11,
     <1>12, <1>13, <1>14, <1>15, <1>16, <1>17, <1>18, <1>19, <1>20, <1>21
     DEF Next, CallStep, ProgramStep, SpinAgain

(* The high half stays the number of lock_all requests, holders and        *)
(* releases.                                                               *)
LEMMA HighStep ==
  ASSUME IInv, [Next]_vars
  PROVE  HighAccounted'
<1>0. TypeOK /\ Control /\ Requests /\ HighAccounted
  BY DEF IInv, WordsAccounted
<1>. USE DEF lockVars, heldVars
<1>a. Cardinality(AllCounted) \in Nat /\ Cardinality(InFlight("rel_all")) \in Nat
  BY Subsets, ProcSets, SlotSets
<1>1. ASSUME NEW p \in Proc, ExclMaster(p)  PROVE HighAccounted'
  <2>1. InFlight("rel_all")' = InFlight("rel_all")
    BY <1>1 DEF ExclMaster, InFlight
  <2>3. AllCounted' = AllCounted
    BY <1>1, <1>0 DEF ExclMaster, AllCounted, TypeOK, At, Control
  <2>. QED  BY <1>1, <1>0, <2>1, <2>3, RequestCounted DEF HighAccounted
<1>2. ASSUME NEW p \in Proc, ExclAcquire(p)  PROVE HighAccounted'
  <2>1. InFlight("rel_all")' = InFlight("rel_all")
    BY <1>2 DEF ExclAcquire, InFlight
  <2>3. AllCounted' = AllCounted
    BY <1>2, <1>0 DEF ExclAcquire, AllCounted, TypeOK, At, Control
  <2>. QED  BY <1>2, <1>0, <2>1, <2>3 DEF ExclAcquire, HighAccounted
<1>3. ASSUME NEW p \in Proc, ExclBusy(p)  PROVE HighAccounted'
  <2>1. InFlight("rel_all")' = InFlight("rel_all")
    BY <1>3 DEF ExclBusy, InFlight
  <2>3. AllCounted' = AllCounted
    BY <1>3, <1>0 DEF ExclBusy, AllCounted, TypeOK, At, Control
  <2>. QED  BY <1>3, <1>0, <2>1, <2>3 DEF ExclBusy, HighAccounted
<1>4. ASSUME NEW p \in Proc, ExclBackoff(p)  PROVE HighAccounted'
  <2>1. InFlight("rel_all")' = InFlight("rel_all")
    BY <1>4 DEF ExclBackoff, InFlight
  <2>3. AllCounted' = AllCounted
    BY <1>4, <1>0 DEF ExclBackoff, AllCounted, TypeOK, At, Control
  <2>. QED  BY <1>4, <1>0, <2>1, <2>3, BackoffCounted DEF HighAccounted
<1>5. ASSUME NEW p \in Proc, SharedGranted(p)  PROVE HighAccounted'
  <2>1. InFlight("rel_all")' = InFlight("rel_all")
    BY <1>5 DEF SharedGranted, InFlight
  <2>3. AllCounted' = AllCounted
    BY <1>5, <1>0 DEF SharedGranted, AllCounted, TypeOK, At, Control
  <2>. QED  BY <1>5, <1>0, <2>1, <2>3 DEF SharedGranted, HighAccounted
<1>6. ASSUME NEW p \in Proc, AllGranted(p)  PROVE HighAccounted'
  <2>1. InFlight("rel_all")' = InFlight("rel_all")
    BY <1>6 DEF AllGranted, InFlight
  <2>3. AllCounted' = AllCounted
    BY <1>6, <1>0 DEF AllGranted, AllCounted, TypeOK, At, Control
  <2>. QED  BY <1>6, <1>0, <2>1, <2>3 DEF AllGranted, HighAccounted
<1>7. ASSUME NEW p \in Proc, UnlockFlushed(p)  PROVE HighAccounted'
  <2>1. InFlight("rel_all")' = InFlight("rel_all")
    BY <1>7 DEF UnlockFlushed, InFlight
  <2>3. AllCounted' = AllCounted
    BY <1>7, <1>0 DEF UnlockFlushed, AllCounted, TypeOK, At, Control
  <2>. QED  BY <1>7, <1>0, <2>1, <2>3 DEF UnlockFlushed, HighAccounted
<1>8. ASSUME NEW p \in Proc, ReleaseTarget(p)  PROVE HighAccounted'
  <2>1. InFlight("rel_all")' = InFlight("rel_all")
    BY <1>8 DEF ReleaseTarget, InFlight
  <2>3. AllCounted' = AllCounted
    BY <1>8, <1>0 DEF ReleaseTarget, AllCounted, TypeOK, At, Control
  <2>. QED  BY <1>8, <1>0, <2>1, <2>3 DEF ReleaseTarget, HighAccounted
<1>9. ASSUME NEW p \in Proc, ReleaseMaster(p)  PROVE HighAccounted'
  <2>1. InFlight("rel_all")' = InFlight("rel_all")
    BY <1>9, <1>0, IssueAdds DEF ReleaseMaster, Ops
  <2>3. AllCounted' = AllCounted
    BY <1>9, <1>0 DEF ReleaseMaster, AllCounted, TypeOK, At, Control
  <2>. QED  BY <1>9, <1>0, <2>1, <2>3 DEF ReleaseMaster, HighAccounted
<1>10. ASSUME NEW p \in Proc, ReleaseShared(p)  PROVE HighAccounted'
  <2>0. PICK t \in Target : t = rank[p]
    BY <1>10, <1>0 DEF ReleaseShared, At, Control, TypeOK
  <2>1. InFlight("rel_all")' = InFlight("rel_all")
    BY <1>10, <1>0, <2>0, IssueAdds DEF ReleaseShared, Ops
  <2>3. AllCounted' = AllCounted
    BY <1>10, <1>0 DEF ReleaseShared, AllCounted, TypeOK, At, Control
  <2>. QED  BY <1>10, <1>0, <2>1, <2>3 DEF ReleaseShared, HighAccounted
<1>11. ASSUME NEW p \in Proc, UnlockAllFlushed(p)  PROVE HighAccounted'
  <2>1. InFlight("rel_all")' = InFlight("rel_all")
    BY <1>11 DEF UnlockAllFlushed, InFlight
  <2>3. AllCounted' = AllCounted
    BY <1>11, <1>0 DEF UnlockAllFlushed, AllCounted, TypeOK, At, Control
  <2>. QED  BY <1>11, <1>0, <2>1, <2>3 DEF UnlockAllFlushed, HighAccounted
<1>12. ASSUME NEW p \in Proc, ReleaseAll(p)  PROVE HighAccounted'
  <2>1. PICK x \in Slot : /\ x \notin InFlight("rel_all")
                          /\ InFlight("rel_all")' = InFlight("rel_all") \cup {x}
    BY <1>12, <1>0, IssueAdds DEF ReleaseAll, Ops
  <2>2. p \in AllCounted /\ AllCounted' = AllCounted \ {p}
    BY <1>12, <1>0 DEF ReleaseAll, AllCounted, TypeOK, At, Control
  <2>3. Cardinality(InFlight("rel_all")') = Cardinality(InFlight("rel_all")) + 1
    BY <2>1, Subsets, SlotSets, OneMore
  <2>4. Cardinality(AllCounted') = Cardinality(AllCounted) - 1
    BY <2>2, Subsets, ProcSets, OneLess
  <2>. QED  BY <1>12, <1>0, <1>a, <2>3, <2>4 DEF ReleaseAll, HighAccounted
<1>13. ASSUME NEW p \in Proc, LockAll(p)  PROVE HighAccounted'
  <2>1. InFlight("rel_all")' = InFlight("rel_all")
    BY <1>13 DEF LockAll, InFlight
  <2>. QED  BY <1>13, <1>0, <1>a, <2>1, LockAllCounted DEF HighAccounted
<1>14. ASSUME NEW p \in Proc, UnlockAll(p)  PROVE HighAccounted'
  <2>1. InFlight("rel_all")' = InFlight("rel_all")
    BY <1>14 DEF UnlockAll, InFlight
  <2>3. AllCounted' = AllCounted
    BY <1>14, <1>0 DEF UnlockAll, AllCounted, TypeOK, At, Control
  <2>. QED  BY <1>14, <1>0, <2>1, <2>3 DEF UnlockAll, HighAccounted
<1>15. ASSUME NEW p \in Proc, Flush(p)  PROVE HighAccounted'
  <2>1. InFlight("rel_all")' = InFlight("rel_all")
    BY <1>15 DEF Flush, InFlight
  <2>3. AllCounted' = AllCounted
    BY <1>15, <1>0 DEF Flush, AllCounted, TypeOK, At, Control
  <2>. QED  BY <1>15, <1>0, <2>1, <2>3 DEF Flush, HighAccounted
<1>16. ASSUME NEW p \in Proc, NEW t \in Target, LockExclusive(p, t)  PROVE HighAccounted'
  <2>1. InFlight("rel_all")' = InFlight("rel_all")
    BY <1>16 DEF LockExclusive, InFlight
  <2>3. AllCounted' = AllCounted
    BY <1>16, <1>0 DEF LockExclusive, AllCounted, TypeOK, At, Control, MayLock
  <2>. QED  BY <1>16, <1>0, <2>1, <2>3 DEF LockExclusive, HighAccounted
<1>17. ASSUME NEW p \in Proc, NEW t \in Target, LockShared(p, t)  PROVE HighAccounted'
  <2>1. InFlight("rel_all")' = InFlight("rel_all")
    BY <1>17 DEF LockShared, InFlight
  <2>3. AllCounted' = AllCounted
    BY <1>17, <1>0 DEF LockShared, AllCounted, TypeOK, At, Control, MayLock
  <2>. QED  BY <1>17, <1>0, <2>1, <2>3 DEF LockShared, HighAccounted
<1>18. ASSUME NEW p \in Proc, NEW t \in Target, Put(p, t)  PROVE HighAccounted'
  <2>1. InFlight("rel_all")' = InFlight("rel_all")
    BY <1>18, <1>0, IssueAdds DEF Put, Ops
  <2>3. AllCounted' = AllCounted
    BY <1>18, <1>0 DEF Put, AllCounted, TypeOK, At, Control
  <2>. QED  BY <1>18, <1>0, <2>1, <2>3 DEF Put, HighAccounted
<1>19. ASSUME NEW p \in Proc, NEW t \in Target, Unlock(p, t)  PROVE HighAccounted'
  <2>1. InFlight("rel_all")' = InFlight("rel_all")
    BY <1>19 DEF Unlock, InFlight
  <2>3. AllCounted' = AllCounted
    BY <1>19, <1>0 DEF Unlock, AllCounted, TypeOK, At, Control
  <2>. QED  BY <1>19, <1>0, <2>1, <2>3 DEF Unlock, HighAccounted
<1>20. ASSUME NEW p \in Proc, NEW h \in Handle, Deliver(p, h)  PROVE HighAccounted'
  <2>1. AllCounted' = AllCounted
    BY <1>20, <1>0 DEF Deliver, AllCounted
  <2>2. lock_all_mutex'.hi \in Int /\ lock_all_mutex.hi \in Int
    BY TypeStep, <1>0, HalfType DEF TypeOK
  <2>. QED  BY <1>20, <1>0, <1>a, <2>1, <2>2, MasterReleased DEF HighAccounted
<1>21. CASE UNCHANGED vars
  <2>1. InFlight("rel_all")' = InFlight("rel_all")
    BY <1>21 DEF vars, InFlight
  <2>3. AllCounted' = AllCounted
    BY <1>21, <1>0 DEF vars, AllCounted, TypeOK, At, Control
  <2>. QED  BY <1>21, <1>0, <2>1, <2>3 DEF vars, HighAccounted
<1>. QED
  BY <1>1, <1>2, <1>3, <1>4, <1>5, <1>6, <1>7, <1>8, <1>9, <1>10, <1>11,
     <1>12, <1>13, <1>14, <1>15, <1>16, <1>17, <1>18, <1>19, <1>20, <1>21
     DEF Next, CallStep, ProgramStep, SpinAgain

(* A rank's word stays the sum of its holders, waiters and releases.       *)
LEMMA RanksStep ==
  ASSUME IInv, NEW u \in Target, [Next]_vars
  PROVE  RankAccounted(u)'
<1>0. TypeOK /\ Control /\ Requests /\ RankAccounted(u) /\ MutualExclusion
  BY DEF IInv, WordsAccounted
<1>. USE DEF lockVars, heldVars
<1>a. /\ Cardinality(SharedCounted(u)) \in Nat /\ Cardinality(InFlightTo("rel_shared", u)) \in Nat
      /\ lock_mutex[u] \in Nat
  BY <1>0, Subsets, ProcSets, SlotSets DEF TypeOK
<1>1. ASSUME NEW p \in Proc, ExclMaster(p)  PROVE RankAccounted(u)'
  <2>1. InFlightTo("rel_shared", u)' = InFlightTo("rel_shared", u)
    BY <1>1 DEF ExclMaster, InFlightTo, InFlight
  <2>2. SharedCounted(u)' = SharedCounted(u)
    BY <1>1, <1>0 DEF ExclMaster, SharedCounted, TypeOK, At, Control
  <2>3. ExclHolders(u)' = ExclHolders(u)
    BY <1>1, <1>0 DEF ExclMaster, ExclHolders, TypeOK
  <2>. QED  BY <1>1, <1>0, <2>1, <2>2, <2>3 DEF ExclMaster, RankAccounted
<1>2. ASSUME NEW p \in Proc, ExclAcquire(p)  PROVE RankAccounted(u)'
  <2>1. InFlightTo("rel_shared", u)' = InFlightTo("rel_shared", u)
    BY <1>2 DEF ExclAcquire, InFlightTo, InFlight
  <2>2. SharedCounted(u)' = SharedCounted(u)
    BY <1>2, <1>0 DEF ExclAcquire, SharedCounted, TypeOK, At, Control
  <2>3. CASE u = rank[p]
    <3>1. p \in ExclHolders(u)' /\ lock_mutex[u] = 0 /\ lock_mutex'[u] = 1
      BY <1>2, <1>0, <2>3 DEF ExclAcquire, ExclHolders, TypeOK
    <3>2. ExclHolders(u)' # {}
      BY <3>1
    <3>. QED  BY <1>0, <1>a, <2>1, <2>2, <3>1, <3>2 DEF RankAccounted
  <2>4. CASE u # rank[p]
    <3>1. ExclHolders(u)' = ExclHolders(u) /\ lock_mutex'[u] = lock_mutex[u]
      BY <1>2, <1>0, <2>4 DEF ExclAcquire, ExclHolders, TypeOK
    <3>. QED  BY <1>0, <2>1, <2>2, <3>1 DEF RankAccounted
  <2>. QED  BY <2>3, <2>4
<1>3. ASSUME NEW p \in Proc, ExclBusy(p)  PROVE RankAccounted(u)'
  <2>1. InFlightTo("rel_shared", u)' = InFlightTo("rel_shared", u)
    BY <1>3 DEF ExclBusy, InFlightTo, InFlight
  <2>2. SharedCounted(u)' = SharedCounted(u)
    BY <1>3, <1>0 DEF ExclBusy, SharedCounted, TypeOK, At, Control
  <2>3. ExclHolders(u)' = ExclHolders(u)
    BY <1>3, <1>0 DEF ExclBusy, ExclHolders, TypeOK
  <2>. QED  BY <1>3, <1>0, <2>1, <2>2, <2>3 DEF ExclBusy, RankAccounted
<1>4. ASSUME NEW p \in Proc, ExclBackoff(p)  PROVE RankAccounted(u)'
  <2>1. InFlightTo("rel_shared", u)' = InFlightTo("rel_shared", u)
    BY <1>4 DEF ExclBackoff, InFlightTo, InFlight
  <2>2. SharedCounted(u)' = SharedCounted(u)
    BY <1>4, <1>0 DEF ExclBackoff, SharedCounted, TypeOK, At, Control
  <2>3. ExclHolders(u)' = ExclHolders(u)
    BY <1>4, <1>0 DEF ExclBackoff, ExclHolders, TypeOK
  <2>. QED  BY <1>4, <1>0, <2>1, <2>2, <2>3 DEF ExclBackoff, RankAccounted
<1>5. ASSUME NEW p \in Proc, SharedGranted(p)  PROVE RankAccounted(u)'
  <2>1. InFlightTo("rel_shared", u)' = InFlightTo("rel_shared", u)
    BY <1>5 DEF SharedGranted, InFlightTo, InFlight
  <2>2. SharedCounted(u)' = SharedCounted(u)
    BY <1>5, <1>0 DEF SharedGranted, SharedCounted, TypeOK, At, Control
  <2>3. ExclHolders(u)' = ExclHolders(u)
    BY <1>5, <1>0 DEF SharedGranted, ExclHolders, TypeOK
  <2>. QED  BY <1>5, <1>0, <2>1, <2>2, <2>3 DEF SharedGranted, RankAccounted
<1>6. ASSUME NEW p \in Proc, AllGranted(p)  PROVE RankAccounted(u)'
  <2>1. InFlightTo("rel_shared", u)' = InFlightTo("rel_shared", u)
    BY <1>6 DEF AllGranted, InFlightTo, InFlight
  <2>2. SharedCounted(u)' = SharedCounted(u)
    BY <1>6, <1>0 DEF AllGranted, SharedCounted, TypeOK, At, Control
  <2>3. ExclHolders(u)' = ExclHolders(u)
    BY <1>6, <1>0 DEF AllGranted, ExclHolders, TypeOK
  <2>. QED  BY <1>6, <1>0, <2>1, <2>2, <2>3 DEF AllGranted, RankAccounted
<1>7. ASSUME NEW p \in Proc, UnlockFlushed(p)  PROVE RankAccounted(u)'
  <2>1. InFlightTo("rel_shared", u)' = InFlightTo("rel_shared", u)
    BY <1>7 DEF UnlockFlushed, InFlightTo, InFlight
  <2>2. SharedCounted(u)' = SharedCounted(u)
    BY <1>7, <1>0 DEF UnlockFlushed, SharedCounted, TypeOK, At, Control
  <2>3. ExclHolders(u)' = ExclHolders(u)
    BY <1>7, <1>0 DEF UnlockFlushed, ExclHolders, TypeOK
  <2>. QED  BY <1>7, <1>0, <2>1, <2>2, <2>3 DEF UnlockFlushed, RankAccounted
<1>8. ASSUME NEW p \in Proc, ReleaseTarget(p)  PROVE RankAccounted(u)'
  <2>1. InFlightTo("rel_shared", u)' = InFlightTo("rel_shared", u)
    BY <1>8 DEF ReleaseTarget, InFlightTo, InFlight
  <2>2. SharedCounted(u)' = SharedCounted(u)
    BY <1>8, <1>0 DEF ReleaseTarget, SharedCounted, TypeOK, At, Control
  <2>3. CASE u = rank[p]
    <3>1. p \in ExclHolders(u)
      BY <1>8, <1>0, <2>3 DEF ReleaseTarget, At, Control, ExclHolders
    <3>2. ExclHolders(u) = {p}
      BY <1>0, <3>1 DEF MutualExclusion
    <3>3. ExclHolders(u)' = {}
      BY <1>8, <1>0, <2>3, <3>2 DEF ReleaseTarget, ExclHolders, TypeOK
    <3>4. lock_mutex'[u] = lock_mutex[u] - 1
      BY <1>8, <1>0, <2>3 DEF ReleaseTarget, TypeOK
    <3>5. ExclHolders(u) # {}
      BY <3>1
    <3>. QED  BY <1>0, <1>a, <2>1, <2>2, <3>3, <3>4, <3>5 DEF RankAccounted
  <2>4. CASE u # rank[p]
    <3>1. ExclHolders(u)' = ExclHolders(u) /\ lock_mutex'[u] = lock_mutex[u]
      BY <1>8, <1>0, <2>4 DEF ReleaseTarget, ExclHolders, TypeOK
    <3>. QED  BY <1>0, <2>1, <2>2, <3>1 DEF RankAccounted
  <2>. QED  BY <2>3, <2>4
<1>9. ASSUME NEW p \in Proc, ReleaseMaster(p)  PROVE RankAccounted(u)'
  <2>1. InFlightTo("rel_shared", u)' = InFlightTo("rel_shared", u)
    BY <1>9, <1>0, IssueAdds DEF ReleaseMaster, Ops
  <2>2. SharedCounted(u)' = SharedCounted(u)
    BY <1>9, <1>0 DEF ReleaseMaster, SharedCounted, TypeOK, At, Control
  <2>3. ExclHolders(u)' = ExclHolders(u)
    BY <1>9, <1>0 DEF ReleaseMaster, ExclHolders, TypeOK
  <2>. QED  BY <1>9, <1>0, <2>1, <2>2, <2>3 DEF ReleaseMaster, RankAccounted
<1>10. ASSUME NEW p \in Proc, ReleaseShared(p)  PROVE RankAccounted(u)'
  <2>0. PICK t \in Target : t = rank[p]
    BY <1>10, <1>0 DEF ReleaseShared, At, Control, TypeOK
  <2>1. ExclHolders(u)' = ExclHolders(u)
    BY <1>10, <1>0 DEF ReleaseShared, ExclHolders, TypeOK
  <2>2. lock_mutex'[u] = lock_mutex[u]
    BY <1>10 DEF ReleaseShared
  <2>3. CASE u = t
    <3>1. PICK x \in Slot : /\ x \notin InFlightTo("rel_shared", u)
                            /\ InFlightTo("rel_shared", u)' = InFlightTo("rel_shared", u) \cup {x}
      BY <1>10, <1>0, <2>0, <2>3, IssueAdds DEF ReleaseShared, Ops
    <3>2. p \in SharedCounted(u) /\ SharedCounted(u)' = SharedCounted(u) \ {p}
      BY <1>10, <1>0, <2>0, <2>3 DEF ReleaseShared, SharedCounted, TypeOK, At, Control
    <3>3. Cardinality(InFlightTo("rel_shared", u)') = Cardinality(InFlightTo("rel_shared", u)) + 1
      BY <3>1, Subsets, SlotSets, OneMore
    <3>4. Cardinality(SharedCounted(u)') = Cardinality(SharedCounted(u)) - 1
      BY <3>2, Subsets, ProcSets, OneLess
    <3>. QED  BY <1>0, <1>a, <2>1, <2>2, <3>3, <3>4 DEF RankAccounted
  <2>4. CASE u # t
    <3>1. InFlightTo("rel_shared", u)' = InFlightTo("rel_shared", u)
      BY <1>10, <1>0, <2>0, <2>4, IssueAdds DEF ReleaseShared, Ops
    <3>2. SharedCounted(u)' = SharedCounted(u)
      BY <1>10, <1>0, <2>0, <2>4 DEF ReleaseShared, SharedCounted, TypeOK, At, Control
    <3>. QED  BY <1>0, <2>1, <2>2, <3>1, <3>2 DEF RankAccounted
  <2>. QED  BY <2>3, <2>4
<1>11. ASSUME NEW p \in Proc, UnlockAllFlushed(p)  PROVE RankAccounted(u)'
  <2>1. InFlightTo("rel_shared", u)' = InFlightTo("rel_shared", u)
    BY <1>11 DEF UnlockAllFlushed, InFlightTo, InFlight
  <2>2. SharedCounted(u)' = SharedCounted(u)
    BY <1>11, <1>0 DEF UnlockAllFlushed, SharedCounted, TypeOK, At, Control
  <2>3. ExclHolders(u)' = ExclHolders(u)
    BY <1>11, <1>0 DEF UnlockAllFlushed, ExclHolders, TypeOK
  <2>. QED  BY <1>11, <1>0, <2>1, <2>2, <2>3 DEF UnlockAllFlushed, RankAccounted
<1>12. ASSUME NEW p \in Proc, ReleaseAll(p)  PROVE RankAccounted(u)'
  <2>1. InFlightTo("rel_shared", u)' = InFlightTo("rel_shared", u)
    BY <1>12, <1>0, IssueAdds DEF ReleaseAll, Ops
  <2>2. SharedCounted(u)' = SharedCounted(u)
    BY <1>12, <1>0 DEF ReleaseAll, SharedCounted, TypeOK, At, Control
  <2>3. ExclHolders(u)' = ExclHolders(u)
    BY <1>12, <1>0 DEF ReleaseAll, ExclHolders, TypeOK
  <2>. QED  BY <1>12, <1>0, <2>1, <2>2, <2>3 DEF ReleaseAll, RankAccounted
<1>13. ASSUME NEW p \in Proc, LockAll(p)  PROVE RankAccounted(u)'
  <2>1. InFlightTo("rel_shared", u)' = InFlightTo("rel_shared", u)
    BY <1>13 DEF LockAll, InFlightTo, InFlight
  <2>2. SharedCounted(u)' = SharedCounted(u)
    BY <1>13, <1>0 DEF LockAll, SharedCounted, TypeOK, At, Control
  <2>3. ExclHolders(u)' = ExclHolders(u)
    BY <1>13, <1>0 DEF LockAll, ExclHolders, TypeOK
  <2>. QED  BY <1>13, <1>0, <2>1, <2>2, <2>3 DEF LockAll, RankAccounted
<1>14. ASSUME NEW p \in Proc, UnlockAll(p)  PROVE RankAccounted(u)'
  <2>1. InFlightTo("rel_shared", u)' = InFlightTo("rel_shared", u)
    BY <1>14 DEF UnlockAll, InFlightTo, InFlight
  <2>2. SharedCounted(u)' = SharedCounted(u)
    BY <1>14, <1>0 DEF UnlockAll, SharedCounted, TypeOK, At, Control
  <2>3. ExclHolders(u)' = ExclHolders(u)
    BY <1>14, <1>0 DEF UnlockAll, ExclHolders, TypeOK
  <2>. QED  BY <1>14, <1>0, <2>1, <2>2, <2>3 DEF UnlockAll, RankAccounted
<1>15. ASSUME NEW p \in Proc, Flush(p)  PROVE RankAccounted(u)'
  <2>1. InFlightTo("rel_shared", u)' = InFlightTo("rel_shared", u)
    BY <1>15 DEF Flush, InFlightTo, InFlight
  <2>2. SharedCounted(u)' = SharedCounted(u)
    BY <1>15, <1>0 DEF Flush, SharedCounted, TypeOK, At, Control
  <2>3. ExclHolders(u)' = ExclHolders(u)
    BY <1>15, <1>0 DEF Flush, ExclHolders, TypeOK
  <2>. QED  BY <1>15, <1>0, <2>1, <2>2, <2>3 DEF Flush, RankAccounted
<1>16. ASSUME NEW p \in Proc, NEW t \in Target, LockExclusive(p, t)  PROVE RankAccounted(u)'
  <2>1. InFlightTo("rel_shared", u)' = InFlightTo("rel_shared", u)
    BY <1>16 DEF LockExclusive, InFlightTo, InFlight
  <2>2. SharedCounted(u)' = SharedCounted(u)
    BY <1>16, <1>0 DEF LockExclusive, SharedCounted, TypeOK, At, Control, MayLock
  <2>3. ExclHolders(u)' = ExclHolders(u)
    BY <1>16, <1>0 DEF LockExclusive, ExclHolders, TypeOK
  <2>. QED  BY <1>16, <1>0, <2>1, <2>2, <2>3 DEF LockExclusive, RankAccounted
<1>17. ASSUME NEW p \in Proc, NEW t \in Target, LockShared(p, t)  PROVE RankAccounted(u)'
  <2>1. InFlightTo("rel_shared", u)' = InFlightTo("rel_shared", u)
    BY <1>17 DEF LockShared, InFlightTo, InFlight
  <2>3. ExclHolders(u)' = ExclHolders(u)
    BY <1>17, <1>0 DEF LockShared, ExclHolders, TypeOK
  <2>4. CASE u = t
    <3>1. p \notin SharedCounted(u) /\ SharedCounted(u)' = SharedCounted(u) \cup {p}
      BY <1>17, <1>0, <2>4 DEF LockShared, MayLock, SharedCounted, TypeOK
    <3>2. Cardinality(SharedCounted(u)') = Cardinality(SharedCounted(u)) + 1
      BY <3>1, Subsets, ProcSets, OneMore
    <3>3. lock_mutex'[u] = lock_mutex[u] + 2
      BY <1>17, <1>0, <2>4 DEF LockShared, TypeOK
    <3>. QED  BY <1>0, <1>a, <2>1, <2>3, <3>2, <3>3 DEF RankAccounted
  <2>5. CASE u # t
    <3>1. SharedCounted(u)' = SharedCounted(u)
      BY <1>17, <1>0, <2>5 DEF LockShared, MayLock, SharedCounted, TypeOK
    <3>2. lock_mutex'[u] = lock_mutex[u]
      BY <1>17, <1>0, <2>5 DEF LockShared, TypeOK
    <3>. QED  BY <1>0, <2>1, <2>3, <3>1, <3>2 DEF RankAccounted
  <2>. QED  BY <2>4, <2>5
<1>18. ASSUME NEW p \in Proc, NEW t \in Target, Put(p, t)  PROVE RankAccounted(u)'
  <2>1. InFlightTo("rel_shared", u)' = InFlightTo("rel_shared", u)
    BY <1>18, <1>0, IssueAdds DEF Put, Ops
  <2>2. SharedCounted(u)' = SharedCounted(u)
    BY <1>18, <1>0 DEF Put, SharedCounted, TypeOK, At, Control
  <2>3. ExclHolders(u)' = ExclHolders(u)
    BY <1>18, <1>0 DEF Put, ExclHolders, TypeOK
  <2>. QED  BY <1>18, <1>0, <2>1, <2>2, <2>3 DEF Put, RankAccounted
<1>19. ASSUME NEW p \in Proc, NEW t \in Target, Unlock(p, t)  PROVE RankAccounted(u)'
  <2>1. InFlightTo("rel_shared", u)' = InFlightTo("rel_shared", u)
    BY <1>19 DEF Unlock, InFlightTo, InFlight
  <2>2. SharedCounted(u)' = SharedCounted(u)
    BY <1>19, <1>0 DEF Unlock, SharedCounted, TypeOK, At, Control
  <2>3. ExclHolders(u)' = ExclHolders(u)
    BY <1>19, <1>0 DEF Unlock, ExclHolders, TypeOK
  <2>. QED  BY <1>19, <1>0, <2>1, <2>2, <2>3 DEF Unlock, RankAccounted
<1>20. ASSUME NEW p \in Proc, NEW h \in Handle, Deliver(p, h)  PROVE RankAccounted(u)'
  <2>. PICK s \in Slot : s = <<p, h>>
    BY DEF Slot
  <2>. PICK op, t : op = net[s].op /\ t = net[s].tgt
    OBVIOUS
  <2>1. SharedCounted(u)' = SharedCounted(u) /\ ExclHolders(u)' = ExclHolders(u)
    BY <1>20 DEF Deliver, SharedCounted, ExclHolders
  <2>0. s \in InFlightTo(op, t) /\ InFlightTo(op, t)' = InFlightTo(op, t) \ {s}
    BY <1>20, <1>0, DeliverRemoves
  <2>2. CASE op = "rel_shared" /\ t = u
    <3>1. s \in InFlightTo("rel_shared", u) /\ InFlightTo("rel_shared", u)' = InFlightTo("rel_shared", u) \ {s}
      BY <2>0, <2>2
    <3>2. Cardinality(InFlightTo("rel_shared", u)') = Cardinality(InFlightTo("rel_shared", u)) - 1
      BY <3>1, Subsets, SlotSets, OneLess
    <3>3. lock_mutex'[u] = lock_mutex[u] - 2
      BY <1>20, <1>0, <2>2 DEF Deliver, TypeOK
    <3>. QED  BY <1>0, <1>a, <2>1, <3>2, <3>3 DEF RankAccounted
  <2>3. CASE ~(op = "rel_shared" /\ t = u)
    <3>1. InFlightTo("rel_shared", u)' = InFlightTo("rel_shared", u)
      BY <1>20, <1>0, <2>3, DeliverRemoves DEF Ops
    <3>2. lock_mutex'[u] = lock_mutex[u]
      BY <1>20, <1>0, <2>3 DEF Deliver, TypeOK
    <3>. QED  BY <1>0, <2>1, <3>1, <3>2 DEF RankAccounted
  <2>. QED  BY <2>2, <2>3
<1>21. CASE UNCHANGED vars
  <2>1. InFlightTo("rel_shared", u)' = InFlightTo("rel_shared", u)
    BY <1>21 DEF vars, InFlightTo, InFlight
  <2>2. SharedCounted(u)' = SharedCounted(u)
    BY <1>21, <1>0 DEF vars, SharedCounted, TypeOK, At, Control
  <2>3. ExclHolders(u)' = ExclHolders(u)
    BY <1>21, <1>0 DEF vars, ExclHolders, TypeOK
  <2>. QED  BY <1>21, <1>0, <2>1, <2>2, <2>3 DEF vars, RankAccounted
<1>. QED
  BY <1>1, <1>2, <1>3, <1>4, <1>5, <1>6, <1>7, <1>8, <1>9, <1>10, <1>11,
     <1>12, <1>13, <1>14, <1>15, <1>16, <1>17, <1>18, <1>19, <1>20, <1>21
     DEF Next, CallStep, ProgramStep, SpinAgain

---------------------------------------------------------------------------
(* The theorems.                                                           *)

(* The initial states satisfy the inductive invariant.                     *)
LEMMA InitIInv == Init => IInv
<1>. SUFFICES ASSUME Init PROVE IInv
  OBVIOUS
<1>1. TypeOK
  BY HalfType DEF Init, TypeOK, PcStates, NoOp, Request
<1>2. Control /\ Requests /\ AllExcludes /\ MutualExclusion /\ PutsCovered
  BY DEF Init, Control, NoPut, Requests, AllExcludes, MutualExclusion, PutsCovered,
         ExclHolders, NoOp, Slot
<1>3. CountMatchesList
  BY FS_EmptySet DEF Init, CountMatchesList
<1>4. /\ ExclCounted = {} /\ AllCounted = {}
      /\ \A t \in Target : SharedCounted(t) = {} /\ ExclHolders(t) = {}
  BY DEF Init, ExclCounted, AllCounted, SharedCounted, ExclHolders
<1>5. /\ InFlight("rel_excl") = {} /\ InFlight("rel_all") = {}
      /\ \A t \in Target : InFlightTo("rel_shared", t) = {}
  BY DEF Init, InFlight, InFlightTo, NoOp
<1>6. Cardinality({}) = 0
  BY FS_EmptySet
<1>7. \A t \in Target : RankAccounted(t)
  BY SMTT(60), <1>4, <1>5, <1>6 DEF Init, RankAccounted
<1>8. lock_all_mutex.lo = 0 /\ lock_all_mutex.hi = 0
  BY DEF Init
<1>9. LowAccounted /\ HighAccounted
  BY <1>4, <1>5, <1>6, <1>8 DEF LowAccounted, HighAccounted
<1>. QED  BY <1>1, <1>2, <1>3, <1>7, <1>9 DEF IInv, WordsAccounted

(* Every step keeps the inductive invariant.                               *)
LEMMA NextIInv == IInv /\ [Next]_vars => IInv'
<1>. SUFFICES ASSUME IInv, [Next]_vars PROVE IInv'
  OBVIOUS
<1>1. WordsAccounted'
  BY RanksStep, LowStep, HighStep DEF WordsAccounted
<1>. QED  BY <1>1, TypeStep, ControlStep, RequestsStep, ExclusionStep, CoveredStep,
             CountStep DEF IInv

(* The inductive invariant holds throughout.                               *)
LEMMA Invariance == Spec => []IInv
BY InitIInv, NextIInv, PTL DEF Spec

(* Every variable keeps its type; in particular no lock word underflows.   *)
THEOREM TypeCorrect == Spec => []TypeOK
<1>. IInv => TypeOK
  BY DEF IInv
<1>. QED  BY Invariance, PTL

(* An exclusive lock excludes every other lock of the rank and lock_all,   *)
(* for any number of processes and ranks and any interleaving of the       *)
(* remote atomics and of the delayed releases (fompi_win_lock.c).          *)
THEOREM Exclusion == Spec => []MutualExclusion
<1>. IInv => MutualExclusion
  BY DEF IInv
<1>. QED  BY Invariance, PTL

(* The lock words always equal what holders, waiters and releases in the   *)
(* network contribute, as long as the number of processes and outstanding  *)
(* requests fits in half a word (HalfAssumption).                          *)
THEOREM Accounting == Spec => []WordsAccounted
<1>. IInv => WordsAccounted
  BY DEF IInv
<1>. QED  BY Invariance, PTL

(* Puts stay inside the epoch that covers them.                            *)
THEOREM Coverage == Spec => []PutsCovered
<1>. IInv => PutsCovered
  BY DEF IInv
<1>. QED  BY Invariance, PTL

(* The list of exclusive locks and its counter agree.                      *)
THEOREM CountAgrees == Spec => []CountMatchesList
<1>. IInv => CountMatchesList
  BY DEF IInv
<1>. QED  BY Invariance, PTL

---------------------------------------------------------------------------
(* The lock protocol implements the abstract readers/writer locks, and a   *)
(* waiting shared request is never overtaken by an exclusive lock.         *)

\* the abstract variables, as functions of the concrete state
Writers == [t \in Target |-> ExclHolders(t)]
Readers == [t \in Target |-> SharedHolders(t)]
Accesses == [p \in Proc |-> {t \in Target : \E h \in Handle :
                                 net[<<p, h>>] = [op |-> "put", tgt |-> t]}]

(* Without a put in flight a process accesses nothing.                     *)
LEMMA NoPutNoAccess ==
  ASSUME NEW p \in Proc, NoPut(p)
  PROVE  Accesses[p] = {}
<1>1. \A t \in Target : [op |-> "put", tgt |-> t].op = "put"
  OBVIOUS
<1>2. \A t \in Target, h \in Handle : net[<<p, h>>] # [op |-> "put", tgt |-> t]
  BY <1>1 DEF NoPut
<1>. QED  BY <1>2 DEF Accesses

(* A step that neither sends nor completes a put leaves the accesses alone *)
LEMMA AccessesKept ==
  ASSUME \A q \in Proc, h \in Handle, t \in Target :
           net[<<q, h>>] = [op |-> "put", tgt |-> t]
             <=> net'[<<q, h>>] = [op |-> "put", tgt |-> t]
  PROVE  Accesses' = Accesses
<1>1. \A q \in Proc : Accesses'[q] = Accesses[q]
  BY ZenonT(60) DEF Accesses
<1>. QED  BY <1>1 DEF Accesses

(* A process accesses the ranks its puts in flight are for.                *)
LEMMA InAccesses ==
  ASSUME NEW q \in Proc, NEW t \in Target
  PROVE  /\ t \in Accesses[q] <=> \E g \in Handle : net[<<q, g>>] = [op |-> "put", tgt |-> t]
         /\ t \in Accesses'[q] <=> \E g \in Handle : net'[<<q, g>>] = [op |-> "put", tgt |-> t]
BY DEF Accesses

(* Accesses are to ranks.                                                  *)
LEMMA OnlyTargets ==
  \A q \in Proc : Accesses[q] \subseteq Target /\ Accesses'[q] \subseteq Target
BY DEF Accesses

(* A put is told apart from no request and from a put to another rank.     *)
LEMMA PutDistinct ==
  ASSUME NEW t \in Target
  PROVE  /\ NoOp # [op |-> "put", tgt |-> t]
         /\ \A u \in Target : [op |-> "put", tgt |-> u] = [op |-> "put", tgt |-> t] <=> u = t
<1>1. NoOp.op # [op |-> "put", tgt |-> t].op
  BY DEF NoOp
<1>2. \A u \in Target : [op |-> "put", tgt |-> u].tgt = u
  OBVIOUS
<1>. QED  BY <1>1, <1>2

(* The initial states are initial states of the abstract locks.            *)
LEMMA InitRefines == Init => Abstract!Init
<1>. SUFFICES ASSUME Init PROVE Abstract!Init
  OBVIOUS
<1>1. \A t \in Target : ExclHolders(t) = {} /\ SharedHolders(t) = {}
  BY DEF Init, ExclHolders, SharedHolders
<1>2. \A q \in Proc, h \in Handle : <<q, h>> \in Slot
  BY DEF Slot
<1>3. Accesses = [p \in Proc |-> {}]
  BY <1>2 DEF Accesses, Init, NoOp
<1>. QED  BY <1>1, <1>3 DEF Abstract!Init, Accesses, Init

(* A step of the protocol is a step of the abstract locks, or none.        *)
LEMMA NextRefines ==
  ASSUME IInv, [Next]_vars
  PROVE  Abstract!Next \/ UNCHANGED Abstract!vars
<1>0. TypeOK /\ Control /\ Requests /\ MutualExclusion /\ AllExcludes /\ PutsCovered
  BY DEF IInv
<1>a. TypeOK' /\ MutualExclusion' /\ AllExcludes'
  BY TypeStep, ExclusionStep
<1>b. \A q \in Proc, h \in Handle : <<q, h>> \in Slot
  BY DEF Slot
<1>. USE DEF lockVars, heldVars
<1>c. ASSUME Writers' = Writers, Readers' = Readers, Accesses' = Accesses,
             all_locked' = all_locked
      PROVE  UNCHANGED Abstract!vars
  BY <1>c DEF Abstract!vars, Writers, Readers, Accesses
<1>d. ASSUME UNCHANGED excl_locks  PROVE Writers' = Writers
  BY <1>d DEF Writers, ExclHolders
<1>e. ASSUME UNCHANGED shared_locks  PROVE Readers' = Readers
  BY <1>e DEF Readers, SharedHolders
<1>f. ASSUME UNCHANGED net  PROVE Accesses' = Accesses
  BY <1>f DEF Accesses
<1>1. ASSUME NEW p \in Proc, ExclMaster(p)  PROVE Abstract!Next \/ UNCHANGED Abstract!vars
  BY <1>1, <1>c, <1>d, <1>e, <1>f DEF ExclMaster
<1>2. ASSUME NEW p \in Proc, ExclAcquire(p)  PROVE Abstract!Next \/ UNCHANGED Abstract!vars
  <2>1. PICK t \in Target : t = rank[p]
    BY <1>2, <1>0 DEF ExclAcquire, Control
  <2>2. ExclHolders(t) = {} /\ SharedCounted(t) = {}
    BY <1>2, <2>1, WordPositive DEF ExclAcquire
  <2>3. SharedHolders(t) = {} /\ all_locked = {}
    BY <1>2, <1>0, <2>2 DEF SharedHolders, SharedCounted, AllExcludes, ExclAcquire, Control
  <2>4. Writers' = [Writers EXCEPT ![t] = {p}]
    <3>1. \A u \in Target : Writers'[u] = IF u = t THEN {p} ELSE Writers[u]
      BY <1>2, <1>0, <2>1, <2>2 DEF ExclAcquire, Writers, ExclHolders, TypeOK
    <3>. QED  BY <3>1 DEF Writers
  <2>5. Readers' = Readers /\ Accesses' = Accesses /\ all_locked' = all_locked
    BY <1>2, <1>e, <1>f DEF ExclAcquire
  <2>6. Abstract!AcquireExcl(p, t)
    BY <2>2, <2>3, <2>4, <2>5 DEF Abstract!AcquireExcl, Writers, Readers, Accesses
  <2>. QED  BY <2>6 DEF Abstract!Next
<1>3. ASSUME NEW p \in Proc, ExclBusy(p)  PROVE Abstract!Next \/ UNCHANGED Abstract!vars
  BY <1>3, <1>c, <1>d, <1>e, <1>f DEF ExclBusy
<1>4. ASSUME NEW p \in Proc, ExclBackoff(p)  PROVE Abstract!Next \/ UNCHANGED Abstract!vars
  BY <1>4, <1>c, <1>d, <1>e, <1>f DEF ExclBackoff
<1>5. ASSUME NEW p \in Proc, SharedGranted(p)  PROVE Abstract!Next \/ UNCHANGED Abstract!vars
  <2>1. PICK t \in Target : t = rank[p]
    BY <1>5, <1>0 DEF SharedGranted, At, Control
  <2>2. ExclHolders(t) = {}
    BY <1>5, <2>1, WordPositive DEF SharedGranted
  <2>4. Readers' = [Readers EXCEPT ![t] = Readers[t] \cup {p}]
    <3>1. \A u \in Target : Readers'[u] = IF u = t THEN Readers[u] \cup {p} ELSE Readers[u]
      BY <1>5, <1>0, <2>1 DEF SharedGranted, Readers, SharedHolders, TypeOK
    <3>. QED  BY <3>1 DEF Readers
  <2>5. Writers' = Writers /\ Accesses' = Accesses /\ all_locked' = all_locked
    BY <1>5, <1>d, <1>f DEF SharedGranted
  <2>6. Abstract!AcquireShared(p, t)
    BY <2>2, <2>4, <2>5 DEF Abstract!AcquireShared, Writers, Readers, Accesses
  <2>. QED  BY <2>6 DEF Abstract!Next
<1>6. ASSUME NEW p \in Proc, AllGranted(p)  PROVE Abstract!Next \/ UNCHANGED Abstract!vars
  <2>a. lock_all_mutex.lo = 0
    BY <1>6 DEF AllGranted
  <2>. QED
    <3>1. \A t \in Target : ExclHolders(t) = {}
      BY <1>6, <2>a, MasterCounts DEF AllGranted, ExclCounted, ExclHolders
    <3>2. Writers' = Writers /\ Readers' = Readers /\ Accesses' = Accesses
      BY <1>6, <1>d, <1>e, <1>f DEF AllGranted
    <3>3. Abstract!AcquireAll(p)
      BY <1>6, <2>a, <3>1, <3>2 DEF AllGranted, Abstract!AcquireAll, Writers, Readers, Accesses
    <3>. QED  BY <3>3 DEF Abstract!Next
<1>7. ASSUME NEW p \in Proc, UnlockFlushed(p)  PROVE Abstract!Next \/ UNCHANGED Abstract!vars
  BY <1>7, <1>c, <1>d, <1>e, <1>f DEF UnlockFlushed
<1>8. ASSUME NEW p \in Proc, ReleaseTarget(p)  PROVE Abstract!Next \/ UNCHANGED Abstract!vars
  <2>1. PICK t \in Target : t = rank[p]
    BY <1>8, <1>0 DEF ReleaseTarget, At, Control, TypeOK
  <2>2. p \in ExclHolders(t) /\ t \notin Accesses[p]
    BY <1>8, <1>0, <2>1, NoPutNoAccess DEF ReleaseTarget, At, Control, ExclHolders
  <2>3. Writers' = [Writers EXCEPT ![t] = Writers[t] \ {p}]
    <3>1. \A u \in Target : Writers'[u] = IF u = t THEN Writers[u] \ {p} ELSE Writers[u]
      BY <1>8, <1>0, <2>1 DEF ReleaseTarget, Writers, ExclHolders, TypeOK
    <3>. QED  BY <3>1 DEF Writers
  <2>4. Readers' = Readers /\ Accesses' = Accesses /\ all_locked' = all_locked
    BY <1>8, <1>e, <1>f DEF ReleaseTarget
  <2>5. Abstract!ReleaseExcl(p, t)
    BY <2>2, <2>3, <2>4 DEF Abstract!ReleaseExcl, Writers, Readers, Accesses
  <2>. QED  BY <2>5 DEF Abstract!Next
<1>9. ASSUME NEW p \in Proc, ReleaseMaster(p)  PROVE Abstract!Next \/ UNCHANGED Abstract!vars
  <2>1. Accesses' = Accesses
    BY <1>9, <1>0, <1>b, AccessesKept DEF ReleaseMaster, Issue, NoOp, TypeOK
  <2>. QED  BY <1>9, <1>c, <1>d, <1>e, <2>1 DEF ReleaseMaster
<1>10. ASSUME NEW p \in Proc, ReleaseShared(p)  PROVE Abstract!Next \/ UNCHANGED Abstract!vars
  <2>1. PICK t \in Target : t = rank[p]
    BY <1>10, <1>0 DEF ReleaseShared, At, Control, TypeOK
  <2>2. p \in SharedHolders(t) /\ t \notin Accesses[p]
    BY <1>10, <1>0, <2>1, NoPutNoAccess DEF ReleaseShared, At, Control, SharedHolders
  <2>3. Readers' = [Readers EXCEPT ![t] = Readers[t] \ {p}]
    <3>1. \A u \in Target : Readers'[u] = IF u = t THEN Readers[u] \ {p} ELSE Readers[u]
      BY <1>10, <1>0, <2>1 DEF ReleaseShared, Readers, SharedHolders, TypeOK
    <3>. QED  BY <3>1 DEF Readers
  <2>4. Accesses' = Accesses
    BY <1>10, <1>0, <1>b, AccessesKept DEF ReleaseShared, Issue, NoOp, TypeOK
  <2>5. Writers' = Writers /\ all_locked' = all_locked
    BY <1>10, <1>d DEF ReleaseShared
  <2>6. Abstract!ReleaseShared(p, t)
    BY <2>2, <2>3, <2>4, <2>5 DEF Abstract!ReleaseShared, Writers, Readers, Accesses
  <2>. QED  BY <2>6 DEF Abstract!Next
<1>11. ASSUME NEW p \in Proc, UnlockAllFlushed(p)  PROVE Abstract!Next \/ UNCHANGED Abstract!vars
  BY <1>11, <1>c, <1>d, <1>e, <1>f DEF UnlockAllFlushed
<1>12. ASSUME NEW p \in Proc, ReleaseAll(p)  PROVE Abstract!Next \/ UNCHANGED Abstract!vars
  <2>1. p \in all_locked /\ Accesses[p] = {}
    BY <1>12, <1>0, NoPutNoAccess DEF ReleaseAll, At, Control
  <2>2. Accesses' = Accesses
    BY <1>12, <1>0, <1>b, AccessesKept DEF ReleaseAll, Issue, NoOp, TypeOK
  <2>3. Writers' = Writers /\ Readers' = Readers /\ all_locked' = all_locked \ {p}
    BY <1>12, <1>d, <1>e DEF ReleaseAll
  <2>4. Abstract!ReleaseAll(p)
    BY <2>1, <2>2, <2>3 DEF Abstract!ReleaseAll, Writers, Readers, Accesses
  <2>. QED  BY <2>4 DEF Abstract!Next
<1>13. ASSUME NEW p \in Proc, LockAll(p)  PROVE Abstract!Next \/ UNCHANGED Abstract!vars
  <2>a. CASE lock_all_mutex.lo = 0
    <3>1. \A t \in Target : ExclHolders(t) = {}
      BY <1>13, <2>a, MasterCounts DEF LockAll, ExclCounted, ExclHolders
    <3>2. Writers' = Writers /\ Readers' = Readers /\ Accesses' = Accesses
      BY <1>13, <1>d, <1>e, <1>f DEF LockAll
    <3>3. Abstract!AcquireAll(p)
      BY <1>13, <2>a, <3>1, <3>2 DEF LockAll, Abstract!AcquireAll, Writers, Readers, Accesses
    <3>. QED  BY <3>3 DEF Abstract!Next
  <2>b. CASE lock_all_mutex.lo # 0
    BY <1>13, <2>b, <1>c, <1>d, <1>e, <1>f DEF LockAll
  <2>. QED  BY <2>a, <2>b
<1>14. ASSUME NEW p \in Proc, UnlockAll(p)  PROVE Abstract!Next \/ UNCHANGED Abstract!vars
  BY <1>14, <1>c, <1>d, <1>e, <1>f DEF UnlockAll
<1>15. ASSUME NEW p \in Proc, Flush(p)  PROVE Abstract!Next \/ UNCHANGED Abstract!vars
  BY <1>15, <1>c, <1>d, <1>e, <1>f DEF Flush
<1>16. ASSUME NEW p \in Proc, NEW t \in Target, LockExclusive(p, t)  PROVE Abstract!Next \/ UNCHANGED Abstract!vars
  BY <1>16, <1>c, <1>d, <1>e, <1>f DEF LockExclusive
<1>17. ASSUME NEW p \in Proc, NEW t \in Target, LockShared(p, t)  PROVE Abstract!Next \/ UNCHANGED Abstract!vars
  <2>a. CASE lock_mutex[t] % 2 = 0
    <3>1. ExclHolders(t) = {}
      BY <2>a, WordPositive
    <3>2. Readers' = [Readers EXCEPT ![t] = Readers[t] \cup {p}]
      <4>1. \A u \in Target :
              Readers'[u] = IF u = t THEN Readers[u] \cup {p} ELSE Readers[u]
        BY <1>17, <1>0, <2>a DEF LockShared, Readers, SharedHolders, TypeOK
      <4>. QED  BY <4>1 DEF Readers
    <3>3. Writers' = Writers /\ Accesses' = Accesses /\ all_locked' = all_locked
      BY <1>17, <1>d, <1>f DEF LockShared
    <3>4. Abstract!AcquireShared(p, t)
      BY <3>1, <3>2, <3>3 DEF Abstract!AcquireShared, Writers, Readers, Accesses
    <3>. QED  BY <3>4 DEF Abstract!Next
  <2>b. CASE lock_mutex[t] % 2 # 0
    BY <1>17, <2>b, <1>c, <1>d, <1>e, <1>f DEF LockShared
  <2>. QED  BY <2>a, <2>b
<1>18. ASSUME NEW p \in Proc, NEW t \in Target, Put(p, t)  PROVE Abstract!Next \/ UNCHANGED Abstract!vars
  <2>1. p \in ExclHolders(t) \cup SharedHolders(t) \cup all_locked
    BY <1>18 DEF Put, Covers, ExclHolders, SharedHolders
  <2>2. PICK h \in Handle : /\ net[<<p, h>>] = NoOp
                            /\ net' = [net EXCEPT ![<<p, h>>] = [op |-> "put", tgt |-> t]]
    BY <1>18 DEF Put, Issue
  <2>3. \A q \in Proc, g \in Handle :
          net'[<<q, g>>] = IF <<q, g>> = <<p, h>> THEN [op |-> "put", tgt |-> t]
                           ELSE net[<<q, g>>]
    BY <1>0, <1>b, <2>2 DEF TypeOK
  <2>4. \A q \in Proc : Accesses'[q] = IF q = p THEN Accesses[p] \cup {t} ELSE Accesses[q]
    <3>. SUFFICES ASSUME NEW q \in Proc, NEW u \in Target
                  PROVE  u \in Accesses'[q] <=> u \in Accesses[q] \/ (q = p /\ u = t)
      BY OnlyTargets
    <3>1. CASE q = p /\ u = t
      BY <2>3, <3>1, InAccesses
    <3>2. CASE q = p /\ u # t
      <4>1. NoOp # [op |-> "put", tgt |-> u] /\ [op |-> "put", tgt |-> t] # [op |-> "put", tgt |-> u]
        BY <3>2, PutDistinct
      <4>2. \A g \in Handle : net'[<<p, g>>] = [op |-> "put", tgt |-> u]
                             <=> net[<<p, g>>] = [op |-> "put", tgt |-> u]
        BY <2>2, <2>3, <4>1
      <4>. QED  BY <3>2, <4>2, InAccesses
    <3>3. CASE q # p
      <4>1. \A g \in Handle : net'[<<q, g>>] = net[<<q, g>>]
        BY <2>3, <3>3
      <4>. QED  BY ZenonT(60), <3>3, <4>1, InAccesses
    <3>. QED  BY <3>1, <3>2, <3>3
  <2>5. Accesses' = [Accesses EXCEPT ![p] = Accesses[p] \cup {t}]
    BY <2>4 DEF Accesses
  <2>6. Writers' = Writers /\ Readers' = Readers /\ all_locked' = all_locked
    BY <1>18, <1>d, <1>e DEF Put
  <2>7. Abstract!Begin(p, t)
    BY <2>1, <2>5, <2>6 DEF Abstract!Begin, Abstract!Covered, Writers, Readers, Accesses
  <2>. QED  BY <2>7 DEF Abstract!Next
<1>19. ASSUME NEW p \in Proc, NEW t \in Target, Unlock(p, t)  PROVE Abstract!Next \/ UNCHANGED Abstract!vars
  BY <1>19, <1>c, <1>d, <1>e, <1>f DEF Unlock
<1>20. ASSUME NEW p \in Proc, NEW h \in Handle, Deliver(p, h)  PROVE Abstract!Next \/ UNCHANGED Abstract!vars
  <2>1. Writers' = Writers /\ Readers' = Readers /\ all_locked' = all_locked
    BY <1>20, <1>d, <1>e DEF Deliver
  <2>2. \A q \in Proc, g \in Handle :
          net'[<<q, g>>] = IF <<q, g>> = <<p, h>> THEN NoOp ELSE net[<<q, g>>]
    BY <1>20, <1>0, <1>b DEF Deliver, TypeOK
  <2>3. CASE \E t \in Target : t \in Accesses[p] /\ t \notin Accesses'[p]
    <3>1. PICK t \in Target : t \in Accesses[p] /\ t \notin Accesses'[p]
      BY <2>3
    <3>2. net[<<p, h>>] = [op |-> "put", tgt |-> t]
      <4>1. PICK g \in Handle : net[<<p, g>>] = [op |-> "put", tgt |-> t]
        BY <3>1, InAccesses
      <4>2. net'[<<p, g>>] # [op |-> "put", tgt |-> t]
        BY <3>1, InAccesses
      <4>. QED  BY <2>2, <4>1, <4>2
    <3>3. \A q \in Proc : Accesses'[q] = IF q = p THEN Accesses[p] \ {t} ELSE Accesses[q]
      <4>. SUFFICES ASSUME NEW q \in Proc, NEW u \in Target
                    PROVE  u \in Accesses'[q] <=> u \in Accesses[q] /\ ~(q = p /\ u = t)
        BY OnlyTargets
      <4>1. CASE q = p /\ u = t
        BY <3>1, <4>1
      <4>2. CASE q = p /\ u # t
        <5>1. NoOp # [op |-> "put", tgt |-> u] /\ [op |-> "put", tgt |-> t] # [op |-> "put", tgt |-> u]
          BY <4>2, PutDistinct
        <5>2. \A g \in Handle : net'[<<p, g>>] = [op |-> "put", tgt |-> u]
                               <=> net[<<p, g>>] = [op |-> "put", tgt |-> u]
          BY <2>2, <3>2, <5>1
        <5>. QED  BY <4>2, <5>2, InAccesses
      <4>3. CASE q # p
        <5>1. \A g \in Handle : net'[<<q, g>>] = net[<<q, g>>]
          BY <2>2, <4>3
        <5>. QED  BY ZenonT(60), <4>3, <5>1, InAccesses
      <4>. QED  BY <4>1, <4>2, <4>3
    <3>4. Accesses' = [Accesses EXCEPT ![p] = Accesses[p] \ {t}]
      BY <3>3 DEF Accesses
    <3>5. Abstract!End(p, t)
      BY <2>1, <3>1, <3>4 DEF Abstract!End, Writers, Readers, Accesses
    <3>. QED  BY <3>5 DEF Abstract!Next
  <2>4. CASE ~\E t \in Target : t \in Accesses[p] /\ t \notin Accesses'[p]
    <3>1. ASSUME NEW q \in Proc, NEW u \in Target
          PROVE  u \in Accesses'[q] <=> u \in Accesses[q]
      <4>1. CASE q # p
        <5>1. \A g \in Handle : net'[<<q, g>>] = net[<<q, g>>]
          BY <2>2, <4>1
        <5>. QED  BY ZenonT(60), <5>1, InAccesses
      <4>2. CASE q = p
        <5>1. u \in Accesses[p] => u \in Accesses'[p]
          BY <2>4
        <5>2. ASSUME u \in Accesses'[p]  PROVE u \in Accesses[p]
          <6>1. PICK g \in Handle : net'[<<p, g>>] = [op |-> "put", tgt |-> u]
            BY <5>2, InAccesses
          <6>2. net[<<p, g>>] = [op |-> "put", tgt |-> u]
            BY <2>2, <6>1, PutDistinct
          <6>. QED  BY <6>2, InAccesses
        <5>. QED  BY <4>2, <5>1, <5>2
      <4>. QED  BY <4>1, <4>2
    <3>2. Accesses' = Accesses
      <4>1. \A q \in Proc : Accesses'[q] = Accesses[q]
        BY <3>1 DEF Accesses
      <4>. QED  BY <4>1 DEF Accesses
    <3>. QED  BY <1>c, <2>1, <3>2
  <2>. QED  BY <2>3, <2>4
<1>21. CASE UNCHANGED vars
  BY <1>21, <1>c, <1>d, <1>e, <1>f DEF vars
<1>. QED
  BY <1>1, <1>2, <1>3, <1>4, <1>5, <1>6, <1>7, <1>8, <1>9, <1>10, <1>11,
     <1>12, <1>13, <1>14, <1>15, <1>16, <1>17, <1>18, <1>19, <1>20, <1>21
     DEF Next, CallStep, ProgramStep, SpinAgain

(* A rank is taken exclusively only when its word was zero.                *)
LEMMA NewExclusive ==
  ASSUME IInv, NEW q \in Proc, NEW u \in Target, u \in excl_locks'[q], u \notin excl_locks[q], [Next]_vars
  PROVE  lock_mutex[u] = 0
<1>0. TypeOK /\ Control
  BY DEF IInv
<1>. USE DEF heldVars, TypeOK
<1>1. ASSUME NEW p \in Proc, ExclMaster(p)  PROVE lock_mutex[u] = 0
  BY <1>1, <1>0 DEF ExclMaster
<1>2. ASSUME NEW p \in Proc, ExclAcquire(p)  PROVE lock_mutex[u] = 0
  BY <1>2, <1>0 DEF ExclAcquire, Control
<1>3. ASSUME NEW p \in Proc, ExclBusy(p)  PROVE lock_mutex[u] = 0
  BY <1>3, <1>0 DEF ExclBusy
<1>4. ASSUME NEW p \in Proc, ExclBackoff(p)  PROVE lock_mutex[u] = 0
  BY <1>4, <1>0 DEF ExclBackoff
<1>5. ASSUME NEW p \in Proc, SharedGranted(p)  PROVE lock_mutex[u] = 0
  BY <1>5, <1>0 DEF SharedGranted
<1>6. ASSUME NEW p \in Proc, AllGranted(p)  PROVE lock_mutex[u] = 0
  BY <1>6, <1>0 DEF AllGranted
<1>7. ASSUME NEW p \in Proc, UnlockFlushed(p)  PROVE lock_mutex[u] = 0
  BY <1>7, <1>0 DEF UnlockFlushed
<1>8. ASSUME NEW p \in Proc, ReleaseTarget(p)  PROVE lock_mutex[u] = 0
  BY <1>8, <1>0 DEF ReleaseTarget
<1>9. ASSUME NEW p \in Proc, ReleaseMaster(p)  PROVE lock_mutex[u] = 0
  BY <1>9, <1>0 DEF ReleaseMaster
<1>10. ASSUME NEW p \in Proc, ReleaseShared(p)  PROVE lock_mutex[u] = 0
  BY <1>10, <1>0 DEF ReleaseShared
<1>11. ASSUME NEW p \in Proc, UnlockAllFlushed(p)  PROVE lock_mutex[u] = 0
  BY <1>11, <1>0 DEF UnlockAllFlushed
<1>12. ASSUME NEW p \in Proc, ReleaseAll(p)  PROVE lock_mutex[u] = 0
  BY <1>12, <1>0 DEF ReleaseAll
<1>13. ASSUME NEW p \in Proc, LockAll(p)  PROVE lock_mutex[u] = 0
  BY <1>13, <1>0 DEF LockAll
<1>14. ASSUME NEW p \in Proc, UnlockAll(p)  PROVE lock_mutex[u] = 0
  BY <1>14, <1>0 DEF UnlockAll
<1>15. ASSUME NEW p \in Proc, Flush(p)  PROVE lock_mutex[u] = 0
  BY <1>15, <1>0 DEF Flush
<1>16. ASSUME NEW p \in Proc, NEW t \in Target, LockExclusive(p, t)  PROVE lock_mutex[u] = 0
  BY <1>16, <1>0 DEF LockExclusive
<1>17. ASSUME NEW p \in Proc, NEW t \in Target, LockShared(p, t)  PROVE lock_mutex[u] = 0
  BY <1>17, <1>0 DEF LockShared
<1>18. ASSUME NEW p \in Proc, NEW t \in Target, Put(p, t)  PROVE lock_mutex[u] = 0
  BY <1>18, <1>0 DEF Put
<1>19. ASSUME NEW p \in Proc, NEW t \in Target, Unlock(p, t)  PROVE lock_mutex[u] = 0
  BY <1>19, <1>0 DEF Unlock
<1>20. ASSUME NEW p \in Proc, NEW h \in Handle, Deliver(p, h)  PROVE lock_mutex[u] = 0
  BY <1>20, <1>0 DEF Deliver
<1>21. CASE UNCHANGED vars
  BY <1>21, <1>0 DEF vars
<1>. QED
  BY <1>1, <1>2, <1>3, <1>4, <1>5, <1>6, <1>7, <1>8, <1>9, <1>10, <1>11,
     <1>12, <1>13, <1>14, <1>15, <1>16, <1>17, <1>18, <1>19, <1>20, <1>21
     DEF Next, CallStep, ProgramStep, SpinAgain

(* Spec implements the abstract locks under the mapping of WinLock.        *)
THEOREM Refinement == Spec => ImplementsLocks
<1>1. IInv /\ [Next]_vars => [Abstract!Next]_(Abstract!vars)
  BY NextRefines
<1>. QED  BY <1>1, InitRefines, Invariance, PTL DEF Spec, ImplementsLocks, Abstract!Spec

(* A registered shared request is not overtaken by an exclusive lock.      *)
THEOREM SharedNotOvertaken == Spec => NoBarging
<1>. DEFINE A == \A p \in Proc : pc[p] = "s_wait" /\ pc'[p] = "s_wait" =>
                   {q \in Proc : rank[p] \in excl_locks'[q]} \subseteq ExclHolders(rank[p])
<1>1. ASSUME IInv, [Next]_vars  PROVE [A]_vars
  <2>. SUFFICES ASSUME NEW p \in Proc, pc[p] = "s_wait", NEW q \in Proc,
                       rank[p] \in excl_locks'[q], rank[p] \notin excl_locks[q]
                PROVE  FALSE
    BY DEF ExclHolders
  <2>1. TypeOK /\ Control
    BY <1>1 DEF IInv
  <2>2. PICK t \in Target : t = rank[p]
    BY <2>1 DEF Control
  <2>3. p \in SharedCounted(t) /\ lock_mutex[t] = 0
    BY <1>1, <2>2, NewExclusive DEF SharedCounted
  <2>. QED  BY <1>1, <2>2, <2>3, WordPositive
<1>. QED  BY <1>1, Invariance, PTL DEF Spec, NoBarging
===========================================================================
