------------------------ MODULE NotificationProofs ------------------------
(***************************************************************************)
(* The two components that bring notifications to a request.               *)
(*                                                                         *)
(* XpmemQueue, for any number of pushers and any size of the ring: IInv is *)
(* inductive; it gives mutual exclusion of the pushers and, until an entry *)
(* is written into a full ring, the refinement of a FIFO.  The ticket      *)
(* counter is an int and is taken never to overflow (TailMax).             *)
(*                                                                         *)
(* Notification, for any sources, tags and requests: NotifInv is           *)
(* inductive; it gives that each notification is counted once, the oldest  *)
(* first, and that a test answers false only when something is missing.    *)
(***************************************************************************)
EXTENDS XpmemQueue, Notification, Lemmas, FiniteSetTheorems, SequenceTheorems

---------------------------------------------------------------------------
(* The inductive invariant.                                                *)

Holding == {"tag", "source", "index", "publish", "clear", "next"}

\* pushers without a ticket, with one, and those whose message is not counted yet
Waiting == {p \in Pusher : pc[p] \in {"full?", "ticket"}}
InLock == {p \in Pusher : pc[p] \in Holding \cup {"spin"}}
Uncounted == {"full?", "ticket", "spin", "tag", "source", "index", "publish"}
Pushing == {p \in Pusher : pc[p] \in Uncounted}

\* the slot whose turn it is
Turn == (tail - Cardinality(InLock)) % OnnodeSize

(* The tickets out are the last ones drawn, each in one hand.              *)
TicketsInOrder ==
  /\ \A p \in InLock : \E i \in 1 .. Cardinality(InLock) : slot[p] = (tail - i) % OnnodeSize
  /\ \A p, q \in InLock : slot[p] = slot[q] => p = q

HolderAtHead == \A p \in Pusher : pc[p] \in Holding => slot[p] = Turn

(* One flag is set, that of the slot whose turn it is, and none between    *)
(* the two assignments of unlock.                                          *)
OneFlag ==
  \A s \in Slots :
    flags_array[s] # 0 <=> s = Turn /\ \A p \in Pusher : pc[p] # "next"

Accounted ==
  /\ outstanding = count + Cardinality(Pushing)
  /\ owner_pc # "idle" => count > 0

\* there is a ticket left for every push begun
TicketsLeft == Begun <= TailMax

\* entries of the ring from extract_ind on that are counted, and that are written
Published == count - (IF owner_pc = "done" THEN 1 ELSE 0)
Unpublished == IF \E p \in Pusher : pc[p] = "publish" THEN 1 ELSE 0
Reserved == IF \E p \in Pusher : pc[p] \in {"source", "index", "publish"} THEN 1 ELSE 0

\* what is in the entry that p writes
Written(p) ==
  /\ pc[p] = "source" => queue_array[inser_ind].tag = sent[p]
  /\ pc[p] = "index" => queue_array[inser_ind] = Sent(p)
  /\ pc[p] = "publish" => queue_array[(extract_ind + Published) % Capacity] = Sent(p)

(* The ring is consistent until an entry has been written into a full one. *)
RingOK ==
  /\ count + Reserved <= Capacity
  /\ inser_ind = (extract_ind + Published + Unpublished) % Capacity
  /\ \A i \in 0 .. Published - 1 : queue_array[(extract_ind + i) % Capacity] \in Message
  /\ \A p \in Pusher : Written(p)
  /\ owner_pc = "tag" => rank = queue_array[extract_ind].source

RingAligned == ~overrun => RingOK

LockInv ==
  TypeOK /\ TicketsInOrder /\ HolderAtHead /\ OneFlag /\ Accounted /\ TicketsLeft

IInv == LockInv /\ RingAligned

---------------------------------------------------------------------------
(* Sets of pushers are finite; one step moves one pusher.                  *)

(* The sizes are positive.                                                 *)
LEMMA Sizes ==
  /\ OnnodeSize \in Nat \ {0} /\ Capacity \in Nat \ {0} /\ MaxPush \in Nat \ {0}
  /\ TailMax \in Nat
BY PusherAssumption, SizeAssumption, FS_CardinalityType, FS_EmptySet DEF OnnodeSize

(* How the cardinality of a set of pushers changes by one of them.         *)
LEMMA PusherSets ==
  ASSUME NEW S \in SUBSET Pusher
  PROVE  /\ IsFiniteSet(S) /\ Cardinality(S) \in 0 .. OnnodeSize
         /\ \A p \in Pusher \ S : /\ Cardinality(S \cup {p}) = Cardinality(S) + 1
                                /\ Cardinality(S) < OnnodeSize
         /\ \A p \in S : Cardinality(S \ {p}) = Cardinality(S) - 1
<1>1. IsFiniteSet(S) /\ Cardinality(S) \in 0 .. OnnodeSize
  BY PusherAssumption, FS_Subset, FS_CardinalityType, Sizes DEF OnnodeSize
<1>2. ASSUME NEW p \in Pusher \ S
      PROVE  Cardinality(S \cup {p}) = Cardinality(S) + 1 /\ Cardinality(S) < OnnodeSize
  <2>1. Cardinality(S \cup {p}) = Cardinality(S) + 1
    BY <1>1, FS_AddElement
  <2>2. S \cup {p} \in SUBSET Pusher
    OBVIOUS
  <2>3. Cardinality(S \cup {p}) \in 0 .. OnnodeSize
    BY <2>2, PusherAssumption, FS_Subset, FS_CardinalityType, Sizes DEF OnnodeSize
  <2>. QED  BY <1>1, <2>1, <2>3, Sizes
<1>3. ASSUME NEW p \in S  PROVE Cardinality(S \ {p}) = Cardinality(S) - 1
  BY <1>1, FS_RemoveElement
<1>. QED  BY <1>1, <1>2, <1>3

(* What a pusher that goes from one place to another does to the sets of   *)
(* pushers.                                                                *)
LEMMA Moves ==
  ASSUME TypeOK, NEW p \in Pusher, NEW a, NEW b, At(p, a, b)
  PROVE  /\ InLock' = IF b \in Holding \cup {"spin"} THEN InLock \cup {p} ELSE InLock \ {p}
         /\ Pushing' = IF b \in Uncounted THEN Pushing \cup {p} ELSE Pushing \ {p}
         /\ Waiting' = IF b \in {"full?", "ticket"} THEN Waiting \cup {p} ELSE Waiting \ {p}
         /\ p \in InLock <=> a \in Holding \cup {"spin"}
         /\ p \in Pushing <=> a \in Uncounted
         /\ p \in Waiting <=> a \in {"full?", "ticket"}
         /\ pc[p] = a /\ pc'[p] = b /\ \A q \in Pusher : q # p => pc'[q] = pc[q]
BY DEF TypeOK, At, InLock, Pushing, Waiting

(* Tickets, flags and entries are indexed inside their arrays.             *)
LEMMA Indices ==
  ASSUME TypeOK
  PROVE  /\ \A p \in Pusher : (sent[p] % MaxPush) + 1 \in 1 .. MaxPush
         /\ tail % OnnodeSize \in Slots
         /\ (inser_ind + 1) % Capacity \in Entries /\ (extract_ind + 1) % Capacity \in Entries
         /\ \A p \in Pusher : (slot[p] + 1) % OnnodeSize \in Slots
<1>1. /\ \A p \in Pusher : sent[p] \in Int /\ slot[p] + 1 \in Int
      /\ tail \in Int /\ inser_ind + 1 \in Int /\ extract_ind + 1 \in Int
  BY Sizes DEF TypeOK, Slots, Entries
<1>2. \A p \in Pusher : sent[p] % MaxPush \in 0 .. MaxPush - 1
  BY <1>1, ModType, Sizes
<1>3. /\ tail % OnnodeSize \in 0 .. OnnodeSize - 1
      /\ (inser_ind + 1) % Capacity \in 0 .. Capacity - 1
      /\ (extract_ind + 1) % Capacity \in 0 .. Capacity - 1
  BY <1>1, ModType, Sizes
<1>4. \A p \in Pusher : (slot[p] + 1) % OnnodeSize \in 0 .. OnnodeSize - 1
  BY <1>1, ModType, Sizes
<1>5. \A p \in Pusher : (sent[p] % MaxPush) + 1 \in 1 .. MaxPush
  BY <1>2, Sizes
<1>. QED  BY <1>3, <1>4, <1>5 DEF Slots, Entries

(* Every step keeps the types.                                             *)
LEMMA TypeStep ==
  ASSUME LockInv, [Next]_vars
  PROVE  TypeOK'
<1>. USE Sizes DEF TypeOK, At, PcStates, lockVars, ownerVars, Slots, Entries
<1>0. TypeOK /\ Accounted /\ TicketsLeft
  BY DEF LockInv
<1>a. outstanding = count + Cardinality(Pushing) /\ Cardinality(Pushing) \in Nat
  BY <1>0, PusherSets DEF Accounted, Pushing
<1>1. ASSUME NEW p \in Pusher, Push(p)  PROVE TypeOK'
  <2>1. (sent[p] % MaxPush) + 1 \in 1 .. MaxPush
    BY <1>0, Indices
  <2>. QED  BY <1>0, <1>1, <2>1, SizeAssumption DEF Push
<1>2. ASSUME NEW p \in Pusher, FindRoom(p)  PROVE TypeOK'
  BY <1>0, <1>2 DEF FindRoom
<1>3. ASSUME NEW p \in Pusher, TakeTicket(p)  PROVE TypeOK'
  <2>1. tail % OnnodeSize \in Slots
    BY <1>0, Indices
  <2>2. tail + 1 <= TailMax
    <3>1. Waiting \in SUBSET Pusher /\ p \in Waiting
      BY <1>3 DEF TakeTicket, Waiting
    <3>2. Waiting \ {p} \in SUBSET Pusher
      BY <3>1
    <3>3. /\ Cardinality(Waiting) \in 0 .. OnnodeSize
          /\ Cardinality(Waiting \ {p}) = Cardinality(Waiting) - 1
      BY <3>1, PusherSets
    <3>4. Cardinality(Waiting \ {p}) \in 0 .. OnnodeSize
      BY <3>2, PusherSets
    <3>5. Cardinality(Waiting) \in Nat /\ Cardinality(Waiting) - 1 \in Nat
      BY <3>3, <3>4
    <3>. QED  BY <1>0, <3>5 DEF TicketsLeft, Begun, Waiting
  <2>. QED  BY <1>0, <1>3, <2>1, <2>2 DEF TakeTicket
<1>4. ASSUME NEW p \in Pusher, Enter(p)  PROVE TypeOK'
  BY <1>0, <1>4 DEF Enter
<1>5. ASSUME NEW p \in Pusher, WriteTag(p)  PROVE TypeOK'
  <2>1. [queue_array[inser_ind] EXCEPT !.tag = sent[p]] \in Entry
    BY <1>0 DEF Entry
  <2>. QED  BY <1>0, <1>5, <2>1 DEF WriteTag
<1>5a. ASSUME NEW p \in Pusher, WriteSource(p)  PROVE TypeOK'
  <2>1. [queue_array[inser_ind] EXCEPT !.source = p] \in Entry
    BY <1>0 DEF Entry
  <2>. QED  BY <1>0, <1>5a, <2>1 DEF WriteSource
<1>5b. ASSUME NEW p \in Pusher, Advance(p)  PROVE TypeOK'
  <2>1. (inser_ind + 1) % Capacity \in Entries
    BY <1>0, Indices
  <2>. QED  BY <1>0, <1>5b, <2>1 DEF Advance
<1>6. ASSUME NEW p \in Pusher, Publish(p)  PROVE TypeOK'
  BY <1>0, <1>6 DEF Publish
<1>7. ASSUME NEW p \in Pusher, UnlockClear(p)  PROVE TypeOK'
  BY <1>0, <1>7 DEF UnlockClear
<1>8. ASSUME NEW p \in Pusher, UnlockNext(p)  PROVE TypeOK'
  <2>1. (slot[p] + 1) % OnnodeSize \in Slots
    BY <1>0, Indices
  <2>. QED  BY <1>0, <1>8, <2>1 DEF UnlockNext
<1>9. ASSUME PopEmpty  PROVE TypeOK'
  BY <1>0, <1>9 DEF PopEmpty, vars
<1>10. ASSUME PopFinds  PROVE TypeOK'
  BY <1>0, <1>10 DEF PopFinds
<1>11. ASSUME PopSource  PROVE TypeOK'
  BY <1>0, <1>11 DEF PopSource, Entry
<1>11a. ASSUME PopTag  PROVE TypeOK'
  <2>1. (extract_ind + 1) % Capacity \in Entries
    BY <1>0, Indices
  <2>2. [source |-> rank, tag |-> queue_array[extract_ind].tag] \in Entry
    BY <1>0 DEF Entry
  <2>. QED  BY <1>0, <1>11a, <2>1, <2>2 DEF PopTag
<1>12. ASSUME PopDone  PROVE TypeOK'
  <2>1. count > 0
    BY <1>0, <1>12 DEF PopDone, Accounted
  <2>. QED  BY <1>0, <1>a, <1>12, <2>1, SizeAssumption DEF PopDone
<1>13. CASE UNCHANGED vars
  BY <1>0, <1>13 DEF vars
<1>. QED  BY <1>1, <1>2, <1>3, <1>4, <1>5, <1>5a, <1>5b, <1>6, <1>7, <1>8, <1>9, <1>10,
             <1>11, <1>11a, <1>12, <1>13
          DEF Next, PushStep, Pop

---------------------------------------------------------------------------
(* The array lock.  Only drawing a ticket and the second half of unlock    *)
(* change who is in it.                                                    *)

(* Only taking a ticket and passing the lock on change who is in the lock. *)
LEMMA LockFrame ==
  ASSUME TypeOK, [Next]_vars, \A p \in Pusher : ~TakeTicket(p) /\ ~UnlockNext(p)
  PROVE  InLock' = InLock /\ tail' = tail /\ slot' = slot /\ Turn' = Turn
<1>. USE DEF lockVars, ownerVars
<1>1. ASSUME NEW p \in Pusher, NEW a, NEW b, At(p, a, b),
             a \in Holding \cup {"spin"} <=> b \in Holding \cup {"spin"}
      PROVE  InLock' = InLock
  BY <1>1, Moves
<1>2. ASSUME UNCHANGED pc  PROVE InLock' = InLock
  BY <1>2 DEF InLock
<1>3. InLock' = InLock /\ tail' = tail /\ slot' = slot
  <2>. USE DEF Holding
  <2>1. ASSUME NEW p \in Pusher, Push(p) \/ FindRoom(p)
        PROVE  InLock' = InLock /\ tail' = tail /\ slot' = slot
    BY <1>1, <2>1 DEF Push, FindRoom
  <2>2. ASSUME NEW p \in Pusher, Enter(p) \/ WriteTag(p)
        PROVE  InLock' = InLock /\ tail' = tail /\ slot' = slot
    BY <1>1, <2>2 DEF Enter, WriteTag
  <2>2a. ASSUME NEW p \in Pusher, WriteSource(p) \/ Advance(p)
        PROVE  InLock' = InLock /\ tail' = tail /\ slot' = slot
    BY <1>1, <2>2a DEF WriteSource, Advance
  <2>3. ASSUME NEW p \in Pusher, Publish(p) \/ UnlockClear(p)
        PROVE  InLock' = InLock /\ tail' = tail /\ slot' = slot
    BY <1>1, <2>3 DEF Publish, UnlockClear
  <2>4. CASE Pop
    BY <1>2, <2>4 DEF Pop, PopEmpty, PopFinds, PopSource, PopTag, PopDone, vars
  <2>5. CASE UNCHANGED vars
    BY <1>2, <2>5 DEF vars
  <2>. QED  BY <2>1, <2>2, <2>2a, <2>3, <2>4, <2>5 DEF Next, PushStep
<1>. QED  BY <1>3 DEF Turn

(* A ticket adds one pusher at the end of the line.                        *)
LEMMA TicketDrawn ==
  ASSUME TypeOK, NEW p \in Pusher, TakeTicket(p)
  PROVE  /\ InLock' = InLock \cup {p} /\ p \notin InLock
         /\ Cardinality(InLock)' = Cardinality(InLock) + 1
         /\ Cardinality(InLock) \in 0 .. OnnodeSize - 1
         /\ tail' = tail + 1 /\ tail \in Int
         /\ Turn' = Turn
         /\ slot'[p] = (tail' - 1) % OnnodeSize
         /\ \A q \in Pusher \ {p} : slot'[q] = slot[q]
<1>1. InLock' = InLock \cup {p} /\ p \notin InLock
  BY Moves DEF TakeTicket, Holding
<1>2. InLock \in SUBSET Pusher
  BY DEF InLock
<1>3. /\ Cardinality(InLock)' = Cardinality(InLock) + 1
      /\ Cardinality(InLock) \in 0 .. OnnodeSize - 1
  <2>1. Cardinality(InLock)' = Cardinality(InLock')
    OBVIOUS
  <2>2. Cardinality(InLock) \in 0 .. OnnodeSize /\ Cardinality(InLock) < OnnodeSize
        /\ Cardinality(InLock \cup {p}) = Cardinality(InLock) + 1
    BY <1>1, <1>2, PusherSets
  <2>. QED  BY <1>1, <2>1, <2>2, Sizes
<1>4. tail' = tail + 1 /\ tail \in Int
  BY Sizes DEF TakeTicket, TypeOK
<1>5. Turn' = Turn
  <2>. DEFINE k == Cardinality(InLock)
  <2>1. Turn' = (tail' - (k + 1)) % OnnodeSize
    BY <1>3 DEF Turn
  <2>2. k \in Int
    BY <1>3
  <2>. HIDE DEF k
  <2>3. tail' - (k + 1) = tail - k
    BY <1>4, <2>2
  <2>. QED  BY <2>1, <2>3 DEF Turn, k
<1>7. slot'[p] = (tail' - 1) % OnnodeSize
  <2>1. slot'[p] = tail % OnnodeSize
    BY DEF TakeTicket, TypeOK
  <2>2. tail' - 1 = tail
    BY <1>4
  <2>. QED  BY <2>1, <2>2
<1>8. \A q \in Pusher \ {p} : slot'[q] = slot[q]
  BY DEF TakeTicket, TypeOK
<1>. QED  BY <1>1, <1>3, <1>4, <1>5, <1>7, <1>8

(* Unlocking removes the pusher at the head of the line and moves the turn *)
(* by one.                                                                 *)
LEMMA LockPassed ==
  ASSUME TypeOK, HolderAtHead, NEW p \in Pusher, UnlockNext(p)
  PROVE  /\ InLock' = InLock \ {p} /\ p \in InLock /\ pc[p] = "next"
         /\ Cardinality(InLock)' = Cardinality(InLock) - 1
         /\ Cardinality(InLock) \in 1 .. OnnodeSize
         /\ tail' = tail /\ slot' = slot
         /\ slot[p] = Turn /\ Turn' = (slot[p] + 1) % OnnodeSize
<1>1. InLock' = InLock \ {p} /\ p \in InLock /\ pc[p] = "next"
  BY ZenonT(60), Moves DEF UnlockNext, At, Holding
<1>2. InLock \in SUBSET Pusher
  BY DEF InLock
<1>. DEFINE k == Cardinality(InLock)
<1>3. Cardinality(InLock)' = k - 1 /\ k \in 1 .. OnnodeSize
  <2>1. Cardinality(InLock)' = Cardinality(InLock')
    OBVIOUS
  <2>2. Cardinality(InLock) \in 0 .. OnnodeSize
        /\ Cardinality(InLock \ {p}) = Cardinality(InLock) - 1
    BY <1>1, <1>2, PusherSets
  <2>3. Cardinality(InLock \ {p}) \in 0 .. OnnodeSize
    <3>1. InLock \ {p} \in SUBSET Pusher
      BY <1>2
    <3>. QED  BY <3>1, PusherSets
  <2>. QED  BY <1>1, <2>1, <2>2, <2>3, Sizes
<1>4. tail' = tail /\ slot' = slot /\ tail \in Int
  BY Sizes DEF UnlockNext, TypeOK
<1>5. slot[p] = Turn
  BY <1>1 DEF HolderAtHead, Holding
<1>6. Turn' = (slot[p] + 1) % OnnodeSize
  <2>1. Turn' = (tail - (k - 1)) % OnnodeSize
    BY <1>3, <1>4 DEF Turn
  <2>. HIDE DEF k
  <2>2. tail - k \in Int /\ tail - (k - 1) = (tail - k) + 1
    BY <1>3, <1>4
  <2>3. (((tail - k) % OnnodeSize) + 1) % OnnodeSize = ((tail - k) + 1) % OnnodeSize
    BY <2>2, ModShift, Sizes
  <2>. QED  BY <1>5, <2>1, <2>2, <2>3 DEF Turn, k
<1>. QED  BY <1>1, <1>3, <1>4, <1>5, <1>6

(* The tickets in the line stay consecutive.                               *)
LEMMA TicketsStep ==
  ASSUME LockInv, [Next]_vars
  PROVE  TicketsInOrder'
<1>0. TypeOK /\ TicketsInOrder /\ HolderAtHead
  BY DEF LockInv
<1>. DEFINE k == Cardinality(InLock)
<1>1. ASSUME NEW p \in Pusher, TakeTicket(p)  PROVE TicketsInOrder'
  <2>1. InLock \in SUBSET Pusher /\ tail \in Int
    BY <1>0, Sizes DEF InLock, TypeOK
  <2>2. InLock' = InLock \cup {p} /\ p \notin InLock /\ k' = k + 1 /\ k \in 0 .. OnnodeSize - 1
    BY <1>0, <1>1, TicketDrawn
  <2>3. \A q \in InLock : slot'[q] = slot[q]
    BY <1>0, <1>1, <2>1, <2>2, TicketDrawn
  <2>4. slot'[p] = (tail' - 1) % OnnodeSize
    BY <1>0, <1>1, TicketDrawn
  <2>6. tail' = tail + 1 /\ tail' \in Int
    BY <1>0, <1>1, <2>1, TicketDrawn
  <2>. HIDE DEF k
  <2>7. ASSUME NEW i \in 1 .. k
        PROVE  (tail - i) % OnnodeSize = (tail' - (i + 1)) % OnnodeSize
    <3>1. tail' - (i + 1) = tail - i
      BY <2>1, <2>2, <2>6
    <3>. QED  BY <3>1
  <2>8. ASSUME NEW q \in InLock
        PROVE  /\ \E i \in 1 .. k' : slot'[q] = (tail' - i) % OnnodeSize
               /\ slot'[q] # slot'[p]
    <3>1. PICK i \in Int : 1 <= i /\ i <= k /\ slot[q] = (tail - i) % OnnodeSize
      BY <1>0, <2>2 DEF TicketsInOrder, k
    <3>2. slot'[q] = (tail' - (i + 1)) % OnnodeSize /\ i + 1 \in 1 .. k'
      <4>1. slot'[q] = (tail' - (i + 1)) % OnnodeSize
        BY <2>2, <2>3, <2>7, <3>1
      <4>. QED  BY <2>2, <3>1, <4>1
    <3>3. ASSUME slot'[q] = slot'[p]  PROVE FALSE
      <4>1. i \in 1 .. OnnodeSize - 1
        BY <2>2, <3>1, Sizes
      <4>. QED  BY <2>4, <2>6, <3>2, <3>3, <4>1, ModBack, Sizes
    <3>. QED  BY <3>2, <3>3
  <2>9. \A q \in InLock' : \E i \in 1 .. k' : slot'[q] = (tail' - i) % OnnodeSize
    <3>1. 1 \in 1 .. k'
      BY <2>2, Sizes
    <3>. QED  BY <2>2, <2>4, <2>8, <3>1
  <2>10. \A q, r \in InLock' : slot'[q] = slot'[r] => q = r
    <3>1. \A q, r \in InLock : slot'[q] = slot'[r] => q = r
      BY <1>0, <2>3 DEF TicketsInOrder
    <3>. QED  BY <2>2, <2>8, <3>1
  <2>. QED  BY <2>9, <2>10 DEF TicketsInOrder, k
<1>2. ASSUME NEW p \in Pusher, UnlockNext(p)  PROVE TicketsInOrder'
  <2>1. /\ InLock' = InLock \ {p} /\ p \in InLock /\ k' = k - 1 /\ k \in 1 .. OnnodeSize
        /\ tail' = tail /\ slot' = slot /\ slot[p] = Turn
    BY <1>0, <1>2, LockPassed
  <2>2. Turn = (tail - k) % OnnodeSize
    BY DEF Turn
  <2>. HIDE DEF k
  <2>3. ASSUME NEW q \in InLock'
        PROVE  \E i \in 1 .. k' : slot'[q] = (tail' - i) % OnnodeSize
    <3>1. PICK i \in 1 .. k : slot[q] = (tail - i) % OnnodeSize
      BY <1>0, <2>1 DEF TicketsInOrder, k
    <3>2. slot[q] # slot[p]
      BY <1>0, <2>1 DEF TicketsInOrder
    <3>3. i # k
      BY <2>1, <2>2, <3>1, <3>2
    <3>4. i \in 1 .. k'
      BY <2>1, <3>3, Sizes
    <3>. QED  BY <2>1, <3>1, <3>4
  <2>4. \A q, r \in InLock' : slot'[q] = slot'[r] => q = r
    BY <1>0, <2>1 DEF TicketsInOrder
  <2>. QED  BY <2>3, <2>4 DEF TicketsInOrder, k
<1>3. CASE \A p \in Pusher : ~TakeTicket(p) /\ ~UnlockNext(p)
  BY <1>0, <1>3, LockFrame DEF TicketsInOrder
<1>. QED  BY <1>1, <1>2, <1>3

(* Who holds the lock stays the head of the line.                          *)
LEMMA HolderStep ==
  ASSUME LockInv, [Next]_vars
  PROVE  HolderAtHead'
<1>0. TypeOK /\ TicketsInOrder /\ HolderAtHead /\ OneFlag
  BY DEF LockInv
<1>1. ASSUME NEW p \in Pusher, TakeTicket(p)  PROVE HolderAtHead'
  <2>1. Turn' = Turn /\ \A q \in Pusher \ {p} : slot'[q] = slot[q]
    BY <1>0, <1>1, TicketDrawn
  <2>2. pc'[p] = "spin" /\ \A q \in Pusher \ {p} : pc'[q] = pc[q]
    BY <1>0, <1>1, Moves DEF TakeTicket
  <2>. QED  BY <1>0, <2>1, <2>2 DEF HolderAtHead, Holding
<1>2. ASSUME NEW p \in Pusher, UnlockNext(p)  PROVE HolderAtHead'
  <2>1. slot[p] = Turn /\ slot' = slot /\ p \in InLock
    BY <1>0, <1>2, LockPassed
  <2>2. pc'[p] = "idle" /\ \A q \in Pusher \ {p} : pc'[q] = pc[q]
    BY <1>0, <1>2, Moves DEF UnlockNext
  <2>3. \A q \in Pusher \ {p} : pc[q] \notin Holding
    BY <1>0, <2>1 DEF HolderAtHead, TicketsInOrder, InLock
  <2>. QED  BY <2>2, <2>3 DEF HolderAtHead, Holding
<1>3. ASSUME NEW p \in Pusher, Enter(p)  PROVE HolderAtHead'
  <2>1. Turn' = Turn /\ slot' = slot
    BY <1>0, <1>3, LockFrame DEF Enter, TakeTicket, UnlockNext, At, Next, PushStep, TypeOK
  <2>2. slot[p] = Turn
    BY <1>0, <1>3 DEF Enter, OneFlag, TypeOK
  <2>3. \A q \in Pusher : q # p => pc'[q] = pc[q]
    BY <1>0, <1>3, Moves DEF Enter
  <2>. QED  BY <1>0, <2>1, <2>2, <2>3 DEF HolderAtHead
<1>4. CASE \A p \in Pusher : ~TakeTicket(p) /\ ~UnlockNext(p) /\ ~Enter(p)
  <2>1. Turn' = Turn /\ slot' = slot
    BY <1>0, <1>4, LockFrame
  <2>2. \A q \in Pusher : pc'[q] \in Holding => pc[q] \in Holding
    BY <1>0, <1>4 DEF Next, PushStep, Pop, Push, FindRoom, WriteTag, WriteSource, Advance, Publish, UnlockClear, At,
       PopEmpty, PopFinds, PopSource, PopTag, PopDone, vars, TypeOK, Holding
  <2>. QED  BY <1>0, <2>1, <2>2 DEF HolderAtHead
<1>. QED  BY <1>1, <1>2, <1>3, <1>4

(* At most one flag is set, that of the head, and none while it unlocks.   *)
LEMMA FlagStep ==
  ASSUME LockInv, [Next]_vars
  PROVE  OneFlag'
<1>0. TypeOK /\ TicketsInOrder /\ HolderAtHead /\ OneFlag
  BY DEF LockInv
<1>1. ASSUME NEW p \in Pusher, UnlockClear(p)  PROVE OneFlag'
  <2>1. Turn' = Turn
    BY <1>0, <1>1, LockFrame DEF UnlockClear, TakeTicket, UnlockNext, At, Next, PushStep, TypeOK
  <2>2. flags_array' = [flags_array EXCEPT ![Turn] = 0] /\ pc'[p] = "next"
    BY <1>0, <1>1 DEF UnlockClear, At, HolderAtHead, Holding, TypeOK
  <2>3. \A s \in Slots : s # Turn => flags_array[s] = 0
    BY <1>0 DEF OneFlag
  <2>. QED  BY <1>0, <2>1, <2>2, <2>3 DEF OneFlag, TypeOK
<1>2. ASSUME NEW p \in Pusher, UnlockNext(p)  PROVE OneFlag'
  <2>1. /\ slot[p] = Turn /\ slot' = slot /\ p \in InLock /\ pc[p] = "next"
        /\ Turn' = (slot[p] + 1) % OnnodeSize
    BY <1>0, <1>2, LockPassed
  <2>2. flags_array' = [flags_array EXCEPT ![Turn'] = 1]
    BY <1>2, <2>1 DEF UnlockNext
  <2>3. \A s \in Slots : flags_array[s] = 0
    BY <1>0, <2>1 DEF OneFlag, TypeOK
  <2>4. Turn' \in Slots
    BY <1>0, <2>1, Indices
  <2>5. \A q \in Pusher \ {p} : pc[q] # "next"
    BY <1>0, <2>1 DEF HolderAtHead, TicketsInOrder, InLock, Holding
  <2>6. \A q \in Pusher : pc'[q] # "next"
    BY <1>0, <1>2, <2>5, Moves DEF UnlockNext
  <2>. QED  BY <1>0, <2>2, <2>3, <2>4, <2>6 DEF OneFlag, TypeOK
<1>3. CASE \A p \in Pusher : ~UnlockClear(p) /\ ~UnlockNext(p)
  <2>1. Turn' = Turn
    BY <1>0, <1>3, LockFrame, TicketDrawn
  <2>2. flags_array' = flags_array
    BY <1>3 DEF Next, PushStep, Pop, Push, FindRoom, TakeTicket, Enter, WriteTag, WriteSource, Advance, Publish,
       PopEmpty, PopFinds, PopSource, PopTag, PopDone, vars, lockVars
  <2>3. \A q \in Pusher : pc'[q] = "next" <=> pc[q] = "next"
    BY <1>0, <1>3 DEF Next, PushStep, Pop, Push, FindRoom, TakeTicket, Enter, WriteTag, WriteSource, Advance, Publish, At,
       PopEmpty, PopFinds, PopSource, PopTag, PopDone, vars, TypeOK
  <2>. QED  BY <1>0, <2>1, <2>2, <2>3 DEF OneFlag
<1>. QED  BY <1>1, <1>2, <1>3

(* Two holders of the lock are one pusher.                                 *)
LEMMA OneHolder ==
  ASSUME LockInv, NEW p \in Pusher, NEW q \in Pusher,
         pc[p] \in Holding, pc[q] \in Holding
  PROVE  p = q
BY DEF LockInv, HolderAtHead, TicketsInOrder, InLock

---------------------------------------------------------------------------
(* Every push begun is counted once, by its pusher or in count.            *)

(* outstanding stays what is in the ring and what is being pushed.         *)
LEMMA AccountedStep ==
  ASSUME LockInv, [Next]_vars
  PROVE  Accounted'
<1>0. TypeOK /\ Accounted
  BY DEF LockInv
<1>. DEFINE n == Cardinality(Pushing)
<1>a. Pushing \in SUBSET Pusher
  BY DEF Pushing
<1>b. n \in Nat /\ count \in Nat /\ outstanding \in Nat /\ outstanding = count + n
  BY <1>0, <1>a, PusherSets, SizeAssumption DEF TypeOK, Accounted
<1>c. ASSUME Pushing' = Pushing, UNCHANGED <<count, outstanding, owner_pc>>  PROVE Accounted'
  BY <1>0, <1>c DEF Accounted
<1>d. ASSUME NEW p \in Pusher, NEW a, NEW b, At(p, a, b),
             a \in Uncounted <=> b \in Uncounted
      PROVE  Pushing' = Pushing
  BY <1>0, <1>d, Moves
<1>. USE DEF lockVars, ownerVars
<1>1. ASSUME NEW p \in Pusher, Push(p)  PROVE Accounted'
  <2>1. Pushing' = Pushing \cup {p} /\ p \notin Pushing
    BY <1>0, <1>1, Moves DEF Push, Uncounted
  <2>2. n' = n + 1
    BY <1>a, <2>1, PusherSets
  <2>. HIDE DEF n
  <2>3. outstanding' = count' + n'
    BY <1>b, <1>1, <2>2 DEF Push
  <2>. QED  BY <1>0, <1>1, <2>3 DEF Accounted, Push, n
<1>2. ASSUME NEW p \in Pusher, FindRoom(p) \/ TakeTicket(p) \/ Enter(p)  PROVE Accounted'
  <2>1. Pushing' = Pushing
    BY <1>d, <1>2 DEF FindRoom, TakeTicket, Enter, Uncounted
  <2>. QED  BY <1>c, <1>2, <2>1 DEF FindRoom, TakeTicket, Enter
<1>2a. ASSUME NEW p \in Pusher, WriteTag(p) \/ WriteSource(p) \/ Advance(p)  PROVE Accounted'
  <2>1. Pushing' = Pushing
    BY <1>d, <1>2a DEF WriteTag, WriteSource, Advance, Uncounted
  <2>. QED  BY <1>c, <1>2a, <2>1 DEF WriteTag, WriteSource, Advance
<1>3. ASSUME NEW p \in Pusher, UnlockClear(p) \/ UnlockNext(p)  PROVE Accounted'
  <2>1. Pushing' = Pushing
    BY <1>d, <1>3 DEF UnlockClear, UnlockNext, Uncounted
  <2>. QED  BY <1>c, <1>3, <2>1 DEF UnlockClear, UnlockNext
<1>4. ASSUME NEW p \in Pusher, Publish(p)  PROVE Accounted'
  <2>1. Pushing' = Pushing \ {p} /\ p \in Pushing
    BY <1>0, <1>4, Moves DEF Publish, Uncounted
  <2>2. n' = n - 1
    BY <1>a, <2>1, PusherSets
  <2>. HIDE DEF n
  <2>3. outstanding' = count' + n' /\ count' > 0
    BY <1>b, <1>4, <2>2 DEF Publish
  <2>. QED  BY <2>3 DEF Accounted, n
<1>5. ASSUME PopDone  PROVE Accounted'
  <2>1. Pushing' = Pushing
    BY <1>5 DEF PopDone, Pushing
  <2>2. outstanding' = count' + n
    BY <1>b, <1>5 DEF PopDone
  <2>. QED  BY <1>5, <2>1, <2>2 DEF Accounted, PopDone
<1>6. ASSUME PopFinds \/ PopSource \/ PopTag  PROVE Accounted'
  <2>1. Pushing' = Pushing
    BY <1>6 DEF PopFinds, PopSource, PopTag, Pushing
  <2>2. count' = count /\ outstanding' = outstanding
    BY <1>6 DEF PopFinds, PopSource, PopTag
  <2>3. count > 0
    BY <1>0, <1>b, <1>6 DEF PopFinds, PopSource, PopTag, Accounted
  <2>. QED  BY <1>b, <2>1, <2>2, <2>3 DEF Accounted
<1>7. CASE PopEmpty \/ UNCHANGED vars
  <2>1. Pushing' = Pushing
    BY <1>7 DEF PopEmpty, vars, Pushing
  <2>. QED  BY <1>c, <1>7, <2>1 DEF PopEmpty, vars
<1>. QED  BY <1>1, <1>2, <1>2a, <1>3, <1>4, <1>5, <1>6, <1>7 DEF Next, PushStep, Pop

(* A push that begins has a ticket left, and a ticket is drawn once.       *)
LEMMA TicketsLeftStep ==
  ASSUME LockInv, [Next]_vars
  PROVE  TicketsLeft'
<1>0. TypeOK /\ TicketsLeft
  BY DEF LockInv
<1>. DEFINE n == Cardinality(Waiting)
<1>a. Waiting \in SUBSET Pusher
  BY DEF Waiting
<1>b. n \in Nat /\ tail \in Nat /\ TailMax \in Nat /\ tail + n <= TailMax
  BY <1>0, <1>a, PusherSets, Sizes DEF TypeOK, TicketsLeft, Begun, Waiting
<1>c. ASSUME tail' + n' <= TailMax  PROVE TicketsLeft'
  BY <1>c DEF TicketsLeft, Begun, Waiting
<1>d. ASSUME tail' = tail, Waiting' = Waiting  PROVE TicketsLeft'
  BY <1>b, <1>c, <1>d
<1>. USE DEF lockVars, ownerVars
<1>1. ASSUME NEW p \in Pusher, Push(p)  PROVE TicketsLeft'
  <2>1. Waiting' = Waiting \cup {p} /\ p \notin Waiting
    BY <1>0, <1>1, Moves DEF Push
  <2>2. n' = n + 1
    BY <1>a, <2>1, PusherSets
  <2>3. tail' = tail /\ tail + n < TailMax
    BY <1>1 DEF Push, Begun, Waiting
  <2>. HIDE DEF n
  <2>. QED  BY <1>b, <1>c, <2>2, <2>3
<1>2. ASSUME NEW p \in Pusher, TakeTicket(p)  PROVE TicketsLeft'
  <2>1. Waiting' = Waiting \ {p} /\ p \in Waiting
    BY <1>0, <1>2, Moves DEF TakeTicket
  <2>2. n' = n - 1
    BY <1>a, <2>1, PusherSets
  <2>3. tail' = tail + 1
    BY <1>2 DEF TakeTicket
  <2>. HIDE DEF n
  <2>. QED  BY <1>b, <1>c, <2>2, <2>3
<1>3. ASSUME NEW p \in Pusher, FindRoom(p)  PROVE TicketsLeft'
  <2>1. Waiting' = Waiting
    BY <1>0, <1>3, Moves DEF FindRoom
  <2>. QED  BY <1>3, <1>d, <2>1 DEF FindRoom
<1>4. CASE \A p \in Pusher : ~Push(p) /\ ~FindRoom(p) /\ ~TakeTicket(p)
  <2>1. tail' = tail
    BY <1>4 DEF Next, PushStep, Pop, Enter, WriteTag, WriteSource, Advance, Publish, UnlockClear,
       UnlockNext, PopEmpty, PopFinds, PopSource, PopTag, PopDone, vars
  <2>2. \A q \in Pusher : pc'[q] \in {"full?", "ticket"} <=> pc[q] \in {"full?", "ticket"}
    BY <1>0, <1>4 DEF Next, PushStep, Pop, Enter, WriteTag, WriteSource, Advance, Publish, At,
       UnlockClear, UnlockNext, PopEmpty, PopFinds, PopSource, PopTag, PopDone, vars, TypeOK
  <2>. QED  BY <1>d, <2>1, <2>2 DEF Waiting
<1>. QED  BY <1>1, <1>2, <1>3, <1>4

(* The initial states satisfy the invariant of the lock.                   *)
LEMMA LockInit == Init => LockInv
<1>. SUFFICES ASSUME Init  PROVE LockInv
  OBVIOUS
<1>1. TypeOK
  <2>1. /\ tail \in 0 .. TailMax /\ inser_ind \in Entries /\ extract_ind \in Entries
        /\ outstanding \in 0 .. Credit /\ 0 \in Slots /\ 1 \in 1 .. MaxPush
    BY Sizes, SizeAssumption DEF Init, Slots, Entries
  <2>2. Nothing \in Entry
    BY DEF Nothing, Entry
  <2>. QED  BY <2>1, <2>2 DEF Init, TypeOK, PcStates
<1>2. InLock = {} /\ Pushing = {} /\ Waiting = {} /\ \A p \in Pusher : pc[p] \notin Holding
  BY DEF Init, InLock, Pushing, Uncounted, Waiting, Holding
<1>3. Cardinality(InLock) = 0 /\ Cardinality(Pushing) = 0 /\ Cardinality(Waiting) = 0
  BY <1>2, FS_EmptySet
<1>4. Turn = 0
  <2>1. tail - Cardinality(InLock) = 0 /\ 0 \in 0 .. OnnodeSize - 1
    BY <1>3, Sizes DEF Init
  <2>. QED  BY <2>1, ModSmall, Sizes DEF Turn
<1>5. OneFlag
  BY <1>4 DEF Init, OneFlag
<1>6. Accounted
  BY <1>3 DEF Init, Accounted
<1>7. TicketsLeft
  BY <1>3, Sizes DEF Init, TicketsLeft, Begun, Waiting
<1>. QED  BY <1>1, <1>2, <1>5, <1>6, <1>7 DEF LockInv, TicketsInOrder, HolderAtHead

(* Every step keeps the invariant of the lock.                             *)
LEMMA LockStep == LockInv /\ [Next]_vars => LockInv'
BY TypeStep, TicketsStep, HolderStep, FlagStep, AccountedStep, TicketsLeftStep DEF LockInv

(* The array lock works for any number of processes of a node: one pusher  *)
(* at a time writes the ring, however full it is, as long as the ticket    *)
(* counter, an int, does not overflow.                                     *)
THEOREM OnePusherCorrect == Spec => []OnePusher
<1>1. LockInv => OnePusher
  <2>1. Critical \subseteq Holding
    BY DEF Critical, Holding
  <2>. QED  BY <2>1, OneHolder DEF LockInv, OnePusher
<1>. QED  BY <1>1, LockInit, LockStep, PTL DEF Spec

---------------------------------------------------------------------------
(* The ring.  Entries are named by their distance from extract_ind.        *)

(* How many entries are published, and the one the owner has read but not  *)
(* taken off.                                                              *)
LEMMA RingTypes ==
  ASSUME LockInv
  PROVE  /\ Published \in Nat /\ Unpublished \in {0, 1} /\ Reserved \in {0, 1} /\ count \in Nat
         /\ Published <= count /\ extract_ind \in Int
         /\ (owner_pc = "done" => Published = count - 1 /\ count > 0)
         /\ (owner_pc # "done" => Published = count)
<1>1. count \in Nat /\ (owner_pc = "done" => count > 0) /\ extract_ind \in Int
  BY Sizes DEF LockInv, TypeOK, Accounted, Entries
<1>. QED  BY <1>1 DEF Published, Unpublished, Reserved

\* a pusher's message is one
LEMMA SentType ==
  ASSUME LockInv, NEW p \in Pusher
  PROVE  Sent(p) \in Message
BY DEF LockInv, TypeOK, Sent, Message

\* what is to be proved of a step that leaves the published entries alone
Kept ==
  /\ RingAligned'
  /\ ~overrun' => /\ UNCHANGED <<Published, extract_ind, last>>
                  /\ \A i \in 0 .. Published - 1 :
                       queue_array'[(extract_ind + i) % Capacity]
                         = queue_array[(extract_ind + i) % Capacity]

(* The pusher with the lock writes where nothing is published.             *)
LEMMA WriteAside ==
  ASSUME LockInv, RingOK, NEW p \in Pusher, pc[p] \in {"tag", "source"}, count < Capacity,
         NEW v, queue_array' = [queue_array EXCEPT ![inser_ind] = v]
  PROVE  /\ Unpublished = 0 /\ queue_array'[inser_ind] = v
         /\ \A i \in 0 .. Published - 1 :
              queue_array'[(extract_ind + i) % Capacity]
                = queue_array[(extract_ind + i) % Capacity]
         /\ owner_pc = "tag" => queue_array'[extract_ind] = queue_array[extract_ind]
<1>. DEFINE l == Published  e == extract_ind
<1>1. TypeOK
  BY DEF LockInv
<1>3. Unpublished = 0
  <2>1. pc[p] \in Holding /\ pc[p] # "publish" /\ "publish" \in Holding
    BY DEF Holding
  <2>. QED  BY <2>1, OneHolder DEF Unpublished
<1>6. l \in Nat /\ l <= count /\ e \in Int /\ count \in Nat
  BY RingTypes
<1>7. inser_ind = (e + l) % Capacity /\ inser_ind \in Entries
  <2>1. inser_ind = (e + l + 0) % Capacity
    BY <1>3 DEF RingOK
  <2>2. e + l + 0 = e + l
    BY <1>6
  <2>. QED  BY <1>1, <2>1, <2>2 DEF TypeOK
<1>8. owner_pc = "tag" => l > 0 /\ e = (e + 0) % Capacity
  <2>1. owner_pc = "tag" => l > 0
    BY RingTypes DEF LockInv, Accounted
  <2>2. e \in 0 .. Capacity - 1 /\ e + 0 = e
    BY <1>1, <1>6 DEF TypeOK, Entries
  <2>3. e % Capacity = e
    BY <2>2, ModSmall, Sizes
  <2>. QED  BY <2>1, <2>2, <2>3
<1>. HIDE DEF l, e
<1>10. ASSUME NEW i \in 0 .. l - 1
       PROVE  queue_array'[(e + i) % Capacity] = queue_array[(e + i) % Capacity]
  <2>1. i \in 0 .. Capacity - 1 /\ l \in 0 .. Capacity - 1 /\ i # l
    BY <1>6, Sizes
  <2>2. (e + i) % Capacity # inser_ind
    BY <1>6, <1>7, <2>1, ModOn, Sizes
  <2>3. (e + i) % Capacity \in Entries
    <3>1. e + i \in Int
      BY <1>6
    <3>. QED  BY <3>1, ModType, Sizes DEF Entries
  <2>. QED  BY <1>1, <2>2, <2>3 DEF TypeOK
<1>11. queue_array'[inser_ind] = v
  BY <1>1, <1>7 DEF TypeOK
<1>12. ASSUME owner_pc = "tag"  PROVE queue_array'[e] = queue_array[e]
  <2>1. 0 \in 0 .. l - 1
    BY <1>6, <1>8, <1>12
  <2>. QED  BY <1>8, <1>10, <1>12, <2>1
<1>. QED  BY <1>3, <1>10, <1>11, <1>12 DEF l, e

(* So does writing the tag, unless the ring is overrun.                    *)
LEMMA WriteTagStep ==
  ASSUME LockInv, RingAligned, NEW p \in Pusher, WriteTag(p)
  PROVE  Kept
<1>1. SUFFICES ASSUME ~overrun'
               PROVE  /\ RingOK' /\ UNCHANGED <<Published, extract_ind, last>>
                      /\ \A i \in 0 .. Published - 1 :
                           queue_array'[(extract_ind + i) % Capacity]
                             = queue_array[(extract_ind + i) % Capacity]
  BY DEF RingAligned, Kept
<1>2. TypeOK /\ RingOK /\ count < Capacity /\ count \in Nat
  <2>1. ~overrun /\ ~(count >= Capacity) /\ count \in Nat
    BY <1>1, RingTypes DEF WriteTag
  <2>. QED  BY <2>1, Sizes DEF LockInv, RingAligned
<1>. DEFINE v == [queue_array[inser_ind] EXCEPT !.tag = sent[p]]
<1>3. /\ pc[p] = "tag" /\ pc'[p] = "source" /\ \A q \in Pusher : q # p => pc'[q] = pc[q]
      /\ UNCHANGED <<count, inser_ind, sent, owner_pc, rank, extract_ind, last>>
  BY <1>2, Moves DEF WriteTag, ownerVars
<1>3a. queue_array' = [queue_array EXCEPT ![inser_ind] = v]
  BY DEF WriteTag
<1>4. \A q \in Pusher : q # p => pc[q] \notin Holding
  BY <1>3, OneHolder DEF Holding
<1>5. v.tag = sent[p]
  BY <1>2 DEF TypeOK, Entry
<1>. HIDE DEF v
<1>6. /\ Unpublished = 0 /\ queue_array'[inser_ind] = v
      /\ \A i \in 0 .. Published - 1 :
           queue_array'[(extract_ind + i) % Capacity] = queue_array[(extract_ind + i) % Capacity]
      /\ owner_pc = "tag" => queue_array'[extract_ind] = queue_array[extract_ind]
  BY <1>2, <1>3, <1>3a, WriteAside
<1>7. Published' = Published /\ Unpublished' = 0 /\ Reserved' = 1
  BY <1>3, <1>4 DEF Published, Unpublished, Reserved, Holding
<1>8. \A q \in Pusher : Written(q)'
  BY <1>3, <1>4, <1>5, <1>6 DEF Written, Holding
<1>9. RingOK'
  BY <1>2, <1>3, <1>6, <1>7, <1>8, Sizes DEF RingOK
<1>. QED  BY <1>3, <1>6, <1>7, <1>9

(* And writing the source.                                                 *)
LEMMA WriteSourceStep ==
  ASSUME LockInv, RingAligned, NEW p \in Pusher, WriteSource(p)
  PROVE  Kept
<1>1. SUFFICES ASSUME ~overrun'
               PROVE  /\ RingOK' /\ UNCHANGED <<Published, extract_ind, last>>
                      /\ \A i \in 0 .. Published - 1 :
                           queue_array'[(extract_ind + i) % Capacity]
                             = queue_array[(extract_ind + i) % Capacity]
  BY DEF RingAligned, Kept
<1>2. TypeOK /\ RingOK
  BY <1>1 DEF LockInv, WriteSource, RingAligned
<1>. DEFINE v == [queue_array[inser_ind] EXCEPT !.source = p]
<1>3. /\ pc[p] = "source" /\ pc'[p] = "index" /\ \A q \in Pusher : q # p => pc'[q] = pc[q]
      /\ UNCHANGED <<count, inser_ind, sent, owner_pc, rank, extract_ind, last>>
  BY <1>2, Moves DEF WriteSource, ownerVars
<1>3a. queue_array' = [queue_array EXCEPT ![inser_ind] = v]
  BY DEF WriteSource
<1>4. \A q \in Pusher : q # p => pc[q] \notin Holding
  BY <1>3, OneHolder DEF Holding
<1>5. v = Sent(p)
  <2>1. queue_array[inser_ind].tag = sent[p]
    BY <1>2, <1>3 DEF RingOK, Written
  <2>. QED  BY <1>2, <2>1 DEF TypeOK, Entry, Sent
<1>5a. Reserved = 1 /\ count + 1 <= Capacity /\ count < Capacity
  <2>1. Reserved = 1
    BY <1>3 DEF Reserved
  <2>. QED  BY <1>2, <2>1, RingTypes, Sizes DEF RingOK
<1>. HIDE DEF v
<1>6. /\ Unpublished = 0 /\ queue_array'[inser_ind] = v
      /\ \A i \in 0 .. Published - 1 :
           queue_array'[(extract_ind + i) % Capacity] = queue_array[(extract_ind + i) % Capacity]
      /\ owner_pc = "tag" => queue_array'[extract_ind] = queue_array[extract_ind]
  BY <1>2, <1>3, <1>3a, <1>5a, WriteAside
<1>7. Published' = Published /\ Unpublished' = 0 /\ Reserved' = 1
  BY <1>3, <1>4 DEF Published, Unpublished, Reserved, Holding
<1>8. \A q \in Pusher : Written(q)'
  BY <1>3, <1>4, <1>5, <1>6 DEF Written, Holding, Sent
<1>9. RingOK'
  BY <1>2, <1>3, <1>5a, <1>6, <1>7, <1>8 DEF RingOK
<1>. QED  BY <1>3, <1>6, <1>7, <1>9

(* Moving the index past the entry leaves the entries as they are.         *)
LEMMA AdvanceStep ==
  ASSUME LockInv, RingAligned, NEW p \in Pusher, Advance(p)
  PROVE  Kept
<1>0. /\ pc[p] = "index" /\ inser_ind' = (inser_ind + 1) % Capacity
      /\ UNCHANGED <<queue_array, count, sent, overrun, owner_pc, rank, extract_ind, last>>
  BY DEF Advance, At, ownerVars
<1>1. Published' = Published
  BY <1>0 DEF Published
<1>2. ASSUME ~overrun'  PROVE RingOK'
  <2>1. TypeOK /\ RingOK
    BY <1>0, <1>2 DEF LockInv, RingAligned
  <2>2. pc'[p] = "publish" /\ \A q \in Pusher : q # p => pc'[q] = pc[q]
    BY <2>1, Moves DEF Advance
  <2>3. \A q \in Pusher : q # p => pc[q] \notin Holding
    BY <1>0, OneHolder DEF Holding
  <2>4. Unpublished = 0 /\ Reserved = 1 /\ Unpublished' = 1 /\ Reserved' = 1
    BY <1>0, <2>2, <2>3 DEF Unpublished, Reserved, Holding
  <2>5. Published \in Nat /\ extract_ind \in Int
    BY RingTypes
  <2>6. inser_ind = (extract_ind + Published) % Capacity
    <3>1. extract_ind + Published + 0 = extract_ind + Published
      BY <2>5
    <3>. QED  BY <2>1, <2>4, <3>1 DEF RingOK
  <2>7. inser_ind' = (extract_ind + Published + 1) % Capacity
    <3>1. extract_ind + Published \in Int
      BY <2>5
    <3>2. (((extract_ind + Published) % Capacity) + 1) % Capacity
            = (extract_ind + Published + 1) % Capacity
      BY <3>1, ModShift, Sizes
    <3>. QED  BY <1>0, <2>6, <3>2
  <2>8. queue_array[(extract_ind + Published) % Capacity] = Sent(p)
    BY <1>0, <2>1, <2>6 DEF RingOK, Written
  <2>9. \A q \in Pusher : Written(q)'
    BY <1>0, <1>1, <2>2, <2>3, <2>8 DEF Written, Holding, Sent
  <2>. QED  BY <1>0, <1>1, <2>1, <2>4, <2>7, <2>9 DEF RingOK
<1>. QED  BY <1>0, <1>1, <1>2 DEF Kept, RingAligned

(* Publishing makes one more entry readable and changes none.              *)
LEMMA PublishStep ==
  ASSUME LockInv, RingAligned, NEW p \in Pusher, Publish(p)
  PROVE  /\ RingAligned' /\ Published' = Published + 1
         /\ UNCHANGED <<queue_array, extract_ind, overrun, last>>
<1>. DEFINE l == Published  e == extract_ind
<1>1. /\ pc[p] = "publish" /\ count' = count + 1
      /\ UNCHANGED <<inser_ind, queue_array, sent, overrun, owner_pc, rank, extract_ind, last>>
  BY DEF Publish, At, ownerVars
<1>2. pc'[p] = "clear" /\ \A q \in Pusher : q # p => pc'[q] = pc[q]
  BY Moves DEF Publish, LockInv
<1>3. \A q \in Pusher : q # p => pc[q] \notin Holding
  BY <1>1, OneHolder DEF Holding
<1>4. Unpublished = 1 /\ Reserved = 1 /\ Unpublished' = 0 /\ Reserved' = 0
  BY <1>1, <1>2, <1>3 DEF Unpublished, Reserved, Holding
<1>5. l' = l + 1 /\ l \in Nat /\ count \in Nat /\ e \in Int
  BY <1>1, RingTypes DEF Published
<1>6. ASSUME ~overrun'  PROVE RingOK'
  <2>1. RingOK
    BY <1>1, <1>6 DEF RingAligned
  <2>2. count + 1 <= Capacity /\ inser_ind = (e + l + 1) % Capacity
        /\ \A i \in 0 .. l - 1 : queue_array[(e + i) % Capacity] \in Message
    BY <1>4, <2>1 DEF RingOK
  <2>3. queue_array[(e + l) % Capacity] \in Message
    BY <1>1, <2>1, SentType DEF RingOK, Written
  <2>4. count' + Reserved' <= Capacity
    BY <1>1, <1>4, <1>5, <2>2
  <2>5. \A q \in Pusher : Written(q)'
    BY <1>2, <1>3 DEF Written, Holding
  <2>5a. owner_pc' = "tag" => rank' = queue_array'[extract_ind'].source
    BY <1>1, <2>1 DEF RingOK
  <2>. HIDE DEF l, e
  <2>6. e + (l + 1) + 0 = e + l + 1
    BY <1>5
  <2>7. \A i \in 0 .. (l + 1) - 1 : i = l \/ i \in 0 .. l - 1
    BY <1>5
  <2>8. \A i \in 0 .. l' - 1 : queue_array'[(e + i) % Capacity] \in Message
    BY <1>1, <1>5, <2>2, <2>3, <2>7
  <2>9. inser_ind' = (e + l' + Unpublished') % Capacity
    BY <1>1, <1>4, <1>5, <2>2, <2>6
  <2>. QED  BY <1>1, <2>4, <2>5, <2>5a, <2>8, <2>9 DEF RingOK, l, e
<1>. QED  BY <1>1, <1>5, <1>6 DEF RingAligned

(* The first field that the owner reads is that of the oldest entry.       *)
LEMMA ReadSourceStep ==
  ASSUME LockInv, RingAligned, PopSource
  PROVE  Kept
<1>1. /\ UNCHANGED <<queue_array, overrun, inser_ind, count, pc, sent, extract_ind, last>>
      /\ rank' = queue_array[extract_ind].source
      /\ owner_pc = "source" /\ owner_pc' = "tag"
  BY DEF PopSource, lockVars
<1>2. UNCHANGED <<Published, Unpublished, Reserved>>
  BY <1>1 DEF Published, Unpublished, Reserved
<1>3. \A q \in Pusher : Written(q) => Written(q)'
  BY <1>1, <1>2 DEF Written, Sent
<1>4. RingAligned'
  BY <1>1, <1>2, <1>3 DEF RingAligned, RingOK
<1>. QED  BY <1>1, <1>2, <1>4 DEF Kept

(* The second completes the oldest published entry and takes it off.       *)
LEMMA ReadStep ==
  ASSUME LockInv, RingAligned, PopTag
  PROVE  /\ RingAligned' /\ Published' = Published - 1 /\ Published \in Nat \ {0}
         /\ UNCHANGED <<queue_array, overrun>>
         /\ ~overrun => last' = queue_array[extract_ind]
         /\ extract_ind' = (extract_ind + 1) % Capacity
<1>. DEFINE l == Published  e == extract_ind  u == Unpublished
<1>1. /\ UNCHANGED <<queue_array, overrun, inser_ind, count, pc, sent, rank>>
      /\ last' = [source |-> rank, tag |-> queue_array[e].tag]
      /\ e' = (e + 1) % Capacity /\ owner_pc = "tag" /\ owner_pc' = "done"
  BY DEF PopTag, lockVars
<1>2. /\ l = count /\ l' = count - 1 /\ l \in Nat \ {0} /\ e \in Int /\ e' \in Int
      /\ u \in {0, 1} /\ u' = u /\ Reserved' = Reserved
  <2>1. count > 0
    BY <1>1 DEF LockInv, Accounted
  <2>2. e' \in Int
    BY TypeStep, Sizes DEF TypeOK, Entries, Next, Pop
  <2>. QED  BY <1>1, <2>1, <2>2, RingTypes DEF Published, Unpublished, Reserved
<1>3. ASSUME ~overrun  PROVE RingOK' /\ last' = queue_array[e]
  <2>1. /\ count + Reserved <= Capacity /\ inser_ind = (e + l + u) % Capacity
        /\ \A i \in 0 .. l - 1 : queue_array[(e + i) % Capacity] \in Message
        /\ \A q \in Pusher : Written(q)
        /\ rank = queue_array[e].source
    BY <1>1, <1>3 DEF RingAligned, RingOK
  <2>a. e % Capacity = e
    BY ModSmall, Sizes DEF LockInv, TypeOK, Entries
  <2>. HIDE DEF l, e, u
  <2>2. \A d \in Int : (e' + d) % Capacity = (e + 1 + d) % Capacity
    <3>1. e + 1 \in Int
      BY <1>2
    <3>2. \A d \in Int : (((e + 1) % Capacity) + d) % Capacity = (e + 1 + d) % Capacity
      BY <3>1, ModShift, Sizes
    <3>. QED  BY <1>1, <3>2
  <2>3. inser_ind' = (e' + l' + u') % Capacity
    <3>1. l - 1 + u \in Int /\ e + 1 + (l - 1 + u) = e + l + u
      BY <1>2
    <3>2. (e' + (l - 1 + u)) % Capacity = (e + l + u) % Capacity
      BY <2>2, <3>1
    <3>3. e' + (l - 1 + u) = e' + l' + u'
      BY <1>2
    <3>. QED  BY <1>1, <2>1, <3>2, <3>3
  <2>4. ASSUME NEW i \in 0 .. l' - 1
        PROVE  queue_array'[(e' + i) % Capacity] \in Message
    <3>1. i \in Int /\ i + 1 \in 0 .. l - 1
      BY <1>2
    <3>2. e + 1 + i = e + (i + 1)
      BY <1>2, <3>1
    <3>3. (e' + i) % Capacity = (e + (i + 1)) % Capacity
      BY <2>2, <3>1, <3>2
    <3>. QED  BY <1>1, <2>1, <3>1, <3>3
  <2>5. (e' + l') % Capacity = (e + l) % Capacity
    <3>1. l' \in Int /\ e + 1 + l' = e + l
      BY <1>2
    <3>. QED  BY <2>2, <3>1
  <2>6. \A q \in Pusher : Written(q)'
    BY <1>1, <2>1, <2>5 DEF Written, Sent, l, e
  <2>7. last' = queue_array[e]
    <3>1. 0 \in 0 .. l - 1 /\ e + 0 = e
      BY <1>2
    <3>2. queue_array[e] \in Message
      BY <2>1, <2>a, <3>1
    <3>. QED  BY <1>1, <2>1, <3>2 DEF Message
  <2>8. count' + Reserved' <= Capacity
    BY <1>1, <1>2, <2>1
  <2>. QED  BY <1>1, <2>3, <2>4, <2>6, <2>7, <2>8 DEF RingOK, l, e, u
<1>. QED  BY <1>1, <1>2, <1>3 DEF RingAligned

(* The decrement of count leaves what is published alone.                  *)
LEMMA DoneStep ==
  ASSUME LockInv, RingAligned, PopDone
  PROVE  Kept
<1>1. /\ UNCHANGED <<queue_array, overrun, inser_ind, extract_ind, pc, sent, last>>
      /\ count' = count - 1 /\ owner_pc = "done" /\ owner_pc' = "idle"
  BY DEF PopDone, lockVars
<1>2. UNCHANGED <<Published, Unpublished, Reserved>>
  BY <1>1, RingTypes DEF Published, Unpublished, Reserved
<1>3. count + Reserved <= Capacity => count' + Reserved' <= Capacity
  BY <1>1, <1>2, RingTypes, Sizes
<1>4. \A q \in Pusher : Written(q) => Written(q)'
  BY <1>1, <1>2 DEF Written, Sent
<1>5. RingAligned'
  BY <1>1, <1>2, <1>3, <1>4 DEF RingAligned, RingOK
<1>. QED  BY <1>1, <1>2, <1>5 DEF Kept

\* the steps that do not touch the ring
LEMMA OtherStep ==
  ASSUME LockInv, RingAligned, [Next]_vars, ~PopSource, ~PopTag, ~PopDone,
         \A p \in Pusher : ~WriteTag(p) /\ ~WriteSource(p) /\ ~Advance(p) /\ ~Publish(p)
  PROVE  Kept
<1>. USE DEF lockVars, ownerVars
<1>1. UNCHANGED <<count, inser_ind, queue_array, extract_ind, overrun, last, rank>>
  BY DEF Next, PushStep, Pop, Push, FindRoom, TakeTicket, Enter, UnlockClear, UnlockNext,
     PopEmpty, PopFinds, vars
<1>2. /\ owner_pc' = "done" <=> owner_pc = "done"
      /\ owner_pc' = "tag" <=> owner_pc = "tag"
  BY DEF Next, PushStep, Pop, Push, FindRoom, TakeTicket, Enter, UnlockClear, UnlockNext,
     PopEmpty, PopFinds, vars
<1>3. \A q \in Pusher : \A a \in {"source", "index", "publish"} : pc'[q] = a <=> pc[q] = a
  BY DEF Next, PushStep, Pop, Push, FindRoom, TakeTicket, Enter, UnlockClear, UnlockNext,
     PopEmpty, PopFinds, vars, At, LockInv, TypeOK
<1>3a. \A q \in Pusher : pc[q] \in {"source", "index", "publish"} => sent'[q] = sent[q]
  BY DEF Next, PushStep, Pop, Push, FindRoom, TakeTicket, Enter, UnlockClear, UnlockNext,
     PopEmpty, PopFinds, vars, At, LockInv, TypeOK
<1>4. UNCHANGED <<Published, Unpublished, Reserved>>
  BY <1>1, <1>2, <1>3 DEF Published, Unpublished, Reserved
<1>5. \A q \in Pusher : Written(q) => Written(q)'
  BY <1>1, <1>3, <1>3a, <1>4 DEF Written, Sent
<1>6. RingAligned'
  BY <1>1, <1>2, <1>4, <1>5 DEF RingAligned, RingOK
<1>. QED  BY <1>1, <1>4, <1>6 DEF Kept

(* Every step keeps the invariant of the ring.                             *)
LEMMA RingStep == IInv /\ [Next]_vars => IInv'
<1>. SUFFICES ASSUME LockInv, RingAligned, [Next]_vars  PROVE RingAligned'
  BY LockStep DEF IInv
<1>. USE DEF Kept
<1>. QED  BY WriteTagStep, WriteSourceStep, AdvanceStep, PublishStep, ReadSourceStep, ReadStep,
             DoneStep, OtherStep

(* The initial states satisfy the invariant of the ring.                   *)
LEMMA RingInit == Init => IInv
<1>. SUFFICES ASSUME Init  PROVE RingAligned
  BY LockInit DEF IInv
<1>1. Published = 0 /\ Unpublished = 0 /\ Reserved = 0
  BY DEF Init, Published, Unpublished, Reserved
<1>2. (extract_ind + Published + Unpublished) % Capacity = 0
  <2>1. extract_ind + Published + Unpublished = 0 /\ 0 \in 0 .. Capacity - 1
    BY <1>1, Sizes DEF Init
  <2>. QED  BY <2>1, ModSmall, Sizes
<1>3. 0 .. Published - 1 = {} /\ count + Reserved <= Capacity
  BY <1>1, Sizes DEF Init
<1>. QED  BY <1>2, <1>3 DEF Init, RingAligned, RingOK, Written

---------------------------------------------------------------------------
(* The refinement.  Contents is the sequence of the Published entries.     *)

ContentsMatch ==
  /\ Contents \in Seq(Message) /\ Len(Contents) = Published
  /\ \A i \in 1 .. Published :
       Contents[i] = queue_array[(extract_ind + i - 1) % Capacity]

(* Until it is overrun, the ring holds the abstract queue's contents.      *)
LEMMA ContentsIs == IInv /\ ~overrun => ContentsMatch
<1>. SUFFICES ASSUME LockInv, RingAligned, ~overrun  PROVE ContentsMatch
  BY DEF IInv
<1>1. Contents = [i \in 1 .. Published |-> queue_array[(extract_ind + i - 1) % Capacity]]
  BY DEF Contents, Published
<1>2. Published \in Nat /\ extract_ind \in Int
  BY RingTypes
<1>3. ASSUME NEW i \in 1 .. Published
      PROVE  queue_array[(extract_ind + i - 1) % Capacity] \in Message
  <2>1. i - 1 \in 0 .. Published - 1 /\ extract_ind + i - 1 = extract_ind + (i - 1)
    BY <1>2
  <2>2. queue_array[(extract_ind + (i - 1)) % Capacity] \in Message
    BY <2>1 DEF RingAligned, RingOK
  <2>. QED  BY <2>1, <2>2
<1>4. Contents \in [1 .. Published -> Message]
  BY <1>1, <1>3
<1>5. Contents \in Seq(Message)
  BY <1>2, <1>4
<1>6. DOMAIN Contents = 1 .. Published /\ Len(Contents) = Published
  BY <1>2, <1>4, <1>5
<1>. QED  BY <1>1, <1>5, <1>6 DEF ContentsMatch

(* So it does after a step.                                                *)
LEMMA ContentsWillBe == (IInv /\ ~overrun)' => ContentsMatch'
BY ContentsIs, PTL

\* the entries of Contents depend on the published part of the ring only
LEMMA ContentsSame ==
  ASSUME LockInv, Published' = Published, extract_ind' = extract_ind,
         \A i \in 0 .. Published - 1 :
           queue_array'[(extract_ind + i) % Capacity] = queue_array[(extract_ind + i) % Capacity]
  PROVE  Contents' = Contents
<1>1. Published \in Nat /\ extract_ind \in Int
  BY RingTypes
<1>2. ASSUME NEW i \in 1 .. Published
      PROVE  queue_array'[(extract_ind + i - 1) % Capacity]
               = queue_array[(extract_ind + i - 1) % Capacity]
  <2>1. i - 1 \in 0 .. Published - 1 /\ extract_ind + i - 1 = extract_ind + (i - 1)
    BY <1>1
  <2>2. queue_array'[(extract_ind + (i - 1)) % Capacity]
          = queue_array[(extract_ind + (i - 1)) % Capacity]
    BY <2>1
  <2>. QED  BY <2>1, <2>2
<1>3. Contents = [i \in 1 .. Published |-> queue_array[(extract_ind + i - 1) % Capacity]]
  BY DEF Contents, Published
<1>4. Contents' = [i \in 1 .. Published' |-> queue_array'[(extract_ind' + i - 1) % Capacity]]
  BY DEF Contents, Published
<1>. QED  BY <1>2, <1>3, <1>4

(* Publishing an entry is a send of the abstract queue, of the message     *)
(* that the pusher wrote.                                                  *)
LEMMA PublishSends ==
  ASSUME LockInv, RingAligned, ~overrun, NEW p \in Pusher, Publish(p)
  PROVE  pc[p] = "publish" /\ Sent(p) \in Message /\ Fifo!Send(Sent(p))
<1>. DEFINE l == Published  m == queue_array[(extract_ind + l) % Capacity]
<1>1. /\ RingAligned' /\ l' = l + 1
      /\ UNCHANGED <<queue_array, extract_ind, overrun, last>>
  BY PublishStep
<1>2. LockInv'
  BY LockStep DEF Next, PushStep
<1>3. l \in Nat /\ extract_ind \in Int
  BY RingTypes
<1>4. pc[p] = "publish" /\ m = Sent(p) /\ m \in Message
  <2>1. pc[p] = "publish"
    BY DEF Publish, At
  <2>2. m = Sent(p)
    BY <2>1 DEF RingAligned, RingOK, Written
  <2>. QED  BY <2>1, <2>2, SentType
<1>5. /\ Contents \in Seq(Message) /\ Len(Contents) = l
      /\ \A i \in 1 .. l : Contents[i] = queue_array[(extract_ind + i - 1) % Capacity]
  BY ContentsIs DEF IInv, ContentsMatch
<1>6. /\ Contents' \in Seq(Message) /\ Len(Contents') = l'
      /\ \A i \in 1 .. l' : Contents'[i] = queue_array'[(extract_ind' + i - 1) % Capacity]
  BY <1>1, <1>2, ContentsWillBe DEF IInv, ContentsMatch
<1>7. Contents' = Append(Contents, m)
  <2>1. /\ Append(Contents, m) \in Seq(Message) /\ Len(Append(Contents, m)) = l + 1
        /\ \A i \in 1 .. l : Append(Contents, m)[i] = Contents[i]
        /\ Append(Contents, m)[l + 1] = m
    BY <1>3, <1>4, <1>5, AppendProperties
  <2>2. ASSUME NEW i \in 1 .. l + 1  PROVE Contents'[i] = Append(Contents, m)[i]
    <3>1. CASE i \in 1 .. l
      BY <1>1, <1>5, <1>6, <2>1, <2>2, <3>1
    <3>2. CASE i = l + 1
      <4>1. extract_ind + (l + 1) - 1 = extract_ind + l
        BY <1>3
      <4>. QED  BY <1>1, <1>6, <2>1, <2>2, <3>2, <4>1
    <3>3. i \in 1 .. l \/ i = l + 1
      BY <1>3, <2>2
    <3>. QED  BY <3>1, <3>2, <3>3
  <2>. QED  BY <1>1, <1>6, <2>1, <2>2, SeqEqual
<1>. QED  BY <1>1, <1>4, <1>7 DEF Fifo!Send

(* Reading an entry is a receive of the abstract queue.                    *)
LEMMA ReadReceives ==
  ASSUME LockInv, RingAligned, ~overrun, PopTag
  PROVE  Fifo!Receive
<1>. DEFINE l == Published
<1>1. /\ RingAligned' /\ l' = l - 1 /\ l \in Nat \ {0} /\ UNCHANGED <<queue_array, overrun>>
      /\ last' = queue_array[extract_ind] /\ extract_ind' = (extract_ind + 1) % Capacity
  BY ReadStep
<1>2. LockInv'
  BY LockStep DEF Next, Pop
<1>3. extract_ind \in Entries /\ extract_ind \in Int /\ extract_ind' \in Int
  BY <1>2, Sizes DEF LockInv, TypeOK, Entries
<1>4. /\ Contents \in Seq(Message) /\ Len(Contents) = l
      /\ \A i \in 1 .. l : Contents[i] = queue_array[(extract_ind + i - 1) % Capacity]
  BY ContentsIs DEF IInv, ContentsMatch
<1>5. /\ Contents' \in Seq(Message) /\ Len(Contents') = l'
      /\ \A i \in 1 .. l' : Contents'[i] = queue_array'[(extract_ind' + i - 1) % Capacity]
  BY <1>1, <1>2, ContentsWillBe DEF IInv, ContentsMatch
<1>6. Contents # << >> /\ Head(Contents) = Contents[1]
      /\ Tail(Contents) \in Seq(Message) /\ Len(Tail(Contents)) = l - 1
      /\ \A i \in 1 .. l - 1 : Tail(Contents)[i] = Contents[i + 1]
  BY <1>1, <1>4, EmptySeq, HeadTailProperties
<1>7. last' = Head(Contents)
  <2>1. 1 \in 1 .. l /\ extract_ind + 1 - 1 = extract_ind
    BY <1>1, <1>3
  <2>2. extract_ind % Capacity = extract_ind
    BY <1>3, ModSmall, Sizes DEF Entries
  <2>. QED  BY <1>1, <1>4, <1>6, <2>1, <2>2
<1>8. Contents' = Tail(Contents)
  <2>1. ASSUME NEW i \in 1 .. l - 1  PROVE Contents'[i] = Tail(Contents)[i]
    <3>1. i \in 1 .. l' /\ i + 1 \in 1 .. l /\ i \in Int
      BY <1>1
    <3>2. Contents'[i] = queue_array[(extract_ind' + i - 1) % Capacity]
      BY <1>1, <1>5, <3>1
    <3>3. Tail(Contents)[i] = queue_array[(extract_ind + (i + 1) - 1) % Capacity]
      BY <1>4, <1>6, <3>1
    <3>4. (((extract_ind + 1) % Capacity) + (i - 1)) % Capacity = (extract_ind + 1 + (i - 1)) % Capacity
      <4>1. extract_ind + 1 \in Int /\ i - 1 \in Int
        BY <1>3, <3>1
      <4>. QED  BY <4>1, ModShift, Sizes
    <3>5. extract_ind' + i - 1 = extract_ind' + (i - 1)
          /\ extract_ind + 1 + (i - 1) = extract_ind + (i + 1) - 1
      BY <1>3, <3>1
    <3>. QED  BY <1>1, <3>2, <3>3, <3>4, <3>5
  <2>. QED  BY <1>1, <1>5, <1>6, <2>1, SeqEqual
<1>. QED  BY <1>6, <1>7, <1>8 DEF Fifo!Receive

(* Until an entry is written into a full ring, the queue in shared memory  *)
(* is a FIFO for any number of pushers and any size of the ring: what is   *)
(* pushed is popped once and in the order it was written, and the pop,     *)
(* which takes no lock and reads field by field, returns one whole message *)
(* of one pusher.                                                          *)
THEOREM QueueImplementsFifo == Spec => ImplementsFifo
<1>1. Init => Fifo!Init
  <2>. SUFFICES ASSUME Init  PROVE Fifo!Init
    OBVIOUS
  <2>1. Contents = << >>
    BY DEF Init, Contents
  <2>. QED  BY <2>1 DEF Init, Fifo!Init
<1>2. IInv /\ [Next]_vars => [FifoStep \/ overrun']_<<Contents, last>>
  <2>. SUFFICES ASSUME LockInv, RingAligned, [Next]_vars, ~overrun'
                PROVE  FifoStep \/ UNCHANGED <<Contents, last>>
    BY DEF IInv
  <2>1. ~overrun
    BY DEF Next, PushStep, Pop, Push, FindRoom, TakeTicket, Enter, WriteTag, WriteSource, Advance, Publish, UnlockClear,
       UnlockNext, PopEmpty, PopFinds, PopSource, PopTag, PopDone, vars
  <2>2. ASSUME NEW p \in Pusher, WriteTag(p) \/ WriteSource(p) \/ Advance(p)
        PROVE  UNCHANGED <<Contents, last>>
    BY <2>2, WriteTagStep, WriteSourceStep, AdvanceStep, ContentsSame DEF Kept
  <2>3. ASSUME NEW p \in Pusher, Publish(p)  PROVE FifoStep
    BY <2>1, <2>3, PublishSends DEF FifoStep, Fifo!Next
  <2>4. CASE PopTag
    BY <2>1, <2>4, ReadReceives DEF FifoStep, Fifo!Next
  <2>5. CASE PopSource \/ PopDone
    BY <2>5, ReadSourceStep, DoneStep, ContentsSame DEF Kept
  <2>6. CASE /\ ~PopSource /\ ~PopTag /\ ~PopDone
             /\ \A p \in Pusher : ~WriteTag(p) /\ ~WriteSource(p) /\ ~Advance(p) /\ ~Publish(p)
    BY <2>6, OtherStep, ContentsSame DEF Kept
  <2>. QED  BY <2>2, <2>3, <2>4, <2>5, <2>6
<1>. QED  BY <1>1, <1>2, RingInit, RingStep, PTL DEF Spec, ImplementsFifo

(* What keeps the ring from overrunning is the program, not the queue: if  *)
(* it never leaves more notifications than the ring has entries, the ring  *)
(* never holds more than it has, no entry is ever written into a full one, *)
(* and so the queue is a FIFO without the reservation.  (MCXpmemQueueFull  *)
(* shows the bound broken when it leaves one more.)                        *)
THEOREM RoomIsEnough ==
  Credit <= Capacity => (Spec => [](CountBounded /\ ~overrun))
<1>. SUFFICES ASSUME Credit <= Capacity  PROVE Spec => [](CountBounded /\ ~overrun)
  OBVIOUS
<1>1. Init => ~overrun
  BY DEF Init
<1>2. IInv => CountBounded
  <2>. SUFFICES ASSUME TypeOK, Accounted  PROVE CountBounded
    BY DEF IInv, LockInv
  <2>1. Pushing \in SUBSET Pusher
    BY DEF Pushing
  <2>2. Cardinality(Pushing) \in 0 .. OnnodeSize
    BY <2>1, PusherSets
  <2>. QED  BY <2>2, Sizes, SizeAssumption DEF TypeOK, Accounted, CountBounded
<1>3. IInv /\ ~overrun /\ [Next]_vars => ~overrun'
  <2>. SUFFICES ASSUME TypeOK, Accounted, ~overrun, [Next]_vars  PROVE ~overrun'
    BY DEF IInv, LockInv
  <2>1. ASSUME NEW p \in Pusher, WriteTag(p)  PROVE count < Capacity
    <3>1. Pushing \in SUBSET Pusher /\ p \in Pushing
      BY <2>1 DEF Pushing, Uncounted, WriteTag, At
    <3>2. Cardinality(Pushing) \in Nat /\ Cardinality(Pushing \ {p}) = Cardinality(Pushing) - 1
          /\ Cardinality(Pushing \ {p}) \in Nat
      <4>1. Pushing \ {p} \in SUBSET Pusher
        BY <3>1
      <4>. QED  BY <3>1, <4>1, PusherSets
    <3>. QED  BY <3>2, Sizes, SizeAssumption DEF TypeOK, Accounted
  <2>2. ASSUME NEW p \in Pusher, WriteTag(p)  PROVE ~overrun'
    <3>1. ~(count >= Capacity)
      BY <2>1, <2>2, Sizes DEF TypeOK
    <3>. QED  BY <2>2, <3>1 DEF WriteTag
  <2>3. CASE \A p \in Pusher : ~WriteTag(p)
    BY <2>3 DEF Next, PushStep, Pop, Push, FindRoom, TakeTicket, Enter, WriteSource, Advance, Publish, UnlockClear,
       UnlockNext, PopEmpty, PopFinds, PopSource, PopTag, PopDone, vars
  <2>. QED  BY <2>2, <2>3
<1>. QED  BY <1>1, <1>2, <1>3, RingInit, RingStep, PTL DEF Spec
---------------------------------------------------------------------------
(* Matching of notifications.                                              *)

\* numbers of one source grow along q, and from q on to p
Ascending(q) ==
  \A i, j \in DOMAIN q : i < j /\ q[i].source = q[j].source => q[i].num < q[j].num
Before(q, p) ==
  \A i \in DOMAIN q, j \in DOMAIN p : q[i].source = p[j].source => q[i].num < p[j].num
Known(q) == \A i \in DOMAIN q : q[i].num <= arrived[q[i].source]

\* a source uses one of the two queues, and what is in uq came before
Order ==
  /\ Ascending(ring) /\ Ascending(cq) /\ Ascending(uq)
  /\ Before(uq, ring) /\ Before(uq, cq)
  /\ Known(ring) /\ Known(cq) /\ Known(uq)
  /\ \A i \in DOMAIN ring : ViaRing(ring[i].source)
  /\ \A i \in DOMAIN cq : ~ViaRing(cq[i].source)

Matching == place \in {"uq", "poll", "cq"}

Progress ==
  /\ place = "cq" => Missing(req) > 0
  /\ place = "next" => op \in AnyCalls
  /\ Matching /\ op \in AnyCalls => next < NRequest

\* the search of uq was complete, and what was put into it since does not match
Searched == place \in {"poll", "cq"} /\ Missing(req) > 0 => Fitting = {}

\* of what the call has yet to look at, as much matches as it needs
Reach == IF place = "cq" THEN {n \in ToSet(cq) \cup ToSet(uq) : Matches(req, n)}
                         ELSE Available(req)
EnoughKept == Matching /\ enough => Cardinality(Reach) >= Missing(req)

InOnePlace(s, k) ==
  /\ IsFiniteSet(Used(s, k)) /\ IsFiniteSet(Counted(s, k))
  /\ Places(s, k) = IF k <= arrived[s] THEN 1 ELSE 0
AllInOnePlace == \A s \in Source, k \in 1 .. MaxSend : InOnePlace(s, k)

GotCounted ==
  \A r \in Requests : /\ IsFiniteSet(got[r]) /\ found[r] = Cardinality(got[r])
                      /\ \A n \in got[r] : Matches(r, n)

NotifInv ==
  NotifTypeOK /\ Progress /\ Order /\ Searched /\ EnoughKept /\ AllInOnePlace /\ GotCounted

---------------------------------------------------------------------------
(* Sequences without an element, and with one more.                        *)

(* RemoveAt takes the element at i out.                                    *)
LEMMA RemoveAtFacts ==
  ASSUME NEW S, NEW q \in Seq(S), NEW i \in 1 .. Len(q)
  PROVE  RemoveAt(q, i) \in Seq(S) /\ Without(q, i, RemoveAt(q, i))
<1>. DEFINE a == SubSeq(q, 1, i - 1)
            b == SubSeq(q, i + 1, Len(q))
<1>1. Len(q) \in Nat /\ i \in Nat /\ 1 <= i /\ i <= Len(q) /\ \A j \in 1 .. Len(q) : q[j] \in S
  BY Lengths
<1>2. a \in Seq(S) /\ Len(a) = i - 1 /\ \A j \in 1 .. i - 1 : a[j] = q[j]
  <2>1. \A j \in 1 .. i - 1 : q[j] \in S
    BY <1>1
  <2>2. /\ a \in Seq(S) /\ Len(a) = IF 1 <= i - 1 THEN i - 1 - 1 + 1 ELSE 0
        /\ \A j \in 1 .. i - 1 - 1 + 1 : a[j] = q[1 + j - 1]
    BY <1>1, <2>1, SubSeqProperties
  <2>. QED BY <1>1, <2>2
<1>3. b \in Seq(S) /\ Len(b) = Len(q) - i /\ \A j \in 1 .. Len(q) - i : b[j] = q[i + j]
  <2>1. \A j \in i + 1 .. Len(q) : q[j] \in S
    BY <1>1
  <2>2. /\ b \in Seq(S) /\ Len(b) = IF i + 1 <= Len(q) THEN Len(q) - (i + 1) + 1 ELSE 0
        /\ \A j \in 1 .. Len(q) - (i + 1) + 1 : b[j] = q[i + 1 + j - 1]
    BY <1>1, <2>1, SubSeqProperties
  <2>. QED BY <1>1, <2>2
<1>. HIDE DEF a, b
<1>4. /\ a \o b \in Seq(S) /\ Len(a \o b) = i - 1 + (Len(q) - i)
      /\ \A j \in 1 .. i - 1 + (Len(q) - i) :
           (a \o b)[j] = IF j <= i - 1 THEN a[j] ELSE b[j - (i - 1)]
  <2>1. /\ a \o b \in Seq(S) /\ Len(a \o b) = Len(a) + Len(b)
        /\ \A j \in 1 .. Len(a) + Len(b) :
             (a \o b)[j] = IF j <= Len(a) THEN a[j] ELSE b[j - Len(a)]
    BY <1>2, <1>3, ConcatProperties
  <2>. QED BY ONLY <1>2, <1>3, <2>1
<1>5. RemoveAt(q, i) = a \o b
  BY DEF RemoveAt, a, b
<1>6. \A j \in 1 .. i - 1 : (a \o b)[j] = q[j]
  BY <1>1, <1>2, <1>4
<1>7. \A j \in i .. Len(q) - 1 : (a \o b)[j] = q[j + 1]
  <2>. TAKE j \in i .. Len(q) - 1
  <2>1. j \in 1 .. i - 1 + (Len(q) - i) /\ ~(j <= i - 1) /\ j - (i - 1) \in 1 .. Len(q) - i
        /\ i + (j - (i - 1)) = j + 1
    BY <1>1
  <2>. QED BY <1>3, <1>4, <2>1
<1>8. Len(a \o b) = Len(q) - 1
  BY <1>1, <1>4
<1>9. Without(q, i, a \o b)
  BY ONLY <1>6, <1>7, <1>8 DEF Without
<1>. QED BY <1>4, <1>5, <1>9

(* Tail takes out the first.                                               *)
LEMMA TailFacts ==
  ASSUME NEW S, NEW q \in Seq(S), q # << >>
  PROVE  /\ Tail(q) \in Seq(S) /\ Without(q, 1, Tail(q))
         /\ 1 \in 1 .. Len(q) /\ Head(q) = q[1] /\ Head(q) \in S
<1>1. Len(q) \in Nat /\ Len(q) # 0
  BY Lengths
<1>2. /\ Head(q) \in S /\ Tail(q) \in Seq(S) /\ Len(Tail(q)) = Len(q) - 1
      /\ \A i \in 1 .. Len(Tail(q)) : Tail(q)[i] = q[i + 1]
  BY HeadTailProperties
<1>3. Head(q) = q[1]
  OBVIOUS
<1>. QED BY <1>1, <1>2, <1>3 DEF Without

\* where the i-th element of K comes from, if K is without the k-th
From(k, i) == IF i < k THEN i ELSE i + 1

(* What is left keeps its order.                                           *)
LEMMA WithoutKeeps ==
  ASSUME NEW S, NEW q \in Seq(S), NEW K \in Seq(S), NEW k \in 1 .. Len(q), Without(q, k, K)
  PROVE  /\ Len(q) \in Nat /\ DOMAIN q = 1 .. Len(q) /\ DOMAIN K = 1 .. Len(q) - 1
         /\ \A i \in DOMAIN K : From(k, i) \in DOMAIN q /\ From(k, i) # k /\ K[i] = q[From(k, i)]
         /\ \A i, j \in DOMAIN K : i < j <=> From(k, i) < From(k, j)
         /\ \A j \in DOMAIN q : j # k => \E i \in DOMAIN K : From(k, i) = j
<1>1. /\ Len(q) \in Nat /\ DOMAIN q = 1 .. Len(q) /\ DOMAIN K = 1 .. Len(K)
      /\ Len(K) = Len(q) - 1 /\ k \in Nat /\ 1 <= k /\ k <= Len(q)
  BY Lengths DEF Without
<1>2. \A i \in DOMAIN K : From(k, i) \in DOMAIN q /\ From(k, i) # k
  BY <1>1 DEF From
<1>3. \A i \in DOMAIN K : K[i] = q[From(k, i)]
  <2>. TAKE i \in DOMAIN K
  <2>1. CASE i < k
    <3>1. i \in 1 .. k - 1
      BY <1>1, <2>1
    <3>. QED BY <2>1, <3>1 DEF From, Without
  <2>2. CASE ~(i < k)
    <3>1. i \in k .. Len(q) - 1
      BY <1>1, <2>2
    <3>. QED BY <2>2, <3>1 DEF From, Without
  <2>. QED BY <2>1, <2>2
<1>4. \A i, j \in DOMAIN K : i < j <=> From(k, i) < From(k, j)
  BY <1>1 DEF From
<1>5. ASSUME NEW j \in DOMAIN q, j # k  PROVE \E i \in DOMAIN K : From(k, i) = j
  <2>1. CASE j < k
    <3>1. j \in DOMAIN K /\ From(k, j) = j
      BY <1>1, <2>1 DEF From
    <3>. QED BY <3>1
  <2>2. CASE j > k
    <3>1. j - 1 \in DOMAIN K /\ From(k, j - 1) = j
      BY <1>1, <2>2 DEF From
    <3>. QED BY <3>1
  <2>. QED BY <1>1, <1>5, <2>1, <2>2
<1>. QED BY <1>1, <1>2, <1>3, <1>4, <1>5

(* The places of number n of s in a sequence are finitely many.            *)
LEMMA AmongFinite ==
  ASSUME NEW S, NEW q \in Seq(S), NEW s, NEW n
  PROVE  IsFiniteSet(Among(q, s, n)) /\ Cardinality(Among(q, s, n)) \in Nat
<1>1. Len(q) \in Nat /\ DOMAIN q = 1 .. Len(q)
  BY Lengths
<1>2. IsFiniteSet(1 .. Len(q)) /\ Among(q, s, n) \in SUBSET (1 .. Len(q))
  BY <1>1, FS_Interval DEF Among
<1>3. IsFiniteSet(Among(q, s, n))
  BY <1>2, FS_Subset
<1>. QED BY <1>3, FS_CardinalityType

(* One place less where an element is taken out.                           *)
LEMMA AmongWithout ==
  ASSUME NEW S, NEW q \in Seq(S), NEW K \in Seq(S), NEW k \in 1 .. Len(q), Without(q, k, K),
         NEW s, NEW n
  PROVE  Cardinality(Among(K, s, n))
           = Cardinality(Among(q, s, n)) - IF Is(q[k], s, n) THEN 1 ELSE 0
<1>. DEFINE A == Among(q, s, n) \ {k}
            B == Among(K, s, n)
            f == [i \in B |-> From(k, i)]
<1>1. IsFiniteSet(B) /\ IsFiniteSet(Among(q, s, n)) /\ Cardinality(Among(q, s, n)) \in Nat
  BY AmongFinite
<1>2. k \in DOMAIN q /\ k \in Among(q, s, n) <=> Is(q[k], s, n)
  BY WithoutKeeps DEF Among
<1>3. f \in [B -> A]
  <2>. SUFFICES ASSUME NEW i \in B  PROVE From(k, i) \in A
    OBVIOUS
  <2>1. i \in DOMAIN K /\ Is(K[i], s, n)
    BY DEF Among
  <2>2. From(k, i) \in DOMAIN q /\ From(k, i) # k /\ K[i] = q[From(k, i)]
    BY <2>1, WithoutKeeps
  <2>. QED BY <2>1, <2>2 DEF Among
<1>4. ASSUME NEW i \in B, NEW j \in B, f[i] = f[j]  PROVE i = j
  <2>1. i \in DOMAIN K /\ j \in DOMAIN K /\ DOMAIN K = 1 .. Len(q) - 1 /\ Len(q) \in Nat
    BY WithoutKeeps DEF Among
  <2>. QED BY <1>4, <2>1 DEF From
<1>5. ASSUME NEW j \in A  PROVE \E i \in B : f[i] = j
  <2>1. j \in DOMAIN q /\ j # k /\ Is(q[j], s, n)
    BY DEF Among
  <2>2. PICK i \in DOMAIN K : From(k, i) = j
    BY <2>1, WithoutKeeps
  <2>3. K[i] = q[j]
    BY <2>2, WithoutKeeps
  <2>4. i \in B
    BY <2>1, <2>3 DEF Among
  <2>. QED BY <2>2, <2>4
<1>6. Cardinality(A) = Cardinality(B)
  <2>1. f \in Bijection(B, A)
    BY <1>3, <1>4, <1>5 DEF Bijection, Injection, Surjection, IsInjective
  <2>2. ExistsBijection(B, A)
    BY <2>1 DEF ExistsBijection
  <2>. QED BY <1>1, <2>2, FS_Bijection
<1>7. Cardinality(A) = IF k \in Among(q, s, n) THEN Cardinality(Among(q, s, n)) - 1
                       ELSE Cardinality(Among(q, s, n))
  BY <1>1, FS_RemoveElement
<1>. QED BY <1>1, <1>2, <1>6, <1>7

(* One place more where one is appended.                                   *)
LEMMA AmongAppend ==
  ASSUME NEW S, NEW q \in Seq(S), NEW x \in S, NEW s, NEW n
  PROVE  Cardinality(Among(Append(q, x), s, n))
           = Cardinality(Among(q, s, n)) + IF Is(x, s, n) THEN 1 ELSE 0
<1>1. /\ Len(q) \in Nat /\ DOMAIN q = 1 .. Len(q) /\ DOMAIN Append(q, x) = 1 .. Len(q) + 1
      /\ \A i \in 1 .. Len(q) : Append(q, x)[i] = q[i]
      /\ Append(q, x)[Len(q) + 1] = x
  BY AppendProperties, Lengths
<1>2. IsFiniteSet(Among(q, s, n)) /\ Cardinality(Among(q, s, n)) \in Nat
  BY AmongFinite
<1>3. Len(q) + 1 \notin Among(q, s, n)
  BY <1>1 DEF Among
<1>4. CASE Is(x, s, n)
  <2>1. Among(Append(q, x), s, n) = Among(q, s, n) \cup {Len(q) + 1}
    BY <1>1, <1>4 DEF Among
  <2>. QED BY <1>2, <1>3, <1>4, <2>1, FS_AddElement
<1>5. CASE ~Is(x, s, n)
  <2>1. Among(Append(q, x), s, n) = Among(q, s, n)
    BY <1>1, <1>5 DEF Among
  <2>. QED BY <1>2, <1>5, <2>1
<1>. QED BY <1>4, <1>5

(* The order of numbers survives both.                                     *)
LEMMA OrderWithout ==
  ASSUME NEW q \in Seq(Notif), NEW K \in Seq(Notif), NEW k \in 1 .. Len(q), Without(q, k, K)
  PROVE  /\ Ascending(q) => Ascending(K)
         /\ \A p : Before(q, p) => Before(K, p)
         /\ \A p : Before(p, q) => Before(p, K)
         /\ Known(q) => Known(K)
         /\ (\A i \in DOMAIN q : ViaRing(q[i].source)) => \A i \in DOMAIN K : ViaRing(K[i].source)
         /\ (\A i \in DOMAIN q : ~ViaRing(q[i].source)) => \A i \in DOMAIN K : ~ViaRing(K[i].source)
<1>. /\ \A i \in DOMAIN K : From(k, i) \in DOMAIN q /\ K[i] = q[From(k, i)]
     /\ \A i, j \in DOMAIN K : i < j <=> From(k, i) < From(k, j)
  BY WithoutKeeps
<1>1. Ascending(q) => Ascending(K)
  BY DEF Ascending
<1>2. \A p : Before(q, p) => Before(K, p)
  BY DEF Before
<1>3. \A p : Before(p, q) => Before(p, K)
  BY DEF Before
<1>4. Known(q) => Known(K)
  BY DEF Known
<1>. QED BY <1>1, <1>2, <1>3, <1>4

(* A sequence of notifications one of which is x.                          *)
LEMMA AppendFacts ==
  ASSUME NEW q \in Seq(Notif), NEW x \in Notif
  PROVE  /\ Append(q, x) \in Seq(Notif)
         /\ Len(q) \in Nat /\ DOMAIN q = 1 .. Len(q) /\ DOMAIN Append(q, x) = 1 .. Len(q) + 1
         /\ \A i \in 1 .. Len(q) : Append(q, x)[i] = q[i] /\ q[i] \in Notif
         /\ Append(q, x)[Len(q) + 1] = x
BY AppendProperties, Lengths

LEMMA OrderAppend ==
  ASSUME NEW q \in Seq(Notif), NEW x \in Notif, Ascending(q),
         \A i \in DOMAIN q : q[i].source = x.source => q[i].num < x.num
  PROVE  Ascending(Append(q, x))
<1>1. SUFFICES ASSUME NEW i \in DOMAIN Append(q, x), NEW j \in DOMAIN Append(q, x), i < j,
                      Append(q, x)[i].source = Append(q, x)[j].source
               PROVE  Append(q, x)[i].num < Append(q, x)[j].num
  BY DEF Ascending
<1>2. i \in 1 .. Len(q) /\ i \in DOMAIN q /\ Append(q, x)[i] = q[i]
  BY <1>1, AppendFacts
<1>3. CASE j = Len(q) + 1
  BY <1>1, <1>2, <1>3, AppendFacts
<1>4. CASE j # Len(q) + 1
  <2>1. j \in DOMAIN q /\ Append(q, x)[j] = q[j]
    BY <1>4, AppendFacts
  <2>. QED BY <1>1, <1>2, <2>1 DEF Ascending
<1>. QED BY <1>3, <1>4

(* The elements of a sequence as a set.                                    *)
LEMMA ToSetFacts ==
  ASSUME NEW S, NEW q \in Seq(S)
  PROVE  /\ IsFiniteSet(ToSet(q)) /\ ToSet(q) \subseteq S
         /\ \A i \in 1 .. Len(q) : q[i] \in ToSet(q)
         /\ \A x \in ToSet(q) : \E i \in 1 .. Len(q) : q[i] = x
<1>1. Len(q) \in Nat /\ DOMAIN q = 1 .. Len(q) /\ \A i \in 1 .. Len(q) : q[i] \in S
  BY Lengths
<1>2. q \in Surjection(1 .. Len(q), ToSet(q))
  BY <1>1, Lengths DEF Surjection, ToSet
<1>3. IsFiniteSet(1 .. Len(q))
  BY <1>1, FS_Interval
<1>4. IsFiniteSet(ToSet(q))
  BY <1>2, <1>3, FS_Surjection
<1>. QED BY <1>1, <1>4 DEF ToSet

LEMMA ToSetWithout ==
  ASSUME NEW S, NEW q \in Seq(S), NEW K \in Seq(S), NEW k \in 1 .. Len(q), Without(q, k, K)
  PROVE  ToSet(K) \subseteq ToSet(q) /\ ToSet(q) \subseteq ToSet(K) \cup {q[k]}
<1>1. /\ \A i \in DOMAIN K : From(k, i) \in DOMAIN q /\ K[i] = q[From(k, i)]
      /\ \A j \in DOMAIN q : j # k => \E i \in DOMAIN K : From(k, i) = j
  BY WithoutKeeps
<1>2. ASSUME NEW x \in ToSet(K)  PROVE x \in ToSet(q)
  BY <1>1 DEF ToSet
<1>3. ASSUME NEW x \in ToSet(q), x # q[k]  PROVE x \in ToSet(K)
  <2>1. PICK j \in DOMAIN q : q[j] = x /\ j # k
    BY <1>3 DEF ToSet
  <2>2. PICK i \in DOMAIN K : From(k, i) = j
    BY <1>1, <2>1
  <2>. QED BY <1>1, <2>1, <2>2 DEF ToSet
<1>. QED BY <1>2, <1>3

LEMMA ToSetAppend ==
  ASSUME NEW q \in Seq(Notif), NEW x \in Notif
  PROVE  ToSet(Append(q, x)) = ToSet(q) \cup {x}
<1>1. ASSUME NEW y \in ToSet(Append(q, x)), y # x  PROVE y \in ToSet(q)
  <2>1. PICK i \in DOMAIN Append(q, x) : Append(q, x)[i] = y
    BY DEF ToSet
  <2>2. i \in DOMAIN q /\ q[i] = y
    BY <1>1, <2>1, AppendFacts
  <2>. QED BY <2>2 DEF ToSet
<1>2. ASSUME NEW y \in ToSet(q)  PROVE y \in ToSet(Append(q, x))
  <2>1. PICK i \in DOMAIN q : q[i] = y
    BY DEF ToSet
  <2>2. i \in DOMAIN Append(q, x) /\ Append(q, x)[i] = y
    BY <2>1, AppendFacts
  <2>. QED BY <2>2 DEF ToSet
<1>3. x \in ToSet(Append(q, x))
  <2>1. Len(q) + 1 \in DOMAIN Append(q, x) /\ Append(q, x)[Len(q) + 1] = x
    BY AppendFacts
  <2>. QED BY <2>1 DEF ToSet
<1>. QED BY <1>1, <1>2, <1>3

---------------------------------------------------------------------------
(* What a step does to the queues and the counts.                          *)

\* the owner counts notification x, or keeps it for another request
Events(x) ==
  /\ req \in Requests /\ Missing(req) > 0 /\ x \in Notif
  /\ Event(x)

\* a notification arrives at the end of the queue its source uses
Arrives(n) ==
  /\ n \in Notif /\ n.num = arrived[n.source] + 1
  /\ arrived' = [arrived EXCEPT ![n.source] = @ + 1]
  /\ IF ViaRing(n.source) THEN ring' = Append(ring, n) /\ cq' = cq
     ELSE cq' = Append(cq, n) /\ ring' = ring
  /\ UNCHANGED <<uq, found, got, used>>

FromUq(i) ==
  /\ req \in Requests /\ Missing(req) > 0 /\ i \in 1 .. Len(uq)
  /\ Matches(req, uq[i]) /\ \A j \in 1 .. Len(uq) : Matches(req, uq[j]) => i <= j
  /\ Take(req, uq[i])
  /\ uq' \in Seq(Notif) /\ Without(uq, i, uq')
  /\ UNCHANGED <<arrived, ring, cq, used>>

FromRing ==
  /\ place = "poll" /\ place' = "poll" /\ req' = req
  /\ ring' \in Seq(Notif) /\ Without(ring, 1, ring') /\ 1 \in 1 .. Len(ring)
  /\ Events(ring[1])
  /\ UNCHANGED <<arrived, cq, used>>

FromCq ==
  /\ place = "cq" /\ place' = "poll" /\ req' = req
  /\ cq' \in Seq(Notif) /\ Without(cq, 1, cq') /\ 1 \in 1 .. Len(cq)
  /\ Events(cq[1])
  /\ UNCHANGED <<arrived, ring, used>>

\* a request is started again
Restarts(r) ==
  /\ r \in Requests /\ Activate(r)
  /\ UNCHANGED <<arrived, queueVars>>
  /\ \/ place = "idle" /\ place' = "idle"
     \/ place = "cq" /\ place' = "next"

(* The search takes out one that no older one precedes.                    *)
LEMMA SearchUqMoves ==
  ASSUME NotifTypeOK, SearchUq
  PROVE  \E i : FromUq(i)
<1>1. PICK i \in Fitting : /\ \A j \in Fitting : i <= j
                           /\ Take(req, uq[i])
                           /\ uq' = RemoveAt(uq, i)
  BY DEF SearchUq
<1>2. uq \in Seq(Notif) /\ req \in Requests
  BY DEF NotifTypeOK
<1>3. DOMAIN uq = 1 .. Len(uq)
  BY <1>2, Lengths
<1>4. i \in 1 .. Len(uq) /\ Matches(req, uq[i]) /\ \A j \in 1 .. Len(uq) : Matches(req, uq[j]) => i <= j
  BY <1>1, <1>3 DEF Fitting
<1>5. uq' \in Seq(Notif) /\ Without(uq, i, uq')
  BY <1>1, <1>2, <1>4, RemoveAtFacts
<1>6. FromUq(i)
  BY <1>1, <1>2, <1>4, <1>5 DEF FromUq, SearchUq
<1>. QED BY <1>6 DEF SearchUq

(* A poll takes out the first of the ring, or of the completion queue.     *)
LEMMA PollRingMoves ==
  ASSUME NotifTypeOK, PollRing
  PROVE  FromRing
<1>1. ring \in Seq(Notif) /\ req \in Requests /\ ring # << >> /\ ring' = Tail(ring)
  BY DEF NotifTypeOK, PollRing
<1>2. /\ ring' \in Seq(Notif) /\ Without(ring, 1, ring') /\ 1 \in 1 .. Len(ring)
      /\ Head(ring) = ring[1] /\ Head(ring) \in Notif
  BY <1>1, TailFacts
<1>3. Events(ring[1])
  BY <1>1, <1>2 DEF PollRing, Events
<1>. QED BY <1>2, <1>3 DEF PollRing, FromRing

LEMMA PollCqMoves ==
  ASSUME NotifTypeOK, Progress, PollCq
  PROVE  FromCq
<1>1. cq \in Seq(Notif) /\ req \in Requests /\ cq # << >> /\ cq' = Tail(cq) /\ Missing(req) > 0
  BY DEF NotifTypeOK, PollCq, Progress
<1>2. /\ cq' \in Seq(Notif) /\ Without(cq, 1, cq') /\ 1 \in 1 .. Len(cq)
      /\ Head(cq) = cq[1] /\ Head(cq) \in Notif
  BY <1>1, TailFacts
<1>3. Events(cq[1])
  BY <1>1, <1>2 DEF PollCq, Events
<1>. QED BY <1>2, <1>3 DEF PollCq, FromCq

(* What each step is.                                                      *)
LEMMA NotifMoves ==
  ASSUME NotifTypeOK, Progress, [NotifNext]_notifVars
  PROVE  \/ UNCHANGED <<arrived, queueVars, found, got, used>>
         \/ \E n \in Notif : Arrives(n) /\ UNCHANGED <<place, req, enough>>
         \/ \E i : FromUq(i) /\ place = "uq" /\ UNCHANGED <<place, req, enough>>
         \/ FromRing /\ UNCHANGED enough
         \/ FromCq /\ UNCHANGED enough
         \/ \E r \in Requests : Restarts(r) /\ UNCHANGED <<req, enough>>
<1>1. ASSUME NEW s \in Source, NEW t \in Tag, Arrive(s, t)
      PROVE  \E n \in Notif : Arrives(n) /\ UNCHANGED <<place, req, enough>>
  <2>. DEFINE n == [source |-> s, tag |-> t, num |-> arrived[s] + 1]
  <2>1. arrived[s] \in 0 .. MaxSend /\ arrived[s] < MaxSend /\ MaxSend \in Nat
    BY <1>1, BoundAssumption DEF Arrive, NotifTypeOK
  <2>2. n \in Notif /\ n.source = s /\ n.num = arrived[s] + 1
    BY <2>1 DEF Notif
  <2>3. Arrives(n) /\ UNCHANGED <<place, req, enough>>
    BY <1>1, <2>2 DEF Arrive, Arrives, queueVars
  <2>. QED BY <2>2, <2>3
<1>2. ASSUME NEW r \in Requests, Start(r)
      PROVE  Restarts(r) /\ UNCHANGED <<req, enough>>
  BY <1>2 DEF Start, Restarts, queueVars
<1>3. ASSUME NEW r \in Requests, Test(r) \/ Wait(r)
      PROVE  UNCHANGED <<arrived, queueVars, found, got, used>>
  BY <1>3 DEF Test, Wait, queueVars
<1>4. ASSUME Testany \/ Waitany \/ AnySkip \/ AnyTest \/ AnyEnd
      PROVE  UNCHANGED <<arrived, queueVars, found, got, used>>
  BY <1>4 DEF Testany, Waitany, AnySkip, AnyTest, AnyEnd, BeginAny, queueVars
<1>5. ASSUME UqSearched \/ RingEmpty \/ PollAgain \/ TestGivesUp \/ Completes
      PROVE  UNCHANGED <<arrived, queueVars, found, got, used>>
  BY <1>5 DEF UqSearched, RingEmpty, PollAgain, TestGivesUp, Completes, queueVars
<1>6. ASSUME SearchUq
      PROVE  \E i : FromUq(i) /\ place = "uq" /\ UNCHANGED <<place, req, enough>>
  BY <1>6, SearchUqMoves DEF SearchUq
<1>7. ASSUME PollRing  PROVE FromRing /\ UNCHANGED enough
  BY <1>7, PollRingMoves DEF PollRing
<1>8. ASSUME PollCq  PROVE FromCq /\ UNCHANGED enough
  BY <1>8, PollCqMoves DEF PollCq
<1>9. ASSUME AnyGivesUp  PROVE \E r \in Requests : Restarts(r) /\ UNCHANGED <<req, enough>>
  <2>1. req \in Requests
    BY DEF NotifTypeOK
  <2>2. Restarts(req) /\ UNCHANGED <<req, enough>>
    BY <1>9, <2>1 DEF AnyGivesUp, NothingRemote, Restarts, queueVars
  <2>. QED BY <2>1, <2>2
<1>10. CASE UNCHANGED notifVars
  BY <1>10 DEF notifVars
<1>. QED BY <1>1, <1>2, <1>3, <1>4, <1>5, <1>6, <1>7, <1>8, <1>9, <1>10 DEF NotifNext, CallStep

---------------------------------------------------------------------------
(* Types.                                                                  *)

DataOK ==
  /\ arrived \in [Source -> 0 .. MaxSend]
  /\ ring \in Seq(Notif) /\ cq \in Seq(Notif) /\ uq \in Seq(Notif)
  /\ found \in [Requests -> Nat] /\ \A r \in Requests : found[r] <= Want[r].count
  /\ got \in [Requests -> SUBSET Notif] /\ used \subseteq Notif

(* What a request asks for.                                                *)
LEMMA WantType ==
  ASSUME NEW r \in Requests
  PROVE  Want[r].count \in Nat
BY WantAssumption

LEMMA TakeTypes ==
  ASSUME DataOK, NEW n \in Notif, req \in Requests, Missing(req) > 0, Take(req, n)
  PROVE  /\ found' \in [Requests -> Nat] /\ \A r \in Requests : found'[r] <= Want[r].count
         /\ got' \in [Requests -> SUBSET Notif]
<1>1. \A r \in Requests : Want[r].count \in Nat /\ found[r] \in Nat /\ found[r] <= Want[r].count
  BY WantType DEF DataOK
<1>2. found[req] < Want[req].count
  BY <1>1 DEF Missing
<1>3. found' = [found EXCEPT ![req] = found[req] + 1] /\ got' = [got EXCEPT ![req] = got[req] \cup {n}]
  BY DEF Take
<1>4. found' \in [Requests -> Nat]
  BY <1>1, <1>3 DEF DataOK
<1>5. ASSUME NEW r \in Requests  PROVE found'[r] <= Want[r].count
  BY <1>1, <1>2, <1>3 DEF DataOK
<1>6. got' \in [Requests -> SUBSET Notif]
  BY <1>3 DEF DataOK
<1>. QED BY <1>4, <1>5, <1>6

(* An event changes uq or the counts.                                      *)
LEMMA EventTypes ==
  ASSUME DataOK, NEW n, Events(n)
  PROVE  /\ uq' \in Seq(Notif)
         /\ found' \in [Requests -> Nat] /\ \A r \in Requests : found'[r] <= Want[r].count
         /\ got' \in [Requests -> SUBSET Notif]
<1>1. CASE Matches(req, n)
  <2>1. Take(req, n) /\ uq' = uq
    BY <1>1 DEF Events, Event
  <2>. QED BY <2>1, TakeTypes DEF Events, DataOK
<1>2. CASE ~Matches(req, n)
  <2>1. uq' = Append(uq, n) /\ found' = found /\ got' = got /\ n \in Notif /\ uq \in Seq(Notif)
    BY <1>2 DEF Events, Event, DataOK
  <2>. QED BY <2>1, AppendFacts DEF DataOK
<1>. QED BY <1>1, <1>2

LEMMA DataKept ==
  ASSUME NotifTypeOK, Progress, [NotifNext]_notifVars
  PROVE  DataOK'
<1>0. DataOK
  BY DEF NotifTypeOK, DataOK
<1>1. CASE UNCHANGED <<arrived, queueVars, found, got, used>>
  BY <1>0, <1>1 DEF DataOK, queueVars
<1>2. ASSUME NEW n \in Notif, Arrives(n)  PROVE DataOK'
  <2>1. n.source \in Source /\ n.num \in 1 .. MaxSend /\ n.num = arrived[n.source] + 1
    BY <1>2 DEF Arrives, Notif
  <2>2. arrived' = [arrived EXCEPT ![n.source] = n.num] /\ arrived' \in [Source -> 0 .. MaxSend]
    BY <1>0, <1>2, <2>1 DEF Arrives, DataOK
  <2>3. ring' \in Seq(Notif) /\ cq' \in Seq(Notif)
    <3>1. /\ ring' = Append(ring, n) \/ ring' = ring
          /\ cq' = Append(cq, n) \/ cq' = cq
      BY <1>2 DEF Arrives
    <3>2. ring \in Seq(Notif) /\ cq \in Seq(Notif)
      BY <1>0 DEF DataOK
    <3>. QED BY <3>1, <3>2, AppendFacts
  <2>. QED BY <1>0, <1>2, <2>2, <2>3 DEF Arrives, DataOK
<1>3. ASSUME NEW i, FromUq(i)  PROVE DataOK'
  <2>1. uq[i] \in Notif
    BY <1>0, <1>3, Lengths DEF FromUq, DataOK
  <2>2. /\ found' \in [Requests -> Nat] /\ \A r \in Requests : found'[r] <= Want[r].count
        /\ got' \in [Requests -> SUBSET Notif]
    BY <1>0, <1>3, <2>1, TakeTypes DEF FromUq
  <2>. QED BY <1>0, <1>3, <2>2 DEF FromUq, DataOK
<1>4. CASE FromRing
  BY <1>0, <1>4, EventTypes DEF FromRing, DataOK
<1>5. CASE FromCq
  BY <1>0, <1>5, EventTypes DEF FromCq, DataOK
<1>6. ASSUME NEW r \in Requests, Restarts(r)  PROVE DataOK'
  <2>1. /\ found' = found \/ found' = [found EXCEPT ![r] = 0]
        /\ got' = got \/ got' = [got EXCEPT ![r] = {}]
        /\ used' = used \/ used' = used \cup got[r]
    BY <1>6 DEF Restarts, Activate
  <2>2. \A q \in Requests : Want[q].count \in Nat
    BY WantType
  <2>3. found' \in [Requests -> Nat] /\ \A q \in Requests : found'[q] <= Want[q].count
    BY <1>0, <2>1, <2>2 DEF DataOK
  <2>4. got' \in [Requests -> SUBSET Notif] /\ used' \subseteq Notif
    BY <1>0, <2>1 DEF DataOK
  <2>. QED BY <1>0, <1>6, <2>3, <2>4 DEF Restarts, DataOK, queueVars
<1>. QED BY <1>1, <1>2, <1>3, <1>4, <1>5, <1>6, NotifMoves

ControlOK ==
  /\ active \in [Requests -> BOOLEAN]
  /\ op \in Calls /\ place \in {"idle", "next", "uq", "poll", "cq"} /\ (op = "none" <=> place = "idle")
  /\ req \in Requests
  /\ first \in Requests /\ next \in 0 .. NRequest /\ inactive \in 0 .. next
  /\ pending \subseteq Requests /\ enough \in BOOLEAN

(* The next request Testany_internal looks at is one.                      *)
LEMMA CurrentType ==
  ASSUME first \in Requests, next \in 0 .. NRequest
  PROVE  Current \in Requests
<1>1. NRequest \in Nat \ {0} /\ first \in Int /\ next \in Int
  BY WantAssumption DEF Requests
<1>. QED BY <1>1, ModType DEF Current, Requests

LEMMA ControlKept ==
  ASSUME NotifTypeOK, Progress, [NotifNext]_notifVars
  PROVE  ControlOK' /\ Progress'
<1>0. ControlOK /\ NRequest \in Nat \ {0} /\ Current \in Requests
  BY CurrentType, WantAssumption DEF NotifTypeOK, ControlOK
<1>1. ASSUME NEW s \in Source, NEW t \in Tag, Arrive(s, t)  PROVE ControlOK' /\ Progress'
  <2>1. UNCHANGED <<found, active, op, place, req, first, next, inactive, pending, enough>>
    BY <1>1 DEF Arrive, anyVars
  <2>2. Missing(req)' = Missing(req)
    BY <2>1 DEF Missing
  <2>3. ControlOK'
    BY <1>0, <2>1 DEF ControlOK
  <2>4. Progress'
    BY <2>1, <2>2 DEF Progress, Matching
  <2>. QED BY <2>3, <2>4
<1>2. ASSUME NEW r \in Requests, Start(r)  PROVE ControlOK' /\ Progress'
  BY <1>0, <1>2 DEF Start, ControlOK, Progress, Matching, anyVars
<1>3. ASSUME NEW r \in Requests, Test(r) \/ Wait(r)  PROVE ControlOK' /\ Progress'
  <2>1. BeginMatch(r) /\ op' \in {"test", "wait"} /\ UNCHANGED <<active, first, next, inactive, pending>>
    BY <1>3 DEF Test, Wait, anyVars
  <2>2. place' = "uq" /\ req' = r /\ enough' \in BOOLEAN
    BY <2>1 DEF BeginMatch
  <2>. QED BY <1>0, <2>1, <2>2 DEF ControlOK, Progress, Matching, AnyCalls, Calls
<1>4. CASE Testany \/ Waitany
  BY <1>0, <1>4 DEF Testany, Waitany, BeginAny, ControlOK, Progress, Matching, AnyCalls, Calls
<1>5. CASE AnySkip
  BY <1>0, <1>5 DEF AnySkip, ControlOK, Progress, Matching
<1>6. CASE AnyTest
  <2>1. /\ place = "next" /\ place' = "uq" /\ req' = Current /\ next < NRequest
        /\ UNCHANGED <<active, op, first, next, inactive, pending>>
    BY <1>6 DEF AnyTest, BeginMatch, anyVars
  <2>2. enough' \in BOOLEAN
    BY <1>6 DEF AnyTest, BeginMatch
  <2>. QED BY <1>0, <2>1, <2>2 DEF ControlOK, Progress, Matching, AnyCalls, Calls
<1>7. CASE AnyEnd
  BY <1>0, <1>7 DEF AnyEnd, BeginAny, ControlOK, Progress, Matching, AnyCalls, Calls, anyVars
<1>8. CASE SearchUq
  BY <1>0, <1>8 DEF SearchUq, ControlOK, Progress, Matching, anyVars
<1>9. CASE UqSearched
  BY <1>0, <1>9 DEF UqSearched, ControlOK, Progress, Matching, anyVars
<1>10. CASE PollRing
  BY <1>0, <1>10 DEF PollRing, ControlOK, Progress, Matching, anyVars
<1>11. CASE RingEmpty
  BY <1>0, <1>11 DEF RingEmpty, ControlOK, Progress, Matching, Missing, anyVars
<1>12. CASE PollCq
  BY <1>0, <1>12 DEF PollCq, ControlOK, Progress, Matching, anyVars
<1>13. CASE PollAgain \/ TestGivesUp
  BY <1>0, <1>13 DEF PollAgain, TestGivesUp, NothingRemote, ControlOK, Progress, Matching, Calls, anyVars
<1>14. CASE AnyGivesUp
  BY <1>0, <1>14 DEF AnyGivesUp, NothingRemote, ControlOK, Progress, Matching, AnyCalls, Calls
<1>15. CASE Completes
  BY <1>0, <1>15 DEF Completes, ControlOK, Progress, Matching, Calls, anyVars
<1>16. CASE UNCHANGED notifVars
  BY <1>0, <1>16 DEF notifVars, anyVars, ControlOK, Progress, Matching, Missing
<1>. QED BY <1>1, <1>2, <1>3, <1>4, <1>5, <1>6, <1>7, <1>8, <1>9, <1>10, <1>11, <1>12, <1>13, <1>14,
            <1>15, <1>16 DEF NotifNext, CallStep

LEMMA NotifTypesKept ==
  ASSUME NotifTypeOK, Progress, [NotifNext]_notifVars
  PROVE  NotifTypeOK' /\ Progress'
BY DataKept, ControlKept DEF DataOK, ControlOK, NotifTypeOK

---------------------------------------------------------------------------
(* Order.                                                                  *)

(* What is known of a notification in a queue.                             *)
LEMMA NotifElements ==
  ASSUME NEW q \in Seq(Notif)
  PROVE  \A i \in DOMAIN q : q[i] \in Notif /\ q[i].source \in Source /\ q[i].num \in Int
<1>1. \A i \in DOMAIN q : q[i] \in Notif
  BY Lengths
<1>2. \A n \in Notif : n.source \in Source /\ n.num \in Int
  BY BoundAssumption DEF Notif
<1>. QED BY <1>1, <1>2

(* A notification kept for others is appended to uq: it is newer than all  *)
(* there and older than what is left where it came from.                   *)
LEMMA EventOrder ==
  ASSUME NotifTypeOK, Order, NEW x, Events(x), x.num <= arrived[x.source],
         \A i \in DOMAIN uq : uq[i].source = x.source => uq[i].num < x.num
  PROVE  /\ Ascending(uq')
         /\ \A i \in DOMAIN uq' : uq'[i].num <= arrived[uq'[i].source]
         /\ \A i \in DOMAIN uq' : uq'[i] = x \/ (i \in DOMAIN uq /\ uq'[i] = uq[i])
<1>1. CASE uq' = uq
  BY <1>1 DEF Order, Known
<1>2. CASE uq' = Append(uq, x)
  <2>1. uq \in Seq(Notif) /\ x \in Notif /\ Ascending(uq) /\ Known(uq)
    BY DEF NotifTypeOK, Events, Order
  <2>2. \A i \in DOMAIN uq' : uq'[i] = x \/ (i \in DOMAIN uq /\ uq'[i] = uq[i])
    BY <1>2, <2>1, AppendFacts
  <2>3. Ascending(uq')
    BY <1>2, <2>1, OrderAppend
  <2>. QED BY <2>1, <2>2, <2>3 DEF Known
<1>. QED BY <1>1, <1>2 DEF Events, Event

LEMMA OrderKept ==
  ASSUME NotifTypeOK, Progress, Order, [NotifNext]_notifVars
  PROVE  Order'
<1>0. ring \in Seq(Notif) /\ cq \in Seq(Notif) /\ uq \in Seq(Notif) /\ arrived \in [Source -> 0 .. MaxSend]
  BY DEF NotifTypeOK
<1>1. CASE UNCHANGED <<arrived, queueVars, found, got, used>>
  BY <1>1 DEF Order, Ascending, Before, Known, ViaRing, queueVars
<1>2. ASSUME NEW n \in Notif, Arrives(n)  PROVE Order'
  <2>1. /\ n.source \in Source /\ n.num = arrived[n.source] + 1 /\ arrived[n.source] \in Int
        /\ arrived' = [arrived EXCEPT ![n.source] = n.num] /\ uq' = uq
    BY <1>0, <1>2 DEF Arrives, Notif
  <2>2. \A i \in DOMAIN uq : uq[i] \in Notif /\ uq[i].source \in Source /\ uq[i].num \in Int
    BY <1>0, NotifElements
  <2>3. \A i \in DOMAIN ring : ring[i] \in Notif /\ ring[i].source \in Source /\ ring[i].num \in Int
    BY <1>0, NotifElements
  <2>4. \A i \in DOMAIN cq : cq[i] \in Notif /\ cq[i].source \in Source /\ cq[i].num \in Int
    BY <1>0, NotifElements
  <2>5. \A s \in Source : arrived[s] \in Int /\ arrived[s] <= arrived'[s]
    BY <1>0, <2>1
  <2>6. ASSUME NEW q \in Seq(Notif), Known(q), \A i \in DOMAIN q : q[i] \in Notif /\ q[i].source \in Source /\ q[i].num \in Int
        PROVE  /\ \A i \in DOMAIN q : q[i].num <= arrived'[q[i].source]
               /\ \A i \in DOMAIN q : q[i].source = n.source => q[i].num < n.num
    BY <2>1, <2>5, <2>6 DEF Known
  <2>7. Known(uq)' /\ \A i \in DOMAIN uq : uq[i].source = n.source => uq[i].num < n.num
    BY <1>0, <2>1, <2>2, <2>6 DEF Order, Known
  <2>8. CASE ViaRing(n.source)
    <3>1. ring' = Append(ring, n) /\ cq' = cq
      BY <1>2, <2>8 DEF Arrives
    <3>2. Known(cq)'
      BY <1>0, <2>4, <2>6, <3>1 DEF Order, Known
    <3>3. \A i \in DOMAIN ring' : ring'[i] = n \/ (i \in DOMAIN ring /\ ring'[i] = ring[i])
      BY <1>0, <3>1, AppendFacts
    <3>4. Ascending(ring')
      BY <1>0, <2>3, <2>6, <3>1, OrderAppend DEF Order
    <3>5. Known(ring)'
      BY <1>0, <2>1, <2>3, <2>5, <2>6, <3>3 DEF Order, Known
    <3>6. Before(uq, ring') /\ \A i \in DOMAIN ring' : ViaRing(ring'[i].source)
      BY <2>7, <2>8, <3>3 DEF Order, Before
    <3>. QED BY <2>1, <2>7, <3>1, <3>2, <3>4, <3>5, <3>6 DEF Order, Ascending, Before, ViaRing
  <2>9. CASE ~ViaRing(n.source)
    <3>1. cq' = Append(cq, n) /\ ring' = ring
      BY <1>2, <2>9 DEF Arrives
    <3>2. Known(ring)'
      BY <1>0, <2>3, <2>6, <3>1 DEF Order, Known
    <3>3. \A i \in DOMAIN cq' : cq'[i] = n \/ (i \in DOMAIN cq /\ cq'[i] = cq[i])
      BY <1>0, <3>1, AppendFacts
    <3>4. Ascending(cq')
      BY <1>0, <2>4, <2>6, <3>1, OrderAppend DEF Order
    <3>5. Known(cq)'
      BY <1>0, <2>1, <2>4, <2>5, <2>6, <3>3 DEF Order, Known
    <3>6. Before(uq, cq') /\ \A i \in DOMAIN cq' : ~ViaRing(cq'[i].source)
      BY <2>7, <2>9, <3>3 DEF Order, Before
    <3>. QED BY <2>1, <2>7, <3>1, <3>2, <3>4, <3>5, <3>6 DEF Order, Ascending, Before, ViaRing
  <2>. QED BY <2>8, <2>9
<1>3. ASSUME NEW i, FromUq(i)  PROVE Order'
  <2>1. /\ i \in 1 .. Len(uq) /\ uq' \in Seq(Notif) /\ Without(uq, i, uq')
        /\ ring' = ring /\ cq' = cq /\ arrived' = arrived
    BY <1>3 DEF FromUq
  <2>2. Ascending(uq') /\ Before(uq', ring) /\ Before(uq', cq) /\ Known(uq')
    BY <1>0, <2>1, OrderWithout DEF Order
  <2>. QED BY <2>1, <2>2 DEF Order, Known, Ascending, Before, ViaRing
<1>4. CASE FromRing
  <2>1. /\ 1 \in 1 .. Len(ring) /\ ring' \in Seq(Notif) /\ Without(ring, 1, ring')
        /\ Events(ring[1]) /\ cq' = cq /\ arrived' = arrived
    BY <1>4 DEF FromRing
  <2>2. Ascending(ring') /\ Before(uq, ring') /\ Known(ring') /\ \A i \in DOMAIN ring' : ViaRing(ring'[i].source)
    BY <1>0, <2>1, OrderWithout DEF Order
  <2>3. 1 \in DOMAIN ring /\ ring[1].num <= arrived[ring[1].source] /\ ViaRing(ring[1].source)
    BY <1>0, <2>1, Lengths DEF Order, Known
  <2>4. \A i \in DOMAIN uq : uq[i].source = ring[1].source => uq[i].num < ring[1].num
    BY <2>3 DEF Order, Before
  <2>5. /\ Ascending(uq') /\ \A i \in DOMAIN uq' : uq'[i].num <= arrived[uq'[i].source]
        /\ \A i \in DOMAIN uq' : uq'[i] = ring[1] \/ (i \in DOMAIN uq /\ uq'[i] = uq[i])
    BY <2>1, <2>3, <2>4, EventOrder
  <2>6. \A j \in DOMAIN ring' : ring'[j].source = ring[1].source => ring[1].num < ring'[j].num
    <3>. TAKE j \in DOMAIN ring'
    <3>1. From(1, j) \in DOMAIN ring /\ From(1, j) # 1 /\ ring'[j] = ring[From(1, j)] /\ DOMAIN ring = 1 .. Len(ring) /\ Len(ring) \in Nat
      BY <1>0, <2>1, WithoutKeeps
    <3>2. 1 < From(1, j)
      BY <3>1
    <3>. QED BY <2>3, <3>1, <3>2 DEF Order, Ascending
  <2>7. Before(uq', ring')
    BY <2>2, <2>5, <2>6 DEF Before
  <2>8. Before(uq', cq)
    BY <2>3, <2>5 DEF Before, Order
  <2>. QED BY <2>1, <2>2, <2>5, <2>7, <2>8 DEF Order, Known, Ascending, Before, ViaRing
<1>5. CASE FromCq
  <2>1. /\ 1 \in 1 .. Len(cq) /\ cq' \in Seq(Notif) /\ Without(cq, 1, cq')
        /\ Events(cq[1]) /\ ring' = ring /\ arrived' = arrived
    BY <1>5 DEF FromCq
  <2>2. Ascending(cq') /\ Before(uq, cq') /\ Known(cq') /\ \A i \in DOMAIN cq' : ~ViaRing(cq'[i].source)
    BY <1>0, <2>1, OrderWithout DEF Order
  <2>3. 1 \in DOMAIN cq /\ cq[1].num <= arrived[cq[1].source] /\ ~ViaRing(cq[1].source)
    BY <1>0, <2>1, Lengths DEF Order, Known
  <2>4. \A i \in DOMAIN uq : uq[i].source = cq[1].source => uq[i].num < cq[1].num
    BY <2>3 DEF Order, Before
  <2>5. /\ Ascending(uq') /\ \A i \in DOMAIN uq' : uq'[i].num <= arrived[uq'[i].source]
        /\ \A i \in DOMAIN uq' : uq'[i] = cq[1] \/ (i \in DOMAIN uq /\ uq'[i] = uq[i])
    BY <2>1, <2>3, <2>4, EventOrder
  <2>6. \A j \in DOMAIN cq' : cq'[j].source = cq[1].source => cq[1].num < cq'[j].num
    <3>. TAKE j \in DOMAIN cq'
    <3>1. From(1, j) \in DOMAIN cq /\ From(1, j) # 1 /\ cq'[j] = cq[From(1, j)] /\ DOMAIN cq = 1 .. Len(cq) /\ Len(cq) \in Nat
      BY <1>0, <2>1, WithoutKeeps
    <3>2. 1 < From(1, j)
      BY <3>1
    <3>. QED BY <2>3, <3>1, <3>2 DEF Order, Ascending
  <2>7. Before(uq', cq')
    BY <2>2, <2>5, <2>6 DEF Before
  <2>8. Before(uq', ring)
    BY <2>3, <2>5 DEF Before, Order
  <2>. QED BY <2>1, <2>2, <2>5, <2>7, <2>8 DEF Order, Known, Ascending, Before, ViaRing
<1>6. ASSUME NEW r \in Requests, Restarts(r)  PROVE Order'
  BY <1>6 DEF Restarts, Order, Ascending, Before, Known, ViaRing, queueVars
<1>. QED BY <1>1, <1>2, <1>3, <1>4, <1>5, <1>6, NotifMoves

---------------------------------------------------------------------------
(* Each notification is in one place.                                      *)

\* a step of the count: one more where b is, and only there
One(b) == IF b THEN 1 ELSE 0

LEMMA PlacesFacts ==
  ASSUME DataOK, NEW s \in Source, NEW k \in 1 .. MaxSend, InOnePlace(s, k)
  PROVE  /\ Cardinality(Among(ring, s, k)) \in Nat
         /\ Cardinality(Among(cq, s, k)) \in Nat
         /\ Cardinality(Among(uq, s, k)) \in Nat
         /\ Cardinality(Used(s, k)) \in Nat
         /\ Cardinality(Counted(s, k)) \in Nat
         /\ Places(s, k) = One(k <= arrived[s])
<1>1. /\ Cardinality(Among(ring, s, k)) \in Nat
      /\ Cardinality(Among(cq, s, k)) \in Nat
      /\ Cardinality(Among(uq, s, k)) \in Nat
  BY AmongFinite DEF DataOK
<1>2. Cardinality(Used(s, k)) \in Nat /\ Cardinality(Counted(s, k)) \in Nat
  BY FS_CardinalityType DEF InOnePlace
<1>. QED BY <1>1, <1>2 DEF InOnePlace, One

(* What is in a queue has not been counted.                                *)
LEMMA QueuedNotCounted ==
  ASSUME DataOK, AllInOnePlace, NEW q \in Seq(Notif), q = ring \/ q = cq \/ q = uq, NEW i \in 1 .. Len(q)
  PROVE  /\ q[i] \in Notif /\ q[i].source \in Source /\ q[i].num \in 1 .. MaxSend
         /\ Counted(q[i].source, q[i].num) = {}
<1>. DEFINE s == q[i].source
            k == q[i].num
<1>1. q[i] \in Notif /\ i \in DOMAIN q
  BY Lengths
<1>2. s \in Source /\ k \in 1 .. MaxSend
  BY <1>1 DEF Notif
<1>3. i \in Among(q, s, k)
  BY <1>1 DEF Among, Is
<1>4. Cardinality(Among(q, s, k)) # 0
  BY <1>3, AmongFinite, FS_EmptySet
<1>. HIDE DEF s, k
<1>5. InOnePlace(s, k)
  BY <1>2 DEF AllInOnePlace
<1>6. Cardinality(Counted(s, k)) = 0
  BY <1>2, <1>4, <1>5, PlacesFacts DEF Places, One
<1>7. Counted(s, k) = {}
  BY <1>5, <1>6, FS_EmptySet DEF InOnePlace
<1>. QED BY <1>1, <1>2, <1>7 DEF s, k

LEMMA CountedTake ==
  ASSUME DataOK, req \in Requests, NEW n \in Notif, Take(req, n), NEW s, NEW k,
         IsFiniteSet(Counted(s, k)), Is(n, s, k) => Counted(s, k) = {}
  PROVE  /\ IsFiniteSet(Counted(s, k)')
         /\ Cardinality(Counted(s, k)') = Cardinality(Counted(s, k)) + One(Is(n, s, k))
<1>1. got' = [got EXCEPT ![req] = got[req] \cup {n}] /\ got \in [Requests -> SUBSET Notif]
  BY DEF Take, DataOK
<1>2. \A r \in Requests : got'[r] = IF r = req THEN got[req] \cup {n} ELSE got[r]
  BY <1>1
<1>3. \A c \in Requests \X Notif : c[2] \in got'[c[1]] <=> c[2] \in got[c[1]] \/ c = <<req, n>>
  <2>. TAKE c \in Requests \X Notif
  <2>1. PICK r \in Requests, m \in Notif : c = <<r, m>>
    OBVIOUS
  <2>2. c[1] = r /\ c[2] = m /\ (c = <<req, n>> <=> r = req /\ m = n)
    BY <2>1
  <2>. QED BY <1>2, <2>2
<1>4. <<req, n>> \in Requests \X Notif /\ <<req, n>>[2] = n
  OBVIOUS
<1>5. CASE Is(n, s, k)
  <2>1. Counted(s, k)' = Counted(s, k) \cup {<<req, n>>}
    BY <1>3, <1>4, <1>5 DEF Counted, Is
  <2>2. <<req, n>> \notin Counted(s, k)
    BY <1>5
  <2>3. /\ IsFiniteSet(Counted(s, k) \cup {<<req, n>>})
        /\ Cardinality(Counted(s, k) \cup {<<req, n>>}) = Cardinality(Counted(s, k)) + 1
    BY ONLY IsFiniteSet(Counted(s, k)), <2>2, FS_AddElement
  <2>. QED BY <1>5, <2>1, <2>3 DEF One
<1>6. CASE ~Is(n, s, k)
  <2>1. Counted(s, k)' = Counted(s, k)
    BY <1>3, <1>4, <1>6 DEF Counted, Is
  <2>. QED BY <1>6, <2>1, FS_CardinalityType DEF One
<1>. QED BY <1>5, <1>6

(* An event moves a notification to uq or counts it.                       *)
LEMMA EventCounts ==
  ASSUME DataOK, AllInOnePlace, NEW x, Events(x), NEW s \in Source, NEW k \in 1 .. MaxSend,
         Is(x, s, k) => Counted(s, k) = {}
  PROVE  /\ IsFiniteSet(Counted(s, k)')
         /\ Cardinality(Among(uq', s, k)) + Cardinality(Counted(s, k)')
              = Cardinality(Among(uq, s, k)) + Cardinality(Counted(s, k)) + One(Is(x, s, k))
<1>1. InOnePlace(s, k) /\ IsFiniteSet(Counted(s, k)) /\ x \in Notif /\ req \in Requests /\ uq \in Seq(Notif)
  BY DEF AllInOnePlace, InOnePlace, Events, DataOK
<1>2. Cardinality(Among(uq, s, k)) \in Nat /\ Cardinality(Counted(s, k)) \in Nat
  BY <1>1, PlacesFacts
<1>3. CASE Take(req, x) /\ uq' = uq
  BY <1>1, <1>2, <1>3, CountedTake DEF One
<1>4. CASE uq' = Append(uq, x) /\ got' = got
  <2>1. Cardinality(Among(uq', s, k)) = Cardinality(Among(uq, s, k)) + One(Is(x, s, k))
    BY <1>1, <1>4, AmongAppend DEF One
  <2>2. Counted(s, k)' = Counted(s, k)
    BY <1>4 DEF Counted, Is
  <2>. QED BY <1>1, <1>2, <2>1, <2>2 DEF One
<1>. QED BY <1>3, <1>4 DEF Events, Event

LEMMA OnePlaceArrives ==
  ASSUME DataOK, AllInOnePlace, NEW n \in Notif, Arrives(n), NEW s \in Source, NEW k \in 1 .. MaxSend
  PROVE  InOnePlace(s, k)'
<1>1. /\ n.source \in Source /\ n.num = arrived[n.source] + 1 /\ arrived[s] \in Int
      /\ arrived' = [arrived EXCEPT ![n.source] = n.num] /\ n.num \in Int
  BY DEF Arrives, Notif, DataOK
<1>2. One(k <= arrived'[s]) = One(k <= arrived[s]) + One(Is(n, s, k))
  BY <1>1 DEF One, Is, DataOK
<1>3. InOnePlace(s, k)
  BY DEF AllInOnePlace
<1>4. Used(s, k)' = Used(s, k) /\ Counted(s, k)' = Counted(s, k) /\ uq' = uq
  BY DEF Arrives, Used, Counted, Is
<1>5. Cardinality(Among(ring', s, k)) + Cardinality(Among(cq', s, k))
        = Cardinality(Among(ring, s, k)) + Cardinality(Among(cq, s, k)) + One(Is(n, s, k))
  <2>1. ring \in Seq(Notif) /\ cq \in Seq(Notif)
    BY DEF DataOK
  <2>2. CASE ring' = Append(ring, n) /\ cq' = cq
    BY <1>3, <2>1, <2>2, AmongAppend, PlacesFacts DEF One
  <2>3. CASE cq' = Append(cq, n) /\ ring' = ring
    BY <1>3, <2>1, <2>3, AmongAppend, PlacesFacts DEF One
  <2>. QED BY <2>2, <2>3 DEF Arrives
<1>6. IsFiniteSet(Used(s, k)') /\ IsFiniteSet(Counted(s, k)')
  BY <1>3, <1>4 DEF InOnePlace
<1>7. Places(s, k)' = Cardinality(Among(ring', s, k)) + Cardinality(Among(cq', s, k))
        + Cardinality(Among(uq, s, k)) + Cardinality(Used(s, k)) + Cardinality(Counted(s, k))
  BY <1>4 DEF Places, Among, Is
<1>8. Places(s, k)' = Places(s, k) + One(Is(n, s, k))
  BY <1>3, <1>5, <1>7, PlacesFacts DEF Places, One
<1>9. Places(s, k)' = One(k <= arrived'[s])
  BY <1>2, <1>3, <1>8, PlacesFacts
<1>. QED BY <1>6, <1>9 DEF InOnePlace, One

(* A notification taken from a queue.                                      *)
LEMMA OnePlaceTaken ==
  ASSUME DataOK, AllInOnePlace, NEW s \in Source, NEW k \in 1 .. MaxSend,
         UNCHANGED <<arrived, used>>, IsFiniteSet(Counted(s, k)'),
         Cardinality(Among(ring', s, k)) + Cardinality(Among(cq', s, k))
           + Cardinality(Among(uq', s, k)) + Cardinality(Counted(s, k)')
         = Cardinality(Among(ring, s, k)) + Cardinality(Among(cq, s, k))
           + Cardinality(Among(uq, s, k)) + Cardinality(Counted(s, k)),
         Cardinality(Among(ring', s, k)) \in Nat, Cardinality(Among(cq', s, k)) \in Nat,
         Cardinality(Among(uq', s, k)) \in Nat
  PROVE  InOnePlace(s, k)'
<1>1. InOnePlace(s, k)
  BY DEF AllInOnePlace
<1>2. Used(s, k)' = Used(s, k) /\ arrived' = arrived
  BY DEF Used, Is
<1>3. Cardinality(Counted(s, k)') \in Nat
  BY FS_CardinalityType
<1>4. Places(s, k)' = Cardinality(Among(ring', s, k)) + Cardinality(Among(cq', s, k))
        + Cardinality(Among(uq', s, k)) + Cardinality(Used(s, k)) + Cardinality(Counted(s, k)')
  BY <1>2 DEF Places, Among, Is
<1>5. Places(s, k)' = Places(s, k)
  BY <1>1, <1>3, <1>4, PlacesFacts DEF Places
<1>. QED BY <1>1, <1>2, <1>5 DEF InOnePlace

(* Of five numbers whose sum is at most 1 one is not zero.                 *)
LEMMA OnlyOne ==
  ASSUME NEW a \in Nat, NEW b \in Nat, NEW c \in Nat, NEW d \in Nat, NEW e \in Nat,
         NEW t \in {0, 1}, t = a + b + c + d + e, e # 0
  PROVE  e = 1 /\ d = 0 /\ t = 1 /\ a + b + c = 0
OBVIOUS

LEMMA OnePlaceRestarts ==
  ASSUME DataOK, AllInOnePlace, NEW r \in Requests, Restarts(r), NEW s \in Source, NEW k \in 1 .. MaxSend
  PROVE  InOnePlace(s, k)'
<1>1. InOnePlace(s, k) /\ IsFiniteSet(Used(s, k)) /\ IsFiniteSet(Counted(s, k))
  BY DEF AllInOnePlace, InOnePlace
<1>2. UNCHANGED <<arrived, ring, cq, uq>>
  BY DEF Restarts, queueVars
<1>3. CASE Used(s, k)' = Used(s, k) /\ Counted(s, k)' = Counted(s, k)
  BY <1>1, <1>2, <1>3 DEF InOnePlace, Places, Among, Is
<1>4. CASE got' = got /\ used' = used
  <2>1. Used(s, k)' = Used(s, k) /\ Counted(s, k)' = Counted(s, k)
    BY <1>4 DEF Used, Counted, Is
  <2>. QED BY <1>3, <2>1
<1>5. CASE got' = [got EXCEPT ![r] = {}] /\ used' = used \cup got[r]
  <2>1. got[r] \subseteq Notif /\ \A q \in Requests : got'[q] = IF q = r THEN {} ELSE got[q]
    BY <1>5 DEF DataOK
  <2>2. CASE \A n \in got[r] : ~Is(n, s, k)
    <3>1. Used(s, k)' = Used(s, k)
      BY <1>5, <2>2 DEF Used, Is
    <3>2. \A c \in Requests \X Notif : Is(c[2], s, k) =>
            (c[2] \in got'[c[1]] <=> c[2] \in got[c[1]])
      BY <2>1, <2>2
    <3>3. Counted(s, k)' = Counted(s, k)
      BY <3>2 DEF Counted, Is
    <3>. QED BY <1>3, <3>1, <3>3
  <2>3. ASSUME NEW n \in got[r], Is(n, s, k)  PROVE InOnePlace(s, k)'
    <3>1. <<r, n>> \in Counted(s, k)
      BY <2>1, <2>3 DEF Counted
    <3>2. Cardinality(Counted(s, k)) # 0
      BY <1>1, <3>1, FS_EmptySet
    <3>3. /\ Cardinality(Counted(s, k)) = 1 /\ Cardinality(Used(s, k)) = 0
          /\ Places(s, k) = 1
          /\ Cardinality(Among(ring, s, k)) + Cardinality(Among(cq, s, k)) + Cardinality(Among(uq, s, k)) = 0
      <4>1. /\ Cardinality(Among(ring, s, k)) \in Nat /\ Cardinality(Among(cq, s, k)) \in Nat
            /\ Cardinality(Among(uq, s, k)) \in Nat /\ Cardinality(Used(s, k)) \in Nat
            /\ Cardinality(Counted(s, k)) \in Nat
        BY <1>1, PlacesFacts
      <4>2. Places(s, k) \in {0, 1}
        BY <1>1 DEF InOnePlace
      <4>3. Places(s, k) = Cardinality(Among(ring, s, k)) + Cardinality(Among(cq, s, k))
              + Cardinality(Among(uq, s, k)) + Cardinality(Used(s, k)) + Cardinality(Counted(s, k))
        BY DEF Places
      <4>. DEFINE a == Cardinality(Among(ring, s, k))
                  b == Cardinality(Among(cq, s, k))
                  c == Cardinality(Among(uq, s, k))
                  d == Cardinality(Used(s, k))
                  e == Cardinality(Counted(s, k))
                  t == Places(s, k)
      <4>4. a \in Nat /\ b \in Nat /\ c \in Nat /\ d \in Nat /\ e \in Nat /\ t \in {0, 1}
            /\ t = a + b + c + d + e /\ e # 0
        BY <3>2, <4>1, <4>2, <4>3
      <4>. HIDE DEF a, b, c, d, e, t
      <4>5. e = 1 /\ d = 0 /\ t = 1 /\ a + b + c = 0
        BY ONLY <4>4, OnlyOne
      <4>. QED BY <4>5 DEF a, b, c, d, e, t
    <3>4. Counted(s, k) = {<<r, n>>} /\ Used(s, k) = {}
      BY <1>1, <3>1, <3>3, FS_Singleton, FS_EmptySet
    <3>5. \A m \in got[r] : Is(m, s, k) => m = n
      <4>. TAKE m \in got[r]
      <4>. HAVE Is(m, s, k)
      <4>1. <<r, m>> \in Counted(s, k)
        BY <2>1 DEF Counted
      <4>2. <<r, m>> = <<r, n>>
        BY <3>4, <4>1
      <4>. QED BY <4>2
    <3>6. Used(s, k)' = {n}
      BY <1>5, <2>3, <3>4, <3>5 DEF Used, Is
    <3>7. Counted(s, k)' = {}
      <4>1. ASSUME NEW c \in Requests \X Notif, c[2] \in got'[c[1]], Is(c[2], s, k)  PROVE FALSE
        <5>1. c[1] # r /\ c[2] \in got[c[1]]
          BY <2>1, <4>1
        <5>2. c \in Counted(s, k)
          BY <4>1, <5>1 DEF Counted
        <5>. QED BY <3>4, <5>1, <5>2
      <4>. QED BY <4>1 DEF Counted, Is
    <3>8. /\ IsFiniteSet(Used(s, k)') /\ IsFiniteSet(Counted(s, k)')
          /\ Cardinality(Used(s, k)') = 1 /\ Cardinality(Counted(s, k)') = 0
      BY <3>6, <3>7, FS_Singleton, FS_EmptySet
    <3>9. Places(s, k)' = Cardinality(Among(ring, s, k)) + Cardinality(Among(cq, s, k))
            + Cardinality(Among(uq, s, k)) + Cardinality(Used(s, k)') + Cardinality(Counted(s, k)')
      BY <1>2 DEF Places, Among, Is
    <3>10. Places(s, k)' = 1
      BY <1>1, <3>3, <3>8, <3>9, PlacesFacts
    <3>. QED BY <1>1, <1>2, <3>3, <3>8, <3>10 DEF InOnePlace
  <2>. QED BY <2>2, <2>3
<1>. QED BY <1>4, <1>5 DEF Restarts, Activate

LEMMA OnePlaceKept ==
  ASSUME NotifTypeOK, Progress, AllInOnePlace, [NotifNext]_notifVars
  PROVE  AllInOnePlace'
<1>0. DataOK /\ ring \in Seq(Notif) /\ cq \in Seq(Notif) /\ uq \in Seq(Notif) /\ DataOK'
  BY DataKept DEF NotifTypeOK, DataOK
<1>. SUFFICES ASSUME NEW s \in Source, NEW k \in 1 .. MaxSend  PROVE InOnePlace(s, k)'
  BY DEF AllInOnePlace
<1>1. /\ Cardinality(Among(ring', s, k)) \in Nat
      /\ Cardinality(Among(cq', s, k)) \in Nat
      /\ Cardinality(Among(uq', s, k)) \in Nat
  BY <1>0, AmongFinite DEF DataOK
<1>2. InOnePlace(s, k) /\ IsFiniteSet(Counted(s, k))
  BY DEF AllInOnePlace, InOnePlace
<1>3. CASE UNCHANGED <<arrived, queueVars, found, got, used>>
  BY <1>2, <1>3 DEF InOnePlace, Places, Among, Used, Counted, Is, queueVars
<1>4. ASSUME NEW n \in Notif, Arrives(n)  PROVE InOnePlace(s, k)'
  BY <1>0, <1>4, OnePlaceArrives
<1>5. ASSUME NEW i, FromUq(i)  PROVE InOnePlace(s, k)'
  <2>1. /\ i \in 1 .. Len(uq) /\ uq' \in Seq(Notif) /\ Without(uq, i, uq') /\ req \in Requests
        /\ Take(req, uq[i]) /\ UNCHANGED <<arrived, ring, cq, used>>
    BY <1>5 DEF FromUq
  <2>2. uq[i] \in Notif /\ (Is(uq[i], s, k) => Counted(s, k) = {})
    BY <1>0, <2>1, QueuedNotCounted DEF Is
  <2>3. Cardinality(Among(uq', s, k)) = Cardinality(Among(uq, s, k)) - One(Is(uq[i], s, k))
    BY <1>0, <2>1, AmongWithout DEF One
  <2>4. /\ IsFiniteSet(Counted(s, k)')
        /\ Cardinality(Counted(s, k)') = Cardinality(Counted(s, k)) + One(Is(uq[i], s, k))
    BY <1>0, <1>2, <2>1, <2>2, CountedTake
  <2>5. Cardinality(Among(ring', s, k)) + Cardinality(Among(cq', s, k))
           + Cardinality(Among(uq', s, k)) + Cardinality(Counted(s, k)')
         = Cardinality(Among(ring, s, k)) + Cardinality(Among(cq, s, k))
           + Cardinality(Among(uq, s, k)) + Cardinality(Counted(s, k))
    BY <1>0, <1>2, <2>1, <2>3, <2>4, PlacesFacts DEF One
  <2>. QED BY <1>0, <1>1, <2>1, <2>4, <2>5, OnePlaceTaken
<1>6. CASE FromRing
  <2>1. /\ 1 \in 1 .. Len(ring) /\ ring' \in Seq(Notif) /\ Without(ring, 1, ring')
        /\ Events(ring[1]) /\ UNCHANGED <<arrived, cq, used>>
    BY <1>6 DEF FromRing
  <2>2. Is(ring[1], s, k) => Counted(s, k) = {}
    BY <1>0, <2>1, QueuedNotCounted DEF Is
  <2>3. Cardinality(Among(ring', s, k)) = Cardinality(Among(ring, s, k)) - One(Is(ring[1], s, k))
    BY <1>0, <2>1, AmongWithout DEF One
  <2>4. /\ IsFiniteSet(Counted(s, k)')
        /\ Cardinality(Among(uq', s, k)) + Cardinality(Counted(s, k)')
             = Cardinality(Among(uq, s, k)) + Cardinality(Counted(s, k)) + One(Is(ring[1], s, k))
    BY <1>0, <2>1, <2>2, EventCounts
  <2>5. Cardinality(Among(ring', s, k)) + Cardinality(Among(cq', s, k))
           + Cardinality(Among(uq', s, k)) + Cardinality(Counted(s, k)')
         = Cardinality(Among(ring, s, k)) + Cardinality(Among(cq, s, k))
           + Cardinality(Among(uq, s, k)) + Cardinality(Counted(s, k))
    <3>1. Cardinality(Among(ring, s, k)) \in Nat /\ Cardinality(Among(cq, s, k)) \in Nat
      BY <1>0, <1>2, PlacesFacts
    <3>2. /\ Cardinality(Among(uq, s, k)) \in Nat /\ Cardinality(Counted(s, k)) \in Nat
          /\ Cardinality(Counted(s, k)') \in Nat
      BY <1>0, <1>2, <2>4, PlacesFacts, FS_CardinalityType
    <3>3. One(Is(ring[1], s, k)) \in {0, 1} /\ Cardinality(Among(cq', s, k)) = Cardinality(Among(cq, s, k))
      BY <2>1 DEF One
    <3>. QED BY <1>1, <2>3, <2>4, <3>1, <3>2, <3>3
  <2>. QED BY <1>0, <1>1, <2>1, <2>4, <2>5, OnePlaceTaken
<1>7. CASE FromCq
  <2>1. /\ 1 \in 1 .. Len(cq) /\ cq' \in Seq(Notif) /\ Without(cq, 1, cq')
        /\ Events(cq[1]) /\ UNCHANGED <<arrived, ring, used>>
    BY <1>7 DEF FromCq
  <2>2. Is(cq[1], s, k) => Counted(s, k) = {}
    BY <1>0, <2>1, QueuedNotCounted DEF Is
  <2>3. Cardinality(Among(cq', s, k)) = Cardinality(Among(cq, s, k)) - One(Is(cq[1], s, k))
    BY <1>0, <2>1, AmongWithout DEF One
  <2>4. /\ IsFiniteSet(Counted(s, k)')
        /\ Cardinality(Among(uq', s, k)) + Cardinality(Counted(s, k)')
             = Cardinality(Among(uq, s, k)) + Cardinality(Counted(s, k)) + One(Is(cq[1], s, k))
    BY <1>0, <2>1, <2>2, EventCounts
  <2>5. Cardinality(Among(ring', s, k)) + Cardinality(Among(cq', s, k))
           + Cardinality(Among(uq', s, k)) + Cardinality(Counted(s, k)')
         = Cardinality(Among(ring, s, k)) + Cardinality(Among(cq, s, k))
           + Cardinality(Among(uq, s, k)) + Cardinality(Counted(s, k))
    <3>1. Cardinality(Among(cq, s, k)) \in Nat /\ Cardinality(Among(ring, s, k)) \in Nat
      BY <1>0, <1>2, PlacesFacts
    <3>2. /\ Cardinality(Among(uq, s, k)) \in Nat /\ Cardinality(Counted(s, k)) \in Nat
          /\ Cardinality(Counted(s, k)') \in Nat
      BY <1>0, <1>2, <2>4, PlacesFacts, FS_CardinalityType
    <3>3. One(Is(cq[1], s, k)) \in {0, 1} /\ Cardinality(Among(ring', s, k)) = Cardinality(Among(ring, s, k))
      BY <2>1 DEF One
    <3>. QED BY <1>1, <2>3, <2>4, <3>1, <3>2, <3>3
  <2>. QED BY <1>0, <1>1, <2>1, <2>4, <2>5, OnePlaceTaken
<1>8. ASSUME NEW r \in Requests, Restarts(r)  PROVE InOnePlace(s, k)'
  BY <1>0, <1>8, OnePlaceRestarts
<1>. QED BY <1>3, <1>4, <1>5, <1>6, <1>7, <1>8, NotifMoves

(* found counts got, and only what matches.                                *)
LEMMA GotTake ==
  ASSUME DataOK, GotCounted, req \in Requests, NEW n \in Notif, Take(req, n), Matches(req, n),
         Counted(n.source, n.num) = {}
  PROVE  GotCounted'
<1>1. got' = [got EXCEPT ![req] = got[req] \cup {n}] /\ found' = [found EXCEPT ![req] = found[req] + 1]
  BY DEF Take
<1>2. n \notin got[req]
  <2>1. n \in got[req] => <<req, n>> \in Counted(n.source, n.num)
    BY DEF Counted, Is
  <2>. QED BY <2>1
<1>3. ASSUME NEW r \in Requests
      PROVE  IsFiniteSet(got'[r]) /\ found'[r] = Cardinality(got'[r]) /\ \A m \in got'[r] : Matches(r, m)
  <2>1. IsFiniteSet(got[r]) /\ found[r] = Cardinality(got[r]) /\ \A m \in got[r] : Matches(r, m)
    BY DEF GotCounted
  <2>2. CASE r = req
    <3>1. got'[r] = got[req] \cup {n} /\ found'[r] = found[req] + 1
      BY <1>1, <2>2 DEF DataOK
    <3>2. IsFiniteSet(got[req] \cup {n}) /\ Cardinality(got[req] \cup {n}) = Cardinality(got[req]) + 1
      BY <1>2, <2>1, <2>2, FS_AddElement
    <3>. QED BY <2>1, <2>2, <3>1, <3>2
  <2>3. CASE r # req
    BY <1>1, <2>1, <2>3 DEF DataOK
  <2>. QED BY <2>2, <2>3
<1>. QED BY <1>3 DEF GotCounted, Matches

LEMMA GotEvent ==
  ASSUME DataOK, GotCounted, NEW x, Events(x), Counted(x.source, x.num) = {}
  PROVE  GotCounted'
<1>1. CASE Matches(req, x)
  BY <1>1, GotTake DEF Events, Event
<1>2. CASE ~Matches(req, x)
  <2>1. found' = found /\ got' = got
    BY <1>2 DEF Events, Event
  <2>. QED BY <2>1 DEF GotCounted, Matches
<1>. QED BY <1>1, <1>2

LEMMA GotCountedKept ==
  ASSUME NotifTypeOK, Progress, AllInOnePlace, GotCounted, [NotifNext]_notifVars
  PROVE  GotCounted'
<1>0. DataOK /\ ring \in Seq(Notif) /\ cq \in Seq(Notif) /\ uq \in Seq(Notif)
  BY DEF NotifTypeOK, DataOK
<1>1. CASE UNCHANGED <<found, got>>
  BY <1>1 DEF GotCounted, Matches
<1>2. ASSUME NEW i, FromUq(i)  PROVE GotCounted'
  BY <1>0, <1>2, QueuedNotCounted, GotTake DEF FromUq
<1>3. CASE FromRing
  BY <1>0, <1>3, QueuedNotCounted, GotEvent DEF FromRing
<1>4. CASE FromCq
  BY <1>0, <1>4, QueuedNotCounted, GotEvent DEF FromCq
<1>5. ASSUME NEW r \in Requests, Restarts(r)  PROVE GotCounted'
  <2>1. CASE got' = [got EXCEPT ![r] = {}] /\ found' = [found EXCEPT ![r] = 0]
    <3>1. ASSUME NEW q \in Requests
          PROVE  /\ IsFiniteSet(got'[q]) /\ found'[q] = Cardinality(got'[q])
                 /\ \A m \in got'[q] : Matches(q, m)
      BY <1>0, <2>1, FS_EmptySet DEF GotCounted, DataOK
    <3>. QED BY <3>1 DEF GotCounted, Matches
  <2>. QED BY <1>1, <1>5, <2>1 DEF Restarts, Activate
<1>. QED BY <1>1, <1>2, <1>3, <1>4, <1>5, NotifMoves DEF Arrives

---------------------------------------------------------------------------
(* What the call has looked at, and what it can still reach.               *)

(* An event of the poll loop leaves nothing that matches in uq.            *)
LEMMA EventFitting ==
  ASSUME NotifTypeOK, NEW x, Events(x), Fitting = {}, req' = req
  PROVE  Fitting' = {}
<1>1. uq \in Seq(Notif) /\ x \in Notif
  BY DEF NotifTypeOK, Events
<1>2. CASE uq' = uq
  BY <1>2 DEF Fitting, Matches
<1>3. CASE uq' = Append(uq, x) /\ ~Matches(req, x)
  <2>1. \A i \in DOMAIN uq' : uq'[i] = x \/ (i \in DOMAIN uq /\ uq'[i] = uq[i])
    BY <1>1, <1>3, AppendFacts
  <2>2. \A i \in DOMAIN uq : ~Matches(req, uq[i])
    BY DEF Fitting
  <2>3. \A i \in DOMAIN uq' : ~Matches(req, uq'[i])
    BY <1>3, <2>1, <2>2
  <2>. QED BY <2>3 DEF Fitting, Matches
<1>. QED BY <1>2, <1>3 DEF Events, Event

LEMMA SearchedKept ==
  ASSUME NotifTypeOK, Progress, Searched, [NotifNext]_notifVars
  PROVE  Searched'
<1>1. CASE place' \notin {"poll", "cq"}
  BY <1>1 DEF Searched
<1>2. CASE UNCHANGED <<uq, found, place, req>>
  BY <1>2 DEF Searched, Missing, Fitting, Matches
<1>3. ASSUME PollRing  PROVE Searched'
  <2>1. FromRing
    BY <1>3, PollRingMoves
  <2>2. Missing(req) > 0 /\ Fitting = {}
    BY <1>3 DEF PollRing, Searched
  <2>. QED BY <2>1, <2>2, EventFitting DEF FromRing, Searched
<1>4. ASSUME PollCq  PROVE Searched'
  <2>1. FromCq
    BY <1>4, PollCqMoves
  <2>2. Missing(req) > 0 /\ Fitting = {}
    BY <1>4 DEF PollCq, Searched, Progress
  <2>. QED BY <2>1, <2>2, EventFitting DEF FromCq, Searched
<1>5. ASSUME UqSearched  PROVE Searched'
  <2>1. UNCHANGED <<uq, found, req>> /\ (Missing(req) = 0 \/ Fitting = {})
    BY <1>5 DEF UqSearched, queueVars
  <2>2. Missing(req)' = Missing(req) /\ Fitting' = Fitting
    BY <2>1 DEF Missing, Fitting, Matches
  <2>. QED BY <2>1, <2>2 DEF Searched
<1>6. ASSUME RingEmpty \/ PollAgain  PROVE Searched'
  <2>1. UNCHANGED <<uq, found, req>> /\ place \in {"poll", "cq"}
    BY <1>6 DEF RingEmpty, PollAgain, NothingRemote, queueVars
  <2>2. Missing(req)' = Missing(req) /\ Fitting' = Fitting
    BY <2>1 DEF Missing, Fitting, Matches
  <2>. QED BY <2>1, <2>2 DEF Searched
<1>7. ASSUME NEW s \in Source, NEW t \in Tag, Arrive(s, t)  PROVE UNCHANGED <<uq, found, place, req>>
  BY <1>7 DEF Arrive
<1>8. ASSUME NEW r \in Requests, Start(r) \/ Test(r) \/ Wait(r)  PROVE place' \notin {"poll", "cq"}
  BY <1>8 DEF Start, Test, Wait, BeginMatch
<1>9. ASSUME Testany \/ Waitany \/ AnySkip \/ AnyTest \/ AnyEnd  PROVE place' \notin {"poll", "cq"}
  BY <1>9 DEF Testany, Waitany, AnySkip, AnyTest, AnyEnd, BeginAny, BeginMatch
<1>10. ASSUME SearchUq \/ TestGivesUp \/ AnyGivesUp \/ Completes  PROVE place' \notin {"poll", "cq"}
  BY <1>10 DEF SearchUq, TestGivesUp, AnyGivesUp, Completes
<1>11. CASE UNCHANGED notifVars
  BY <1>2, <1>11 DEF notifVars, queueVars
<1>. QED BY <1>1, <1>2, <1>3, <1>4, <1>5, <1>6, <1>7, <1>8, <1>9, <1>10, <1>11 DEF NotifNext, CallStep

(* Part of what is queued is finite.                                       *)
LEMMA QueuedFinite ==
  ASSUME NEW a \in Seq(Notif), NEW b \in Seq(Notif), NEW c \in Seq(Notif),
         NEW T \in SUBSET (ToSet(a) \cup ToSet(b) \cup ToSet(c))
  PROVE  IsFiniteSet(T)
<1>1. IsFiniteSet(ToSet(a)) /\ IsFiniteSet(ToSet(b)) /\ IsFiniteSet(ToSet(c))
  BY ToSetFacts
<1>2. IsFiniteSet(ToSet(a) \cup ToSet(b))
  BY <1>1, FS_Union
<1>3. IsFiniteSet(ToSet(a) \cup ToSet(b) \cup ToSet(c))
  BY <1>1, <1>2, FS_Union
<1>. QED BY <1>3, FS_Subset

(* As many are left when none is taken out, and one less when one is.      *)
LEMMA EnoughLeft ==
  ASSUME NEW A, NEW B, IsFiniteSet(B), NEW m \in Int, Cardinality(A) >= m, NEW x, A \subseteq B \cup {x}
  PROVE  Cardinality(B) >= m - 1 /\ (A \subseteq B => Cardinality(B) >= m)
<1>1. /\ IsFiniteSet(B \cup {x}) /\ Cardinality(B) \in Nat
      /\ Cardinality(B \cup {x}) = IF x \in B THEN Cardinality(B) ELSE Cardinality(B) + 1
  BY FS_AddElement, FS_CardinalityType
<1>2. IsFiniteSet(A) /\ Cardinality(A) <= Cardinality(B \cup {x})
  BY <1>1, FS_Subset
<1>3. Cardinality(A) \in Nat
  BY <1>2, FS_CardinalityType
<1>4. A \subseteq B => Cardinality(A) <= Cardinality(B)
  BY FS_Subset
<1>. QED BY <1>1, <1>2, <1>3, <1>4

(* So is what the call can reach.                                          *)
LEMMA ReachFinite ==
  ASSUME NotifTypeOK, Progress, [NotifNext]_notifVars
  PROVE  IsFiniteSet(Reach')
<1>1. ring' \in Seq(Notif) /\ cq' \in Seq(Notif) /\ uq' \in Seq(Notif)
  BY DataKept DEF DataOK
<1>2. Reach' \subseteq ToSet(ring') \cup ToSet(cq') \cup ToSet(uq')
  BY DEF Reach, Available, Queued, ToSet
<1>. QED BY <1>1, <1>2, QueuedFinite

(* A request that leaves the ring alone matches nothing there.             *)
LEMMA NoneInRing ==
  ASSUME Order, ~Local(req)
  PROVE  \A n \in ToSet(ring) : ~Matches(req, n)
<1>. TAKE n \in ToSet(ring)
<1>1. PICK i \in DOMAIN ring : ring[i] = n
  BY DEF ToSet
<1>2. n.source \in OnNode /\ ~Dynamic
  BY <1>1 DEF Order, ViaRing
<1>. QED BY <1>2 DEF Local, Matches

(* Nor does one that leaves the completion queue alone.                    *)
LEMMA NoneInCq ==
  ASSUME Order, ~Remote(req)
  PROVE  \A n \in ToSet(cq) : ~Matches(req, n)
<1>. TAKE n \in ToSet(cq)
<1>1. PICK i \in DOMAIN cq : cq[i] = n
  BY DEF ToSet
<1>2. n.source \notin OnNode \/ Dynamic
  BY <1>1 DEF Order, ViaRing
<1>. QED BY <1>2 DEF Local, Remote, Matches

(* An event takes out what the request needs, or moves the rest.           *)
LEMMA EventReach ==
  ASSUME NotifTypeOK, Progress, EnoughKept, [NotifNext]_notifVars,
         Matching, enough, NEW x, Events(x), req' = req, place' = "poll",
         Reach \subseteq {n \in ToSet(ring') \cup ToSet(cq') \cup ToSet(uq) \cup {x} : Matches(req, n)}
  PROVE  Cardinality(Reach') >= Missing(req)'
<1>1. /\ Cardinality(Reach) >= Missing(req) /\ Missing(req) \in Int /\ IsFiniteSet(Reach')
      /\ uq \in Seq(Notif) /\ x \in Notif
  BY ReachFinite, WantType DEF EnoughKept, NotifTypeOK, Missing, Events
<1>2. Reach' = {n \in ToSet(ring') \cup ToSet(cq') \cup ToSet(uq') : Matches(req, n)}
  BY DEF Reach, Available, Queued, Matches, ToSet
<1>3. CASE Take(req, x) /\ uq' = uq
  <2>1. Reach \subseteq Reach' \cup {x}
    BY <1>2, <1>3
  <2>2. found' = [found EXCEPT ![req] = found[req] + 1] /\ found \in [Requests -> Nat] /\ req \in Requests
    BY <1>3 DEF Take, NotifTypeOK
  <2>3. Missing(req)' = Missing(req) - 1
    BY <2>2, WantType DEF Missing
  <2>. QED BY <1>1, <2>1, <2>3, EnoughLeft
<1>4. CASE uq' = Append(uq, x) /\ found' = found
  <2>1. ToSet(uq') = ToSet(uq) \cup {x}
    BY <1>1, <1>4, ToSetAppend
  <2>2. Reach \subseteq Reach'
    BY <1>2, <2>1
  <2>3. Missing(req)' = Missing(req)
    BY <1>4 DEF Missing
  <2>. QED BY <1>1, <2>2, <2>3, EnoughLeft
<1>. QED BY <1>3, <1>4 DEF Events, Event

(* Nothing is taken out and no more is needed.                             *)
LEMMA ReachGrows ==
  ASSUME NotifTypeOK, Progress, EnoughKept, [NotifNext]_notifVars,
         Matching, enough, UNCHANGED <<found, req>>, Reach \subseteq Reach'
  PROVE  Cardinality(Reach') >= Missing(req)'
<1>1. Cardinality(Reach) >= Missing(req) /\ Missing(req) \in Int /\ IsFiniteSet(Reach')
  BY ReachFinite, WantType DEF EnoughKept, NotifTypeOK, Missing
<1>2. Missing(req)' = Missing(req)
  BY DEF Missing
<1>. QED BY <1>1, <1>2, EnoughLeft

(* A call begins: it says itself whether there is enough.                  *)
LEMMA BeginEnough ==
  ASSUME NEW r, BeginMatch(r), UNCHANGED <<queueVars, found>>
  PROVE  EnoughKept'
<1>1. Reach' = Available(r) /\ Missing(req)' = Missing(r)
  BY DEF BeginMatch, Reach, Available, Queued, Matches, Missing, queueVars, ToSet
<1>2. enough' => Cardinality(Available(r)) >= Missing(r)
  BY DEF BeginMatch
<1>. QED BY <1>1, <1>2 DEF EnoughKept

LEMMA EnoughKeptKept ==
  ASSUME NotifTypeOK, Progress, Order, Searched, EnoughKept, [NotifNext]_notifVars
  PROVE  EnoughKept'
<1>0. ring \in Seq(Notif) /\ cq \in Seq(Notif) /\ uq \in Seq(Notif) /\ req \in Requests
  BY DEF NotifTypeOK
<1>1. CASE ~Matching'
  BY <1>1 DEF EnoughKept
<1>2. CASE ~enough'
  BY <1>2 DEF EnoughKept
<1>3. ASSUME Matching, enough, UNCHANGED <<found, req>>, Reach \subseteq Reach'  PROVE EnoughKept'
  BY <1>3, ReachGrows DEF EnoughKept
<1>4. CASE UNCHANGED notifVars
  BY <1>4 DEF EnoughKept, Matching, Reach, Available, Queued, Matches, Missing, ToSet, notifVars, queueVars
<1>5. ASSUME NEW s \in Source, NEW t \in Tag, Arrive(s, t), Matching, enough  PROVE EnoughKept'
  <2>. DEFINE n == [source |-> s, tag |-> t, num |-> arrived[s] + 1]
  <2>1. /\ UNCHANGED <<uq, found, req, place>>
        /\ \/ ring' = Append(ring, n) /\ cq' = cq
           \/ cq' = Append(cq, n) /\ ring' = ring
    BY <1>5 DEF Arrive
  <2>2. n \in Notif
    <3>1. arrived[s] \in 0 .. MaxSend /\ arrived[s] < MaxSend /\ MaxSend \in Nat
      BY <1>5, BoundAssumption DEF Arrive, NotifTypeOK
    <3>. QED BY <3>1 DEF Notif
  <2>. HIDE DEF n
  <2>3. ToSet(ring) \subseteq ToSet(ring') /\ ToSet(cq) \subseteq ToSet(cq') /\ ToSet(uq) = ToSet(uq')
    <3>1. CASE ring' = Append(ring, n) /\ cq' = cq
      <4>1. ToSet(ring') = ToSet(ring) \cup {n}
        BY <1>0, <2>2, <3>1, ToSetAppend
      <4>. QED BY <2>1, <3>1, <4>1
    <3>2. CASE cq' = Append(cq, n) /\ ring' = ring
      <4>1. ToSet(cq') = ToSet(cq) \cup {n}
        BY <1>0, <2>2, <3>2, ToSetAppend
      <4>. QED BY <2>1, <3>2, <4>1
    <3>. QED BY <2>1, <3>1, <3>2
  <2>4. Reach \subseteq Reach'
    BY <2>1, <2>3 DEF Reach, Available, Queued, Matches, ToSet
  <2>. QED BY <1>3, <1>5, <2>1, <2>4
<1>6. ASSUME NEW r \in Requests, Test(r) \/ Wait(r)  PROVE EnoughKept'
  BY <1>6, BeginEnough DEF Test, Wait
<1>7. CASE AnyTest
  BY <1>7, BeginEnough DEF AnyTest
<1>8. ASSUME SearchUq, enough  PROVE EnoughKept'
  <2>1. PICK i : FromUq(i)
    BY <1>8, SearchUqMoves
  <2>2. /\ i \in 1 .. Len(uq) /\ uq' \in Seq(Notif) /\ Without(uq, i, uq') /\ UNCHANGED <<ring, cq>>
        /\ found' = [found EXCEPT ![req] = @ + 1]
    BY <2>1 DEF FromUq, Take
  <2>3. place = "uq" /\ place' = place /\ req' = req /\ enough' = enough
    BY <1>8 DEF SearchUq
  <2>4. ToSet(uq) \subseteq ToSet(uq') \cup {uq[i]}
    BY <1>0, <2>2, ToSetWithout
  <2>5. Reach \subseteq Reach' \cup {uq[i]}
    <3>1. Reach = {n \in ToSet(ring) \cup ToSet(cq) \cup ToSet(uq) : Matches(req, n)}
      BY <2>3 DEF Reach, Available, Queued
    <3>2. Reach' = {n \in ToSet(ring) \cup ToSet(cq) \cup ToSet(uq') : Matches(req, n)}
      BY <2>2, <2>3 DEF Reach, Available, Queued, Matches, ToSet
    <3>. QED BY <2>4, <3>1, <3>2
  <2>6. Missing(req)' = Missing(req) - 1 /\ Missing(req) \in Int
    <3>1. found \in [Requests -> Nat] /\ found' = [found EXCEPT ![req] = found[req] + 1] /\ req' = req
      BY <2>2, <2>3 DEF NotifTypeOK
    <3>2. Want[req].count \in Nat /\ found[req] \in Nat /\ found'[req] = found[req] + 1
      BY <1>0, <3>1, WantType
    <3>. QED BY <3>1, <3>2 DEF Missing
  <2>7. Cardinality(Reach) >= Missing(req)
    BY <1>8, <2>3 DEF EnoughKept, Matching
  <2>8. Cardinality(Reach') >= Missing(req)'
    BY <2>5, <2>6, <2>7, ReachFinite, EnoughLeft
  <2>. QED BY <2>8 DEF EnoughKept
<1>9. ASSUME UqSearched, enough  PROVE EnoughKept'
  <2>1. UNCHANGED <<queueVars, found, req>> /\ Matching /\ place # "cq" /\ place' # "cq"
    BY <1>9 DEF UqSearched, Matching
  <2>2. Reach' = Reach
    BY <2>1 DEF Reach, Available, Queued, Matches, ToSet, queueVars
  <2>. QED BY <1>3, <1>9, <2>1, <2>2
<1>10. ASSUME PollRing, enough  PROVE EnoughKept'
  <2>1. FromRing
    BY <1>10, PollRingMoves
  <2>2. /\ Events(ring[1]) /\ req' = req /\ place' = "poll" /\ place = "poll" /\ cq' = cq /\ Matching
        /\ 1 \in 1 .. Len(ring) /\ ring' \in Seq(Notif) /\ Without(ring, 1, ring')
    BY <2>1 DEF FromRing, Matching
  <2>3. ToSet(ring) \subseteq ToSet(ring') \cup {ring[1]} /\ ToSet(cq) = ToSet(cq')
    BY <1>0, <2>2, ToSetWithout
  <2>4. Reach \subseteq {n \in ToSet(ring') \cup ToSet(cq') \cup ToSet(uq) \cup {ring[1]} : Matches(req, n)}
    BY <2>2, <2>3 DEF Reach, Available, Queued
  <2>. QED BY <1>10, <2>2, <2>4, EventReach DEF EnoughKept
<1>11. ASSUME PollCq, enough  PROVE EnoughKept'
  <2>1. FromCq
    BY <1>11, PollCqMoves
  <2>2. /\ Events(cq[1]) /\ req' = req /\ place' = "poll" /\ place = "cq" /\ ring' = ring /\ Matching
        /\ 1 \in 1 .. Len(cq) /\ cq' \in Seq(Notif) /\ Without(cq, 1, cq')
    BY <2>1 DEF FromCq, Matching
  <2>3. ToSet(cq) \subseteq ToSet(cq') \cup {cq[1]}
    BY <1>0, <2>2, ToSetWithout
  <2>4. Reach \subseteq {n \in ToSet(ring') \cup ToSet(cq') \cup ToSet(uq) \cup {cq[1]} : Matches(req, n)}
    BY <2>2, <2>3 DEF Reach
  <2>. QED BY <1>11, <2>2, <2>4, EventReach DEF EnoughKept
<1>12. ASSUME RingEmpty, enough  PROVE EnoughKept'
  <2>1. UNCHANGED <<queueVars, found, req>> /\ Matching /\ place = "poll" /\ place' = "cq"
    BY <1>12 DEF RingEmpty, Matching
  <2>2. \A n \in ToSet(ring) : ~Matches(req, n)
    <3>1. CASE ring = << >>
      BY <3>1 DEF ToSet
    <3>2. CASE ~Local(req)
      BY <3>2, NoneInRing
    <3>. QED BY <1>12, <3>1, <3>2 DEF RingEmpty
  <2>3. Reach' = {n \in ToSet(cq) \cup ToSet(uq) : Matches(req, n)}
    BY <2>1 DEF Reach, Matches, ToSet, queueVars
  <2>4. Reach \subseteq Reach'
    BY <2>1, <2>2, <2>3 DEF Reach, Available, Queued
  <2>. QED BY <1>3, <1>12, <2>1, <2>4
<1>13. ASSUME PollAgain, enough  PROVE EnoughKept'
  <2>1. UNCHANGED <<queueVars, found, req>> /\ Matching /\ place = "cq" /\ place' = "poll"
    BY <1>13 DEF PollAgain, NothingRemote, Matching
  <2>2. Reach \subseteq Reach'
    BY <2>1 DEF Reach, Available, Queued, Matches, ToSet, queueVars
  <2>. QED BY <1>3, <1>13, <2>1, <2>2
<1>14. ASSUME NEW r \in Requests, Start(r)  PROVE ~Matching'
  BY <1>14 DEF Start, Matching
<1>15. ASSUME Testany \/ Waitany \/ AnySkip \/ AnyEnd  PROVE ~Matching'
  BY <1>15 DEF Testany, Waitany, AnySkip, AnyEnd, BeginAny, Matching
<1>16. ASSUME TestGivesUp \/ AnyGivesUp \/ Completes  PROVE ~Matching'
  BY <1>16 DEF TestGivesUp, AnyGivesUp, Completes, Matching
<1>17. ASSUME SearchUq \/ UqSearched \/ PollRing \/ PollCq \/ RingEmpty \/ PollAgain  PROVE enough' = enough
  BY <1>17 DEF SearchUq, UqSearched, PollRing, PollCq, RingEmpty, PollAgain
<1>18. ASSUME NEW s \in Source, NEW t \in Tag, Arrive(s, t)  PROVE enough' = enough /\ Matching' = Matching
  BY <1>18 DEF Arrive, Matching
<1>. QED BY <1>1, <1>2, <1>4, <1>5, <1>6, <1>7, <1>8, <1>9, <1>10, <1>11, <1>12, <1>13, <1>14, <1>15,
            <1>16, <1>17, <1>18 DEF NotifNext, CallStep

---------------------------------------------------------------------------
(* The theorems.                                                           *)

LEMMA NotifInitInv ==
  NotifInit => NotifInv
<1>. SUFFICES ASSUME NotifInit  PROVE NotifInv
  OBVIOUS
<1>1. /\ arrived = [s \in Source |-> 0] /\ ring = << >> /\ cq = << >> /\ uq = << >>
      /\ found = [r \in Requests |-> 0] /\ active = [r \in Requests |-> FALSE]
      /\ op = "none" /\ place = "idle" /\ req = 0 /\ first = 0 /\ next = 0 /\ inactive = 0
      /\ got = [r \in Requests |-> {}] /\ used = {} /\ pending = {} /\ enough = FALSE
  BY DEF NotifInit
<1>2. NotifTypeOK
  <2>1. DataOK
    <3>1. \A r \in Requests : found[r] <= Want[r].count
      BY <1>1, WantType
    <3>2. arrived \in [Source -> 0 .. MaxSend]
      BY <1>1, BoundAssumption
    <3>. QED BY <1>1, <3>1, <3>2 DEF DataOK
  <2>2. 0 \in Requests /\ NRequest \in Nat \ {0}
    BY WantAssumption DEF Requests
  <2>3. active \in [Requests -> BOOLEAN]
    BY <1>1
  <2>4. ControlOK
    BY <1>1, <2>2, <2>3 DEF ControlOK, Calls
  <2>. QED BY <2>1, <2>4 DEF NotifTypeOK, DataOK, ControlOK
<1>3. Progress /\ Searched /\ EnoughKept
  BY <1>1 DEF Progress, Searched, EnoughKept, Matching
<1>4. Order
  BY <1>1 DEF Order, Ascending, Before, Known
<1>5. ASSUME NEW s \in Source, NEW k \in 1 .. MaxSend  PROVE InOnePlace(s, k)
  <2>1. Used(s, k) = {} /\ Among(ring, s, k) = {} /\ Among(cq, s, k) = {} /\ Among(uq, s, k) = {}
    BY <1>1 DEF Used, Among
  <2>2. Counted(s, k) = {}
    BY <1>1 DEF Counted
  <2>3. arrived[s] = 0 /\ ~(k <= 0)
    BY <1>1
  <2>4. Places(s, k) = 0
    BY <2>1, <2>2, FS_EmptySet DEF Places
  <2>. QED BY <2>1, <2>2, <2>3, <2>4, FS_EmptySet DEF InOnePlace
<1>6. GotCounted
  BY <1>1, FS_EmptySet DEF GotCounted
<1>. QED BY <1>2, <1>3, <1>4, <1>5, <1>6 DEF NotifInv, AllInOnePlace

LEMMA NotifNextInv ==
  NotifInv /\ [NotifNext]_notifVars => NotifInv'
<1>. SUFFICES ASSUME NotifInv, [NotifNext]_notifVars  PROVE NotifInv'
  OBVIOUS
<1>. USE DEF NotifInv
<1>1. NotifTypeOK' /\ Progress'
  BY NotifTypesKept
<1>2. Order' /\ Searched'
  BY OrderKept, SearchedKept
<1>3. EnoughKept'
  BY EnoughKeptKept
<1>4. AllInOnePlace' /\ GotCounted'
  BY OnePlaceKept, GotCountedKept
<1>. QED BY <1>1, <1>2, <1>3, <1>4

LEMMA NotifInvariant ==
  NotifSpec => []NotifInv
BY NotifInitInv, NotifNextInv, PTL DEF NotifSpec

(* No notification is lost and none is counted twice, by whatever requests *)
(* and calls compete for it.                                               *)
THEOREM NotificationsCountedOnce ==
  NotifSpec => []CountedOnce
<1>1. NotifInv => CountedOnce
  BY DEF NotifInv, AllInOnePlace, InOnePlace, GotCounted, CountedOnce
<1>. QED BY <1>1, NotifInvariant, PTL

\* the older one that OldestFirst excludes
Older(m, n, r) == m.source = n.source /\ m.num < n.num /\ Matches(r, m)

(* What a later queue holds is not older.                                  *)
LEMMA NoneOlder ==
  ASSUME NotifTypeOK, Order, NEW q \in Seq(Notif), NEW p \in Seq(Notif), Before(q, p),
         NEW i \in DOMAIN q, NEW m \in ToSet(p), m.source = q[i].source
  PROVE  ~(m.num < q[i].num)
<1>1. PICK j \in DOMAIN p : p[j] = m
  BY DEF ToSet
<1>2. q[i].num < m.num
  BY <1>1 DEF Before
<1>3. q[i].num \in Int /\ m.num \in Int
  BY <1>1, NotifElements
<1>. QED BY <1>2, <1>3

LEMMA OldestTaken ==
  ASSUME NotifInv, [NotifNext]_notifVars, NEW r \in Requests, NEW n \in got'[r] \ got[r],
         NEW m \in Queued', Older(m, n, r)
  PROVE  FALSE
<1>. USE DEF NotifInv
<1>0. /\ ring \in Seq(Notif) /\ cq \in Seq(Notif) /\ uq \in Seq(Notif) /\ got \in [Requests -> SUBSET Notif]
      /\ DOMAIN ring = 1 .. Len(ring) /\ DOMAIN cq = 1 .. Len(cq) /\ DOMAIN uq = 1 .. Len(uq)
  BY Lengths DEF NotifTypeOK
<1>1. m \in ToSet(ring') \/ m \in ToSet(cq') \/ m \in ToSet(uq')
  BY DEF Queued, ToSet
<1>2. ASSUME NEW x, Take(req, x)  PROVE r = req /\ n = x
  <2>1. got' = [got EXCEPT ![req] = got[req] \cup {x}]
    BY <1>2 DEF Take
  <2>. QED BY <1>0, <2>1
<1>3. ASSUME NEW i, FromUq(i)  PROVE FALSE
  <2>1. /\ i \in 1 .. Len(uq) /\ uq' \in Seq(Notif) /\ Without(uq, i, uq') /\ ring' = ring /\ cq' = cq
        /\ \A j \in 1 .. Len(uq) : Matches(req, uq[j]) => i <= j
        /\ r = req /\ n = uq[i]
    BY <1>2, <1>3 DEF FromUq
  <2>2. m \notin ToSet(ring') /\ m \notin ToSet(cq')
    BY <1>0, <2>1, NoneOlder DEF Older, Order
  <2>3. PICK l \in DOMAIN uq' : uq'[l] = m
    BY <1>1, <2>2 DEF ToSet
  <2>4. From(i, l) \in DOMAIN uq /\ From(i, l) # i /\ m = uq[From(i, l)]
    BY <1>0, <2>1, <2>3, WithoutKeeps
  <2>5. i < From(i, l)
    BY <1>0, <2>1, <2>4, Lengths DEF Older
  <2>6. uq[i].num < m.num
    BY <1>0, <2>1, <2>4, <2>5 DEF Older, Order, Ascending
  <2>7. uq[i].num \in Int /\ m.num \in Int
    BY <1>0, <2>1, <2>4, NotifElements
  <2>. QED BY <2>1, <2>6, <2>7 DEF Older
<1>4. ASSUME NEW x, Events(x)  PROVE r = req /\ n = x /\ Matches(req, x) /\ uq' = uq
  <2>1. Matches(req, x)
    BY <1>0, <1>4 DEF Events, Event
  <2>. QED BY <1>2, <1>4, <2>1 DEF Events, Event
<1>5. ASSUME Missing(req) > 0, place \in {"poll", "cq"}, m \in ToSet(uq), r = req  PROVE FALSE
  <2>1. PICK l \in DOMAIN uq : uq[l] = m
    BY <1>5 DEF ToSet
  <2>2. l \in Fitting
    BY <1>5, <2>1 DEF Older, Fitting
  <2>. QED BY <1>5, <2>2 DEF Searched
<1>6. ASSUME FromRing  PROVE FALSE
  <2>1. /\ 1 \in DOMAIN ring /\ ring' \in Seq(Notif) /\ Without(ring, 1, ring') /\ cq' = cq
        /\ Missing(req) > 0 /\ place \in {"poll", "cq"} /\ r = req /\ n = ring[1] /\ uq' = uq
    BY <1>0, <1>4, <1>6 DEF FromRing, Events
  <2>2. m \notin ToSet(uq')
    BY <1>5, <2>1
  <2>3. m \notin ToSet(cq')
    <3>1. ASSUME NEW l \in DOMAIN cq, cq[l] = m  PROVE FALSE
      BY <2>1, <3>1 DEF Older, Order
    <3>. QED BY <2>1, <3>1 DEF ToSet
  <2>4. PICK l \in DOMAIN ring' : ring'[l] = m
    BY <1>1, <2>2, <2>3 DEF ToSet
  <2>5. From(1, l) \in DOMAIN ring /\ From(1, l) # 1 /\ m = ring[From(1, l)]
    BY <1>0, <2>1, <2>4, WithoutKeeps
  <2>6. 1 < From(1, l)
    BY <1>0, <2>5, Lengths
  <2>7. ring[1].num < m.num
    BY <2>1, <2>5, <2>6 DEF Older, Order, Ascending
  <2>8. ring[1].num \in Int /\ m.num \in Int
    BY <1>0, <2>1, <2>5, NotifElements
  <2>. QED BY <2>1, <2>7, <2>8 DEF Older
<1>7. ASSUME FromCq  PROVE FALSE
  <2>1. /\ 1 \in DOMAIN cq /\ cq' \in Seq(Notif) /\ Without(cq, 1, cq') /\ ring' = ring
        /\ Missing(req) > 0 /\ place \in {"poll", "cq"} /\ r = req /\ n = cq[1] /\ uq' = uq
    BY <1>0, <1>4, <1>7 DEF FromCq, Events
  <2>2. m \notin ToSet(uq')
    BY <1>5, <2>1
  <2>3. m \notin ToSet(ring')
    <3>1. ASSUME NEW l \in DOMAIN ring, ring[l] = m  PROVE FALSE
      BY <2>1, <3>1 DEF Older, Order
    <3>. QED BY <2>1, <3>1 DEF ToSet
  <2>4. PICK l \in DOMAIN cq' : cq'[l] = m
    BY <1>1, <2>2, <2>3 DEF ToSet
  <2>5. From(1, l) \in DOMAIN cq /\ From(1, l) # 1 /\ m = cq[From(1, l)]
    BY <1>0, <2>1, <2>4, WithoutKeeps
  <2>6. 1 < From(1, l)
    BY <1>0, <2>5, Lengths
  <2>7. cq[1].num < m.num
    BY <2>1, <2>5, <2>6 DEF Older, Order, Ascending
  <2>8. cq[1].num \in Int /\ m.num \in Int
    BY <1>0, <2>1, <2>5, NotifElements
  <2>. QED BY <2>1, <2>7, <2>8 DEF Older
<1>8. ASSUME NEW q \in Requests, Restarts(q)  PROVE FALSE
  <2>1. got' = got \/ got' = [got EXCEPT ![q] = {}]
    BY <1>8 DEF Restarts, Activate
  <2>. QED BY <1>0, <2>1
<1>. QED BY <1>3, <1>6, <1>7, <1>8, NotifMoves DEF Arrives

(* Notifications of one source are matched in the order they arrived: when *)
(* a request counts one, no older one that would match is left.            *)
THEOREM NotificationsOldestFirst ==
  NotifSpec => OldestFirst
<1>1. NotifInv /\ [NotifNext]_notifVars =>
        [\A r \in Requests : \A n \in got'[r] \ got[r] :
           ~ \E m \in Queued' : m.source = n.source /\ m.num < n.num /\ Matches(r, m)]_notifVars
  BY OldestTaken DEF Older
<1>. QED BY <1>1, NotifInvariant, PTL DEF NotifSpec, OldestFirst

(* When there is no event and nothing in uq matches, nothing the call      *)
(* looks at does.                                                          *)
LEMMA NothingReached ==
  ASSUME NotifInv, NothingRemote
  PROVE  ~enough
<1>. USE DEF NotifInv
<1>1. place = "cq" /\ Missing(req) > 0 /\ Missing(req) \in Int /\ Fitting = {}
  <2>1. place = "cq" /\ Missing(req) > 0
    BY DEF NothingRemote, Progress
  <2>. QED BY <2>1, WantType DEF Searched, Missing, NotifTypeOK
<1>2. \A n \in ToSet(uq) : ~Matches(req, n)
  BY <1>1 DEF Fitting, ToSet
<1>3. \A n \in ToSet(cq) : ~Matches(req, n)
  <2>1. CASE cq = << >>
    BY <2>1 DEF ToSet
  <2>2. CASE ~Remote(req)
    BY <2>2, NoneInCq
  <2>. QED BY <2>1, <2>2 DEF NothingRemote
<1>4. Reach = {}
  BY <1>1, <1>2, <1>3 DEF Reach
<1>. QED BY <1>1, <1>4, FS_EmptySet DEF EnoughKept, Matching

(* A test that answers false is right: what its request wants had not all  *)
(* arrived when the call began.                                            *)
THEOREM NotificationsFalseMeansMissing ==
  NotifSpec => FalseMeansMissing
<1>1. NotifInv /\ [NotifNext]_notifVars =>
        [place = "cq" /\ place' \in {"idle", "next"} => ~enough]_notifVars
  <2>. SUFFICES ASSUME NotifInv, NotifNext, place = "cq", place' \in {"idle", "next"}
                PROVE  ~enough
    BY DEF notifVars
  <2>1. NothingRemote
    <3>1. ASSUME NEW s \in Source, NEW t \in Tag, Arrive(s, t)  PROVE FALSE
      BY <3>1 DEF Arrive
    <3>2. ASSUME NEW r \in Requests, Start(r) \/ Test(r) \/ Wait(r)  PROVE FALSE
      BY <3>2 DEF Start, Test, Wait
    <3>3. ASSUME Testany \/ Waitany \/ AnySkip \/ AnyTest \/ AnyEnd  PROVE FALSE
      BY <3>3 DEF Testany, Waitany, AnySkip, AnyTest, AnyEnd
    <3>4. ASSUME SearchUq \/ UqSearched \/ PollRing \/ RingEmpty \/ PollCq \/ Completes  PROVE FALSE
      BY <3>4 DEF SearchUq, UqSearched, PollRing, RingEmpty, PollCq, Completes
    <3>5. ASSUME PollAgain \/ TestGivesUp \/ AnyGivesUp  PROVE NothingRemote
      BY <3>5 DEF PollAgain, TestGivesUp, AnyGivesUp
    <3>. QED BY <3>1, <3>2, <3>3, <3>4, <3>5 DEF NotifNext, CallStep
  <2>. QED BY <2>1, NothingReached
<1>. QED BY <1>1, NotifInvariant, PTL DEF NotifSpec, FalseMeansMissing
===========================================================================
