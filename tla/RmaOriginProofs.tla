-------------------------- MODULE RmaOriginProofs --------------------------
(***************************************************************************)
(* RmaOrigin for any number of operations, descriptors and blocks: IInv is *)
(* inductive; it gives the safety of the ring of descriptors, of the local *)
(* completion queue and of notifications, and what a flush and the         *)
(* unregistering of memory rely on.                                        *)
(***************************************************************************)
EXTENDS RmaOrigin, Lemmas, FiniteSetTheorems, SequenceTheorems

---------------------------------------------------------------------------
(* The inductive invariant.                                                *)

Posted == {d \in Descriptor : posted[d] # NoOp}

\* the free descriptors are the next Free entries of the ring
Free == Entries - counter_ugni_nbi
Entry(i) == data_desc_ptr[(extr_ind + i) % Entries]

(* The completion queue holds no descriptor twice and none that the NIC    *)
(* still uses; the counter knows of all of them.                           *)
EventsDistinct ==
  /\ \A k, l \in 1 .. Len(events) : events[k] = events[l] => k = l
  /\ \A k \in 1 .. Len(events) : posted[events[k]] = NoOp
  /\ counter_ugni_nbi = Len(events) + Cardinality(Posted)

(* Free descriptors are all different, and none of them is in use.         *)
RingFree ==
  /\ ins_ind = (extr_ind + Free) % Entries
  /\ \A i, j \in 0 .. Free - 1 : Entry(i) = Entry(j) => i = j
  /\ \A i \in 0 .. Free - 1 :
       /\ posted[Entry(i)] = NoOp
       /\ \A k \in 1 .. Len(events) : events[k] # Entry(i)

(* Requests in the network are counted; where the call is says what of its *)
(* operation may be in the network.                                        *)
NetworkCounted == nbi_counter = 0 => \A i \in Id : blocks[i] = 0

CallControl ==
  /\ then \in {"idle", "post", "unregister", "waited"}
  /\ pc = "blocks" => cur \notin notified /\ \A d \in Descriptor : posted[d] # cur
  /\ pc \in {"post", "drain"} => blocks[cur] = 0
  /\ pc = "unregister" => \A i \in Id : ~InNetwork(i)

PostedHasNoBlocks == \A d \in Descriptor : posted[d] # NoOp => blocks[posted[d]] = 0

RingInv == TypeOK /\ EventsDistinct /\ RingFree
IInv == RingInv /\ NetworkCounted /\ CallControl /\ PostedHasNoBlocks /\ NotifiedMeansData

---------------------------------------------------------------------------
(* Sets and indices.                                                       *)

(* The ring has a positive number of entries.                              *)
LEMMA EntriesType == Entries \in Nat \ {0} /\ Entries \in Int
BY NumberAssumption

(* How the cardinality of a set of descriptors changes by one of them.     *)
LEMMA PostedSets ==
  ASSUME NEW S \in SUBSET Descriptor
  PROVE  /\ IsFiniteSet(S) /\ Cardinality(S) \in Nat
         /\ Cardinality(S) = 0 <=> S = {}
         /\ \A d \in Descriptor \ S : Cardinality(S \cup {d}) = Cardinality(S) + 1
         /\ \A d \in S : Cardinality(S \ {d}) = Cardinality(S) - 1
<1>1. IsFiniteSet(Descriptor)
  BY EntriesType, FS_Interval DEF Descriptor
<1>2. IsFiniteSet(S)
  BY <1>1, FS_Subset
<1>. QED  BY <1>2, FS_CardinalityType, FS_EmptySet, FS_AddElement, FS_RemoveElement

(* Indices of the ring stay inside it, and its entries are descriptors.    *)
LEMMA Indices ==
  ASSUME TypeOK
  PROVE  /\ extr_ind \in Int /\ ins_ind \in Int /\ Free \in 0 .. Entries /\ counter_ugni_nbi \in Int
         /\ \A i \in Int : (extr_ind + i) % Entries \in Slots /\ Entry(i) \in Descriptor
         /\ (extr_ind + 1) % Entries \in Slots /\ (ins_ind + 1) % Entries \in Slots
<1>1. extr_ind \in Int /\ ins_ind \in Int /\ counter_ugni_nbi \in 0 .. Entries
  BY EntriesType DEF TypeOK, Slots
<1>2. Free \in 0 .. Entries /\ counter_ugni_nbi \in Int
  BY <1>1, EntriesType DEF Free
<1>3. ASSUME NEW i \in Int  PROVE (extr_ind + i) % Entries \in Slots
  <2>1. extr_ind + i \in Int
    BY <1>1
  <2>. QED  BY <2>1, ModType, EntriesType DEF Slots
<1>4. \A i \in Int : Entry(i) \in Descriptor
  BY <1>3 DEF TypeOK, Entry
<1>5. (ins_ind + 1) % Entries \in Slots
  <2>1. ins_ind + 1 \in Int
    BY <1>1
  <2>. QED  BY <2>1, ModType, EntriesType DEF Slots
<1>. QED  BY <1>1, <1>2, <1>3, <1>4, <1>5

(* The completion queue is a sequence of descriptors, and so is what a     *)
(* read leaves.                                                            *)
LEMMA EventsType ==
  ASSUME TypeOK
  PROVE  /\ Len(events) \in Nat
         /\ \A k \in 1 .. Len(events) : events[k] \in Descriptor
         /\ events # << >> => /\ Head(events) = events[1] /\ Head(events) \in Descriptor
                              /\ Len(events) >= 1
                              /\ Tail(events) \in Seq(Descriptor)
                              /\ Len(Tail(events)) = Len(events) - 1
                              /\ \A k \in 1 .. Len(events) - 1 : Tail(events)[k] = events[k + 1]
<1>1. events \in Seq(Descriptor)
  BY DEF TypeOK
<1>2. Len(events) \in Nat /\ \A k \in 1 .. Len(events) : events[k] \in Descriptor
  BY <1>1, LenProperties, ElementOfSeq
<1>3. ASSUME events # << >>
      PROVE  /\ Head(events) = events[1] /\ Head(events) \in Descriptor /\ Len(events) >= 1
             /\ Tail(events) \in Seq(Descriptor) /\ Len(Tail(events)) = Len(events) - 1
             /\ \A k \in 1 .. Len(events) - 1 : Tail(events)[k] = events[k + 1]
  <2>1. Len(events) \in Nat \ {0}
    BY <1>1, <1>3, EmptySeq
  <2>2. /\ Head(events) \in Descriptor /\ Tail(events) \in Seq(Descriptor)
        /\ Len(Tail(events)) = Len(events) - 1
        /\ \A k \in 1 .. Len(Tail(events)) : Tail(events)[k] = events[k + 1]
    BY <1>1, <1>3, HeadTailProperties
  <2>. QED  BY <1>1, <2>1, <2>2
<1>. QED  BY <1>2, <1>3

---------------------------------------------------------------------------
(* The ring.                                                               *)

(* A post takes the first free descriptor and moves the extraction index   *)
(* by one.                                                                 *)
LEMMA PostTakes ==
  ASSUME TypeOK, RingFree, Post
  PROVE  /\ data_desc_ptr[extr_ind] = Entry(0) /\ Free \in 1 .. Entries /\ Free' = Free - 1
         /\ posted' = [posted EXCEPT ![Entry(0)] = cur]
         /\ \A i \in Int : (extr_ind' + i) % Entries = (extr_ind + 1 + i) % Entries
         /\ UNCHANGED <<data_desc_ptr, ins_ind, events>>
<1>1. extr_ind \in 0 .. Entries - 1 /\ extr_ind + 0 = extr_ind
  BY EntriesType DEF TypeOK, Slots
<1>2. data_desc_ptr[extr_ind] = Entry(0)
  BY <1>1, ModSmall, EntriesType DEF Entry
<1>3. Free \in 1 .. Entries /\ Free' = Free - 1
  BY SMTT(60), Indices, EntriesType DEF Post, Free
<1>4. extr_ind' = (extr_ind + 1) % Entries /\ UNCHANGED <<data_desc_ptr, ins_ind, events>>
      /\ posted' = [posted EXCEPT ![Entry(0)] = cur]
  BY <1>2 DEF Post
<1>5. ASSUME NEW i \in Int
      PROVE  (extr_ind' + i) % Entries = (extr_ind + 1 + i) % Entries
  <2>1. extr_ind + 1 \in Int
    BY <1>1, EntriesType
  <2>. QED  BY <1>4, <2>1, ModShift, EntriesType
<1>. QED  BY <1>2, <1>3, <1>4, <1>5

(* A post keeps the free part of the ring and the events apart.            *)
LEMMA PostStep ==
  ASSUME RingInv, Post
  PROVE  EventsDistinct' /\ RingFree'
<1>. DEFINE d == Entry(0)
<1>0. TypeOK /\ EventsDistinct /\ RingFree
  BY DEF RingInv
<1>1. /\ Free \in 1 .. Entries /\ Free' = Free - 1 /\ posted' = [posted EXCEPT ![d] = cur]
      /\ \A i \in Int : (extr_ind' + i) % Entries = (extr_ind + 1 + i) % Entries
      /\ UNCHANGED <<data_desc_ptr, ins_ind, events>>
  BY <1>0, PostTakes
<1>2. d \in Descriptor /\ posted[d] = NoOp /\ cur # NoOp
      /\ \A k \in 1 .. Len(events) : events[k] # d
  <2>1. 0 \in 0 .. Free - 1 /\ 0 \in Int
    BY <1>1
  <2>2. d \in Descriptor
    BY <1>0, <2>1, Indices
  <2>3. posted[d] = NoOp /\ \A k \in 1 .. Len(events) : events[k] # d
    BY <1>0, <2>1 DEF RingFree
  <2>4. cur # NoOp
    BY <1>0, IdAssumption DEF TypeOK
  <2>. QED  BY <2>2, <2>3, <2>4
<1>3. ASSUME NEW i \in 0 .. Free' - 1
      PROVE  Entry(i)' = Entry(i + 1) /\ i + 1 \in 0 .. Free - 1 /\ i + 1 # 0
  <2>1. i \in Int /\ i + 1 \in 0 .. Free - 1 /\ i + 1 # 0
    BY <1>1
  <2>2. extr_ind + 1 + i = extr_ind + (i + 1)
    BY <1>0, <2>1, Indices
  <2>3. (extr_ind' + i) % Entries = (extr_ind + (i + 1)) % Entries
    BY <1>1, <2>1, <2>2
  <2>. QED  BY <1>1, <2>1, <2>3 DEF Entry
<1>4. \A e \in Descriptor : e # d => posted'[e] = posted[e]
  BY <1>0, <1>1 DEF TypeOK
<1>5. posted'[d] # NoOp
  BY <1>0, <1>1, <1>2 DEF TypeOK
<1>. HIDE DEF d
<1>6. EventsDistinct'
  <2>1. \A k \in 1 .. Len(events) : posted'[events[k]] = NoOp
    BY <1>0, <1>2, <1>4, EventsType DEF EventsDistinct
  <2>2. Posted' = Posted \cup {d} /\ Posted \in SUBSET Descriptor /\ d \notin Posted
    BY <1>2, <1>4, <1>5 DEF Posted
  <2>3. Cardinality(Posted)' = Cardinality(Posted) + 1
    BY <1>2, <2>2, PostedSets
  <2>4. counter_ugni_nbi' = counter_ugni_nbi + 1
    BY DEF Post
  <2>5. counter_ugni_nbi' = Len(events) + Cardinality(Posted)'
    <3>1. counter_ugni_nbi = Len(events) + Cardinality(Posted)
      BY <1>0 DEF EventsDistinct
    <3>2. Len(events) \in Nat /\ Cardinality(Posted) \in Nat
      BY <1>0, <2>2, EventsType, PostedSets
    <3>. QED  BY <2>3, <2>4, <3>1, <3>2
  <2>. QED  BY <1>0, <1>1, <2>1, <2>5 DEF EventsDistinct
<1>7. RingFree'
  <2>1. ins_ind' = (extr_ind' + Free') % Entries
    <3>1. Free - 1 \in Int /\ extr_ind + 1 + (Free - 1) = extr_ind + Free
      BY <1>0, <1>1, Indices
    <3>2. (extr_ind' + (Free - 1)) % Entries = (extr_ind + Free) % Entries
      BY <1>1, <3>1
    <3>. QED  BY <1>0, <1>1, <3>2 DEF RingFree
  <2>2. \A i, j \in 0 .. Free' - 1 : Entry(i)' = Entry(j)' => i = j
    <3>1. ASSUME NEW i \in 0 .. Free' - 1, NEW j \in 0 .. Free' - 1, Entry(i)' = Entry(j)'
          PROVE  i = j
      <4>1. Entry(i + 1) = Entry(j + 1) /\ i + 1 \in 0 .. Free - 1 /\ j + 1 \in 0 .. Free - 1
        BY <1>3, <3>1
      <4>2. i + 1 = j + 1
        BY <1>0, <4>1 DEF RingFree
      <4>. QED  BY <1>1, <4>2
    <3>. QED  BY <3>1
  <2>3. ASSUME NEW i \in 0 .. Free' - 1
        PROVE  posted'[Entry(i)'] = NoOp /\ \A k \in 1 .. Len(events) : events[k] # Entry(i)'
    <3>1. Entry(i)' = Entry(i + 1) /\ i + 1 \in 0 .. Free - 1 /\ 0 \in 0 .. Free - 1 /\ i + 1 # 0
      BY <1>1, <1>3
    <3>2. Entry(i + 1) # d
      BY <1>0, <3>1 DEF RingFree, d
    <3>3. posted[Entry(i + 1)] = NoOp /\ \A k \in 1 .. Len(events) : events[k] # Entry(i + 1)
      BY <1>0, <3>1 DEF RingFree
    <3>4. Entry(i + 1) \in Descriptor
      BY <1>0, <3>1, Indices
    <3>. QED  BY <1>4, <3>1, <3>2, <3>3, <3>4
  <2>. QED  BY <1>1, <2>1, <2>2, <2>3 DEF RingFree
<1>. QED  BY <1>6, <1>7

(* Reading an event puts its descriptor at the end of the free part.       *)
LEMMA DequeueStep ==
  ASSUME RingInv, Dequeue
  PROVE  EventsDistinct' /\ RingFree'
<1>. DEFINE e == events[1]  n == Len(events)
<1>0. TypeOK /\ EventsDistinct /\ RingFree
  BY DEF RingInv
<1>1. /\ events' = Tail(events) /\ data_desc_ptr' = [data_desc_ptr EXCEPT ![ins_ind] = e]
      /\ ins_ind' = (ins_ind + 1) % Entries /\ counter_ugni_nbi' = counter_ugni_nbi - 1
      /\ counter_ugni_nbi > 0 /\ UNCHANGED <<extr_ind, posted>>
  BY <1>0, EventsType DEF Dequeue
<1>2. /\ n \in Nat /\ n >= 1 /\ Len(Tail(events)) = n - 1
      /\ \A k \in 1 .. n - 1 : Tail(events)[k] = events[k + 1]
      /\ e \in Descriptor
  BY <1>0, EventsType DEF Dequeue
<1>3. Free \in 0 .. Entries - 1 /\ Free' = Free + 1 /\ extr_ind \in Int /\ ins_ind \in Slots
  BY <1>0, <1>1, Indices, EntriesType DEF Free, TypeOK
<1>4. ins_ind = (extr_ind + Free) % Entries
  BY <1>0 DEF RingFree
<1>5. data_desc_ptr'[(extr_ind + Free) % Entries] = e
  BY <1>0, <1>1, <1>3, <1>4 DEF TypeOK
<1>6. ASSUME NEW i \in 0 .. Free - 1
      PROVE  data_desc_ptr'[(extr_ind + i) % Entries] = Entry(i)
  <2>1. i \in 0 .. Entries - 1 /\ Free \in 0 .. Entries - 1 /\ i # Free /\ i \in Int
    BY <1>3, EntriesType
  <2>2. (extr_ind + i) % Entries # ins_ind
    BY <1>3, <1>4, <2>1, ModOn, EntriesType
  <2>3. (extr_ind + i) % Entries \in Slots
    BY <1>0, <2>1, Indices
  <2>. QED  BY <1>0, <1>1, <2>2, <2>3 DEF TypeOK, Entry
<1>7. ASSUME NEW i \in 0 .. Free' - 1  PROVE i = Free \/ i \in 0 .. Free - 1
  BY <1>3
<1>8. \A k \in 1 .. n - 1 : events'[k] = events[k + 1] /\ k + 1 \in 1 .. n /\ k + 1 # 1
  BY <1>1, <1>2
<1>9. Len(events') = n - 1
  BY <1>1, <1>2
<1>. HIDE DEF e, n
<1>10. EventsDistinct'
  <2>1. \A k, l \in 1 .. n - 1 : events'[k] = events'[l] => k = l
    <3>1. ASSUME NEW k \in 1 .. n - 1, NEW l \in 1 .. n - 1, events'[k] = events'[l]
          PROVE  k = l
      <4>1. k + 1 = l + 1
        BY <1>0, <1>8, <3>1 DEF EventsDistinct, n
      <4>. QED  BY <1>2, <4>1
    <3>. QED  BY <3>1
  <2>2. \A k \in 1 .. n - 1 : posted'[events'[k]] = NoOp
    BY <1>0, <1>1, <1>8 DEF EventsDistinct, n
  <2>3. counter_ugni_nbi' = n - 1 + Cardinality(Posted)'
    <3>1. Posted' = Posted /\ Posted \in SUBSET Descriptor
      BY <1>1 DEF Posted
    <3>2. counter_ugni_nbi = n + Cardinality(Posted) /\ Cardinality(Posted) \in Nat
      BY <1>0, <3>1, PostedSets DEF EventsDistinct, n
    <3>. QED  BY <1>1, <1>2, <3>1, <3>2
  <2>. QED  BY <1>9, <2>1, <2>2, <2>3 DEF EventsDistinct
<1>11. RingFree'
  <2>1. ins_ind' = (extr_ind' + Free') % Entries
    <3>1. extr_ind + Free \in Int /\ (extr_ind + Free) + 1 = extr_ind + Free'
      BY <1>3
    <3>2. (((extr_ind + Free) % Entries) + 1) % Entries = ((extr_ind + Free) + 1) % Entries
      BY <3>1, ModShift, EntriesType
    <3>. QED  BY <1>1, <1>4, <3>1, <3>2
  <2>. DEFINE New(i) == data_desc_ptr'[(extr_ind + i) % Entries]
  <2>2. \A i \in 0 .. Free - 1 : New(i) = Entry(i) /\ Entry(i) # e /\ posted[Entry(i)] = NoOp
                               /\ \A k \in 1 .. n : events[k] # Entry(i)
    BY <1>0, <1>2, <1>6 DEF RingFree, e, n
  <2>3. New(Free) = e /\ posted[e] = NoOp /\ \A k \in 1 .. n - 1 : events'[k] # e
    <3>1. posted[e] = NoOp
      BY <1>0, <1>2 DEF EventsDistinct, e, n
    <3>2. \A k \in 1 .. n - 1 : events[k + 1] # e
      BY <1>0, <1>2, <1>8 DEF EventsDistinct, e, n
    <3>. QED  BY <1>5, <1>8, <3>1, <3>2
  <2>. HIDE DEF New
  <2>4. \A i, j \in 0 .. Free' - 1 : New(i) = New(j) => i = j
    <3>1. \A i, j \in 0 .. Free - 1 : Entry(i) = Entry(j) => i = j
      BY <1>0 DEF RingFree
    <3>. QED  BY <1>7, <2>2, <2>3, <3>1
  <2>5. \A i \in 0 .. Free' - 1 : posted[New(i)] = NoOp
    BY <1>7, <2>2, <2>3
  <2>6. \A i \in 0 .. Free' - 1 : \A k \in 1 .. n - 1 : events'[k] # New(i)
    BY <1>7, <1>8, <2>2, <2>3
  <2>. QED  BY <1>1, <1>9, <2>1, <2>4, <2>5, <2>6 DEF RingFree, Entry, New
<1>. QED  BY <1>10, <1>11

(* A completion makes an event of a descriptor that was posted.            *)
LEMMA CompleteStep ==
  ASSUME RingInv, NEW d \in Descriptor, Complete(d)
  PROVE  EventsDistinct' /\ RingFree'
<1>. DEFINE n == Len(events)
<1>0. TypeOK /\ EventsDistinct /\ RingFree
  BY DEF RingInv
<1>1. /\ posted[d] # NoOp /\ posted' = [posted EXCEPT ![d] = NoOp]
      /\ events' = Append(events, d)
      /\ UNCHANGED <<data_desc_ptr, extr_ind, ins_ind, counter_ugni_nbi>>
  BY DEF Complete, ringVars
<1>2. /\ n \in Nat /\ Len(events') = n + 1 /\ events'[n + 1] = d
      /\ \A k \in 1 .. n : events'[k] = events[k] /\ events[k] \in Descriptor
  BY <1>0, <1>1, EventsType, AppendProperties DEF TypeOK
<1>3. posted'[d] = NoOp /\ \A e \in Descriptor : e # d => posted'[e] = posted[e]
  BY <1>0, <1>1 DEF TypeOK
<1>4. \A k \in 1 .. n : events[k] # d /\ posted'[events[k]] = NoOp
  BY <1>0, <1>1, <1>2, <1>3 DEF EventsDistinct
<1>5. ASSUME NEW k \in 1 .. n + 1  PROVE k = n + 1 \/ k \in 1 .. n
  BY <1>2
<1>. HIDE DEF n
<1>6. EventsDistinct'
  <2>1. \A k, l \in 1 .. n + 1 : events'[k] = events'[l] => k = l
    <3>1. \A k, l \in 1 .. n : events[k] = events[l] => k = l
      BY <1>0 DEF EventsDistinct, n
    <3>. QED  BY <1>2, <1>4, <1>5, <3>1
  <2>2. \A k \in 1 .. n + 1 : posted'[events'[k]] = NoOp
    BY <1>2, <1>3, <1>4, <1>5
  <2>3. counter_ugni_nbi' = n + 1 + Cardinality(Posted)'
    <3>1. Posted' = Posted \ {d} /\ d \in Posted /\ Posted \in SUBSET Descriptor
      BY <1>1, <1>3 DEF Posted
    <3>2. Cardinality(Posted)' = Cardinality(Posted) - 1 /\ Cardinality(Posted) \in Nat
      BY <3>1, PostedSets
    <3>3. counter_ugni_nbi = n + Cardinality(Posted)
      BY <1>0 DEF EventsDistinct, n
    <3>. QED  BY <1>1, <1>2, <3>2, <3>3
  <2>. QED  BY <1>2, <2>1, <2>2, <2>3 DEF EventsDistinct
<1>7. RingFree'
  <2>1. Free' = Free
    BY <1>1 DEF Free
  <2>2. \A i \in 0 .. Free - 1 : Entry(i)' = Entry(i)
    BY <1>1 DEF Entry
  <2>3. \A i \in 0 .. Free - 1 : Entry(i) \in Descriptor /\ Entry(i) # d
    <3>1. \A i \in 0 .. Free - 1 : i \in Int
      OBVIOUS
    <3>2. \A i \in Int : Entry(i) \in Descriptor
      BY <1>0, Indices
    <3>3. \A i \in 0 .. Free - 1 : posted[Entry(i)] = NoOp
      BY <1>0 DEF RingFree
    <3>. QED  BY <1>1, <3>1, <3>2, <3>3
  <2>4. \A i \in 0 .. Free - 1 : posted'[Entry(i)] = NoOp
    BY <1>0, <1>3, <2>3 DEF RingFree
  <2>5. \A i \in 0 .. Free - 1 : \A k \in 1 .. n + 1 : events'[k] # Entry(i)
    BY <1>0, <1>2, <1>5, <2>3 DEF RingFree, n
  <2>6. ins_ind' = (extr_ind' + Free') % Entries
    BY <1>0, <1>1, <2>1 DEF RingFree
  <2>7. \A i, j \in 0 .. Free - 1 : Entry(i)' = Entry(j)' => i = j
    BY <1>0, <2>2 DEF RingFree
  <2>. QED  BY <1>2, <2>1, <2>2, <2>4, <2>5, <2>6, <2>7 DEF RingFree
<1>. QED  BY <1>6, <1>7

\* no other step touches the ring
LEMMA RingFrame ==
  ASSUME RingInv, UNCHANGED <<ringVars, posted, events>>
  PROVE  EventsDistinct' /\ RingFree'
<1>1. /\ UNCHANGED <<data_desc_ptr, extr_ind, ins_ind, counter_ugni_nbi, posted, events>>
      /\ EventsDistinct /\ RingFree
  BY DEF RingInv, ringVars
<1>2. EventsDistinct'
  BY <1>1 DEF EventsDistinct, Posted
<1>3. RingFree'
  BY <1>1 DEF RingFree, Entry, Free
<1>. QED  BY <1>2, <1>3

(* Only posts, completions and reads of the queue touch the ring.          *)
LEMMA WhoTouchesRing ==
  ASSUME [Next]_vars, ~Post, ~Dequeue, \A d \in Descriptor : ~Complete(d)
  PROVE  UNCHANGED <<ringVars, posted, events>>
<1>. USE DEF netVars
<1>1. CASE CallStep
  BY <1>1 DEF CallStep, Block, BlocksDone, RingFull, Drained, Flushed, Unregister, Waited
<1>2. CASE ProgramStep
  BY <1>2 DEF ProgramStep, Flush, Wait, Test, TestNull, CallBlocks, CallNotifiedBlocks, Blocks,
     CallDirect
<1>3. CASE NetStep
  BY <1>3 DEF NetStep, Land
<1>4. CASE UNCHANGED vars
  BY <1>4 DEF vars
<1>. QED  BY <1>1, <1>2, <1>3, <1>4 DEF Next

(* Every step keeps the ring's invariant.                                  *)
LEMMA RingStep ==
  ASSUME RingInv, [Next]_vars
  PROVE  EventsDistinct' /\ RingFree'
BY PostStep, DequeueStep, CompleteStep, RingFrame, WhoTouchesRing

---------------------------------------------------------------------------
(* Types, one step per action.                                             *)

(* Every step keeps the types.                                             *)
LEMMA TypeStep ==
  ASSUME RingInv, NetworkCounted, CallControl, [Next]_vars
  PROVE  TypeOK'
<1>0. TypeOK
  BY DEF RingInv
<1>. USE DEF TypeOK, PcStates, netVars, callVars, ringVars
<1>1. CASE Block
  <2>1. left - 1 \in 0 .. MaxBlock
    BY <1>0, <1>1, NumberAssumption DEF Block
  <2>. QED  BY <1>0, <1>1, <2>1 DEF Block
<1>2. CASE BlocksDone
  BY <1>0, <1>2 DEF BlocksDone
<1>3. CASE Post
  <2>1. counter_ugni_nbi + 1 \in 0 .. Entries /\ (extr_ind + 1) % Entries \in Slots
    BY <1>0, <1>3, EntriesType, Indices DEF Post
  <2>. QED  BY <1>0, <1>3, <2>1 DEF Post
<1>4. CASE RingFull
  BY <1>0, <1>4 DEF RingFull
<1>5. CASE Dequeue
  <2>1. counter_ugni_nbi - 1 \in 0 .. Entries
    BY <1>0, <1>5, EntriesType DEF Dequeue
  <2>2. (ins_ind + 1) % Entries \in Slots
    BY <1>0, Indices
  <2>3. Head(events) \in Descriptor /\ Tail(events) \in Seq(Descriptor)
    BY <1>0, <1>5, EventsType DEF Dequeue
  <2>. QED  BY <1>0, <1>5, <2>1, <2>2, <2>3 DEF Dequeue
<1>6. CASE Drained
  BY <1>0, <1>6 DEF Drained
<1>7. CASE Flushed
  BY <1>0, <1>7 DEF Flushed
<1>8. CASE Unregister
  BY <1>0, <1>8 DEF Unregister
<1>9. CASE Waited
  BY <1>0, <1>9 DEF Waited
<1>10. CASE Flush
  BY <1>0, <1>10 DEF Flush
<1>11. ASSUME NEW i \in Id, Wait(i) \/ Test(i) \/ TestNull(i)  PROVE TypeOK'
  BY <1>0, <1>11 DEF Wait, Test, TestNull
<1>12. ASSUME NEW i \in Id, NEW n \in 1 .. MaxBlock, NEW b \in BOOLEAN, NEW c \in BOOLEAN,
              Blocks(i, n, b, c)
       PROVE  TypeOK'
  <2>1. n \in 0 .. MaxBlock
    BY NumberAssumption
  <2>. QED  BY <1>0, <1>12, <2>1 DEF Blocks, Begin
<1>13. ASSUME NEW i \in Id, NEW b \in BOOLEAN, NEW c \in BOOLEAN, CallDirect(i, b, c)
       PROVE  TypeOK'
  <2>1. 0 \in 0 .. MaxBlock
    BY NumberAssumption
  <2>. QED  BY <1>0, <1>13, <2>1 DEF CallDirect, Begin
<1>14. ASSUME NEW i \in Id, Land(i)  PROVE TypeOK'
  <2>1. blocks[i] - 1 \in Nat
    BY <1>0, <1>14 DEF Land
  <2>. QED  BY <1>0, <1>14, <2>1 DEF Land
<1>15. ASSUME NEW d \in Descriptor, Complete(d)  PROVE TypeOK'
  <2>1. Append(events, d) \in Seq(Descriptor)
    BY <1>0, AppendProperties
  <2>2. posted[d] \in Id
    BY <1>0, <1>15 DEF Complete
  <2>. QED  BY <1>0, <1>15, <2>1, <2>2 DEF Complete
<1>16. CASE UNCHANGED vars
  BY <1>0, <1>16 DEF vars
<1>17. CASE CallStep
  BY <1>1, <1>2, <1>3, <1>4, <1>5, <1>6, <1>7, <1>8, <1>9, <1>17 DEF CallStep
<1>18. CASE ProgramStep
  BY <1>10, <1>11, <1>12, <1>13, <1>18 DEF ProgramStep, CallBlocks, CallNotifiedBlocks
<1>. QED  BY <1>14, <1>15, <1>16, <1>17, <1>18 DEF Next, NetStep

---------------------------------------------------------------------------
(* What may be in the network of which operation.                          *)

NetInv == NetworkCounted /\ CallControl /\ PostedHasNoBlocks /\ NotifiedMeansData

(* When the counter is zero no descriptor is out and no event is waiting.  *)
LEMMA QuietMeansDone ==
  ASSUME RingInv, counter_ugni_nbi = 0
  PROVE  /\ \A d \in Descriptor : posted[d] = NoOp
         /\ events = << >>
<1>1. TypeOK /\ counter_ugni_nbi = Len(events) + Cardinality(Posted)
      /\ Posted \in SUBSET Descriptor
  BY DEF RingInv, EventsDistinct, Posted
<1>2. Len(events) \in Nat /\ Cardinality(Posted) \in Nat
  BY <1>1, EventsType, PostedSets
<1>3. Len(events) = 0 /\ Cardinality(Posted) = 0
  BY <1>1, <1>2
<1>4. Posted = {}
  BY <1>1, <1>3, PostedSets
<1>5. events = << >>
  BY <1>1, <1>3, EmptySeq DEF TypeOK
<1>. QED  BY <1>4, <1>5 DEF Posted

(* A flush that returns has nothing left in either network.                *)
LEMMA FlushedMeansDone ==
  ASSUME IInv, Flushed
  PROVE  /\ \A i \in Id : ~InNetwork(i) /\ blocks[i] = 0
         /\ UNCHANGED <<blocks, posted>>
<1>1. RingInv /\ TypeOK /\ NetworkCounted
  BY DEF IInv, RingInv
<1>2. \A d \in Descriptor : posted[d] = NoOp
  BY <1>1, QuietMeansDone DEF Flushed
<1>3. \A i \in Id : blocks[i] = 0
  <2>1. nbi_counter = 0 \/ nbi_counter > 0
    BY <1>1 DEF TypeOK
  <2>. QED  BY <1>1, <2>1 DEF Flushed, NetworkCounted
<1>4. \A i \in Id : ~InNetwork(i)
  BY <1>2, <1>3, IdAssumption DEF InNetwork
<1>. QED  BY <1>3, <1>4 DEF Flushed, netVars

(* Every step keeps what is known of the networks.                         *)
LEMMA NetStepOf ==
  ASSUME IInv, [Next]_vars
  PROVE  NetInv'
<1>0. /\ TypeOK /\ RingInv /\ NetworkCounted /\ CallControl /\ PostedHasNoBlocks
      /\ NotifiedMeansData
  BY DEF IInv, RingInv
<1>. USE DEF NetInv, netVars, callVars, ringVars
<1>1. CASE Block
  <2>1. /\ cur \in Id /\ cur \notin notified /\ \A d \in Descriptor : posted[d] # cur
        /\ \A i \in Id : i # cur => blocks'[i] = blocks[i]
        /\ nbi_counter' > 0 /\ UNCHANGED <<posted, notified, pc, then, cur>>
    BY <1>0, <1>1 DEF Block, CallControl, TypeOK
  <2>2. NetworkCounted' /\ NotifiedMeansData'
    BY <1>0, <2>1 DEF NetworkCounted, NotifiedMeansData, TypeOK
  <2>3. PostedHasNoBlocks'
    BY <1>0, <2>1 DEF PostedHasNoBlocks, TypeOK
  <2>4. CallControl'
    BY <1>0, <1>1, <2>1 DEF CallControl, Block
  <2>. QED  BY <2>2, <2>3, <2>4
<1>2. CASE BlocksDone
  BY <1>0, <1>2 DEF BlocksDone, NetworkCounted, CallControl, PostedHasNoBlocks,
     NotifiedMeansData, InNetwork
<1>3. CASE Post
  <2>1. /\ blocks[cur] = 0 /\ cur \in Id /\ blocks' = blocks /\ notified' = notified
        /\ \A e \in Descriptor : posted'[e] \in {posted[e], cur}
        /\ pc' \in {"idle", "flush"} /\ then' = "unregister" /\ nbi_counter' = nbi_counter
    BY <1>0, <1>3 DEF Post, CallControl, TypeOK
  <2>. QED  BY <1>0, <2>1 DEF NetworkCounted, CallControl, PostedHasNoBlocks, NotifiedMeansData
<1>4. CASE RingFull \/ Drained
  BY <1>0, <1>4 DEF RingFull, Drained, NetworkCounted, CallControl, PostedHasNoBlocks,
     NotifiedMeansData
<1>5. CASE Dequeue
  BY <1>0, <1>5 DEF Dequeue, NetworkCounted, CallControl, PostedHasNoBlocks, NotifiedMeansData
<1>6. CASE Flushed
  <2>1. /\ \A i \in Id : ~InNetwork(i) /\ blocks[i] = 0
        /\ UNCHANGED <<blocks, posted, notified, cur>>
        /\ pc' \in {"idle", "post", "unregister", "waited"} /\ then' = "idle"
    BY <1>0, <1>6, FlushedMeansDone DEF IInv, Flushed, CallControl
  <2>2. CallControl'
    BY <1>0, <2>1 DEF CallControl, InNetwork, TypeOK
  <2>. QED  BY <1>0, <2>1, <2>2 DEF NetworkCounted, PostedHasNoBlocks, NotifiedMeansData
<1>7. CASE Unregister \/ Waited
  BY <1>0, <1>7 DEF Unregister, Waited, NetworkCounted, CallControl, PostedHasNoBlocks,
     NotifiedMeansData
<1>8. CASE Flush
  BY <1>0, <1>8 DEF Flush, NetworkCounted, CallControl, PostedHasNoBlocks, NotifiedMeansData
<1>9. ASSUME NEW i \in Id, Wait(i) \/ Test(i) \/ TestNull(i)  PROVE NetInv'
  BY <1>0, <1>9 DEF Wait, Test, TestNull, NetworkCounted, CallControl, PostedHasNoBlocks,
     NotifiedMeansData, InNetwork
<1>10. ASSUME NEW i \in Id, NEW n, NEW b, NEW c, Blocks(i, n, b, c) \/ CallDirect(i, b, c)
       PROVE  NetInv'
  <2>1. /\ ~InNetwork(i) /\ cur' = i /\ notified' = notified \ {i}
        /\ pc' \in {"blocks", "post"} /\ UNCHANGED <<nbi_counter, blocks, posted, then>>
    BY <1>10 DEF Blocks, CallDirect, Begin
  <2>2. blocks[i] = 0 /\ \A d \in Descriptor : posted[d] # i
    BY <1>0, <2>1 DEF InNetwork, TypeOK
  <2>. QED  BY <1>0, <2>1, <2>2 DEF NetworkCounted, CallControl, PostedHasNoBlocks,
            NotifiedMeansData
<1>11. ASSUME NEW i \in Id, Land(i)  PROVE NetInv'
  <2>1. /\ blocks[i] > 0 /\ blocks'[i] = blocks[i] - 1
        /\ \A j \in Id : j # i => blocks'[j] = blocks[j]
        /\ UNCHANGED <<nbi_counter, posted, notified, pc, then, cur>>
    BY <1>0, <1>11 DEF Land, TypeOK
  <2>2. \A j \in Id : blocks[j] = 0 => blocks'[j] = 0
    BY <2>1
  <2>3. \A j \in Id : ~InNetwork(j) => ~InNetwork(j)'
    <3>1. \A j \in Id : blocks[j] \in Nat
      BY <1>0 DEF TypeOK
    <3>. QED  BY <2>1, <2>2, <3>1 DEF InNetwork
  <2>4. CallControl'
    BY <1>0, <2>1, <2>2, <2>3 DEF CallControl, TypeOK
  <2>5. PostedHasNoBlocks' /\ NotifiedMeansData' /\ NetworkCounted'
    BY <1>0, <2>1, <2>2 DEF PostedHasNoBlocks, NotifiedMeansData, NetworkCounted, TypeOK
  <2>. QED  BY <2>4, <2>5
<1>12. ASSUME NEW d \in Descriptor, Complete(d)  PROVE NetInv'
  <2>1. /\ posted[d] \in Id /\ posted[d] # NoOp /\ blocks[posted[d]] = 0
        /\ notified' = notified \cup {posted[d]}
        /\ \A e \in Descriptor : posted'[e] \in {posted[e], NoOp}
        /\ UNCHANGED <<nbi_counter, blocks, pc, then, cur>>
    BY <1>0, <1>12 DEF Complete, PostedHasNoBlocks, TypeOK
  <2>2. \A j \in Id : ~InNetwork(j) => ~InNetwork(j)'
    BY <2>1, IdAssumption DEF InNetwork
  <2>3. CallControl'
    BY <1>0, <2>1, <2>2, IdAssumption DEF CallControl, TypeOK
  <2>. QED  BY <1>0, <2>1, <2>3 DEF PostedHasNoBlocks, NotifiedMeansData, NetworkCounted
<1>13. CASE UNCHANGED vars
  BY <1>0, <1>13 DEF vars, NetworkCounted, CallControl, PostedHasNoBlocks, NotifiedMeansData,
     InNetwork
<1>14. CASE CallStep
  BY <1>1, <1>2, <1>3, <1>4, <1>5, <1>6, <1>7, <1>14 DEF CallStep
<1>15. CASE ProgramStep
  BY <1>8, <1>9, <1>10, <1>15 DEF ProgramStep, CallBlocks, CallNotifiedBlocks
<1>. QED  BY <1>11, <1>12, <1>13, <1>14, <1>15 DEF Next, NetStep

---------------------------------------------------------------------------
(* The theorems.                                                           *)

(* The initial states satisfy the invariant.                               *)
LEMMA InitInv == Init => IInv
<1>. SUFFICES ASSUME Init  PROVE IInv
  OBVIOUS
<1>1. /\ extr_ind = 0 /\ ins_ind = 0 /\ counter_ugni_nbi = 0 /\ events = << >>
      /\ data_desc_ptr = [s \in Slots |-> s + 1] /\ posted = [d \in Descriptor |-> NoOp]
  BY DEF Init
<1>2. 0 \in Slots /\ \A s \in Slots : s + 1 \in Descriptor
  BY EntriesType DEF Slots, Descriptor
<1>3. TypeOK
  <2>1. 0 \in 0 .. Entries /\ 0 \in 0 .. MaxBlock
    BY EntriesType, NumberAssumption
  <2>2. << >> \in Seq(Descriptor)
    OBVIOUS
  <2>. QED  BY <1>2, <2>1, <2>2 DEF Init, TypeOK, PcStates
<1>4. EventsDistinct
  <2>1. Posted = {} /\ Len(events) = 0
    BY <1>1 DEF Posted
  <2>2. Cardinality(Posted) = 0
    BY <2>1, FS_EmptySet
  <2>. QED  BY <1>1, <2>1, <2>2 DEF EventsDistinct
<1>5. RingFree
  <2>1. Free = Entries
    BY <1>1, EntriesType DEF Free
  <2>2. ASSUME NEW i \in 0 .. Entries - 1
        PROVE  Entry(i) = i + 1 /\ Entry(i) \in Descriptor
    <3>1. 0 + i = i /\ i % Entries = i /\ i \in Slots
      BY ModSmall, EntriesType DEF Slots
    <3>. QED  BY <1>1, <1>2, <3>1 DEF Entry
  <2>3. (extr_ind + Free) % Entries = 0
    <3>1. (Entries * 1 + 0) % Entries = 0
      <4>1. 1 \in Int /\ 0 \in 0 .. Entries - 1
        BY EntriesType
      <4>. QED  BY <4>1, ModUnique, EntriesType
    <3>2. Entries * 1 + 0 = extr_ind + Free
      BY <1>1, <2>1, EntriesType
    <3>. QED  BY <3>1, <3>2
  <2>4. \A i, j \in 0 .. Entries - 1 : i + 1 = j + 1 => i = j
    OBVIOUS
  <2>5. \A i, j \in 0 .. Entries - 1 : Entry(i) = Entry(j) => i = j
    BY <2>2, <2>4
  <2>6. \A k \in 1 .. Len(events) : FALSE
    BY <1>1
  <2>. QED  BY <1>1, <2>1, <2>2, <2>3, <2>5, <2>6 DEF RingFree
<1>6. NetInv
  BY <1>1, <1>3 DEF NetInv, NetworkCounted, CallControl, PostedHasNoBlocks, NotifiedMeansData, Init
<1>. QED  BY <1>3, <1>4, <1>5, <1>6 DEF IInv, RingInv, NetInv

(* Every step keeps the invariant.                                         *)
LEMMA StepInv == IInv /\ [Next]_vars => IInv'
<1>. SUFFICES ASSUME IInv, [Next]_vars  PROVE IInv'
  OBVIOUS
<1>1. TypeOK'
  BY TypeStep DEF IInv
<1>2. EventsDistinct' /\ RingFree'
  BY RingStep DEF IInv
<1>3. NetInv'
  BY NetStepOf
<1>. QED  BY <1>1, <1>2, <1>3 DEF IInv, RingInv, NetInv

(* Types hold, and with any number of descriptors the ring gives out only  *)
(* those that neither the NIC nor the completion queue holds, in whatever  *)
(* order the completions come back.                                        *)
THEOREM DescriptorIdleCorrect == Spec => []DescriptorIdle
<1>1. IInv => DescriptorIdle
  <2>. SUFFICES ASSUME TypeOK, EventsDistinct, RingFree, counter_ugni_nbi < Entries
                PROVE  data_desc_ptr[extr_ind] \notin InUse
    BY DEF IInv, RingInv, DescriptorIdle
  <2>1. 0 \in 0 .. Free - 1
    BY EntriesType, Indices DEF Free
  <2>2. data_desc_ptr[extr_ind] = Entry(0)
    <3>1. extr_ind \in 0 .. Entries - 1 /\ extr_ind + 0 = extr_ind
      BY EntriesType DEF TypeOK, Slots
    <3>. QED  BY <3>1, ModSmall, EntriesType DEF Entry
  <2>3. posted[Entry(0)] = NoOp /\ \A k \in 1 .. Len(events) : events[k] # Entry(0)
    BY <2>1 DEF RingFree
  <2>4. DOMAIN events = 1 .. Len(events)
    BY LenProperties DEF TypeOK
  <2>. QED  BY <2>2, <2>3, <2>4 DEF InUse
<1>. QED  BY <1>1, InitInv, StepInv, PTL DEF Spec

(* Transactions are drained before one more could overrun the completion   *)
(* queue: descriptors out plus events waiting never exceed its size.       *)
THEOREM CqNotOverrunCorrect == Spec => []CqNotOverrun
<1>1. IInv => CqNotOverrun
  BY EntriesType DEF IInv, RingInv, EventsDistinct, TypeOK, CqNotOverrun, Posted
<1>. QED  BY <1>1, InitInv, StepInv, PTL DEF Spec

(* A notification at the target means the data is there: the flush between *)
(* the blocks and the empty transaction is enough, whatever the network    *)
(* reorders and whatever other operations are under way.                   *)
THEOREM NotifiedMeansDataCorrect == Spec => []NotifiedMeansData
<1>1. IInv => NotifiedMeansData
  BY DEF IInv
<1>. QED  BY <1>1, InitInv, StepInv, PTL DEF Spec

(* A flush leaves nothing in the network.                                  *)
THEOREM FlushMeansDoneCorrect == Spec => FlushMeansDone
<1>1. ASSUME IInv, [Next]_vars
      PROVE  [pc = "flush" /\ pc' # "flush" => \A i \in Id : ~InNetwork(i)']_vars
  <2>. SUFFICES ASSUME pc = "flush", pc' # "flush", Next  PROVE \A i \in Id : ~InNetwork(i)'
    BY <1>1
  <2>1. Flushed
    BY DEF Next, CallStep, Block, BlocksDone, Post, RingFull, Dequeue, Drained, Unregister, Waited,
       ProgramStep, Flush, Wait, Test, TestNull, CallBlocks, CallNotifiedBlocks, Blocks, CallDirect,
       Begin, NetStep, Land, Complete
  <2>. QED  BY <1>1, <2>1, FlushedMeansDone DEF InNetwork
<1>. QED  BY <1>1, InitInv, StepInv, PTL DEF Spec, FlushMeansDone

(* Memory registered for one transaction is unregistered only when the    *)
(* transaction is out of the network.                                      *)
THEOREM RegisteredWhileUsedCorrect == Spec => RegisteredWhileUsed
<1>1. ASSUME IInv, [Next]_vars
      PROVE  [\A i \in registered \ registered' : ~InNetwork(i)]_vars
  <2>. SUFFICES ASSUME Next, NEW i \in registered, i \notin registered'  PROVE ~InNetwork(i)
    BY <1>1
  <2>1. Unregister
    BY DEF Next, CallStep, Block, BlocksDone, Post, RingFull, Dequeue, Drained, Flushed, Waited,
       ProgramStep, Flush, Wait, Test, TestNull, CallBlocks, CallNotifiedBlocks, Blocks, CallDirect,
       Begin, NetStep, Land, Complete
  <2>2. registered \subseteq Id
    BY <1>1 DEF IInv, RingInv, TypeOK
  <2>. QED  BY <1>1, <2>1, <2>2 DEF Unregister, IInv, CallControl
<1>. QED  BY <1>1, InitInv, StepInv, PTL DEF Spec, RegisteredWhileUsed
===========================================================================
