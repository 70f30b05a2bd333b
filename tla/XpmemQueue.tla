---------------------------- MODULE XpmemQueue ----------------------------
(***************************************************************************)
(* The notification queue of a window in shared memory                     *)
(* (fompi_notif_xpmem.c): a ring of Capacity entries that the processes of *)
(* the node push into, one at a time under an array lock, and that its     *)
(* owner pops from without a lock.  count is the only word both sides      *)
(* write, by atomic adds.                                                  *)
(*                                                                         *)
(* The array lock: a pusher draws a ticket from tail and spins on its own  *)
(* flag; unlock clears that flag and sets the next one.  tail is an int    *)
(* that only grows: a window lives through fewer than 2^31 pushes into one *)
(* of its rings.                                                           *)
(*                                                                         *)
(* Programs leave at most Credit notifications that have not been popped.  *)
(* With Credit above Capacity the ring fills: a pusher waits for room      *)
(* before it takes the lock, and nothing keeps two of them from seeing the *)
(* same last free entry.  overrun says that this has happened.             *)
(***************************************************************************)
EXTENDS Integers, Sequences, FiniteSets

CONSTANTS
  Pusher,    \* the processes of the node
  Capacity,  \* _foMPI_XPMEM_NUM_DST_CQ_ENTRIES
  Credit,    \* notifications a program leaves in the queue
  MaxPush,   \* a process tags its notifications 1 to MaxPush, again and again
  TailMax,   \* pushes into the ring while the window lives, 2^31 - 1 in the code (bound)
  NoMessage  \* what an entry never written holds

OnnodeSize == Cardinality(Pusher)
Message == [source : Pusher, tag : 1 .. MaxPush]
Nothing == [source |-> NoMessage, tag |-> NoMessage]

\* an entry, also one that is half written
Entry == [source : Pusher \cup {NoMessage}, tag : 1 .. MaxPush \cup {NoMessage}]

ASSUME PusherAssumption == IsFiniteSet(Pusher) /\ Pusher # {}
ASSUME SizeAssumption ==
  /\ Capacity \in Nat \ {0} /\ Credit \in Nat /\ MaxPush \in Nat \ {0}
  /\ TailMax \in Nat
ASSUME NoMessageAssumption == NoMessage \notin Pusher

VARIABLES
  tail, flags_array,          \* the lock
  count, inser_ind,           \* the ring, shared
  queue_array,
  extract_ind,                \* xpmem_queue_extract_ind, the owner's
  pc, slot, sent,             \* per pusher; sent: tag of its latest notification
  outstanding,                \* pushes begun and not popped
  overrun,                    \* history: an entry was written into a full ring
  owner_pc, rank,             \* the owner; rank: the source it has read
  last                        \* what the last pop returned

lockVars == <<tail, flags_array, slot>>
ownerVars == <<owner_pc, rank, extract_ind, last>>
vars == <<lockVars, count, inser_ind, queue_array, pc, sent, outstanding, overrun, ownerVars>>

Slots == 0 .. OnnodeSize - 1
Entries == 0 .. Capacity - 1
PcStates == {"idle", "full?", "ticket", "spin", "tag", "source", "index", "publish",
             "clear", "next"}

\* pushes into this ring so far: with a ticket and, still, without
Begun == tail + Cardinality({p \in Pusher : pc[p] \in {"full?", "ticket"}})

TypeOK ==
  /\ tail \in 0 .. TailMax
  /\ flags_array \in [Slots -> {0, 1}]
  /\ count \in Nat
  /\ inser_ind \in Entries
  /\ queue_array \in [Entries -> Entry]
  /\ extract_ind \in Entries
  /\ pc \in [Pusher -> PcStates]
  /\ slot \in [Pusher -> Slots]
  /\ sent \in [Pusher -> 1 .. MaxPush]
  /\ outstanding \in 0 .. Credit
  /\ overrun \in BOOLEAN
  /\ owner_pc \in {"idle", "source", "tag", "done"}
  /\ rank \in Pusher \cup {NoMessage}
  /\ last \in Entry

\* xpmem_notif_init_queue
Init ==
  /\ tail = 0
  /\ flags_array = [s \in Slots |-> IF s = 0 THEN 1 ELSE 0]
  /\ count = 0
  /\ inser_ind = 0
  /\ queue_array = [i \in Entries |-> Nothing]
  /\ extract_ind = 0
  /\ pc = [p \in Pusher |-> "idle"]
  /\ slot = [p \in Pusher |-> 0]
  /\ sent = [p \in Pusher |-> 1]
  /\ outstanding = 0
  /\ overrun = FALSE
  /\ owner_pc = "idle"
  /\ rank = NoMessage
  /\ last = Nothing

---------------------------------------------------------------------------
At(p, from, to) == pc[p] = from /\ pc' = [pc EXCEPT ![p] = to]

\* a process calls xpmem_notif_push
Push(p) ==
  /\ At(p, "idle", "full?")
  /\ outstanding < Credit /\ Begun < TailMax
  /\ outstanding' = outstanding + 1
  /\ sent' = [sent EXCEPT ![p] = (@ % MaxPush) + 1]
  /\ UNCHANGED <<lockVars, count, inser_ind, queue_array, overrun, ownerVars>>

\* the while loop finds room
FindRoom(p) ==
  /\ At(p, "full?", "ticket")
  /\ count < Capacity
  /\ UNCHANGED <<lockVars, count, inser_ind, queue_array, sent, outstanding, overrun, ownerVars>>

\* xpmem_notif_lock
TakeTicket(p) ==
  /\ At(p, "ticket", "spin")
  /\ slot' = [slot EXCEPT ![p] = tail % OnnodeSize]
  /\ tail' = tail + 1
  /\ UNCHANGED <<flags_array, count, inser_ind, queue_array, sent, outstanding, overrun, ownerVars>>

Enter(p) ==
  /\ At(p, "spin", "tag")
  /\ flags_array[slot[p]] # 0
  /\ UNCHANGED <<lockVars, count, inser_ind, queue_array, sent, outstanding, overrun, ownerVars>>

\* the entry at ind, which is inser_ind while the lock is held, field by field
WriteTag(p) ==
  /\ At(p, "tag", "source")
  /\ queue_array' = [queue_array EXCEPT ![inser_ind].tag = sent[p]]
  /\ overrun' = (overrun \/ count >= Capacity)
  /\ UNCHANGED <<lockVars, count, inser_ind, sent, outstanding, ownerVars>>

WriteSource(p) ==
  /\ At(p, "source", "index")
  /\ queue_array' = [queue_array EXCEPT ![inser_ind].source = p]
  /\ UNCHANGED <<lockVars, count, inser_ind, sent, outstanding, overrun, ownerVars>>

Advance(p) ==
  /\ At(p, "index", "publish")
  /\ inser_ind' = (inser_ind + 1) % Capacity
  /\ UNCHANGED <<lockVars, count, queue_array, sent, outstanding, overrun, ownerVars>>

Publish(p) ==
  /\ At(p, "publish", "clear")
  /\ count' = count + 1
  /\ UNCHANGED <<lockVars, inser_ind, queue_array, sent, outstanding, overrun, ownerVars>>

\* mutant: the flag stays set
UnlockClearForgets(p) ==
  /\ At(p, "clear", "next")
  /\ UNCHANGED <<lockVars, count, inser_ind, queue_array, sent, outstanding, overrun, ownerVars>>

\* xpmem_notif_unlock
UnlockClear(p) ==
  /\ At(p, "clear", "next")
  /\ flags_array' = [flags_array EXCEPT ![slot[p]] = 0]
  /\ UNCHANGED <<tail, slot, count, inser_ind, queue_array, sent, outstanding, overrun, ownerVars>>

\* mutant: the last slot does not wrap around
UnlockNextNoWrap(p) ==
  /\ At(p, "next", "idle")
  /\ flags_array' = [flags_array EXCEPT ![IF slot[p] + 1 < OnnodeSize THEN slot[p] + 1
                                          ELSE slot[p]] = 1]
  /\ UNCHANGED <<tail, slot, count, inser_ind, queue_array, sent, outstanding, overrun, ownerVars>>

UnlockNext(p) ==
  /\ At(p, "next", "idle")
  /\ flags_array' = [flags_array EXCEPT ![(slot[p] + 1) % OnnodeSize] = 1]
  /\ UNCHANGED <<tail, slot, count, inser_ind, queue_array, sent, outstanding, overrun, ownerVars>>

---------------------------------------------------------------------------
(* xpmem_notif_pop by the owner                                            *)

\* nothing there: the call returns -1
PopEmpty ==
  /\ owner_pc = "idle"
  /\ count = 0
  /\ UNCHANGED vars

PopFinds ==
  /\ owner_pc = "idle" /\ owner_pc' = "source"
  /\ count # 0
  /\ UNCHANGED <<lockVars, count, inser_ind, queue_array, pc, sent, outstanding, overrun,
                 rank, extract_ind, last>>

\* mutant: reads where line 152 reads the inline data
PopSourceAtInsert ==
  /\ owner_pc = "source" /\ owner_pc' = "tag"
  /\ rank' = queue_array[inser_ind].source
  /\ UNCHANGED <<lockVars, count, inser_ind, queue_array, pc, sent, outstanding, overrun,
                 extract_ind, last>>

PopSource ==
  /\ owner_pc = "source" /\ owner_pc' = "tag"
  /\ rank' = queue_array[extract_ind].source
  /\ UNCHANGED <<lockVars, count, inser_ind, queue_array, pc, sent, outstanding, overrun,
                 extract_ind, last>>

PopTag ==
  /\ owner_pc = "tag" /\ owner_pc' = "done"
  /\ last' = [source |-> rank, tag |-> queue_array[extract_ind].tag]
  /\ extract_ind' = (extract_ind + 1) % Capacity
  /\ UNCHANGED <<lockVars, count, inser_ind, queue_array, pc, sent, outstanding, overrun, rank>>

PopDone ==
  /\ owner_pc = "done" /\ owner_pc' = "idle"
  /\ count' = count - 1
  /\ outstanding' = outstanding - 1
  /\ UNCHANGED <<lockVars, inser_ind, queue_array, pc, sent, overrun, rank, extract_ind,
                 last>>

Pop == PopEmpty \/ PopFinds \/ PopSource \/ PopTag \/ PopDone

---------------------------------------------------------------------------
PushStep(p) ==
  \/ FindRoom(p) \/ TakeTicket(p) \/ Enter(p)
  \/ WriteTag(p) \/ WriteSource(p) \/ Advance(p) \/ Publish(p)
  \/ UnlockClear(p) \/ UnlockNext(p)

Next ==
  \/ \E p \in Pusher : Push(p) \/ PushStep(p)
  \/ Pop

Spec == Init /\ [][Next]_vars

(* Calls of xpmem_notif_push are executed and the owner keeps popping; a   *)
(* pusher that finds room again and again sees it.                         *)
FairSpec ==
  /\ Spec
  /\ WF_vars(Pop)
  /\ \A p \in Pusher : WF_vars(PushStep(p)) /\ SF_vars(FindRoom(p))

---------------------------------------------------------------------------
Critical == {"tag", "source", "index", "publish", "clear"}

(* One pusher at a time is between lock and unlock, full ring or not (the  *)
(* array lock of lines 19-33, whose size is the number of processes of the *)
(* node).  The types of the variables are part of the invariant.           *)
OnePusher == TypeOK /\ \A p, q \in Pusher : pc[p] \in Critical /\ pc[q] \in Critical => p = q

(* The ring never holds more entries than it has: xpmem_config.h:12, "MAX  *)
(* Number of entries in the XPMEM notification queue".                     *)
CountBounded == count <= Capacity

(* A push returns as long as the owner pops: nobody waits for ever for     *)
(* room or for the lock (lines 22, 82, 116).                               *)
PushReturns == \A p \in Pusher : pc[p] # "idle" ~> pc[p] = "idle"

\* entries published and not read, oldest first
Contents ==
  [i \in 1 .. count - (IF owner_pc = "done" THEN 1 ELSE 0) |->
     queue_array[(extract_ind + i - 1) % Capacity]]

\* the message p is pushing
Sent(p) == [source |-> p, tag |-> sent[p]]

(* Until an entry is written into a full ring, the ring is a FIFO: what a  *)
(* pusher publishes is its own message, whole, and it is popped once and   *)
(* in order; the unlocked pop, which reads an entry field by field while   *)
(* others are written, returns the source and the tag of one push (lines   *)
(* 120-127 against 135-155).                                               *)
Fifo == INSTANCE AbstractFifo WITH chan <- Contents, NoMessage <- Nothing
FifoStep ==
  /\ Fifo!Next
  /\ Fifo!Receive \/ \E p \in Pusher : pc[p] = "publish" /\ Fifo!Send(Sent(p))
ImplementsFifo == Fifo!Init /\ [][FifoStep \/ overrun']_<<Contents, last>>
===========================================================================
