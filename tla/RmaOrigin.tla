----------------------------- MODULE RmaOrigin -----------------------------
(***************************************************************************)
(* One process that puts, gets and notifies through the NIC                *)
(* (fompi_win_rma.c, fompi_comm.c), on one window and to ranks of other    *)
(* nodes, with the requests of Rput and Rget (fompi_req.c).                *)
(*                                                                         *)
(* An operation without notification is split into blocks, each a          *)
(* non-blocking DMAPP request.  One with notification is either a single   *)
(* uGNI transaction, which leaves its event at the target when the data is *)
(* there, or blocks, a flush, and an empty transaction for the event.      *)
(*                                                                         *)
(* uGNI transactions take their descriptor from a ring of Entries pointers *)
(* that starts at extr_ind; when a completion is dequeued its descriptor,  *)
(* whichever it is, goes back in at ins_ind.  counter_ugni_nbi counts the  *)
(* descriptors that are out.                                               *)
(***************************************************************************)
EXTENDS Integers, Sequences, FiniteSets

CONSTANTS
  Id,        \* operations under way or remembered (bound)
  Entries,   \* number_of_cq_entries
  MaxBlock,  \* blocks an operation is split into (bound)
  MaxNbi,    \* DMAPP requests after which a program flushes (bound)
  NoOp       \* no operation

ASSUME IdAssumption == IsFiniteSet(Id) /\ Id # {} /\ NoOp \notin Id
ASSUME NumberAssumption ==
  Entries \in Nat \ {0} /\ MaxBlock \in Nat \ {0} /\ MaxNbi \in Nat

Descriptor == 1 .. Entries
Slots == 0 .. Entries - 1

VARIABLES
  data_desc_ptr, extr_ind, ins_ind, counter_ugni_nbi,
  nbi_counter,   \* DMAPP requests of the window since its last flush
  blocks,        \* blocks[i]: of operation i, in the network
  posted,        \* posted[d]: the operation whose transaction uses descriptor d
  events,        \* local completion queue: descriptors, in the order they completed
  registered,    \* operations whose source memory is registered for them alone
  notified,      \* operations whose notification is at the target
  handle,        \* handle[i]: the program's request for operation i
  pc, then,      \* where the call is, and where it goes on after a flush
  cur, left,     \* its operation, blocks to issue
  temp, notify   \* memory to register, notification to send; cleared when acted upon

ringVars == <<data_desc_ptr, extr_ind, ins_ind, counter_ugni_nbi>>
netVars == <<blocks, posted, events, notified>>
callVars == <<cur, left, temp, notify>>
vars == <<ringVars, nbi_counter, netVars, registered, handle, pc, then, callVars>>

PcStates == {"idle", "blocks", "post", "drain", "flush", "unregister", "waited"}

TypeOK ==
  /\ data_desc_ptr \in [Slots -> Descriptor]
  /\ extr_ind \in Slots /\ ins_ind \in Slots
  /\ counter_ugni_nbi \in 0 .. Entries
  /\ nbi_counter \in Nat
  /\ blocks \in [Id -> Nat]
  /\ posted \in [Descriptor -> Id \cup {NoOp}]
  /\ events \in Seq(Descriptor)
  /\ registered \subseteq Id /\ notified \subseteq Id
  /\ handle \in [Id -> {"none", "live", "null"}]
  /\ pc \in PcStates /\ then \in PcStates
  /\ cur \in Id /\ left \in 0 .. MaxBlock /\ temp \in BOOLEAN /\ notify \in BOOLEAN

Init ==
  /\ data_desc_ptr = [s \in Slots |-> s + 1]
  /\ extr_ind = 0 /\ ins_ind = 0 /\ counter_ugni_nbi = 0
  /\ nbi_counter = 0
  /\ blocks = [i \in Id |-> 0]
  /\ posted = [d \in Descriptor |-> NoOp]
  /\ events = << >>
  /\ registered = {} /\ notified = {}
  /\ handle = [i \in Id |-> "none"]
  /\ pc = "idle" /\ then = "idle"
  /\ cur \in Id /\ left = 0 /\ temp = FALSE /\ notify = FALSE

---------------------------------------------------------------------------
InNetwork(i) == blocks[i] > 0 \/ \E d \in Descriptor : posted[d] = i

(* A call for a new operation i: its name is free, and what was remembered *)
(* of its last use is forgotten.                                           *)
Begin(i, withRequest) ==
  /\ pc = "idle"
  /\ ~InNetwork(i) /\ handle[i] = "none"
  /\ cur' = i
  /\ handle' = [handle EXCEPT ![i] = IF withRequest THEN "live" ELSE "none"]
  /\ notified' = notified \ {i}

Blocks(i, n, withNotify, withRequest) ==
  /\ Begin(i, withRequest)
  /\ nbi_counter + n <= MaxNbi
  /\ pc' = "blocks" /\ left' = n /\ temp' = FALSE /\ notify' = withNotify
  /\ UNCHANGED <<ringVars, nbi_counter, blocks, posted, events, registered, then>>

\* Put, Get, Rput, Rget in n blocks
CallBlocks(i, n, withRequest) == Blocks(i, n, FALSE, withRequest)

\* a notified operation that is not one transaction: it is too long, in several
\* blocks, or a get that is not aligned
CallNotifiedBlocks(i, n, withRequest) == Blocks(i, n, TRUE, withRequest)

\* a notified operation in one transaction; withTemp: its source memory lies
\* outside the window, and the NIC needs it registered
CallDirect(i, withTemp, withRequest) ==
  /\ Begin(i, withRequest)
  /\ pc' = "post" /\ left' = 0 /\ temp' = withTemp /\ notify' = FALSE
  /\ UNCHANGED <<ringVars, nbi_counter, blocks, posted, events, registered, then>>

\* dmapp_simple_put, dmapp_simple_get
Block ==
  /\ pc = "blocks" /\ left > 0
  /\ left' = left - 1
  /\ blocks' = [blocks EXCEPT ![cur] = @ + 1]
  /\ nbi_counter' = nbi_counter + 1
  /\ UNCHANGED <<ringVars, posted, events, notified, registered, handle, pc, then, cur, temp,
                 notify>>

\* mutant: the notification is sent without a flush
BlocksDoneNoFlush ==
  /\ pc = "blocks" /\ left = 0
  /\ pc' = IF notify THEN "post" ELSE "idle"
  /\ notify' = FALSE
  /\ UNCHANGED <<ringVars, nbi_counter, netVars, registered, handle, then, cur, left, temp>>

BlocksDone ==
  /\ pc = "blocks" /\ left = 0
  /\ pc' = IF notify THEN "flush" ELSE "idle"
  /\ then' = "post" /\ notify' = FALSE
  /\ UNCHANGED <<ringVars, nbi_counter, netVars, registered, handle, cur, left, temp>>

---------------------------------------------------------------------------
(* ugni_simple_rma and the ring of descriptors.                            *)

\* mutants: the source is unregistered at once; the ring is thought to have
\* one entry more
PostUnregisters ==
  LET d == data_desc_ptr[extr_ind] IN
  /\ pc = "post" /\ counter_ugni_nbi < Entries
  /\ extr_ind' = (extr_ind + 1) % Entries
  /\ counter_ugni_nbi' = counter_ugni_nbi + 1
  /\ posted' = [posted EXCEPT ![d] = cur]
  /\ registered' = IF temp THEN registered \cup {cur} ELSE registered
  /\ pc' = IF temp THEN "unregister" ELSE "idle"
  /\ temp' = FALSE
  /\ UNCHANGED <<data_desc_ptr, ins_ind, nbi_counter, blocks, events, notified, handle, then,
                 cur, left, notify>>
PostOneTooMany ==
  LET d == data_desc_ptr[extr_ind] IN
  /\ pc = "post" /\ counter_ugni_nbi <= Entries
  /\ extr_ind' = (extr_ind + 1) % Entries
  /\ counter_ugni_nbi' = counter_ugni_nbi + 1
  /\ posted' = [posted EXCEPT ![d] = cur]
  /\ registered' = IF temp THEN registered \cup {cur} ELSE registered
  /\ pc' = IF temp THEN "flush" ELSE "idle"
  /\ then' = "unregister" /\ temp' = FALSE
  /\ UNCHANGED <<data_desc_ptr, ins_ind, nbi_counter, blocks, events, notified, handle,
                 cur, left, notify>>

\* get_ugni_data_descriptor, memory registration, GNI_PostFma or GNI_PostRdma
Post ==
  LET d == data_desc_ptr[extr_ind] IN
  /\ pc = "post" /\ counter_ugni_nbi < Entries
  /\ extr_ind' = (extr_ind + 1) % Entries
  /\ counter_ugni_nbi' = counter_ugni_nbi + 1
  /\ posted' = [posted EXCEPT ![d] = cur]
  /\ registered' = IF temp THEN registered \cup {cur} ELSE registered
  /\ pc' = IF temp THEN "flush" ELSE "idle"
  /\ then' = "unregister" /\ temp' = FALSE
  /\ UNCHANGED <<data_desc_ptr, ins_ind, nbi_counter, blocks, events, notified, handle,
                 cur, left, notify>>

\* all descriptors are out: wait for the completions first
RingFull ==
  /\ pc = "post" /\ pc' = "drain"
  /\ counter_ugni_nbi >= Entries
  /\ UNCHANGED <<ringVars, nbi_counter, netVars, registered, handle, then, callVars>>

\* mutant: the descriptor goes back where the next one is taken from
DequeueAtExtract ==
  /\ pc \in {"drain", "flush"} /\ counter_ugni_nbi > 0
  /\ events # << >>
  /\ events' = Tail(events)
  /\ data_desc_ptr' = [data_desc_ptr EXCEPT ![extr_ind] = Head(events)]
  /\ ins_ind' = (ins_ind + 1) % Entries
  /\ counter_ugni_nbi' = counter_ugni_nbi - 1
  /\ UNCHANGED <<extr_ind, nbi_counter, blocks, posted, notified, registered, handle, pc, then,
                 callVars>>

\* mutant: the counter is forgotten
DequeueUncounted ==
  /\ pc \in {"drain", "flush"} /\ counter_ugni_nbi > 0
  /\ events # << >>
  /\ events' = Tail(events)
  /\ data_desc_ptr' = [data_desc_ptr EXCEPT ![ins_ind] = Head(events)]
  /\ ins_ind' = (ins_ind + 1) % Entries
  /\ UNCHANGED <<extr_ind, counter_ugni_nbi, nbi_counter, blocks, posted, notified, registered,
                 handle, pc, then, callVars>>

\* ugni_Dequeue_local_event finds a completion
Dequeue ==
  /\ pc \in {"drain", "flush"} /\ counter_ugni_nbi > 0
  /\ events # << >>
  /\ events' = Tail(events)
  /\ data_desc_ptr' = [data_desc_ptr EXCEPT ![ins_ind] = Head(events)]
  /\ ins_ind' = (ins_ind + 1) % Entries
  /\ counter_ugni_nbi' = counter_ugni_nbi - 1
  /\ UNCHANGED <<extr_ind, nbi_counter, blocks, posted, notified, registered, handle, pc, then,
                 callVars>>

Drained ==
  /\ pc = "drain" /\ pc' = "post"
  /\ counter_ugni_nbi = 0
  /\ UNCHANGED <<ringVars, nbi_counter, netVars, registered, handle, then, callVars>>

---------------------------------------------------------------------------
(* foMPI_Win_flush_all: the uGNI completions (Dequeue), then DMAPP.        *)

Flush ==
  /\ pc = "idle" /\ pc' = "flush" /\ then' = "idle"
  /\ UNCHANGED <<ringVars, nbi_counter, netVars, registered, handle, callVars>>

\* mutant: the completions of the NIC are not waited for
FlushedDmappOnly ==
  /\ pc = "flush" /\ pc' = then /\ then' = "idle"
  /\ nbi_counter > 0 => \A i \in Id : blocks[i] = 0
  /\ nbi_counter' = 0
  /\ UNCHANGED <<ringVars, netVars, registered, handle, callVars>>

Flushed ==
  /\ pc = "flush" /\ pc' = then /\ then' = "idle"
  /\ counter_ugni_nbi = 0
  /\ nbi_counter > 0 => \A i \in Id : blocks[i] = 0
  /\ nbi_counter' = 0
  /\ UNCHANGED <<ringVars, netVars, registered, handle, callVars>>

\* _foMPI_mem_unregister after the flush
Unregister ==
  /\ pc = "unregister" /\ pc' = "idle"
  /\ registered' = registered \ {cur}
  /\ UNCHANGED <<ringVars, nbi_counter, netVars, handle, then, callVars>>

---------------------------------------------------------------------------
(* foMPI_Wait and foMPI_Test on the request of operation i.                *)

Wait(i) ==
  /\ pc = "idle" /\ handle[i] = "live"
  /\ pc' = "flush" /\ then' = "waited" /\ cur' = i
  /\ UNCHANGED <<ringVars, nbi_counter, netVars, registered, handle, left, temp, notify>>

Waited ==
  /\ pc = "waited" /\ pc' = "idle"
  /\ handle' = [handle EXCEPT ![cur] = "none"]
  /\ UNCHANGED <<ringVars, nbi_counter, netVars, registered, then, callVars>>

\* the answer of Rma_test_wait; dmapp_gsync_test tells whether DMAPP is quiet
RmaTest == counter_ugni_nbi = 0 /\ (nbi_counter = 0 \/ \A i \in Id : blocks[i] = 0)

\* whatever the answer, Test_Wait frees the request and sets the handle to null
Test(i) ==
  /\ pc = "idle" /\ handle[i] = "live"
  /\ handle' = [handle EXCEPT ![i] = IF RmaTest THEN "none" ELSE "null"]
  /\ UNCHANGED <<ringVars, nbi_counter, netVars, registered, pc, then, callVars>>

\* a null request is complete
TestNull(i) ==
  /\ pc = "idle" /\ handle[i] = "null"
  /\ handle' = [handle EXCEPT ![i] = "none"]
  /\ UNCHANGED <<ringVars, nbi_counter, netVars, registered, pc, then, callVars>>

---------------------------------------------------------------------------
(* The network, in any order.                                              *)

\* a block arrives
Land(i) ==
  /\ blocks[i] > 0
  /\ blocks' = [blocks EXCEPT ![i] = @ - 1]
  /\ UNCHANGED <<ringVars, nbi_counter, posted, events, notified, registered, handle, pc, then,
                 callVars>>

\* a transaction arrives: event at the target, then completion at the origin
Complete(d) ==
  /\ posted[d] # NoOp
  /\ posted' = [posted EXCEPT ![d] = NoOp]
  /\ notified' = notified \cup {posted[d]}
  /\ events' = Append(events, d)
  /\ UNCHANGED <<ringVars, nbi_counter, blocks, registered, handle, pc, then, callVars>>

---------------------------------------------------------------------------
CallStep ==
  \/ Block \/ BlocksDone \/ Post \/ RingFull \/ Dequeue \/ Drained \/ Flushed
  \/ Unregister \/ Waited

ProgramStep ==
  \/ Flush
  \/ \E i \in Id :
       \/ Wait(i) \/ Test(i) \/ TestNull(i)
       \/ \E n \in 1 .. MaxBlock, b \in BOOLEAN : CallBlocks(i, n, b) \/ CallNotifiedBlocks(i, n, b)
       \/ \E b, c \in BOOLEAN : CallDirect(i, b, c)

NetStep == (\E i \in Id : Land(i)) \/ (\E d \in Descriptor : Complete(d))

Next == CallStep \/ ProgramStep \/ NetStep

Spec == Init /\ [][Next]_vars

(* Calls are executed and the network delivers what it has.                *)
FairSpec ==
  /\ Spec
  /\ WF_vars(CallStep)
  /\ \A i \in Id : WF_vars(Land(i))
  /\ \A d \in Descriptor : WF_vars(Complete(d))

---------------------------------------------------------------------------
InUse == {d \in Descriptor : posted[d] # NoOp} \cup {events[k] : k \in DOMAIN events}

(* The ring never gives out a descriptor that the NIC still uses or whose  *)
(* completion is still to be dequeued, although completions come back in   *)
(* another order than posts (fompi_comm.c:564-584, "not safe").  The types *)
(* of the variables are part of the invariant.                             *)
DescriptorIdle ==
  TypeOK /\ (counter_ugni_nbi < Entries => data_desc_ptr[extr_ind] \notin InUse)

(* The local completion queue never holds more than number_of_cq_entries   *)
(* events: transactions are flushed before one more could overrun it       *)
(* (fompi_comm.c:565-568).                                                 *)
CqNotOverrun == Len(events) + Cardinality({d \in Descriptor : posted[d] # NoOp}) <= Entries

(* When a notification is at the target, so is all the data it announces,  *)
(* in how many blocks ever it came (the flushes of fompi_win_rma.c:996,    *)
(* 1102, 1115, 1182, and 1282, 1400, 1416, 1481 for gets).                 *)
NotifiedMeansData == \A i \in notified : blocks[i] = 0

(* A flush leaves nothing in the network: not of its own operation and not *)
(* of those before it, and every descriptor is back.                       *)
FlushMeansDone ==
  [][pc = "flush" /\ pc' # "flush" => \A i \in Id : ~InNetwork(i)']_vars

(* Memory registered for one transaction is unregistered only when the    *)
(* transaction is out of the network (fompi_win_rma.c:3053-3057).          *)
RegisteredWhileUsed ==
  [][\A i \in registered \ registered' : ~InNetwork(i)]_vars

(* Every call returns: no flush waits for a completion that does not come. *)
CallReturns == pc # "idle" ~> pc = "idle"

(* fompi_req.c:36-37: "The call returns flag = false if the operation      *)
(* identified by request is not complete."  So when a completion call      *)
(* reports an operation, and gives its request back for good, the          *)
(* operation is not in the network.                                        *)
ReportedMeansDone ==
  [][\A i \in Id : handle[i] # "none" /\ handle'[i] = "none" => ~InNetwork(i)]_vars
===========================================================================
