--------------------------- MODULE DynamicWindow ---------------------------
(***************************************************************************)
(* The memory one process, Owner, attaches to a dynamic window             *)
(* (fompi_win_dynamic_create.c), and the copies of the list of it that     *)
(* every process keeps for its operations (fompi_win_rma.c:164-279).       *)
(*                                                                         *)
(* The list is in the owner's memory; every node is registered with the    *)
(* NIC for itself, and its descriptor is stored in the node before it.  An *)
(* operation walks it with remote gets, unless dynamic_id still is the one *)
(* its copy was made at.  dynamic_mutex keeps the owner's changes and the  *)
(* walks apart.  Descriptors of nodes are written as the node they         *)
(* describe, those of attached memory as the value of dynamic_id when they *)
(* were made.                                                              *)
(***************************************************************************)
EXTENDS Integers, Sequences, FiniteSets, SequencesExt

CONSTANTS
  Proc, Owner,  \* the ranks of the window, the one that attaches
  Node, NULL,   \* heap nodes (their number bounds the list)
  Region,       \* memory the owner may attach
  MaxId,        \* changes of the list (bound; dynamic_id is 32 bits wide)
  Unknown       \* whether programs detach what is not attached

MUTEX_NONE == -1

ASSUME NamesAssumption ==
  Owner \in Proc /\ MUTEX_NONE \notin Proc /\ NULL \notin Node /\ Unknown \in BOOLEAN

ASSUME BoundsAssumption == IsFiniteSet(Node) /\ MaxId \in Nat

Pointer == Node \cup {NULL}

VARIABLES
  dynamic_mutex, dynamic_id,
  win_dynamic_mem_regions, win_dynamic_mem_regions_seg, dynamic_last,
  next, next_seg, base, seg,  \* the fields of the nodes
  allocated, registered,      \* nodes that are, and whose memory is registered
  memory,                     \* the registration of every region, 0 if it has none
  remote_mem_regions,         \* of every process: its copy of the list
  copy_id,                    \* and the dynamic_id it was made at
  pc, region,                 \* of every process: its call, on which region
  current, current_seg,       \* the node it reads next, and by which descriptor
  used                        \* descriptor the last operation used, 0: not found

listVars == <<win_dynamic_mem_regions, win_dynamic_mem_regions_seg, dynamic_last, next, next_seg,
              base, seg, allocated, registered, memory>>
copyVars == <<remote_mem_regions, copy_id>>
walkVars == <<current, current_seg, used>>
vars == <<dynamic_mutex, dynamic_id, listVars, copyVars, pc, region, walkVars>>

Waiting == {"attach", "detach", "access"}   \* for the mutex
Inside == {"link", "fill", "search", "unlink", "id", "head", "element", "release", "copied"}

TypeOK ==
  /\ dynamic_mutex \in Proc \cup {MUTEX_NONE} /\ dynamic_id \in 0 .. MaxId
  /\ win_dynamic_mem_regions \in Pointer /\ win_dynamic_mem_regions_seg \in Pointer
  /\ dynamic_last \in Pointer
  /\ next \in [Node -> Pointer] /\ next_seg \in [Node -> Pointer]
  /\ base \in [Node -> Region] /\ seg \in [Node -> 0 .. MaxId]
  /\ allocated \subseteq Node /\ registered \subseteq Node
  /\ memory \in [Region -> 0 .. MaxId]
  /\ remote_mem_regions \in [Proc -> Seq(Region \X (0 .. MaxId))]
  /\ copy_id \in [Proc -> 0 .. MaxId]
  /\ pc \in [Proc -> {"idle", "find"} \cup Waiting \cup Inside]
  /\ region \in [Proc -> Region]
  /\ current \in [Proc -> Pointer] /\ current_seg \in [Proc -> Pointer]
  /\ \A p \in Proc : pc[p] = "element" => current[p] \in Node
  /\ used \in [Proc -> 0 .. MaxId]

Init ==
  /\ dynamic_mutex = MUTEX_NONE /\ dynamic_id = 0
  /\ win_dynamic_mem_regions = NULL /\ win_dynamic_mem_regions_seg = NULL
  /\ dynamic_last = NULL
  /\ next = [n \in Node |-> n] /\ next_seg = [n \in Node |-> n]
  /\ \E r \in Region : base = [n \in Node |-> r] /\ region = [p \in Proc |-> r]
  /\ seg = [n \in Node |-> 0]
  /\ allocated = {} /\ registered = {}
  /\ memory = [r \in Region |-> 0]
  /\ remote_mem_regions = [p \in Proc |-> << >>] /\ copy_id = [p \in Proc |-> 0]
  /\ pc = [p \in Proc |-> "idle"]
  /\ current = [p \in Proc |-> NULL] /\ current_seg = [p \in Proc |-> NULL]
  /\ used = [p \in Proc |-> 0]

---------------------------------------------------------------------------
Goto(p, where) == pc' = [pc EXCEPT ![p] = where]

Call(p, what, r) ==
  /\ pc[p] = "idle"
  /\ Goto(p, what) /\ region' = [region EXCEPT ![p] = r]
  /\ UNCHANGED <<dynamic_mutex, dynamic_id, listVars, copyVars, walkVars>>

(* What MPI asks of a program: it attaches memory that is not attached,    *)
(* accesses memory that is, and detaches none that is being accessed.      *)
Changing == {"attach", "detach", "link", "fill", "search", "unlink", "release"}

CallAttach(r) ==
  /\ dynamic_id < MaxId /\ memory[r] = 0 /\ allocated # Node
  /\ Call(Owner, "attach", r)

CallDetach(r) ==
  /\ dynamic_id < MaxId
  /\ memory[r] # 0 \/ Unknown
  /\ \A p \in Proc : pc[p] = "idle" \/ region[p] # r
  /\ Call(Owner, "detach", r)

\* an operation of p that ends up in get_dynamic_window_regions
CallAccess(p, r) ==
  /\ memory[r] # 0
  /\ ~(pc[Owner] \in Changing /\ region[Owner] = r)
  /\ Call(p, "access", r)

\* mutant: an unconditional swap
LockBlind(p) ==
  /\ pc[p] \in Waiting
  /\ dynamic_mutex' = p
  /\ Goto(p, CASE pc[p] = "attach" -> "link" [] pc[p] = "detach" -> "search"
               [] pc[p] = "access" -> "id")
  /\ UNCHANGED <<dynamic_id, listVars, copyVars, region, walkVars>>

\* dmapp_acswap_qw(NONE, commrank), repeated until it finds NONE
Lock(p) ==
  /\ pc[p] \in Waiting
  /\ dynamic_mutex = MUTEX_NONE /\ dynamic_mutex' = p
  /\ Goto(p, CASE pc[p] = "attach" -> "link" [] pc[p] = "detach" -> "search"
               [] pc[p] = "access" -> "id")
  /\ UNCHANGED <<dynamic_id, listVars, copyVars, region, walkVars>>

\* dmapp_acswap_qw(commrank, NONE), once
Release(p) ==
  /\ pc[p] \in {"release", "copied"}
  /\ dynamic_mutex' = IF dynamic_mutex = p THEN MUTEX_NONE ELSE dynamic_mutex
  /\ Goto(p, IF pc[p] = "copied" THEN "find" ELSE "idle")
  /\ UNCHANGED <<dynamic_id, listVars, copyVars, region, walkVars>>

---------------------------------------------------------------------------
(* foMPI_Win_attach: a node is linked in, then filled.  A new node holds   *)
(* what its memory last held.                                              *)

AttachLink ==
  /\ pc[Owner] = "link" /\ Goto(Owner, "fill")
  /\ \E n \in Node \ allocated :
       /\ allocated' = allocated \cup {n} /\ registered' = registered \cup {n}
       /\ dynamic_last' = n
       /\ \/ /\ dynamic_last = NULL
             /\ win_dynamic_mem_regions' = n /\ win_dynamic_mem_regions_seg' = n
             /\ UNCHANGED <<next, next_seg>>
          \/ /\ dynamic_last # NULL
             /\ next' = [next EXCEPT ![dynamic_last] = n]
             /\ next_seg' = [next_seg EXCEPT ![dynamic_last] = n]
             /\ UNCHANGED <<win_dynamic_mem_regions, win_dynamic_mem_regions_seg>>
  /\ UNCHANGED <<dynamic_mutex, dynamic_id, base, seg, memory, copyVars, region, walkVars>>

\* mutant: the change is not counted
AttachFillUncounted ==
  LET r == region[Owner] IN
  /\ pc[Owner] = "fill" /\ Goto(Owner, "release")
  /\ base' = [base EXCEPT ![dynamic_last] = r]
  /\ seg' = [seg EXCEPT ![dynamic_last] = dynamic_id + 1]
  /\ memory' = [memory EXCEPT ![r] = dynamic_id + 1]
  /\ next' = [next EXCEPT ![dynamic_last] = NULL]
  /\ UNCHANGED <<dynamic_mutex, dynamic_id, win_dynamic_mem_regions, win_dynamic_mem_regions_seg,
                 dynamic_last, next_seg, allocated, registered, copyVars, region, walkVars>>

AttachFill ==
  LET r == region[Owner] IN
  /\ pc[Owner] = "fill" /\ Goto(Owner, "release")
  /\ base' = [base EXCEPT ![dynamic_last] = r]
  /\ seg' = [seg EXCEPT ![dynamic_last] = dynamic_id + 1]
  /\ memory' = [memory EXCEPT ![r] = dynamic_id + 1]
  /\ next' = [next EXCEPT ![dynamic_last] = NULL]
  /\ dynamic_id' = dynamic_id + 1
  /\ UNCHANGED <<dynamic_mutex, win_dynamic_mem_regions, win_dynamic_mem_regions_seg,
                 dynamic_last, next_seg, allocated, registered, copyVars, region, walkVars>>

---------------------------------------------------------------------------
\* the nodes of the list, in its order
List ==
  LET walk[k \in 0 .. Cardinality(Node)] ==
        IF k = 0 \/ win_dynamic_mem_regions = NULL THEN << >>
        ELSE IF k = 1 THEN <<win_dynamic_mem_regions>>
        ELSE LET before == walk[k - 1]
             IN IF next[Last(before)] = NULL THEN before ELSE Append(before, next[Last(before)])
  IN walk[Cardinality(Node)]

Positions(r) == {k \in DOMAIN List : base[List[k]] = r}

(* foMPI_Win_detach: when the memory is not in the list the call returns   *)
(* at once, with the mutex.                                                *)
Search ==
  /\ pc[Owner] = "search"
  /\ Goto(Owner, IF Positions(region[Owner]) = {} THEN "idle" ELSE "unlink")
  /\ UNCHANGED <<dynamic_mutex, dynamic_id, listVars, copyVars, region, walkVars>>

\* mutant: the descriptor of the new head is not copied
UnlinkFirstKeepsSeg ==
  /\ win_dynamic_mem_regions' = IF List[1] = dynamic_last THEN NULL ELSE next[List[1]]
  /\ UNCHANGED win_dynamic_mem_regions_seg
  /\ dynamic_last' = IF List[1] = dynamic_last THEN NULL ELSE dynamic_last
  /\ registered' = registered \ {win_dynamic_mem_regions_seg}
  /\ UNCHANGED <<next, next_seg>>

\* the first node
UnlinkFirst ==
  /\ registered' = registered \ {win_dynamic_mem_regions_seg}
  /\ UNCHANGED <<next, next_seg>>
  /\ \/ /\ List[1] = dynamic_last
        /\ dynamic_last' = NULL /\ win_dynamic_mem_regions' = NULL
        /\ UNCHANGED win_dynamic_mem_regions_seg
     \/ /\ List[1] # dynamic_last
        /\ win_dynamic_mem_regions' = next[List[1]]
        /\ win_dynamic_mem_regions_seg' = next_seg[List[1]]
        /\ UNCHANGED dynamic_last

\* mutant: the end of the list is forgotten
UnlinkLaterNoLast(n, previous) ==
  /\ registered' = registered \ {next_seg[previous]}
  /\ UNCHANGED <<win_dynamic_mem_regions, win_dynamic_mem_regions_seg, dynamic_last>>
  /\ next' = [next EXCEPT ![previous] = next[n]]
  /\ next_seg' = [next_seg EXCEPT ![previous] = next_seg[n]]

\* node n, after previous
UnlinkLater(n, previous) ==
  /\ registered' = registered \ {next_seg[previous]}
  /\ UNCHANGED <<win_dynamic_mem_regions, win_dynamic_mem_regions_seg>>
  /\ \/ /\ n = dynamic_last
        /\ dynamic_last' = previous
        /\ next' = [next EXCEPT ![previous] = NULL]
        /\ UNCHANGED next_seg
     \/ /\ n # dynamic_last
        /\ next' = [next EXCEPT ![previous] = next[n]]
        /\ next_seg' = [next_seg EXCEPT ![previous] = next_seg[n]]
        /\ UNCHANGED dynamic_last

Unlink ==
  LET r == region[Owner] IN
  /\ pc[Owner] = "unlink" /\ Goto(Owner, "release")
  /\ \E k \in Positions(r) :
       /\ \A j \in Positions(r) : k <= j
       /\ allocated' = allocated \ {List[k]}
       /\ \/ k = 1 /\ UnlinkFirst
          \/ k > 1 /\ UnlinkLater(List[k], List[k - 1])
  /\ memory' = [memory EXCEPT ![r] = 0]
  /\ dynamic_id' = dynamic_id + 1
  /\ UNCHANGED <<dynamic_mutex, base, seg, copyVars, region, walkVars>>

---------------------------------------------------------------------------
(* get_dynamic_window_regions: every read is a blocking dmapp_get.         *)

\* mutant: the old copy is kept
GetIdKeeps(p) ==
  /\ pc[p] = "id"
  /\ Goto(p, IF dynamic_id = copy_id[p] THEN "copied" ELSE "head")
  /\ copy_id' = [copy_id EXCEPT ![p] = dynamic_id]
  /\ UNCHANGED <<remote_mem_regions, dynamic_mutex, dynamic_id, listVars, region, walkVars>>

GetId(p) ==
  /\ pc[p] = "id"
  /\ \/ dynamic_id = copy_id[p] /\ Goto(p, "copied") /\ UNCHANGED copyVars
     \/ /\ dynamic_id # copy_id[p] /\ Goto(p, "head")
        /\ copy_id' = [copy_id EXCEPT ![p] = dynamic_id]
        /\ remote_mem_regions' = [remote_mem_regions EXCEPT ![p] = << >>]
  /\ UNCHANGED <<dynamic_mutex, dynamic_id, listVars, region, walkVars>>

GetHead(p) ==
  /\ pc[p] = "head"
  /\ Goto(p, IF win_dynamic_mem_regions = NULL THEN "copied" ELSE "element")
  /\ current' = [current EXCEPT ![p] = win_dynamic_mem_regions]
  /\ current_seg' = [current_seg EXCEPT ![p] = win_dynamic_mem_regions_seg]
  /\ UNCHANGED <<dynamic_mutex, dynamic_id, listVars, copyVars, region, used>>

GetElement(p) ==
  LET n == current[p] IN
  /\ pc[p] = "element"
  /\ Goto(p, IF next[n] = NULL THEN "copied" ELSE "element")
  /\ remote_mem_regions' = [remote_mem_regions EXCEPT ![p] = Append(@, <<base[n], seg[n]>>)]
  /\ current' = [current EXCEPT ![p] = next[n]]
  /\ current_seg' = [current_seg EXCEPT ![p] = next_seg[n]]
  /\ UNCHANGED <<dynamic_mutex, dynamic_id, listVars, copy_id, region, used>>

(* find_seg_and_size on the copy, without the mutex: the first element     *)
(* that contains the address.                                              *)
Find(p) ==
  LET copy == remote_mem_regions[p]
      hits == {k \in DOMAIN copy : copy[k][1] = region[p]}
  IN  /\ pc[p] = "find" /\ Goto(p, "idle")
      /\ \/ hits = {} /\ used' = [used EXCEPT ![p] = 0]
         \/ \E k \in hits : /\ \A j \in hits : k <= j
                            /\ used' = [used EXCEPT ![p] = copy[k][2]]
      /\ UNCHANGED <<dynamic_mutex, dynamic_id, listVars, copyVars, region, current, current_seg>>

---------------------------------------------------------------------------
OwnerStep == AttachLink \/ AttachFill \/ Search \/ Unlink

\* what a process does between taking the mutex and giving it back
Section(p) ==
  \/ p = Owner /\ OwnerStep
  \/ GetId(p) \/ GetHead(p) \/ GetElement(p) \/ Release(p)

Next ==
  \/ \E r \in Region : CallAttach(r) \/ CallDetach(r)
  \/ \E p \in Proc : \/ \E r \in Region : CallAccess(p, r)
                     \/ Lock(p) \/ Section(p) \/ Find(p)

Spec == Init /\ [][Next]_vars

---------------------------------------------------------------------------
(* Who is between the two swaps has its rank in dynamic_mutex, so nobody   *)
(* else is (fompi_internal.h:326-327).  The types of the variables are     *)
(* part of the invariant.                                                  *)
OneInside == TypeOK /\ \A p \in Proc : pc[p] \in Inside => dynamic_mutex = p

(* A walk never leaves the registered memory: every node is read through   *)
(* its own descriptor, while it is allocated and registered.               *)
ReadsRegistered ==
  \A p \in Proc :
    pc[p] = "element" => /\ current[p] \in allocated \cap registered
                         /\ current_seg[p] = current[p]

(* Equal ids mean equal lists: unless somebody is changing the list or     *)
(* this process is copying it, a copy made at the present dynamic_id is    *)
(* the list, with the descriptors of now.                                  *)
CopyFresh ==
  \A p \in Proc :
    /\ pc[Owner] \notin {"link", "fill", "unlink"} /\ pc[p] \notin {"head", "element"}
    /\ copy_id[p] = dynamic_id
    => remote_mem_regions[p] = [k \in DOMAIN List |-> <<base[List[k]], seg[List[k]]>>]

(* Between changes the list is whole: it ends at dynamic_last, holds just  *)
(* the attached memory, no node of it leaks and no descriptor of it is     *)
(* stale (fompi_win_dynamic_create.c:245-283, by cases).                   *)
ListWhole ==
  pc[Owner] \notin {"fill"} =>
    /\ Range(List) = allocated /\ allocated = registered
    /\ IF List = << >> THEN dynamic_last = NULL
       ELSE /\ dynamic_last = Last(List) /\ next[dynamic_last] = NULL
            /\ win_dynamic_mem_regions_seg = List[1]
            /\ \A k \in 1 .. Len(List) - 1 : next_seg[List[k]] = List[k + 1]
    /\ \A r \in Region :
         {seg[n] : n \in {n \in allocated : base[n] = r}} = {memory[r]} \ {0}

(* An operation on memory that stays attached finds it, by its present     *)
(* registration, though it looks it up in a copy and without the mutex,    *)
(* while the owner may attach and detach other memory.                     *)
AccessCurrent ==
  [][\A p \in Proc : pc[p] = "find" /\ pc'[p] = "idle" => used'[p] = memory[region[p]]]_vars
===========================================================================
