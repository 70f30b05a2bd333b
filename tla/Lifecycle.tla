----------------------------- MODULE Lifecycle -----------------------------
(***************************************************************************)
(* The life of the library and of its windows: foMPI_Init and              *)
(* foMPI_Finalize (fompi_overloaded.c), the uGNI communicator              *)
(* (fompi_comm.c), Win_create, Win_allocate and Win_create_dynamic,        *)
(* Win_fence, Win_free, and the registration and sharing of memory they    *)
(* rest on (fompi_seg.c, fompi_helper.c).                                  *)
(*                                                                         *)
(* What a process owns is a set of resources: memory it allocated,         *)
(* registered with the NIC, exported to or mapped from other processes of  *)
(* its node, completion queues, endpoints.  Collective calls of MPI are    *)
(* counted: a process leaves its k-th when all have entered theirs.  The   *)
(* program opens one window at a time over all processes, and puts in the  *)
(* epochs between fences.  Puts to other nodes are in the network until    *)
(* Deliver; releases of locks and of PSCW epochs are not modelled here.    *)
(***************************************************************************)
EXTENDS Integers, FiniteSets, Sequences

CONSTANTS
  NProc,
  Lives,      \* windows opened one after the other
  Fences,     \* fences on each window
  MaxPuts,    \* puts of a process in one epoch
  Namers,     \* processes that name their window (a bound)
  Scenarios   \* what the programs and the machine look like, see Scenario

Proc == 0 .. NProc - 1
Flavor == {"create", "allocate", "dynamic"}
Layer == {"mpi", "dmapp"}

(* flavors: the call that opens each window; sized: who contributes        *)
(* memory (to a dynamic window: attaches a region); up: the layers the     *)
(* program initialises by itself; nodes: the on-node group of every node,  *)
(* in the order of its communicator.                                       *)
Scenario ==
  [flavors : [1 .. Lives -> Flavor], sized : SUBSET Proc, up : SUBSET Layer,
   nodes : SUBSET Seq(Proc)]

ASSUME BoundsAssumption == NProc \in Nat \ {0} /\ Lives \in Nat /\ Fences \in Nat \ {0}
ASSUME ScenarioAssumption == Scenarios \subseteq Scenario
ASSUME NodesAssumption ==
  \A s \in Scenarios : \A p \in Proc :
    \E n \in s.nodes : /\ \E i \in DOMAIN n : n[i] = p
                       /\ \A m \in s.nodes \ {n} : \A i \in DOMAIN m : m[i] # p

VARIABLES
  scenario,
  pc,
  life, epoch,          \* windows opened so far; fences completed on the last
  entered, enteredNode, \* collectives entered: of all processes, of the node
  layers, need,         \* layers that are up; the need_to_..._finalize flags
  has,                  \* the resources of each process
  attached,             \* regions in the list of a dynamic window
  win_array,            \* win_array (or dynamic_list): what p knows of q's memory
  xpmem_array,          \* the mappings, by node-local rank
  issued,               \* targets of the puts of the current epoch
  net                   \* puts in the network

local == <<layers, need, has, attached>>
collective == <<entered, enteredNode>>
known == <<win_array, xpmem_array>>
vars == <<scenario, pc, life, epoch, collective, local, known, issued, net>>

flavor(p) == scenario.flavors[life[p]]
Sized(p) == p \in scenario.sized
Goto(p, l) == pc' = [pc EXCEPT ![p] = l]

\* r is owned: kind, what of, and whose or which
R(kind, what) == <<kind, what, 0>>
Rs(kind, whats, of) == {<<kind, what, i>> : what \in whats, i \in of}

---------------------------------------------------------------------------
(* Ranks on the node.                                                      *)

OnnodeGroup(p) == CHOOSE n \in scenario.nodes : \E i \in DOMAIN n : n[i] = p
OnnodeSize(p) == Len(OnnodeGroup(p))

\* the ranks follow one another: the bounds say it all, and the list is freed
IsRange(p) == \A i \in 2 .. OnnodeSize(p) : OnnodeGroup(p)[i] = OnnodeGroup(p)[i - 1] + 1
LowerBound(p) == IF IsRange(p) THEN OnnodeGroup(p)[1] ELSE -1
UpperBound(p) == IF IsRange(p) THEN OnnodeGroup(p)[OnnodeSize(p)] ELSE -1

GlobalToLocal(p, grank) ==
  IF LowerBound(p) <= grank /\ grank <= UpperBound(p) THEN grank - LowerBound(p)
  ELSE LET at == {i \in 1 .. OnnodeSize(p) : OnnodeGroup(p)[i] = grank}
       IN IF LowerBound(p) = -1 /\ at # {} THEN (CHOOSE i \in at : TRUE) - 1 ELSE -1
LocalToGlobal(p, lrank) ==
  IF LowerBound(p) # -1 THEN lrank + LowerBound(p) ELSE OnnodeGroup(p)[lrank + 1]

---------------------------------------------------------------------------
(* Collectives of MPI: barriers and all-gathers.                           *)

Enter(p) == entered' = [entered EXCEPT ![p] = @ + 1] /\ UNCHANGED enteredNode
EnterNode(p) == enteredNode' = [enteredNode EXCEPT ![p] = @ + 1] /\ UNCHANGED entered
AllEntered(p) == \A q \in Proc : entered[q] >= entered[p]
NodeEntered(p) ==
  \A i \in 1 .. OnnodeSize(p) : enteredNode[OnnodeGroup(p)[i]] >= enteredNode[p]

---------------------------------------------------------------------------
(* Memory: foMPI registers and exports what others may access.             *)

\* mem_register of every name, and its inverse
Registered(whats) == Rs("reg", whats, {0})
\* export_memory_xpmem; map_memory_xpmem of what node-local rank i exported
Exported(whats) == Rs("export", whats, {0})
MappedFrom(whats, i) == Rs("map", whats, {i})
Heap(whats) == Rs("heap", whats, {0})

Control == {"win_ptr", "exposure"}
Queue == {"notif_queue", "notif_queue_state"}
Attachment(k) == Rs("reg", {"region", "element"}, {k}) \cup Rs("heap", {"element"}, {k})

\* what the library keeps for good, and what it forgets to give back
CommKeeps(p) ==
  Heap({"comm", "endpoints"}) \cup {R("cdm", "comm"), R("cq", "comm")}
    \cup Rs("endpoint", {"comm"}, Proc \ {p})
CommLoses ==
  Heap({"group_ranks of comm", "data_desc_array", "data_desc_ptr"}) \cup {R("mpi", "group of comm")}
\* of the search for the processes of the node; one process alone searches nothing
TopologyLoses ==
  {R("mpi", "glob_info.onnode_group"), R("mpi", "nameComm")}
    \cup IF NProc = 1 THEN {} ELSE Heap({"hashArray", "cliqueInfo"})
Lost(p) ==
  CommLoses \cup TopologyLoses
    \cup Rs("cq", {"destination"}, 1 .. life[p])
    \cup Rs("heap", {"unexpected"}, 1 .. life[p])
    \cup {<<"heap", "base", l>> : l \in
            {l \in 1 .. life[p] : scenario.flavors[l] = "allocate" /\ ~Sized(p)}}
    \cup {<<"heap", "own copy", l>> : l \in
            {l \in 1 .. life[p] : <<"heap", "own copy", l>> \in has[p]}}

---------------------------------------------------------------------------
Init ==
  /\ scenario \in Scenarios
  /\ pc = [p \in Proc |-> "start"]
  /\ life = [p \in Proc |-> 0] /\ epoch = [p \in Proc |-> 0]
  /\ entered = [p \in Proc |-> 0] /\ enteredNode = [p \in Proc |-> 0]
  /\ layers = [p \in Proc |-> scenario.up] /\ need = [p \in Proc |-> {}]
  /\ has = [p \in Proc |-> {}] /\ attached = [p \in Proc |-> {}]
  /\ win_array = [p \in Proc |-> <<>>] /\ xpmem_array = [p \in Proc |-> <<>>]
  /\ issued = [p \in Proc |-> {}] /\ net = {}

(* foMPI_Init up to the all-gather of _foMPI_Comm_create: the layers that  *)
(* are down are initialised and marked; domain and queue are created.      *)
InitLibrary(p) ==
  /\ pc[p] = "start"
  /\ need' = [need EXCEPT ![p] = Layer \ layers[p]]
  /\ layers' = [layers EXCEPT ![p] = @ \cup Layer \cup {"pmi"}]
  /\ has' = [has EXCEPT ![p] = CommLoses \cup TopologyLoses \cup Heap({"comm", "endpoints"})
                                 \cup {R("cdm", "comm"), R("cq", "comm")}]
  /\ Enter(p) /\ Goto(p, "addresses")
  /\ UNCHANGED <<scenario, life, epoch, attached, known, issued, net>>

\* the NIC addresses are there: an endpoint for every other process
BindEndpoints(p) ==
  /\ pc[p] = "addresses" /\ AllEntered(p)
  /\ has' = [has EXCEPT ![p] = @ \cup Rs("endpoint", {"comm"}, Proc \ {p})]
  /\ Enter(p) /\ Goto(p, "bound")
  /\ UNCHANGED <<scenario, life, epoch, layers, need, attached, known, issued, net>>

InitDone(p) ==
  /\ pc[p] = "bound" /\ AllEntered(p)
  /\ Goto(p, "idle")
  /\ UNCHANGED <<scenario, life, epoch, collective, local, known, issued, net>>

---------------------------------------------------------------------------
(* Creation.  Win_allocate allocates the memory first, also when its size  *)
(* is 0; Win_create then sees no size and registers nothing.               *)

CreateStart(p) ==
  /\ pc[p] = "idle" /\ life[p] < Lives
  /\ life' = [life EXCEPT ![p] = @ + 1]
  /\ epoch' = [epoch EXCEPT ![p] = 0]
  /\ LET f == scenario.flavors[life[p] + 1] IN
     /\ has' = [has EXCEPT ![p] = @
          \cup Heap({"win", "group_ranks"})
          \cup {<<"heap", "unexpected", life[p] + 1>>, <<"cq", "destination", life[p] + 1>>}
          \cup (IF f = "allocate" THEN {<<"heap", "base", life[p] + 1>>} ELSE {})
          \cup (IF f = "dynamic" THEN {} ELSE {R("mpi", "onnode_group"), R("mpi", "onnode_comm")})]
     \* MPI_Comm_create is collective
     /\ IF f = "dynamic" THEN UNCHANGED collective /\ Goto(p, "local")
                         ELSE Enter(p) /\ Goto(p, "comm")
  /\ UNCHANGED <<scenario, layers, need, attached, known, issued, net>>

CommCreated(p) ==
  /\ pc[p] = "comm" /\ AllEntered(p)
  /\ Goto(p, "local")
  /\ UNCHANGED <<scenario, life, epoch, collective, local, known, issued, net>>

\* everything others will access is registered and exported before they know
CreateLocal(p) ==
  /\ pc[p] = "local"
  /\ has' = [has EXCEPT ![p] = @
       \cup Heap({"exposure", "access"}) \cup Registered(Control)
       \cup IF flavor(p) = "dynamic" THEN Heap({"dynamic_list"})
            ELSE Heap(Queue \cup {"win_array"}) \cup Exported(Queue \cup Control)
                   \cup (IF IsRange(p) THEN {} ELSE Heap({"onnode_ranks"}))
                   \cup (IF Sized(p) THEN Registered({"base"}) \cup Exported({"base"}) ELSE {})]
  /\ attached' = [attached EXCEPT ![p] = {}]
  /\ Enter(p) /\ Goto(p, "gather")
  /\ UNCHANGED <<scenario, life, epoch, layers, need, known, issued, net>>

\* win_info of a process: the window it is of, and whether it has a base
Info(q) == [life |-> life[q], base |-> flavor(q) # "dynamic" /\ Sized(q)]

\* mutant: a process without memory has nothing to share on the node
GatheredSkips(p) ==
  /\ pc[p] = "gather" /\ AllEntered(p)
  /\ win_array' = [win_array EXCEPT ![p] = [q \in Proc |-> Info(q)]]
  /\ IF flavor(p) = "dynamic" \/ ~Sized(p)
     THEN Goto(p, "open") /\ UNCHANGED <<collective, has>>
     ELSE /\ EnterNode(p) /\ Goto(p, "segments")
          /\ has' = [has EXCEPT ![p] = @ \cup Heap({"xpmem_array"})]
  /\ UNCHANGED <<scenario, life, epoch, layers, need, attached, xpmem_array, issued, net>>

Gathered(p) ==
  /\ pc[p] = "gather" /\ AllEntered(p)
  /\ win_array' = [win_array EXCEPT ![p] = [q \in Proc |-> Info(q)]]
  /\ IF flavor(p) = "dynamic"
     THEN Goto(p, "open") /\ UNCHANGED <<collective, has>>
     ELSE /\ EnterNode(p) /\ Goto(p, "segments")
          /\ has' = [has EXCEPT ![p] = @ \cup Heap({"xpmem_array"})]
  /\ UNCHANGED <<scenario, life, epoch, layers, need, attached, xpmem_array, issued, net>>

\* the size of a mapping is read through LocalToGlobal
Mapped(p) ==
  /\ pc[p] = "segments" /\ NodeEntered(p)
  /\ xpmem_array' = [xpmem_array EXCEPT ![p] = [i \in 1 .. OnnodeSize(p) |->
       [owner |-> OnnodeGroup(p)[i], sizeof |-> LocalToGlobal(p, i - 1),
        base |-> Info(OnnodeGroup(p)[i]).base]]]
  /\ has' = [has EXCEPT ![p] = @ \cup UNION {
       MappedFrom(Control \cup Queue
                    \cup (IF Info(OnnodeGroup(p)[i]).base THEN {"base"} ELSE {}), i - 1) :
         i \in 1 .. OnnodeSize(p)}]
  /\ Goto(p, "open")
  /\ UNCHANGED <<scenario, life, epoch, collective, layers, need, attached, win_array,
                 issued, net>>

---------------------------------------------------------------------------
(* Epochs.  A program puts between its first fence and its last, to memory *)
(* that was there at the first.  Regions of a dynamic window are attached  *)
(* before the first fence and may be detached after the last.              *)

InEpoch(p) == pc[p] = "open" /\ epoch[p] \in 1 .. Fences - 1

Attach(p) ==
  /\ pc[p] = "open" /\ flavor(p) = "dynamic" /\ epoch[p] = 0
  /\ Sized(p) /\ attached[p] = {}
  /\ attached' = [attached EXCEPT ![p] = {1, 2}]
  /\ has' = [has EXCEPT ![p] = @ \cup Attachment(1) \cup Attachment(2)]
  /\ UNCHANGED <<scenario, pc, life, epoch, collective, layers, need, known, issued, net>>

Detach(p, k) ==
  /\ pc[p] = "open" /\ flavor(p) = "dynamic" /\ epoch[p] = Fences
  /\ attached[p] = {1, 2} /\ k \in {1, 2}
  /\ attached' = [attached EXCEPT ![p] = @ \ {k}]
  /\ has' = [has EXCEPT ![p] = @ \ Attachment(k)]
  /\ UNCHANGED <<scenario, pc, life, epoch, collective, layers, need, known, issued, net>>

\* Win_set_name: a name given before is freed
SetName(p) ==
  /\ p \in Namers
  /\ pc[p] = "open" /\ epoch[p] = Fences
  /\ has' = [has EXCEPT ![p] = @ \cup Heap({"name"})]
  /\ UNCHANGED <<scenario, pc, life, epoch, collective, layers, need, attached, known,
                 issued, net>>

CanPut(p, q) ==
  /\ InEpoch(p) /\ q \notin issued[p] /\ Cardinality(issued[p]) < MaxPuts
  /\ Sized(q)
  /\ issued' = [issued EXCEPT ![p] = @ \cup {q}]

\* a store through the mapping of the target's memory
PutOnnode(p, q) ==
  /\ CanPut(p, q) /\ flavor(p) # "dynamic" /\ GlobalToLocal(p, q) # -1
  /\ UNCHANGED <<scenario, pc, life, epoch, collective, local, known, net>>

\* a request; the copy of the target's list of regions is fetched first
PutRemote(p, q) ==
  /\ CanPut(p, q)
  /\ \/ flavor(p) # "dynamic" /\ GlobalToLocal(p, q) = -1 /\ UNCHANGED has
     \/ /\ flavor(p) = "dynamic" /\ attached[q] # {}
        /\ has' = [has EXCEPT ![p] = @ \cup
             {IF q = p THEN <<"heap", "own copy", life[p]>> ELSE <<"heap", "copy", q>>}]
  /\ net' = net \cup {[from |-> p, to |-> q, life |-> life[p], epoch |-> epoch[p],
                       what |-> IF flavor(p) = "dynamic" THEN <<"reg", "region", 1>>
                                                         ELSE R("reg", "base")]}
  /\ UNCHANGED <<scenario, pc, life, epoch, collective, layers, need, attached, known>>

Deliver(r) ==
  /\ r \in net /\ net' = net \ {r}
  /\ UNCHANGED <<scenario, pc, life, epoch, collective, local, known, issued>>

\* Win_fence: flush_all, then a barrier
Flushed(p) == \A r \in net : r.from # p

\* mutant: a barrier is taken to be enough
FenceNoFlush(p) ==
  /\ pc[p] = "open" /\ epoch[p] < Fences
  /\ flavor(p) = "dynamic" /\ Sized(p) => attached[p] # {}
  /\ Enter(p) /\ Goto(p, "fence")
  /\ UNCHANGED <<scenario, life, epoch, local, known, issued, net>>

FenceFlush(p) ==
  /\ pc[p] = "open" /\ epoch[p] < Fences
  /\ flavor(p) = "dynamic" /\ Sized(p) => attached[p] # {}
  /\ Flushed(p)
  /\ Enter(p) /\ Goto(p, "fence")
  /\ UNCHANGED <<scenario, life, epoch, local, known, issued, net>>
FenceDone(p) ==
  /\ pc[p] = "fence" /\ AllEntered(p)
  /\ epoch' = [epoch EXCEPT ![p] = @ + 1]
  /\ issued' = [issued EXCEPT ![p] = {}]
  /\ Goto(p, "open")
  /\ UNCHANGED <<scenario, life, collective, local, known, net>>

---------------------------------------------------------------------------
(* Win_free: a barrier, everything is given back, another barrier.         *)

FreeStart(p) ==
  /\ pc[p] = "open" /\ epoch[p] = Fences
  /\ Enter(p) /\ Goto(p, "free")
  /\ UNCHANGED <<scenario, life, epoch, local, known, issued, net>>

\* mutant: the registrations of the list's elements are forgotten
FreedRegionsOnly(p) ==
  (UNION {Attachment(k) \ Rs("reg", {"element"}, {k}) : k \in attached[p]})
    \cup Rs("heap", {"copy"}, Proc \ {p})
    \cup Registered(Control) \cup Heap({"exposure", "dynamic_list"})

FreedDynamic(p) ==
  (UNION {Attachment(k) : k \in attached[p]})
    \cup Rs("heap", {"copy"}, Proc \ {p})
    \cup Registered(Control) \cup Heap({"exposure", "dynamic_list"})

FreedShared(p) ==
  (UNION {MappedFrom(Control \cup Queue \cup (IF xpmem_array[p][i].base THEN {"base"} ELSE {}),
                     i - 1) : i \in DOMAIN xpmem_array[p]})
    \cup (IF win_array[p][p].base THEN Registered({"base"}) \cup Exported({"base"}) ELSE {})
    \cup (IF flavor(p) = "allocate" /\ win_array[p][p].base
          THEN {<<"heap", "base", life[p]>>} ELSE {})
    \cup Registered(Control) \cup Exported(Control \cup Queue)
    \cup Heap(Queue \cup {"xpmem_array", "exposure", "win_array"})
    \cup (IF LowerBound(p) = -1 THEN Heap({"onnode_ranks"}) ELSE {})
    \cup {R("mpi", "onnode_group"), R("mpi", "onnode_comm")}

\* mutant: without the first barrier ("TODO: Could this be removed?")
FreeNoBarrier(p) ==
  /\ pc[p] = "free"
  /\ has' = [has EXCEPT ![p] = @
       \ ((IF flavor(p) = "dynamic" THEN FreedDynamic(p) ELSE FreedShared(p))
          \cup Heap({"access", "group_ranks", "name"}))]
  /\ attached' = [attached EXCEPT ![p] = {}]
  /\ Enter(p) /\ Goto(p, "freed")
  /\ UNCHANGED <<scenario, life, epoch, layers, need, known, issued, net>>

FreeLocal(p) ==
  /\ pc[p] = "free" /\ AllEntered(p)
  /\ has' = [has EXCEPT ![p] = @
       \ ((IF flavor(p) = "dynamic" THEN FreedDynamic(p) ELSE FreedShared(p))
          \cup Heap({"access", "group_ranks", "name"}))]
  /\ attached' = [attached EXCEPT ![p] = {}]
  /\ Enter(p) /\ Goto(p, "freed")
  /\ UNCHANGED <<scenario, life, epoch, layers, need, known, issued, net>>

FreeDone(p) ==
  /\ pc[p] = "freed" /\ AllEntered(p)
  /\ has' = [has EXCEPT ![p] = @ \ Heap({"win"})]
  /\ win_array' = [win_array EXCEPT ![p] = <<>>]
  /\ xpmem_array' = [xpmem_array EXCEPT ![p] = <<>>]
  /\ Goto(p, "idle")
  /\ UNCHANGED <<scenario, life, epoch, collective, layers, need, attached, issued, net>>

---------------------------------------------------------------------------
(* foMPI_Finalize: a barrier, the layers the library brought up go down,   *)
(* the communicator waits for its own requests and is taken apart.  PMI    *)
(* is finalised whoever initialised it.                                    *)

FinalizeStart(p) ==
  /\ pc[p] = "idle" /\ life[p] = Lives
  /\ Enter(p) /\ Goto(p, "final")
  /\ UNCHANGED <<scenario, life, epoch, local, known, issued, net>>

FinalizeLayers(p) ==
  /\ pc[p] = "final" /\ AllEntered(p)
  /\ layers' = [layers EXCEPT ![p] = @ \ need[p]]
  /\ need' = [need EXCEPT ![p] = {}]
  /\ Goto(p, "close")
  /\ UNCHANGED <<scenario, life, epoch, collective, has, attached, known, issued, net>>

CommFree(p) ==
  /\ pc[p] = "close" /\ Flushed(p)
  /\ has' = [has EXCEPT ![p] = @ \ CommKeeps(p)]
  /\ layers' = [layers EXCEPT ![p] = @ \ {"pmi"}]
  /\ Goto(p, "done")
  /\ UNCHANGED <<scenario, life, epoch, collective, need, attached, known, issued, net>>

---------------------------------------------------------------------------
LibraryStep(p) ==
  \/ InitLibrary(p) \/ BindEndpoints(p) \/ InitDone(p)
  \/ FinalizeStart(p) \/ FinalizeLayers(p) \/ CommFree(p)
WindowStep(p) ==
  \/ CreateStart(p) \/ CommCreated(p) \/ CreateLocal(p) \/ Gathered(p) \/ Mapped(p)
  \/ FreeStart(p) \/ FreeLocal(p) \/ FreeDone(p)
EpochStep(p) ==
  \/ FenceFlush(p) \/ FenceDone(p)
  \/ SetName(p) \/ Attach(p) \/ \E k \in {1, 2} : Detach(p, k)
  \/ \E q \in Proc : PutOnnode(p, q) \/ PutRemote(p, q)

Finished == (\A p \in Proc : pc[p] = "done") /\ UNCHANGED vars

Next ==
  \/ \E p \in Proc : LibraryStep(p) \/ WindowStep(p) \/ EpochStep(p)
  \/ \E r \in net : Deliver(r)
  \/ Finished

Spec == Init /\ [][Next]_vars

(* Programs go on to the next fence and to Win_free, and the network       *)
(* delivers.                                                               *)
FairSpec ==
  /\ Spec
  /\ \A p \in Proc : WF_vars(LibraryStep(p) \/ WindowStep(p) \/ EpochStep(p))
  /\ WF_vars(\E r \in net : Deliver(r))

---------------------------------------------------------------------------
Label == {"start", "addresses", "bound", "idle", "comm", "local", "gather", "segments",
          "open", "fence", "free", "freed", "final", "close", "done"}

TypeOK ==
  /\ scenario \in Scenarios /\ pc \in [Proc -> Label]
  /\ life \in [Proc -> 0 .. Lives] /\ epoch \in [Proc -> 0 .. Fences]
  /\ layers \in [Proc -> SUBSET (Layer \cup {"pmi"})] /\ need \in [Proc -> SUBSET Layer]
  /\ attached \in [Proc -> SUBSET {1, 2}] /\ issued \in [Proc -> SUBSET Proc]

(* While a process is between the end of Win_create and Win_free it may    *)
(* access every other: the addresses and keys it holds are of this window, *)
(* and what they name is registered; of every process of its node it has a *)
(* mapping, of the right size, at the local rank the code looks it up by,  *)
(* and what is mapped is still exported.  No put in the network is on its  *)
(* way to memory that was given back (fompi_win_create.c:157-244,          *)
(* fompi_win_free.c:16-17: "TODO: Could this be removed?").  The types of  *)
(* the variables are part of the invariant.                                *)
Accessible(q) ==
  Registered(Control \cup IF Info(q).base THEN {"base"} ELSE {}) \subseteq has[q]
Shared(p, q) ==
  LET i == GlobalToLocal(p, q)
      m == xpmem_array[p][i + 1]
      whats == Control \cup Queue \cup IF Info(q).base THEN {"base"} ELSE {}
  IN /\ m.owner = q /\ m.sizeof = q
     /\ MappedFrom(whats, i) \subseteq has[p] /\ Exported(whats) \subseteq has[q]

WindowUsable ==
  /\ TypeOK
  /\ \A p \in Proc : pc[p] \in {"open", "fence"} => \A q \in Proc :
       /\ win_array[p][q] = [life |-> life[p], base |-> Info(q).base]
       /\ life[q] = life[p] /\ Accessible(q)
       /\ flavor(p) # "dynamic" /\ (\E i \in 1 .. OnnodeSize(p) : OnnodeGroup(p)[i] = q)
            => Shared(p, q)
  /\ \A r \in net : life[r.to] = r.life /\ r.what \in has[r.to]

(* A fence separates epochs: when any process is past one, no put issued   *)
(* before it, by anyone, is still in the network (fompi_win_fence.c:13-15).*)
FenceComplete ==
  \A r \in net : \A p \in Proc : life[p] = r.life /\ epoch[p] <= r.epoch

(* Between two windows a process owns exactly what the communicator needs, *)
(* and after foMPI_Finalize nothing, save what the code never gives back,  *)
(* Lost: of each window the destination queue, the head of its list of     *)
(* unexpected notifications (fompi_notif_uq.c:28, not freed at 35-44), the *)
(* block of an empty Win_allocate and the list copied from oneself; of     *)
(* foMPI_Init three arrays and a group of the communicator                 *)
(* (fompi_comm.c:51-59), the communicator and the group of the node        *)
(* (fompi_overloaded.c:114-117) and two arrays of the search for it        *)
(* (findcliques.c:72, 127).  The layers are up that the program brought up *)
(* (fompi_win_free.c, fompi_overloaded.c:176-201, fompi_comm.c:303-413).   *)
NothingLeft ==
  \A p \in Proc :
    /\ pc[p] = "idle" => has[p] = CommKeeps(p) \cup Lost(p)
    /\ pc[p] = "done" => has[p] = Lost(p) /\ layers[p] = scenario.up

(* All collective calls return on all processes: no process waits in one   *)
(* that another, on any path of creation, fence or free, does not make.    *)
CallsReturn == <>(\A p \in Proc : pc[p] = "done")
===========================================================================
