--------------------------- MODULE LibraryProofs ---------------------------
(***************************************************************************)
(* What a process does with the library and with its windows from          *)
(* foMPI_Init to foMPI_Finalize, and what it keeps to itself.              *)
(*                                                                         *)
(* Lifecycle, for any number of processes, windows, fences and puts and    *)
(* any placement of the processes on nodes: an open window is usable by    *)
(* all, a fence separates epochs, and nothing but what the code forgets is *)
(* left.  LocalTables, for any heap and any table sizes: the queue of      *)
(* unexpected notifications is one list whichever way it is walked and     *)
(* implements AbstractUq, and the tables of the Fortran interface give     *)
(* every variable an entry of its own.                                     *)
(***************************************************************************)
EXTENDS Lifecycle, LocalTables, TLAPS, Lemmas

---------------------------------------------------------------------------
(* The life of the library and its windows.                                *)

(* What is known of a process, as a function of the values its variables   *)
(* have: s is the scenario, f its flavors, lab the place of the process,   *)
(* l the windows it has opened, e its epoch, n the collectives it has      *)
(* entered, h what it owns and a the regions it has attached.              *)

\* 1 if the l-th window has the collective of MPI_Comm_create
CommCalls(f, l) == IF f[l] = "dynamic" THEN 0 ELSE 1

\* the collectives from the l-th window to the next; those of foMPI_Init for l = 0
Calls(f, l) == IF l = 0 THEN 2 ELSE CommCalls(f, l) + 3 + Fences

\* those before the l-th window
Earlier(f, l) ==
  IF l = 0 THEN 0
  ELSE 2 + (l - 1) * (3 + Fences) + Cardinality({k \in 1 .. l - 1 : f[k] # "dynamic"})

WithWindow == {"gather", "segments", "open", "fence", "free"}

At(f, lab, l, e, n) ==
  LET b == Earlier(f, l) IN
  /\ lab = "start" => l = 0 /\ n = 0
  /\ lab = "addresses" => l = 0 /\ n = 1
  /\ lab = "bound" => l = 0 /\ n = 2
  /\ lab = "idle" => n = b + Calls(f, l)
  /\ lab \in {"final", "close", "done"} => l = Lives /\ n = b + Calls(f, l) + 1
  /\ lab \in {"comm", "local", "freed"} \cup WithWindow => l > 0
  /\ lab = "comm" => n = b + 1 /\ e = 0 /\ f[l] # "dynamic"
  /\ lab = "local" => n = b + CommCalls(f, l) /\ e = 0
  /\ lab \in {"gather", "segments"} => n = b + CommCalls(f, l) + 1 /\ e = 0
  /\ lab = "segments" => f[l] # "dynamic"
  /\ lab = "open" => n = b + CommCalls(f, l) + 1 + e
  /\ lab = "fence" => n = b + CommCalls(f, l) + 2 + e /\ e < Fences
  /\ lab = "free" => n = b + CommCalls(f, l) + 2 + e /\ e = Fences
  /\ lab = "freed" => n = b + Calls(f, l)

\* a process that waits has not left the last collective it entered
Waits(lab) ==
  IF lab \in {"addresses", "bound", "comm", "gather", "fence", "free", "freed", "final"}
  THEN 1 ELSE 0
Barriers == \A p, q \in Proc : entered[q] >= entered[p] - Waits(pc[p])

\* ls: the layers that are up, ns: those to finalise, mine: those the program initialised
LayersAt(mine, lab, ls, ns) ==
  /\ lab = "start" => ls = mine /\ ns = {}
  /\ lab \notin {"start", "close", "done"} => ls = Layer \cup {"pmi"} /\ ns = Layer \ mine
  /\ lab = "close" => ls = mine \cup {"pmi"} /\ ns = {}
  /\ lab = "done" => ls = mine

\* the on-node group
GroupOf(s, p) == CHOOSE n \in s.nodes : \E i \in DOMAIN n : n[i] = p

\* a region is attached with its element, both or none before the last fence
AttachedAt(lab, e, a) ==
  /\ lab \in {"gather", "segments"} => a = {}
  /\ lab \in {"open", "fence"} /\ e < Fences => a \in {{}, {1, 2}}

\* w and x: what it knows of the others' memory and of the mappings
KnowsAt(s, p, lab, l, w, x) ==
  /\ lab \in {"segments", "open", "fence", "free"} =>
       w = [q \in Proc |-> [life |-> l, base |-> s.flavors[l] # "dynamic" /\ q \in s.sized]]
  /\ lab \in {"open", "fence", "free"} /\ s.flavors[l] # "dynamic" =>
       x = [i \in 1 .. Len(GroupOf(s, p)) |->
             [owner |-> GroupOf(s, p)[i], sizeof |-> GroupOf(s, p)[i],
              base |-> GroupOf(s, p)[i] \in s.sized]]

\* lost for good: see Lost, which has the copies of oneself, too
InitLoses == CommLoses \cup TopologyLoses
Loses(s, p, l) ==
  InitLoses \cup Rs("cq", {"destination"}, 1 .. l) \cup Rs("heap", {"unexpected"}, 1 .. l)
    \cup {<<"heap", "base", k>> : k \in {k \in 1 .. l : s.flavors[k] = "allocate" /\ p \notin s.sized}}
OwnCopies(l) == {<<"heap", "own copy", k>> : k \in 1 .. l}
Keeps(s, p, l) == CommKeeps(p) \cup Loses(s, p, l)

\* of a window: allocated at first, before the others know of it, and mapped
Begun(s, p, l) ==
  Heap({"group_ranks"})
    \cup (IF s.flavors[l] = "allocate" /\ p \in s.sized THEN {<<"heap", "base", l>>} ELSE {})
    \cup (IF s.flavors[l] = "dynamic" THEN {} ELSE {R("mpi", "onnode_group"), R("mpi", "onnode_comm")})
InRange(g) == \A i \in 2 .. Len(g) : g[i] = g[i - 1] + 1
Made(s, p, l) ==
  Heap({"exposure", "access"}) \cup Registered(Control)
    \cup IF s.flavors[l] = "dynamic" THEN Heap({"dynamic_list"})
         ELSE Heap(Queue \cup {"win_array"}) \cup Exported(Queue \cup Control)
                \cup (IF InRange(GroupOf(s, p)) THEN {} ELSE Heap({"onnode_ranks"}))
                \cup (IF p \in s.sized THEN Registered({"base"}) \cup Exported({"base"}) ELSE {})
Names(s, q) == Control \cup Queue \cup IF q \in s.sized THEN {"base"} ELSE {}
Mappings(s, p) ==
  UNION {MappedFrom(Names(s, GroupOf(s, p)[i]), i - 1) : i \in 1 .. Len(GroupOf(s, p))}
Regions(a) == UNION {Attachment(k) : k \in a}
WindowHas(s, p, l, a) ==
  Begun(s, p, l) \cup Made(s, p, l)
    \cup IF s.flavors[l] = "dynamic" THEN Regions(a)
         ELSE Heap({"xpmem_array"}) \cup Mappings(s, p)

\* what a process with an open window may own, too
Spare(s, p, l) ==
  Heap({"name"}) \cup (IF s.flavors[l] = "dynamic" THEN Rs("heap", {"copy"}, Proc \ {p}) ELSE {})

Between(h, least, spare) == least \subseteq h /\ h \subseteq least \cup spare

OwnsAt(s, p, lab, l, h, a) ==
  LET keeps == Keeps(s, p, l)
      kept == keeps \cup Heap({"win"})
  IN
  /\ lab = "start" => h = {}
  /\ lab = "addresses" =>
       h = InitLoses \cup Heap({"comm", "endpoints"}) \cup {R("cdm", "comm"), R("cq", "comm")}
  /\ lab \in {"bound", "idle", "final", "close"} => Between(h, keeps, OwnCopies(l))
  /\ lab \in {"comm", "local"} => Between(h, kept \cup Begun(s, p, l), OwnCopies(l))
  /\ lab = "gather" => Between(h, kept \cup Begun(s, p, l) \cup Made(s, p, l), OwnCopies(l))
  /\ lab = "segments" =>
       Between(h, kept \cup Begun(s, p, l) \cup Made(s, p, l) \cup Heap({"xpmem_array"}), OwnCopies(l))
  /\ lab \in {"open", "fence", "free"} =>
       Between(h, kept \cup WindowHas(s, p, l, a), Spare(s, p, l) \cup OwnCopies(l))
  /\ lab = "freed" => Between(h, kept, OwnCopies(l))
  /\ lab = "done" => Between(h, Loses(s, p, l), OwnCopies(l))

\* a put in the network is of the epoch its origin is in, to memory that is there
Pending(r) ==
  /\ r.from \in Proc /\ r.to \in Proc /\ Sized(r.to)
  /\ pc[r.from] = "open" /\ life[r.from] = r.life
  /\ epoch[r.from] = r.epoch /\ r.epoch \in 1 .. Fences - 1
  /\ IF flavor(r.from) = "dynamic"
     THEN r.what = <<"reg", "region", 1>> /\ attached[r.to] = {1, 2}
     ELSE r.what = R("reg", "base")

LifeTypes ==
  /\ TypeOK /\ entered \in [Proc -> Nat]
  /\ DOMAIN has = Proc /\ DOMAIN win_array = Proc /\ DOMAIN xpmem_array = Proc

Counting == \A p \in Proc : At(scenario.flavors, pc[p], life[p], epoch[p], entered[p])
Layering == \A p \in Proc : LayersAt(scenario.up, pc[p], layers[p], need[p])
Attaching == \A p \in Proc : AttachedAt(pc[p], epoch[p], attached[p])
Knowing == \A p \in Proc : KnowsAt(scenario, p, pc[p], life[p], win_array[p], xpmem_array[p])
Owning == \A p \in Proc : OwnsAt(scenario, p, pc[p], life[p], has[p], attached[p])
InNetwork == \A r \in net : Pending(r)

LifeInv ==
  LifeTypes /\ Counting /\ Barriers /\ Layering /\ Attaching /\ Knowing /\ Owning /\ InNetwork

\* there are finitely many windows before the l-th, so the count is a number
LEMMA EarlierType ==
  ASSUME NEW f \in [1 .. Lives -> Flavor], NEW l \in 0 .. Lives
  PROVE  /\ Earlier(f, l) \in Nat
         /\ IsFiniteSet({k \in 1 .. l - 1 : f[k] # "dynamic"})
<1>1. Lives \in Nat /\ Fences \in Nat \ {0} BY BoundsAssumption
<1> DEFINE S == {k \in 1 .. l - 1 : f[k] # "dynamic"}
<1>2. IsFiniteSet(S)
  <2>1. IsFiniteSet(1 .. l - 1) BY <1>1, FS_Interval
  <2> QED BY <2>1, FS_Subset
<1>3. Cardinality(S) \in Nat BY <1>2, FS_CardinalityType
<1> HIDE DEF S
<1>4. CASE l = 0 BY <1>4, <1>2 DEF Earlier, S
<1>5. CASE l # 0
  <2> DEFINE c == 3 + Fences
             a == (l - 1) * c
  <2>1. l - 1 \in Nat /\ c \in Nat BY <1>1, <1>5
  <2>2. a \in Nat BY <2>1
  <2> HIDE DEF a, c
  <2>3. 2 + a + Cardinality(S) \in Nat BY <2>2, <1>3
  <2> QED BY <2>3, <1>2, <1>5 DEF Earlier, S, a, c
<1> QED BY <1>4, <1>5

(* Each window has so many collectives, which is where the next begins.    *)
LEMMA EarlierNext ==
  ASSUME NEW f \in [1 .. Lives -> Flavor], NEW l \in 0 .. Lives - 1
  PROVE  Earlier(f, l + 1) = Earlier(f, l) + Calls(f, l)
<1>1. Lives \in Nat /\ Fences \in Nat \ {0} BY BoundsAssumption
<1>2. CASE l = 0
  <2>1. {k \in 1 .. (l + 1) - 1 : f[k] # "dynamic"} = {} BY <1>2
  <2>2. Cardinality({k \in 1 .. (l + 1) - 1 : f[k] # "dynamic"}) = 0
    BY <2>1, FS_EmptySet
  <2>3. Earlier(f, l + 1) = 2 + ((l + 1) - 1) * (3 + Fences) + 0 BY <1>2, <2>2 DEF Earlier
  <2> QED BY <2>3, <1>2, <1>1 DEF Earlier, Calls
<1>3. CASE l # 0
  <2> DEFINE S == {k \in 1 .. l - 1 : f[k] # "dynamic"}
             T == {k \in 1 .. (l + 1) - 1 : f[k] # "dynamic"}
             c == 3 + Fences
  <2>1. IsFiniteSet(S)
    <3>1. l \in 0 .. Lives BY <1>1
    <3> QED BY <3>1, EarlierType
  <2>2. Cardinality(S) \in Nat BY <2>1, FS_CardinalityType
  <2>3. Cardinality(T) = Cardinality(S) + CommCalls(f, l)
    <3>1. CASE f[l] = "dynamic"
      <4>1. T = S BY <1>1, <1>3, <3>1
      <4> HIDE DEF S, T
      <4> QED BY <4>1, <3>1, <2>2 DEF CommCalls
    <3>2. CASE f[l] # "dynamic"
      <4>1. T = S \cup {l} /\ l \notin S BY <1>1, <1>3, <3>2
      <4>2. Cardinality(S \cup {l}) = Cardinality(S) + 1 BY <4>1, <2>1, FS_AddElement
      <4> HIDE DEF S, T
      <4> QED BY <4>1, <4>2, <3>2, <2>2 DEF CommCalls
    <3> QED BY <3>1, <3>2
  <2>4. CommCalls(f, l) \in Nat BY DEF CommCalls
  <2>5. l * c = (l - 1) * c + c BY <1>1, <1>3
  <2>6. (l - 1) * c \in Nat /\ c \in Nat /\ l * c \in Nat BY <1>1, <1>3
  <2>7. Earlier(f, l) = 2 + (l - 1) * c + Cardinality(S) BY <1>3 DEF Earlier
  <2>8. Earlier(f, l + 1) = 2 + l * c + Cardinality(T)
    <3>1. l + 1 # 0 /\ (l + 1) - 1 = l BY <1>1, <1>3
    <3> QED BY <3>1 DEF Earlier
  <2>9. Calls(f, l) = CommCalls(f, l) + c BY <1>1, <1>3, <2>4 DEF Calls
  <2> DEFINE a == (l - 1) * c
             b == l * c
             C == Cardinality(S)
             D == Cardinality(T)
  <2>10. b = a + c /\ a \in Nat /\ c \in Nat /\ C \in Nat /\ D = C + CommCalls(f, l)
    BY <2>2, <2>3, <2>5, <2>6
  <2>11. Earlier(f, l) = 2 + a + C /\ Earlier(f, l + 1) = 2 + b + D BY <2>7, <2>8
  <2> HIDE DEF a, b, c, C, D, S, T
  <2> QED BY <2>4, <2>9, <2>10, <2>11
<1> QED BY <1>2, <1>3

\* a later window begins no earlier
LEMMA EarlierMonotone ==
  ASSUME NEW f \in [1 .. Lives -> Flavor], NEW l \in 0 .. Lives, NEW m \in 0 .. Lives, l <= m
  PROVE  Earlier(f, l) <= Earlier(f, m)
<1>1. Lives \in Nat /\ Fences \in Nat \ {0} BY BoundsAssumption
<1>2. CASE l = 0
  <2>1. Earlier(f, l) = 0 /\ Earlier(f, m) \in Nat BY <1>2, EarlierType DEF Earlier
  <2> QED BY <2>1
<1>3. CASE l # 0
  <2> DEFINE S == {k \in 1 .. l - 1 : f[k] # "dynamic"}
             T == {k \in 1 .. m - 1 : f[k] # "dynamic"}
             c == 3 + Fences
             a == (l - 1) * c
             b == (m - 1) * c
             C == Cardinality(S)
             D == Cardinality(T)
  <2>1. IsFiniteSet(S) /\ IsFiniteSet(T) BY <1>1, EarlierType
  <2>2. S \subseteq T BY <1>1
  <2>3. C \in Nat /\ D \in Nat /\ C <= D
    <3> HIDE DEF S, T
    <3> QED BY <2>1, <2>2, FS_Subset, FS_CardinalityType
  <2>4. a \in Nat /\ b \in Nat /\ a <= b
    <3>1. l - 1 \in Nat /\ m - 1 \in Nat /\ l - 1 <= m - 1 /\ c \in Nat BY <1>1, <1>3
    <3> DEFINE u == l - 1
               v == m - 1
    <3>2. v = u + (v - u) /\ v - u \in Nat BY <3>1
    <3>3. u \in Nat /\ v \in Nat /\ c \in Nat BY <3>1
    <3>4. a = u * c /\ b = v * c OBVIOUS
    <3> HIDE DEF u, v, c, a, b
    <3>5. v * c = u * c + (v - u) * c BY <3>2, <3>3
    <3>6. u * c \in Nat /\ (v - u) * c \in Nat /\ v * c \in Nat BY <3>2, <3>3
    <3> QED BY <3>4, <3>5, <3>6
  <2>5. Earlier(f, l) = 2 + a + C BY <1>3 DEF Earlier
  <2>6. Earlier(f, m) = 2 + b + D
    <3>1. m # 0 BY <1>1, <1>3
    <3> QED BY <3>1 DEF Earlier
  <2> HIDE DEF a, b, C, D
  <2> QED BY <2>3, <2>4, <2>5, <2>6
<1> QED BY <1>2, <1>3

(* No collective of a window comes before the last of an earlier one.      *)
LEMMA EarlierGrows ==
  ASSUME NEW f \in [1 .. Lives -> Flavor], NEW l \in 0 .. Lives, NEW m \in 0 .. Lives, l < m
  PROVE  Earlier(f, l) + Calls(f, l) <= Earlier(f, m)
<1>1. Lives \in Nat BY BoundsAssumption
<1>2. l \in 0 .. Lives - 1 /\ l + 1 \in 0 .. Lives /\ l + 1 <= m BY <1>1
<1>3. Earlier(f, l + 1) <= Earlier(f, m) BY <1>2, EarlierMonotone
<1> QED BY <1>2, <1>3, EarlierNext

\* what a window adds to the count
LEMMA CallsType ==
  ASSUME NEW f, NEW l \in 0 .. Lives
  PROVE  Calls(f, l) \in Nat /\ CommCalls(f, l) \in {0, 1} /\ (l > 0 => Calls(f, l) = CommCalls(f, l) + 3 + Fences)
<1> QED BY BoundsAssumption DEF Calls, CommCalls

\* the types of a scenario
LEMMA ScenarioTypes ==
  ASSUME NEW s \in Scenarios
  PROVE  s.flavors \in [1 .. Lives -> Flavor] /\ s.sized \subseteq Proc /\ s.up \subseteq Layer
           /\ s.nodes \subseteq Seq(Proc)
<1> QED BY ScenarioAssumption DEF Scenario

---------------------------------------------------------------------------
(* A step of a process changes only its own variables, and the network.    *)
LEMMA StepFrame ==
  ASSUME LifeTypes, NEW p \in Proc, LibraryStep(p) \/ WindowStep(p) \/ EpochStep(p)
  PROVE  /\ scenario' = scenario
         /\ \A q \in Proc \ {p} :
              /\ pc'[q] = pc[q] /\ life'[q] = life[q] /\ epoch'[q] = epoch[q]
              /\ entered'[q] = entered[q] /\ layers'[q] = layers[q] /\ need'[q] = need[q]
              /\ has'[q] = has[q] /\ attached'[q] = attached[q]
              /\ win_array'[q] = win_array[q] /\ xpmem_array'[q] = xpmem_array[q]
<1> USE DEF LifeTypes, TypeOK
<1> USE DEF Goto, Enter, EnterNode, known, local, collective
<1>1. CASE LibraryStep(p)
  BY <1>1 DEF LibraryStep, InitLibrary, BindEndpoints, InitDone, FinalizeStart,
              FinalizeLayers, CommFree
<1>2. CASE CreateStart(p) BY <1>2 DEF CreateStart
<1>3. CASE CommCreated(p) \/ CreateLocal(p) BY <1>3 DEF CommCreated, CreateLocal
<1>4. CASE Gathered(p) BY <1>4 DEF Gathered
<1>5. CASE Mapped(p) BY <1>5 DEF Mapped
<1>6. CASE FreeStart(p) BY <1>6 DEF FreeStart
<1>8. CASE FreeLocal(p)
  <2> DEFINE freed == (IF flavor(p) = "dynamic" THEN FreedDynamic(p) ELSE FreedShared(p))
                        \cup Heap({"access", "group_ranks", "name"})
  <2>1. has' = [has EXCEPT ![p] = @ \ freed] BY <1>8 DEF FreeLocal
  <2> HIDE DEF freed
  <2>2. \A q \in Proc \ {p} : has'[q] = has[q] BY <2>1
  <2> QED BY <1>8, <2>2 DEF FreeLocal
<1>9. CASE FreeDone(p) BY <1>9 DEF FreeDone
<1>7. CASE EpochStep(p)
  <2>1. CASE FenceFlush(p) \/ FenceDone(p) BY <2>1 DEF FenceFlush, FenceDone
  <2>2. CASE SetName(p) \/ Attach(p) BY <2>2 DEF SetName, Attach
  <2>3. CASE \E k \in {1, 2} : Detach(p, k) BY <2>3 DEF Detach
  <2>4. CASE \E q \in Proc : PutOnnode(p, q) BY <2>4 DEF PutOnnode
  <2>5. CASE \E q \in Proc : PutRemote(p, q) BY <2>5 DEF PutRemote
  <2> QED BY <1>7, <2>1, <2>2, <2>3, <2>4, <2>5 DEF EpochStep
<1> QED BY <1>1, <1>2, <1>3, <1>4, <1>5, <1>6, <1>7, <1>8, <1>9 DEF WindowStep

---------------------------------------------------------------------------
(* Barriers: where the others are.                                         *)

\* the numbers that belong to a process
LEMMA CountOf ==
  ASSUME LifeTypes, Counting, NEW p \in Proc
  PROVE  /\ scenario.flavors \in [1 .. Lives -> Flavor] /\ life[p] \in 0 .. Lives
         /\ epoch[p] \in 0 .. Fences /\ entered[p] \in Nat /\ pc[p] \in Label
         /\ Earlier(scenario.flavors, life[p]) \in Nat
         /\ Calls(scenario.flavors, life[p]) \in Nat
         /\ CommCalls(scenario.flavors, life[p]) \in {0, 1}
         /\ life[p] > 0 => Calls(scenario.flavors, life[p])
                             = CommCalls(scenario.flavors, life[p]) + 3 + Fences
         /\ At(scenario.flavors, pc[p], life[p], epoch[p], entered[p])
<1>1. scenario.flavors \in [1 .. Lives -> Flavor] BY ScenarioTypes DEF LifeTypes, TypeOK
<1>2. life[p] \in 0 .. Lives BY DEF LifeTypes, TypeOK
<1> QED BY <1>1, <1>2, EarlierType, CallsType DEF LifeTypes, TypeOK, Counting

\* a process with a window does not count as entered what others have not
LEMMA Counts ==
  ASSUME LifeTypes, Counting, NEW p \in Proc
  PROVE  LET b == Earlier(scenario.flavors, life[p])
             w == Calls(scenario.flavors, life[p])
         IN /\ entered[p] <= b + w + 1
            /\ life[p] < Lives => entered[p] <= b + w
            /\ life[p] > 0 => b <= entered[p] - Waits(pc[p])
<1>1. Lives \in Nat /\ Fences \in Nat \ {0} BY BoundsAssumption
<1> DEFINE f == scenario.flavors
           b == Earlier(f, life[p])
           w == Calls(f, life[p])
           o == CommCalls(f, life[p])
<1>2. /\ life[p] \in 0 .. Lives /\ epoch[p] \in 0 .. Fences /\ entered[p] \in Nat
      /\ b \in Nat /\ w \in Nat /\ o \in {0, 1} /\ pc[p] \in Label
      /\ life[p] > 0 => w = o + 3 + Fences
      /\ At(f, pc[p], life[p], epoch[p], entered[p])
  BY CountOf
<1>3. o = 1 \/ f[life[p]] = "dynamic" BY DEF CommCalls
<1>4. life[p] = 0 => b = 0 /\ w = 2 BY DEF Earlier, Calls
<1> HIDE DEF b, w, o
<1> QED BY <1>1, <1>2, <1>3, <1>4 DEF At, b, w, o, Label, Waits, WithWindow

(* A process that has a window, and whose collective of its creation all   *)
(* have entered, finds all others with the same window; and no other is    *)
(* ahead of a process that is in an epoch.                                 *)
LEMMA WindowLife ==
  ASSUME LifeTypes, Counting, Barriers, NEW p \in Proc, NEW q \in Proc,
         pc[p] \in WithWindow, pc[p] = "gather" => AllEntered(p)
  PROVE  /\ life[q] = life[p] /\ life[p] > 0
         /\ pc[q] \in WithWindow \/ (pc[q] = "freed" /\ pc[p] = "free")
         /\ pc[p] = "open" => epoch[q] <= epoch[p]
<1>1. Lives \in Nat /\ Fences \in Nat \ {0} BY BoundsAssumption
<1> DEFINE f == scenario.flavors
           b == Earlier(f, life[p])
           w == Calls(f, life[p])
           o == CommCalls(f, life[p])
           c == Earlier(f, life[q])
           v == Calls(f, life[q])
<1>2. /\ life[p] \in 0 .. Lives /\ epoch[p] \in 0 .. Fences /\ entered[p] \in Nat
      /\ b \in Nat /\ w \in Nat /\ o \in {0, 1} /\ pc[p] \in Label
      /\ life[p] > 0 => w = o + 3 + Fences
  BY CountOf
<1>16. At(f, pc[p], life[p], epoch[p], entered[p]) /\ f \in [1 .. Lives -> Flavor] BY CountOf
<1>3. /\ life[q] \in 0 .. Lives /\ epoch[q] \in 0 .. Fences /\ entered[q] \in Nat
      /\ c \in Nat /\ v \in Nat /\ pc[q] \in Label
  BY CountOf
<1>17. At(f, pc[q], life[q], epoch[q], entered[q]) BY CountOf
<1> HIDE DEF b, c, v, o, w
<1>4. life[p] > 0 /\ b + o + 1 <= entered[p] /\ entered[p] <= b + o + 2 + Fences
  <2>1. life[p] > 0 BY <1>16 DEF At
  <2>2. CASE pc[p] \in {"gather", "segments"}
    <3>1. entered[p] = b + o + 1 BY <1>16, <2>2 DEF At, b, o
    <3> QED BY <1>1, <1>2, <2>1, <3>1
  <2>3. CASE pc[p] = "open"
    <3>1. entered[p] = b + o + 1 + epoch[p] BY <1>16, <2>3 DEF At, b, o
    <3> QED BY <1>1, <1>2, <2>1, <3>1
  <2>4. CASE pc[p] \in {"fence", "free"}
    <3>1. entered[p] = b + o + 2 + epoch[p] BY <1>16, <2>4 DEF At, b, o
    <3> QED BY <1>1, <1>2, <2>1, <3>1
  <2> QED BY <2>2, <2>3, <2>4 DEF WithWindow
<1>5. entered[q] >= b + o + 1
  <2>1. entered[q] >= entered[p] - Waits(pc[p]) BY DEF Barriers
  <2>2. CASE pc[p] = "gather"
    <3>1. entered[q] >= entered[p] BY <2>2 DEF AllEntered
    <3> QED BY <3>1, <1>2, <1>3, <1>4
  <2>3. CASE pc[p] \in {"segments", "open"}
    <3>1. Waits(pc[p]) = 0 BY <2>3 DEF Waits
    <3> QED BY <2>1, <3>1, <1>2, <1>3, <1>4
  <2>4. CASE pc[p] \in {"fence", "free"}
    <3>1. Waits(pc[p]) = 1 BY <2>4 DEF Waits
    <3>2. entered[p] >= b + o + 2 BY <2>4, <1>2, <1>4, <1>16 DEF At, b, o
    <3> QED BY <2>1, <3>1, <3>2, <1>2, <1>3, <1>4
  <2> QED BY <2>2, <2>3, <2>4 DEF WithWindow
<1>6. entered[p] >= entered[q] - Waits(pc[q]) BY DEF Barriers
<1>7. Waits(pc[q]) \in {0, 1} BY DEF Waits
<1>8. life[q] >= life[p]
  <2>1. SUFFICES ASSUME life[q] < life[p] PROVE FALSE BY <1>2, <1>3
  <2>2. c + v <= b BY <2>1, <1>2, <1>3, <1>16, EarlierGrows DEF b, c, v, w
  <2>3. entered[q] <= c + v
    <3>1. life[q] < Lives BY <2>1, <1>1, <1>2, <1>3
    <3> QED BY <3>1, Counts DEF c, v
  <2> QED BY <2>2, <2>3, <1>2, <1>3, <1>5
<1>9. life[q] <= life[p]
  <2>1. SUFFICES ASSUME life[p] < life[q] PROVE FALSE BY <1>2, <1>3
  <2>2. b + w <= c BY <2>1, <1>2, <1>3, <1>16, EarlierGrows DEF b, c, v, w
  <2>3. c <= entered[q] - Waits(pc[q])
    <3>1. life[q] > 0 BY <2>1, <1>2, <1>3
    <3> QED BY <3>1, Counts DEF c, v
  <2> QED BY <2>2, <2>3, <1>1, <1>2, <1>3, <1>4, <1>6, <1>7
<1>10. life[q] = life[p] BY <1>2, <1>3, <1>8, <1>9
<1>11. c = b /\ v = w BY <1>10 DEF b, c, v, w
<1>12. CommCalls(f, life[q]) = o /\ (f[life[q]] # "dynamic" => o = 1) BY <1>10 DEF CommCalls, o
<1>13. At(f, pc[q], life[q], epoch[q], entered[q]) /\ c = Earlier(f, life[q])
         /\ v = Calls(f, life[q]) BY <1>17 DEF c, v
<1>14. pc[q] \in WithWindow \/ (pc[q] = "freed" /\ pc[p] = "free")
  <2>1. pc[q] \notin {"start", "addresses", "bound"}
    BY <1>1, <1>3, <1>4, <1>10, <1>17 DEF At
  <2>2. pc[q] \notin {"idle", "final", "close", "done"}
    <3>1. pc[q] = "idle" => entered[q] = b + w /\ Waits(pc[q]) = 0
      BY <1>13, <1>11 DEF At, Waits
    <3>2. pc[q] \in {"final", "close", "done"} => entered[q] = b + w + 1
      BY <1>13, <1>11 DEF At
    <3>3. w = o + 3 + Fences BY <1>2, <1>4
    <3>4. pc[q] # "idle" => entered[q] < b + w + 1
      <4>1. entered[q] <= entered[p] + 1 BY <1>2, <1>3, <1>6, <1>7
      <4>2. /\ b \in Nat /\ o \in {0, 1} /\ Fences \in Nat /\ entered[p] \in Nat
            /\ entered[q] \in Nat /\ entered[p] <= b + o + 2 + Fences
        BY <1>1, <1>2, <1>3, <1>4
      <4> QED BY <4>1, <4>2, <3>3
    <3>5. pc[q] = "idle" => entered[q] < b + w
      BY <3>1, <3>3, <1>1, <1>2, <1>3, <1>4, <1>6
    <3> QED BY <3>1, <3>2, <3>4, <3>5, <1>2, <1>3
  <2>3. pc[q] \notin {"comm", "local"}
    <3>1. pc[q] \in {"comm", "local"} => entered[q] = b + o
      BY <1>13, <1>12, <1>11, <1>2, <1>3 DEF At
    <3> QED BY <3>1, <1>2, <1>3, <1>5
  <2>4. pc[q] = "freed" => pc[p] = "free"
    <3>1. pc[q] = "freed" => entered[q] = b + w /\ Waits(pc[q]) = 1
      BY <1>13, <1>11 DEF At, Waits
    <3>2. pc[p] # "free" => entered[p] <= b + o + 1 + Fences
      BY <1>1, <1>2, <1>16 DEF At, WithWindow, b, o
    <3>3. w = o + 3 + Fences BY <1>2, <1>4
    <3>4. pc[q] = "freed" => entered[p] >= b + w - 1 BY <3>1, <1>2, <1>3, <1>6
    <3>5. b \in Nat /\ o \in {0, 1} /\ Fences \in Nat /\ entered[p] \in Nat BY <1>1, <1>2
    <3> QED BY <3>2, <3>3, <3>4, <3>5
  <2> QED BY <2>1, <2>2, <2>3, <2>4, <1>3 DEF Label, WithWindow
<1>15. ASSUME pc[p] = "open" PROVE epoch[q] <= epoch[p]
  <2>1. entered[p] = b + o + 1 + epoch[p] BY <1>15, <1>2, <1>16 DEF At, b, o
  <2>2. pc[q] \in WithWindow BY <1>15, <1>14
  <2>3. CASE pc[q] \in {"gather", "segments"}
    <3>1. epoch[q] = 0 BY <2>3, <1>3, <1>17 DEF At
    <3> QED BY <3>1, <1>1, <1>2
  <2>4. CASE pc[q] = "open"
    <3>1. entered[q] = b + o + 1 + epoch[q] /\ Waits(pc[q]) = 0
      BY <2>4, <1>11, <1>12, <1>13 DEF At, Waits
    <3> QED BY <3>1, <2>1, <1>2, <1>3, <1>6
  <2>5. CASE pc[q] \in {"fence", "free"}
    <3>1. entered[q] = b + o + 2 + epoch[q] /\ Waits(pc[q]) = 1
      BY <2>5, <1>11, <1>12, <1>13 DEF At, Waits
    <3> QED BY <3>1, <2>1, <1>2, <1>3, <1>6
  <2> QED BY <2>2, <2>3, <2>4, <2>5 DEF WithWindow
<1> QED BY <1>4, <1>10, <1>14, <1>15

---------------------------------------------------------------------------
(* Types and counts are kept.                                              *)

\* a step keeps the types
LEMMA LifeTypesKept ==
  ASSUME LifeTypes, Counting, NEW p \in Proc, LibraryStep(p) \/ WindowStep(p) \/ EpochStep(p)
  PROVE  LifeTypes'
<1>1. Lives \in Nat /\ Fences \in Nat \ {0} BY BoundsAssumption
<1>2. scenario.up \subseteq Layer BY ScenarioTypes DEF LifeTypes, TypeOK
<1> USE DEF LifeTypes, TypeOK, Label, Goto, Enter, EnterNode, known, local, collective
<1>3. CASE LibraryStep(p)
  BY <1>3 DEF LibraryStep, InitLibrary, BindEndpoints, InitDone, FinalizeStart,
              FinalizeLayers, CommFree
<1>4. CASE CreateStart(p) BY <1>1, <1>4 DEF CreateStart
<1>5. CASE CommCreated(p) \/ CreateLocal(p) BY <1>5 DEF CommCreated, CreateLocal
<1>6. CASE Gathered(p) BY <1>6 DEF Gathered
<1>7. CASE Mapped(p) BY <1>7 DEF Mapped
<1>8. CASE FreeStart(p) BY <1>8 DEF FreeStart
<1>15. CASE FreeDone(p)
  <2>1. DOMAIN has' = Proc BY <1>15 DEF FreeDone
  <2>2. DOMAIN win_array' = Proc BY <1>15 DEF FreeDone
  <2>3. DOMAIN xpmem_array' = Proc BY <1>15 DEF FreeDone
  <2> QED BY <2>1, <2>2, <2>3, <1>15 DEF FreeDone
<1>9. CASE FreeLocal(p)
  <2> DEFINE freed == (IF flavor(p) = "dynamic" THEN FreedDynamic(p) ELSE FreedShared(p))
                        \cup Heap({"access", "group_ranks", "name"})
  <2>1. has' = [has EXCEPT ![p] = @ \ freed] BY <1>9 DEF FreeLocal
  <2> HIDE DEF freed
  <2>2. DOMAIN has' = Proc BY <2>1
  <2> QED BY <1>9, <2>2 DEF FreeLocal
<1>10. CASE FenceFlush(p) BY <1>10 DEF FenceFlush
<1>14. CASE FenceDone(p)
  <2>1. epoch[p] + 1 \in 0 .. Fences
    <3>1. pc[p] = "fence" BY <1>14 DEF FenceDone
    <3> QED BY <1>1, <3>1 DEF Counting, At
  <2> QED BY <2>1, <1>14 DEF FenceDone
<1>11. CASE SetName(p) \/ Attach(p) \/ \E k \in {1, 2} : Detach(p, k)
  BY <1>11 DEF SetName, Attach, Detach
<1>12. CASE \E q \in Proc : PutOnnode(p, q)
  BY <1>12 DEF PutOnnode, CanPut
<1>13. CASE \E q \in Proc : PutRemote(p, q)
  <2> PICK q \in Proc : PutRemote(p, q) BY <1>13
  <2>1. issued' \in [Proc -> SUBSET Proc] BY DEF PutRemote, CanPut
  <2>2. DOMAIN has' = Proc BY DEF PutRemote
  <2> QED BY <2>1, <2>2 DEF PutRemote
<1> QED BY <1>3, <1>4, <1>5, <1>6, <1>7, <1>8, <1>9, <1>10, <1>11, <1>12, <1>13, <1>14, <1>15
        DEF WindowStep, EpochStep

(* Where a step leads, and what it adds to the count.                      *)
LEMMA StepCounts ==
  ASSUME LifeTypes, Counting, NEW p \in Proc, LibraryStep(p) \/ WindowStep(p) \/ EpochStep(p)
  PROVE  /\ At(scenario.flavors, pc'[p], life'[p], epoch'[p], entered'[p])
         /\ entered'[p] \in Nat /\ entered'[p] >= entered[p]
         /\ \/ entered'[p] - Waits(pc'[p]) <= entered[p] - Waits(pc[p])
            \/ AllEntered(p) /\ entered'[p] - Waits(pc'[p]) <= entered[p]
<1> DEFINE f == scenario.flavors
           b == Earlier(f, life[p])
           w == Calls(f, life[p])
           o == CommCalls(f, life[p])
<1>1. Lives \in Nat /\ Fences \in Nat \ {0} BY BoundsAssumption
<1>2. /\ life[p] \in 0 .. Lives /\ epoch[p] \in 0 .. Fences /\ entered[p] \in Nat
      /\ b \in Nat /\ w \in Nat /\ o \in {0, 1} /\ pc[p] \in Label
      /\ life[p] > 0 => w = o + 3 + Fences
  BY CountOf
<1>19. At(f, pc[p], life[p], epoch[p], entered[p]) /\ f \in [1 .. Lives -> Flavor] BY CountOf
<1>3. o = IF f[life[p]] = "dynamic" THEN 0 ELSE 1 BY DEF CommCalls
<1>4. /\ p \in DOMAIN pc /\ p \in DOMAIN life /\ p \in DOMAIN epoch /\ p \in DOMAIN entered
  BY DEF LifeTypes, TypeOK
<1>5. life[p] = 0 => b = 0 /\ w = 2 BY DEF Earlier, Calls
<1> HIDE DEF b, w, o
<1> USE DEF Goto, Enter, EnterNode, known, local, collective
<1>6. CASE InitLibrary(p) \/ BindEndpoints(p) \/ InitDone(p)
  <2>1. CASE InitLibrary(p)
    BY <1>1, <1>2, <1>4, <1>5, <1>19, <2>1 DEF InitLibrary, At, Waits, WithWindow, b, w
  <2>2. CASE BindEndpoints(p)
    BY <1>1, <1>2, <1>4, <1>5, <1>19, <2>2 DEF BindEndpoints, At, Waits, WithWindow, b, w
  <2>3. CASE InitDone(p)
    BY <1>1, <1>2, <1>4, <1>5, <1>19, <2>3 DEF InitDone, At, Waits, WithWindow, b, w
  <2> QED BY <1>6, <2>1, <2>2, <2>3
<1>7. CASE FinalizeStart(p) \/ FinalizeLayers(p) \/ CommFree(p)
  <2>1. CASE FinalizeStart(p)
    BY <1>1, <1>2, <1>4, <1>19, <2>1 DEF FinalizeStart, At, Waits, WithWindow, b, w
  <2>2. CASE FinalizeLayers(p)
    BY <1>1, <1>2, <1>4, <1>19, <2>2 DEF FinalizeLayers, At, Waits, WithWindow, b, w
  <2>3. CASE CommFree(p)
    BY <1>1, <1>2, <1>4, <1>19, <2>3 DEF CommFree, At, Waits, WithWindow, b, w
  <2> QED BY <1>7, <2>1, <2>2, <2>3
<1>8. CASE CreateStart(p)
  <2>1. life[p] \in 0 .. Lives - 1 BY <1>1, <1>2, <1>8 DEF CreateStart
  <2>2. Earlier(f, life[p] + 1) = b + w BY <1>2, <1>19, <2>1, EarlierNext DEF b, w
  <2>3. entered[p] = b + w BY <1>2, <1>8, <1>19 DEF CreateStart, At, b, w
  <2>4. life'[p] = life[p] + 1 /\ epoch'[p] = 0 BY <1>4, <1>8 DEF CreateStart
  <2>5. CASE f[life[p] + 1] = "dynamic"
    <3>1. pc'[p] = "local" /\ entered'[p] = entered[p] BY <1>4, <1>8, <2>5 DEF CreateStart
    <3>2. CommCalls(f, life[p] + 1) = 0 BY <2>5 DEF CommCalls
    <3>3. Waits("local") = 0 /\ Waits(pc[p]) = 0 BY <1>8 DEF Waits, CreateStart
    <3> QED BY <1>2, <2>1, <2>2, <2>3, <2>4, <3>1, <3>2, <3>3 DEF At, WithWindow
  <2>6. CASE f[life[p] + 1] # "dynamic"
    <3>1. pc'[p] = "comm" /\ entered'[p] = entered[p] + 1 BY <1>4, <1>8, <2>6 DEF CreateStart
    <3>3. Waits("comm") = 1 /\ Waits(pc[p]) = 0 BY <1>8 DEF Waits, CreateStart
    <3> QED BY <1>2, <2>1, <2>2, <2>3, <2>4, <2>6, <3>1, <3>3 DEF At, WithWindow
  <2> QED BY <2>5, <2>6
<1>9. CASE CommCreated(p)
  BY <1>1, <1>2, <1>3, <1>4, <1>19, <1>9 DEF CommCreated, At, Waits, WithWindow, b, o
<1>10. CASE CreateLocal(p)
  BY <1>1, <1>2, <1>3, <1>4, <1>19, <1>10 DEF CreateLocal, At, Waits, WithWindow, b, o
<1>11. CASE Gathered(p)
  BY <1>1, <1>2, <1>3, <1>4, <1>19, <1>11 DEF Gathered, flavor, At, Waits, WithWindow, b, o
<1>12. CASE Mapped(p)
  BY <1>1, <1>2, <1>3, <1>4, <1>19, <1>12 DEF Mapped, At, Waits, WithWindow, b, o
<1>13. CASE FreeStart(p)
  <2>1. pc[p] = "open" /\ entered[p] = b + o + 1 + epoch[p] /\ life[p] > 0
    BY <1>2, <1>19, <1>13 DEF FreeStart, At, WithWindow, b, o
  <2>2. /\ pc'[p] = "free" /\ entered'[p] = entered[p] + 1
        /\ life'[p] = life[p] /\ epoch'[p] = epoch[p]
    BY <1>4, <1>13 DEF FreeStart
  <2>3. Waits("free") = 1 /\ Waits("open") = 0 BY DEF Waits
  <2>4. epoch'[p] = Fences BY <2>2, <1>13 DEF FreeStart
  <2>5. /\ entered'[p] = b + o + 2 + epoch'[p] /\ entered'[p] \in Nat
        /\ entered'[p] - 1 <= entered[p] - 0
    BY <1>1, <1>2, <2>1, <2>2
  <2>6. At(scenario.flavors, "free", life'[p], epoch'[p], entered'[p])
    BY <2>1, <2>2, <2>4, <2>5 DEF At, WithWindow, b, o
  <2> QED BY <1>2, <2>1, <2>2, <2>3, <2>5, <2>6
<1>14. CASE FreeLocal(p)
  <2>1. entered[p] = b + w - 1 /\ life[p] > 0 /\ AllEntered(p)
    <3>1. /\ pc[p] = "free" /\ AllEntered(p) /\ life[p] > 0
          /\ entered[p] = b + o + 2 + epoch[p] /\ epoch[p] = Fences
      BY <1>19, <1>14 DEF FreeLocal, At, WithWindow, b, o
    <3> QED BY <1>1, <1>2, <3>1
  <2>2. pc'[p] = "freed" /\ entered'[p] = entered[p] + 1 /\ life'[p] = life[p]
    BY <1>4, <1>14 DEF FreeLocal
  <2>3. Waits("freed") = 1 BY DEF Waits
  <2> QED BY <1>2, <2>1, <2>2, <2>3 DEF At, WithWindow, b, w
<1>15. CASE FreeDone(p)
  BY <1>1, <1>2, <1>4, <1>19, <1>15 DEF FreeDone, At, Waits, WithWindow, b, w
<1>16. CASE FenceFlush(p)
  <2>1. pc[p] = "open" /\ entered[p] = b + o + 1 + epoch[p] /\ life[p] > 0
    BY <1>2, <1>19, <1>16 DEF FenceFlush, At, WithWindow, b, o
  <2>2. /\ pc'[p] = "fence" /\ entered'[p] = entered[p] + 1
        /\ life'[p] = life[p] /\ epoch'[p] = epoch[p]
    BY <1>4, <1>16 DEF FenceFlush
  <2>3. Waits("fence") = 1 /\ Waits("open") = 0 BY DEF Waits
  <2>4. epoch'[p] < Fences BY <1>1, <1>2, <2>2, <1>16 DEF FenceFlush
  <2>5. /\ entered'[p] = b + o + 2 + epoch'[p] /\ entered'[p] \in Nat
        /\ entered'[p] - 1 <= entered[p] - 0
    BY <1>1, <1>2, <2>1, <2>2
  <2>6. At(scenario.flavors, "fence", life'[p], epoch'[p], entered'[p])
    BY <2>1, <2>2, <2>4, <2>5 DEF At, WithWindow, b, o
  <2> QED BY <1>2, <2>1, <2>2, <2>3, <2>5, <2>6
<1>17. CASE FenceDone(p)
  <2>1. /\ pc[p] = "fence" /\ entered[p] = b + o + 2 + epoch[p] /\ life[p] > 0
        /\ AllEntered(p)
    BY <1>2, <1>19, <1>17 DEF FenceDone, At, WithWindow, b, o
  <2>2. /\ pc'[p] = "open" /\ entered'[p] = entered[p]
        /\ life'[p] = life[p] /\ epoch'[p] = epoch[p] + 1
    BY <1>4, <1>17 DEF FenceDone
  <2>3. Waits("open") = 0 BY DEF Waits
  <2>4. entered'[p] = b + o + 1 + epoch'[p] BY <1>1, <1>2, <2>1, <2>2
  <2>5. At(scenario.flavors, "open", life'[p], epoch'[p], entered'[p])
    BY <2>1, <2>2, <2>4 DEF At, WithWindow, b, o
  <2> QED BY <1>2, <2>1, <2>2, <2>3, <2>5
<1>18. CASE \/ SetName(p) \/ Attach(p) \/ \E k \in {1, 2} : Detach(p, k)
            \/ \E q \in Proc : PutOnnode(p, q) \/ PutRemote(p, q)
  <2>1. UNCHANGED <<pc, life, epoch, entered>>
    BY <1>18 DEF SetName, Attach, Detach, PutOnnode, PutRemote
  <2>2. Waits(pc[p]) \in {0, 1} BY DEF Waits
  <2> QED BY <1>2, <1>19, <2>1, <2>2
<1> QED BY <1>6, <1>7, <1>8, <1>9, <1>10, <1>11, <1>12, <1>13, <1>14, <1>15, <1>16, <1>17,
           <1>18 DEF LibraryStep, WindowStep, EpochStep

\* so a step keeps the counts, and no barrier is passed that others have not reached
LEMMA CountingKept ==
  ASSUME LifeTypes, Counting, Barriers, NEW p \in Proc,
         LibraryStep(p) \/ WindowStep(p) \/ EpochStep(p)
  PROVE  Counting' /\ Barriers'
<1>1. scenario' = scenario /\ \A q \in Proc \ {p} :
        /\ pc'[q] = pc[q] /\ life'[q] = life[q] /\ epoch'[q] = epoch[q]
        /\ entered'[q] = entered[q]
  BY StepFrame
<1>2. /\ At(scenario.flavors, pc'[p], life'[p], epoch'[p], entered'[p])
      /\ entered'[p] \in Nat /\ entered'[p] >= entered[p]
      /\ \/ entered'[p] - Waits(pc'[p]) <= entered[p] - Waits(pc[p])
         \/ AllEntered(p) /\ entered'[p] - Waits(pc'[p]) <= entered[p]
  BY StepCounts
<1>3. Counting'
  <2>1. ASSUME NEW q \in Proc
        PROVE  At(scenario.flavors, pc[q], life[q], epoch[q], entered[q])'
    BY <1>1, <1>2 DEF Counting
  <2> QED BY <2>1 DEF Counting
<1>4. \A lab : Waits(lab) \in {0, 1} BY DEF Waits
<1>5. ASSUME NEW q \in Proc, NEW r \in Proc
      PROVE  entered'[r] >= entered'[q] - Waits(pc'[q])
  <2>1. entered[q] \in Nat /\ entered[r] \in Nat /\ entered[p] \in Nat BY DEF LifeTypes
  <2>2. entered[r] >= entered[q] - Waits(pc[q]) BY DEF Barriers
  <2>3. entered'[r] \in Nat /\ entered'[r] >= entered[r] BY <1>1, <1>2, <2>1
  <2>4. CASE q = p
    <3>1. CASE entered'[p] - Waits(pc'[p]) <= entered[p] - Waits(pc[p])
      BY <1>2, <1>4, <2>1, <2>2, <2>3, <2>4, <3>1
    <3>2. CASE AllEntered(p) /\ entered'[p] - Waits(pc'[p]) <= entered[p]
      <4>1. entered[r] >= entered[p] BY <3>2 DEF AllEntered
      <4> QED BY <1>2, <1>4, <2>1, <2>3, <2>4, <3>2, <4>1
    <3> QED BY <1>2, <3>1, <3>2
  <2>5. CASE q # p
    <3>1. entered'[q] = entered[q] /\ pc'[q] = pc[q] BY <1>1, <2>5
    <3> QED BY <1>4, <2>1, <2>2, <2>3, <3>1
  <2> QED BY <2>4, <2>5
<1> QED BY <1>3, <1>5 DEF Barriers

---------------------------------------------------------------------------
(* The regions of dynamic windows and the puts in the network.             *)

\* a step leaves the regions of a dynamic window whole until the last fence
LEMMA AttachingKept ==
  ASSUME LifeTypes, Counting, Attaching, NEW p \in Proc,
         LibraryStep(p) \/ WindowStep(p) \/ EpochStep(p)
  PROVE  Attaching'
<1>1. Fences \in Nat \ {0} BY BoundsAssumption
<1>2. \A q \in Proc \ {p} :
        pc'[q] = pc[q] /\ epoch'[q] = epoch[q] /\ attached'[q] = attached[q]
  BY StepFrame
<1>3. AttachedAt(pc[p], epoch[p], attached[p]) BY DEF Attaching
<1>4. p \in DOMAIN pc /\ p \in DOMAIN epoch /\ p \in DOMAIN attached /\ epoch[p] \in 0 .. Fences
  BY DEF LifeTypes, TypeOK
<1>5. AttachedAt(pc'[p], epoch'[p], attached'[p])
  <2> USE DEF Goto
  <2>1. CASE LibraryStep(p)
    BY <1>4, <2>1 DEF LibraryStep, InitLibrary, BindEndpoints, InitDone, FinalizeStart,
                FinalizeLayers, CommFree, AttachedAt
  <2>2. CASE CreateStart(p) \/ CommCreated(p) BY <1>4, <2>2 DEF CreateStart, CommCreated, AttachedAt
  <2>3. CASE CreateLocal(p) BY <1>4, <2>3 DEF CreateLocal, AttachedAt
  <2>4. CASE Gathered(p) \/ Mapped(p) BY <1>3, <1>4, <2>4 DEF Gathered, Mapped, AttachedAt
  <2>5. CASE FreeStart(p) \/ FreeLocal(p) \/ FreeDone(p)
    BY <1>4, <2>5 DEF FreeStart, FreeLocal, FreeDone, AttachedAt
  <2>6. CASE FenceFlush(p) BY <1>3, <1>4, <2>6 DEF FenceFlush, AttachedAt, local
  <2>7. CASE FenceDone(p)
    <3>1. pc[p] = "fence" /\ epoch[p] < Fences BY <2>7 DEF FenceDone, Counting, At
    <3>2. attached[p] \in {{}, {1, 2}} BY <1>3, <3>1 DEF AttachedAt
    <3> QED BY <1>4, <2>7, <3>2 DEF FenceDone, AttachedAt, local
  <2>8. CASE SetName(p) BY <1>3, <2>8 DEF SetName, AttachedAt
  <2>9. CASE Attach(p) BY <1>4, <2>9 DEF Attach, AttachedAt
  <2>10. CASE \E k \in {1, 2} : Detach(p, k)
    <3>1. pc'[p] = "open" /\ epoch'[p] = Fences BY <2>10 DEF Detach
    <3> QED BY <1>1, <3>1 DEF AttachedAt
  <2>11. CASE \E q \in Proc : PutOnnode(p, q) \/ PutRemote(p, q)
    BY <1>3, <2>11 DEF PutOnnode, PutRemote, AttachedAt, local
  <2> QED BY <2>1, <2>2, <2>3, <2>4, <2>5, <2>6, <2>7, <2>8, <2>9, <2>10, <2>11
          DEF WindowStep, EpochStep
<1>6. ASSUME NEW q \in Proc PROVE AttachedAt(pc[q], epoch[q], attached[q])'
  BY <1>2, <1>5 DEF Attaching
<1> QED BY <1>6 DEF Attaching

\* with a put in the network its origin is in an epoch, and nobody is ahead of it
LEMMA PendingLife ==
  ASSUME LifeTypes, Counting, Barriers, NEW r, Pending(r), NEW q \in Proc
  PROVE  /\ life[q] = r.life /\ epoch[q] <= r.epoch /\ epoch[q] < Fences
         /\ pc[q] \in {"gather", "segments", "open", "fence"}
<1>1. Fences \in Nat \ {0} BY BoundsAssumption
<1>2. /\ r.from \in Proc /\ pc[r.from] = "open" /\ life[r.from] = r.life
      /\ epoch[r.from] = r.epoch /\ r.epoch \in 1 .. Fences - 1
  BY DEF Pending
<1>3. /\ life[q] = life[r.from] /\ epoch[q] <= epoch[r.from] /\ pc[q] \in WithWindow
  BY <1>2, WindowLife DEF WithWindow
<1>4. epoch[q] \in 0 .. Fences BY DEF LifeTypes, TypeOK
<1>5. epoch[q] <= r.epoch /\ epoch[q] < Fences BY <1>1, <1>2, <1>3, <1>4
<1>6. pc[q] # "free" BY <1>1, <1>4, <1>5 DEF Counting, At
<1> QED BY <1>2, <1>3, <1>5, <1>6 DEF WithWindow

\* no step takes away what a put in the network is on its way to
LEMMA PendingKept ==
  ASSUME LifeTypes, Counting, Barriers, Attaching, InNetwork, NEW p \in Proc,
         LibraryStep(p) \/ WindowStep(p) \/ EpochStep(p)
  PROVE  InNetwork'
<1>1. Fences \in Nat \ {0} BY BoundsAssumption
<1>2. /\ scenario' = scenario
      /\ \A q \in Proc \ {p} :
           /\ pc'[q] = pc[q] /\ epoch'[q] = epoch[q] /\ attached'[q] = attached[q]
           /\ life'[q] = life[q]
  BY StepFrame
<1>3. ASSUME NEW r \in net PROVE Pending(r)'
  <2>1. Pending(r) BY DEF InNetwork
  <2>2. /\ r.from \in Proc /\ r.to \in Proc /\ pc[r.from] = "open" /\ life[r.from] = r.life
        /\ epoch[r.from] = r.epoch /\ r.epoch \in 1 .. Fences - 1
    BY <2>1 DEF Pending
  <2>3. /\ epoch[p] < Fences /\ epoch[p] \in 0 .. Fences
        /\ pc[p] \in {"gather", "segments", "open", "fence"}
    BY <2>1, PendingLife DEF LifeTypes, TypeOK
  <2>4. /\ pc'[r.from] = "open" /\ life'[r.from] = life[r.from] /\ epoch'[r.from] = epoch[r.from]
    <3>1. CASE r.from # p BY <1>2, <2>2, <3>1
    <3>2. CASE r.from = p
      <4>1. pc[p] = "open" /\ epoch[p] > 0 BY <1>1, <2>2, <3>2
      <4>2. ~Flushed(p) BY <3>2 DEF Flushed
      <4>3. ~LibraryStep(p)
        BY <4>1 DEF LibraryStep, InitLibrary, BindEndpoints, InitDone, FinalizeStart,
                    FinalizeLayers, CommFree
      <4>4. ~WindowStep(p)
        BY <2>3, <4>1 DEF WindowStep, CreateStart, CommCreated, CreateLocal, Gathered, Mapped,
                          FreeStart, FreeLocal, FreeDone
      <4>5. UNCHANGED <<pc, life, epoch>>
        BY <4>1, <4>2, <4>3, <4>4 DEF EpochStep, FenceFlush, FenceDone, SetName, Attach, Detach,
                                      PutOnnode, PutRemote
      <4> QED BY <2>2, <3>2, <4>5
    <3> QED BY <3>1, <3>2
  <2>5. attached[r.to] = {1, 2} => attached'[r.to] = {1, 2}
    <3>1. CASE r.to # p BY <1>2, <2>2, <3>1
    <3>2. CASE r.to = p
      <4>1. CASE LibraryStep(p)
        BY <2>3, <4>1 DEF LibraryStep, InitLibrary, BindEndpoints, InitDone, FinalizeStart,
                    FinalizeLayers, CommFree
      <4>2. CASE WindowStep(p)
        BY <2>3, <4>2 DEF WindowStep, CreateStart, CommCreated, CreateLocal, Gathered, Mapped,
                          FreeStart, FreeLocal, FreeDone
      <4>3. CASE EpochStep(p)
        <5>1. ~ \E k \in {1, 2} : Detach(p, k) BY <1>1, <2>3 DEF Detach
        <5>2. attached[p] # {} => ~Attach(p) BY DEF Attach
        <5> QED BY <3>2, <4>3, <5>1, <5>2
            DEF EpochStep, FenceFlush, FenceDone, SetName, PutOnnode, PutRemote, local
      <4> QED BY <3>2, <4>1, <4>2, <4>3
    <3> QED BY <3>1, <3>2
  <2> QED BY <1>2, <2>1, <2>2, <2>4, <2>5 DEF Pending, flavor, Sized
<1>4. ASSUME NEW q \in Proc, PutRemote(p, q), NEW r,
             r = [from |-> p, to |-> q, life |-> life[p], epoch |-> epoch[p],
                  what |-> IF flavor(p) = "dynamic" THEN <<"reg", "region", 1>>
                                                    ELSE R("reg", "base")]
      PROVE  Pending(r)'
  <2>1. /\ pc[p] = "open" /\ epoch[p] \in 1 .. Fences - 1 /\ Sized(q)
        /\ UNCHANGED <<scenario, pc, life, epoch, attached>>
        /\ flavor(p) = "dynamic" => attached[q] # {}
    BY <1>4 DEF PutRemote, CanPut, InEpoch
  <2>2. r.from = p /\ r.to = q /\ r.life = life[p] /\ r.epoch = epoch[p] BY <1>4
  <2>3. r.what = IF flavor(p) = "dynamic" THEN <<"reg", "region", 1>> ELSE R("reg", "base")
    BY <1>4
  <2>4. ASSUME flavor(p) = "dynamic" PROVE attached[q] = {1, 2}
    <3>1. attached[q] # {} BY <2>1, <2>4
    <3>2. pc[q] \in WithWindow /\ epoch[q] <= epoch[p] BY <2>1, WindowLife DEF WithWindow
    <3>3. epoch[q] \in 0 .. Fences /\ epoch[q] < Fences
      <4>1. epoch[q] \in 0 .. Fences BY DEF LifeTypes, TypeOK
      <4> QED BY <1>1, <2>1, <3>2, <4>1
    <3>4. pc[q] # "free" BY <3>3 DEF Counting, At
    <3>5. AttachedAt(pc[q], epoch[q], attached[q]) BY DEF Attaching
    <3> QED BY <3>1, <3>2, <3>3, <3>4, <3>5 DEF AttachedAt, WithWindow
  <2> QED BY <2>1, <2>2, <2>3, <2>4 DEF Pending, flavor, Sized
<1>5. CASE \E q \in Proc : PutRemote(p, q)
  <2> PICK q \in Proc : PutRemote(p, q) BY <1>5
  <2>1. net' = net \cup {[from |-> p, to |-> q, life |-> life[p], epoch |-> epoch[p],
                  what |-> IF flavor(p) = "dynamic" THEN <<"reg", "region", 1>>
                                                    ELSE R("reg", "base")]}
    BY DEF PutRemote
  <2>2. ASSUME NEW r \in net' PROVE Pending(r)' BY <1>3, <1>4, <2>1
  <2> QED BY <2>2 DEF InNetwork
<1>6. CASE ~ \E q \in Proc : PutRemote(p, q)
  <2>1. net' = net
    <3>1. CASE LibraryStep(p)
      BY <3>1 DEF LibraryStep, InitLibrary, BindEndpoints, InitDone, FinalizeStart,
                  FinalizeLayers, CommFree
    <3>2. CASE WindowStep(p)
      BY <3>2 DEF WindowStep, CreateStart, CommCreated, CreateLocal, Gathered, Mapped,
                  FreeStart, FreeLocal, FreeDone
    <3>3. CASE EpochStep(p)
      BY <1>6, <3>3 DEF EpochStep, FenceFlush, FenceDone, SetName, Attach, Detach, PutOnnode
    <3> QED BY <3>1, <3>2, <3>3
  <2> QED BY <1>3, <2>1 DEF InNetwork
<1> QED BY <1>5, <1>6

---------------------------------------------------------------------------
(* Layers.                                                                 *)

\* what foMPI_Init brings up foMPI_Finalize takes down
LEMMA LayeringKept ==
  ASSUME LifeTypes, Layering, NEW p \in Proc,
         LibraryStep(p) \/ WindowStep(p) \/ EpochStep(p)
  PROVE  Layering'
<1>1. scenario' = scenario /\ \A q \in Proc \ {p} :
        pc'[q] = pc[q] /\ layers'[q] = layers[q] /\ need'[q] = need[q]
  BY StepFrame
<1> DEFINE mine == scenario.up
<1>2. LayersAt(mine, pc[p], layers[p], need[p]) BY DEF Layering
<1>3. mine \subseteq Layer BY ScenarioTypes DEF LifeTypes, TypeOK
<1>4. p \in DOMAIN pc /\ p \in DOMAIN layers /\ p \in DOMAIN need BY DEF LifeTypes, TypeOK
<1>5. LayersAt(mine, pc'[p], layers'[p], need'[p])
  <2> HIDE DEF mine
  <2> USE DEF Goto
  <2>1. CASE InitLibrary(p)
    <3>1. layers[p] = mine BY <1>2, <2>1 DEF InitLibrary, LayersAt
    <3>2. /\ pc'[p] = "addresses" /\ layers'[p] = layers[p] \cup Layer \cup {"pmi"}
          /\ need'[p] = Layer \ layers[p]
      BY <1>4, <2>1 DEF InitLibrary
    <3> QED BY <1>3, <3>1, <3>2 DEF LayersAt
  <2>2. CASE FinalizeLayers(p)
    <3>1. layers[p] = Layer \cup {"pmi"} /\ need[p] = Layer \ mine
      BY <1>2, <2>2 DEF FinalizeLayers, LayersAt
    <3>2. pc'[p] = "close" /\ layers'[p] = layers[p] \ need[p] /\ need'[p] = {}
      BY <1>4, <2>2 DEF FinalizeLayers
    <3>3. "pmi" \notin Layer BY DEF Layer
    <3> QED BY <1>3, <3>1, <3>2, <3>3 DEF LayersAt
  <2>3. CASE CommFree(p)
    <3>1. layers[p] = mine \cup {"pmi"} BY <1>2, <2>3 DEF CommFree, LayersAt
    <3>2. pc'[p] = "done" /\ layers'[p] = layers[p] \ {"pmi"} BY <1>4, <2>3 DEF CommFree
    <3>3. "pmi" \notin mine BY <1>3 DEF Layer
    <3> QED BY <3>1, <3>2, <3>3 DEF LayersAt
  <2>4. CASE ~InitLibrary(p) /\ ~FinalizeLayers(p) /\ ~CommFree(p)
    <3>1. UNCHANGED <<layers, need>> /\ pc[p] \notin {"start", "close", "done"}
      <4>1. CASE LibraryStep(p)
        BY <2>4, <4>1 DEF LibraryStep, BindEndpoints, InitDone, FinalizeStart, local
      <4>2. CASE WindowStep(p)
        BY <4>2 DEF WindowStep, CreateStart, CommCreated, CreateLocal, Gathered, Mapped,
                    FreeStart, FreeLocal, FreeDone, local
      <4>3. CASE EpochStep(p)
        BY <4>3 DEF EpochStep, FenceFlush, FenceDone, SetName, Attach, Detach, PutOnnode,
                    PutRemote, CanPut, InEpoch, local
      <4> QED BY <4>1, <4>2, <4>3
    <3>2. pc'[p] \notin {"start", "close", "done"}
      <4>1. CASE LibraryStep(p)
        BY <1>4, <2>4, <4>1 DEF LibraryStep, BindEndpoints, InitDone, FinalizeStart, local
      <4>2. CASE WindowStep(p)
        BY <1>4, <4>2 DEF WindowStep, CreateStart, CommCreated, CreateLocal, Gathered, Mapped,
                    FreeStart, FreeLocal, FreeDone, local
      <4>3. CASE EpochStep(p)
        BY <1>4, <3>1, <4>3 DEF EpochStep, FenceFlush, FenceDone, SetName, Attach, Detach,
                    PutOnnode, PutRemote, local
      <4> QED BY <4>1, <4>2, <4>3
    <3> QED BY <1>2, <3>1, <3>2 DEF LayersAt
  <2> QED BY <2>1, <2>2, <2>3, <2>4
<1>6. ASSUME NEW q \in Proc PROVE LayersAt(scenario.up, pc[q], layers[q], need[q])'
  BY <1>1, <1>5 DEF Layering
<1> QED BY <1>6 DEF Layering

---------------------------------------------------------------------------
(* The ranks of the node.                                                  *)

\* every process is in the on-node group of its node
LEMMA GroupFacts ==
  ASSUME LifeTypes, NEW p \in Proc
  PROVE  /\ OnnodeGroup(p) = GroupOf(scenario, p) /\ GroupOf(scenario, p) \in Seq(Proc)
         /\ Len(GroupOf(scenario, p)) \in Nat \ {0}
         /\ DOMAIN GroupOf(scenario, p) = 1 .. Len(GroupOf(scenario, p))
         /\ \A i \in 1 .. Len(GroupOf(scenario, p)) : GroupOf(scenario, p)[i] \in Proc
         /\ \E i \in 1 .. Len(GroupOf(scenario, p)) : GroupOf(scenario, p)[i] = p
<1>1. scenario \in Scenarios BY DEF LifeTypes, TypeOK
<1>2. \E n \in scenario.nodes : \E i \in DOMAIN n : n[i] = p BY <1>1, NodesAssumption
<1>3. OnnodeGroup(p) = GroupOf(scenario, p) BY DEF OnnodeGroup, GroupOf
<1> DEFINE g == GroupOf(scenario, p)
<1>4. g \in scenario.nodes /\ \E i \in DOMAIN g : g[i] = p BY <1>2 DEF GroupOf
<1>5. scenario.nodes \subseteq Seq(Proc) BY <1>1, ScenarioTypes
<1> HIDE DEF g
<1>6. g \in Seq(Proc) BY <1>4, <1>5
<1>7. PICK i \in DOMAIN g : g[i] = p BY <1>4
<1>8. Len(g) \in Nat /\ DOMAIN g = 1 .. Len(g) /\ \A j \in 1 .. Len(g) : g[j] \in Proc
  BY <1>6
<1>9. Len(g) # 0 BY <1>7, <1>8
<1> QED BY <1>3, <1>6, <1>7, <1>8, <1>9 DEF g

\* in a range of ranks the local rank is the distance from the first
LEMMA RangeRanks ==
  ASSUME NEW g \in Seq(Int), InRange(g)
  PROVE  \A i \in 1 .. Len(g) : g[i] = g[1] + (i - 1)
<1> DEFINE m == Len(g)
           F(i) == g[1] + (i - 1)
<1>0. m \in Nat /\ \A i \in 1 .. m : g[i] \in Int BY LenProperties, ElementOfSeq
<1>1. SUFFICES ASSUME NEW n \in 1 .. m, g[n] # F(n) PROVE FALSE OBVIOUS
<1> DEFINE S == {i \in 1 .. m : g[i] # F(i)}
<1>2. S \subseteq Nat /\ n \in S BY <1>0, <1>1
<1>3. PICK i \in S : \A j \in S : i <= j BY <1>2, LeastElement
<1>4. i \in 1 .. m /\ g[i] # F(i) BY <1>3
<1>5. i # 1 BY <1>0, <1>4
<1>6. i - 1 \in 1 .. m /\ i - 1 \notin S /\ i \in 2 .. m BY <1>0, <1>3, <1>4, <1>5
<1>7. g[i - 1] = F(i - 1) BY <1>6
<1>8. g[i] = g[i - 1] + 1 BY <1>6 DEF InRange
<1>9. g[1] \in Int BY <1>0, <1>6
<1> QED BY <1>4, <1>6, <1>7, <1>8, <1>9, <1>0

(* The translations of a rank are the inverse of each other.               *)
LEMMA Translations ==
  ASSUME LifeTypes, NEW p \in Proc
  PROVE  LET g == GroupOf(scenario, p) IN
         /\ \A i \in 1 .. Len(g) : LocalToGlobal(p, i - 1) = g[i]
         /\ \A q \in Proc : (\E i \in 1 .. Len(g) : g[i] = q) =>
              \E i \in 1 .. Len(g) : g[i] = q /\ GlobalToLocal(p, q) = i - 1
         /\ LowerBound(p) = -1 <=> ~InRange(g)
         /\ IsRange(p) <=> InRange(g)
<1> DEFINE g == GroupOf(scenario, p)
           m == Len(g)
<1>0. NProc \in Nat BY BoundsAssumption
<1>1. /\ OnnodeGroup(p) = g /\ g \in Seq(Proc) /\ m \in Nat \ {0}
      /\ \A i \in 1 .. m : g[i] \in Proc
  BY GroupFacts
<1>2. OnnodeSize(p) = m BY <1>1 DEF OnnodeSize
<1>3. IsRange(p) <=> InRange(g) BY <1>1, <1>2 DEF IsRange, InRange
<1>4. \A i \in 1 .. m : g[i] \in Nat BY <1>0, <1>1 DEF Proc
<1> HIDE DEF g, m
<1>5. CASE InRange(g)
  <2>1. \A i \in 1 .. m : g[i] = g[1] + (i - 1)
    <3>1. g \in Seq(Int) BY <1>0, <1>1 DEF Proc
    <3> QED BY <3>1, <1>5, RangeRanks DEF m
  <2>2. 1 \in 1 .. m /\ m \in 1 .. m BY <1>1
  <2>3. LowerBound(p) = g[1] /\ UpperBound(p) = g[m] /\ g[1] \in Nat /\ g[1] # -1
    BY <1>1, <1>2, <1>3, <1>4, <1>5, <2>2 DEF LowerBound, UpperBound
  <2>4. ASSUME NEW i \in 1 .. m PROVE LocalToGlobal(p, i - 1) = g[i]
    <3>1. LocalToGlobal(p, i - 1) = (i - 1) + g[1] BY <2>3 DEF LocalToGlobal
    <3>2. g[i] = g[1] + (i - 1) BY <2>1
    <3> QED BY <1>1, <2>3, <3>1, <3>2
  <2>5. ASSUME NEW q \in Proc, NEW i \in 1 .. m, g[i] = q PROVE GlobalToLocal(p, q) = i - 1
    <3>1. q = g[1] + (i - 1) /\ g[m] = g[1] + (m - 1) BY <2>1, <2>2, <2>5
    <3>2. g[1] <= q /\ q <= g[m] /\ q - g[1] = i - 1 BY <1>1, <2>3, <3>1
    <3> QED BY <2>3, <3>2 DEF GlobalToLocal
  <2> QED BY <1>3, <1>5, <2>3, <2>4, <2>5 DEF g, m
<1>6. CASE ~InRange(g)
  <2>1. LowerBound(p) = -1 /\ UpperBound(p) = -1 BY <1>3, <1>6 DEF LowerBound, UpperBound
  <2>2. ASSUME NEW i \in 1 .. m PROVE LocalToGlobal(p, i - 1) = g[i]
    <3>1. (i - 1) + 1 = i BY <1>1
    <3> QED BY <1>1, <2>1, <3>1 DEF LocalToGlobal
  <2>3. ASSUME NEW q \in Proc, NEW k \in 1 .. m, g[k] = q
        PROVE  \E i \in 1 .. m : g[i] = q /\ GlobalToLocal(p, q) = i - 1
    <3> DEFINE at == {i \in 1 .. OnnodeSize(p) : OnnodeGroup(p)[i] = q}
    <3>1. at = {i \in 1 .. m : g[i] = q} BY <1>1, <1>2
    <3>2. ~(LowerBound(p) <= q /\ q <= UpperBound(p))
      <4>1. q \in Nat BY <1>0 DEF Proc
      <4> QED BY <4>1, <2>1
    <3>3. k \in at BY <2>3, <3>1
    <3>4. GlobalToLocal(p, q) = (CHOOSE i \in at : TRUE) - 1
      BY <2>1, <3>2, <3>3 DEF GlobalToLocal
    <3>5. (CHOOSE i \in at : TRUE) \in at BY <3>3
    <3> QED BY <3>1, <3>4, <3>5
  <2> QED BY <1>3, <1>6, <2>1, <2>2, <2>3 DEF g, m
<1> QED BY <1>5, <1>6

---------------------------------------------------------------------------
(* What a process knows of the others.                                     *)

\* what is gathered and mapped is of the window that all are creating
LEMMA KnowingKept ==
  ASSUME LifeTypes, Counting, Barriers, Knowing, NEW p \in Proc,
         LibraryStep(p) \/ WindowStep(p) \/ EpochStep(p)
  PROVE  Knowing'
<1> DEFINE s == scenario
           w(l) == [q \in Proc |-> [life |-> l, base |-> s.flavors[l] # "dynamic" /\ q \in s.sized]]
           g == GroupOf(s, p)
           x == [i \in 1 .. Len(g) |-> [owner |-> g[i], sizeof |-> g[i], base |-> g[i] \in s.sized]]
<1>1. scenario' = scenario /\ \A q \in Proc \ {p} :
        /\ pc'[q] = pc[q] /\ life'[q] = life[q]
        /\ win_array'[q] = win_array[q] /\ xpmem_array'[q] = xpmem_array[q]
  BY StepFrame
<1>2. KnowsAt(s, p, pc[p], life[p], win_array[p], xpmem_array[p]) BY DEF Knowing
<1>3. /\ p \in DOMAIN pc /\ p \in DOMAIN life /\ p \in DOMAIN win_array /\ p \in DOMAIN xpmem_array
  BY DEF LifeTypes, TypeOK
<1>4. KnowsAt(s, p, pc'[p], life'[p], win_array'[p], xpmem_array'[p])
  <2> USE DEF Goto
  <2>1. CASE Gathered(p)
    <3>1. pc[p] = "gather" /\ AllEntered(p) /\ life'[p] = life[p] BY <2>1 DEF Gathered
    <3>2. \A q \in Proc : life[q] = life[p] BY <3>1, WindowLife DEF WithWindow
    <3>3. win_array'[p] = [q \in Proc |-> Info(q)] BY <1>3, <2>1 DEF Gathered
    <3>4. [q \in Proc |-> Info(q)] = w(life[p]) BY <3>2 DEF Info, flavor, Sized
    <3>5. pc'[p] = IF s.flavors[life[p]] = "dynamic" THEN "open" ELSE "segments"
      BY <1>3, <2>1 DEF Gathered, flavor
    <3>6. win_array'[p] = w(life'[p]) BY <3>1, <3>3, <3>4
    <3> HIDE DEF w
    <3>7. pc'[p] \in {"open", "fence", "free"} => ~(s.flavors[life'[p]] # "dynamic") BY <3>1, <3>5
    <3> QED BY <3>6, <3>7 DEF KnowsAt, w
  <2>2. CASE Mapped(p)
    <3>1. pc[p] = "segments" /\ life'[p] = life[p] /\ pc'[p] = "open" /\ win_array'[p] = win_array[p]
      BY <1>3, <2>2 DEF Mapped
    <3>2. \A q \in Proc : life[q] = life[p] BY <3>1, WindowLife DEF WithWindow
    <3>3. win_array[p] = w(life[p]) BY <1>2, <3>1 DEF KnowsAt
    <3>4. ASSUME s.flavors[life[p]] # "dynamic" PROVE xpmem_array'[p] = x
      <4>1. OnnodeGroup(p) = g /\ OnnodeSize(p) = Len(g) BY GroupFacts DEF OnnodeSize
      <4>2. xpmem_array'[p] = [i \in 1 .. Len(g) |->
              [owner |-> g[i], sizeof |-> LocalToGlobal(p, i - 1), base |-> Info(g[i]).base]]
        BY <1>3, <2>2, <4>1 DEF Mapped
      <4>3. \A i \in 1 .. Len(g) : g[i] \in Proc BY GroupFacts
      <4>4. \A i \in 1 .. Len(g) : LocalToGlobal(p, i - 1) = g[i] BY Translations
      <4>5. \A q \in Proc : Info(q).base = (q \in s.sized) BY <3>2, <3>4 DEF Info, flavor, Sized
      <4> HIDE DEF g
      <4> QED BY <4>2, <4>3, <4>4, <4>5
    <3> HIDE DEF w, x
    <3> QED BY <3>1, <3>3, <3>4 DEF KnowsAt, w, x, g
  <2>3. CASE ~Gathered(p) /\ ~Mapped(p)
    <3> USE DEF known
    <3>1. CASE LibraryStep(p)
      <4>1. pc'[p] \notin {"segments", "open", "fence", "free"}
        BY <1>3, <3>1 DEF LibraryStep, InitLibrary, BindEndpoints, InitDone, FinalizeStart,
                          FinalizeLayers, CommFree
      <4> QED BY <4>1 DEF KnowsAt
    <3>2. CASE CreateStart(p) \/ CommCreated(p) \/ CreateLocal(p) \/ FreeLocal(p) \/ FreeDone(p)
      <4>1. pc'[p] \notin {"segments", "open", "fence", "free"}
        BY <1>3, <3>2 DEF CreateStart, CommCreated, CreateLocal, FreeLocal, FreeDone
      <4> QED BY <4>1 DEF KnowsAt
    <3>3. CASE FreeStart(p) \/ EpochStep(p)
      <4>1. pc[p] \in {"open", "fence"} /\ pc'[p] \in {"open", "fence", "free"}
              /\ UNCHANGED <<life, win_array, xpmem_array>>
        BY <1>3, <3>3 DEF FreeStart, EpochStep, FenceFlush, FenceDone, SetName, Attach, Detach,
                    PutOnnode, PutRemote, CanPut, InEpoch
      <4> QED BY <1>2, <4>1 DEF KnowsAt
    <3> QED BY <2>3, <3>1, <3>2, <3>3 DEF WindowStep
  <2> QED BY <2>1, <2>2, <2>3
<1>5. ASSUME NEW q \in Proc
      PROVE  KnowsAt(scenario, q, pc[q], life[q], win_array[q], xpmem_array[q])'
  BY <1>1, <1>4 DEF Knowing
<1> QED BY <1>5 DEF Knowing

---------------------------------------------------------------------------
(* Resources: what is in the sets of them, told by kind, what and which.   *)

IsResource(x) == x = <<x[1], x[2], x[3]>>
Is(x, kind, whats, of) == IsResource(x) /\ x[1] = kind /\ x[2] \in whats /\ x[3] \in of

\* one resource
LEMMA ResourceIs ==
  ASSUME NEW x, NEW k, NEW w, NEW i
  PROVE  x \in {<<k, w, i>>} <=> Is(x, k, {w}, {i})
<1>1. <<k, w, i>>[1] = k /\ <<k, w, i>>[2] = w /\ <<k, w, i>>[3] = i OBVIOUS
<1>2. x = <<k, w, i>> => Is(x, k, {w}, {i}) BY <1>1 DEF Is, IsResource
<1>3. Is(x, k, {w}, {i}) => x = <<k, w, i>> BY DEF Is, IsResource
<1> QED BY <1>2, <1>3

\* and a set of them
LEMMA RsIs ==
  ASSUME NEW x, NEW k, NEW W, NEW O
  PROVE  x \in Rs(k, W, O) <=> Is(x, k, W, O)
<1>1. ASSUME NEW w \in W, NEW i \in O, x = <<k, w, i>> PROVE Is(x, k, W, O)
  <2>1. x[1] = k /\ x[2] = w /\ x[3] = i BY <1>1
  <2> QED BY <1>1, <2>1 DEF Is, IsResource
<1>2. ASSUME Is(x, k, W, O) PROVE \E w \in W, i \in O : x = <<k, w, i>>
  BY <1>2 DEF Is, IsResource
<1> QED BY <1>1, <1>2 DEF Rs

\* the same thing of the numbers in a set
LEMMA EachIs ==
  ASSUME NEW x, NEW k, NEW w, NEW O
  PROVE  x \in {<<k, w, i>> : i \in O} <=> Is(x, k, {w}, O)
<1>1. {<<k, w, i>> : i \in O} = Rs(k, {w}, O) BY DEF Rs
<1> QED BY <1>1, RsIs

\* a set of resources of two sets of names is both of theirs
LEMMA RsUnion ==
  ASSUME NEW k, NEW W, NEW V, NEW O
  PROVE  Rs(k, W \cup V, O) = Rs(k, W, O) \cup Rs(k, V, O)
<1> SUFFICES ASSUME NEW x
             PROVE  x \in Rs(k, W \cup V, O) <=> x \in Rs(k, W, O) \/ x \in Rs(k, V, O)
  OBVIOUS
<1>1. x \in Rs(k, W \cup V, O) <=> Is(x, k, W \cup V, O) BY RsIs
<1>2. x \in Rs(k, W, O) <=> Is(x, k, W, O) BY RsIs
<1>3. x \in Rs(k, V, O) <=> Is(x, k, V, O) BY RsIs
<1> QED BY <1>1, <1>2, <1>3 DEF Is

\* memory that is allocated, registered or exported under two sets of names
LEMMA NamesUnion ==
  ASSUME NEW W, NEW V
  PROVE  /\ Heap(W \cup V) = Heap(W) \cup Heap(V)
         /\ Registered(W \cup V) = Registered(W) \cup Registered(V)
         /\ Exported(W \cup V) = Exported(W) \cup Exported(V)
<1> DEFINE O == {0}
<1> HIDE DEF O
<1>1. \A k : Rs(k, W \cup V, O) = Rs(k, W, O) \cup Rs(k, V, O) BY RsUnion
<1> QED BY <1>1 DEF Heap, Registered, Exported, O

\* what foMPI_Init loses
Forgotten ==
  {"group_ranks of comm", "data_desc_array", "data_desc_ptr", "hashArray", "cliqueInfo"}
ForgottenByMPI == {"group of comm", "glob_info.onnode_group", "nameComm"}

\* what the library keeps: the communicator's, and what is lost
LEMMA KeptIs ==
  ASSUME NEW s, NEW p, NEW l, NEW x
  PROVE  /\ x \in CommKeeps(p) =>
              \/ Is(x, "heap", {"comm", "endpoints"}, {0})
              \/ IsResource(x) /\ x[1] \in {"cdm", "endpoint"}
              \/ Is(x, "cq", {"comm"}, {0})
         /\ x \in Loses(s, p, l) =>
              \/ Is(x, "heap", Forgotten, {0})
              \/ Is(x, "mpi", ForgottenByMPI, {0})
              \/ Is(x, "cq", {"destination"}, 1 .. l)
              \/ Is(x, "heap", {"unexpected"}, 1 .. l)
              \/ Is(x, "heap", {"base"}, 1 .. l) /\ p \notin s.sized
         /\ x \in OwnCopies(l) => Is(x, "heap", {"own copy"}, 1 .. l)
<1>1. x \in CommKeeps(p) => \/ Is(x, "heap", {"comm", "endpoints"}, {0})
                            \/ IsResource(x) /\ x[1] \in {"cdm", "endpoint"}
                            \/ Is(x, "cq", {"comm"}, {0})
  <2>1. x \in Heap({"comm", "endpoints"}) <=> Is(x, "heap", {"comm", "endpoints"}, {0})
    BY RsIs DEF Heap
  <2>2. x \in Rs("endpoint", {"comm"}, Proc \ {p}) => IsResource(x) /\ x[1] = "endpoint"
    BY RsIs DEF Is
  <2>3. x \in {R("cdm", "comm"), R("cq", "comm")} =>
          (IsResource(x) /\ x[1] = "cdm") \/ Is(x, "cq", {"comm"}, {0})
    BY ResourceIs DEF R, Is
  <2> QED BY <2>1, <2>2, <2>3 DEF CommKeeps
<1>2. x \in InitLoses => Is(x, "heap", Forgotten, {0}) \/ Is(x, "mpi", ForgottenByMPI, {0})
  <2>1. ASSUME NEW W, W \subseteq Forgotten, x \in Heap(W)  PROVE Is(x, "heap", Forgotten, {0})
    <3>1. Is(x, "heap", W, {0}) BY <2>1, RsIs DEF Heap
    <3> QED BY <2>1, <3>1 DEF Is
  <2>2. ASSUME NEW w \in ForgottenByMPI, x = R("mpi", w)  PROVE Is(x, "mpi", ForgottenByMPI, {0})
    <3>1. Is(x, "mpi", {w}, {0}) BY <2>2, ResourceIs DEF R
    <3> QED BY <3>1 DEF Is
  <2>3. \/ x \in Heap({"group_ranks of comm", "data_desc_array", "data_desc_ptr"})
        \/ x \in Heap({"hashArray", "cliqueInfo"})
        \/ \E w \in ForgottenByMPI : x = R("mpi", w)
        \/ x \notin InitLoses
    BY DEF InitLoses, CommLoses, TopologyLoses, ForgottenByMPI
  <2>4. /\ {"group_ranks of comm", "data_desc_array", "data_desc_ptr"} \subseteq Forgotten
        /\ {"hashArray", "cliqueInfo"} \subseteq Forgotten
    BY DEF Forgotten
  <2> QED BY <2>1, <2>2, <2>3, <2>4
<1>3. x \in Rs("cq", {"destination"}, 1 .. l) <=> Is(x, "cq", {"destination"}, 1 .. l) BY RsIs
<1>4. x \in {<<"heap", "base", k>> : k \in {k \in 1 .. l : s.flavors[k] = "allocate" /\ p \notin s.sized}}
        => Is(x, "heap", {"base"}, 1 .. l) /\ p \notin s.sized
  <2> DEFINE O == {k \in 1 .. l : s.flavors[k] = "allocate" /\ p \notin s.sized}
  <2>1. x \in {<<"heap", "base", k>> : k \in O} <=> Is(x, "heap", {"base"}, O) BY EachIs
  <2>2. Is(x, "heap", {"base"}, O) => Is(x, "heap", {"base"}, 1 .. l) /\ p \notin s.sized BY DEF Is
  <2> QED BY <2>1, <2>2
<1>5. x \in OwnCopies(l) <=> Is(x, "heap", {"own copy"}, 1 .. l) BY EachIs DEF OwnCopies
<1>6. x \in Rs("heap", {"unexpected"}, 1 .. l) <=> Is(x, "heap", {"unexpected"}, 1 .. l) BY RsIs
<1> QED BY <1>1, <1>2, <1>3, <1>4, <1>5, <1>6 DEF Loses

\* the regions of a dynamic window
LEMMA RegionsAre ==
  ASSUME NEW x
  PROVE  /\ \A k : x \in Attachment(k) <=>
              Is(x, "reg", {"region", "element"}, {k}) \/ Is(x, "heap", {"element"}, {k})
         /\ \A a : x \in Regions(a) <=>
              Is(x, "reg", {"region", "element"}, a) \/ Is(x, "heap", {"element"}, a)
<1>1. ASSUME NEW k
      PROVE  x \in Attachment(k) <=>
               Is(x, "reg", {"region", "element"}, {k}) \/ Is(x, "heap", {"element"}, {k})
  BY RsIs DEF Attachment
<1>2. ASSUME NEW a
      PROVE  x \in Regions(a) <=>
               Is(x, "reg", {"region", "element"}, a) \/ Is(x, "heap", {"element"}, a)
  <2>1. x \in Regions(a) <=> \E k \in a : x \in Attachment(k) BY DEF Regions
  <2>2. (\E k \in a : x \in Attachment(k)) <=>
          Is(x, "reg", {"region", "element"}, a) \/ Is(x, "heap", {"element"}, a)
    BY <1>1 DEF Is
  <2> QED BY <2>1, <2>2
<1> QED BY <1>1, <1>2

\* what is lost from one window to the next
LEMMA KeepsNext ==
  ASSUME NEW s, NEW p, NEW l \in Nat
  PROVE  /\ Keeps(s, p, l + 1) =
              Keeps(s, p, l)
                \cup {<<"heap", "unexpected", l + 1>>, <<"cq", "destination", l + 1>>}
                \cup (IF s.flavors[l + 1] = "allocate" /\ p \notin s.sized
                      THEN {<<"heap", "base", l + 1>>} ELSE {})
         /\ OwnCopies(l) \subseteq OwnCopies(l + 1)
         /\ Keeps(s, p, 0) = CommKeeps(p) \cup InitLoses
<1>1. 1 .. l + 1 = (1 .. l) \cup {l + 1} OBVIOUS
<1>2. \A k, w : Rs(k, {w}, 1 .. l + 1) = Rs(k, {w}, 1 .. l) \cup {<<k, w, l + 1>>}
  <2> SUFFICES ASSUME NEW k, NEW w, NEW x
               PROVE  x \in Rs(k, {w}, 1 .. l + 1) <=>
                        x \in Rs(k, {w}, 1 .. l) \/ x \in {<<k, w, l + 1>>}
    OBVIOUS
  <2>1. x \in Rs(k, {w}, 1 .. l + 1) <=> Is(x, k, {w}, 1 .. l + 1) BY RsIs
  <2>2. x \in Rs(k, {w}, 1 .. l) <=> Is(x, k, {w}, 1 .. l) BY RsIs
  <2>3. x \in {<<k, w, l + 1>>} <=> Is(x, k, {w}, {l + 1}) BY ResourceIs
  <2> QED BY <1>1, <2>1, <2>2, <2>3 DEF Is
<1>8. /\ Rs("cq", {"destination"}, 1 .. l + 1)
           = Rs("cq", {"destination"}, 1 .. l) \cup {<<"cq", "destination", l + 1>>}
      /\ Rs("heap", {"unexpected"}, 1 .. l + 1)
           = Rs("heap", {"unexpected"}, 1 .. l) \cup {<<"heap", "unexpected", l + 1>>}
  BY <1>2
<1> DEFINE O(n) == {k \in 1 .. n : s.flavors[k] = "allocate" /\ p \notin s.sized}
           B(n) == {<<"heap", "base", k>> : k \in O(n)}
           more == IF s.flavors[l + 1] = "allocate" /\ p \notin s.sized
                   THEN {<<"heap", "base", l + 1>>} ELSE {}
<1>3. B(l + 1) = B(l) \cup more
  <2>1. CASE s.flavors[l + 1] = "allocate" /\ p \notin s.sized
    <3>1. O(l + 1) = O(l) \cup {l + 1} BY <1>1, <2>1
    <3> HIDE DEF O
    <3> QED BY <2>1, <3>1
  <2>2. CASE ~(s.flavors[l + 1] = "allocate" /\ p \notin s.sized)
    <3>1. O(l + 1) = O(l) BY <1>1, <2>2
    <3> QED BY <2>2, <3>1
  <2> QED BY <2>1, <2>2
<1>4. OwnCopies(l) \subseteq OwnCopies(l + 1) BY <1>1 DEF OwnCopies
<1>5. \A n : Keeps(s, p, n) = CommKeeps(p) \cup InitLoses \cup Rs("cq", {"destination"}, 1 .. n)
                               \cup Rs("heap", {"unexpected"}, 1 .. n) \cup B(n)
  BY DEF Keeps, Loses
<1>6. 1 .. 0 = {} OBVIOUS
<1>7. Rs("cq", {"destination"}, 1 .. 0) = {} /\ Rs("heap", {"unexpected"}, 1 .. 0) = {} /\ B(0) = {}
  BY <1>6 DEF Rs
<1> HIDE DEF B, more
<1>9. Keeps(s, p, l + 1) = Keeps(s, p, l)
        \cup {<<"heap", "unexpected", l + 1>>, <<"cq", "destination", l + 1>>} \cup more
  BY <1>3, <1>5, <1>8
<1> QED BY <1>4, <1>5, <1>7, <1>9 DEF more

\* what Win_free gives back
Shut(s, p, l, a) ==
  (IF s.flavors[l] = "dynamic"
   THEN Regions(a) \cup Rs("heap", {"copy"}, Proc \ {p})
          \cup Registered(Control) \cup Heap({"exposure", "dynamic_list"})
   ELSE Mappings(s, p)
          \cup (IF p \in s.sized THEN Registered({"base"}) \cup Exported({"base"}) ELSE {})
          \cup (IF s.flavors[l] = "allocate" /\ p \in s.sized
                THEN {<<"heap", "base", l>>} ELSE {})
          \cup Registered(Control) \cup Exported(Control \cup Queue)
          \cup Heap(Queue \cup {"xpmem_array", "exposure", "win_array"})
          \cup (IF InRange(GroupOf(s, p)) THEN {} ELSE Heap({"onnode_ranks"}))
          \cup {R("mpi", "onnode_group"), R("mpi", "onnode_comm")})
    \cup Heap({"access", "group_ranks", "name"})

\* (memory of the library's own: the names of what is freed and what is kept)
ShutHeap ==
  {"element", "copy", "exposure", "dynamic_list", "notif_queue", "notif_queue_state",
   "xpmem_array", "win_array", "onnode_ranks", "access", "group_ranks", "name"}

\* a mapping is told from all else by its kind
LEMMA MappingsAre ==
  ASSUME NEW s, NEW p, NEW x \in Mappings(s, p)
  PROVE  x[1] = "map"
<1>1. PICK i \in 1 .. Len(GroupOf(s, p)) : x \in MappedFrom(Names(s, GroupOf(s, p)[i]), i - 1)
  BY DEF Mappings
<1> QED BY <1>1, RsIs DEF MappedFrom, Is

\* and so is all that Win_free gives back
LEMMA ShutIs ==
  ASSUME NEW s, NEW p, NEW l, NEW a, NEW x \in Shut(s, p, l, a)
  PROVE  \/ x[1] \in {"map", "reg", "export"}
         \/ x[1] = "mpi" /\ x[2] \in {"onnode_group", "onnode_comm"}
         \/ x[1] = "heap" /\ x[2] \in ShutHeap
         \/ x[1] = "heap" /\ x[2] = "base" /\ p \in s.sized
<1>1. \A W : x \in Registered(W) => x[1] = "reg" BY RsIs DEF Registered, Is
<1>2. \A W : x \in Exported(W) => x[1] = "export" BY RsIs DEF Exported, Is
<1>3. \A W : x \in Heap(W) => x[1] = "heap" /\ x[2] \in W BY RsIs DEF Heap, Is
<1>4. x \in Rs("heap", {"copy"}, Proc \ {p}) => x[1] = "heap" /\ x[2] = "copy" BY RsIs DEF Is
<1>5. x \in {<<"heap", "base", l>>} => x[1] = "heap" /\ x[2] = "base" BY ResourceIs DEF Is
<1>6. x \in {R("mpi", "onnode_group"), R("mpi", "onnode_comm")} =>
        x[1] = "mpi" /\ x[2] \in {"onnode_group", "onnode_comm"}
  BY ResourceIs DEF R, Is
<1>7. x \in Regions(a) => x[1] = "reg" \/ (x[1] = "heap" /\ x[2] = "element")
  BY RegionsAre DEF Is
<1>8. x \in Mappings(s, p) => x[1] = "map" BY MappingsAre
<1>9. x \in Heap({"access", "group_ranks", "name"}) =>
        x[1] = "heap" /\ x[2] \in ShutHeap BY <1>3 DEF ShutHeap
<1>10. x \in Heap({"exposure", "dynamic_list"}) => x[1] = "heap" /\ x[2] \in ShutHeap
  BY <1>3 DEF ShutHeap
<1>11. x \in Heap(Queue \cup {"xpmem_array", "exposure", "win_array"}) =>
         x[1] = "heap" /\ x[2] \in ShutHeap BY <1>3 DEF ShutHeap, Queue
<1>12. x \in Heap({"onnode_ranks"}) => x[1] = "heap" /\ x[2] \in ShutHeap BY <1>3 DEF ShutHeap
<1>13. {"element", "copy"} \subseteq ShutHeap BY DEF ShutHeap
<1>14. CASE s.flavors[l] = "dynamic"
  BY <1>1, <1>4, <1>7, <1>9, <1>10, <1>13, <1>14 DEF Shut
<1>15. CASE s.flavors[l] # "dynamic"
  <2>1. \/ x \in Mappings(s, p) \/ x \in Registered({"base"}) \/ x \in Exported({"base"})
        \/ x \in {<<"heap", "base", l>>} /\ p \in s.sized
        \/ x \in Registered(Control) \/ x \in Exported(Control \cup Queue)
        \/ x \in Heap(Queue \cup {"xpmem_array", "exposure", "win_array"})
        \/ x \in Heap({"onnode_ranks"})
        \/ x \in {R("mpi", "onnode_group"), R("mpi", "onnode_comm")}
        \/ x \in Heap({"access", "group_ranks", "name"})
    BY <1>15 DEF Shut
  <2> QED BY <2>1, <1>1, <1>2, <1>5, <1>6, <1>8, <1>9, <1>11, <1>12
<1> QED BY <1>14, <1>15

(* Win_free gives back all that a window has, and nothing that is kept.    *)
LEMMA ShutAll ==
  ASSUME NEW s, NEW p, NEW l, NEW a
  PROVE  /\ WindowHas(s, p, l, a) \subseteq Shut(s, p, l, a)
         /\ Spare(s, p, l) \subseteq Shut(s, p, l, a)
         /\ (Keeps(s, p, l) \cup Heap({"win"})) \cap Shut(s, p, l, a) = {}
<1>1. \A W, V : Heap(W \cup V) = Heap(W) \cup Heap(V) BY NamesUnion
<1>2. \A W, V : Exported(W \cup V) = Exported(W) \cup Exported(V) BY NamesUnion
<1> DEFINE G == {"group_ranks"}
<1>12. \A U, V, W : Heap((U \cup V) \cup W) = Heap(U) \cup Heap(V) \cup Heap(W)
  <2> TAKE U, V, W
  <2> DEFINE X == U \cup V
  <2>1. Heap(X) = Heap(U) \cup Heap(V) BY <1>1
  <2> HIDE DEF X
  <2>2. Heap(X \cup W) = Heap(X) \cup Heap(W) BY <1>1
  <2> QED BY <2>1, <2>2 DEF X
<1>7. Heap({"access", "group_ranks", "name"})
        = Heap({"access"}) \cup Heap({"group_ranks"}) \cup Heap({"name"})
  <2>1. Heap(({"access"} \cup G) \cup {"name"}) = Heap({"access"}) \cup Heap(G) \cup Heap({"name"})
    BY <1>12
  <2>2. ({"access"} \cup G) \cup {"name"} = {"access", "group_ranks", "name"} OBVIOUS
  <2> QED BY <2>1, <2>2
<1>8. Heap({"exposure", "access"}) = Heap({"exposure"}) \cup Heap({"access"})
  <2>1. Heap({"exposure"} \cup {"access"}) = Heap({"exposure"}) \cup Heap({"access"}) BY <1>1
  <2>2. {"exposure"} \cup {"access"} = {"exposure", "access"} OBVIOUS
  <2> QED BY <2>1, <2>2
<1>9. Heap({"exposure", "dynamic_list"}) = Heap({"exposure"}) \cup Heap({"dynamic_list"})
  <2>1. Heap({"exposure"} \cup {"dynamic_list"}) = Heap({"exposure"}) \cup Heap({"dynamic_list"})
    BY <1>1
  <2>2. {"exposure"} \cup {"dynamic_list"} = {"exposure", "dynamic_list"} OBVIOUS
  <2> QED BY <2>1, <2>2
<1>10. Heap(Queue \cup {"xpmem_array", "exposure", "win_array"})
         = Heap(Queue) \cup Heap({"xpmem_array"}) \cup Heap({"exposure"}) \cup Heap({"win_array"})
  <2>3. Heap(((Queue \cup {"xpmem_array"}) \cup {"exposure"}) \cup {"win_array"})
          = Heap(Queue \cup {"xpmem_array"}) \cup Heap({"exposure"}) \cup Heap({"win_array"})
    BY <1>12
  <2>4. Heap(Queue \cup {"xpmem_array"}) = Heap(Queue) \cup Heap({"xpmem_array"}) BY <1>1
  <2>1. Heap(((Queue \cup {"xpmem_array"}) \cup {"exposure"}) \cup {"win_array"})
          = Heap(Queue) \cup Heap({"xpmem_array"}) \cup Heap({"exposure"}) \cup Heap({"win_array"})
    BY <2>3, <2>4
  <2>2. ((Queue \cup {"xpmem_array"}) \cup {"exposure"}) \cup {"win_array"}
          = Queue \cup {"xpmem_array", "exposure", "win_array"}
    OBVIOUS
  <2> QED BY <2>1, <2>2
<1>11. Heap(Queue \cup {"win_array"}) = Heap(Queue) \cup Heap({"win_array"}) BY <1>1
<1> HIDE DEF G
<1>4. WindowHas(s, p, l, a) \subseteq Shut(s, p, l, a)
  <2>1. CASE s.flavors[l] = "dynamic"
    BY <1>7, <1>8, <1>9, <1>10, <1>11, <2>1 DEF WindowHas, Begun, Made, Shut
  <2>2. CASE s.flavors[l] # "dynamic"
    <3>1. Begun(s, p, l) \subseteq Shut(s, p, l, a)
      BY <1>7, <1>8, <1>9, <1>10, <1>11, <2>2 DEF Begun, Shut
    <3>2. Made(s, p, l) \subseteq Shut(s, p, l, a)
      BY <1>2, <1>7, <1>8, <1>9, <1>10, <1>11, <2>2 DEF Made, Shut
    <3>3. Heap({"xpmem_array"}) \cup Mappings(s, p) \subseteq Shut(s, p, l, a)
      BY <1>7, <1>8, <1>9, <1>10, <1>11, <2>2 DEF Shut
    <3> QED BY <2>2, <3>1, <3>2, <3>3 DEF WindowHas
  <2> QED BY <2>1, <2>2
<1>5. Spare(s, p, l) \subseteq Shut(s, p, l, a) BY <1>7, <1>8, <1>9, <1>10, <1>11 DEF Spare, Shut
<1>6. ASSUME NEW x \in Keeps(s, p, l) \cup Heap({"win"}), x \in Shut(s, p, l, a) PROVE FALSE
  <2>1. x \in Heap({"win"}) => x[1] = "heap" /\ x[2] = "win" BY RsIs DEF Heap, Is
  <2>2. \/ x[1] \in {"cdm", "endpoint", "cq"}
        \/ x[1] = "heap" /\ x[2] \in {"comm", "endpoints", "unexpected", "win"} \cup Forgotten
        \/ x[1] = "mpi" /\ x[2] \in ForgottenByMPI
        \/ x[1] = "heap" /\ x[2] = "base" /\ p \notin s.sized
    BY <1>6, <2>1, KeptIs DEF Keeps, Is
  <2>3. \/ x[1] \in {"map", "reg", "export"}
        \/ x[1] = "mpi" /\ x[2] \in {"onnode_group", "onnode_comm"}
        \/ x[1] = "heap" /\ x[2] \in ShutHeap
        \/ x[1] = "heap" /\ x[2] = "base" /\ p \in s.sized
    BY <1>6, ShutIs
  <2> QED BY <2>2, <2>3 DEF ShutHeap, Forgotten, ForgottenByMPI
<1> QED BY <1>4, <1>5, <1>6

---------------------------------------------------------------------------
(* What a process owns.                                                    *)

\* the library is built and taken apart
LEMMA OwnsLibrary ==
  ASSUME LifeTypes, Owning, NEW p \in Proc, Counting, LibraryStep(p)
  PROVE  OwnsAt(scenario, p, pc'[p], life'[p], has'[p], attached'[p])
<1> DEFINE s == scenario
           l == life[p]
<1>1. OwnsAt(s, p, pc[p], l, has[p], attached[p]) BY DEF Owning
<1>2. p \in DOMAIN pc /\ p \in DOMAIN has BY DEF LifeTypes, TypeOK
<1>3. /\ life[p] \in 0 .. Lives /\ At(s.flavors, pc[p], l, epoch[p], entered[p]) /\ Lives \in Nat
  BY BoundsAssumption DEF LifeTypes, TypeOK, Counting
<1> USE DEF Goto, local
<1>4. CASE InitLibrary(p)
  <2>1. /\ pc'[p] = "addresses"
        /\ has'[p] = InitLoses \cup Heap({"comm", "endpoints"}) \cup {R("cdm", "comm"), R("cq", "comm")}
    BY <1>2, <1>4 DEF InitLibrary, InitLoses
  <2> QED BY <2>1 DEF OwnsAt
<1>5. CASE BindEndpoints(p)
  <2>1. /\ pc[p] = "addresses" /\ pc'[p] = "bound" /\ life'[p] = l
        /\ has'[p] = has[p] \cup Rs("endpoint", {"comm"}, Proc \ {p})
    BY <1>2, <1>5 DEF BindEndpoints
  <2>2. l = 0 BY <1>3, <2>1 DEF At
  <2>3. has[p] = InitLoses \cup Heap({"comm", "endpoints"}) \cup {R("cdm", "comm"), R("cq", "comm")}
    BY <1>1, <2>1 DEF OwnsAt
  <2>4. has'[p] = CommKeeps(p) \cup InitLoses BY <2>1, <2>3 DEF CommKeeps
  <2>5. Keeps(s, p, 0) = CommKeeps(p) \cup InitLoses
    <3>1. 0 \in Nat OBVIOUS
    <3> QED BY <3>1, KeepsNext
  <2>6. Between(has'[p], Keeps(s, p, l), OwnCopies(l)) BY <2>2, <2>4, <2>5 DEF Between
  <2> QED BY <2>1, <2>6 DEF OwnsAt
<1>6. CASE InitDone(p) \/ FinalizeStart(p) \/ FinalizeLayers(p)
  <2>1. /\ pc[p] \in {"bound", "idle", "final"} /\ pc'[p] \in {"idle", "final", "close"}
        /\ life' = life /\ has' = has
    BY <1>2, <1>6 DEF InitDone, FinalizeStart, FinalizeLayers
  <2>2. Between(has[p], Keeps(s, p, l), OwnCopies(l)) BY <1>1, <2>1 DEF OwnsAt
  <2> QED BY <2>1, <2>2 DEF OwnsAt
<1>7. CASE CommFree(p)
  <2>1. /\ pc[p] = "close" /\ pc'[p] = "done" /\ life'[p] = l /\ has'[p] = has[p] \ CommKeeps(p)
    BY <1>2, <1>7 DEF CommFree
  <2>2. Between(has[p], Keeps(s, p, l), OwnCopies(l)) BY <1>1, <2>1 DEF OwnsAt
  <2>3. ASSUME NEW x \in Loses(s, p, l), x \in CommKeeps(p) PROVE FALSE
    BY <2>3, KeptIs DEF Is, Forgotten
  <2>4. Between(has'[p], Loses(s, p, l), OwnCopies(l))
    BY <2>1, <2>2, <2>3 DEF Keeps, Between
  <2> QED BY <2>1, <2>4 DEF OwnsAt
<1> QED BY <1>4, <1>5, <1>6, <1>7 DEF LibraryStep

\* a window is created
LEMMA OwnsCreation ==
  ASSUME LifeTypes, Counting, Barriers, Attaching, Owning, NEW p \in Proc,
         CreateStart(p) \/ CommCreated(p) \/ CreateLocal(p) \/ Gathered(p) \/ Mapped(p)
  PROVE  OwnsAt(scenario, p, pc'[p], life'[p], has'[p], attached'[p])
<1> DEFINE s == scenario
           l == life[p]
           kept == Keeps(s, p, l) \cup Heap({"win"})
<1>1. OwnsAt(s, p, pc[p], l, has[p], attached[p]) BY DEF Owning
<1>2. p \in DOMAIN pc /\ p \in DOMAIN has /\ p \in DOMAIN life BY DEF LifeTypes, TypeOK
<1>3. l \in 0 .. Lives /\ Lives \in Nat BY BoundsAssumption DEF LifeTypes, TypeOK
<1> USE DEF Goto, local
<1>4. CASE CreateStart(p)
  <2> DEFINE f == s.flavors[l + 1]
             A == IF f = "allocate" THEN {<<"heap", "base", l + 1>>} ELSE {}
             M == IF f = "dynamic" THEN {} ELSE {R("mpi", "onnode_group"), R("mpi", "onnode_comm")}
             D == {<<"heap", "unexpected", l + 1>>, <<"cq", "destination", l + 1>>}
             B == Heap({"group_ranks"})
             N == Heap({"win", "group_ranks"}) \cup D \cup A \cup M
  <2>1. /\ pc[p] = "idle" /\ life'[p] = l + 1 /\ pc'[p] \in {"comm", "local"}
        /\ has'[p] = has[p] \cup N
    <3>1. pc[p] = "idle" /\ life'[p] = l + 1 BY <1>2, <1>4 DEF CreateStart
    <3>2. pc'[p] \in {"comm", "local"} BY <1>2, <1>4 DEF CreateStart
    <3>3. has'[p] = has[p] \cup Heap({"win", "group_ranks"}) \cup D \cup A \cup M
      BY <1>2, <1>4 DEF CreateStart
    <3> HIDE DEF D, A, M
    <3> QED BY <3>1, <3>2, <3>3
  <2>2. Between(has[p], Keeps(s, p, l), OwnCopies(l)) BY <1>1, <2>1 DEF OwnsAt
  <2> DEFINE C == IF f = "allocate" /\ p \notin s.sized THEN {<<"heap", "base", l + 1>>} ELSE {}
             E == IF f = "allocate" /\ p \in s.sized THEN {<<"heap", "base", l + 1>>} ELSE {}
  <2>3. Keeps(s, p, l + 1) = Keeps(s, p, l) \cup D \cup C /\ OwnCopies(l) \subseteq OwnCopies(l + 1)
    BY <1>3, KeepsNext
  <2>4. Begun(s, p, l + 1) = B \cup E \cup M BY DEF Begun
  <2>5. A = C \cup E BY DEF A, C, E
  <2>6. Heap({"win", "group_ranks"}) = Heap({"win"}) \cup B
    <3>1. {"win", "group_ranks"} = {"win"} \cup {"group_ranks"} OBVIOUS
    <3>2. Heap({"win"} \cup {"group_ranks"})
            = Heap({"win"}) \cup Heap({"group_ranks"})
      BY NamesUnion
    <3> QED BY <3>1, <3>2
  <2>7. Keeps(s, p, l + 1) \cup Heap({"win"}) \cup Begun(s, p, l + 1) = Keeps(s, p, l) \cup N
    <3> HIDE DEF A, B, C, D, E, M
    <3> QED BY <2>3, <2>4, <2>5, <2>6
  <2>8. Between(has'[p], Keeps(s, p, l + 1) \cup Heap({"win"}) \cup Begun(s, p, l + 1), OwnCopies(l + 1))
    <3> HIDE DEF N
    <3> QED BY <2>1, <2>2, <2>3, <2>7 DEF Between
  <2> QED BY <2>1, <2>8 DEF OwnsAt
<1>5. CASE CommCreated(p)
  <2>1. pc[p] = "comm" /\ pc'[p] = "local" /\ life' = life /\ has' = has
    BY <1>2, <1>5 DEF CommCreated
  <2> QED BY <1>1, <2>1 DEF OwnsAt
<1>6. CASE CreateLocal(p)
  <2>1. /\ pc[p] = "local" /\ pc'[p] = "gather" /\ life' = life
    BY <1>2, <1>6 DEF CreateLocal
  <2>2. has'[p] = has[p] \cup Made(s, p, l)
    <3>1. IsRange(p) <=> InRange(GroupOf(s, p)) BY Translations
    <3> QED BY <1>2, <1>6, <3>1 DEF CreateLocal, Made, flavor, Sized
  <2>3. Between(has[p], kept \cup Begun(s, p, l), OwnCopies(l)) BY <1>1, <2>1 DEF OwnsAt
  <2>4. Between(has'[p], kept \cup Begun(s, p, l) \cup Made(s, p, l), OwnCopies(l))
    BY <2>2, <2>3 DEF Between
  <2> QED BY <2>1, <2>4 DEF OwnsAt
<1>7. CASE Gathered(p)
  <2> DEFINE L == kept \cup Begun(s, p, l) \cup Made(s, p, l)
  <2>1. pc[p] = "gather" /\ life' = life /\ attached' = attached BY <1>7 DEF Gathered
  <2>2. Between(has[p], L, OwnCopies(l)) BY <1>1, <2>1 DEF OwnsAt
  <2>3. CASE s.flavors[l] = "dynamic"
    <3>1. pc'[p] = "open" /\ has' = has BY <1>2, <1>7, <2>3 DEF Gathered, flavor
    <3>2. attached[p] = {} BY <2>1 DEF Attaching, AttachedAt
    <3>3. Regions({}) = {} BY DEF Regions
    <3>4. kept \cup WindowHas(s, p, l, {}) = L BY <2>3, <3>3 DEF WindowHas
    <3>5. Between(has'[p], kept \cup WindowHas(s, p, l, attached'[p]), Spare(s, p, l) \cup OwnCopies(l))
      BY <2>1, <2>2, <3>1, <3>2, <3>4 DEF Between
    <3> QED BY <2>1, <3>1, <3>5 DEF OwnsAt
  <2>4. CASE s.flavors[l] # "dynamic"
    <3>1. pc'[p] = "segments" /\ has'[p] = has[p] \cup Heap({"xpmem_array"})
      BY <1>2, <1>7, <2>4 DEF Gathered, flavor
    <3>2. Between(has'[p], L \cup Heap({"xpmem_array"}), OwnCopies(l))
      <4> HIDE DEF L
      <4> QED BY <2>2, <3>1 DEF Between
    <3> QED BY <2>1, <3>1, <3>2 DEF OwnsAt
  <2> QED BY <2>3, <2>4
<1>8. CASE Mapped(p)
  <2> DEFINE L == kept \cup Begun(s, p, l) \cup Made(s, p, l) \cup Heap({"xpmem_array"})
  <2>1. pc[p] = "segments" /\ pc'[p] = "open" /\ life' = life /\ attached' = attached
    BY <1>2, <1>8 DEF Mapped
  <2>2. s.flavors[l] # "dynamic" BY <2>1 DEF Counting, At
  <2>3. Between(has[p], L, OwnCopies(l)) BY <1>1, <2>1 DEF OwnsAt
  <2>4. has'[p] = has[p] \cup Mappings(s, p)
    <3>1. OnnodeGroup(p) = GroupOf(s, p) /\ OnnodeSize(p) = Len(GroupOf(s, p))
      BY GroupFacts DEF OnnodeSize
    <3>2. \A i \in 1 .. Len(GroupOf(s, p)) : GroupOf(s, p)[i] \in Proc BY GroupFacts
    <3>3. \A q \in Proc : life[q] = l BY <2>1, WindowLife DEF WithWindow
    <3>4. \A q \in Proc : Info(q).base = (q \in s.sized) BY <2>2, <3>3 DEF Info, flavor, Sized
    <3>5. \A i \in 1 .. Len(GroupOf(s, p)) :
            Control \cup Queue \cup (IF Info(OnnodeGroup(p)[i]).base THEN {"base"} ELSE {})
              = Names(s, GroupOf(s, p)[i])
      BY <3>1, <3>2, <3>4 DEF Names
    <3>6. has'[p] = has[p] \cup UNION {
            MappedFrom(Control \cup Queue
              \cup (IF Info(OnnodeGroup(p)[i]).base THEN {"base"} ELSE {}), i - 1) :
                i \in 1 .. OnnodeSize(p)}
      BY <1>2, <1>8 DEF Mapped
    <3> QED BY <3>1, <3>5, <3>6 DEF Mappings
  <2>5. L \cup Mappings(s, p) = kept \cup WindowHas(s, p, l, attached'[p]) BY <2>2 DEF WindowHas
  <2>6. Between(has'[p], kept \cup WindowHas(s, p, l, attached'[p]), Spare(s, p, l) \cup OwnCopies(l))
    <3> HIDE DEF L, kept
    <3> QED BY <2>3, <2>4, <2>5 DEF Between
  <2> QED BY <2>1, <2>6 DEF OwnsAt
<1> QED BY <1>4, <1>5, <1>6, <1>7, <1>8

\* a region and its element are not among what else is owned
LEMMA RegionsApart ==
  ASSUME NEW s, NEW p, NEW l, NEW k, NEW a, k \notin a, s.flavors[l] = "dynamic",
         NEW x \in Attachment(k),
         x \in Keeps(s, p, l) \cup Heap({"win"}) \cup WindowHas(s, p, l, a)
  PROVE  FALSE
<1>1. Is(x, "reg", {"region", "element"}, {k}) \/ Is(x, "heap", {"element"}, {k})
  BY RegionsAre
<1>2. \/ x[1] = "reg" /\ x[2] \in {"region", "element"}
      \/ x[1] = "heap" /\ x[2] = "element"
  BY <1>1 DEF Is
<1>3. x[3] = k BY <1>1 DEF Is
<1>4. \A W : x \in Heap(W) => x[1] = "heap" /\ x[2] \in W BY RsIs DEF Heap, Is
<1>5. x \notin Keeps(s, p, l)
  <2>1. x \in Keeps(s, p, l) =>
          \/ x[1] \in {"cdm", "endpoint", "cq"}
          \/ x[1] = "heap" /\ x[2] \in {"comm", "endpoints", "unexpected", "base"} \cup Forgotten
          \/ x[1] = "mpi"
    BY KeptIs DEF Keeps, Is
  <2> QED BY <1>2, <2>1 DEF Forgotten
<1>6. x \notin Heap({"win"}) BY <1>2, <1>4
<1>7. x \notin Begun(s, p, l)
  <2>1. x \notin Heap({"group_ranks"}) BY <1>2, <1>4
  <2> QED BY <2>1 DEF Begun
<1>8. x \notin Made(s, p, l)
  <2>1. x \notin Heap({"exposure", "access"}) /\ x \notin Heap({"dynamic_list"}) BY <1>2, <1>4
  <2>2. x \in Registered(Control) => x[1] = "reg" /\ x[2] \in Control
    BY RsIs DEF Registered, Is
  <2>3. x \notin Registered(Control) BY <1>2, <2>2 DEF Control
  <2> QED BY <2>1, <2>3 DEF Made
<1>9. x \notin Regions(a) BY <1>3, RegionsAre DEF Is
<1> QED BY <1>5, <1>6, <1>7, <1>8, <1>9 DEF WindowHas

\* regions come and go while the window is open
LEMMA OwnsEpoch ==
  ASSUME LifeTypes, Counting, Attaching, Owning, NEW p \in Proc, EpochStep(p)
  PROVE  OwnsAt(scenario, p, pc'[p], life'[p], has'[p], attached'[p])
<1> DEFINE s == scenario
           l == life[p]
           kept == Keeps(s, p, l) \cup Heap({"win"})
           W(a) == kept \cup WindowHas(s, p, l, a)
           S == Spare(s, p, l) \cup OwnCopies(l)
<1>1. OwnsAt(s, p, pc[p], l, has[p], attached[p]) BY DEF Owning
<1>2. /\ p \in DOMAIN pc /\ p \in DOMAIN has /\ p \in DOMAIN life /\ p \in DOMAIN attached
      /\ attached[p] \subseteq {1, 2} /\ l \in 0 .. Lives /\ Lives \in Nat
  BY BoundsAssumption DEF LifeTypes, TypeOK
<1> USE DEF Goto, local
<1>3. life' = life
  BY DEF EpochStep, FenceFlush, FenceDone, SetName, Attach, Detach, PutOnnode, PutRemote
<1>4. pc[p] \in {"open", "fence"} /\ pc'[p] \in {"open", "fence"}
  BY <1>2 DEF EpochStep, FenceFlush, FenceDone, SetName, Attach, Detach, PutOnnode, PutRemote,
              CanPut, InEpoch
<1>5. Between(has[p], W(attached[p]), S) BY <1>1, <1>4 DEF OwnsAt
<1>6. SUFFICES Between(has'[p], W(attached'[p]), S) BY <1>3, <1>4 DEF OwnsAt
<1> HIDE DEF S
<1>7. CASE FenceFlush(p) \/ FenceDone(p) \/ \E q \in Proc : PutOnnode(p, q)
  <2>1. UNCHANGED <<has, attached>> BY <1>7 DEF FenceFlush, FenceDone, PutOnnode
  <2> QED BY <1>5, <2>1
<1>8. CASE SetName(p)
  <2>1. has'[p] = has[p] \cup Heap({"name"}) /\ attached' = attached BY <1>2, <1>8 DEF SetName
  <2>2. Heap({"name"}) \subseteq S BY DEF S, Spare
  <2> HIDE DEF W
  <2> QED BY <1>5, <2>1, <2>2 DEF Between
<1>9. CASE Attach(p)
  <2>1. /\ s.flavors[l] = "dynamic" /\ attached[p] = {} /\ attached'[p] = {1, 2}
        /\ has'[p] = has[p] \cup Attachment(1) \cup Attachment(2)
    BY <1>2, <1>9 DEF Attach, flavor
  <2>2. Regions({}) = {} /\ Regions({1, 2}) = Attachment(1) \cup Attachment(2) BY DEF Regions
  <2>3. W({1, 2}) = W({}) \cup Attachment(1) \cup Attachment(2) BY <2>1, <2>2 DEF WindowHas
  <2> HIDE DEF W
  <2> QED BY <1>5, <2>1, <2>3 DEF Between
<1>10. CASE \E k \in {1, 2} : Detach(p, k)
  <2> PICK k \in {1, 2} : Detach(p, k) BY <1>10
  <2> DEFINE a == attached[p] \ {k}
  <2>1. /\ s.flavors[l] = "dynamic" /\ attached'[p] = a
        /\ has'[p] = has[p] \ Attachment(k)
    BY <1>2 DEF Detach, flavor
  <2>2. ASSUME NEW x \in W(a), x \in Attachment(k) PROVE FALSE
    <3>1. k \notin a OBVIOUS
    <3> HIDE DEF a
    <3> QED BY <2>1, <2>2, <3>1, RegionsApart
  <2>3. Regions(a) \subseteq Regions(attached[p])
          /\ Regions(attached[p]) \subseteq Regions(a) \cup Attachment(k)
    BY DEF Regions
  <2>4. W(a) \subseteq W(attached[p]) /\ W(attached[p]) \subseteq W(a) \cup Attachment(k)
    <3> HIDE DEF a, kept
    <3> QED BY <2>1, <2>3 DEF WindowHas
  <2> HIDE DEF W, a
  <2> QED BY <1>5, <2>1, <2>2, <2>4 DEF Between
<1>11. CASE \E q \in Proc : PutRemote(p, q)
  <2> PICK q \in Proc : PutRemote(p, q) BY <1>11
  <2>1. attached' = attached BY DEF PutRemote
  <2>2. CASE s.flavors[l] # "dynamic"
    <3>1. has' = has BY <2>2 DEF PutRemote, flavor
    <3> QED BY <1>5, <2>1, <3>1
  <2>3. CASE s.flavors[l] = "dynamic"
    <3> DEFINE x == IF q = p THEN <<"heap", "own copy", l>> ELSE <<"heap", "copy", q>>
    <3>1. has'[p] = has[p] \cup {x} BY <1>2, <2>3 DEF PutRemote, flavor
    <3>2. x \in S
      <4>1. CASE q = p
        <5>1. pc[p] = "open" /\ l > 0 BY DEF PutRemote, CanPut, InEpoch, Counting, At, WithWindow
        <5>2. l \in 1 .. l BY <1>2, <5>1
        <5> QED BY <4>1, <5>2 DEF S, OwnCopies
      <4>2. CASE q # p
        <5>1. q \in Proc \ {p} BY <4>2
        <5>2. <<"heap", "copy", q>> \in Rs("heap", {"copy"}, Proc \ {p}) BY <5>1 DEF Rs
        <5> QED BY <2>3, <4>2, <5>2 DEF S, Spare
      <4> QED BY <4>1, <4>2
    <3> HIDE DEF W, x
    <3> QED BY <1>5, <2>1, <3>1, <3>2 DEF Between
  <2> QED BY <2>2, <2>3
<1> QED BY <1>7, <1>8, <1>9, <1>10, <1>11 DEF EpochStep

\* and the window is freed: FreedDynamic and FreedShared are all it has
LEMMA OwnsFree ==
  ASSUME LifeTypes, Counting, Barriers, Knowing, Owning, NEW p \in Proc,
         FreeStart(p) \/ FreeLocal(p) \/ FreeDone(p)
  PROVE  OwnsAt(scenario, p, pc'[p], life'[p], has'[p], attached'[p])
<1> DEFINE s == scenario
           l == life[p]
           kept == Keeps(s, p, l) \cup Heap({"win"})
           a == attached[p]
<1>1. OwnsAt(s, p, pc[p], l, has[p], attached[p]) BY DEF Owning
<1>2. p \in DOMAIN pc /\ p \in DOMAIN has BY DEF LifeTypes, TypeOK
<1> USE DEF Goto, local
<1>3. CASE FreeStart(p)
  <2>1. pc[p] = "open" /\ pc'[p] = "free" /\ UNCHANGED <<life, has, attached>>
    BY <1>2, <1>3 DEF FreeStart
  <2> QED BY <1>1, <2>1 DEF OwnsAt
<1>4. CASE FreeLocal(p)
  <2>1. pc[p] = "free" /\ pc'[p] = "freed" /\ life' = life BY <1>2, <1>4 DEF FreeLocal
  <2> DEFINE F == Shut(s, p, l, a)
             U == Heap({"access", "group_ranks", "name"})
  <2>2. has'[p] = has[p] \ ((IF flavor(p) = "dynamic" THEN FreedDynamic(p) ELSE FreedShared(p)) \cup U)
    BY <1>2, <1>4 DEF FreeLocal
  <2>3. (IF flavor(p) = "dynamic" THEN FreedDynamic(p) ELSE FreedShared(p)) \cup U = F
    <3>1. CASE s.flavors[l] = "dynamic"
      <4> DEFINE K == Rs("heap", {"copy"}, Proc \ {p})
      <4>1. FreedDynamic(p) = Regions(a) \cup K \cup Registered(Control)
                                \cup Heap({"exposure", "dynamic_list"})
        <5> DEFINE V == UNION {Attachment(k) : k \in attached[p]}
        <5>1. FreedDynamic(p) = V \cup K \cup Registered(Control) \cup Heap({"exposure", "dynamic_list"})
          BY Zenon DEF FreedDynamic
        <5>2. V = Regions(a) BY Zenon DEF Regions
        <5> HIDE DEF V, K
        <5> QED BY <5>1, <5>2
      <4>2. F = Regions(a) \cup K \cup Registered(Control)
                  \cup Heap({"exposure", "dynamic_list"}) \cup U
        BY <3>1 DEF Shut
      <4>3. flavor(p) = "dynamic" BY <3>1 DEF flavor
      <4> HIDE DEF F, U, K
      <4> QED BY <4>1, <4>2, <4>3
    <3>2. CASE s.flavors[l] # "dynamic"
      <4> DEFINE g == GroupOf(s, p)
                 m == Len(g)
                 x == [i \in 1 .. m |-> [owner |-> g[i], sizeof |-> g[i], base |-> g[i] \in s.sized]]
                 w == [q \in Proc |-> [life |-> l, base |-> s.flavors[l] # "dynamic" /\ q \in s.sized]]
      <4>1. xpmem_array[p] = x /\ win_array[p] = w BY <2>1, <3>2 DEF Knowing, KnowsAt
      <4>2. win_array[p][p].base = (p \in s.sized) BY <3>2, <4>1
      <4>3. DOMAIN xpmem_array[p] = 1 .. m BY <4>1
      <4>4. \A i \in 1 .. m : Control \cup Queue \cup (IF xpmem_array[p][i].base THEN {"base"} ELSE {})
                                = Names(s, g[i])
        <5>1. \A i \in 1 .. m : xpmem_array[p][i].base = (g[i] \in s.sized) BY <4>1
        <5> HIDE DEF x, w
        <5> QED BY <5>1 DEF Names
      <4> DEFINE A == Mappings(s, p)
                 B == IF p \in s.sized THEN Registered({"base"}) \cup Exported({"base"}) ELSE {}
                 C == IF s.flavors[l] = "allocate" /\ p \in s.sized THEN {<<"heap", "base", l>>} ELSE {}
                 E == Registered(Control) \cup Exported(Control \cup Queue)
                 G == Heap(Queue \cup {"xpmem_array", "exposure", "win_array"})
                 I == IF InRange(g) THEN {} ELSE Heap({"onnode_ranks"})
                 J == {R("mpi", "onnode_group"), R("mpi", "onnode_comm")}
                 A2 == UNION {MappedFrom(Control \cup Queue
                          \cup (IF xpmem_array[p][i].base THEN {"base"} ELSE {}), i - 1) :
                            i \in DOMAIN xpmem_array[p]}
                 B2 == IF win_array[p][p].base THEN Registered({"base"}) \cup Exported({"base"}) ELSE {}
                 C2 == IF flavor(p) = "allocate" /\ win_array[p][p].base
                       THEN {<<"heap", "base", l>>} ELSE {}
                 I2 == IF LowerBound(p) = -1 THEN Heap({"onnode_ranks"}) ELSE {}
      <4>5. A2 = A
        <5> HIDE DEF x, w
        <5> QED BY <4>3, <4>4 DEF Mappings
      <4>6. LowerBound(p) = -1 <=> ~InRange(g) BY Translations
      <4>7. B2 = B BY <4>2
      <4>8. C2 = C BY <4>2 DEF flavor
      <4>9. I2 = I BY <4>6
      <4>10. FreedShared(p) = A \cup B \cup C \cup E \cup G \cup I \cup J
        <5>1. FreedShared(p) = A2 \cup B2 \cup C2 \cup Registered(Control)
                                 \cup Exported(Control \cup Queue) \cup G \cup I2 \cup J
          BY Zenon DEF FreedShared
        <5> HIDE DEF A, B, C, G, I, J, A2, B2, C2, I2
        <5> QED BY <4>5, <4>7, <4>8, <4>9, <5>1
      <4>11. F = A \cup B \cup C \cup E \cup G \cup I \cup J \cup U BY <3>2 DEF Shut
      <4>12. flavor(p) # "dynamic" BY <3>2 DEF flavor
      <4> HIDE DEF A, B, C, E, G, I, J, U, F
      <4> QED BY <4>10, <4>11, <4>12
    <3> QED BY <3>1, <3>2
  <2>4. Between(has[p], kept \cup WindowHas(s, p, l, a), Spare(s, p, l) \cup OwnCopies(l))
    BY <1>1, <2>1 DEF OwnsAt
  <2>5. WindowHas(s, p, l, a) \subseteq F /\ Spare(s, p, l) \subseteq F /\ kept \cap F = {}
    BY ShutAll
  <2>6. has'[p] = has[p] \ F BY <2>2, <2>3
  <2>7. Between(has'[p], kept, OwnCopies(l))
    <3> HIDE DEF F, kept
    <3> QED BY <2>4, <2>5, <2>6 DEF Between
  <2> QED BY <2>1, <2>7 DEF OwnsAt
<1>5. CASE FreeDone(p)
  <2>1. pc[p] = "freed" /\ pc'[p] = "idle" /\ life' = life /\ has'[p] = has[p] \ Heap({"win"})
    BY <1>2, <1>5 DEF FreeDone
  <2>2. Between(has[p], kept, OwnCopies(l)) BY <1>1, <2>1 DEF OwnsAt
  <2>3. ASSUME NEW x \in Keeps(s, p, l), x \in Heap({"win"}) PROVE FALSE
    <3>1. x[1] = "heap" /\ x[2] = "win" BY <2>3, RsIs DEF Heap, Is
    <3> QED BY <2>3, <3>1, KeptIs DEF Keeps, Is, Forgotten
  <2>4. Between(has'[p], Keeps(s, p, l), OwnCopies(l)) BY <2>1, <2>2, <2>3 DEF Between
  <2> QED BY <2>1, <2>4 DEF OwnsAt
<1> QED BY <1>3, <1>4, <1>5

\* so a step keeps what a process owns
LEMMA OwningKept ==
  ASSUME LifeTypes, Counting, Barriers, Attaching, Knowing, Owning, NEW p \in Proc,
         LibraryStep(p) \/ WindowStep(p) \/ EpochStep(p)
  PROVE  Owning'
<1>1. scenario' = scenario /\ \A q \in Proc \ {p} :
        /\ pc'[q] = pc[q] /\ life'[q] = life[q] /\ has'[q] = has[q] /\ attached'[q] = attached[q]
  BY StepFrame
<1>2. OwnsAt(scenario, p, pc'[p], life'[p], has'[p], attached'[p])
  BY OwnsLibrary, OwnsCreation, OwnsEpoch, OwnsFree DEF WindowStep
<1>3. ASSUME NEW q \in Proc
      PROVE  OwnsAt(scenario, q, pc[q], life[q], has[q], attached[q])'
  BY <1>1, <1>2 DEF Owning
<1> QED BY <1>3 DEF Owning

---------------------------------------------------------------------------
(* The inductive invariant.                                                *)

\* it holds at the start
LEMMA LifeInitially == Init => LifeInv
<1> SUFFICES ASSUME Init PROVE LifeInv OBVIOUS
<1> USE DEF Init
<1>1. NProc \in Nat \ {0} /\ Lives \in Nat /\ Fences \in Nat \ {0} BY BoundsAssumption
<1>2. scenario.up \subseteq Layer BY ScenarioTypes
<1>3. LifeTypes BY <1>1, <1>2 DEF LifeTypes, TypeOK, Label
<1>4. Counting BY DEF Counting, At, WithWindow
<1>5. Barriers
  <2>1. Waits("start") = 0 BY DEF Waits
  <2> QED BY <2>1 DEF Barriers
<1>6. Layering BY DEF Layering, LayersAt
<1>7. Attaching BY DEF Attaching, AttachedAt
<1>8. Knowing BY DEF Knowing, KnowsAt
<1>9. Owning BY DEF Owning, OwnsAt
<1>10. InNetwork BY DEF InNetwork
<1> QED BY <1>3, <1>4, <1>5, <1>6, <1>7, <1>8, <1>9, <1>10 DEF LifeInv

\* and a step keeps it
LEMMA LifeStep == LifeInv /\ [Next]_vars => LifeInv'
<1> SUFFICES ASSUME LifeInv, [Next]_vars PROVE LifeInv' OBVIOUS
<1> USE DEF LifeInv
<1>1. ASSUME NEW p \in Proc, LibraryStep(p) \/ WindowStep(p) \/ EpochStep(p) PROVE LifeInv'
  <2>1. LifeTypes' BY <1>1, LifeTypesKept
  <2>2. Counting' /\ Barriers' BY <1>1, CountingKept
  <2>3. Attaching' BY <1>1, AttachingKept
  <2>4. InNetwork' BY <1>1, PendingKept
  <2>5. Layering' BY <1>1, LayeringKept
  <2>6. Knowing' BY <1>1, KnowingKept
  <2>7. Owning' BY <1>1, OwningKept
  <2> QED BY <2>1, <2>2, <2>3, <2>4, <2>5, <2>6, <2>7
<1>2. ASSUME UNCHANGED <<scenario, pc, life, epoch, entered, layers, need, has, attached,
                         win_array, xpmem_array, issued>>,
             net' \subseteq net
      PROVE  LifeInv'
  <2> USE <1>2
  <2>1. LifeTypes' BY DEF LifeTypes, TypeOK
  <2>2. Counting' BY DEF Counting
  <2>3. Barriers' BY DEF Barriers
  <2>4. Layering' BY DEF Layering
  <2>5. Attaching' BY DEF Attaching
  <2>6. Knowing' BY DEF Knowing
  <2>7. Owning' BY DEF Owning
  <2>8. InNetwork' BY DEF InNetwork, Pending, Sized, flavor
  <2> QED BY <2>1, <2>2, <2>3, <2>4, <2>5, <2>6, <2>7, <2>8
<1>3. CASE \E r \in net : Deliver(r)
  BY <1>2, <1>3 DEF Deliver, local, known, collective
<1>4. CASE Finished \/ UNCHANGED vars
  BY <1>2, <1>4 DEF Finished, vars, local, known, collective
<1> QED BY <1>1, <1>3, <1>4 DEF Next

(* The inductive invariant of the library's life holds: every process is   *)
(* where its count of collectives says, knows of the others what is so,    *)
(* and owns what it should (fompi_win_create.c, fompi_win_free.c).         *)
THEOREM LifeInvariant == Spec => []LifeInv
<1> QED BY LifeInitially, LifeStep, PTL DEF Spec

---------------------------------------------------------------------------
(* What it means.                                                          *)

\* a put in the network keeps everybody in its epoch
LEMMA FenceHolds == LifeInv => FenceComplete
<1> SUFFICES ASSUME LifeInv, NEW r \in net, NEW p \in Proc
             PROVE  life[p] = r.life /\ epoch[p] <= r.epoch
  BY DEF FenceComplete
<1> QED BY PendingLife DEF LifeInv, InNetwork

(* A fence separates epochs: when any process is past one, no put issued   *)
(* before it, by anyone, is still in the network (fompi_win_fence.c:13-15).*)
THEOREM FencesSeparateEpochs == Spec => []FenceComplete
<1> QED BY LifeInvariant, FenceHolds, PTL

\* who has a window has made its memory accessible
LEMMA HasMade ==
  ASSUME LifeInv, NEW q \in Proc, pc[q] \in WithWindow
  PROVE  Made(scenario, q, life[q]) \subseteq has[q]
<1>1. OwnsAt(scenario, q, pc[q], life[q], has[q], attached[q]) BY DEF LifeInv, Owning
<1>2. CASE pc[q] \in {"gather", "segments"} BY <1>1, <1>2 DEF OwnsAt, Between
<1>3. CASE pc[q] \in {"open", "fence", "free"} BY <1>1, <1>3 DEF OwnsAt, Between, WindowHas
<1> QED BY <1>2, <1>3 DEF WithWindow

\* what the others know of a window is what its owner has
LEMMA UsableHolds == LifeInv => WindowUsable
<1> SUFFICES ASSUME LifeInv PROVE WindowUsable OBVIOUS
<1> DEFINE s == scenario
<1>1. TypeOK BY DEF LifeInv, LifeTypes
<1>2. \A W, V : /\ Registered(W \cup V) = Registered(W) \cup Registered(V)
                /\ Exported(W \cup V) = Exported(W) \cup Exported(V)
  BY NamesUnion
<1>3. ASSUME NEW p \in Proc, pc[p] \in {"open", "fence"}, NEW q \in Proc
      PROVE  /\ win_array[p][q] = [life |-> life[p], base |-> Info(q).base]
             /\ life[q] = life[p] /\ Accessible(q)
             /\ flavor(p) # "dynamic" /\ (\E i \in 1 .. OnnodeSize(p) : OnnodeGroup(p)[i] = q)
                  => Shared(p, q)
  <2> DEFINE l == life[p]
  <2>1. life[q] = l /\ pc[q] \in WithWindow BY <1>3, WindowLife DEF LifeInv, WithWindow
  <2>2. Info(q).base = (s.flavors[l] # "dynamic" /\ q \in s.sized)
    BY <2>1 DEF Info, flavor, Sized
  <2>3. KnowsAt(s, p, pc[p], l, win_array[p], xpmem_array[p]) BY DEF LifeInv, Knowing
  <2>4. win_array[p][q] = [life |-> l, base |-> Info(q).base]
    <3>1. win_array[p] = [r \in Proc |-> [life |-> l, base |-> s.flavors[l] # "dynamic" /\ r \in s.sized]]
      BY <1>3, <2>3 DEF KnowsAt
    <3> QED BY <2>2, <3>1
  <2>5. Made(s, q, l) \subseteq has[q] BY <2>1, HasMade
  <2> DEFINE B == IF Info(q).base THEN {"base"} ELSE {}
  <2>6. Registered(Control \cup B) \subseteq has[q]
    <3>1. Registered(Control) \subseteq has[q] BY <2>5 DEF Made
    <3>2. Registered(B) \subseteq has[q]
      <4>1. CASE s.flavors[l] # "dynamic" /\ q \in s.sized
        <5>1. B = {"base"} BY <2>2, <4>1
        <5> QED BY <2>5, <4>1, <5>1 DEF Made
      <4>2. CASE ~(s.flavors[l] # "dynamic" /\ q \in s.sized)
        <5>1. B = {} BY <2>2, <4>2
        <5>2. Registered({}) = {} BY DEF Registered, Rs
        <5> QED BY <5>1, <5>2
      <4> QED BY <4>1, <4>2
    <3> HIDE DEF B
    <3> QED BY <1>2, <3>1, <3>2
  <2>7. ASSUME flavor(p) # "dynamic", NEW i \in 1 .. OnnodeSize(p), OnnodeGroup(p)[i] = q
        PROVE  Shared(p, q)
    <3> DEFINE g == GroupOf(s, p)
               m == xpmem_array[p]
               whats == Control \cup Queue \cup B
    <3>1. OnnodeGroup(p) = g /\ OnnodeSize(p) = Len(g) /\ Len(g) \in Nat
      BY GroupFacts DEF OnnodeSize, LifeInv
    <3>2. PICK k \in 1 .. Len(g) : g[k] = q /\ GlobalToLocal(p, q) = k - 1
      BY <2>7, <3>1, Translations DEF LifeInv
    <3>3. s.flavors[l] # "dynamic" BY <2>7 DEF flavor
    <3>4. m = [j \in 1 .. Len(g) |-> [owner |-> g[j], sizeof |-> g[j], base |-> g[j] \in s.sized]]
      BY <1>3, <2>3, <3>3 DEF KnowsAt
    <3>5. m[k].owner = q /\ m[k].sizeof = q BY <3>2, <3>4
    <3>6. whats = Names(s, q) BY <2>2, <3>3 DEF Names
    <3>7. MappedFrom(Names(s, q), k - 1) \subseteq has[p]
      <4>1. MappedFrom(Names(s, q), k - 1) \subseteq Mappings(s, p) BY <3>2 DEF Mappings
      <4>2. Mappings(s, p) \subseteq has[p]
        <5>1. OwnsAt(s, p, pc[p], l, has[p], attached[p]) BY DEF LifeInv, Owning
        <5> QED BY <1>3, <3>3, <5>1 DEF OwnsAt, Between, WindowHas
      <4> QED BY <4>1, <4>2
    <3>8. Exported(Names(s, q)) \subseteq has[q]
      <4>1. Exported(Queue \cup Control) \subseteq has[q] BY <2>5, <3>3 DEF Made
      <4>2. q \in s.sized => Exported({"base"}) \subseteq has[q] BY <2>5, <3>3 DEF Made
      <4>3. Names(s, q) = (Queue \cup Control) \cup (IF q \in s.sized THEN {"base"} ELSE {})
        BY DEF Names
      <4>4. CASE q \in s.sized
        <5>1. Names(s, q) = (Queue \cup Control) \cup {"base"} BY <4>3, <4>4
        <5>2. Exported((Queue \cup Control) \cup {"base"})
                = Exported(Queue \cup Control) \cup Exported({"base"}) BY <1>2
        <5> QED BY <4>1, <4>2, <4>4, <5>1, <5>2
      <4>5. CASE q \notin s.sized
        <5>1. Names(s, q) = Queue \cup Control BY <4>3, <4>5
        <5> QED BY <4>1, <5>1
      <4> QED BY <4>4, <4>5
    <3>9. (k - 1) + 1 = k BY <3>1
    <3> HIDE DEF m, g, B
    <3> QED BY <3>2, <3>5, <3>6, <3>7, <3>8, <3>9 DEF Shared, m, B
  <2> QED BY <2>1, <2>4, <2>6, <2>7 DEF Accessible
<1>4. ASSUME NEW r \in net PROVE life[r.to] = r.life /\ r.what \in has[r.to]
  <2>1. Pending(r) BY DEF LifeInv, InNetwork
  <2>2. /\ r.from \in Proc /\ r.to \in Proc /\ life[r.from] = r.life /\ r.to \in s.sized
        /\ IF flavor(r.from) = "dynamic"
           THEN r.what = <<"reg", "region", 1>> /\ attached[r.to] = {1, 2}
           ELSE r.what = R("reg", "base")
    BY <2>1 DEF Pending, Sized
  <2>3. life[r.to] = r.life /\ pc[r.to] \in {"gather", "segments", "open", "fence"}
    BY <2>1, <2>2, PendingLife DEF LifeInv
  <2>4. flavor(r.from) = s.flavors[life[r.to]] BY <2>2, <2>3 DEF flavor
  <2>5. CASE s.flavors[life[r.to]] = "dynamic"
    <3>1. r.what = <<"reg", "region", 1>> /\ attached[r.to] = {1, 2} BY <2>2, <2>4, <2>5
    <3>2. pc[r.to] \in {"open", "fence"}
      BY <2>2, <2>3, <3>1 DEF LifeInv, Attaching, AttachedAt
    <3>3. Regions({1, 2}) \subseteq has[r.to]
      <4>1. OwnsAt(s, r.to, pc[r.to], life[r.to], has[r.to], attached[r.to])
        BY <2>2 DEF LifeInv, Owning
      <4> QED BY <2>5, <3>1, <3>2, <4>1 DEF OwnsAt, Between, WindowHas
    <3>4. <<"reg", "region", 1>> \in Attachment(1) BY DEF Attachment, Rs
    <3> QED BY <2>3, <3>1, <3>3, <3>4 DEF Regions
  <2>6. CASE s.flavors[life[r.to]] # "dynamic"
    <3>1. r.what = <<"reg", "base", 0>> BY <2>2, <2>4, <2>6 DEF R
    <3>2. Registered({"base"}) \subseteq has[r.to]
      <4>1. Made(s, r.to, life[r.to]) \subseteq has[r.to] BY <2>2, <2>3, HasMade DEF WithWindow
      <4> QED BY <2>2, <2>6, <4>1 DEF Made
    <3>3. <<"reg", "base", 0>> \in Registered({"base"}) BY DEF Registered, Rs
    <3> QED BY <2>3, <3>1, <3>2, <3>3
  <2> QED BY <2>5, <2>6
<1> QED BY <1>1, <1>3, <1>4 DEF WindowUsable

(* While a window is open every process may access every other: what it    *)
(* knows is of this window, and what it names is registered, mapped and    *)
(* exported; no put is on its way to memory that was given back            *)
(* (fompi_win_create.c:157-244, fompi_win_free.c:16-17).                   *)
THEOREM WindowsStayUsable == Spec => []WindowUsable
<1> QED BY LifeInvariant, UsableHolds, PTL

\* without a window there is what the communicator keeps and what is lost
LEMMA NothingLeftHolds == LifeInv => NothingLeft
<1> SUFFICES ASSUME LifeInv, NEW p \in Proc
             PROVE  /\ pc[p] = "idle" => has[p] = CommKeeps(p) \cup Lost(p)
                    /\ pc[p] = "done" => has[p] = Lost(p) /\ layers[p] = scenario.up
  BY DEF NothingLeft
<1> DEFINE s == scenario
           l == life[p]
           copies == {<<"heap", "own copy", k>> : k \in {k \in 1 .. l : <<"heap", "own copy", k>> \in has[p]}}
<1>1. OwnsAt(s, p, pc[p], l, has[p], attached[p]) BY DEF LifeInv, Owning
<1>2. Lost(p) = Loses(s, p, l) \cup copies
  <2> DEFINE A == Rs("cq", {"destination"}, 1 .. l)
             U == Rs("heap", {"unexpected"}, 1 .. l)
             B == {<<"heap", "base", k>> : k \in {k \in 1 .. l : s.flavors[k] = "allocate" /\ p \notin s.sized}}
  <2>1. Lost(p) = InitLoses \cup A \cup U \cup B \cup copies BY DEF Lost, Sized, InitLoses
  <2>2. Loses(s, p, l) = InitLoses \cup A \cup U \cup B BY DEF Loses
  <2> HIDE DEF A, B, copies
  <2> QED BY <2>1, <2>2
<1>3. copies \subseteq has[p] /\ \A x \in OwnCopies(l) : x \in has[p] => x \in copies
  BY DEF OwnCopies
<1>4. ASSUME pc[p] = "idle" PROVE has[p] = CommKeeps(p) \cup Lost(p)
  <2>1. Between(has[p], Keeps(s, p, l), OwnCopies(l)) BY <1>1, <1>4 DEF OwnsAt
  <2> HIDE DEF copies
  <2> QED BY <1>2, <1>3, <2>1 DEF Between, Keeps
<1>5. ASSUME pc[p] = "done" PROVE has[p] = Lost(p) /\ layers[p] = s.up
  <2>1. Between(has[p], Loses(s, p, l), OwnCopies(l)) BY <1>1, <1>5 DEF OwnsAt
  <2>2. layers[p] = s.up BY <1>5 DEF LifeInv, Layering, LayersAt
  <2> HIDE DEF copies
  <2> QED BY <1>2, <1>3, <2>1, <2>2 DEF Between
<1> QED BY <1>4, <1>5

(* Between two windows a process owns exactly what the communicator needs, *)
(* and after foMPI_Finalize nothing, save what the code never gives back   *)
(* (fompi_win_free.c, fompi_overloaded.c:176-201, fompi_comm.c:303-413).   *)
THEOREM NothingIsLeft == Spec => []NothingLeft
<1> QED BY LifeInvariant, NothingLeftHolds, PTL

---------------------------------------------------------------------------
(* The queue of unexpected notifications.                                  *)

\* the nodes in the list, from the tail on, are those of L
Linked(L) ==
  /\ allocated = {L[i] : i \in DOMAIN L}
  /\ uq_size = Len(L)
  /\ \A i, j \in DOMAIN L : L[i] = L[j] => i = j
  /\ L = << >> => head = NULL /\ tail = NULL
  /\ L # << >> => /\ tail = L[1] /\ head = L[Len(L)]
                  /\ prev[L[Len(L)]] = NULL /\ next[L[1]] = NULL
  /\ \A i \in 1 .. Len(L) - 1 : prev[L[i]] = L[i + 1] /\ next[L[i + 1]] = L[i]

\* NULL leads nowhere
UqTypes ==
  /\ Uq!TypeOK
  /\ next[NULL] = NULL /\ prev[NULL] = NULL

UqInvariant == UqTypes /\ \E L \in Seq(Node) : Linked(L)

(* The instance counts the nodes as FiniteSets does.                       *)
LEMMA UqCardinality == ASSUME NEW S PROVE Uq!Cardinality(S) = Cardinality(S)
BY Zenon DEF Uq!Cardinality, Cardinality

(* A list of different nodes is no longer than the heap.                   *)
LEMMA ListFits ==
  ASSUME NEW L \in Seq(Node), Linked(L)
  PROVE  Cardinality(Node) \in Nat /\ Len(L) <= Cardinality(Node)
<1>1. /\ Len(L) \in Nat /\ DOMAIN L = 1 .. Len(L) /\ L \in [1 .. Len(L) -> Node]
  BY Lengths
<1>2. IsFiniteSet(1 .. Len(L)) /\ Cardinality(1 .. Len(L)) = Len(L)
  BY <1>1, FS_Interval
<1>3. L \in Injection(1 .. Len(L), Node)
  BY <1>1 DEF Linked, Injection, IsInjective
<1>4. \E f \in [1 .. Len(L) -> Node] : f \in Injection(1 .. Len(L), Node)
  BY <1>1, <1>3
<1>. QED BY <1>2, <1>3, SizesAssumption, FS_Injection, FS_CardinalityType

(* Walked from the tail, the list is L, and then the walk stays at NULL.   *)
LEMMA FromTailIsL ==
  ASSUME UqTypes, NEW L \in Seq(Node), Linked(L)
  PROVE  Uq!FromTail = [i \in 1 .. Cardinality(Node) |-> IF i <= Len(L) THEN L[i] ELSE NULL]
<1>. DEFINE C == Cardinality(Node)
            W == [i \in 1 .. C |-> IF i <= Len(L) THEN L[i] ELSE NULL]
            P(F) == F = [i \in 1 .. C |-> IF i = 1 THEN tail ELSE prev[F[i - 1]]]
<1>1. C \in Nat /\ Len(L) \in Nat /\ Len(L) <= C
  BY ListFits, Lengths
<1>2. Uq!FromTail = CHOOSE F : P(F)
  BY Zenon, UqCardinality DEF Uq!FromTail
<1>3. W = Along(C, tail, prev, W)
  <2>1. ASSUME NEW i \in 1 .. C
        PROVE  (IF i <= Len(L) THEN L[i] ELSE NULL) = IF i = 1 THEN tail ELSE prev[W[i - 1]]
    <3>1. CASE i = 1
      BY <1>1, <3>1, Lengths DEF Linked
    <3>2. CASE i # 1
      <4>1. i - 1 \in 1 .. C /\ W[i - 1] = IF i - 1 <= Len(L) THEN L[i - 1] ELSE NULL
        BY <1>1, <3>2
      <4>2. CASE i <= Len(L)
        <5>1. i - 1 \in 1 .. Len(L) - 1 /\ (i - 1) + 1 = i
          BY <1>1, <3>2, <4>2
        <5>2. prev[L[i - 1]] = L[(i - 1) + 1]
          BY <5>1 DEF Linked
        <5>. QED BY <1>1, <3>2, <4>1, <4>2, <5>1, <5>2
      <4>3. CASE i = Len(L) + 1
        <5>1. L # << >> /\ i - 1 = Len(L)
          BY <1>1, <3>2, <4>3, Lengths
        <5>. QED BY <1>1, <3>2, <4>1, <4>3, <5>1 DEF Linked
      <4>4. CASE i > Len(L) + 1
        BY <1>1, <3>2, <4>1, <4>4 DEF UqTypes
      <4>. QED BY <1>1, <4>2, <4>3, <4>4
    <3>. QED BY <3>1, <3>2
  <2>. QED BY <2>1 DEF Along
<1>4. \A F : P(F) <=> F = Along(C, tail, prev, F)
  BY DEF Along
<1>5. P(CHOOSE F : P(F))
  <2>1. P(W)
    BY <1>3, <1>4
  <2>. HIDE DEF P, W
  <2>. QED BY <2>1
<1>6. Uq!FromTail = Along(C, tail, prev, Uq!FromTail)
  BY <1>2, <1>4, <1>5
<1>. HIDE DEF C, W, P
<1>7. Uq!FromTail = W
  BY <1>1, <1>3, <1>6, WalkUnique
<1>. QED BY <1>7 DEF W, C

(* Walked from the head, it is L from its end.                             *)
LEMMA FromHeadIsL ==
  ASSUME UqTypes, NEW L \in Seq(Node), Linked(L)
  PROVE  Uq!FromHead = [i \in 1 .. Cardinality(Node) |->
                          IF i <= Len(L) THEN L[Len(L) + 1 - i] ELSE NULL]
<1>. DEFINE C == Cardinality(Node)
            W == [i \in 1 .. C |-> IF i <= Len(L) THEN L[Len(L) + 1 - i] ELSE NULL]
            P(F) == F = [i \in 1 .. C |-> IF i = 1 THEN head ELSE next[F[i - 1]]]
<1>1. C \in Nat /\ Len(L) \in Nat /\ Len(L) <= C
  BY ListFits, Lengths
<1>2. Uq!FromHead = CHOOSE F : P(F)
  BY Zenon, UqCardinality DEF Uq!FromHead
<1>3. W = Along(C, head, next, W)
  <2>1. ASSUME NEW i \in 1 .. C
        PROVE  (IF i <= Len(L) THEN L[Len(L) + 1 - i] ELSE NULL)
                 = IF i = 1 THEN head ELSE next[W[i - 1]]
    <3>1. CASE i = 1
      BY <1>1, <3>1, Lengths DEF Linked
    <3>2. CASE i # 1
      <4>1. i - 1 \in 1 .. C
            /\ W[i - 1] = IF i - 1 <= Len(L) THEN L[Len(L) + 1 - (i - 1)] ELSE NULL
        BY <1>1, <3>2
      <4>2. CASE i <= Len(L)
        <5>1. PICK k \in 1 .. Len(L) - 1 : k = Len(L) + 1 - i
          <6>1. PICK l \in Nat : l = Len(L)
            BY <1>1
          <6>2. i \in Nat /\ 1 < i /\ i <= l
            BY <1>1, <3>2, <4>2, <6>1
          <6>3. l + 1 - i \in 1 .. l - 1
            BY <6>2
          <6>. QED BY <6>1, <6>3
        <5>2. next[L[k + 1]] = L[k]
          BY <5>1 DEF Linked
        <5>3. Len(L) + 1 - (i - 1) = k + 1 /\ i - 1 <= Len(L)
          BY <1>1, <5>1, <4>2
        <5>. QED BY <3>2, <4>1, <4>2, <5>1, <5>2, <5>3
      <4>3. CASE i = Len(L) + 1
        <5>1. L # << >> /\ i - 1 = Len(L) /\ Len(L) + 1 - (i - 1) = 1
          BY <1>1, <3>2, <4>3, Lengths
        <5>. QED BY <1>1, <3>2, <4>1, <4>3, <5>1 DEF Linked
      <4>4. CASE i > Len(L) + 1
        BY <1>1, <3>2, <4>1, <4>4 DEF UqTypes
      <4>. QED BY <1>1, <4>2, <4>3, <4>4
    <3>. QED BY <3>1, <3>2
  <2>. QED BY <2>1 DEF Along
<1>4. \A F : P(F) <=> F = Along(C, head, next, F)
  BY DEF Along
<1>5. P(CHOOSE F : P(F))
  <2>1. P(W)
    BY <1>3, <1>4
  <2>. HIDE DEF P, W
  <2>. QED BY <2>1
<1>6. Uq!FromHead = Along(C, head, next, Uq!FromHead)
  BY <1>2, <1>4, <1>5
<1>. HIDE DEF C, W, P
<1>7. Uq!FromHead = W
  BY <1>1, <1>3, <1>6, WalkUnique
<1>. QED BY <1>7 DEF W, C

(* What the steps below use of a list.                                     *)
LEMMA ListFacts ==
  ASSUME UqTypes, NEW L \in Seq(Node), Linked(L)
  PROVE  /\ Len(L) \in Nat /\ DOMAIN L = 1 .. Len(L)
         /\ \A i \in 1 .. Len(L) : L[i] \in Node /\ L[i] \in Uq!Pointer /\ L[i] # NULL
         /\ \A i, j \in 1 .. Len(L) : L[i] = L[j] => i = j
         /\ \A i \in 1 .. Len(L) - 1 : prev[L[i]] = L[i + 1] /\ next[L[i + 1]] = L[i]
         /\ allocated = {L[i] : i \in 1 .. Len(L)}
         /\ uq_size = Len(L)
         /\ Len(L) = 0 => head = NULL /\ tail = NULL
         /\ Len(L) > 0 => /\ tail = L[1] /\ head = L[Len(L)]
                          /\ prev[L[Len(L)]] = NULL /\ next[L[1]] = NULL
         /\ next \in [Uq!Pointer -> Uq!Pointer] /\ prev \in [Uq!Pointer -> Uq!Pointer]
         /\ data \in [Uq!Pointer -> Uq!Notif]
         /\ NULL \in Uq!Pointer /\ NULL \notin Node
<1>1. /\ Len(L) \in Nat /\ DOMAIN L = 1 .. Len(L)
      /\ \A i \in 1 .. Len(L) : L[i] \in Node
      /\ L = << >> <=> Len(L) = 0
  BY Lengths
<1>2. Len(L) > 0 => L # << >>
  BY <1>1
<1>3. NULL \in Uq!Pointer /\ NULL \notin Node /\ Node \subseteq Uq!Pointer
  BY NamesAssumption DEF Uq!Pointer
<1>4. /\ \A i, j \in 1 .. Len(L) : L[i] = L[j] => i = j
      /\ allocated = {L[i] : i \in 1 .. Len(L)}
  BY <1>1 DEF Linked
<1>5. /\ Len(L) = 0 => head = NULL /\ tail = NULL
      /\ Len(L) > 0 => /\ tail = L[1] /\ head = L[Len(L)]
                       /\ prev[L[Len(L)]] = NULL /\ next[L[1]] = NULL
  BY <1>1, <1>2 DEF Linked
<1>6. /\ next \in [Uq!Pointer -> Uq!Pointer] /\ prev \in [Uq!Pointer -> Uq!Pointer]
      /\ data \in [Uq!Pointer -> Uq!Notif]
  BY DEF UqTypes, Uq!TypeOK
<1>7. \A i \in 1 .. Len(L) : L[i] \in Node /\ L[i] \in Uq!Pointer /\ L[i] # NULL
  BY <1>1, <1>3
<1>8. /\ \A i \in 1 .. Len(L) - 1 : prev[L[i]] = L[i + 1] /\ next[L[i + 1]] = L[i]
      /\ uq_size = Len(L)
  BY DEF Linked
<1>. QED BY <1>1, <1>3, <1>4, <1>5, <1>6, <1>7, <1>8

(* An empty queue is the empty list.                                       *)
LEMMA UqInit == Uq!Init => UqInvariant
<1>. SUFFICES ASSUME Uq!Init PROVE UqInvariant
  OBVIOUS
<1>1. UqTypes
  BY DEF UqTypes, Uq!Init, Uq!TypeOK, Uq!Pointer
<1>2. Linked(<< >>) /\ << >> \in Seq(Node)
  <2>1. << >> \in Seq(Node) /\ DOMAIN << >> = {} /\ Len(<< >>) = 0
    OBVIOUS
  <2>. QED BY <2>1 DEF Linked, Uq!Init
<1>. QED BY <1>1, <1>2 DEF UqInvariant

(* A pushed node becomes the last.                                         *)
LEMMA PushStep ==
  ASSUME UqTypes, NEW L \in Seq(Node), Linked(L), NEW n \in Uq!Notif, Uq!Push(n)
  PROVE  /\ UqTypes'
         /\ \E p \in Node, K \in Seq(Node) :
              /\ p \notin allocated
              /\ data' = [data EXCEPT ![p] = n]
              /\ K = Append(L, p)
              /\ Linked(K)'
<1>. USE NamesAssumption
<1>1. PICK p \in Node \ allocated :
        /\ allocated' = allocated \cup {p}
        /\ data' = [data EXCEPT ![p] = n]
        /\ next' = [next EXCEPT ![p] = head]
        /\ prev' = [q \in Uq!Pointer |-> IF q = p THEN NULL
                                         ELSE IF q = head /\ q # NULL THEN p ELSE prev[q]]
        /\ tail' = IF head = NULL THEN p ELSE tail
        /\ head' = p
        /\ uq_size' = uq_size + 1
        /\ UNCHANGED uq_found
  BY DEF Uq!Push
<1>2. PICK K \in Seq(Node) :
        /\ K = Append(L, p)
        /\ Len(K) = Len(L) + 1
        /\ K[Len(L) + 1] = p
        /\ \A i \in 1 .. Len(L) : K[i] = L[i]
  <2>1. PICK K : K = Append(L, p)
    OBVIOUS
  <2>2. /\ K \in Seq(Node) /\ Len(K) = Len(L) + 1
        /\ K[Len(L) + 1] = p /\ \A i \in 1 .. Len(L) : K[i] = L[i]
    BY <1>1, <2>1, AppendProperties
  <2>. QED BY <2>1, <2>2
<1>3. /\ Len(L) \in Nat /\ DOMAIN L = 1 .. Len(L)
      /\ \A i \in 1 .. Len(L) : L[i] \in Node /\ L[i] \in Uq!Pointer /\ L[i] # NULL
      /\ \A i, j \in 1 .. Len(L) : L[i] = L[j] => i = j
      /\ \A i \in 1 .. Len(L) - 1 : prev[L[i]] = L[i + 1] /\ next[L[i + 1]] = L[i]
      /\ allocated = {L[i] : i \in 1 .. Len(L)}
      /\ uq_size = Len(L)
      /\ Len(L) = 0 => head = NULL /\ tail = NULL
      /\ Len(L) > 0 => /\ tail = L[1] /\ head = L[Len(L)]
                       /\ prev[L[Len(L)]] = NULL /\ next[L[1]] = NULL
      /\ next \in [Uq!Pointer -> Uq!Pointer] /\ prev \in [Uq!Pointer -> Uq!Pointer]
      /\ data \in [Uq!Pointer -> Uq!Notif]
      /\ NULL \in Uq!Pointer /\ NULL \notin Node
  BY ListFacts
<1>4. p \in Uq!Pointer /\ p # NULL /\ \A i \in 1 .. Len(L) : L[i] # p
  BY <1>1, <1>3 DEF Uq!Pointer
<1>5. /\ next'[p] = head /\ prev'[p] = NULL
      /\ \A q \in Uq!Pointer : q # p => next'[q] = next[q]
      /\ \A q \in Uq!Pointer : q # p => prev'[q] = IF q = head /\ q # NULL THEN p ELSE prev[q]
  BY <1>1, <1>3, <1>4
<1>6. UqTypes'
  <2>1. head \in Uq!Pointer /\ tail \in Uq!Pointer /\ uq_size \in Nat
    BY DEF UqTypes, Uq!TypeOK
  <2>2. next'[NULL] = NULL /\ prev'[NULL] = NULL
    BY <1>3, <1>4, <1>5 DEF UqTypes
  <2>3. /\ head' \in Uq!Pointer /\ tail' \in Uq!Pointer /\ uq_size' \in Nat
        /\ allocated' \subseteq Node /\ uq_found' \in Uq!Notif \cup {NoMatch}
    BY <1>1, <1>4, <2>1 DEF UqTypes, Uq!TypeOK
  <2>4. next' \in [Uq!Pointer -> Uq!Pointer] /\ data' \in [Uq!Pointer -> Uq!Notif]
    BY <1>1, <1>3, <2>1
  <2>5. prev' \in [Uq!Pointer -> Uq!Pointer]
    BY <1>1, <1>3, <1>4
  <2>. QED BY <2>2, <2>3, <2>4, <2>5 DEF UqTypes, Uq!TypeOK
<1>7. Linked(K)'
  <2>1. DOMAIN K = 1 .. Len(L) + 1 /\ K # << >>
    <3>1. DOMAIN K = 1 .. Len(K) /\ (K = << >> <=> Len(K) = 0)
      BY Lengths
    <3>. QED BY <1>2, <1>3, <3>1
  <2>2. \A i \in 1 .. Len(L) + 1 : i \in 1 .. Len(L) \/ i = Len(L) + 1
    BY <1>3
  <2>3. \A i \in 1 .. Len(L) : i \in 1 .. Len(L) + 1 /\ i # Len(L) + 1
    BY <1>3
  <2>4. Len(L) + 1 \in 1 .. Len(L) + 1
    BY <1>3
  <2>5. allocated' = {K[i] : i \in 1 .. Len(L) + 1}
    BY <1>1, <1>2, <1>3, <2>2, <2>3, <2>4
  <2>6. \A i, j \in 1 .. Len(L) + 1 : K[i] = K[j] => i = j
    BY <1>2, <1>3, <1>4, <2>2
  <2>7. uq_size' = Len(K)
    BY <1>1, <1>2, <1>3
  <2>8. tail' = K[1] /\ head' = K[Len(K)] /\ prev'[K[Len(K)]] = NULL /\ next'[K[1]] = NULL
    <3>1. CASE Len(L) = 0
      BY <1>1, <1>2, <1>3, <1>5, <3>1
    <3>2. CASE Len(L) > 0
      <4>1. 1 \in 1 .. Len(L) /\ Len(L) \in 1 .. Len(L)
        BY <1>3, <3>2
      <4>2. K[1] = L[1] /\ L[1] # p /\ head # NULL /\ L[1] \in Uq!Pointer
        BY <1>2, <1>3, <1>4, <3>2, <4>1
      <4>. QED BY <1>1, <1>2, <1>3, <1>5, <3>2, <4>2
    <3>. QED BY <1>3, <3>1, <3>2
  <2>9. \A i \in 1 .. Len(K) - 1 : prev'[K[i]] = K[i + 1] /\ next'[K[i + 1]] = K[i]
    <3>. SUFFICES ASSUME NEW i \in 1 .. Len(K) - 1
                  PROVE  prev'[K[i]] = K[i + 1] /\ next'[K[i + 1]] = K[i]
      OBVIOUS
    <3>1. i \in 1 .. Len(L) /\ K[i] = L[i] /\ L[i] # p /\ L[i] \in Uq!Pointer /\ L[i] # NULL
      <4>1. i \in 1 .. Len(L)
        BY <1>2, <1>3
      <4>. QED BY <1>2, <1>3, <1>4, <4>1
    <3>2. CASE i = Len(L)
      <4>1. Len(L) > 0 /\ head = L[i] /\ K[i + 1] = p
        BY <1>2, <1>3, <3>1, <3>2
      <4>2. prev'[L[i]] = p /\ next'[p] = L[i]
        BY <1>5, <3>1, <4>1
      <4>. QED BY <3>1, <4>1, <4>2
    <3>3. CASE i # Len(L)
      <4>1. i \in 1 .. Len(L) - 1 /\ i + 1 \in 1 .. Len(L) /\ Len(L) \in 1 .. Len(L) /\ Len(L) > 0
        <5>1. Len(L) \in Nat
          BY <1>3
        <5>. QED BY <3>1, <3>3, <5>1
      <4>2. L[i] # head /\ K[i + 1] = L[i + 1] /\ L[i + 1] # p /\ L[i + 1] \in Uq!Pointer
        BY ZenonT(60), <1>2, <1>3, <1>4, <3>1, <3>3, <4>1
      <4>3. prev[L[i]] = L[i + 1] /\ next[L[i + 1]] = L[i]
        BY <1>3, <4>1
      <4>. QED BY <1>5, <3>1, <4>2, <4>3
    <3>. QED BY <3>2, <3>3
  <2>. QED BY <1>2, <2>1, <2>5, <2>6, <2>7, <2>8, <2>9 DEF Linked
<1>. QED BY <1>1, <1>2, <1>6, <1>7

(* Neighbours in K are neighbours in L, save where the k-th node was.      *)
LEMMA WithoutNeighbours ==
  ASSUME NEW L \in Seq(Node), NEW K \in Seq(Node), NEW k \in 1 .. Len(L), Without(L, k, K),
         NEW i \in 1 .. Len(K) - 1
  PROVE  \/ i \in 1 .. k - 2 /\ i + 1 \in 1 .. Len(L) /\ K[i] = L[i] /\ K[i + 1] = L[i + 1]
         \/ /\ i = k - 1 /\ k \in 2 .. Len(L) - 1
            /\ K[i] = L[k - 1] /\ K[i + 1] = L[k + 1]
         \/ /\ i \in k .. Len(L) - 2 /\ i + 1 \in 2 .. Len(L) - 1 /\ i + 2 \in 3 .. Len(L)
            /\ K[i] = L[i + 1] /\ K[i + 1] = L[i + 2]
<1>1. PICK l \in Nat : l = Len(L)
  BY Lengths
<1>2. k \in 1 .. l /\ i \in 1 .. l - 2
  BY <1>1 DEF Without
<1>3. (i + 1) + 1 = i + 2
  BY <1>2
<1>4. CASE i <= k - 2
  <2>1. i \in 1 .. k - 1 /\ i + 1 \in 1 .. k - 1 /\ i \in 1 .. k - 2 /\ i + 1 \in 1 .. l
    BY <1>2, <1>4
  <2>2. K[i] = L[i] /\ K[i + 1] = L[i + 1]
    BY <2>1 DEF Without
  <2>. QED BY <1>1, <2>1, <2>2
<1>5. CASE i = k - 1
  <2>1. i \in 1 .. k - 1 /\ i + 1 = k /\ k \in k .. l - 1 /\ k \in 2 .. l - 1
    BY <1>2, <1>5
  <2>2. K[i] = L[i] /\ K[k] = L[k + 1]
    BY <1>1, <2>1 DEF Without
  <2>. QED BY <1>1, <1>5, <2>1, <2>2
<1>6. CASE i >= k
  <2>1. /\ i \in k .. l - 1 /\ i + 1 \in k .. l - 1
        /\ i \in k .. l - 2 /\ i + 1 \in 2 .. l - 1 /\ i + 2 \in 3 .. l
    BY <1>2, <1>6
  <2>2. K[i] = L[i + 1] /\ K[i + 1] = L[(i + 1) + 1]
    BY <1>1, <2>1 DEF Without
  <2>. QED BY <1>1, <1>3, <2>1, <2>2
<1>. QED BY <1>2, <1>4, <1>5, <1>6

(* The ends of K, when there are nodes left.                               *)
LEMMA WithoutEnds ==
  ASSUME NEW L \in Seq(Node), NEW K \in Seq(Node), NEW k \in 1 .. Len(L), Without(L, k, K)
  PROVE  /\ Len(L) = 1 => Len(K) = 0
         /\ Len(L) # 1 => Len(K) > 0
         /\ k = 1 /\ Len(L) # 1 => K[1] = L[2] /\ K[Len(K)] = L[Len(L)] /\ 2 \in 1 .. Len(L)
         /\ k = Len(L) /\ Len(L) # 1 => K[1] = L[1] /\ K[Len(K)] = L[Len(L) - 1]
         /\ k # 1 /\ k # Len(L) => /\ K[1] = L[1] /\ K[Len(K)] = L[Len(L)]
                                   /\ Len(L) # 1 /\ k - 1 \in 1 .. Len(L) - 1
                                   /\ k \in 1 .. Len(L) - 1 /\ k + 1 \in 2 .. Len(L)
<1>1. PICK l \in Nat : l = Len(L)
  BY Lengths
<1>2. k \in 1 .. l /\ Len(K) = l - 1
  BY <1>1 DEF Without
<1>3. CASE l = 1
  BY <1>1, <1>2, <1>3
<1>4. CASE l # 1
  <2>1. l - 1 > 0 /\ 2 \in 1 .. l
    BY <1>2, <1>4
  <2>2. k = 1 => 1 \in k .. l - 1 /\ l - 1 \in k .. l - 1 /\ (l - 1) + 1 = l
    BY <1>2, <2>1
  <2>3. k = l => 1 \in 1 .. k - 1 /\ l - 1 \in 1 .. k - 1
    BY <1>2, <2>1
  <2>4. k # 1 /\ k # l => /\ 1 \in 1 .. k - 1 /\ l - 1 \in k .. l - 1 /\ (l - 1) + 1 = l
                          /\ k - 1 \in 1 .. l - 1 /\ k \in 1 .. l - 1 /\ k + 1 \in 2 .. l
    BY <1>2, <2>1
  <2>5. k = 1 => K[1] = L[1 + 1] /\ K[l - 1] = L[l]
    BY <1>1, <2>2 DEF Without
  <2>6. k = l => K[1] = L[1] /\ K[l - 1] = L[l - 1]
    BY <1>1, <2>3 DEF Without
  <2>7. k # 1 /\ k # l => K[1] = L[1] /\ K[l - 1] = L[l]
    BY <1>1, <2>4 DEF Without
  <2>. QED BY <1>1, <1>2, <1>4, <2>1, <2>4, <2>5, <2>6, <2>7
<1>. QED BY <1>3, <1>4

(* What detaching the k-th node does to the pointers of the others.        *)
LEMMA DetachPointers ==
  ASSUME UqTypes, NEW L \in Seq(Node), Linked(L), NEW k \in 1 .. Len(L), Uq!Detach(L[k])
  PROVE  /\ k = 1 /\ k = Len(L) =>
              head' = NULL /\ tail' = NULL /\ next' = next /\ prev' = prev
         /\ k = 1 /\ k # Len(L) =>
              /\ tail' = L[2] /\ head' = head /\ prev' = prev
              /\ next' = [next EXCEPT ![L[2]] = NULL]
         /\ k # 1 /\ k = Len(L) =>
              /\ head' = L[k - 1] /\ tail' = tail /\ next' = next
              /\ prev' = [prev EXCEPT ![L[k - 1]] = NULL]
         /\ k # 1 /\ k # Len(L) =>
              /\ head' = head /\ tail' = tail
              /\ next' = [next EXCEPT ![L[k + 1]] = L[k - 1]]
              /\ prev' = [prev EXCEPT ![L[k - 1]] = L[k + 1]]
<1>1. /\ Len(L) \in Nat
      /\ \A i, j \in 1 .. Len(L) : L[i] = L[j] => i = j
      /\ \A i \in 1 .. Len(L) - 1 : prev[L[i]] = L[i + 1] /\ next[L[i + 1]] = L[i]
      /\ Len(L) > 0 => tail = L[1] /\ head = L[Len(L)]
  BY ListFacts
<1>2. PICK l \in Nat : l = Len(L)
  BY <1>1
<1>3. k \in 1 .. l /\ l > 0 /\ 1 \in 1 .. l /\ l \in 1 .. l
  BY <1>2
<1>4. tail = L[1] /\ head = L[l] /\ (L[k] = tail <=> k = 1) /\ (L[k] = head <=> k = l)
  BY <1>1, <1>2, <1>3
<1>5. k # l => prev[L[k]] = L[k + 1]
  BY <1>1, <1>2, <1>3
<1>6. k # 1 => next[L[k]] = L[k - 1]
  <2>. SUFFICES ASSUME k # 1 PROVE next[L[k]] = L[k - 1]
    OBVIOUS
  <2>1. k - 1 \in 1 .. l - 1 /\ (k - 1) + 1 = k
    BY <1>3
  <2>2. next[L[(k - 1) + 1]] = L[k - 1]
    BY <1>1, <1>2, <2>1
  <2>. QED BY <2>1, <2>2
<1>7. CASE k = 1 /\ k = l
  BY <1>2, <1>4, <1>7 DEF Uq!Detach
<1>8. CASE k = 1 /\ k # l
  <2>1. prev[L[k]] = L[2]
    BY <1>5, <1>8
  <2>. QED BY <1>2, <1>4, <1>8, <2>1 DEF Uq!Detach
<1>9. CASE k # 1 /\ k = l
  BY <1>2, <1>4, <1>6, <1>9 DEF Uq!Detach
<1>10. CASE k # 1 /\ k # l
  BY <1>2, <1>4, <1>5, <1>6, <1>10 DEF Uq!Detach
<1>. QED BY <1>7, <1>8, <1>9, <1>10

(* What is left after a node is detached and freed is a list.              *)
LEMMA DetachStep ==
  ASSUME UqTypes, NEW L \in Seq(Node), Linked(L), NEW k \in 1 .. Len(L),
         Uq!Detach(L[k]), Uq!Return(L[k])
  PROVE  /\ UqTypes'
         /\ \E K \in Seq(Node) : Without(L, k, K) /\ Linked(K)'
         /\ data' = data /\ uq_found' = data[L[k]]
<1>. USE NamesAssumption
<1>1. /\ uq_found' = data[L[k]] /\ allocated' = allocated \ {L[k]} /\ data' = data
      /\ uq_size' = uq_size - 1
  BY DEF Uq!Return, Uq!Detach
<1>2. /\ Len(L) \in Nat /\ DOMAIN L = 1 .. Len(L)
      /\ \A i \in 1 .. Len(L) : L[i] \in Node /\ L[i] \in Uq!Pointer /\ L[i] # NULL
      /\ \A i, j \in 1 .. Len(L) : L[i] = L[j] => i = j
      /\ \A i \in 1 .. Len(L) - 1 : prev[L[i]] = L[i + 1] /\ next[L[i + 1]] = L[i]
      /\ allocated = {L[i] : i \in 1 .. Len(L)}
      /\ uq_size = Len(L)
      /\ Len(L) > 0 => /\ tail = L[1] /\ head = L[Len(L)]
                       /\ prev[L[Len(L)]] = NULL /\ next[L[1]] = NULL
      /\ next \in [Uq!Pointer -> Uq!Pointer] /\ prev \in [Uq!Pointer -> Uq!Pointer]
      /\ data \in [Uq!Pointer -> Uq!Notif]
      /\ NULL \in Uq!Pointer /\ NULL \notin Node
  BY ListFacts
<1>3. PICK K \in Seq(Node) :
        /\ Without(L, k, K)
        /\ \A i, j \in DOMAIN K : K[i] = K[j] => i = j
        /\ {K[i] : i \in DOMAIN K} = {L[i] : i \in DOMAIN L} \ {L[k]}
  <2>1. \A i, j \in DOMAIN L : L[i] = L[j] => i = j
    BY <1>2
  <2>2. PICK K \in Seq(Node) : Without(L, k, K) /\ NoRepeats(K) /\ Elements(K) = Elements(L) \ {L[k]}
    BY <2>1, WithoutElement DEF NoRepeats
  <2>. QED BY <2>2 DEF NoRepeats, Elements
<1>4. PICK l \in Nat : l = Len(L)
  BY <1>2
<1>5. k \in 1 .. l /\ Len(K) = l - 1 /\ l > 0 /\ 1 \in 1 .. l /\ l \in 1 .. l
  BY <1>3, <1>4 DEF Without
<1>6. /\ tail = L[1] /\ head = L[l] /\ prev[L[l]] = NULL /\ next[L[1]] = NULL
  BY <1>2, <1>4, <1>5
<1>7. /\ DOMAIN K = 1 .. Len(K) /\ (K = << >> <=> Len(K) = 0)
      /\ \A i \in 1 .. Len(K) : K[i] \in Node
  BY Lengths
<1>11. \A i \in 1 .. Len(K) - 1 :
         \/ i \in 1 .. k - 2 /\ i + 1 \in 1 .. Len(L) /\ K[i] = L[i] /\ K[i + 1] = L[i + 1]
         \/ /\ i = k - 1 /\ k \in 2 .. Len(L) - 1
            /\ K[i] = L[k - 1] /\ K[i + 1] = L[k + 1]
         \/ /\ i \in k .. Len(L) - 2 /\ i + 1 \in 2 .. Len(L) - 1 /\ i + 2 \in 3 .. Len(L)
            /\ K[i] = L[i + 1] /\ K[i + 1] = L[i + 2]
  BY <1>3, WithoutNeighbours
(* The pointers of K, by where the node was.                               *)
<1>8. /\ Len(K) = 0 => head' = NULL /\ tail' = NULL
      /\ Len(K) > 0 => /\ tail' = K[1] /\ head' = K[Len(K)]
                       /\ prev'[K[Len(K)]] = NULL /\ next'[K[1]] = NULL
      /\ \A i \in 1 .. Len(K) - 1 : prev'[K[i]] = K[i + 1] /\ next'[K[i + 1]] = K[i]
      /\ head' \in Uq!Pointer /\ tail' \in Uq!Pointer
      /\ next' \in [Uq!Pointer -> Uq!Pointer] /\ prev' \in [Uq!Pointer -> Uq!Pointer]
      /\ next'[NULL] = next[NULL] /\ prev'[NULL] = prev[NULL]
  <2>1. CASE k = 1 /\ k = l
    <3>1. head' = NULL /\ tail' = NULL /\ next' = next /\ prev' = prev
      BY <1>4, <2>1, DetachPointers
    <3>2. Len(K) = 0 /\ 1 .. Len(K) - 1 = {}
      BY <1>5, <2>1
    <3>. QED BY <1>2, <3>1, <3>2
  <2>2. CASE k = 1 /\ k # l
    <3>1. /\ tail' = L[2] /\ head' = head /\ prev' = prev
          /\ next' = [next EXCEPT ![L[2]] = NULL]
      BY <1>4, <2>2, DetachPointers
    <3>2. Len(K) > 0 /\ K[1] = L[2] /\ K[Len(K)] = L[l] /\ 2 \in 1 .. l
      BY <1>3, <1>4, <1>5, <2>2, WithoutEnds
    <3>3. next'[L[2]] = NULL /\ \A q \in Uq!Pointer : q # L[2] => next'[q] = next[q]
      BY <1>2, <1>4, <3>1, <3>2
    <3>4. ASSUME NEW i \in 1 .. Len(K) - 1
          PROVE  prev'[K[i]] = K[i + 1] /\ next'[K[i + 1]] = K[i]
      <4>1. /\ i + 1 \in 2 .. l - 1 /\ i + 2 \in 3 .. l
            /\ K[i] = L[i + 1] /\ K[i + 1] = L[i + 2]
        <5>1. ~ (i \in 1 .. k - 2) /\ ~ (i = k - 1)
          BY <2>2
        <5>. QED BY <1>4, <1>11, <5>1
      <4>2. i + 1 \in 1 .. l - 1 /\ (i + 1) + 1 = i + 2 /\ i + 2 \in 1 .. l /\ i + 2 # 2
        BY <4>1
      <4>3. prev[L[i + 1]] = L[(i + 1) + 1] /\ next[L[(i + 1) + 1]] = L[i + 1]
        BY <1>2, <1>4, <4>2
      <4>4. L[i + 2] # L[2] /\ L[i + 2] \in Uq!Pointer
        BY <1>2, <1>4, <3>2, <4>2
      <4>. QED BY <3>1, <3>3, <4>1, <4>2, <4>3, <4>4
    <3>5. L[2] \in Uq!Pointer /\ L[l] \in Uq!Pointer /\ L[2] # NULL
      BY <1>2, <1>4, <1>5, <3>2
    <3>6. next' \in [Uq!Pointer -> Uq!Pointer] /\ prev' \in [Uq!Pointer -> Uq!Pointer]
      BY <1>2, <3>1
    <3>. QED BY <1>2, <1>6, <3>1, <3>2, <3>3, <3>4, <3>5, <3>6
  <2>3. CASE k # 1 /\ k = l
    <3>1. /\ head' = L[k - 1] /\ tail' = tail /\ next' = next
          /\ prev' = [prev EXCEPT ![L[k - 1]] = NULL]
      BY <1>4, <2>3, DetachPointers
    <3>2. Len(K) > 0 /\ K[1] = L[1] /\ K[Len(K)] = L[k - 1] /\ k - 1 \in 1 .. l
      <4>1. l # 1
        BY <2>3
      <4>2. k - 1 \in 1 .. l
        BY <1>5, <2>3
      <4>. QED BY <1>3, <1>4, <1>5, <2>3, <4>1, <4>2, WithoutEnds
    <3>3. prev'[L[k - 1]] = NULL /\ \A q \in Uq!Pointer : q # L[k - 1] => prev'[q] = prev[q]
      BY <1>2, <1>4, <3>1, <3>2
    <3>4. ASSUME NEW i \in 1 .. Len(K) - 1
          PROVE  prev'[K[i]] = K[i + 1] /\ next'[K[i + 1]] = K[i]
      <4>1. \/ i \in 1 .. k - 2 /\ K[i] = L[i] /\ K[i + 1] = L[i + 1]
            \/ k \in 2 .. l - 1
            \/ i \in k .. l - 2
        BY <1>4, <1>11
      <4>2. i \in 1 .. k - 2 /\ K[i] = L[i] /\ K[i + 1] = L[i + 1]
        <5>1. k \notin 2 .. l - 1
          BY <1>5, <2>3
        <5>2. i \notin k .. l - 2
          BY <1>5, <2>3
        <5>. QED BY <4>1, <5>1, <5>2
      <4>3. i \in 1 .. l - 1 /\ i \in 1 .. l /\ i # k - 1
        BY <1>5, <2>3, <4>2
      <4>4. prev[L[i]] = L[i + 1] /\ next[L[i + 1]] = L[i]
        BY <1>2, <1>4, <4>3
      <4>5. L[i] # L[k - 1] /\ L[i] \in Uq!Pointer
        BY <1>2, <1>4, <3>2, <4>3
      <4>. QED BY <3>1, <3>3, <4>2, <4>4, <4>5
    <3>5. L[1] \in Uq!Pointer /\ L[k - 1] \in Uq!Pointer /\ L[k - 1] # NULL
      BY <1>2, <1>4, <1>5, <3>2
    <3>6. next' \in [Uq!Pointer -> Uq!Pointer] /\ prev' \in [Uq!Pointer -> Uq!Pointer]
      BY <1>2, <3>1
    <3>. QED BY <1>2, <1>6, <3>1, <3>2, <3>3, <3>4, <3>5, <3>6
  <2>4. CASE k # 1 /\ k # l
    <3>1. /\ head' = head /\ tail' = tail
          /\ next' = [next EXCEPT ![L[k + 1]] = L[k - 1]]
          /\ prev' = [prev EXCEPT ![L[k - 1]] = L[k + 1]]
      BY <1>4, <2>4, DetachPointers
    <3>2. /\ Len(K) > 0 /\ K[1] = L[1] /\ K[Len(K)] = L[l]
          /\ k - 1 \in 1 .. l /\ k + 1 \in 1 .. l
      <4>1. Len(L) # 1 /\ K[1] = L[1] /\ K[Len(K)] = L[l]
        BY <1>3, <1>4, <1>5, <2>4, WithoutEnds
      <4>2. Len(K) > 0 /\ k - 1 \in 1 .. l /\ k + 1 \in 1 .. l
        BY <1>5, <2>4
      <4>. QED BY <4>1, <4>2
    <3>3. /\ L[1] \in Uq!Pointer /\ L[k - 1] \in Uq!Pointer /\ L[k - 1] # NULL
          /\ L[k + 1] \in Uq!Pointer /\ L[k + 1] # NULL /\ L[l] \in Uq!Pointer
          /\ L[1] # L[k + 1] /\ L[l] # L[k - 1]
      <4>1. 1 # k + 1 /\ l # k - 1
        BY <1>5, <2>4
      <4>. QED BY <1>2, <1>4, <1>5, <3>2, <4>1
    <3>4. /\ prev'[L[k - 1]] = L[k + 1] /\ \A q \in Uq!Pointer : q # L[k - 1] => prev'[q] = prev[q]
          /\ next'[L[k + 1]] = L[k - 1] /\ \A q \in Uq!Pointer : q # L[k + 1] => next'[q] = next[q]
      BY <1>2, <3>1, <3>3
    <3>5. ASSUME NEW i \in 1 .. Len(K) - 1
          PROVE  prev'[K[i]] = K[i + 1] /\ next'[K[i + 1]] = K[i]
      <4>1. \/ /\ i \in 1 .. k - 2 /\ i + 1 \in 1 .. l /\ K[i] = L[i] /\ K[i + 1] = L[i + 1]
            \/ K[i] = L[k - 1] /\ K[i + 1] = L[k + 1]
            \/ /\ i \in k .. l - 2 /\ i + 1 \in 2 .. l - 1 /\ i + 2 \in 3 .. l
               /\ K[i] = L[i + 1] /\ K[i + 1] = L[i + 2]
        BY <1>4, <1>11
      <4>2. CASE /\ i \in 1 .. k - 2 /\ i + 1 \in 1 .. l
                 /\ K[i] = L[i] /\ K[i + 1] = L[i + 1]
        <5>1. i \in 1 .. l - 1 /\ i \in 1 .. l /\ i # k - 1 /\ i + 1 # k + 1
          BY <1>5, <4>2
        <5>2. prev[L[i]] = L[i + 1] /\ next[L[i + 1]] = L[i]
          BY <1>2, <1>4, <5>1
        <5>3. /\ L[i] # L[k - 1] /\ L[i] \in Uq!Pointer
              /\ L[i + 1] # L[k + 1] /\ L[i + 1] \in Uq!Pointer
          BY <1>2, <1>4, <3>2, <4>2, <5>1
        <5>. QED BY <3>4, <4>2, <5>2, <5>3
      <4>3. CASE K[i] = L[k - 1] /\ K[i + 1] = L[k + 1]
        BY <3>4, <4>3
      <4>4. CASE /\ i \in k .. l - 2 /\ i + 1 \in 2 .. l - 1 /\ i + 2 \in 3 .. l
                 /\ K[i] = L[i + 1] /\ K[i + 1] = L[i + 2]
        <5>1. /\ i + 1 \in 1 .. l - 1 /\ i + 1 \in 1 .. l /\ i + 2 \in 1 .. l
              /\ (i + 1) + 1 = i + 2 /\ i + 1 # k - 1 /\ i + 2 # k + 1
          BY SMTT(60), <1>5, <4>4
        <5>2. prev[L[i + 1]] = L[(i + 1) + 1] /\ next[L[(i + 1) + 1]] = L[i + 1]
          BY <1>2, <1>4, <5>1
        <5>3. /\ L[i + 1] # L[k - 1] /\ L[i + 1] \in Uq!Pointer
              /\ L[i + 2] # L[k + 1] /\ L[i + 2] \in Uq!Pointer
          BY <1>2, <1>4, <3>2, <5>1
        <5>. QED BY <3>4, <4>4, <5>1, <5>2, <5>3
      <4>. QED BY <4>1, <4>2, <4>3, <4>4
    <3>6. next' \in [Uq!Pointer -> Uq!Pointer] /\ prev' \in [Uq!Pointer -> Uq!Pointer]
      BY <1>2, <3>1, <3>3
    <3>. QED BY <1>2, <1>6, <3>1, <3>2, <3>3, <3>4, <3>5, <3>6
  <2>. QED BY <2>1, <2>2, <2>3, <2>4
<1>9. UqTypes'
  <2>1. /\ uq_size' \in Nat /\ allocated' \subseteq Node /\ uq_found' \in Uq!Notif
    <3>1. uq_size' = l - 1 /\ l - 1 \in Nat
      BY <1>1, <1>2, <1>4, <1>5
    <3>2. L[k] \in Uq!Pointer
      BY <1>2
    <3>. QED BY <1>1, <1>2, <3>1, <3>2
  <2>. QED BY <1>1, <1>2, <1>8, <2>1 DEF UqTypes, Uq!TypeOK
<1>10. Linked(K)'
  <2>1. allocated' = {K[i] : i \in DOMAIN K} /\ uq_size' = Len(K)
    BY <1>1, <1>2, <1>3, <1>4, <1>5
  <2>. QED BY <1>3, <1>7, <1>8, <2>1 DEF Linked
<1>. QED BY <1>1, <1>3, <1>9, <1>10

(* Removing the k-th of a sequence.                                        *)
LEMMA RemoveAtIs ==
  ASSUME NEW S, NEW q \in Seq(S), NEW k \in 1 .. Len(q),
         NEW r \in Seq(S), Without(q, k, r)
  PROVE  r = Uq!Oldest!RemoveAt(q, k)
<1>1. PICK l \in Nat : l = Len(q)
  BY Lengths
<1>2. k \in 1 .. l /\ k \in Nat
  BY <1>1
<1>3. PICK a : a = SubSeq(q, 1, k - 1)
  OBVIOUS
<1>4. PICK b : b = SubSeq(q, k + 1, l)
  OBVIOUS
<1>5. a \in Seq(S) /\ Len(a) = k - 1 /\ \A i \in 1 .. k - 1 : a[i] = q[i]
  <2>1. \A i \in 1 .. k - 1 : i \in 1 .. l
    BY <1>2
  <2>2. \A i \in 1 .. k - 1 : q[i] \in S
    BY <1>1, <2>1, Lengths
  <2>3. 1 \in Int /\ k - 1 \in Int
    BY <1>2
  <2>4. /\ a \in Seq(S) /\ Len(a) = IF 1 <= k - 1 THEN (k - 1) - 1 + 1 ELSE 0
        /\ \A i \in 1 .. (k - 1) - 1 + 1 : a[i] = q[1 + i - 1]
    BY <1>3, <2>2, <2>3, SubSeqProperties
  <2>5. (k - 1) - 1 + 1 = k - 1 /\ \A i \in 1 .. k - 1 : 1 + i - 1 = i
    BY <1>2
  <2>. QED BY <1>2, <2>4, <2>5
<1>6. b \in Seq(S) /\ Len(b) = l - k /\ \A i \in 1 .. l - k : b[i] = q[k + i]
  <2>1. \A i \in k + 1 .. l : i \in 1 .. l
    BY <1>2
  <2>2. \A i \in k + 1 .. l : q[i] \in S
    BY <1>1, <2>1, Lengths
  <2>3. k + 1 \in Int /\ l \in Int
    BY <1>2
  <2>4. /\ b \in Seq(S) /\ Len(b) = IF k + 1 <= l THEN l - (k + 1) + 1 ELSE 0
        /\ \A i \in 1 .. l - (k + 1) + 1 : b[i] = q[(k + 1) + i - 1]
    BY <1>4, <2>2, <2>3, SubSeqProperties
  <2>5. l - (k + 1) + 1 = l - k /\ \A i \in 1 .. l - k : (k + 1) + i - 1 = k + i
    BY <1>2
  <2>. QED BY <1>2, <2>4, <2>5
<1>7. PICK c : c = a \o b
  OBVIOUS
<1>8. /\ c \in Seq(S) /\ Len(c) = l - 1
      /\ \A i \in 1 .. l - 1 : c[i] = IF i <= Len(a) THEN a[i] ELSE b[i - Len(a)]
  <2>1. /\ c \in Seq(S) /\ Len(c) = Len(a) + Len(b)
        /\ \A i \in 1 .. Len(a) + Len(b) : c[i] = IF i <= Len(a) THEN a[i] ELSE b[i - Len(a)]
    BY <1>5, <1>6, <1>7, ConcatProperties
  <2>2. Len(a) + Len(b) = l - 1
    BY <1>2, <1>5, <1>6
  <2>. QED BY <2>1, <2>2
<1>9. ASSUME NEW i \in 1 .. l - 1 PROVE c[i] = r[i]
  <2>1. c[i] = IF i <= Len(a) THEN a[i] ELSE b[i - Len(a)]
    BY <1>8
  <2>2. CASE i \in 1 .. k - 1
    <3>1. c[i] = a[i]
      BY <1>2, <1>5, <2>1, <2>2
    <3>2. r[i] = q[i]
      BY <2>2 DEF Without
    <3>. QED BY <1>5, <2>2, <3>1, <3>2
  <2>3. CASE i \in k .. l - 1
    <3>1. i - (k - 1) \in 1 .. l - k /\ k + (i - (k - 1)) = i + 1 /\ ~ (i <= k - 1)
      BY <1>2, <2>3
    <3>2. c[i] = b[i - (k - 1)]
      BY <1>5, <2>1, <3>1
    <3>3. b[i - (k - 1)] = q[k + (i - (k - 1))]
      BY <1>6, <3>1
    <3>4. r[i] = q[i + 1]
      BY <1>1, <2>3 DEF Without
    <3>. QED BY <3>1, <3>2, <3>3, <3>4
  <2>. QED BY <1>2, <2>2, <2>3
<1>10. Len(r) = l - 1
  BY <1>1 DEF Without
<1>11. c = r
  BY <1>8, <1>9, <1>10, SeqEqual
<1>12. Uq!Oldest!RemoveAt(q, k) = SubSeq(q, 1, k - 1) \o SubSeq(q, k + 1, Len(q))
  BY DEF Uq!Oldest!RemoveAt
<1>. QED BY <1>1, <1>3, <1>4, <1>7, <1>11, <1>12

\* the queue the list stands for, as ImplementsUq has it
UqQueue == [i \in 1 .. uq_size |-> data[Uq!FromTail[i]]]

(* It holds what the nodes hold.                                           *)
LEMMA QueueIsL ==
  UqTypes => \A L \in Seq(Node) : Linked(L) =>
    UqQueue \in Seq(Uq!Notif) /\ Len(UqQueue) = Len(L) /\ \A i \in 1 .. Len(L) : UqQueue[i] = data[L[i]]
<1>. SUFFICES ASSUME UqTypes, NEW L \in Seq(Node), Linked(L)
              PROVE  /\ UqQueue \in Seq(Uq!Notif) /\ Len(UqQueue) = Len(L)
                     /\ \A i \in 1 .. Len(L) : UqQueue[i] = data[L[i]]
  OBVIOUS
<1>1. PICK l \in Nat : l = Len(L) /\ l = uq_size
  BY ListFacts
<1>2. \A i \in 1 .. l : Uq!FromTail[i] = L[i] /\ data[L[i]] \in Uq!Notif
  <2>1. Cardinality(Node) \in Nat /\ l <= Cardinality(Node)
    BY <1>1, ListFits
  <2>2. \A i \in 1 .. l : i \in 1 .. Cardinality(Node) /\ i <= l
    BY <2>1
  <2>3. \A i \in 1 .. l : Uq!FromTail[i] = L[i]
    BY <1>1, <2>2, FromTailIsL
  <2>4. \A i \in 1 .. l : L[i] \in Uq!Pointer
    BY <1>1, ListFacts
  <2>. QED BY <2>3, <2>4, ListFacts
<1>3. UqQueue = [i \in 1 .. l |-> data[L[i]]]
  BY <1>1, <1>2 DEF UqQueue
<1>4. UqQueue \in [1 .. l -> Uq!Notif] /\ DOMAIN UqQueue = 1 .. l
  BY <1>2, <1>3
<1>5. UqQueue \in Seq(Uq!Notif)
  BY <1>4, SeqDef
<1>. QED BY <1>1, <1>3, <1>4, <1>5, LenProperties

(* So it does after a step.                                                *)
LEMMA QueueIsLNext ==
  UqTypes' => \A L \in Seq(Node) : Linked(L)' =>
    /\ UqQueue' \in Seq(Uq!Notif) /\ Len(UqQueue') = Len(L)
    /\ \A i \in 1 .. Len(L) : UqQueue'[i] = data'[L[i]]
<1>. DEFINE Holds == \A L \in Seq(Node) : Linked(L) =>
                       /\ UqQueue \in Seq(Uq!Notif) /\ Len(UqQueue) = Len(L)
                       /\ \A i \in 1 .. Len(L) : UqQueue[i] = data[L[i]]
<1>1. UqTypes => Holds
  BY QueueIsL
<1>2. UqTypes' => Holds'
  <2>. HIDE DEF Holds
  <2>. QED BY <1>1, PTL
<1>. QED BY <1>2

(* What a search meets are the fitting entries of the queue.               *)
LEMMA HitsAre ==
  ASSUME UqTypes, NEW L \in Seq(Node), Linked(L), NEW w
  PROVE  /\ Uq!Hits(w) = {i \in DOMAIN UqQueue : Uq!Fits(w, UqQueue[i])}
         /\ DOMAIN UqQueue = 1 .. Len(L)
         /\ \A i \in Uq!Hits(w) : i \in 1 .. Len(L) /\ Uq!FromTail[i] = L[i]
<1>1. UqQueue \in Seq(Uq!Notif) /\ Len(UqQueue) = Len(L) /\ \A i \in 1 .. Len(L) : UqQueue[i] = data[L[i]]
  BY QueueIsL
<1>2. DOMAIN UqQueue = 1 .. Len(L)
  BY <1>1, LenProperties
<1>3. PICK l \in Nat : l = Len(L)
  BY ListFacts
<1>4. Cardinality(Node) \in Nat /\ l <= Cardinality(Node)
  BY <1>3, ListFits
<1>5. \A i \in 1 .. l : L[i] \in Node /\ L[i] # NULL /\ NULL \notin Node
  BY <1>3, ListFacts
<1>6. PICK F : F = Uq!FromTail
  OBVIOUS
<1>7. DOMAIN F = 1 .. Cardinality(Node)
      /\ \A i \in 1 .. Cardinality(Node) : F[i] = IF i <= l THEN L[i] ELSE NULL
  BY <1>3, <1>6, FromTailIsL
<1>8. \A i \in DOMAIN F : F[i] \in Node <=> i \in 1 .. l
  BY <1>4, <1>5, <1>7, NamesAssumption
<1>9. \A i \in 1 .. l : i \in DOMAIN F /\ F[i] = L[i]
  BY <1>4, <1>7
<1>10. Uq!Hits(w) = {i \in DOMAIN F : F[i] \in Node /\ Uq!Fits(w, data[F[i]])}
  BY <1>6 DEF Uq!Hits
<1>11. Uq!Hits(w) = {i \in 1 .. l : Uq!Fits(w, data[L[i]])}
  BY <1>8, <1>9, <1>10
<1>. QED BY <1>1, <1>2, <1>3, <1>6, <1>9, <1>11

(* Detaching and freeing the k-th node removes the k-th entry.             *)
LEMMA RemoveStep ==
  ASSUME UqTypes, NEW L \in Seq(Node), Linked(L), NEW k \in 1 .. Len(L),
         Uq!Detach(L[k]), Uq!Return(L[k])
  PROVE  /\ UqInvariant'
         /\ UqQueue' = Uq!Oldest!RemoveAt(UqQueue, k)
         /\ uq_found' = UqQueue[k]
<1>1. UqTypes' /\ data' = data /\ uq_found' = data[L[k]]
  BY DetachStep
<1>2. PICK K \in Seq(Node) : Without(L, k, K) /\ Linked(K)'
  BY DetachStep
<1>3. UqInvariant'
  BY <1>1, <1>2 DEF UqInvariant
<1>4. UqQueue \in Seq(Uq!Notif) /\ Len(UqQueue) = Len(L) /\ \A i \in 1 .. Len(L) : UqQueue[i] = data[L[i]]
  BY QueueIsL
<1>5. /\ UqQueue' \in Seq(Uq!Notif) /\ Len(UqQueue') = Len(K)
      /\ \A i \in 1 .. Len(K) : UqQueue'[i] = data'[K[i]]
  BY <1>1, <1>2, QueueIsLNext
<1>6. PICK l \in Nat : l = Len(L)
  BY ListFacts
<1>7. Without(UqQueue, k, UqQueue')
  <2>1. Len(K) = l - 1 /\ k \in 1 .. l
    BY <1>2, <1>6 DEF Without
  <2>2. ASSUME NEW i \in 1 .. k - 1 PROVE UqQueue'[i] = UqQueue[i]
    <3>1. i \in 1 .. l - 1 /\ i \in 1 .. l
      BY <2>1
    <3>2. K[i] = L[i]
      BY <1>2 DEF Without
    <3>. QED BY <1>1, <1>4, <1>5, <1>6, <2>1, <3>1, <3>2
  <2>3. ASSUME NEW i \in k .. l - 1 PROVE UqQueue'[i] = UqQueue[i + 1]
    <3>1. i \in 1 .. l - 1 /\ i + 1 \in 1 .. l
      BY <2>1
    <3>2. K[i] = L[i + 1]
      BY <1>2, <1>6 DEF Without
    <3>. QED BY <1>1, <1>4, <1>5, <1>6, <2>1, <3>1, <3>2
  <2>. QED BY <1>4, <1>5, <1>6, <2>1, <2>2, <2>3 DEF Without
<1>8. \A q \in Seq(Uq!Notif) : \A r \in Seq(Uq!Notif) :
        k \in 1 .. Len(q) /\ Without(q, k, r) => r = Uq!Oldest!RemoveAt(q, k)
  BY RemoveAtIs
<1>9. UqQueue' = Uq!Oldest!RemoveAt(UqQueue, k)
  BY <1>4, <1>5, <1>7, <1>8
<1>. QED BY <1>1, <1>3, <1>4, <1>9

(* What the abstract queue does, said of UqQueue: a push,                    *)
LEMMA OldestPush ==
  ASSUME NEW n, UqQueue' = Append(UqQueue, n), uq_found' = uq_found
  PROVE  Uq!Oldest!Push(n)
BY Zenon DEF Uq!Oldest!Push, UqQueue

(* a search that finds nothing,                                            *)
LEMMA OldestNothing ==
  ASSUME NEW w, {i \in DOMAIN UqQueue : Uq!Fits(w, UqQueue[i])} = {},
         uq_found' = NoMatch, UqQueue' = UqQueue
  PROVE  Uq!Oldest!TakeOldest(w)
BY Zenon DEF Uq!Oldest!TakeOldest, UqQueue

(* and one that takes the oldest entry that fits.                          *)
LEMMA OldestTaken ==
  ASSUME NEW w, NEW k \in DOMAIN UqQueue, Uq!Fits(w, UqQueue[k]),
         \A j \in DOMAIN UqQueue : Uq!Fits(w, UqQueue[j]) => k <= j,
         uq_found' = UqQueue[k], UqQueue' = Uq!Oldest!RemoveAt(UqQueue, k)
  PROVE  Uq!Oldest!TakeOldest(w)
<1>1. PICK fit : fit = {i \in DOMAIN UqQueue : Uq!Fits(w, UqQueue[i])}
  OBVIOUS
<1>2. fit # {} /\ k \in fit /\ \A j \in fit : k <= j
  BY <1>1
<1>3. IF fit = {} THEN uq_found' = NoMatch /\ UNCHANGED UqQueue
      ELSE \E i \in fit : /\ \A j \in fit : i <= j
                          /\ uq_found' = UqQueue[i]
                          /\ UqQueue' = Uq!Oldest!RemoveAt(UqQueue, i)
  BY <1>2
<1>. QED BY <1>1, <1>3, Zenon DEF Uq!Oldest!TakeOldest, UqQueue

(* Every step keeps the list and is a step of the abstract queue.          *)
LEMMA UqStep ==
  ASSUME UqInvariant, [Uq!Next]_(Uq!vars)
  PROVE  UqInvariant' /\ [Uq!Oldest!Next]_(Uq!Oldest!vars)
<1>1. PICK L \in Seq(Node) : Linked(L)
  BY DEF UqInvariant
<1>2. UqTypes
  BY DEF UqInvariant
<1>3. UqQueue \in Seq(Uq!Notif) /\ Len(UqQueue) = Len(L) /\ \A i \in 1 .. Len(L) : UqQueue[i] = data[L[i]]
  BY <1>1, <1>2, QueueIsL
<1>4. PICK l \in Nat : l = Len(L)
  BY Lengths
<1>5. ASSUME UNCHANGED <<head, tail, uq_size, next, prev, data, allocated>>,
             uq_found' \in Uq!Notif \cup {NoMatch}
      PROVE  UqInvariant' /\ UqQueue' = UqQueue
  <2>1. UqTypes' /\ Linked(L)'
    BY <1>1, <1>2, <1>5 DEF UqTypes, Uq!TypeOK, Linked
  <2>2. UqInvariant'
    BY <1>1, <2>1 DEF UqInvariant
  <2>3. /\ UqQueue' \in Seq(Uq!Notif) /\ Len(UqQueue') = Len(L)
        /\ \A i \in 1 .. Len(L) : UqQueue'[i] = data'[L[i]]
    BY <1>1, <2>1, QueueIsLNext
  <2>4. UqQueue' = UqQueue
    BY <1>3, <1>5, <2>3, SeqEqual
  <2>. QED BY <2>2, <2>4
<1>6. ASSUME NEW n \in Uq!Notif, Uq!Push(n)
      PROVE  UqInvariant' /\ Uq!Oldest!Push(n)
  <2>1. PICK p \in Node, K \in Seq(Node) :
          p \notin allocated /\ data' = [data EXCEPT ![p] = n] /\ K = Append(L, p) /\ Linked(K)'
    BY <1>1, <1>2, <1>6, PushStep
  <2>2. UqTypes'
    BY <1>1, <1>2, <1>6, PushStep
  <2>3. UqInvariant'
    BY <2>1, <2>2 DEF UqInvariant
  <2>4. Len(K) = Len(L) + 1 /\ K[Len(L) + 1] = p /\ \A i \in 1 .. Len(L) : K[i] = L[i]
    BY <2>1, AppendProperties
  <2>5. /\ UqQueue' \in Seq(Uq!Notif) /\ Len(UqQueue') = Len(K)
        /\ \A i \in 1 .. Len(K) : UqQueue'[i] = data'[K[i]]
    BY <2>1, <2>2, QueueIsLNext
  <2>6. PICK r : r = Append(UqQueue, n)
    OBVIOUS
  <2>7. /\ r \in Seq(Uq!Notif) /\ Len(r) = Len(UqQueue) + 1
        /\ \A i \in 1 .. Len(UqQueue) : r[i] = UqQueue[i]
        /\ r[Len(UqQueue) + 1] = n
    BY <1>3, <2>6, AppendProperties
  <2>8. /\ data'[p] = n /\ \A i \in 1 .. l : L[i] # p /\ data'[L[i]] = data[L[i]]
    <3>1. /\ \A i \in 1 .. l : L[i] \in allocated /\ L[i] \in Uq!Pointer
          /\ data \in [Uq!Pointer -> Uq!Notif]
      <4>1. /\ \A i \in 1 .. Len(L) : L[i] \in Uq!Pointer
            /\ allocated = {L[i] : i \in 1 .. Len(L)}
            /\ data \in [Uq!Pointer -> Uq!Notif]
        BY <1>1, <1>2, ListFacts
      <4>2. \A i \in 1 .. l : L[i] \in allocated /\ L[i] \in Uq!Pointer
        BY <1>4, <4>1
      <4>. QED BY <4>1, <4>2
    <3>2. p \in Uq!Pointer
      BY DEF Uq!Pointer
    <3>3. p \notin allocated /\ data' = [data EXCEPT ![p] = n]
      BY <2>1
    <3>4. data'[p] = n /\ \A q \in Uq!Pointer : q # p => data'[q] = data[q]
      BY <3>1, <3>2, <3>3
    <3>5. \A i \in 1 .. l : L[i] # p
      BY <3>1, <3>3
    <3>. QED BY <3>1, <3>4, <3>5
  <2>9. ASSUME NEW i \in 1 .. l + 1 PROVE UqQueue'[i] = r[i]
    <3>1. CASE i = l + 1
      <4>1. UqQueue'[i] = data'[K[i]] /\ K[i] = p /\ r[i] = n
        BY <1>3, <1>4, <2>4, <2>5, <2>7, <3>1
      <4>. QED BY <2>8, <4>1
    <3>2. CASE i \in 1 .. l
      <4>1. UqQueue'[i] = data'[K[i]] /\ K[i] = L[i] /\ r[i] = UqQueue[i] /\ UqQueue[i] = data[L[i]]
        BY <1>3, <1>4, <2>4, <2>5, <2>7, <3>2
      <4>. QED BY <2>8, <3>2, <4>1
    <3>. QED BY <1>4, <3>1, <3>2
  <2>10. UqQueue' = r
    <3>1. Len(UqQueue') = l + 1 /\ Len(r) = l + 1
      BY <1>3, <1>4, <2>4, <2>5, <2>7
    <3>. QED BY <2>5, <2>7, <2>9, <3>1, SeqEqual
  <2>11. uq_found' = uq_found
    BY <1>6 DEF Uq!Push
  <2>. QED BY <2>3, <2>6, <2>10, <2>11, OldestPush
<1>7. ASSUME Uq!Pop
      PROVE  UqInvariant' /\ Uq!Oldest!TakeOldest(<<Wild, Wild>>)
  <2>1. CASE uq_size = 0
    <3>1. UNCHANGED <<head, tail, uq_size, next, prev, data, allocated>> /\ uq_found' = NoMatch
      BY <1>7, <2>1 DEF Uq!Pop
    <3>2. UqInvariant' /\ UqQueue' = UqQueue
      BY <1>5, <3>1
    <3>3. {i \in DOMAIN UqQueue : Uq!Fits(<<Wild, Wild>>, UqQueue[i])} = {}
      <4>1. DOMAIN UqQueue = 1 .. 0
        BY <2>1 DEF UqQueue
      <4>. QED BY <4>1
    <3>. QED BY <3>1, <3>2, <3>3, OldestNothing
  <2>2. CASE uq_size # 0
    <3>1. l = uq_size /\ l > 0 /\ 1 \in 1 .. l /\ tail = L[1] /\ head = L[l] /\ L[1] \in Node
      <4>1. l = uq_size /\ l > 0
        BY <1>1, <1>2, <1>4, <2>2, ListFacts
      <4>2. 1 \in 1 .. l
        BY <4>1
      <4>. QED BY <1>1, <1>2, <1>4, <4>1, <4>2, ListFacts
    <3>2. Uq!Return(L[1])
      BY <1>7, <2>2, <3>1 DEF Uq!Pop
    <3>3. Uq!Detach(L[1])
      <4>1. CASE l = 1
        <5>1. prev[tail] = NULL
          BY ZenonT(60), <1>1, <1>2, <1>4, <3>1, <4>1, ListFacts
        <5>. QED BY <1>7, <2>2, <3>1, <4>1, <5>1 DEF Uq!Pop, Uq!Detach
      <4>2. CASE l # 1
        <5>1. 1 \in 1 .. l - 1 /\ 2 \in 1 .. l /\ l \in 1 .. l /\ 1 + 1 = 2
          BY <3>1, <4>2
        <5>2. prev[tail] = L[2] /\ L[2] # NULL /\ L[1] # L[l]
          BY <1>1, <1>2, <1>4, <3>1, <4>2, <5>1, ListFacts
        <5>. QED BY <1>7, <2>2, <3>1, <4>2, <5>2 DEF Uq!Pop, Uq!Detach
      <4>. QED BY <4>1, <4>2
    <3>4. UqInvariant' /\ UqQueue' = Uq!Oldest!RemoveAt(UqQueue, 1) /\ uq_found' = UqQueue[1]
      BY <1>1, <1>2, <1>4, <3>1, <3>2, <3>3, RemoveStep
    <3>5. DOMAIN UqQueue = 1 .. l /\ \A j \in 1 .. l : 1 <= j
      BY <1>3, <1>4, LenProperties
    <3>6. Uq!Fits(<<Wild, Wild>>, UqQueue[1])
      BY DEF Uq!Fits
    <3>. QED BY <3>1, <3>4, <3>5, <3>6, OldestTaken
  <2>. QED BY <2>1, <2>2
<1>8. ASSUME NEW w \in Uq!Pattern, Uq!SearchRemove(w)
      PROVE  UqInvariant' /\ Uq!Oldest!TakeOldest(w)
  <2>1. /\ Uq!Hits(w) = {i \in DOMAIN UqQueue : Uq!Fits(w, UqQueue[i])}
        /\ DOMAIN UqQueue = 1 .. Len(L)
        /\ \A i \in Uq!Hits(w) : i \in 1 .. Len(L) /\ Uq!FromTail[i] = L[i]
    BY <1>1, <1>2, HitsAre
  <2>2. CASE uq_size = 0 \/ Uq!Hits(w) = {}
    <3>1. UNCHANGED <<head, tail, uq_size, next, prev, data, allocated>> /\ uq_found' = NoMatch
      BY <1>8, <2>2 DEF Uq!SearchRemove
    <3>2. UqInvariant' /\ UqQueue' = UqQueue
      BY <1>5, <3>1
    <3>3. {i \in DOMAIN UqQueue : Uq!Fits(w, UqQueue[i])} = {}
      <4>1. uq_size = 0 => DOMAIN UqQueue = 1 .. 0
        BY DEF UqQueue
      <4>. QED BY <2>1, <2>2, <4>1
    <3>. QED BY <3>1, <3>2, <3>3, OldestNothing
  <2>3. CASE ~ (uq_size = 0 \/ Uq!Hits(w) = {})
    <3>1. PICK k \in Uq!Hits(w) : /\ \A j \in Uq!Hits(w) : k <= j
                                 /\ Uq!Detach(Uq!FromTail[k])
                                 /\ Uq!Return(Uq!FromTail[k])
      BY <1>8, <2>3 DEF Uq!SearchRemove
    <3>2. k \in 1 .. Len(L) /\ Uq!FromTail[k] = L[k]
      BY <2>1, <3>1
    <3>3. UqInvariant' /\ UqQueue' = Uq!Oldest!RemoveAt(UqQueue, k) /\ uq_found' = UqQueue[k]
      BY <1>1, <1>2, <3>1, <3>2, RemoveStep
    <3>4. /\ k \in DOMAIN UqQueue /\ Uq!Fits(w, UqQueue[k])
          /\ \A j \in DOMAIN UqQueue : Uq!Fits(w, UqQueue[j]) => k <= j
      BY <2>1, <3>1
    <3>. QED BY <3>3, <3>4, OldestTaken
  <2>. QED BY <2>2, <2>3
<1>9. CASE UNCHANGED Uq!vars
  <2>1. UNCHANGED <<head, tail, uq_size, next, prev, data, allocated>> /\ uq_found' = uq_found
    BY <1>9 DEF Uq!vars
  <2>2. uq_found' \in Uq!Notif \cup {NoMatch}
    BY <1>2, <2>1 DEF UqTypes, Uq!TypeOK
  <2>3. UqInvariant' /\ UqQueue' = UqQueue
    BY <1>5, <2>1, <2>2
  <2>4. UNCHANGED Uq!Oldest!vars
    BY <2>1, <2>3, Zenon DEF Uq!Oldest!vars, UqQueue
  <2>. QED BY <2>3, <2>4
<1>10. <<Wild, Wild>> \in Uq!Pattern
  BY DEF Uq!Pattern
<1>11. CASE Uq!Next
  <2>1. CASE \E n \in Uq!Notif : Uq!Push(n)
    BY <1>6, <2>1 DEF Uq!Oldest!Next
  <2>2. CASE Uq!Pop
    BY <1>7, <1>10, <2>2 DEF Uq!Oldest!Next
  <2>3. CASE \E w \in Uq!Pattern \ {<<Wild, Wild>>} : Uq!SearchRemove(w)
    BY <1>8, <2>3 DEF Uq!Oldest!Next
  <2>. QED BY <1>11, <2>1, <2>2, <2>3 DEF Uq!Next
<1>. QED BY <1>9, <1>11

(* The list of unexpected notifications is one list of all that is         *)
(* allocated, from the tail and from the head (fompi_notif_uq.c: what      *)
(* _uq_remove_tail and _uq_node_detach rely on).                           *)
THEOREM WellLinkedCorrect == Uq!Spec => []WellLinked
<1>1. UqInvariant => WellLinked
  <2>. SUFFICES ASSUME UqInvariant PROVE Uq!WellLinked
    BY DEF WellLinked
  <2>1. PICK L \in Seq(Node) : Linked(L)
    BY DEF UqInvariant
  <2>2. UqTypes
    BY DEF UqInvariant
  <2>3. PICK l \in Nat : l = Len(L)
    BY Lengths
  <2>4. /\ \A i \in 1 .. l : L[i] \in Node
        /\ \A i, j \in 1 .. l : L[i] = L[j] => i = j
        /\ allocated = {L[i] : i \in 1 .. l}
        /\ uq_size = l /\ DOMAIN L = 1 .. l
        /\ l = 0 => head = NULL /\ tail = NULL
        /\ l > 0 => /\ tail = L[1] /\ head = L[l]
                    /\ prev[L[l]] = NULL /\ next[L[1]] = NULL
    BY <2>1, <2>2, <2>3, ListFacts
  <2>5. uq_size = Uq!Cardinality(allocated)
    <3>1. L \in [1 .. l -> allocated]
      BY <2>1, <2>3, <2>4, Lengths
    <3>2. L \in Bijection(1 .. l, allocated)
      BY <2>4, <3>1 DEF Bijection, Injection, Surjection, IsInjective
    <3>3. ExistsBijection(1 .. l, allocated)
      BY <3>2 DEF ExistsBijection
    <3>4. Cardinality(allocated) = l
      BY <3>3, FS_CountingElements
    <3>. QED BY <2>4, <3>4, UqCardinality
  <2>6. Cardinality(Node) \in Nat /\ l <= Cardinality(Node)
    BY <2>1, <2>3, ListFits
  <2>7. \A i \in 1 .. l : i \in 1 .. Cardinality(Node) /\ i <= l
    BY <2>6
  <2>8. \A i \in 1 .. l : Uq!FromTail[i] = L[i]
    BY <2>1, <2>2, <2>3, <2>7, FromTailIsL
  <2>9. \A i \in 1 .. l : Uq!FromHead[i] = L[l + 1 - i]
    BY <2>1, <2>2, <2>3, <2>7, FromHeadIsL
  <2>10. {Uq!FromTail[i] : i \in 1 .. uq_size} = allocated
    BY <2>4, <2>8
  <2>11. \A i \in 1 .. uq_size : Uq!FromHead[i] = Uq!FromTail[uq_size + 1 - i]
    <3>1. \A i \in 1 .. l : l + 1 - i \in 1 .. l
      OBVIOUS
    <3>. QED BY <2>4, <2>8, <2>9, <3>1
  <2>12. uq_size = 0 => head = NULL /\ tail = NULL
    BY <2>4
  <2>13. uq_size > 0 => prev[head] = NULL /\ next[tail] = NULL
    BY <2>4
  <2>. QED BY <2>2, <2>5, <2>10, <2>11, <2>12, <2>13 DEF Uq!WellLinked, UqTypes
<1>2. UqInvariant /\ [Uq!Next]_(Uq!vars) => UqInvariant'
  BY UqStep
<1>. QED BY <1>1, <1>2, UqInit, PTL DEF Uq!Spec

(* The list is a queue that matches oldest first, whatever was taken out   *)
(* of its middle: AbstractUq.                                              *)
THEOREM QueueImplementsUq == Uq!Spec => ImplementsUq
<1>1. Uq!Init => Uq!Oldest!Init
  <2>. SUFFICES ASSUME Uq!Init PROVE Uq!Oldest!Init
    OBVIOUS
  <2>1. uq_size = 0 /\ uq_found = NoMatch
    BY DEF Uq!Init
  <2>2. UqQueue = << >>
    BY <2>1 DEF UqQueue
  <2>. QED BY <2>1, <2>2, Zenon DEF Uq!Oldest!Init, UqQueue
<1>2. UqInvariant /\ [Uq!Next]_(Uq!vars) => UqInvariant' /\ [Uq!Oldest!Next]_(Uq!Oldest!vars)
  BY UqStep
<1>. QED BY <1>1, <1>2, UqInit, PTL DEF Uq!Spec, ImplementsUq, Uq!ImplementsUq, Uq!Oldest!Spec

---------------------------------------------------------------------------
(* The tables of the Fortran interface.                                    *)

Variable == Fortran!Variable
Object == {NullObject, "window", "persistent", "operation"}

\* v holds an entry of table k
Has(k, h, v) == v \in Variable /\ Fortran!KindOf(v) = k /\ h[v] # -1

(* One table: whether it is made (m), its size n, its free list f, its     *)
(* entries e; and the handles h and objects o of the program.  The free    *)
(* indices that no entry has been assigned to yet are the highest, in      *)
(* order at the end of f: an entry is never skipped.                       *)
Sound(k, m, n, f, e, h, o) ==
  /\ ~m => Len(e) = 0 /\ Len(f) = 0 /\ n = First /\ \A v \in Variable : ~Has(k, h, v)
  /\ Len(e) <= n
  /\ \A v \in Variable : Has(k, h, v) =>
       /\ h[v] < Len(e)
       /\ (e[h[v] + 1] = v \/ (e[h[v] + 1] = NullObject /\ o[v] = "operation"))
       /\ \A w \in Variable : (Has(k, h, w) /\ h[v] = h[w]) => v = w
       /\ \A i \in 1 .. Len(f) : f[i] # h[v]
  /\ \A i \in 1 .. Len(f) : f[i] < n
  /\ \A i, j \in 1 .. Len(f) : f[i] = f[j] => i = j
  /\ m => \A x \in 0 .. n - 1 : \/ \E v \in Variable : Has(k, h, v) /\ h[v] = x
                                \/ \E i \in 1 .. Len(f) : f[i] = x
  /\ \A i \in 1 .. Len(f) : f[i] >= Len(e) => f[i] = n - 1 - Len(f) + i

FortranTypes ==
  /\ made \in [Fortran!Kind -> BOOLEAN] /\ table_size \in [Fortran!Kind -> Nat]
  /\ free \in [Fortran!Kind -> Seq(Nat)]
  /\ entry \in [Fortran!Kind -> Seq(Variable \cup {NullObject})]
  /\ handle \in [Variable -> {-1} \cup Nat] /\ object \in [Variable -> Object]

Tables(k) == Sound(k, made[k], table_size[k], free[k], entry[k], handle, object)
FortranInvariant == FortranTypes /\ (up => \A k \in Fortran!Kind : Tables(k))

\* x may be given out; it leaves a table of size n2 with free list f2
NewIndex(k, n, e, h, x, n2, f2) ==
  /\ x \in Nat /\ x <= Len(e) /\ x < n2 /\ n2 \in Nat /\ n2 >= n /\ f2 \in Seq(Nat)
  /\ \A v \in Variable : Has(k, h, v) => h[v] # x
  /\ \A i \in 1 .. Len(f2) : f2[i] < n2 /\ f2[i] # x
  /\ \A i, j \in 1 .. Len(f2) : f2[i] = f2[j] => i = j
  /\ \A i \in 1 .. Len(f2) : \A v \in Variable : Has(k, h, v) => f2[i] # h[v]
  /\ \A y \in 0 .. n2 - 1 : \/ y = x
                            \/ \E v \in Variable : Has(k, h, v) /\ h[v] = y
                            \/ \E i \in 1 .. Len(f2) : f2[i] = y
  /\ \A i \in 1 .. Len(f2) : f2[i] >= Len(e) => f2[i] = n2 - 1 - Len(f2) + i

(* What get_winidx and get_reqidx answer: an index nobody holds, no        *)
(* further than the entry after the last assigned one.                     *)
LEMMA IndexIsNew ==
  ASSUME NEW k \in Fortran!Kind, NEW m \in BOOLEAN, NEW n \in Nat, NEW f \in Seq(Nat),
         NEW e \in Seq(Variable \cup {NullObject}),
         NEW h \in [Variable -> {-1} \cup Nat], NEW o, Sound(k, m, n, f, e, h, o),
         NEW x, NEW n2, NEW f2,
         \/ ~m /\ x = 0 /\ n2 = n /\ f2 = [i \in 1 .. n - 1 |-> i]
         \/ m /\ Len(f) # 0 /\ x = f[1] /\ n2 = n /\ f2 \in Seq(Nat) /\ Len(f2) = Len(f) - 1
              /\ \A i \in 1 .. Len(f) - 1 : f2[i] = f[i + 1]
         \/ m /\ Len(f) = 0 /\ x = n /\ n2 = n + Growth /\ f2 = [i \in 1 .. Growth - 1 |-> n + i]
  PROVE  NewIndex(k, n, e, h, x, n2, f2)
<1>. USE SizesAssumption
<1>1. Len(e) \in Nat /\ Len(f) \in Nat /\ \A i \in 1 .. Len(f) : f[i] \in Nat
  BY Lengths
<1>2. \A v \in Variable : Has(k, h, v) => h[v] \in Nat
  BY DEF Has
<1>3. CASE ~m /\ x = 0 /\ n2 = n /\ f2 = [i \in 1 .. n - 1 |-> i]
  <2>1. n = First /\ Len(e) = 0 /\ \A v \in Variable : ~Has(k, h, v)
    BY <1>3 DEF Sound
  <2>2. n - 1 \in Nat
    BY <2>1
  <2>3. f2 \in [1 .. n - 1 -> Nat]
    BY <1>3, <2>2
  <2>4. f2 \in Seq(Nat)
    BY <2>2, <2>3, SeqDef
  <2>5. Len(f2) = n - 1
    BY <1>3, <2>2, <2>3, <2>4, LenProperties
  <2>6. \A i \in 1 .. n - 1 : f2[i] = i
    BY <1>3
  <2>7. \A y \in 0 .. n - 1 : y = 0 \/ (y \in 1 .. n - 1 /\ f2[y] = y)
    BY <2>6
  <2>8. x = 0 /\ n2 = n
    BY <1>3
  <2>9. \A i \in 1 .. n - 1 : /\ f2[i] < n /\ f2[i] # 0
                              /\ f2[i] = n - 1 - (n - 1) + i
    BY <2>6
  <2>10. \A i, j \in 1 .. n - 1 : f2[i] = f2[j] => i = j
    BY <2>6
  <2>11. 0 \in Nat /\ 0 <= Len(e) /\ 0 < n /\ n \in Nat /\ n >= n
    BY <2>1
  <2>. QED BY <2>1, <2>4, <2>5, <2>7, <2>8, <2>9, <2>10, <2>11 DEF NewIndex
<1>4. CASE m /\ Len(f) # 0 /\ x = f[1] /\ n2 = n /\ f2 \in Seq(Nat) /\ Len(f2) = Len(f) - 1
           /\ \A i \in 1 .. Len(f) - 1 : f2[i] = f[i + 1]
  <2>1. PICK l \in Nat : l = Len(f) /\ l > 0
    BY <1>1, <1>4
  <2>2. 1 \in 1 .. l /\ \A i \in 1 .. l - 1 : i + 1 \in 1 .. l /\ i + 1 # 1
    BY <2>1
  <2>3. x \in Nat /\ x < n /\ \A v \in Variable : Has(k, h, v) => h[v] # x
    BY <1>1, <1>4, <2>1, <2>2 DEF Sound
  <2>4. \A i \in 1 .. l - 1 : f2[i] = f[i + 1]
    BY <1>4, <2>1
  <2>5. /\ \A i, j \in 1 .. l : f[i] = f[j] => i = j
        /\ \A i \in 1 .. l : f[i] \in Nat /\ f[i] < n
        /\ \A i \in 1 .. l : \A v \in Variable : Has(k, h, v) => f[i] # h[v]
    BY <1>1, <2>1 DEF Sound
  <2>6. \A i \in 1 .. l - 1 : /\ f2[i] \in Nat /\ f2[i] < n /\ f2[i] # x
                              /\ \A v \in Variable : Has(k, h, v) => f2[i] # h[v]
    <3>. SUFFICES ASSUME NEW i \in 1 .. l - 1
                  PROVE  /\ f2[i] \in Nat /\ f2[i] < n /\ f2[i] # x
                         /\ \A v \in Variable : Has(k, h, v) => f2[i] # h[v]
      OBVIOUS
    <3>1. i + 1 \in 1 .. l /\ i + 1 # 1 /\ 1 \in 1 .. l /\ f2[i] = f[i + 1] /\ x = f[1]
      BY <1>4, <2>2, <2>4
    <3>2. f[i + 1] # f[1]
      BY <2>5, <3>1
    <3>3. f[i + 1] \in Nat /\ f[i + 1] < n /\ \A v \in Variable : Has(k, h, v) => f[i + 1] # h[v]
      BY <2>5, <3>1
    <3>. QED BY <3>1, <3>2, <3>3
  <2>7. \A i, j \in 1 .. l - 1 : f2[i] = f2[j] => i = j
    <3>. SUFFICES ASSUME NEW i \in 1 .. l - 1, NEW j \in 1 .. l - 1, f2[i] = f2[j] PROVE i = j
      OBVIOUS
    <3>1. i + 1 = j + 1
      BY <2>2, <2>4, <2>5
    <3>. QED BY <3>1
  <2>8. \A y \in 0 .. n - 1 : \/ y = x
                              \/ \E v \in Variable : Has(k, h, v) /\ h[v] = y
                              \/ \E i \in 1 .. l - 1 : f2[i] = y
    <3>. SUFFICES ASSUME NEW y \in 0 .. n - 1, y # x,
                         ~ \E v \in Variable : Has(k, h, v) /\ h[v] = y
                  PROVE  \E i \in 1 .. l - 1 : f2[i] = y
      BY Zenon
    <3>1. PICK j \in 1 .. l : f[j] = y
      BY <1>4, <2>1 DEF Sound
    <3>2. j # 1
      BY <1>4, <3>1
    <3>3. j - 1 \in 1 .. l - 1 /\ (j - 1) + 1 = j
      BY <3>1, <3>2
    <3>4. f2[j - 1] = f[(j - 1) + 1]
      BY <2>4, <3>3
    <3>. QED BY <3>1, <3>3, <3>4
  <2>9. \A i \in 1 .. l : f[i] >= Len(e) => f[i] = n - 1 - l + i
    BY <2>1 DEF Sound
  <2>10. \A i \in 1 .. l - 1 : f2[i] >= Len(e) => f2[i] = n - 1 - (l - 1) + i
    <3>. SUFFICES ASSUME NEW i \in 1 .. l - 1, f2[i] >= Len(e) PROVE f2[i] = n - 1 - (l - 1) + i
      OBVIOUS
    <3>1. f[i + 1] = n - 1 - l + (i + 1)
      BY <2>2, <2>4, <2>9
    <3>2. n - 1 - l + (i + 1) = n - 1 - (l - 1) + i
      BY <2>1
    <3>. QED BY <2>4, <3>1, <3>2
  (* a free index that was never assigned cannot be missed *)
  <2>11. x <= Len(e)
    <3>. SUFFICES ASSUME x > Len(e) PROVE FALSE
      BY <1>1, <2>3
    <3>1. Len(e) \in 0 .. n - 1
      BY <1>1, <2>3
    <3>2. \A v \in Variable : Has(k, h, v) => h[v] # Len(e)
      <4>1. \A v \in Variable : Has(k, h, v) => h[v] < Len(e)
        BY DEF Sound
      <4>. QED BY <1>1, <1>2, <4>1
    <3>3. PICK i \in 1 .. l : f[i] = Len(e)
      BY <1>4, <2>1, <3>1, <3>2 DEF Sound
    <3>4. f[i] = n - 1 - l + i /\ x = n - 1 - l + 1
      <4>1. f[i] >= Len(e) /\ f[1] >= Len(e)
        BY <1>1, <1>4, <2>3, <3>3
      <4>. QED BY <1>4, <2>2, <2>9, <4>1
    <3>. QED BY <1>1, <2>1, <2>3, <3>3, <3>4
  <2>12. n2 = n /\ f2 \in Seq(Nat) /\ Len(f2) = l - 1
    BY <1>4, <2>1
  <2>13. n2 >= n /\ x < n2 /\ n2 \in Nat
    BY <2>3, <2>12
  <2>. QED BY <2>3, <2>6, <2>7, <2>8, <2>10, <2>11, <2>12, <2>13 DEF NewIndex
<1>5. CASE m /\ Len(f) = 0 /\ x = n /\ n2 = n + Growth /\ f2 = [i \in 1 .. Growth - 1 |-> n + i]
  <2>1. Growth - 1 \in Nat /\ f2 \in [1 .. Growth - 1 -> Nat]
    BY <1>5
  <2>2. f2 \in Seq(Nat)
    BY <2>1, SeqDef
  <2>3. Len(f2) = Growth - 1 /\ \A i \in 1 .. Growth - 1 : f2[i] = n + i
    BY <1>5, <2>1, <2>2, LenProperties
  <2>4. \A y \in 0 .. n - 1 : \E v \in Variable : Has(k, h, v) /\ h[v] = y
    <3>1. 1 .. Len(f) = {}
      BY <1>5
    <3>. QED BY <1>5, <3>1 DEF Sound
  <2>5. \A v \in Variable : Has(k, h, v) => h[v] < Len(e) /\ h[v] < n
    BY <1>1, <1>2 DEF Sound
  <2>6. n <= Len(e)
    <3>1. CASE n = 0
      BY <1>1, <3>1
    <3>2. CASE n # 0
      <4>1. n - 1 \in 0 .. n - 1
        BY <3>2
      <4>2. PICK v \in Variable : Has(k, h, v) /\ h[v] = n - 1
        BY <2>4, <4>1
      <4>. QED BY <1>1, <2>5, <4>2
    <3>. QED BY <3>1, <3>2
  <2>7. \A y \in 0 .. n + Growth - 1 : \/ y = n \/ y \in 0 .. n - 1
                                       \/ (y - n \in 1 .. Growth - 1 /\ f2[y - n] = y)
    <3>. SUFFICES ASSUME NEW y \in 0 .. n + Growth - 1, y # n, y \notin 0 .. n - 1
                  PROVE  y - n \in 1 .. Growth - 1 /\ f2[y - n] = y
      OBVIOUS
    <3>1. y - n \in 1 .. Growth - 1 /\ n + (y - n) = y
      OBVIOUS
    <3>. QED BY <2>3, <3>1
  <2>8. \A y \in 0 .. n + Growth - 1 : \/ y = n
                                       \/ \E v \in Variable : Has(k, h, v) /\ h[v] = y
                                       \/ \E i \in 1 .. Growth - 1 : f2[i] = y
    BY <2>4, <2>7, Zenon
  <2>9. \A i \in 1 .. Growth - 1 : /\ f2[i] < n + Growth /\ f2[i] # n /\ f2[i] > n
                                   /\ f2[i] = (n + Growth) - 1 - (Growth - 1) + i
    <3>. SUFFICES ASSUME NEW i \in 1 .. Growth - 1
                  PROVE  /\ f2[i] < n + Growth /\ f2[i] # n /\ f2[i] > n
                         /\ f2[i] = (n + Growth) - 1 - (Growth - 1) + i
      OBVIOUS
    <3>1. /\ n + i < n + Growth /\ n + i # n /\ n + i > n
          /\ n + i = (n + Growth) - 1 - (Growth - 1) + i
      OBVIOUS
    <3>. QED BY <2>3, <3>1
  <2>10. \A i, j \in 1 .. Growth - 1 : f2[i] = f2[j] => i = j
    BY <2>3
  <2>11. \A i \in 1 .. Growth - 1 : \A v \in Variable : Has(k, h, v) => f2[i] # h[v]
    BY SMTT(60), <1>2, <2>3, <2>5
  <2>12. n + Growth \in Nat /\ n + Growth >= n /\ n < n + Growth
    OBVIOUS
  <2>13. \A v \in Variable : Has(k, h, v) => h[v] # n
    BY <1>2, <2>5
  <2>14. x = n /\ n2 = n + Growth
    BY <1>5
  <2>. QED BY <2>2, <2>3, <2>6, <2>8, <2>9, <2>10, <2>11, <2>12, <2>13, <2>14 DEF NewIndex
<1>. QED BY <1>3, <1>4, <1>5

\* e with x in place of its entry number i, counted from 0, or after the last
Put(e, i, x, e2) ==
  /\ e2 \in Seq(Variable \cup {NullObject})
  /\ Len(e2) = IF i < Len(e) THEN Len(e) ELSE i + 1
  /\ e2[i + 1] = x
  /\ \A j \in 0 .. Len(e) - 1 : j # i => e2[j + 1] = e[j + 1]

(* A table stays sound when a variable takes a new index.                  *)
LEMMA TakeKeeps ==
  ASSUME NEW k \in Fortran!Kind, NEW m \in BOOLEAN, NEW n \in Nat, NEW f \in Seq(Nat),
         NEW e \in Seq(Variable \cup {NullObject}),
         NEW h \in [Variable -> {-1} \cup Nat], NEW o \in [Variable -> Object],
         Sound(k, m, n, f, e, h, o),
         NEW x, NEW n2, NEW f2, NewIndex(k, n, e, h, x, n2, f2),
         NEW e2, NEW v \in Variable, Fortran!KindOf(v) = k, h[v] = -1, Put(e, x, v, e2),
         NEW what \in Object
  PROVE  Sound(k, TRUE, n2, f2, e2, [h EXCEPT ![v] = x], [o EXCEPT ![v] = what])
<1>1. PICK a \in Nat : a = Len(e) /\ a <= n
  BY Lengths DEF Sound
<1>2. PICK l \in Nat : l = Len(f2)
  BY Lengths DEF NewIndex
<1>3. /\ x \in Nat /\ x <= a /\ x < n2 /\ n2 \in Nat /\ n2 >= n
      /\ \A i \in 1 .. l : f2[i] \in Nat
  BY <1>1, <1>2, Lengths DEF NewIndex
<1>4. PICK h2 : h2 = [h EXCEPT ![v] = x]
  OBVIOUS
<1>5. PICK o2 : o2 = [o EXCEPT ![v] = what]
  OBVIOUS
<1>6. /\ h2[v] = x /\ \A w \in Variable : w # v => h2[w] = h[w] /\ o2[w] = o[w]
      /\ h2 \in [Variable -> {-1} \cup Nat]
  BY <1>3, <1>4, <1>5
<1>7. /\ Has(k, h2, v) /\ ~ Has(k, h, v)
      /\ \A w \in Variable : w # v => (Has(k, h2, w) <=> Has(k, h, w))
  BY <1>3, <1>6 DEF Has
<1>8. PICK b \in Nat : b = Len(e2) /\ b = IF x < a THEN a ELSE x + 1
  <2>1. Len(e2) = IF x < a THEN a ELSE x + 1
    BY <1>1 DEF Put
  <2>2. (IF x < a THEN a ELSE x + 1) \in Nat
    BY <1>3
  <2>. QED BY <2>1, <2>2, Zenon
<1>9. b <= n2 /\ a <= b /\ x < b
  BY <1>1, <1>3, <1>8
<1>10. e2[x + 1] = v /\ \A j \in 0 .. a - 1 : j # x => e2[j + 1] = e[j + 1]
  BY <1>1 DEF Put
<1>11. \A w \in Variable : Has(k, h, w) =>
         /\ h[w] \in Nat /\ h[w] < a /\ h[w] # x
         /\ (e[h[w] + 1] = w \/ (e[h[w] + 1] = NullObject /\ o[w] = "operation"))
         /\ \A u \in Variable : (Has(k, h, u) /\ h[w] = h[u]) => w = u
         /\ \A i \in 1 .. l : f2[i] # h[w]
  BY <1>1, <1>2 DEF Sound, NewIndex, Has
<1>12. /\ \A i \in 1 .. l : f2[i] < n2 /\ f2[i] # x
       /\ \A i, j \in 1 .. l : f2[i] = f2[j] => i = j
       /\ \A i \in 1 .. l : f2[i] >= a => f2[i] = n2 - 1 - l + i
  BY <1>1, <1>2 DEF NewIndex
<1>13. ASSUME NEW w \in Variable, Has(k, h2, w)
       PROVE  /\ h2[w] < b
              /\ (e2[h2[w] + 1] = w \/ (e2[h2[w] + 1] = NullObject /\ o2[w] = "operation"))
              /\ \A u \in Variable : (Has(k, h2, u) /\ h2[w] = h2[u]) => w = u
              /\ \A i \in 1 .. l : f2[i] # h2[w]
  <2>1. CASE w = v
    BY <1>6, <1>7, <1>9, <1>10, <1>11, <1>12, <2>1
  <2>2. CASE w # v
    <3>1. Has(k, h, w) /\ h2[w] = h[w] /\ o2[w] = o[w]
      BY <1>6, <1>7, <1>13, <2>2
    <3>2. h[w] \in Nat /\ h[w] < a /\ h[w] # x /\ h[w] \in 0 .. a - 1
      BY <1>11, <3>1
    <3>3. e2[h[w] + 1] = e[h[w] + 1]
      BY <1>10, <3>2
    <3>4. \A u \in Variable : (Has(k, h2, u) /\ h2[w] = h2[u]) => w = u
      BY <1>6, <1>7, <1>11, <3>1, <3>2
    <3>. QED BY <1>9, <1>11, <3>1, <3>2, <3>3, <3>4
  <2>. QED BY <2>1, <2>2
<1>14. \A y \in 0 .. n2 - 1 : \/ \E w \in Variable : Has(k, h2, w) /\ h2[w] = y
                              \/ \E i \in 1 .. l : f2[i] = y
  <2>. SUFFICES ASSUME NEW y \in 0 .. n2 - 1, ~ \E i \in 1 .. l : f2[i] = y
                PROVE  \E w \in Variable : Has(k, h2, w) /\ h2[w] = y
    BY Zenon
  <2>1. y = x \/ \E w \in Variable : Has(k, h, w) /\ h[w] = y
    BY <1>2 DEF NewIndex
  <2>2. CASE y = x
    BY <1>6, <1>7, <2>2
  <2>3. CASE \E w \in Variable : Has(k, h, w) /\ h[w] = y
    BY <1>6, <1>7, <2>3
  <2>. QED BY <2>1, <2>2, <2>3
<1>15. \A i \in 1 .. l : f2[i] >= b => f2[i] = n2 - 1 - l + i
  BY <1>3, <1>9, <1>12
<1>16. \A i \in 1 .. l : f2[i] < n2
  BY <1>12
<1>17. Sound(k, TRUE, n2, f2, e2, h2, o2)
  BY <1>2, <1>8, <1>9, <1>12, <1>13, <1>14, <1>15, <1>16 DEF Sound
<1>. QED BY <1>4, <1>5, <1>17

(* The other table is not concerned.                                       *)
LEMMA OtherTable ==
  ASSUME NEW k \in Fortran!Kind, NEW m, NEW n, NEW f, NEW e,
         NEW h \in [Variable -> {-1} \cup Nat], NEW o \in [Variable -> Object],
         Sound(k, m, n, f, e, h, o),
         NEW v \in Variable, Fortran!KindOf(v) # k, NEW x, NEW what
  PROVE  Sound(k, m, n, f, e, [h EXCEPT ![v] = x], [o EXCEPT ![v] = what])
<1>1. PICK h2 : h2 = [h EXCEPT ![v] = x]
  OBVIOUS
<1>2. PICK o2 : o2 = [o EXCEPT ![v] = what]
  OBVIOUS
<1>3. \A w \in Variable : w # v => h2[w] = h[w] /\ o2[w] = o[w]
  BY <1>1, <1>2
<1>4. \A w \in Variable : /\ Has(k, h2, w) <=> Has(k, h, w)
                          /\ Has(k, h, w) => h2[w] = h[w] /\ o2[w] = o[w]
  BY <1>3 DEF Has
<1>5. Sound(k, m, n, f, e, h2, o2)
  BY <1>4 DEF Sound
<1>. QED BY <1>1, <1>2, <1>5

(* A table stays sound when an operation's entry is cleared                *)
LEMMA ClearKeeps ==
  ASSUME NEW k \in Fortran!Kind, NEW m \in BOOLEAN, NEW n \in Nat, NEW f \in Seq(Nat),
         NEW e \in Seq(Variable \cup {NullObject}),
         NEW h \in [Variable -> {-1} \cup Nat], NEW o,
         Sound(k, m, n, f, e, h, o),
         NEW v \in Variable, Has(k, h, v), o[v] = "operation",
         NEW e2, Put(e, h[v], NullObject, e2)
  PROVE  Sound(k, m, n, f, e2, h, o)
<1>1. PICK a \in Nat : a = Len(e)
  BY Lengths
<1>2. \A w \in Variable : Has(k, h, w) =>
        /\ h[w] \in Nat /\ h[w] < a
        /\ (e[h[w] + 1] = w \/ (e[h[w] + 1] = NullObject /\ o[w] = "operation"))
        /\ \A u \in Variable : (Has(k, h, u) /\ h[w] = h[u]) => w = u
  BY <1>1 DEF Sound, Has
<1>3. Len(e2) = a /\ h[v] \in Nat /\ h[v] < a
  BY <1>1, <1>2 DEF Put
<1>4. e2[h[v] + 1] = NullObject /\ \A j \in 0 .. a - 1 : j # h[v] => e2[j + 1] = e[j + 1]
  BY <1>1 DEF Put
<1>5. ASSUME NEW w \in Variable, Has(k, h, w)
      PROVE  e2[h[w] + 1] = w \/ (e2[h[w] + 1] = NullObject /\ o[w] = "operation")
  <2>1. CASE w = v
    BY <1>4, <2>1
  <2>2. CASE w # v
    <3>1. h[w] \in 0 .. a - 1 /\ h[w] # h[v]
      BY <1>2, <1>5, <2>2
    <3>. QED BY <1>2, <1>4, <1>5, <3>1
  <2>. QED BY <2>1, <2>2
<1>. QED BY <1>1, <1>3, <1>5 DEF Sound

(* and when an index is given back.                                        *)
LEMMA GiveBackKeeps ==
  ASSUME NEW k \in Fortran!Kind, NEW m \in BOOLEAN, NEW n \in Nat, NEW f \in Seq(Nat),
         NEW e \in Seq(Variable \cup {NullObject}),
         NEW h \in [Variable -> {-1} \cup Nat], NEW o \in [Variable -> Object],
         Sound(k, m, n, f, e, h, o),
         NEW v \in Variable, Has(k, h, v),
         NEW e2, Put(e, h[v], NullObject, e2),
         NEW f2 \in Seq(Nat), Len(f2) = Len(f) + 1, f2[1] = h[v],
         \A i \in 1 .. Len(f) : f2[i + 1] = f[i],
         NEW what
  PROVE  Sound(k, m, n, f2, e2, [h EXCEPT ![v] = -1], [o EXCEPT ![v] = what])
<1>1. PICK a \in Nat : a = Len(e) /\ a <= n
  BY Lengths DEF Sound
<1>2. PICK l \in Nat : l = Len(f)
  BY Lengths
<1>3. \A w \in Variable : Has(k, h, w) =>
        /\ h[w] \in Nat /\ h[w] < a
        /\ (e[h[w] + 1] = w \/ (e[h[w] + 1] = NullObject /\ o[w] = "operation"))
        /\ \A u \in Variable : (Has(k, h, u) /\ h[w] = h[u]) => w = u
        /\ \A i \in 1 .. l : f[i] # h[w]
  BY <1>1, <1>2 DEF Sound, Has
<1>4. PICK h2 : h2 = [h EXCEPT ![v] = -1]
  OBVIOUS
<1>5. PICK o2 : o2 = [o EXCEPT ![v] = what]
  OBVIOUS
<1>6. h2[v] = -1 /\ \A w \in Variable : w # v => h2[w] = h[w] /\ o2[w] = o[w]
  BY <1>4, <1>5
<1>7. ~ Has(k, h2, v) /\ \A w \in Variable : w # v => (Has(k, h2, w) <=> Has(k, h, w))
  BY <1>6 DEF Has
<1>8. Len(e2) = a /\ h[v] \in Nat /\ h[v] < a /\ m
  <2>1. m
    BY DEF Sound
  <2>. QED BY <1>1, <1>3, <2>1 DEF Put
<1>9. \A j \in 0 .. a - 1 : j # h[v] => e2[j + 1] = e[j + 1]
  BY <1>1 DEF Put
<1>10. /\ \A i \in 1 .. l : f[i] \in Nat /\ f[i] < n
       /\ \A i, j \in 1 .. l : f[i] = f[j] => i = j
       /\ \A i \in 1 .. l : f[i] >= a => f[i] = n - 1 - l + i
  BY <1>1, <1>2, Lengths DEF Sound
<1>11. \A i \in 1 .. l + 1 : \/ i = 1 /\ f2[i] = h[v]
                             \/ i - 1 \in 1 .. l /\ f2[i] = f[i - 1]
  <2>. SUFFICES ASSUME NEW i \in 1 .. l + 1, i # 1
                PROVE  i - 1 \in 1 .. l /\ f2[i] = f[i - 1]
    OBVIOUS
  <2>1. i - 1 \in 1 .. l /\ (i - 1) + 1 = i
    OBVIOUS
  <2>. QED BY <1>2, <2>1
<1>12. ASSUME NEW w \in Variable, Has(k, h2, w)
       PROVE  /\ h2[w] < a
              /\ (e2[h2[w] + 1] = w \/ (e2[h2[w] + 1] = NullObject /\ o2[w] = "operation"))
              /\ \A u \in Variable : (Has(k, h2, u) /\ h2[w] = h2[u]) => w = u
              /\ \A i \in 1 .. l + 1 : f2[i] # h2[w]
  <2>1. w # v /\ Has(k, h, w) /\ h2[w] = h[w] /\ o2[w] = o[w]
    BY <1>6, <1>7, <1>12
  <2>2. h[w] \in 0 .. a - 1 /\ h[w] # h[v]
    BY <1>3, <2>1
  <2>3. e2[h[w] + 1] = e[h[w] + 1]
    BY <1>9, <2>2
  <2>4. \A i \in 1 .. l + 1 : f2[i] # h[w]
    BY ZenonT(60), <1>3, <1>11, <2>1, <2>2
  <2>5. \A u \in Variable : (Has(k, h2, u) /\ h2[w] = h2[u]) => w = u
    BY <1>3, <1>6, <1>7, <2>1
  <2>. QED BY <1>3, <2>1, <2>3, <2>4, <2>5
<1>13. \A i \in 1 .. l + 1 : f2[i] < n
  BY <1>1, <1>8, <1>10, <1>11
<1>14. \A i, j \in 1 .. l + 1 : f2[i] = f2[j] => i = j
  <2>1. \A i \in 1 .. l : f[i] # h[v]
    BY <1>3
  <2>. SUFFICES ASSUME NEW i \in 1 .. l + 1, NEW j \in 1 .. l + 1, f2[i] = f2[j]
                PROVE  i = j
    OBVIOUS
  <2>2. (i = 1 /\ f2[i] = h[v]) \/ (i - 1 \in 1 .. l /\ f2[i] = f[i - 1])
    BY <1>11
  <2>3. (j = 1 /\ f2[j] = h[v]) \/ (j - 1 \in 1 .. l /\ f2[j] = f[j - 1])
    BY <1>11
  <2>4. CASE i - 1 \in 1 .. l /\ j - 1 \in 1 .. l
    <3>1. i = 1 \/ j = 1 \/ f[i - 1] = f[j - 1]
      BY <2>2, <2>3
    <3>2. i # 1 /\ j # 1
      BY <2>4
    <3>. QED BY <1>10, <2>4, <3>1, <3>2
  <2>. QED BY <2>1, <2>2, <2>3, <2>4
<1>15. \A y \in 0 .. n - 1 : \/ \E w \in Variable : Has(k, h2, w) /\ h2[w] = y
                             \/ \E i \in 1 .. l + 1 : f2[i] = y
  <2>. SUFFICES ASSUME NEW y \in 0 .. n - 1, ~ \E w \in Variable : Has(k, h2, w) /\ h2[w] = y
                PROVE  \E i \in 1 .. l + 1 : f2[i] = y
    BY Zenon
  <2>1. (\E w \in Variable : Has(k, h, w) /\ h[w] = y) \/ \E i \in 1 .. l : f[i] = y
    BY <1>2, <1>8 DEF Sound
  <2>2. CASE \E w \in Variable : Has(k, h, w) /\ h[w] = y
    <3>1. y = h[v]
      BY <1>6, <1>7, <2>2
    <3>2. 1 \in 1 .. l + 1
      OBVIOUS
    <3>. QED BY <3>1, <3>2
  <2>3. CASE \E i \in 1 .. l : f[i] = y
    <3>1. PICK i \in 1 .. l : f[i] = y
      BY <2>3
    <3>2. i + 1 \in 1 .. l + 1 /\ f2[i + 1] = y
      BY <1>2, <3>1
    <3>. QED BY <3>2
  <2>. QED BY <2>1, <2>2, <2>3
<1>16. \A i \in 1 .. l + 1 : f2[i] >= a => f2[i] = n - 1 - (l + 1) + i
  <2>. SUFFICES ASSUME NEW i \in 1 .. l + 1, f2[i] >= a PROVE f2[i] = n - 1 - (l + 1) + i
    OBVIOUS
  <2>1. i - 1 \in 1 .. l /\ f2[i] = f[i - 1]
    BY <1>8, <1>11
  <2>2. f[i - 1] = n - 1 - l + (i - 1)
    BY <1>10, <2>1
  <2>. QED BY <2>1, <2>2
<1>17. Len(f2) = l + 1
  BY <1>2
<1>18. Sound(k, TRUE, n, f2, e2, h2, o2)
  <2>1. PICK c \in Nat : c = l + 1
    OBVIOUS
  <2>2. Len(f2) = c /\ Len(e2) = a /\ a <= n
    BY <1>1, <1>8, <1>17, <2>1
  <2>. QED BY ZenonT(60), <1>12, <1>13, <1>14, <1>15, <1>16, <2>1, <2>2 DEF Sound
<1>19. m = TRUE
  BY <1>8
<1>. QED BY <1>4, <1>5, <1>18, <1>19

(* Assign puts x into one table and leaves the other alone.                *)
LEMMA AssignPuts ==
  ASSUME FortranTypes, NEW k \in Fortran!Kind, NEW i \in Nat, i <= Len(entry[k]),
         NEW x \in Variable \cup {NullObject}, Fortran!Assign(k, i, x)
  PROVE  /\ Put(entry[k], i, x, entry'[k])
         /\ entry' \in [Fortran!Kind -> Seq(Variable \cup {NullObject})]
         /\ \A j \in Fortran!Kind : j # k => entry'[j] = entry[j]
<1>1. PICK e \in Seq(Variable \cup {NullObject}) : e = entry[k]
  BY DEF FortranTypes
<1>2. PICK a \in Nat : a = Len(e)
  BY Lengths
<1>3. DOMAIN e = 1 .. a /\ i <= a
  BY <1>1, <1>2, Lengths
<1>4. PICK e2 : e2 = IF i < a THEN [e EXCEPT ![i + 1] = x] ELSE Append(e, x)
  OBVIOUS
<1>5. entry' = [entry EXCEPT ![k] = e2]
  BY <1>1, <1>2, <1>4 DEF Fortran!Assign, Fortran!ReplaceAt
<1>6. entry'[k] = e2 /\ \A j \in Fortran!Kind : j # k => entry'[j] = entry[j]
  BY <1>5 DEF FortranTypes
<1>7. Put(e, i, x, e2) /\ e2 \in Seq(Variable \cup {NullObject})
  <2>1. CASE i < a
    <3>1. i + 1 \in 1 .. Len(e)
      BY <1>2, <2>1
    <3>2. e2 = [e EXCEPT ![i + 1] = x]
      BY <1>4, <2>1
    <3>3. /\ e2 \in Seq(Variable \cup {NullObject}) /\ Len(e2) = Len(e)
          /\ \A j \in 1 .. Len(e) : e2[j] = IF j = i + 1 THEN x ELSE e[j]
      BY <3>1, <3>2, ExceptSeq
    <3>4. \A j \in 0 .. a - 1 : j # i => e2[j + 1] = e[j + 1]
      <4>. SUFFICES ASSUME NEW j \in 0 .. a - 1, j # i PROVE e2[j + 1] = e[j + 1]
        OBVIOUS
      <4>1. j + 1 \in 1 .. Len(e) /\ j + 1 # i + 1
        BY <1>2
      <4>. QED BY <3>3, <4>1
    <3>. QED BY <1>2, <2>1, <3>1, <3>3, <3>4 DEF Put
  <2>2. CASE ~ i < a
    <3>1. i = a
      BY <1>3, <2>2
    <3>2. e2 = Append(e, x)
      BY <1>4, <2>2
    <3>3. /\ e2 \in Seq(Variable \cup {NullObject}) /\ Len(e2) = Len(e) + 1
          /\ \A j \in 1 .. Len(e) : e2[j] = e[j]
          /\ e2[Len(e) + 1] = x
      BY <3>2, AppendProperties
    <3>4. \A j \in 0 .. a - 1 : e2[j + 1] = e[j + 1]
      BY <1>2, <3>3
    <3>. QED BY <1>2, <2>2, <3>1, <3>3, <3>4 DEF Put
  <2>. QED BY <2>1, <2>2
<1>8. entry' \in [Fortran!Kind -> Seq(Variable \cup {NullObject})]
  BY <1>5, <1>7 DEF FortranTypes
<1>. QED BY <1>1, <1>6, <1>7, <1>8

(* What GetIndex answers is new, in every one of its three cases.          *)
LEMMA GetIndexIsNew ==
  ASSUME FortranInvariant, up, NEW k \in Fortran!Kind, NEW g, g = Fortran!GetIndex(k)
  PROVE  NewIndex(k, table_size[k], entry[k], handle, g.index, g.size, g.free)
<1>1. PICK n \in Nat : n = table_size[k]
  BY DEF FortranInvariant, FortranTypes
<1>2. PICK f \in Seq(Nat) : f = free[k]
  BY DEF FortranInvariant, FortranTypes
<1>3. made[k] \in BOOLEAN /\ entry[k] \in Seq(Variable \cup {NullObject})
  BY DEF FortranInvariant, FortranTypes
<1>4. handle \in [Variable -> {-1} \cup Nat]
  BY DEF FortranInvariant, FortranTypes
<1>5. Sound(k, made[k], n, f, entry[k], handle, object)
  BY <1>1, <1>2 DEF FortranInvariant, Tables
<1>6. \/ ~made[k] /\ g.index = 0 /\ g.size = n /\ g.free = [i \in 1 .. n - 1 |-> i]
      \/ /\ made[k] /\ Len(f) # 0 /\ g.index = f[1] /\ g.size = n /\ g.free \in Seq(Nat)
         /\ Len(g.free) = Len(f) - 1
         /\ \A i \in 1 .. Len(f) - 1 : g.free[i] = f[i + 1]
      \/ /\ made[k] /\ Len(f) = 0 /\ g.index = n /\ g.size = n + Growth
         /\ g.free = [i \in 1 .. Growth - 1 |-> n + i]
  <2>1. CASE ~made[k]
    <3>1. g = [index |-> 0, size |-> n, free |-> Fortran!Indices(1, n - 1)]
      BY <1>1, <2>1 DEF Fortran!GetIndex
    <3>2. Fortran!Indices(1, n - 1) = [i \in 1 .. n - 1 |-> i]
      <4>1. (n - 1) - 1 + 1 = n - 1 /\ \A i \in 1 .. n - 1 : 1 + i - 1 = i
        OBVIOUS
      <4>. QED BY <4>1 DEF Fortran!Indices
    <3>. QED BY <2>1, <3>1, <3>2
  <2>2. CASE made[k] /\ f # << >>
    <3>1. g = [index |-> Head(f), size |-> n, free |-> Tail(f)]
      BY <1>1, <1>2, <2>2 DEF Fortran!GetIndex
    <3>2. /\ Tail(f) \in Seq(Nat) /\ Len(Tail(f)) = Len(f) - 1
          /\ \A i \in 1 .. Len(Tail(f)) : Tail(f)[i] = f[i + 1]
      BY <2>2, HeadTailProperties
    <3>3. Head(f) = f[1] /\ Len(f) # 0
      BY <2>2, Lengths
    <3>. QED BY <2>2, <3>1, <3>2, <3>3
  <2>3. CASE made[k] /\ f = << >>
    <3>1. g = [index |-> n, size |-> n + Growth,
               free |-> Fortran!Indices(n + 1, n + Growth - 1)]
      BY <1>1, <1>2, <2>3 DEF Fortran!GetIndex
    <3>2. Fortran!Indices(n + 1, n + Growth - 1) = [i \in 1 .. Growth - 1 |-> n + i]
      <4>1. /\ (n + Growth - 1) - (n + 1) + 1 = Growth - 1
            /\ \A i \in 1 .. Growth - 1 : (n + 1) + i - 1 = n + i
        BY SizesAssumption
      <4>. QED BY <4>1 DEF Fortran!Indices
    <3>3. Len(f) = 0
      BY <2>3
    <3>. QED BY <2>3, <3>1, <3>2, <3>3
  <2>. QED BY <1>3, <2>1, <2>2, <2>3
<1>7. PICK m \in BOOLEAN : m = made[k]
  BY <1>3
<1>8. PICK e \in Seq(Variable \cup {NullObject}) : e = entry[k]
  BY <1>3
<1>9. PICK x : x = g.index
  OBVIOUS
<1>10. PICK n2 : n2 = g.size
  OBVIOUS
<1>11. PICK f2 : f2 = g.free
  OBVIOUS
<1>12. \/ ~m /\ x = 0 /\ n2 = n /\ f2 = [i \in 1 .. n - 1 |-> i]
       \/ m /\ Len(f) # 0 /\ x = f[1] /\ n2 = n /\ f2 \in Seq(Nat) /\ Len(f2) = Len(f) - 1
            /\ \A i \in 1 .. Len(f) - 1 : f2[i] = f[i + 1]
       \/ m /\ Len(f) = 0 /\ x = n /\ n2 = n + Growth /\ f2 = [i \in 1 .. Growth - 1 |-> n + i]
  BY <1>6, <1>7, <1>9, <1>10, <1>11
<1>13. Sound(k, m, n, f, e, handle, object)
  BY <1>5, <1>7, <1>8
<1>14. NewIndex(k, n, e, handle, x, n2, f2)
  BY <1>4, <1>12, <1>13, IndexIsNew
<1>. QED BY <1>1, <1>8, <1>9, <1>10, <1>11, <1>14

(* A call that makes an object for v.                                      *)
LEMMA MakeStep ==
  ASSUME FortranInvariant, NEW v \in Variable, NEW what \in Object, Fortran!Make(v, what)
  PROVE  FortranInvariant'
<1>1. PICK k \in Fortran!Kind : k = Fortran!KindOf(v)
  BY DEF Fortran!Kind, Fortran!KindOf
<1>2. PICK g : g = Fortran!GetIndex(k)
  OBVIOUS
<1>3. /\ up /\ handle[v] = -1 /\ up' = up
      /\ made' = [made EXCEPT ![k] = TRUE] /\ table_size' = [table_size EXCEPT ![k] = g.size]
      /\ free' = [free EXCEPT ![k] = g.free] /\ handle' = [handle EXCEPT ![v] = g.index]
      /\ object' = [object EXCEPT ![v] = what] /\ Fortran!Assign(k, g.index, v)
  BY <1>1, <1>2 DEF Fortran!Make, Fortran!None
<1>4. NewIndex(k, table_size[k], entry[k], handle, g.index, g.size, g.free)
  BY <1>2, <1>3, GetIndexIsNew
<1>5. PICK x \in Nat : x = g.index
  BY <1>4 DEF NewIndex
<1>6. PICK n2 \in Nat : n2 = g.size
  BY <1>4 DEF NewIndex
<1>7. PICK f2 \in Seq(Nat) : f2 = g.free
  BY <1>4 DEF NewIndex
<1>8. NewIndex(k, table_size[k], entry[k], handle, x, n2, f2) /\ x <= Len(entry[k])
  BY <1>4, <1>5, <1>6, <1>7 DEF NewIndex
<1>9. FortranTypes
  BY DEF FortranInvariant
<1>10. /\ Put(entry[k], x, v, entry'[k])
       /\ entry' \in [Fortran!Kind -> Seq(Variable \cup {NullObject})]
       /\ \A j \in Fortran!Kind : j # k => entry'[j] = entry[j]
  <2>1. Fortran!Assign(k, x, v) /\ v \in Variable \cup {NullObject}
    BY <1>3, <1>5
  <2>. QED BY <1>8, <1>9, <2>1, AssignPuts
<1>11. FortranTypes'
  BY <1>3, <1>5, <1>6, <1>7, <1>9, <1>10 DEF FortranTypes
<1>12. ASSUME NEW j \in Fortran!Kind PROVE Tables(j)'
  <2>1. Sound(j, made[j], table_size[j], free[j], entry[j], handle, object)
    BY <1>3 DEF FortranInvariant, Tables
  <2>2. handle \in [Variable -> {-1} \cup Nat] /\ object \in [Variable -> Object]
    BY <1>9 DEF FortranTypes
  <2>3. CASE j = k
    <3>1. /\ made'[j] = TRUE /\ table_size'[j] = n2 /\ free'[j] = f2
          /\ handle' = [handle EXCEPT ![v] = x] /\ object' = [object EXCEPT ![v] = what]
      BY <1>3, <1>5, <1>6, <1>7, <1>9, <2>3 DEF FortranTypes
    <3>2. PICK m \in BOOLEAN : m = made[j]
      BY <1>9 DEF FortranTypes
    <3>3. PICK n \in Nat : n = table_size[j]
      BY <1>9 DEF FortranTypes
    <3>4. PICK f \in Seq(Nat) : f = free[j]
      BY <1>9 DEF FortranTypes
    <3>5. PICK e \in Seq(Variable \cup {NullObject}) : e = entry[j]
      BY <1>9 DEF FortranTypes
    <3>6. PICK e2 : e2 = entry'[j]
      OBVIOUS
    <3>7. Sound(j, m, n, f, e, handle, object)
      BY <2>1, <3>2, <3>3, <3>4, <3>5
    <3>8. NewIndex(j, n, e, handle, x, n2, f2) /\ Put(e, x, v, e2)
      BY <1>8, <1>10, <2>3, <3>3, <3>5, <3>6
    <3>9. Fortran!KindOf(v) = j /\ handle[v] = -1
      BY <1>1, <1>3, <2>3
    <3>10. Sound(j, TRUE, n2, f2, e2, [handle EXCEPT ![v] = x], [object EXCEPT ![v] = what])
      BY <2>2, <3>7, <3>8, <3>9, TakeKeeps
    <3>. QED BY <3>1, <3>6, <3>10 DEF Tables
  <2>4. CASE j # k
    <3>1. /\ made'[j] = made[j] /\ table_size'[j] = table_size[j] /\ free'[j] = free[j]
          /\ handle' = [handle EXCEPT ![v] = x] /\ object' = [object EXCEPT ![v] = what]
          /\ entry'[j] = entry[j]
      BY <1>3, <1>5, <1>9, <1>10, <2>4 DEF FortranTypes
    <3>2. Sound(j, made[j], table_size[j], free[j], entry[j],
                [handle EXCEPT ![v] = x], [object EXCEPT ![v] = what])
      BY <1>1, <2>1, <2>2, <2>4, OtherTable
    <3>. QED BY <3>1, <3>2 DEF Tables
  <2>. QED BY <2>3, <2>4
<1>. QED BY <1>11, <1>12 DEF FortranInvariant

(* A call that gives an index back.                                        *)
LEMMA GiveBackStep ==
  ASSUME FortranInvariant, NEW v \in Variable, NEW k \in Fortran!Kind, k = Fortran!KindOf(v),
         up, handle[v] # -1, Fortran!Assign(k, handle[v], NullObject), Fortran!GiveBack(v)
  PROVE  FortranInvariant'
<1>1. FortranTypes
  BY DEF FortranInvariant
<1>2. /\ free' = [free EXCEPT ![k] = <<handle[v]>> \o @]
      /\ handle' = [handle EXCEPT ![v] = -1] /\ object' = [object EXCEPT ![v] = NullObject]
      /\ made' = made /\ table_size' = table_size /\ up' = up
  BY DEF Fortran!GiveBack, Fortran!None
<1>3. PICK x \in Nat : x = handle[v]
  BY <1>1 DEF FortranTypes
<1>4. PICK f \in Seq(Nat) : f = free[k]
  BY <1>1 DEF FortranTypes
<1>5. PICK e \in Seq(Variable \cup {NullObject}) : e = entry[k]
  BY <1>1 DEF FortranTypes
<1>6. Has(k, handle, v) /\ NullObject \in Object
  BY DEF Has, Object
<1>7. Sound(k, made[k], table_size[k], f, e, handle, object)
  BY <1>4, <1>5 DEF FortranInvariant, Tables
<1>8. x <= Len(e)
  <2>1. Len(e) \in Nat
    BY Lengths
  <2>2. handle[v] < Len(e)
    BY <1>6, <1>7 DEF Sound
  <2>. QED BY <1>3, <2>1, <2>2
<1>9. /\ Put(entry[k], x, NullObject, entry'[k])
      /\ entry' \in [Fortran!Kind -> Seq(Variable \cup {NullObject})]
      /\ \A j \in Fortran!Kind : j # k => entry'[j] = entry[j]
  <2>1. Fortran!Assign(k, x, NullObject) /\ NullObject \in Variable \cup {NullObject}
    BY <1>3
  <2>. QED BY <1>1, <1>5, <1>8, <2>1, AssignPuts
<1>10. PICK f2 : f2 = <<x>> \o f
  OBVIOUS
<1>11. /\ f2 \in Seq(Nat) /\ Len(f2) = Len(f) + 1 /\ f2[1] = x
       /\ \A i \in 1 .. Len(f) : f2[i + 1] = f[i]
  BY <1>10
<1>12. /\ free'[k] = f2 /\ free' \in [Fortran!Kind -> Seq(Nat)]
       /\ \A j \in Fortran!Kind : j # k => free'[j] = free[j]
  BY <1>1, <1>2, <1>3, <1>4, <1>10, <1>11 DEF FortranTypes
<1>13. FortranTypes'
  BY <1>1, <1>2, <1>6, <1>9, <1>12 DEF FortranTypes
<1>14. ASSUME NEW j \in Fortran!Kind PROVE Tables(j)'
  <2>1. handle \in [Variable -> {-1} \cup Nat] /\ object \in [Variable -> Object]
    BY <1>1 DEF FortranTypes
  <2>2. CASE j = k
    <3>1. PICK m \in BOOLEAN : m = made[k]
      BY <1>1 DEF FortranTypes
    <3>2. PICK n \in Nat : n = table_size[k]
      BY <1>1 DEF FortranTypes
    <3>3. PICK e2 : e2 = entry'[k]
      OBVIOUS
    <3>4. Sound(k, m, n, f, e, handle, object)
      BY <1>7, <3>1, <3>2
    <3>5. Put(e, handle[v], NullObject, e2) /\ f2[1] = handle[v]
      BY <1>3, <1>5, <1>9, <1>11, <3>3
    <3>6. Sound(k, m, n, f2, e2, [handle EXCEPT ![v] = -1], [object EXCEPT ![v] = NullObject])
      BY <1>6, <1>11, <2>1, <3>4, <3>5, GiveBackKeeps
    <3>. QED BY <1>2, <1>12, <2>2, <3>1, <3>2, <3>3, <3>6 DEF Tables
  <2>3. CASE j # k
    <3>1. Sound(j, made[j], table_size[j], free[j], entry[j], handle, object)
      BY DEF FortranInvariant, Tables
    <3>2. Sound(j, made[j], table_size[j], free[j], entry[j],
                [handle EXCEPT ![v] = -1], [object EXCEPT ![v] = NullObject])
      BY <2>1, <2>3, <3>1, OtherTable
    <3>. QED BY <1>2, <1>9, <1>12, <2>3, <3>2 DEF Tables
  <2>. QED BY <2>2, <2>3
<1>. QED BY <1>13, <1>14 DEF FortranInvariant

(* A test of an operation that is not complete.                            *)
LEMMA ClearStep ==
  ASSUME FortranInvariant, NEW v \in Variable, NEW k \in Fortran!Kind, k = Fortran!KindOf(v),
         up, handle[v] # -1, object[v] = "operation",
         Fortran!Assign(k, handle[v], NullObject),
         UNCHANGED <<made, table_size, free, handle, object, up>>
  PROVE  FortranInvariant'
<1>1. FortranTypes
  BY DEF FortranInvariant
<1>2. PICK x \in Nat : x = handle[v]
  BY <1>1 DEF FortranTypes
<1>3. PICK e \in Seq(Variable \cup {NullObject}) : e = entry[k]
  BY <1>1 DEF FortranTypes
<1>4. Has(k, handle, v)
  BY DEF Has
<1>5. PICK n \in Nat : n = table_size[k]
  BY <1>1 DEF FortranTypes
<1>6. PICK f \in Seq(Nat) : f = free[k]
  BY <1>1 DEF FortranTypes
<1>7. PICK m \in BOOLEAN : m = made[k]
  BY <1>1 DEF FortranTypes
<1>8. Sound(k, m, n, f, e, handle, object)
  BY <1>3, <1>5, <1>6, <1>7 DEF FortranInvariant, Tables
<1>9. x <= Len(e)
  <2>1. Len(e) \in Nat
    BY Lengths
  <2>2. handle[v] < Len(e)
    BY <1>4, <1>8 DEF Sound
  <2>. QED BY <1>2, <2>1, <2>2
<1>10. /\ Put(entry[k], x, NullObject, entry'[k])
       /\ entry' \in [Fortran!Kind -> Seq(Variable \cup {NullObject})]
       /\ \A j \in Fortran!Kind : j # k => entry'[j] = entry[j]
  <2>1. Fortran!Assign(k, x, NullObject) /\ NullObject \in Variable \cup {NullObject}
    BY <1>2
  <2>. QED BY <1>1, <1>3, <1>9, <2>1, AssignPuts
<1>11. FortranTypes'
  BY <1>1, <1>10 DEF FortranTypes
<1>12. ASSUME NEW j \in Fortran!Kind PROVE Tables(j)'
  <2>1. CASE j = k
    <3>1. PICK e2 : e2 = entry'[k]
      OBVIOUS
    <3>2. Put(e, handle[v], NullObject, e2)
      BY <1>2, <1>3, <1>10, <3>1
    <3>3. handle \in [Variable -> {-1} \cup Nat]
      BY <1>1 DEF FortranTypes
    <3>4. Sound(k, m, n, f, e2, handle, object)
      BY <1>4, <1>8, <3>2, <3>3, ClearKeeps
    <3>. QED BY <1>5, <1>6, <1>7, <2>1, <3>1, <3>4 DEF Tables
  <2>2. CASE j # k
    BY <1>10, <2>2 DEF FortranInvariant, Tables
  <2>. QED BY <2>1, <2>2
<1>. QED BY <1>11, <1>12 DEF FortranInvariant

(* In the beginning no table is made and no variable holds anything.       *)
LEMMA FortranInit == Fortran!Init => FortranInvariant
<1>. SUFFICES ASSUME Fortran!Init PROVE FortranInvariant
  OBVIOUS
<1>1. /\ made = [k \in Fortran!Kind |-> FALSE]
      /\ table_size = [k \in Fortran!Kind |-> First]
      /\ free = [k \in Fortran!Kind |-> << >>] /\ entry = [k \in Fortran!Kind |-> << >>]
      /\ handle = [v \in Variable |-> -1] /\ object = [v \in Variable |-> NullObject]
  BY DEF Fortran!Init, Fortran!None, Variable
<1>2. First \in Nat /\ NullObject \in Object /\ -1 \in {-1} \cup Nat
  BY SizesAssumption DEF Object
<1>3. << >> \in Seq(Nat) /\ << >> \in Seq(Variable \cup {NullObject})
  BY EmptySeq
<1>4. FortranTypes
  BY <1>1, <1>2, <1>3 DEF FortranTypes
<1>5. ASSUME NEW k \in Fortran!Kind PROVE Tables(k)
  <2>1. /\ made[k] = FALSE /\ table_size[k] = First /\ free[k] = << >> /\ entry[k] = << >>
        /\ \A v \in Variable : ~ Has(k, handle, v)
    BY <1>1 DEF Has
  <2>2. PICK f : f = free[k] /\ Len(f) = 0
    BY <2>1, EmptySeq
  <2>3. 1 .. Len(f) = {} /\ 0 <= First
    BY <1>2, <2>2
  <2>4. PICK e : e = entry[k] /\ Len(e) = 0
    BY <2>1, EmptySeq
  <2>5. Sound(k, FALSE, First, f, e, handle, object)
    BY <2>1, <2>2, <2>3, <2>4 DEF Sound
  <2>. QED BY <2>1, <2>2, <2>4, <2>5 DEF Tables
<1>. QED BY <1>4, <1>5 DEF FortranInvariant

(* Every step of the Fortran interface keeps its tables sound.             *)
LEMMA FortranStep == FortranInvariant /\ [Fortran!Next]_Fortran!vars => FortranInvariant'
<1>. SUFFICES ASSUME FortranInvariant, [Fortran!Next]_Fortran!vars PROVE FortranInvariant'
  OBVIOUS
<1>1. FortranTypes
  BY DEF FortranInvariant
<1>2. \A w \in Window : w \in Variable /\ Fortran!KindOf(w) = "win"
  BY DEF Variable, Fortran!Variable, Fortran!KindOf
<1>3. \A r \in Request : r \in Variable /\ Fortran!KindOf(r) = "req"
  BY NamesAssumption DEF Variable, Fortran!Variable, Fortran!KindOf
<1>4. "win" \in Fortran!Kind /\ "req" \in Fortran!Kind
  BY DEF Fortran!Kind
<1>5. "window" \in Object /\ "persistent" \in Object /\ "operation" \in Object
  BY DEF Object
<1>6. ASSUME NEW w \in Window, Fortran!WinCreate(w) PROVE FortranInvariant'
  BY <1>2, <1>5, <1>6, MakeStep DEF Fortran!WinCreate
<1>7. ASSUME NEW w \in Window, Fortran!WinFree(w) PROVE FortranInvariant'
  <2>1. /\ up /\ handle[w] # -1
        /\ Fortran!Assign("win", handle[w], NullObject) /\ Fortran!GiveBack(w)
    BY <1>7 DEF Fortran!WinFree, Fortran!Held, Fortran!None
  <2>. QED BY <1>2, <1>4, <2>1, GiveBackStep
<1>8. ASSUME NEW r \in Request, Fortran!NotifyInit(r) \/ Fortran!Operation(r)
      PROVE  FortranInvariant'
  BY <1>3, <1>5, <1>8, MakeStep DEF Fortran!NotifyInit, Fortran!Operation
<1>9. ASSUME NEW r \in Request, Fortran!RequestFree(r) \/ Fortran!Wait(r)
      PROVE  FortranInvariant'
  <2>1. /\ up /\ handle[r] # -1
        /\ Fortran!Assign("req", handle[r], NullObject) /\ Fortran!GiveBack(r)
    BY <1>9 DEF Fortran!RequestFree, Fortran!Wait, Fortran!Held, Fortran!None
  <2>. QED BY <1>3, <1>4, <2>1, GiveBackStep
<1>10. ASSUME NEW r \in Request, NEW flag \in BOOLEAN, Fortran!Test(r, flag)
       PROVE  FortranInvariant'
  <2>1. /\ up /\ handle[r] # -1 /\ object[r] = "operation"
        /\ Fortran!Assign("req", handle[r], NullObject)
        /\ IF flag THEN Fortran!GiveBack(r)
           ELSE UNCHANGED <<made, table_size, free, handle, object, up>>
    BY <1>10 DEF Fortran!Test, Fortran!Held, Fortran!None, Fortran!tables
  <2>2. CASE flag
    BY <1>3, <1>4, <2>1, <2>2, GiveBackStep
  <2>3. CASE ~ flag
    BY <1>3, <1>4, <2>1, <2>3, ClearStep
  <2>. QED BY <2>2, <2>3
<1>11. ASSUME Fortran!Finalize PROVE FortranInvariant'
  <2>1. << >> \in Seq(Nat) /\ << >> \in Seq(Variable \cup {NullObject})
    BY EmptySeq
  <2>. QED BY <1>1, <1>11, <2>1 DEF Fortran!Finalize, FortranInvariant, FortranTypes
<1>12. ASSUME UNCHANGED Fortran!vars PROVE FortranInvariant'
  BY <1>12 DEF Fortran!vars, Fortran!tables, FortranInvariant, FortranTypes, Tables
<1>13. CASE Fortran!Next
  BY <1>6, <1>7, <1>8, <1>9, <1>10, <1>11, <1>12, <1>13
     DEF Fortran!Next, Fortran!Finished
<1>. QED BY <1>12, <1>13

(* A sound table is what HandlesDistinct says of it.                       *)
LEMMA SoundIsDistinct == FortranInvariant => HandlesDistinct
<1>. SUFFICES ASSUME FortranInvariant PROVE HandlesDistinct
  OBVIOUS
<1>1. FortranTypes
  BY DEF FortranInvariant
<1>2. Fortran!TypeOK
  BY <1>1 DEF FortranTypes, Fortran!TypeOK, Fortran!None, Object, Variable
<1>3. ASSUME up, NEW k \in Fortran!Kind,
             NEW held, held = {v \in Variable : Fortran!KindOf(v) = k /\ handle[v] # -1},
             NEW holding, holding = {handle[v] : v \in held}
      PROVE  /\ \A v, w \in held : handle[v] = handle[w] => v = w
             /\ Fortran!IsInjective(free[k])
             /\ holding \cap Fortran!Range(free[k]) = {}
             /\ made[k] => holding \cup Fortran!Range(free[k]) = 0 .. table_size[k] - 1
             /\ \A v \in held : \/ Fortran!At(k, handle[v]) = v
                                \/ /\ Fortran!At(k, handle[v]) = NullObject
                                   /\ object[v] = "operation"
  <2>1. PICK f \in Seq(Nat) : f = free[k]
    BY <1>1 DEF FortranTypes
  <2>2. PICK n \in Nat : n = table_size[k]
    BY <1>1 DEF FortranTypes
  <2>3. PICK e \in Seq(Variable \cup {NullObject}) : e = entry[k]
    BY <1>1 DEF FortranTypes
  <2>4. PICK l \in Nat : l = Len(f)
    BY Lengths
  <2>5. DOMAIN f = 1 .. l /\ \A i \in 1 .. l : f[i] \in Nat
    BY <2>4, Lengths
  <2>6. Sound(k, made[k], n, f, e, handle, object)
    BY <1>3, <2>1, <2>2, <2>3 DEF FortranInvariant, Tables
  <2>7. PICK a \in Nat : a = Len(e) /\ a <= n
    BY <2>6, Lengths DEF Sound
  <2>8. \A v \in held : v \in Variable /\ Has(k, handle, v) /\ handle[v] \in Nat
    BY <1>1, <1>3 DEF Has, FortranTypes
  <2>9. \A v \in Variable : Has(k, handle, v) => v \in held
    BY <1>3 DEF Has
  <2>10. \A v, w \in held : handle[v] = handle[w] => v = w
    BY <2>6, <2>8 DEF Sound
  <2>11. Fortran!Range(f) = {f[i] : i \in 1 .. l}
    BY <2>5 DEF Fortran!Range
  <2>12. Fortran!IsInjective(f)
    BY <2>4, <2>5, <2>6 DEF Sound, Fortran!IsInjective
  <2>13. \A v \in held : \A i \in 1 .. l : f[i] # handle[v]
    BY <2>4, <2>6, <2>8 DEF Sound
  <2>14. holding \cap Fortran!Range(f) = {}
    BY <1>3, <2>11, <2>13
  <2>15. \A v \in held : handle[v] \in 0 .. n - 1
    BY <2>6, <2>7, <2>8 DEF Sound
  <2>16. \A i \in 1 .. l : f[i] \in 0 .. n - 1
    BY <2>4, <2>5, <2>6 DEF Sound
  <2>17. ASSUME made[k], NEW y \in 0 .. n - 1 PROVE y \in holding \cup Fortran!Range(f)
    <3>1. (\E v \in Variable : Has(k, handle, v) /\ handle[v] = y) \/ \E i \in 1 .. l : f[i] = y
      BY <2>4, <2>6, <2>17 DEF Sound
    <3>2. CASE \E v \in Variable : Has(k, handle, v) /\ handle[v] = y
      BY <1>3, <2>9, <3>2
    <3>3. CASE \E i \in 1 .. l : f[i] = y
      BY <2>11, <3>3
    <3>. QED BY <3>1, <3>2, <3>3
  <2>18. made[k] => holding \cup Fortran!Range(f) = 0 .. n - 1
    BY <1>3, <2>11, <2>15, <2>16, <2>17
  <2>19. \A v \in held : \/ e[handle[v] + 1] = v
                         \/ e[handle[v] + 1] = NullObject /\ object[v] = "operation"
    BY <2>6, <2>8 DEF Sound
  <2>20. \A v \in held : Fortran!At(k, handle[v]) = e[handle[v] + 1]
    BY <2>3 DEF Fortran!At
  <2>. QED BY <2>1, <2>2, <2>10, <2>12, <2>14, <2>18, <2>19, <2>20
<1>. QED BY <1>2, <1>3
         DEF HandlesDistinct, Fortran!HandlesDistinct, Fortran!None, Variable

(* An index of a Fortran table is held by one variable or once on the free *)
(* list, none is lost, and what a variable finds behind its index is its   *)
(* own object: for any number of variables and any sizes of the tables.    *)
THEOREM HandlesDistinctCorrect == Fortran!Spec => []HandlesDistinct
<1>1. Fortran!Init => FortranInvariant
  BY FortranInit
<1>2. FortranInvariant /\ [Fortran!Next]_Fortran!vars => FortranInvariant'
  BY FortranStep
<1>3. FortranInvariant => HandlesDistinct
  BY SoundIsDistinct
<1>. QED BY <1>1, <1>2, <1>3, PTL DEF Fortran!Spec

===========================================================================
